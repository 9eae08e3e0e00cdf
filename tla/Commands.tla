------------------------------ MODULE Commands ------------------------------
(* How commands get into tproxy and when it ends: main starts the threads    *)
(* its strategy asks for, Repl::readline and Command::read_file put commands *)
(* into a queue, and run_read_cmd takes them out until it finds "exit".      *)
(*                                                                           *)
(* With FILE the main thread reads the file and then runs the commands; with *)
(* CMD it keeps reading the prompt while a second thread runs them.          *)
EXTENDS Naturals, Sequences

CONSTANTS
  Script        \* with what tproxy may be run: a strategy and a list of lines,
                \* records with a field op

Line == UNION {{s.lines[i] : i \in DOMAIN s.lines} : s \in Script}
Ops == {"cmd", "other", "file", "exit", "blank"}

ASSUME CommandsAssumption ==
  \A s \in Script :
    /\ s.strategy \in {"not_set", "direct", "cmd", "file"}
    /\ s.lines \in Seq(Line) /\ \A i \in DOMAIN s.lines : s.lines[i].op \in Ops

VARIABLES
  strategy,     \* what configFile.load has found
  main,         \* where the main thread is
  runner,       \* run_read_cmd: not called, running, returned
  input,        \* the lines still to be read or typed
  cmds,         \* the queue
  given,        \* history: the lines entered, and where
  ran           \* history: the commands run_read_cmd has begun

commandVars == <<strategy, main, runner, input, cmds, given, ran>>

Given == [line : Line, by : {"file", "prompt"}]

CommandsTypeOK ==
  /\ strategy \in {s.strategy : s \in Script} /\ input \in Seq(Line)
  /\ main \in {"redirecting", "polling", "file", "nested", "prompt", "commands",
               "joining", "ended"}
  /\ runner \in {"off", "on", "returned"}
  /\ cmds \in Seq(Line \cup {[op |-> "exit"]})
  /\ given \in Seq(Given)
  /\ ran \in Seq(Line)

\* Where main goes with each strategy.
MainOf(s) == CASE s = "not_set" -> "redirecting"
               [] s = "direct"  -> "polling"
               [] s = "file"    -> "file"
               [] s = "cmd"     -> "prompt"

CommandsInit(s) ==
  /\ strategy = s.strategy /\ input = s.lines
  /\ main = MainOf(strategy)
  /\ runner = IF strategy = "cmd" THEN "on" ELSE "off"
  /\ cmds = <<>> /\ given = <<>> /\ ran = <<>>

Exit == [op |-> "exit"]

-----------------------------------------------------------------------------
\* The constructor of the global Command runs before main loads configFile.
StrategyWhenConstructed == "not_set"
is_file == StrategyWhenConstructed = "file"

Enqueue(line) == cmds' = IF line.op = "blank" THEN cmds ELSE Append(cmds, line)

Enter(line, by) ==
  /\ input # <<>> /\ line = Head(input) /\ input' = Tail(input)
  /\ given' = Append(given, [line |-> line, by |-> by])

\* One line of read_file: whatever it says, it is only enqueued.
ReadLine(line) ==
  /\ main \in {"file", "nested"}
  /\ Enter(line, "file")
  /\ Enqueue(line)
  /\ UNCHANGED <<strategy, main, runner, ran>>

EndOfFile ==
  /\ main \in {"file", "nested"}
  /\ main' = IF main = "file" THEN "commands" ELSE "prompt"
  /\ runner' = IF main = "file" THEN "on" ELSE runner
  /\ cmds' = IF is_file THEN Append(cmds, Exit) ELSE cmds
  /\ UNCHANGED <<strategy, input, given, ran>>

\* One line of the prompt.
TypeLine(line) ==
  /\ main = "prompt" /\ line.op # "exit"
  /\ Enter(line, "prompt")
  /\ IF line.op = "file" THEN main' = "nested" /\ cmds' = cmds
                         ELSE main' = "prompt" /\ Enqueue(line)
  /\ UNCHANGED <<strategy, runner, ran>>

\* "exit", or the end of the input.
LeavePrompt ==
  /\ main = "prompt"
  /\ main' = "joining"
  /\ cmds' = Append(cmds, Exit)
  /\ UNCHANGED <<strategy, runner, input, given, ran>>

\* Mutant: the newest command first.
DequeueLast ==
  /\ runner = "on" /\ cmds # <<>>
  /\ LET last == cmds[Len(cmds)]
     IN  /\ runner' = IF last.op = "exit" THEN "returned" ELSE "on"
         /\ ran' = IF last.op = "exit" THEN ran ELSE Append(ran, last)
  /\ cmds' = SubSeq(cmds, 1, Len(cmds) - 1)
  /\ UNCHANGED <<strategy, main, input, given>>

\* Mutant: "exit" is a command like any other.
DequeueOn ==
  /\ runner = "on" /\ cmds # <<>>
  /\ cmds' = Tail(cmds)
  /\ ran' = IF Head(cmds).op = "exit" THEN ran ELSE Append(ran, Head(cmds))
  /\ UNCHANGED <<strategy, main, runner, input, given>>

Dequeue ==
  /\ runner = "on"
  /\ cmds # <<>> \/ is_file
  /\ IF cmds = <<>> \/ Head(cmds).op = "exit"
       THEN runner' = "returned" /\ ran' = ran
       ELSE runner' = "on" /\ ran' = Append(ran, Head(cmds))
  /\ cmds' = IF cmds = <<>> THEN cmds ELSE Tail(cmds)
  /\ UNCHANGED <<strategy, main, input, given>>

\* The end of main, and with it of the detached epoll thread.
EndMain ==
  /\ main \in {"commands", "joining"} /\ runner = "returned"
  /\ main' = "ended"
  /\ UNCHANGED <<strategy, runner, input, cmds, given, ran>>

Entering ==
  \/ \E line \in Line : ReadLine(line) \/ TypeLine(line)
  \/ EndOfFile \/ LeavePrompt

-----------------------------------------------------------------------------
IsExit(g) == g.line.op = "exit"
Runs(g) == g.line.op # "blank" /\ ~(g.by = "prompt" /\ g.line.op = "file")

\* The commands in the lines gs, up to the first "exit".
CommandsIn(gs) ==
  LET Upto[n \in 0..Len(gs)] ==
        IF n = 0 THEN <<>>
        ELSE IF Runs(gs[n]) /\ \A i \in 1..n : ~IsExit(gs[i])
             THEN Append(Upto[n - 1], gs[n].line) ELSE Upto[n - 1]
  IN  Upto[Len(gs)]

Entered == CommandsIn(given)

\* The commands run are those entered, by file or at the prompt, in order and
\* without a gap, and none that was entered after an "exit"; when the process
\* has ended all of them have been run (read_file, readline, dequeue).
RunsWhatWasEntered ==
  /\ Len(ran) <= Len(Entered) /\ \A i \in DOMAIN ran : ran[i] = Entered[i]
  /\ main = "ended" => ran = Entered
=============================================================================
