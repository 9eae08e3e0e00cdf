-------------------------------- MODULE Tproxy --------------------------------
(* The tproxy process: what main starts with each strategy, and how a command *)
(* line comes to a program.  Without a strategy it is SimpleRedirect; with one *)
(* the epoll thread keeps the control connections, and with FILE and CMD a     *)
(* thread runs the commands.  The traffic of the nodes is TcpNetwork.          *)
EXTENDS Commands, ControlChannel, SimpleRedirect

ASSUME TproxyAssumption ==
  /\ \A s \in Script : s.programs \subseteq Proc
  /\ \A l \in Line : l.op = "cmd" => l.to \in Node /\ l.text \in Texts

tproxyVars == <<commandVars, controlVars, redirectVars>>

\* A script also says which programs are started.
TproxyInit ==
  /\ \E s \in Script : CommandsInit(s) /\ ControlInit(s.programs)
  /\ RedirectInit

\* A line for send_cmd is a record that says to whom and what.
CmdOf(line) == [to |-> line.to, id |-> Len(ran) + 1, text |-> line.text]

\* The main thread, and with CMD the prompt.
MainThread ==
  /\ up /\ Entering
  /\ UNCHANGED <<controlVars, redirectVars>>

\* run_read_cmd takes the next command when send_cmd has come back.
RunCommand ==
  /\ up /\ sending = NotSending
  /\ Dequeue
  /\ IF ran' # ran /\ ran'[Len(ran')].op = "cmd"
       THEN send_cmd(CmdOf(ran'[Len(ran')]))
       ELSE UNCHANGED controlVars
  /\ UNCHANGED redirectVars

\* main returns: the kernel closes what is open.
Return ==
  /\ up /\ EndMain
  /\ up' = FALSE /\ sock' = [f \in Fd |-> NoOne]
  /\ UNCHANGED <<programVars, wire, backlog, listen_event, tableVars, epollVars,
                 sending, overlapped, redirectVars>>

ControlSteps ==
  /\ strategy # "not_set"
  /\ Programs \/ CtlEpoll \/ Sending
  /\ UNCHANGED <<commandVars, redirectVars>>

RedirectSteps ==
  /\ strategy = "not_set"
  /\ Others \/ Redirecting
  /\ UNCHANGED <<commandVars, controlVars>>

TproxyNext == MainThread \/ RunCommand \/ Return \/ ControlSteps \/ RedirectSteps

\* The threads go on: the epoll thread, the command thread while there are
\* commands, the loop in main; and a file ends.  Nobody has to connect, to
\* answer or to type.
TproxyFairness ==
  /\ WF_tproxyVars(ControlSteps /\ CtlEpoll)
  /\ WF_tproxyVars(ControlSteps /\ Sending)
  /\ WF_tproxyVars(MainThread /\ EndOfFile)
  /\ WF_tproxyVars(RunCommand) /\ WF_tproxyVars(Return)
  /\ WF_tproxyVars(RedirectSteps /\ Redirecting)

TproxySpec == TproxyInit /\ [][TproxyNext]_tproxyVars /\ TproxyFairness

-----------------------------------------------------------------------------
\* The variables of all three parts keep their types.
TproxyTypeOK == CommandsTypeOK /\ ControlTypeOK /\ RedirectTypeOK

\* An "exit" in the queue ends run_read_cmd, and with it the process, unless it
\* stands in a file read from the prompt: the prompt then goes on taking
\* commands that nobody runs (Repl::readline, run_read_cmd, main).
ExitEnds ==
  Exit \in Range(cmds) ~> \/ ~up
                          \/ runner = "returned" /\ main \in {"nested", "prompt"}
=============================================================================
