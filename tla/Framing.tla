------------------------------- MODULE Framing -------------------------------
(* What mysyscall puts in front of a message and how tproxy cuts the byte    *)
(* stream of a connection into messages again.  A unit is a header or a      *)
(* piece of a body; a header is complete, Reception has those that are not.  *)
EXTENDS Naturals, Sequences

Header(n, len) == [kind |-> "header", call |-> n, size |-> len]

\* The first k units of the body of call n.
Body(n, k) == [i \in 1..k |-> [kind |-> "body", call |-> n, part |-> i]]

\* What stands on the stream when the kernel takes only the first bytes of a
\* header: fewer than four are no header at all, with four or more the loop takes
\* bytes of the message for the rest of it, and any length may come out.
Stub(n) == [kind |-> "body", call |-> n, part |-> 0]
TornHeaders(n, sizes) == {Stub(n)} \cup {Header(n, size) : size \in sizes}

\* From here on the connection is passed through unexamined.
Raw == <<[kind |-> "raw"]>>

\* Where the loop of do_receive is in a stream: before a header, in a message,
\* past what it examines, or at its end; and the messages it has cut off.
Expecting(msgs) == [at |-> "header", size |-> 0, part |-> <<>>, msgs |-> msgs]
Filling(size, part, msgs) ==
  IF Len(part) < size THEN [at |-> "body", size |-> size, part |-> part, msgs |-> msgs]
                      ELSE Expecting(Append(msgs, part))
Passing(msgs) == [at |-> "raw", size |-> 0, part |-> <<>>, msgs |-> msgs]
Ended(msgs) == [at |-> "closed", size |-> 0, part |-> <<>>, msgs |-> msgs]

\* A header is looked at; the units of a message are not.
Take(c, unit) ==
  CASE c.at \in {"raw", "closed"} -> c
    [] c.at = "body" -> Filling(c.size, Append(c.part, unit), c.msgs)
    [] c.at = "header" /\ unit.kind = "header" -> Filling(unit.size, <<>>, c.msgs)
    [] c.at = "header" /\ unit.kind # "header" -> Passing(Append(c.msgs, Raw))
=============================================================================
