------------------------------- MODULE MCTproxy -------------------------------
(* Values for TLC: two programs one after the other on node n1 and one on n2, *)
(* commanded by two lines, or none and any three lines.                       *)
EXTENDS Tproxy

TwoOnOne == [p1 |-> "n1", p2 |-> "n1", p3 |-> "n2"]

ToN1 == [op |-> "cmd", to |-> "n1", text |-> "inc"]
LongToN1 == [op |-> "cmd", to |-> "n1", text |-> "long"]
ThrowToN2 == [op |-> "cmd", to |-> "n2", text |-> "throw"]
Commanded ==
  [strategy : {"file"}, programs : {{"p1", "p2", "p3"}},
   lines : {<<ToN1, ThrowToN2>>, <<LongToN1, ToN1>>}]

Plain == {[op |-> o] : o \in {"other", "file", "exit", "blank"}}
Uncommanded ==
  [strategy : {"file", "cmd"}, programs : {{}}, lines : Plain \X Plain \X Plain]

Scripts ==
  Commanded \cup Uncommanded
    \cup {[strategy |-> "direct", programs |-> {"p1", "p2", "p3"}, lines |-> <<>>],
          [strategy |-> "not_set", programs |-> {}, lines |-> <<>>]}
=============================================================================
