------------------------------- MODULE MCConfig -------------------------------
(* Values for TLC: all files of up to three lines out of these.               *)
EXTENDS Config

A(ip, port) == [ip |-> ip, port |-> port]
Map(cmd, n, from, to) == [cmd |-> cmd, n |-> n, from |-> from, to |-> to]

\* Octets have two bits: 4 is 1.0, 6 is 1.2, 8 is 2.0; 9 is a port.
SomeLines ==
  { Map("map-cidr", 3, A(4, 2), A(12, 2)),  \* 1.0/2 to 3.0/2
    Map("map-cidr", 3, A(6, 3), A(10, 3)),  \* nested in it
    Map("map-cidr", 3, A(4, 3), A(8, 3)),   \* nested, with the same address
    Map("map-cidr", 3, A(0, 1), A(8, 1)),   \* around both
    Map("map-cidr", 3, A(5, 2), A(13, 2)),  \* bits behind the prefix
    Map("map-cidr", 3, A(0, 0), A(8, 2)),   \* the prefix length is 0
    Map("map-cidr", 2, A(8, 2), A(0, 0)),   \* no masquerade
    Map("map-cidr", 4, A(8, 3), A(4, 3)),   \* a word too many
    Map("map-addr", 3, A(4, 9), A(11, 9)),
    Map("map-addr", 3, A(4, 9), A(12, 9)),  \* again
    Map("map-addr", 3, A(8, 2), A(14, 9)),  \* a port that is a prefix length
    Map("map-addr", 3, A(7, Missing), A(11, 9)),
    Map("map-addr", 3, A(7, 9), A(11, Missing)),
    [cmd |-> "node", n |-> 3, name |-> "n1", ip |-> 4],
    [cmd |-> "node", n |-> 3, name |-> "n1", ip |-> 6],
    [cmd |-> "node", n |-> 3, name |-> "1.2", ip |-> 4],
    [cmd |-> "router", n |-> 2, addr |-> A(4, 9)],
    [cmd |-> "router", n |-> 2, addr |-> A(5, Missing)],
    [cmd |-> "strategy", n |-> 2, value |-> "file"],
    [cmd |-> "strategy", n |-> 3, value |-> "file"],
    [cmd |-> "strategy", n |-> 2, value |-> "cmd"] }

\* A name that is written like the address of another node.
Dotted == [name \in {"1.2"} |-> 6]

Files == SomeLines \X SomeLines \X SomeLines
=============================================================================
