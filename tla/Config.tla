-------------------------------- MODULE Config --------------------------------
(* The configuration file, which tproxy (ConfigFile) and every program under  *)
(* mysyscall (config.cpp) read on their own, line by line: tproxy to know     *)
(* which destinations it masquerades, the program to know which of its        *)
(* connections to frame.                                                      *)
(*                                                                            *)
(* Addresses are scaled down: two octets of OctetBits bits. A sin_port is its *)
(* value in memory; as in the code it holds a port or, in map-cidr lines, a   *)
(* prefix length, and is 0 if missing.                                        *)
EXTENDS Integers, Sequences, Functions

CONSTANTS
  OctetBits,    \* bits of an octet, of which an address has two
  Ports,        \* what sin_port may be
  Line,         \* the lines that may be in a file
  File,         \* the files that may be read: sequences of lines
  inet_aton     \* the addresses of the names that are written like one

Bits == 2 * OctetBits

\* 1 << n, by recursion: the provers know nothing of 2^n.
Power[n \in 0..Bits] == IF n = 0 THEN 1 ELSE 2 * Power[n - 1]

Ip == 0..Power[Bits] - 1
Sockaddr == [ip : Ip, port : Ports]
Missing == -1      \* no port in the text: stoi throws

IsMap(l) == l.cmd \in {"map-addr", "map-cidr"}

\* A prefix longer than an address would be a shift by a negative amount in
\* addr_mask, which is undefined.
ASSUME ConfigAssumption ==
  /\ OctetBits \in Nat /\ Ports \subseteq Nat
  /\ File \subseteq Seq(Line)
  /\ inet_aton \in [DOMAIN inet_aton -> Ip]
  /\ \A l \in Line :
       /\ IsMap(l) => l.from \in [ip : Ip, port : Ports \cup {0, Missing}]
       /\ l.cmd = "map-cidr" => l.from.port <= Bits

None == [none |-> TRUE]

VARIABLES
  file,                             \* the file both read
  tproxy_line, client_line,         \* how many lines each has read
  tproxy_up, client_up,             \* FALSE once an exception has ended it
  addr_map, cidr_map,               \* tproxy
  addr_to_node, node_to_addr, strategy, router_addr,
  concern_addr_set, subnet_suffix,  \* the program
  router

nodeVars == <<addr_to_node, node_to_addr>>
tproxyVars == <<tproxy_line, tproxy_up, addr_map, cidr_map, nodeVars, strategy, router_addr>>
clientVars == <<client_line, client_up, concern_addr_set, subnet_suffix, router>>
configVars == <<file, tproxyVars, clientVars>>

ConfigInit ==
  /\ file \in File
  /\ tproxy_line = 0 /\ client_line = 0 /\ tproxy_up = TRUE /\ client_up = TRUE
  /\ addr_map = <<>> /\ cidr_map = <<>>
  /\ addr_to_node = <<>> /\ node_to_addr = <<>>
  /\ strategy = "not_set" /\ router_addr = None
  /\ concern_addr_set = {} /\ subnet_suffix = {} /\ router = None

\* m[k] = v of a map.
Put(m, k, v) == [x \in DOMAIN m \cup {k} |-> IF x = k THEN v ELSE m[x]]

\* addr & (unsigned(-1) << (32 - length)), in the order of the host.
Masked(ip, length) == LET low == Power[Bits - length] IN (ip \div low) * low

\* s_addr as the machine compares it: the first octet is the lowest.
Raw(ip) == LET octet == Power[OctetBits] IN (ip % octet) * octet + ip \div octet

cmp_addr_less(a, b) == Raw(a.ip) < Raw(b.ip) \/ (a.ip = b.ip /\ a.port < b.port)

-----------------------------------------------------------------------------
(* tproxy: one iteration of ConfigFile::load.                                 *)

\* Mutant: key and value exchanged.
MapLineSwapped(l) ==
  LET ok == l.from.port # 0 /\ l.to.port # 0 IN
  /\ addr_map' = IF ok /\ l.cmd = "map-addr" THEN Put(addr_map, l.to, l.from) ELSE addr_map
  /\ cidr_map' = IF ok /\ l.cmd = "map-cidr" THEN Put(cidr_map, l.to, l.from) ELSE cidr_map

MapLine(l) ==
  LET ok == l.from.port # 0 /\ l.to.port # 0 IN
  /\ addr_map' = IF ok /\ l.cmd = "map-addr" THEN Put(addr_map, l.from, l.to) ELSE addr_map
  /\ cidr_map' = IF ok /\ l.cmd = "map-cidr" THEN Put(cidr_map, l.from, l.to) ELSE cidr_map

\* Mutant: the first address of a name is kept.
NamedOnce(name, ip) ==
  /\ addr_to_node' = Put(addr_to_node, ip, name)
  /\ node_to_addr' = IF name \in DOMAIN node_to_addr THEN node_to_addr
                     ELSE Put(node_to_addr, name, ip)

Named(name, ip) ==
  /\ addr_to_node' = Put(addr_to_node, ip, name)
  /\ node_to_addr' = Put(node_to_addr, name, ip)

StrategyLine(l) ==
  strategy' = IF strategy = "not_set" /\ l.value \in {"direct", "cmd", "file"}
                   /\ (l.n > 2 => l.value = "file")
              THEN l.value ELSE strategy

\* What ends tproxy: stoi without digits, and tokens[2] of a strategy line
\* that has only two.
LoadFails(l) ==
  \/ IsMap(l) /\ l.n = 3 /\ Missing \in {l.from.port, l.to.port}
  \/ l.cmd = "router" /\ l.addr.port = Missing
  \/ l.cmd = "strategy" /\ l.value = "file" /\ l.n = 2 /\ strategy = "not_set"

load ==
  /\ tproxy_up /\ tproxy_line < Len(file)
  /\ tproxy_line' = tproxy_line + 1
  /\ LET l == file[tproxy_line'] IN
       /\ tproxy_up' = ~LoadFails(l)
       /\ IF IsMap(l) /\ l.n = 3 /\ ~LoadFails(l)
            THEN MapLine(l) ELSE UNCHANGED <<addr_map, cidr_map>>
       /\ IF l.cmd = "node" /\ l.n = 3 /\ l.ip # 0 THEN Named(l.name, l.ip)
          ELSE IF l.cmd = "router" /\ l.addr.port > 0 THEN Named("router", l.addr.ip)
          ELSE UNCHANGED nodeVars
       /\ router_addr' = IF l.cmd = "router" /\ l.addr.port > 0 THEN l.addr ELSE router_addr
       /\ IF l.cmd = "strategy" /\ ~LoadFails(l)
            THEN StrategyLine(l) ELSE UNCHANGED strategy
  /\ UNCHANGED <<file, clientVars>>

Covering(addr) ==
  {o \in DOMAIN cidr_map : Masked(o.ip, o.port) = Masked(addr.ip, o.port)}

\* Mutant: the last of the map is taken.
FirstOfLast(S) == CHOOSE o \in S : \A p \in S \ {o} : cmp_addr_less(p, o)

FirstOf(S) == CHOOSE o \in S : \A p \in S \ {o} : cmp_addr_less(o, p)

Translated(ip, masq) == Masked(masq.ip, masq.port) + (ip - Masked(ip, masq.port))

get_masquerade_addr(addr) ==
  IF addr \in DOMAIN addr_map THEN addr_map[addr]
  ELSE IF Covering(addr) = {} THEN addr
  ELSE [addr EXCEPT !.ip = Translated(@, cidr_map[FirstOf(Covering(addr))])]

\* "" and port -1: not found.
get_node_name(ip) == IF ip \in DOMAIN addr_to_node THEN addr_to_node[ip] ELSE ""

get_node_addr(name) ==
  IF name \in DOMAIN node_to_addr THEN [ip |-> node_to_addr[name], port |-> 0]
  ELSE IF name \in DOMAIN inet_aton THEN [ip |-> inet_aton[name], port |-> 0]
  ELSE [ip |-> 0, port |-> -1]

-----------------------------------------------------------------------------
(* A program: one iteration of init_config_file.                              *)

\* Mutant: the address of a map-cidr line is kept as it is written.
ConcernUnmasked(l) == concern_addr_set' = concern_addr_set \cup {l.from}

Concern(l) ==
  concern_addr_set' = concern_addr_set \cup
    {IF l.cmd = "map-addr" THEN l.from
     ELSE [ip |-> Masked(l.from.ip, l.from.port), port |-> l.from.port]}

ClientFails(l) == \/ IsMap(l) /\ l.from.port = Missing
                  \/ l.cmd = "router" /\ router = None /\ l.addr.port = Missing

init_config_file ==
  /\ client_up /\ client_line < Len(file)
  /\ client_line' = client_line + 1
  /\ LET l == file[client_line'] IN
       /\ client_up' = ~ClientFails(l)
       /\ IF IsMap(l) /\ l.from.port > 0
            THEN /\ Concern(l)
                 /\ subnet_suffix' = subnet_suffix \cup
                      (IF l.cmd = "map-cidr" THEN {l.from.port} ELSE {})
            ELSE UNCHANGED <<concern_addr_set, subnet_suffix>>
       /\ IF l.cmd = "router" /\ router = None /\ l.addr.port > 0
            THEN router' \in {None, l.addr} ELSE UNCHANGED router
  /\ UNCHANGED <<file, tproxyVars>>

check_addr_is_concerned(addr) ==
  \/ addr \in concern_addr_set
  \/ \E i \in subnet_suffix : [ip |-> Masked(addr.ip, i), port |-> i] \in concern_addr_set

ConfigNext == load \/ init_config_file
ConfigSpec == ConfigInit /\ [][ConfigNext]_configVars

-----------------------------------------------------------------------------
Read == /\ tproxy_up /\ client_up
        /\ tproxy_line = Len(file) /\ client_line = Len(file)

Lines == {file[i] : i \in DOMAIN file}
MapLines == {l \in Lines : IsMap(l)}

\* The lines the two readers understand alike.
Complete(l) == l.n = 3 /\ l.to.port # 0

\* A port that is a prefix length to a reader who keeps both in one set.
PortIsSuffix == \E l \in MapLines : l.cmd = "map-addr" /\ l.from.port \in subnet_suffix

HasRule(addr) == addr \in DOMAIN addr_map \/ Covering(addr) # {}

\* What tproxy masquerades the program that connects frames; and where a prefix
\* decides, so does the program that accepts, which sees another port
\* (get_masquerade_addr, check_addr_is_concerned).
MasqueradedAreFramed ==
  Read => \A addr \in Sockaddr :
    /\ HasRule(addr) => check_addr_is_concerned(addr)
    /\ Covering(addr) # {} =>
         \A port \in Ports : check_addr_is_concerned([addr EXCEPT !.port = port])

\* Nothing else is framed, unless a line is incomplete for tproxy only or a
\* port is taken for a prefix length (concern_addr_set holds both).
FramedAreMasqueraded ==
  Read => \A addr \in Sockaddr :
    check_addr_is_concerned(addr)
      => HasRule(addr) \/ PortIsSuffix \/ \E l \in MapLines : ~Complete(l)

\* The rule for an address is the last exact one of the file, else the widest
\* prefix around it, although the map is ordered by bytes in memory: nested
\* networks come in the order of their size if they are written with zeros
\* behind the prefix (cmp_addr_less, get_masquerade_addr).
Canonical(l) == l.cmd = "map-cidr" => l.from.ip = Masked(l.from.ip, l.from.port)
Rules(cmd) == {i \in DOMAIN file : file[i].cmd = cmd /\ Complete(file[i]) /\ file[i].from.port # 0}
WidestPrefix ==
  Read /\ (\A l \in MapLines : Canonical(l)) =>
    \A addr \in Sockaddr :
      LET exact == {i \in Rules("map-addr") : file[i].from = addr}
          around == {i \in Rules("map-cidr") :
                       LET f == file[i].from IN Masked(addr.ip, f.port) = f.ip}
          masq == get_masquerade_addr(addr)
      IN  /\ exact # {} => \E i \in exact : (\A j \in exact : j <= i) /\ masq = file[i].to
          /\ exact = {} /\ around # {} =>
               \E i \in around :
                 /\ \A j \in around : \/ file[i].from.port < file[j].from.port
                                      \/ file[i].from.port = file[j].from.port /\ j <= i
                 /\ masq.ip = Translated(addr.ip, file[i].to) /\ masq.port = addr.port
          /\ exact = {} /\ around = {} => masq = addr

\* The name tproxy prints for an address is the one by which commands reach
\* it, unless a later line has given that name to another address
\* (get_node_name, get_node_addr, and "router").
NameOf(l) == IF l.cmd = "router" THEN "router" ELSE l.name
IpOf(l) == IF l.cmd = "router" THEN l.addr.ip ELSE l.ip
NameLines == {i \in DOMAIN file : file[i].cmd \in {"node", "router"}}
NamesResolve ==
  Read => \A ip \in DOMAIN addr_to_node :
    \/ get_node_addr(get_node_name(ip)) = [ip |-> ip, port |-> 0]
    \/ \E i, j \in NameLines :
         /\ i < j /\ NameOf(file[i]) = NameOf(file[j])
         /\ IpOf(file[i]) = ip /\ IpOf(file[j]) # ip
=============================================================================
