------------------------------ MODULE ConfigProofs ------------------------------
(* What the programs frame and what tproxy masquerades, and which rule applies *)
(* to an address, for every file, every size of address and all ports, however *)
(* the two readers take turns.                                                 *)
EXTENDS Config, Recursion, TLAPS

FileOK == file \in Seq(Line)

\* What tproxy has comes from lines it has read.
RuleAt(o, cmd) ==
  \E i \in 1..tproxy_line : file[i].cmd = cmd /\ file[i].from = o /\ o.port \in Nat \ {0}
RulesFromFile ==
  /\ tproxy_line \in 0..Len(file)
  /\ \A o \in DOMAIN addr_map : RuleAt(o, "map-addr")
  /\ \A o \in DOMAIN cidr_map : RuleAt(o, "map-cidr")

\* A program has what it needs of the lines it has read.
Framed(l) ==
  /\ l.cmd = "map-addr" => l.from \in concern_addr_set
  /\ l.cmd = "map-cidr" =>
       /\ [ip |-> Masked(l.from.ip, l.from.port), port |-> l.from.port] \in concern_addr_set
       /\ l.from.port \in subnet_suffix
LinesFramed ==
  /\ client_line \in 0..Len(file)
  /\ \A i \in 1..client_line :
       IsMap(file[i]) /\ file[i].from.port \in Nat \ {0} => Framed(file[i])

RulesInv == FileOK /\ RulesFromFile /\ LinesFramed

\* A map has the key it is given and those it had.
LEMMA PutDomain ==
  ASSUME NEW m, NEW k, NEW v
  PROVE  DOMAIN Put(m, k, v) = DOMAIN m \cup {k}
BY DEF Put

\* Before anything is read there are no rules.
LEMMA RulesInit == ConfigInit => RulesInv
<1> SUFFICES ASSUME ConfigInit PROVE RulesInv
  OBVIOUS
<1>1. FileOK
  BY ConfigAssumption DEF ConfigInit, FileOK
<1>2. DOMAIN addr_map = {} /\ DOMAIN cidr_map = {}
  BY DEF ConfigInit
<1>3. RulesFromFile
  BY <1>1, <1>2 DEF ConfigInit, RulesFromFile, FileOK
<1>4. LinesFramed
  BY <1>1 DEF ConfigInit, LinesFramed, FileOK
<1> QED BY <1>1, <1>3, <1>4 DEF RulesInv

\* A rule stays where it was found.
LEMMA RulesKept ==
  ASSUME RulesInv, file' = file, tproxy_line' \in {tproxy_line, tproxy_line + 1},
         NEW o, NEW cmd, RuleAt(o, cmd)
  PROVE  RuleAt(o, cmd)'
<1>1. 1..tproxy_line \subseteq 1..tproxy_line'
  BY DEF RulesInv, RulesFromFile
<1> QED BY <1>1 DEF RuleAt

\* One line more of tproxy.
LEMMA LoadKeeps ==
  ASSUME RulesInv, load
  PROVE  RulesInv'
<1> DEFINE l == file[tproxy_line + 1]
           ok == l.from.port # 0 /\ l.to.port # 0
           taken == IsMap(l) /\ l.n = 3 /\ ~LoadFails(l)
<1>1. /\ file' = file /\ tproxy_line' = tproxy_line + 1
      /\ tproxy_line \in 0..Len(file) /\ tproxy_line < Len(file)
  BY DEF load, RulesInv, RulesFromFile
<1>2. l \in Line /\ tproxy_line' \in 1..Len(file)
  BY <1>1 DEF RulesInv, FileOK
<1>3. FileOK' /\ LinesFramed'
  BY <1>1 DEF load, RulesInv, FileOK, LinesFramed, clientVars, Framed
<1>4. taken /\ ok => l.from.port \in Nat \ {0}
  BY <1>2, ConfigAssumption DEF LoadFails, Missing
<1>5. ASSUME NEW o \in DOMAIN addr_map' PROVE RuleAt(o, "map-addr")'
  <2>1. CASE taken /\ ok /\ l.cmd = "map-addr"
    <3>1. addr_map' = Put(addr_map, l.from, l.to)
      BY <1>1, <2>1 DEF load, MapLine
    <3>2. o \in DOMAIN addr_map \/ o = l.from
      <4>1. DOMAIN addr_map' = DOMAIN addr_map \cup {l.from}
        BY <3>1 DEF Put
      <4> QED BY <1>5, <4>1
    <3>3. CASE o = l.from
      BY <1>1, <1>2, <1>4, <2>1, <3>3 DEF RuleAt
    <3>4. CASE o \in DOMAIN addr_map
      BY <1>1, <3>4, RulesKept DEF RulesInv, RulesFromFile
    <3> QED BY <3>2, <3>3, <3>4
  <2>2. CASE ~(taken /\ ok /\ l.cmd = "map-addr")
    <3>1. addr_map' = addr_map
      <4>1. CASE taken
        BY <1>1, <2>2, <4>1 DEF load, MapLine
      <4>2. CASE ~taken
        BY <1>1, <4>2 DEF load
      <4> QED BY <4>1, <4>2
    <3> QED BY <1>1, <1>5, <3>1, RulesKept DEF RulesInv, RulesFromFile
  <2> QED BY <2>1, <2>2
<1>6. ASSUME NEW o \in DOMAIN cidr_map' PROVE RuleAt(o, "map-cidr")'
  <2>1. CASE taken /\ ok /\ l.cmd = "map-cidr"
    <3>1. cidr_map' = Put(cidr_map, l.from, l.to)
      BY <1>1, <2>1 DEF load, MapLine
    <3>2. o \in DOMAIN cidr_map \/ o = l.from
      <4>1. DOMAIN cidr_map' = DOMAIN cidr_map \cup {l.from}
        BY <3>1 DEF Put
      <4> QED BY <1>6, <4>1
    <3>3. CASE o = l.from
      BY <1>1, <1>2, <1>4, <2>1, <3>3 DEF RuleAt
    <3>4. CASE o \in DOMAIN cidr_map
      BY <1>1, <3>4, RulesKept DEF RulesInv, RulesFromFile
    <3> QED BY <3>2, <3>3, <3>4
  <2>2. CASE ~(taken /\ ok /\ l.cmd = "map-cidr")
    <3>1. cidr_map' = cidr_map
      <4>1. CASE taken
        BY <1>1, <2>2, <4>1 DEF load, MapLine
      <4>2. CASE ~taken
        BY <1>1, <4>2 DEF load
      <4> QED BY <4>1, <4>2
    <3> QED BY <1>1, <1>6, <3>1, RulesKept DEF RulesInv, RulesFromFile
  <2> QED BY <2>1, <2>2
<1>7. RulesFromFile'
  BY <1>1, <1>2, <1>5, <1>6 DEF RulesFromFile
<1> QED BY <1>3, <1>7 DEF RulesInv

\* One line more of a program.
LEMMA ClientKeeps ==
  ASSUME RulesInv, init_config_file
  PROVE  RulesInv'
<1> DEFINE l == file[client_line + 1]
<1>1. /\ file' = file /\ client_line' = client_line + 1
      /\ client_line \in 0..Len(file) /\ client_line < Len(file)
  BY DEF init_config_file, RulesInv, LinesFramed
<1>2. FileOK' /\ RulesFromFile'
  BY <1>1 DEF init_config_file, RulesInv, FileOK, RulesFromFile, tproxyVars, RuleAt
<1>3. concern_addr_set \subseteq concern_addr_set' /\ subnet_suffix \subseteq subnet_suffix'
  BY DEF init_config_file, Concern
<1>4. ASSUME NEW m, m = l, IsMap(m), m.from.port \in Nat \ {0}
      PROVE  Framed(m)'
  <2>1. /\ Concern(m)
        /\ subnet_suffix' = subnet_suffix \cup
             (IF m.cmd = "map-cidr" THEN {m.from.port} ELSE {})
    BY <1>1, <1>4 DEF init_config_file
  <2> QED BY <1>4, <2>1 DEF Concern, Framed, IsMap
<1>5. ASSUME NEW i \in 1..client_line', NEW m, m = file[i],
             IsMap(m), m.from.port \in Nat \ {0}
      PROVE  Framed(m)'
  <2>1. CASE i = client_line + 1
    BY <1>4, <1>5, <2>1
  <2>2. CASE i \in 1..client_line
    <3>1. Framed(m)
      BY <1>5, <2>2 DEF RulesInv, LinesFramed
    <3> QED BY <1>3, <3>1 DEF Framed
  <2> QED BY <1>1, <2>1, <2>2
<1>6. LinesFramed'
  BY <1>1, <1>5 DEF LinesFramed, Framed
<1> QED BY <1>2, <1>6 DEF RulesInv

\* When both have read the file, whatever has a rule is framed.
LEMMA RulesSuffice == RulesInv => MasqueradedAreFramed
<1> SUFFICES ASSUME RulesInv, Read, NEW addr \in Sockaddr
             PROVE  /\ HasRule(addr) => check_addr_is_concerned(addr)
                    /\ Covering(addr) # {} => \A port \in Ports :
                         check_addr_is_concerned([addr EXCEPT !.port = port])
  BY DEF MasqueradedAreFramed
<1>1. ASSUME NEW o, NEW cmd \in {"map-addr", "map-cidr"}, RuleAt(o, cmd)
      PROVE  \E l \in Line : IsMap(l) /\ l.cmd = cmd /\ l.from = o /\ Framed(l)
  <2>1. PICK i \in 1..Len(file) :
          file[i].cmd = cmd /\ file[i].from = o /\ o.port \in Nat \ {0}
    BY <1>1 DEF RuleAt, Read
  <2>2. file[i] \in Line /\ IsMap(file[i])
    BY <2>1 DEF RulesInv, FileOK, IsMap
  <2>3. Framed(file[i])
    BY <2>1, <2>2 DEF RulesInv, LinesFramed, Read
  <2> QED BY <2>1, <2>2, <2>3
<1>2. addr \in DOMAIN addr_map => check_addr_is_concerned(addr)
  <2> SUFFICES ASSUME addr \in DOMAIN addr_map PROVE addr \in concern_addr_set
    BY DEF check_addr_is_concerned
  <2>1. RuleAt(addr, "map-addr")
    BY DEF RulesInv, RulesFromFile
  <2>2. PICK l \in Line : l.cmd = "map-addr" /\ l.from = addr /\ Framed(l)
    BY <1>1, <2>1
  <2> QED BY <2>2 DEF Framed
<1>3. ASSUME NEW o \in Covering(addr), NEW port \in Ports
      PROVE  check_addr_is_concerned([addr EXCEPT !.port = port])
  <2>1. o \in DOMAIN cidr_map /\ Masked(o.ip, o.port) = Masked(addr.ip, o.port)
    BY DEF Covering
  <2>2. PICK l \in Line : IsMap(l) /\ l.cmd = "map-cidr" /\ l.from = o /\ Framed(l)
    BY <1>1, <2>1 DEF RulesInv, RulesFromFile
  <2>4. /\ [ip |-> Masked(addr.ip, o.port), port |-> o.port] \in concern_addr_set
        /\ o.port \in subnet_suffix
    BY <2>1, <2>2 DEF Framed
  <2>6. [addr EXCEPT !.port = port].ip = addr.ip
    BY DEF Sockaddr
  <2> QED BY <2>4, <2>6 DEF check_addr_is_concerned
<1>4. [addr EXCEPT !.port = addr.port] = addr /\ addr.port \in Ports
  BY DEF Sockaddr
<1>5. Covering(addr) # {} => check_addr_is_concerned(addr)
  BY <1>3, <1>4
<1> QED BY <1>2, <1>3, <1>5 DEF HasRule

\* For every file, all ports and every size of address, what tproxy masquerades
\* the programs frame, on both sides where a prefix decides (ConfigFile::load,
\* init_config_file).
THEOREM FramingCovers == ConfigSpec => []MasqueradedAreFramed
<1>1. ConfigInit => RulesInv
  BY RulesInit
<1>2. RulesInv /\ [ConfigNext]_configVars => RulesInv'
  <2> SUFFICES ASSUME RulesInv, [ConfigNext]_configVars PROVE RulesInv'
    OBVIOUS
  <2>1. CASE load
    BY <2>1, LoadKeeps
  <2>2. CASE init_config_file
    BY <2>2, ClientKeeps
  <2>3. CASE UNCHANGED configVars
    BY <2>3 DEF configVars, tproxyVars, clientVars, RulesInv, FileOK, RulesFromFile,
                RuleAt, LinesFramed, Framed
  <2> QED BY <2>1, <2>2, <2>3 DEF ConfigNext
<1>3. RulesInv => MasqueradedAreFramed
  BY RulesSuffice
<1> QED BY <1>1, <1>2, <1>3, PTL DEF ConfigSpec

-----------------------------------------------------------------------------
(* Names.                                                                    *)

\* The line that gave an address its name is the last to give it one; the name
\* leads back to the address unless a later line has given it to another.
NamedBy(ip, i) ==
  /\ i \in NameLines /\ NameOf(file[i]) = addr_to_node[ip] /\ IpOf(file[i]) = ip
  /\ addr_to_node[ip] \in DOMAIN node_to_addr
  /\ \/ node_to_addr[addr_to_node[ip]] = ip
     \/ \E j \in NameLines : /\ i < j /\ NameOf(file[j]) = addr_to_node[ip]
                             /\ IpOf(file[j]) # ip
NamesInv ==
  /\ FileOK /\ tproxy_line \in 0..Len(file)
  /\ \A ip \in DOMAIN addr_to_node : \E i \in 1..tproxy_line : NamedBy(ip, i)

\* A line that names an address.
LEMMA NamingKeeps ==
  ASSUME NamesInv, file' = file, tproxy_line' = tproxy_line + 1, tproxy_line < Len(file),
         tproxy_line' \in NameLines, NEW name, NEW ip, Named(name, ip),
         NameOf(file[tproxy_line']) = name, IpOf(file[tproxy_line']) = ip
  PROVE  NamesInv'
<1>0. tproxy_line \in Nat /\ tproxy_line' \in 1..Len(file)
  BY DEF NamesInv, FileOK
<1> PICK k \in Nat : k = tproxy_line'
  BY <1>0
<1>1. k \in 1..Len(file) /\ k > tproxy_line /\ tproxy_line \in Nat
  BY <1>0
<1>2. /\ DOMAIN addr_to_node' = DOMAIN addr_to_node \cup {ip}
      /\ \A x \in DOMAIN addr_to_node' :
           addr_to_node'[x] = IF x = ip THEN name ELSE addr_to_node[x]
      /\ DOMAIN node_to_addr' = DOMAIN node_to_addr \cup {name}
      /\ \A x \in DOMAIN node_to_addr' :
           node_to_addr'[x] = IF x = name THEN ip ELSE node_to_addr[x]
  BY DEF Named, Put
<1>3. NameLines' = NameLines
  BY DEF NameLines
<1>4. ASSUME NEW x \in DOMAIN addr_to_node'
      PROVE  \E i \in 1..k : NamedBy(x, i)'
  <2>1. CASE x = ip
    <3>1. NamedBy(x, k)'
      BY <1>2, <1>3, <2>1 DEF NamedBy
    <3> QED BY <1>1, <3>1
  <2>2. CASE x # ip
    <3>1. x \in DOMAIN addr_to_node /\ addr_to_node'[x] = addr_to_node[x]
      BY <1>2, <2>2
    <3>2. PICK i \in 1..tproxy_line : NamedBy(x, i)
      BY <3>1 DEF NamesInv
    <3>3. i \in 1..k /\ i < k
      BY <1>1
    <3>4. CASE addr_to_node[x] = name
      BY <1>2, <1>3, <2>2, <3>1, <3>2, <3>3, <3>4 DEF NamedBy
    <3>5. CASE addr_to_node[x] # name
      <4>1. node_to_addr'[addr_to_node[x]] = node_to_addr[addr_to_node[x]]
        BY <1>2, <3>2, <3>5 DEF NamedBy
      <4>2. NamedBy(x, i)'
        BY <1>2, <1>3, <3>1, <3>2, <4>1 DEF NamedBy
      <4> QED BY <3>3, <4>2
    <3> QED BY <3>4, <3>5
  <2> QED BY <2>1, <2>2
<1> QED BY <1>1, <1>4 DEF NamesInv, FileOK

\* A step that leaves the names alone.
LEMMA OtherwiseNamed ==
  ASSUME NamesInv, file' = file, UNCHANGED nodeVars,
         tproxy_line' \in {tproxy_line, tproxy_line + 1}, tproxy_line' <= Len(file)
  PROVE  NamesInv'
<1>1. 1..tproxy_line \subseteq 1..tproxy_line' /\ tproxy_line' \in 0..Len(file)
  BY DEF NamesInv, FileOK
<1> QED BY <1>1 DEF NamesInv, FileOK, NamedBy, NameLines, nodeVars

\* For every file: the name printed for an address is the one by which commands
\* reach it, unless a later line gives that name away (ConfigFile::load,
\* get_node_name, get_node_addr).
THEOREM NamesLeadBack == ConfigSpec => []NamesResolve
<1>1. ConfigInit => NamesInv
  <2> SUFFICES ASSUME ConfigInit PROVE NamesInv
    OBVIOUS
  <2>1. FileOK
    BY ConfigAssumption DEF ConfigInit, FileOK
  <2>2. DOMAIN addr_to_node = {}
    BY DEF ConfigInit
  <2> QED BY <2>1, <2>2 DEF ConfigInit, NamesInv, FileOK
<1>2. NamesInv /\ [ConfigNext]_configVars => NamesInv'
  <2> SUFFICES ASSUME NamesInv, [ConfigNext]_configVars PROVE NamesInv'
    OBVIOUS
  <2>1. CASE load
    <3> DEFINE l == file[tproxy_line']
    <3>1. /\ file' = file /\ tproxy_line' = tproxy_line + 1 /\ tproxy_line < Len(file)
          /\ tproxy_line' \in DOMAIN file /\ tproxy_line' <= Len(file)
      BY <2>1 DEF load, NamesInv, FileOK
    <3>2. CASE l.cmd = "node" /\ Named(l.name, l.ip)
      BY <3>1, <3>2, NamingKeeps DEF NameLines, NameOf, IpOf
    <3>3. CASE l.cmd = "router" /\ Named("router", l.addr.ip)
      BY <3>1, <3>3, NamingKeeps DEF NameLines, NameOf, IpOf
    <3>4. CASE UNCHANGED nodeVars
      BY <3>1, <3>4, OtherwiseNamed
    <3> QED BY <2>1, <3>2, <3>3, <3>4 DEF load
  <2>2. CASE init_config_file
    BY <2>2, OtherwiseNamed DEF init_config_file, tproxyVars, NamesInv
  <2>3. CASE UNCHANGED configVars
    BY <2>3, OtherwiseNamed DEF configVars, tproxyVars, NamesInv
  <2> QED BY <2>1, <2>2, <2>3 DEF ConfigNext
<1>3. NamesInv => NamesResolve
  BY DEF NamesInv, FileOK, NamedBy, NamesResolve, NameLines, get_node_addr, get_node_name
<1> QED BY <1>1, <1>2, <1>3, PTL DEF ConfigSpec

-----------------------------------------------------------------------------
(* Powers of two.                                                            *)

\* An address is one octet or a few.
LEMMA BitsAre == OctetBits \in Nat /\ Bits \in Nat /\ OctetBits \in 0..Bits
BY ConfigAssumption DEF Bits

\* Power meets its equation.
LEMMA PowerDefined ==
  /\ Power[0] = 1
  /\ \A n \in 0..Bits : Power[n] \in Nat \ {0}
  /\ \A n \in 1..Bits : Power[n] = 2 * Power[n - 1]
<1> DEFINE S == Nat \ {0}
           step == [i \in 1..Bits |-> [v \in S |-> 2 * v]]
           Meets(f) == f = [i \in 0..Bits |-> IF i = 0 THEN 1 ELSE 2 * f[i - 1]]
<1>1. Bits \in Nat /\ 1 \in S /\ step \in [1..Bits -> [S -> S]]
  BY BitsAre
<1>2. PICK f \in [0..Bits -> S] : Recursive(f, Bits, 1, step)
  <2> HIDE DEF S, step
  <2> QED BY <1>1, RecursionExists
<1>3. Meets(f)
  <2>1. ASSUME NEW i \in 1..Bits PROVE f[i] = 2 * f[i - 1]
    <3>1. i \in 0..Bits /\ i # 0 /\ i - 1 \in 0..Bits
      BY <1>1
    <3>2. f[i] = step[i][f[i - 1]] /\ f[i - 1] \in S
      BY <1>2, <3>1 DEF Recursive
    <3> QED BY <3>2
  <2>2. f[0] = 1
    BY <1>1, <1>2 DEF Recursive
  <2> QED BY <1>1, <2>1, <2>2
<1>4. Meets(Power)
  <2>1. Power = CHOOSE g : Meets(g)
    BY Zenon DEF Power
  <2> HIDE DEF Meets
  <2> QED BY <1>3, <2>1, Zenon
<1> DEFINE T == {n \in 0..Bits : Power[n] \in S}
<1>5. Power[0] = 1 /\ \A n \in 1..Bits : Power[n] = 2 * Power[n - 1]
  BY <1>1, <1>4
<1>6. 0..Bits \subseteq T
  <2>1. 0 \in T
    BY <1>1, <1>5
  <2>2. ASSUME NEW n \in 0..Bits - 1, n \in T PROVE n + 1 \in T
    <3>1. n + 1 \in 1..Bits /\ n + 1 \in 0..Bits /\ (n + 1) - 1 = n
      BY <1>1
    <3>2. Power[n + 1] = 2 * Power[n] /\ Power[n] \in Nat \ {0}
      BY <1>5, <2>2, <3>1
    <3> QED BY <3>1, <3>2
  <2>3. 0 \in Int /\ Bits \in Int
    BY <1>1
  <2> HIDE DEF T
  <2> QED BY <2>1, <2>2, <2>3, Induction
<1> QED BY <1>5, <1>6

\* 1 << m + n.
LEMMA PowerAdds ==
  ASSUME NEW m \in Nat, NEW n \in Nat, m + n <= Bits
  PROVE  Power[m + n] = Power[m] * Power[n]
<1> DEFINE T == {k \in 0..n : Power[m + k] = Power[m] * Power[k]}
<1>0. Bits \in Nat
  BY BitsAre
<1>1. 0 \in T
  <2>1. m \in 0..Bits /\ m + 0 = m
    BY <1>0
  <2>2. Power[m] \in Nat /\ Power[0] = 1
    BY <2>1, PowerDefined
  <2> QED BY <2>1, <2>2
<1>2. ASSUME NEW k \in 0..n - 1, k \in T PROVE k + 1 \in T
  <2>1. /\ m \in 0..Bits /\ k \in 0..Bits /\ m + k \in 0..Bits
        /\ k + 1 \in 1..Bits /\ m + (k + 1) \in 1..Bits /\ k + 1 \in 0..n
        /\ (k + 1) - 1 = k /\ (m + (k + 1)) - 1 = m + k
    BY <1>0
  <2>2. Power[k + 1] = 2 * Power[k] /\ Power[m + (k + 1)] = 2 * Power[m + k]
    BY <2>1, PowerDefined
  <2>3. Power[m] \in Nat /\ Power[k] \in Nat
    BY <2>1, PowerDefined
  <2>4. Power[m + k] = Power[m] * Power[k]
    BY <1>2
  <2>5. \A a, b \in Nat : 2 * (a * b) = a * (2 * b)
    OBVIOUS
  <2>6. Power[m + (k + 1)] = Power[m] * Power[k + 1]
    BY <2>2, <2>3, <2>4, <2>5
  <2> QED BY <2>1, <2>6
<1>3. 0..n \subseteq T
  <2>1. 0 \in Int /\ n \in Int
    OBVIOUS
  <2> HIDE DEF T
  <2> QED BY <1>1, <1>2, <2>1, Induction
<1> QED BY <1>3

-----------------------------------------------------------------------------
(* Prefixes.                                                                 *)

Floor(a, b) == (a \div b) * b

\* What the provers do not do by themselves with products.
LEMMA Products ==
  ASSUME NEW a \in Nat, NEW b \in Nat, NEW c \in Nat
  PROVE  /\ a * b \in Nat /\ a * b = b * a /\ (a * b) * c = a * (b * c)
         /\ (a + 1) * b = a * b + b
         /\ a <= c => a * b <= c * b
OBVIOUS

\* Quotient and remainder.
LEMMA Division ==
  ASSUME NEW a \in Nat, NEW b \in Nat \ {0}
  PROVE  /\ a \div b \in Nat /\ (a % b) \in 0..b - 1
         /\ (a \div b) * b \in Nat /\ a = (a \div b) * b + (a % b)
<1> DEFINE d == a \div b
           r == a % b
<1>1. d \in Nat /\ r \in 0..b - 1 /\ a = b * d + r
  OBVIOUS
<1> HIDE DEF d, r
<1>2. b * d = d * b /\ d * b \in Nat
  BY <1>1
<1>3. a = d * b + r
  BY <1>1, <1>2
<1> QED BY <1>1, <1>2, <1>3 DEF d, r

\* A quotient is the number of times the divisor fits.
LEMMA Quotient ==
  ASSUME NEW a \in Nat, NEW b \in Nat \ {0}, NEW q \in Nat,
         q * b <= a, a < q * b + b
  PROVE  a \div b = q /\ (a % b) = a - q * b
<1> DEFINE d == a \div b
<1>1. d \in Nat /\ (a % b) \in 0..b - 1 /\ d * b \in Nat /\ a = d * b + (a % b)
  BY Division
<1> HIDE DEF d
<1>2. d <= q
  <2> SUFFICES ASSUME q + 1 <= d PROVE FALSE
    BY <1>1
  <2>1. (q + 1) * b <= d * b /\ (q + 1) * b = q * b + b /\ q * b \in Nat /\ d * b \in Nat
    BY <1>1, Products
  <2> QED BY <1>1, <2>1
<1>3. q <= d
  <2> SUFFICES ASSUME d + 1 <= q PROVE FALSE
    BY <1>1
  <2>1. (d + 1) * b <= q * b /\ (d + 1) * b = d * b + b /\ q * b \in Nat /\ d * b \in Nat
    BY <1>1, Products
  <2> QED BY <1>1, <2>1
<1>4. d = q
  BY <1>1, <1>2, <1>3
<1>5. (a % b) = a - q * b
  BY <1>1, <1>4
<1> QED BY <1>4, <1>5 DEF d

\* The floor of a is the multiple of b next below it.
LEMMA FloorIs ==
  ASSUME NEW a \in Nat, NEW b \in Nat \ {0}
  PROVE  /\ Floor(a, b) \in Nat /\ Floor(a, b) <= a /\ a < Floor(a, b) + b
         /\ \A k \in Nat : k * b <= a => k * b <= Floor(a, b)
         /\ Floor(Floor(a, b), b) = Floor(a, b)
<1> DEFINE d == a \div b
<1>1. d \in Nat /\ (a % b) \in 0..b - 1 /\ a = d * b + (a % b) /\ d * b \in Nat
  BY Division
<1> HIDE DEF d
<1>2. d * b <= a /\ a < d * b + b
  BY <1>1
<1>3. ASSUME NEW k \in Nat, k * b <= a PROVE k * b <= d * b
  <2> SUFFICES ASSUME d + 1 <= k PROVE FALSE
    BY <1>1, Products
  <2>1. (d + 1) * b <= k * b /\ (d + 1) * b = d * b + b /\ k * b \in Nat
    BY <1>1, Products
  <2> QED BY <1>2, <1>3, <1>1, <2>1
<1>4. (d * b) \div b = d
  <2>1. d * b < d * b + b
    BY <1>1
  <2> QED BY <1>1, <2>1, Quotient
<1>5. Floor(a, b) = d * b /\ Floor(d * b, b) = d * b
  BY <1>4 DEF Floor, d
<1> QED BY <1>1, <1>2, <1>3, <1>5

\* A coarser floor is lower.
LEMMA FloorCoarser ==
  ASSUME NEW a \in Nat, NEW b \in Nat \ {0}, NEW c \in Nat \ {0}
  PROVE  Floor(a, c * b) <= Floor(a, b)
<1>1. c * b \in Nat \ {0}
  OBVIOUS
<1> DEFINE k == a \div (c * b)
<1>2. k \in Nat /\ k * (c * b) <= a
  BY <1>1, Division, FloorIs DEF Floor
<1>3. k * c \in Nat /\ (k * c) * b = k * (c * b)
  BY <1>2, Products
<1>4. (k * c) * b <= Floor(a, b)
  BY <1>2, <1>3, FloorIs
<1> QED BY <1>3, <1>4 DEF Floor

\* A lower address has no higher high octet.
LEMMA OctetsCoarser ==
  ASSUME NEW a \in Nat, NEW o \in Nat \ {0}, NEW x \in Nat, NEW y \in Nat, x <= y
  PROVE  x \div o <= y \div o
<1> DEFINE d == x \div o
           e == y \div o
<1>1. d \in Nat /\ (x % o) \in 0..o - 1 /\ d * o \in Nat /\ x = d * o + (x % o)
  BY Division
<1>2. e \in Nat /\ (y % o) \in 0..o - 1 /\ e * o \in Nat /\ y = e * o + (y % o)
  BY Division
<1> SUFFICES ASSUME e + 1 <= d PROVE FALSE
  BY <1>1, <1>2
<1> HIDE DEF d, e
<1>3. (e + 1) * o <= d * o /\ (e + 1) * o = e * o + o
  BY <1>1, <1>2, Products
<1>4. d * o <= x /\ y < e * o + o
  BY <1>1, <1>2
<1> QED BY <1>1, <1>2, <1>3, <1>4

\* If the octet is a multiple of the block, the high octet is that of the address.
LEMMA FineFloor ==
  ASSUME NEW a \in Nat, NEW b \in Nat \ {0}, NEW c \in Nat \ {0}
  PROVE  LET o == c * b IN Floor(a, b) % o = Floor(a, b) - (a \div o) * o
<1> DEFINE o == c * b
           h == a \div o
<1>1. o \in Nat \ {0} /\ h \in Nat /\ h * o \in Nat
  <2>1. o \in Nat \ {0}
    OBVIOUS
  <2> HIDE DEF o
  <2> QED BY <2>1, Division, Products
<1>2. h * o <= a /\ a < h * o + o
  BY <1>1, FloorIs DEF Floor
<1>3. h * o = (h * c) * b /\ h * c \in Nat
  BY <1>1, Products
<1>4. h * o <= Floor(a, b) /\ Floor(a, b) \in Nat /\ Floor(a, b) < h * o + o
  <2>1. \A k \in Nat : k * b <= a => k * b <= Floor(a, b)
    BY FloorIs
  <2>2. Floor(a, b) \in Nat /\ Floor(a, b) <= a
    BY FloorIs
  <2>3. (h * c) * b <= a
    BY <1>2, <1>3
  <2>4. (h * c) * b <= Floor(a, b)
    BY <1>3, <2>1, <2>3
  <2> HIDE DEF o, h
  <2> QED BY <1>1, <1>2, <1>3, <2>2, <2>4
<1> HIDE DEF o, h
<1>5. Floor(a, b) % o = Floor(a, b) - h * o
  BY <1>1, <1>4, Quotient
<1> QED BY <1>5 DEF o, h

\* If the block is a multiple of the octet, nothing is left of the low octet.
LEMMA CoarseFloor ==
  ASSUME NEW a \in Nat, NEW o \in Nat \ {0}, NEW c \in Nat \ {0}
  PROVE  Floor(a, c * o) % o = 0
<1> DEFINE k == a \div (c * o)
<1>1. c * o \in Nat \ {0} /\ k \in Nat
  BY Products, Division
<1>2. Floor(a, c * o) = (k * c) * o /\ k * c \in Nat /\ (k * c) * o \in Nat
  <2>1. k * c \in Nat /\ k * (c * o) = (k * c) * o
    BY <1>1, Products
  <2>2. (k * c) * o \in Nat
    BY <2>1, Products
  <2> QED BY <2>1, <2>2 DEF Floor
<1>3. (k * c) * o < (k * c) * o + o
  BY <1>2
<1> HIDE DEF k
<1>4. ((k * c) * o) % o = (k * c) * o - (k * c) * o
  BY <1>2, <1>3, Quotient
<1> QED BY <1>2, <1>4

\* Addresses are numbers.
LEMMA IpIs == Ip \subseteq Nat
<1>1. Power[Bits] \in Nat
  BY BitsAre, PowerDefined
<1> QED BY <1>1 DEF Ip

\* A masked address is a floor.
LEMMA MaskedIs ==
  ASSUME NEW ip \in Nat, NEW p \in 0..Bits
  PROVE  /\ Power[Bits - p] \in Nat \ {0}
         /\ Masked(ip, p) = Floor(ip, Power[Bits - p])
         /\ Masked(ip, p) \in Nat /\ Masked(Masked(ip, p), p) = Masked(ip, p)
<1>1. Bits - p \in 0..Bits
  BY BitsAre
<1>2. Power[Bits - p] \in Nat \ {0}
  BY <1>1, PowerDefined
<1>3. \A x \in Nat : Masked(x, p) = Floor(x, Power[Bits - p])
  BY DEF Masked, Floor
<1>4. /\ Floor(ip, Power[Bits - p]) \in Nat
      /\ Floor(Floor(ip, Power[Bits - p]), Power[Bits - p]) = Floor(ip, Power[Bits - p])
  BY <1>2, FloorIs
<1> QED BY <1>2, <1>3, <1>4

\* Of two networks around an address the wider comes first in the memory order,
\* or both have the same address.
LEMMA WiderFirst ==
  ASSUME NEW ip \in Nat, NEW p \in 0..Bits, NEW q \in 0..Bits, p <= q
  PROVE  LET x == Masked(ip, p)
             y == Masked(ip, q)
         IN  x = y \/ Raw(x) < Raw(y)
<1> DEFINE x == Masked(ip, p)
           y == Masked(ip, q)
           o == Power[OctetBits]
           b == Power[Bits - q]
           c == Power[q - p]
<1>0. OctetBits \in Nat /\ Bits \in Nat /\ OctetBits \in 0..Bits
  BY BitsAre
<1>1. o \in Nat \ {0} /\ b \in Nat \ {0} /\ c \in Nat \ {0}
  <2>1. Bits - q \in 0..Bits /\ q - p \in 0..Bits
    BY <1>0
  <2> QED BY <1>0, <2>1, PowerDefined
<1>2. Power[Bits - p] = c * b
  <2>1. /\ q - p \in Nat /\ Bits - q \in Nat /\ (q - p) + (Bits - q) = Bits - p
        /\ (q - p) + (Bits - q) <= Bits
    BY <1>0
  <2>2. Power[(q - p) + (Bits - q)] = Power[q - p] * Power[Bits - q]
    BY <2>1, PowerAdds
  <2> QED BY <2>1, <2>2
<1>3. /\ x \in Nat /\ y \in Nat
      /\ x = Floor(ip, c * b) /\ y = Floor(ip, b)
  BY <1>2, MaskedIs
<1>4. x <= y
  <2> HIDE DEF x, y, b, c
  <2> QED BY <1>1, <1>3, FloorCoarser
<1>5. x \div o <= y \div o
  <2> HIDE DEF x, y, o
  <2> QED BY <1>1, <1>3, <1>4, OctetsCoarser
<1>6. x % o <= y % o
  <2>1. CASE OctetBits <= Bits - p
    <3> DEFINE k == Power[(Bits - p) - OctetBits]
    <3>1. k \in Nat \ {0} /\ Power[Bits - p] = k * o
      <4>1. /\ (Bits - p) - OctetBits \in 0..Bits /\ (Bits - p) - OctetBits \in Nat
            /\ ((Bits - p) - OctetBits) + OctetBits = Bits - p
            /\ ((Bits - p) - OctetBits) + OctetBits <= Bits
        BY <1>0, <2>1
      <4>2. Power[((Bits - p) - OctetBits) + OctetBits] = Power[(Bits - p) - OctetBits] * Power[OctetBits]
        BY <1>0, <4>1, PowerAdds
      <4> QED BY <4>1, <4>2, PowerDefined
    <3>2. x = Floor(ip, k * o)
      BY <1>2, <1>3, <3>1
    <3> HIDE DEF x, y, o, k
    <3>3. x % o = 0
      BY <1>1, <3>1, <3>2, CoarseFloor
    <3>4. (y % o) \in Nat
      BY <1>1, <1>3, Division
    <3> QED BY <3>3, <3>4
  <2>2. CASE Bits - p < OctetBits
    <3> DEFINE k == Power[OctetBits - (Bits - p)]
               d == c * b
               l == k * c
    <3>1. k \in Nat \ {0} /\ o = k * d
      <4>1. /\ OctetBits - (Bits - p) \in 0..Bits /\ OctetBits - (Bits - p) \in Nat
            /\ Bits - p \in Nat
            /\ (OctetBits - (Bits - p)) + (Bits - p) = OctetBits
            /\ (OctetBits - (Bits - p)) + (Bits - p) <= Bits
        BY <1>0, <2>2
      <4>2. Power[(OctetBits - (Bits - p)) + (Bits - p)] = Power[OctetBits - (Bits - p)] * Power[Bits - p]
        BY <4>1, PowerAdds
      <4> QED BY <1>2, <4>1, <4>2, PowerDefined
    <3>2. d \in Nat \ {0} /\ l \in Nat \ {0} /\ o = l * b
      <4> HIDE DEF k, c, b, o
      <4>1. k * (c * b) = (k * c) * b
        BY <1>1, <3>1, Products
      <4> QED BY <1>1, <3>1, <4>1
    <3>3. x = Floor(ip, d)
      BY <1>3
    <3> HIDE DEF x, y, o, b, d, l, k
    <3>4. x % o = x - (ip \div o) * o
      <4>1. Floor(ip, d) % (k * d) = Floor(ip, d) - (ip \div (k * d)) * (k * d)
        BY <3>1, <3>2, FineFloor
      <4> QED BY <4>1, <3>1, <3>3
    <3>5. y % o = y - (ip \div o) * o
      <4>1. Floor(ip, b) % (l * b) = Floor(ip, b) - (ip \div (l * b)) * (l * b)
        BY <1>1, <3>2, FineFloor
      <4> QED BY <4>1, <1>3, <3>2
    <3>6. (ip \div o) \in Nat /\ (ip \div o) * o \in Nat
      BY <1>1, Division, Products
    <3> QED BY <1>3, <1>4, <3>4, <3>5, <3>6
  <2> QED BY <1>0, <2>1, <2>2
<1>7. /\ Raw(x) = (x % o) * o + (x \div o)
      /\ Raw(y) = (y % o) * o + (y \div o)
  BY DEF Raw
<1> HIDE DEF x, y, o, b, c
<1>8. /\ (x % o) \in Nat /\ (y % o) \in Nat /\ (x \div o) \in Nat /\ (y \div o) \in Nat
      /\ x = o * (x \div o) + (x % o) /\ y = o * (y \div o) + (y % o)
  <2>1. (x % o) \in Nat /\ (x \div o) \in Nat /\ x = o * (x \div o) + (x % o)
    <3>1. x \in Nat /\ o \in Nat \ {0}
      BY <1>1, <1>3
    <3> QED BY <3>1, Division
  <2>2. (y % o) \in Nat /\ (y \div o) \in Nat /\ y = o * (y \div o) + (y % o)
    <3>1. y \in Nat /\ o \in Nat \ {0}
      BY <1>1, <1>3
    <3> QED BY <3>1, Division
  <2> QED BY <2>1, <2>2
<1>9. \A m, n \in Nat : m <= n => /\ m * o \in Nat /\ n * o \in Nat /\ m * o <= n * o
                                  /\ m # n => m * o < n * o
  BY <1>1
<1>10. x = y \/ Raw(x) < Raw(y)
  <2>1. CASE x % o = y % o /\ x \div o = y \div o
    BY <1>8, <2>1
  <2>2. CASE x % o # y % o
    BY <1>5, <1>6, <1>7, <1>8, <1>9, <2>2
  <2>3. CASE x \div o # y \div o
    BY <1>5, <1>6, <1>7, <1>8, <1>9, <2>3
  <2> QED BY <2>1, <2>2, <2>3
<1> QED BY <1>10 DEF x, y

-----------------------------------------------------------------------------
(* The rule for an address.                                                  *)

\* After n lines a table has, for each address that a rule of these lines is
\* for, what the last of them says, and nothing else.
Table(m, cmd, n) ==
  /\ \A i \in Rules(cmd) : i <= n => file[i].from \in DOMAIN m
  /\ \A o \in DOMAIN m : \E i \in Rules(cmd) :
       /\ i <= n /\ file[i].from = o /\ m[o] = file[i].to
       /\ \A j \in Rules(cmd) : j <= n /\ file[j].from = o => j <= i

\* What a program frames stands in a line it has read.
ConcernAt(a, i) ==
  /\ IsMap(file[i]) /\ file[i].from.port # 0
  /\ a = IF file[i].cmd = "map-addr" THEN file[i].from
         ELSE [ip |-> Masked(file[i].from.ip, file[i].from.port), port |-> file[i].from.port]
ConcernFromFile ==
  /\ client_line \in 0..Len(file)
  /\ client_up => \A i \in 1..client_line : IsMap(file[i]) => file[i].from.port # Missing
  /\ \A a \in concern_addr_set : \E i \in 1..client_line : ConcernAt(a, i)

TablesInv ==
  /\ file \in Seq(Line) /\ tproxy_line \in 0..Len(file)
  /\ tproxy_up => /\ Table(addr_map, "map-addr", tproxy_line)
                  /\ Table(cidr_map, "map-cidr", tproxy_line)
  /\ ConcernFromFile

\* A line more.
LEMMA TableTakes ==
  ASSUME NEW m, NEW cmd, NEW n \in Nat, Table(m, cmd, n), file \in Seq(Line),
         n + 1 \in Rules(cmd)
  PROVE  Table(Put(m, file[n + 1].from, file[n + 1].to), cmd, n + 1)
<1> DEFINE k == n + 1
           from == file[k].from
           t == Put(m, from, file[k].to)
<1>1. /\ DOMAIN t = DOMAIN m \cup {from}
      /\ \A x \in DOMAIN t : t[x] = IF x = from THEN file[k].to ELSE m[x]
  BY DEF Put
<1>2. Rules(cmd) \subseteq Nat
  BY DEF Rules
<1>3. ASSUME NEW i \in Rules(cmd), i <= k PROVE file[i].from \in DOMAIN t
  <2>1. i = k \/ i <= n
    BY <1>2, <1>3
  <2> QED BY <1>1, <2>1 DEF Table
<1>4. ASSUME NEW x \in DOMAIN t
      PROVE  \E i \in Rules(cmd) :
               /\ i <= k /\ file[i].from = x /\ t[x] = file[i].to
               /\ \A j \in Rules(cmd) : j <= k /\ file[j].from = x => j <= i
  <2>1. CASE x = from
    BY <1>1, <1>2, <2>1
  <2>2. CASE x # from
    <3>1. PICK i \in Rules(cmd) :
            /\ i <= n /\ file[i].from = x /\ m[x] = file[i].to
            /\ \A j \in Rules(cmd) : j <= n /\ file[j].from = x => j <= i
      BY <1>1, <2>2 DEF Table
    <3>2. \A j \in Rules(cmd) : j <= k /\ file[j].from = x => j <= n
      BY <1>2, <2>2
    <3> QED BY <1>1, <1>2, <2>2, <3>1, <3>2
  <2> QED BY <2>1, <2>2
<1> HIDE DEF t
<1>5. Table(t, cmd, k)
  BY <1>3, <1>4 DEF Table
<1> QED BY <1>5 DEF t

\* A line that is none of its rules leaves a table what it was.
LEMMA TableSkips ==
  ASSUME NEW m, NEW cmd, NEW n \in Nat, Table(m, cmd, n), file \in Seq(Line),
         n + 1 \notin Rules(cmd)
  PROVE  Table(m, cmd, n + 1)
<1>1. \A i \in Rules(cmd) : i \in Nat /\ (i <= n + 1 => i <= n)
  BY DEF Rules
<1>2. \A i \in Rules(cmd) : i <= n => i <= n + 1
  BY <1>1
<1> QED BY <1>1, <1>2 DEF Table

\* Before any line.
LEMMA TablesStart == ConfigInit => TablesInv
<1> SUFFICES ASSUME ConfigInit PROVE TablesInv
  OBVIOUS
<1>1. file \in Seq(Line)
  BY ConfigAssumption DEF ConfigInit
<1>2. Rules("map-addr") \subseteq 1..Len(file) /\ Rules("map-cidr") \subseteq 1..Len(file)
  BY <1>1 DEF Rules
<1>3. DOMAIN addr_map = {} /\ DOMAIN cidr_map = {}
  BY DEF ConfigInit
<1>4. /\ Table(addr_map, "map-addr", 0)
      /\ Table(cidr_map, "map-cidr", 0)
  BY <1>2, <1>3 DEF Table
<1>5. ConcernFromFile
  BY <1>1 DEF ConfigInit, ConcernFromFile
<1> QED BY <1>1, <1>4, <1>5 DEF TablesInv, ConfigInit

\* One line more of tproxy.
LEMMA LoadTakes ==
  ASSUME TablesInv, load
  PROVE  TablesInv'
<1> DEFINE k == tproxy_line + 1
           l == file[k]
           takes == IsMap(l) /\ l.n = 3 /\ ~LoadFails(l)
<1>1. /\ file' = file /\ tproxy_line' = k /\ tproxy_line \in Nat
      /\ file \in Seq(Line) /\ k \in 1..Len(file) /\ l \in Line /\ tproxy_up
  BY DEF load, TablesInv
<1>2. \A cmd : Rules(cmd)' = Rules(cmd)
  BY <1>1 DEF Rules
<1>3. ConcernFromFile'
  BY <1>1 DEF load, TablesInv, ConcernFromFile, ConcernAt, clientVars
<1>4. ASSUME tproxy_up'
      PROVE  /\ Table(addr_map', "map-addr", k)
             /\ Table(cidr_map', "map-cidr", k)
  <2>1. ~LoadFails(l) /\ tproxy_up' = ~LoadFails(l)
    BY <1>1, <1>4 DEF load
  <2>2. /\ Table(addr_map, "map-addr", tproxy_line)
        /\ Table(cidr_map, "map-cidr", tproxy_line)
    BY <1>1 DEF TablesInv
  <2>3. \A cmd \in {"map-addr", "map-cidr"} :
          k \in Rules(cmd) <=> takes /\ l.cmd = cmd /\ l.from.port # 0 /\ l.to.port # 0
    BY <1>1, <2>1 DEF Rules, Complete, IsMap
  <2>4. Table(addr_map', "map-addr", k)
    <3>1. CASE k \in Rules("map-addr")
      <4>1. addr_map' = Put(addr_map, l.from, l.to)
        BY <1>1, <2>3, <3>1 DEF load, MapLine
      <4> QED BY <1>1, <2>2, <3>1, <4>1, TableTakes
    <3>2. CASE k \notin Rules("map-addr")
      <4>1. addr_map' = addr_map
        <5>1. CASE takes
          <6>1. l.cmd = "map-addr" => ~(l.from.port # 0 /\ l.to.port # 0)
            BY <2>3, <3>2, <5>1
          <6> QED BY <1>1, <5>1, <6>1 DEF load, MapLine
        <5>2. CASE ~takes
          BY <1>1, <5>2 DEF load
        <5> QED BY <5>1, <5>2
      <4> QED BY <1>1, <2>2, <3>2, <4>1, TableSkips
    <3> QED BY <3>1, <3>2
  <2>5. Table(cidr_map', "map-cidr", k)
    <3>1. CASE k \in Rules("map-cidr")
      <4>1. cidr_map' = Put(cidr_map, l.from, l.to)
        BY <1>1, <2>3, <3>1 DEF load, MapLine
      <4> QED BY <1>1, <2>2, <3>1, <4>1, TableTakes
    <3>2. CASE k \notin Rules("map-cidr")
      <4>1. cidr_map' = cidr_map
        <5>1. CASE takes
          <6>1. l.cmd = "map-cidr" => ~(l.from.port # 0 /\ l.to.port # 0)
            BY <2>3, <3>2, <5>1
          <6> QED BY <1>1, <5>1, <6>1 DEF load, MapLine
        <5>2. CASE ~takes
          BY <1>1, <5>2 DEF load
        <5> QED BY <5>1, <5>2
      <4> QED BY <1>1, <2>2, <3>2, <4>1, TableSkips
    <3> QED BY <3>1, <3>2
  <2> QED BY <2>4, <2>5
<1>5. tproxy_up' => /\ Table(addr_map, "map-addr", tproxy_line)'
                    /\ Table(cidr_map, "map-cidr", tproxy_line)'
  BY <1>1, <1>2, <1>4 DEF Table
<1> QED BY <1>1, <1>3, <1>5 DEF TablesInv

\* One line more of a program.
LEMMA ClientTakes ==
  ASSUME TablesInv, init_config_file
  PROVE  TablesInv'
<1> DEFINE k == client_line + 1
           l == file[k]
<1>1. /\ file' = file /\ client_line' = k /\ client_line \in Nat /\ client_up
      /\ file \in Seq(Line) /\ k \in 1..Len(file) /\ l \in Line
      /\ tproxy_line' = tproxy_line /\ tproxy_up' = tproxy_up
      /\ addr_map' = addr_map /\ cidr_map' = cidr_map
  BY DEF init_config_file, TablesInv, ConcernFromFile, tproxyVars
<1>2. /\ tproxy_up' => /\ Table(addr_map, "map-addr", tproxy_line)'
                       /\ Table(cidr_map, "map-cidr", tproxy_line)'
      /\ file' \in Seq(Line) /\ tproxy_line' \in 0..Len(file')
  BY <1>1 DEF TablesInv, Table, Rules
<1>3. \A a, i : ConcernAt(a, i)' = ConcernAt(a, i)
  BY <1>1 DEF ConcernAt
<1>4. ASSUME NEW a \in concern_addr_set' PROVE \E i \in 1..k : ConcernAt(a, i)
  <2>1. CASE a \in concern_addr_set
    BY <1>1, <2>1 DEF TablesInv, ConcernFromFile
  <2>2. CASE a \notin concern_addr_set
    <3>1. IsMap(l) /\ l.from.port > 0 /\ Concern(l)
      BY <1>1, <1>4, <2>2 DEF init_config_file
    <3>2. a = IF l.cmd = "map-addr" THEN l.from
              ELSE [ip |-> Masked(l.from.ip, l.from.port), port |-> l.from.port]
      BY <1>4, <2>2, <3>1 DEF Concern
    <3>3. l.from.port # 0
      BY <3>1
    <3>4. ConcernAt(a, k)
      BY <3>1, <3>2, <3>3 DEF ConcernAt
    <3> QED BY <1>1, <3>4
  <2> QED BY <2>1, <2>2
<1>5. client_up' => \A i \in 1..k : IsMap(file[i]) => file[i].from.port # Missing
  <2> SUFFICES ASSUME client_up', NEW i \in 1..k, IsMap(file[i]) PROVE file[i].from.port # Missing
    OBVIOUS
  <2>1. i = k \/ i \in 1..client_line
    BY <1>1
  <2>2. i = k => file[i].from.port # Missing
    BY <1>1 DEF init_config_file, ClientFails
  <2> QED BY <1>1, <2>1, <2>2 DEF TablesInv, ConcernFromFile
<1>6. ConcernFromFile'
  BY <1>1, <1>3, <1>4, <1>5 DEF ConcernFromFile
<1> QED BY <1>2, <1>6 DEF TablesInv

\* The inductive invariant: each table of tproxy holds the last rule for each
\* address, and a program frames nothing that does not stand in the file.
THEOREM TablesInvariance == ConfigSpec => []TablesInv
<1>1. TablesInv /\ [ConfigNext]_configVars => TablesInv'
  <2> SUFFICES ASSUME TablesInv, [ConfigNext]_configVars PROVE TablesInv'
    OBVIOUS
  <2>1. CASE load
    BY <2>1, LoadTakes
  <2>2. CASE init_config_file
    BY <2>2, ClientTakes
  <2>3. CASE UNCHANGED configVars
    BY <2>3 DEF configVars, tproxyVars, clientVars, TablesInv, Table, Rules, ConcernFromFile,
                ConcernAt
  <2> QED BY <2>1, <2>2, <2>3 DEF ConfigNext
<1> QED BY <1>1, TablesStart, PTL DEF ConfigSpec

\* The key of a map-cidr rule is an address with a prefix length.
LEMMA RuleKey ==
  ASSUME TablesInv, NEW cmd \in {"map-addr", "map-cidr"}, NEW i \in Rules(cmd),
         file[i].from.port # Missing
  PROVE  /\ file[i] \in Line /\ file[i] \in MapLines
         /\ file[i].from \in [ip : Ip, port : Nat \ {0}]
         /\ file[i].from.ip \in Nat
         /\ cmd = "map-cidr" => file[i].from.port \in 0..Bits
<1>1. file[i] \in Line /\ IsMap(file[i]) /\ file[i].cmd = cmd /\ file[i].from.port # 0
      /\ file[i] \in MapLines
  BY DEF Rules, IsMap, TablesInv, MapLines, Lines
<1>2. /\ file[i].from \in [ip : Ip, port : Ports \cup {0, Missing}]
      /\ cmd = "map-cidr" => file[i].from.port <= Bits
  BY <1>1, ConfigAssumption
<1>3. Ports \subseteq Nat /\ Bits \in Nat
  BY ConfigAssumption, BitsAre
<1>4. file[i].from \in [ip : Ip, port : Nat \ {0}]
  BY <1>1, <1>2, <1>3
<1>5. cmd = "map-cidr" => file[i].from.port \in 0..Bits
  BY <1>2, <1>3, <1>4
<1> QED BY <1>1, <1>4, <1>5, IpIs

\* Once both have read the file.
LEMMA AtTheEnd ==
  ASSUME TablesInv, Read
  PROVE  /\ Table(addr_map, "map-addr", Len(file))
         /\ Table(cidr_map, "map-cidr", Len(file))
         /\ \A a \in concern_addr_set : \E i \in DOMAIN file : ConcernAt(a, i)
         /\ \A l \in MapLines : l.from.port # Missing
         /\ \A cmd : Rules(cmd) \subseteq Nat /\ \A i \in Rules(cmd) : i <= Len(file)
<1>1. /\ file \in Seq(Line) /\ tproxy_up /\ client_up
      /\ tproxy_line = Len(file) /\ client_line = Len(file)
  BY DEF TablesInv, Read
<1>2. DOMAIN file = 1..Len(file)
  BY <1>1
<1> QED BY <1>1, <1>2 DEF TablesInv, ConcernFromFile, Rules, MapLines, Lines

\* What is framed has a rule.
LEMMA FramedHasRule == TablesInv => FramedAreMasqueraded
<1> SUFFICES ASSUME TablesInv, Read, NEW addr \in Sockaddr, check_addr_is_concerned(addr),
                    ~PortIsSuffix, \A l \in MapLines : Complete(l)
             PROVE  HasRule(addr)
  BY DEF FramedAreMasqueraded
<1>1. addr.ip \in Nat
  BY IpIs DEF Sockaddr
<1>2. ASSUME NEW i \in DOMAIN file, IsMap(file[i]), file[i].from.port # 0
      PROVE  /\ file[i] \in MapLines
             /\ file[i].cmd = "map-addr" => file[i].from \in DOMAIN addr_map
             /\ file[i].cmd = "map-cidr" =>
                  /\ file[i].from \in DOMAIN cidr_map
                  /\ file[i].from.ip \in Nat /\ file[i].from.port \in 0..Bits
  <2>1. file[i] \in MapLines
    BY <1>2 DEF MapLines, Lines
  <2>2. i \in Rules(file[i].cmd) /\ file[i].cmd \in {"map-addr", "map-cidr"}
    BY <1>2, <2>1 DEF Rules, IsMap
  <2> QED BY <2>1, <2>2, AtTheEnd, RuleKey DEF Table
<1>3. CASE addr \in concern_addr_set
  <2>1. PICK i \in DOMAIN file : ConcernAt(addr, i)
    BY <1>3, AtTheEnd
  <2> DEFINE o == file[i].from
  <2>2. IsMap(file[i]) /\ o.port # 0
    BY <2>1 DEF ConcernAt
  <2>3. CASE file[i].cmd = "map-addr"
    BY <1>2, <2>1, <2>2, <2>3 DEF ConcernAt, HasRule
  <2>4. CASE file[i].cmd = "map-cidr"
    <3>1. o \in DOMAIN cidr_map /\ o.ip \in Nat /\ o.port \in 0..Bits
      BY <1>2, <2>2, <2>4
    <3>2. addr.ip = Masked(o.ip, o.port)
      BY <2>1, <2>4 DEF ConcernAt
    <3>3. Masked(addr.ip, o.port) = Masked(o.ip, o.port)
      BY <3>1, <3>2, MaskedIs
    <3> QED BY <3>1, <3>3 DEF HasRule, Covering
  <2> QED BY <2>2, <2>3, <2>4 DEF IsMap
<1>4. CASE addr \notin concern_addr_set
  <2>1. PICK p \in subnet_suffix : [ip |-> Masked(addr.ip, p), port |-> p] \in concern_addr_set
    BY <1>4 DEF check_addr_is_concerned
  <2> DEFINE a == [ip |-> Masked(addr.ip, p), port |-> p]
  <2>2. PICK i \in DOMAIN file : ConcernAt(a, i)
    BY <2>1, AtTheEnd
  <2> DEFINE o == file[i].from
  <2>3. IsMap(file[i]) /\ o.port # 0
    BY <2>2 DEF ConcernAt
  <2>4. file[i].cmd # "map-addr"
    <3> SUFFICES ASSUME file[i].cmd = "map-addr" PROVE FALSE
      OBVIOUS
    <3>1. o.port = p
      BY <2>2 DEF ConcernAt
    <3> QED BY <1>2, <2>3, <3>1 DEF PortIsSuffix
  <2>5. file[i].cmd = "map-cidr"
    BY <2>3, <2>4 DEF IsMap
  <2>6. a = [ip |-> Masked(o.ip, o.port), port |-> o.port]
    BY <2>2, <2>4 DEF ConcernAt
  <2>7. o.port = p /\ Masked(addr.ip, p) = Masked(o.ip, p)
    BY <2>6
  <2> QED BY <1>2, <2>3, <2>5, <2>7 DEF HasRule, Covering
<1> QED BY <1>3, <1>4

\* The first of the networks around an address is the widest.
LEMMA FirstIsWidest ==
  ASSUME NEW ip \in Nat, NEW S, S # {},
         \A o \in S : /\ o \in [ip : Ip, port : Nat \ {0}] /\ o.port \in 0..Bits
                      /\ o.ip = Masked(ip, o.port)
  PROVE  /\ FirstOf(S) \in S
         /\ \A p \in S \ {FirstOf(S)} : FirstOf(S).port < p.port
<1> DEFINE lengths == {n \in 0..Bits : \E o \in S : o.port = n}
           First(o) == \A p \in S \ {o} : cmp_addr_less(o, p)
<1>0. Bits \in Nat
  BY BitsAre
<1>1. PICK n \in lengths : \A m \in lengths : n <= m
  <2>1. lengths \subseteq Nat /\ lengths # {}
    BY <1>0
  <2> HIDE DEF lengths
  <2> QED BY <2>1, LeastNatural
<1>2. PICK o \in S : o.port = n
  BY <1>1
<1>3. ASSUME NEW p \in S, p # o PROVE o.port < p.port
  <2>1. p.port \in lengths /\ n <= p.port /\ n \in Nat /\ p.port \in Nat
    BY <1>0, <1>1
  <2>2. p.port # n
    <3> SUFFICES ASSUME p.port = n PROVE FALSE
      OBVIOUS
    <3>1. o.ip = p.ip
      BY <1>2
    <3>2. o = [ip |-> o.ip, port |-> o.port] /\ p = [ip |-> p.ip, port |-> p.port]
      OBVIOUS
    <3> QED BY <1>2, <1>3, <3>1, <3>2
  <2> QED BY <1>2, <2>1, <2>2
<1>4. ASSUME NEW p \in S, p # o
      PROVE  cmp_addr_less(o, p) /\ ~cmp_addr_less(p, o)
  <2>1. /\ o.port \in 0..Bits /\ p.port \in 0..Bits /\ o.port < p.port
        /\ o.ip = Masked(ip, o.port) /\ p.ip = Masked(ip, p.port)
    BY <1>3, <1>4
  <2>2. o.ip = p.ip \/ Raw(o.ip) < Raw(p.ip)
    <3>1. o.port <= p.port
      BY <1>0, <2>1
    <3> QED BY <2>1, <3>1, WiderFirst
  <2>3. \A q \in S : Raw(q.ip) \in Int
    <3>1. Power[OctetBits] \in Nat \ {0}
      BY BitsAre, PowerDefined
    <3>2. \A x \in Nat : Raw(x) \in Int
      BY <3>1 DEF Raw
    <3> QED BY <3>2, IpIs
  <2>4. Raw(o.ip) \in Int /\ Raw(p.ip) \in Int /\ o.port \in Int /\ p.port \in Int
    BY <1>0, <2>1, <2>3
  <2> QED BY <2>1, <2>2, <2>4 DEF cmp_addr_less
<1>5. First(o)
  BY <1>4
<1>6. \A q \in S : First(q) => q = o
  BY <1>4
<1>7. FirstOf(S) = o
  <2>1. FirstOf(S) = CHOOSE q \in S : First(q)
    BY DEF FirstOf
  <2> HIDE DEF First
  <2> QED BY <1>2, <1>5, <1>6, <2>1
<1> QED BY <1>2, <1>3, <1>7

\* For every file without incomplete lines and ports that read as prefix lengths,
\* a program frames only what tproxy masquerades (init_config_file,
\* ConfigFile::load).
THEOREM NothingElseFramed == ConfigSpec => []FramedAreMasqueraded
BY TablesInvariance, FramedHasRule, PTL

\* The rules around an address are the keys that cover it.
LEMMA CoveringRules ==
  ASSUME TablesInv, Read, \A l \in MapLines : Canonical(l), NEW addr \in Sockaddr
  PROVE  LET around == {i \in Rules("map-cidr") :
                         LET f == file[i].from IN Masked(addr.ip, f.port) = f.ip}
         IN  /\ \A i \in around : file[i].from \in Covering(addr)
             /\ \A o \in Covering(addr) :
                  /\ o \in [ip : Ip, port : Nat \ {0}] /\ o.port \in 0..Bits
                  /\ o.ip = Masked(addr.ip, o.port)
                  /\ \E i \in around :
                       /\ file[i].from = o /\ cidr_map[o] = file[i].to
                       /\ \A j \in around : file[j].from = o => j <= i
<1> DEFINE around == {i \in Rules("map-cidr") :
                        LET f == file[i].from IN Masked(addr.ip, f.port) = f.ip}
<1>1. ASSUME NEW i \in Rules("map-cidr")
      PROVE  /\ file[i].from \in DOMAIN cidr_map
             /\ file[i].from \in [ip : Ip, port : Nat \ {0}] /\ file[i].from.port \in 0..Bits
             /\ file[i].from.ip = Masked(file[i].from.ip, file[i].from.port)
  <2>1. file[i] \in MapLines /\ file[i].cmd = "map-cidr"
    BY DEF Rules, MapLines, Lines, IsMap
  <2>2. file[i].from.port # Missing
    BY <2>1, AtTheEnd
  <2>3. file[i].from \in DOMAIN cidr_map
    BY AtTheEnd DEF Table
  <2> QED BY <2>1, <2>2, <2>3, RuleKey DEF Canonical
<1>2. ASSUME NEW i \in around PROVE file[i].from \in Covering(addr)
  BY <1>1 DEF Covering
<1>3. ASSUME NEW o \in Covering(addr)
      PROVE  /\ o \in [ip : Ip, port : Nat \ {0}] /\ o.port \in 0..Bits
             /\ o.ip = Masked(addr.ip, o.port)
             /\ \E i \in around :
                  /\ file[i].from = o /\ cidr_map[o] = file[i].to
                  /\ \A j \in around : file[j].from = o => j <= i
  <2>1. o \in DOMAIN cidr_map /\ Masked(o.ip, o.port) = Masked(addr.ip, o.port)
    BY DEF Covering
  <2>2. PICK i \in Rules("map-cidr") :
          /\ file[i].from = o /\ cidr_map[o] = file[i].to
          /\ \A j \in Rules("map-cidr") : j <= Len(file) /\ file[j].from = o => j <= i
    BY <2>1, AtTheEnd DEF Table
  <2>3. \A j \in Rules("map-cidr") : j <= Len(file)
    BY AtTheEnd
  <2>4. i \in around
    BY <1>1, <2>1, <2>2
  <2>5. \A j \in around : file[j].from = o => j <= i
    BY <2>2, <2>3
  <2> QED BY <1>1, <2>1, <2>2, <2>4, <2>5
<1> QED BY <1>2, <1>3

\* The tables hold the last rules, and the first network found is the widest.
LEMMA RuleIsWidest == TablesInv => WidestPrefix
<1> SUFFICES ASSUME TablesInv, Read, \A l \in MapLines : Canonical(l), NEW addr \in Sockaddr
    PROVE
      LET exact == {i \in Rules("map-addr") : file[i].from = addr}
          around == {i \in Rules("map-cidr") :
                       LET f == file[i].from IN Masked(addr.ip, f.port) = f.ip}
          masq == get_masquerade_addr(addr)
      IN  /\ exact # {} => \E i \in exact : (\A j \in exact : j <= i) /\ masq = file[i].to
          /\ exact = {} /\ around # {} =>
               \E i \in around :
                 /\ \A j \in around : \/ file[i].from.port < file[j].from.port
                                      \/ file[i].from.port = file[j].from.port /\ j <= i
                 /\ masq.ip = Translated(addr.ip, file[i].to) /\ masq.port = addr.port
          /\ exact = {} /\ around = {} => masq = addr
  BY DEF WidestPrefix
<1> DEFINE exact == {i \in Rules("map-addr") : file[i].from = addr}
           around == {i \in Rules("map-cidr") :
                        LET f == file[i].from IN Masked(addr.ip, f.port) = f.ip}
           masq == get_masquerade_addr(addr)
<1>1. addr.ip \in Nat /\ addr = [ip |-> addr.ip, port |-> addr.port]
  BY IpIs DEF Sockaddr
<1>2. exact # {} => addr \in DOMAIN addr_map
  BY AtTheEnd DEF Table
<1>3. ASSUME addr \in DOMAIN addr_map
      PROVE  \E i \in exact : (\A j \in exact : j <= i) /\ masq = file[i].to
  <2>1. PICK i \in Rules("map-addr") :
          /\ file[i].from = addr /\ addr_map[addr] = file[i].to
          /\ \A j \in Rules("map-addr") : j <= Len(file) /\ file[j].from = addr => j <= i
    BY <1>3, AtTheEnd DEF Table
  <2>2. \A j \in Rules("map-addr") : j <= Len(file)
    BY AtTheEnd
  <2>3. masq = file[i].to
    BY <1>3, <2>1 DEF get_masquerade_addr
  <2>4. i \in exact /\ \A j \in exact : j <= i
    BY <2>1, <2>2
  <2> QED BY <2>3, <2>4
<1>4. /\ \A i \in around : file[i].from \in Covering(addr)
      /\ \A o \in Covering(addr) :
           /\ o \in [ip : Ip, port : Nat \ {0}] /\ o.port \in 0..Bits
           /\ o.ip = Masked(addr.ip, o.port)
           /\ \E i \in around :
                /\ file[i].from = o /\ cidr_map[o] = file[i].to
                /\ \A j \in around : file[j].from = o => j <= i
  BY CoveringRules
<1>5. ASSUME exact = {}, around # {}
      PROVE  \E i \in around :
               /\ \A j \in around : \/ file[i].from.port < file[j].from.port
                                    \/ file[i].from.port = file[j].from.port /\ j <= i
               /\ masq.ip = Translated(addr.ip, file[i].to) /\ masq.port = addr.port
  <2> DEFINE o == FirstOf(Covering(addr))
  <2>1. addr \notin DOMAIN addr_map
    BY <1>3, <1>5
  <2>2. Covering(addr) # {}
    BY <1>4, <1>5
  <2>3. o \in Covering(addr) /\ \A p \in Covering(addr) \ {o} : o.port < p.port
    <3>1. \A p \in Covering(addr) :
            /\ p \in [ip : Ip, port : Nat \ {0}] /\ p.port \in 0..Bits
            /\ p.ip = Masked(addr.ip, p.port)
      BY <1>4
    <3> HIDE DEF around
    <3> QED BY <1>1, <2>2, <3>1, FirstIsWidest
  <2>4. masq = [addr EXCEPT !.ip = Translated(addr.ip, cidr_map[o])]
    BY <2>1, <2>2 DEF get_masquerade_addr
  <2>5. masq.ip = Translated(addr.ip, cidr_map[o]) /\ masq.port = addr.port
    BY <1>1, <2>4
  <2> HIDE DEF o, around, masq
  <2>6. PICK i \in around :
          /\ file[i].from = o /\ cidr_map[o] = file[i].to
          /\ \A j \in around : file[j].from = o => j <= i
    BY <1>4, <2>3
  <2>7. ASSUME NEW j \in around
        PROVE  \/ file[i].from.port < file[j].from.port
               \/ file[i].from.port = file[j].from.port /\ j <= i
    <3>1. file[j].from \in Covering(addr)
      BY <1>4
    <3> QED BY <2>3, <2>6, <3>1
  <2> QED BY <2>5, <2>6, <2>7
<1>6. ASSUME exact = {}, around = {} PROVE masq = addr
  <2>1. addr \notin DOMAIN addr_map
    BY <1>3, <1>6
  <2>2. Covering(addr) = {}
    BY <1>4, <1>6
  <2> QED BY <2>1, <2>2 DEF get_masquerade_addr
<1> QED BY <1>2, <1>3, <1>5, <1>6

\* For every file of canonical lines: the rule applied to an address is the last
\* exact one for it, else the last of the widest network around it, although the
\* map is ordered by bytes in memory (cmp_addr_less, get_masquerade_addr).
THEOREM WidestRuleFirst == ConfigSpec => []WidestPrefix
BY TablesInvariance, RuleIsWidest, PTL
================================================================================
