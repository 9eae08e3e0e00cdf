---------------------------- MODULE TimingProofs ----------------------------
(* Theorems about the virtual clock, for every resolution below a second,    *)
(* every set of increments and, except NoStepBack, any number of threads.    *)
EXTENDS Timing, TLAPS

\* Products with the length of a second, which is a constant of unknown value.
LEMMA Distribute ==
  ASSUME NEW x \in Int, NEW y \in Int, NEW S \in Int
  PROVE  (x + y) * S = x * S + y * S
OBVIOUS

LEMMA TimesMonotone ==
  ASSUME NEW x \in Nat, NEW y \in Nat, x <= y, NEW S \in Nat
  PROVE  x * S <= y * S
OBVIOUS

LEMMA Product ==
  ASSUME NEW x \in Nat, NEW y \in Nat
  PROVE  x * y \in Nat
OBVIOUS

LEMMA Successor ==
  ASSUME NEW x \in Nat, NEW y \in Nat
  PROVE  x * (y + 1) = x * y + x
OBVIOUS

\* A timespec is worth a number of nanoseconds, and no field of it can grow
\* without that number growing.
LEMMA NsNat ==
  ASSUME NEW ts \in timespec
  PROVE  ts["tv_sec"] \in Nat /\ ts["tv_nsec"] \in Nat /\ Ns(ts) \in Nat
<1>1. ts["tv_sec"] \in Nat /\ ts["tv_nsec"] \in Nat
  BY DEF timespec, Fields
<1>2. ts["tv_sec"] * S_TO_NS \in Nat
  BY <1>1, TimingAssumption, Product
<1> QED
  BY <1>1, <1>2 DEF Ns

LEMMA NsMonotone ==
  ASSUME NEW ts \in timespec, NEW us \in timespec,
         \A fld \in Fields : ts[fld] <= us[fld]
  PROVE  Ns(ts) <= Ns(us)
<1>1. ts["tv_sec"] <= us["tv_sec"] /\ ts["tv_nsec"] <= us["tv_nsec"]
  BY DEF Fields
<1>2. ts["tv_sec"] * S_TO_NS <= us["tv_sec"] * S_TO_NS
  BY <1>1, NsNat, TimingAssumption, TimesMonotone
<1>3. /\ ts["tv_sec"] * S_TO_NS \in Nat /\ us["tv_sec"] * S_TO_NS \in Nat
      /\ ts["tv_nsec"] \in Nat /\ us["tv_nsec"] \in Nat
  BY NsNat, TimingAssumption, Product
<1> QED
  BY <1>1, <1>2, <1>3 DEF Ns

-----------------------------------------------------------------------------
(* What the two writers of the clock do to it.                               *)

\* A reading that moves the clock moves it by one resolution, the carry
\* included.
LEMMA IncreaseResolution ==
  ASSUME TypeOK, increase_resolution
  PROVE  /\ curr_monotonic' \in timespec
         /\ Ns(curr_monotonic') = Ns(curr_monotonic) + Resolution
         /\ resolution_increment' = resolution_increment + 1
<1> DEFINE sec == curr_monotonic["tv_sec"]
           nsec == curr_monotonic["tv_nsec"]
<1>1. curr_monotonic \in timespec /\ sec \in Nat /\ nsec \in Nat
  BY NsNat DEF TypeOK
<1>2. resolution_increment' = resolution_increment + 1
  BY DEF increase_resolution
<1>3. CASE nsec + Resolution >= S_TO_NS
  <2>1. curr_monotonic' = [curr_monotonic EXCEPT
          !["tv_sec"] = @ + 1, !["tv_nsec"] = (nsec + Resolution) - S_TO_NS]
    BY <1>3 DEF increase_resolution
  <2>2. (nsec + Resolution) - S_TO_NS \in Nat
    BY <1>1, <1>3, TimingAssumption
  <2>3. /\ curr_monotonic' \in timespec
        /\ curr_monotonic'["tv_sec"] = sec + 1
        /\ curr_monotonic'["tv_nsec"] = (nsec + Resolution) - S_TO_NS
    BY <1>1, <2>1, <2>2 DEF timespec, Fields
  <2>4. (sec + 1) * S_TO_NS = sec * S_TO_NS + 1 * S_TO_NS
    BY <1>1, TimingAssumption, Distribute
  <2>5. sec * S_TO_NS \in Nat
    BY <1>1, TimingAssumption, Product
  <2> QED
    BY <1>1, <1>2, <2>3, <2>4, <2>5, TimingAssumption DEF Ns
<1>4. CASE ~(nsec + Resolution >= S_TO_NS)
  <2>1. curr_monotonic' = [curr_monotonic EXCEPT
          !["tv_sec"] = @ + 0, !["tv_nsec"] = nsec + Resolution]
    BY <1>4 DEF increase_resolution
  <2>2. nsec + Resolution \in Nat
    BY <1>1, TimingAssumption
  <2>3. /\ curr_monotonic' \in timespec
        /\ curr_monotonic'["tv_sec"] = sec
        /\ curr_monotonic'["tv_nsec"] = nsec + Resolution
    BY <1>1, <2>1, <2>2 DEF timespec, Fields
  <2>4. sec * S_TO_NS \in Nat
    BY <1>1, TimingAssumption, Product
  <2> QED
    BY <1>1, <1>2, <2>3, <2>4, TimingAssumption DEF Ns
<1> QED
  BY <1>3, <1>4

\* A command's nanoseconds are added field by field, so both fields only grow.
LEMMA AddNsAdds ==
  ASSUME TypeOK, NEW ns \in Int, AddNs(ns)
  PROVE  /\ curr_monotonic' \in timespec
         /\ Ns(curr_monotonic') = Ns(curr_monotonic) + ns
         /\ \A fld \in Fields : curr_monotonic[fld] <= curr_monotonic'[fld]
<1>1. /\ curr_monotonic \in timespec
      /\ curr_monotonic["tv_sec"] \in Nat /\ curr_monotonic["tv_nsec"] \in Nat
  BY NsNat DEF TypeOK
<1>2. PICK sec \in 0 .. ns, nsec \in 0 .. S_TO_NS - 1 :
        /\ ns = sec * S_TO_NS + nsec
        /\ curr_monotonic' = [curr_monotonic EXCEPT !["tv_sec"] = @ + sec,
                                                    !["tv_nsec"] = @ + nsec]
  BY DEF AddNs
<1>3. sec \in Nat /\ nsec \in Nat
  BY <1>2, TimingAssumption
<1>4. /\ curr_monotonic' \in timespec
      /\ curr_monotonic'["tv_sec"] = curr_monotonic["tv_sec"] + sec
      /\ curr_monotonic'["tv_nsec"] = curr_monotonic["tv_nsec"] + nsec
  BY <1>1, <1>2, <1>3 DEF timespec, Fields
<1>5. (curr_monotonic["tv_sec"] + sec) * S_TO_NS
        = curr_monotonic["tv_sec"] * S_TO_NS + sec * S_TO_NS
  BY <1>1, <1>3, TimingAssumption, Distribute
<1>6. curr_monotonic["tv_sec"] * S_TO_NS \in Nat /\ sec * S_TO_NS \in Nat
  BY <1>1, <1>3, TimingAssumption, Product
<1>7. Ns(curr_monotonic') = Ns(curr_monotonic) + ns
  BY <1>1, <1>2, <1>3, <1>4, <1>5, <1>6 DEF Ns
<1>8. \A fld \in Fields : curr_monotonic[fld] <= curr_monotonic'[fld]
  BY <1>1, <1>3, <1>4 DEF Fields
<1> QED
  BY <1>4, <1>7, <1>8

\* A command either comes too late or moves the clock to ns after the last one.
LEMMA SetTimeIncrement ==
  ASSUME TypeOK, NEW ns \in Increments, set_time_increment(ns)
  PROVE  LET ahead == Resolution * resolution_increment
         IN  /\ curr_monotonic' \in timespec
             /\ Ns(curr_monotonic') =
                  (Ns(curr_monotonic) - ahead) + (IF ns > ahead THEN ns ELSE ahead)
             /\ \A fld \in Fields : curr_monotonic[fld] <= curr_monotonic'[fld]
<1> DEFINE ahead == Resolution * resolution_increment
<1>1. ahead \in Nat
  BY TimingAssumption, Product DEF TypeOK
<1>2. ns \in Int
  BY TimingAssumption
<1>3. curr_monotonic \in timespec /\ Ns(curr_monotonic) \in Nat
  BY NsNat DEF TypeOK
<1>4. \A fld \in Fields : curr_monotonic[fld] \in Nat
  BY <1>3 DEF timespec
<1>5. CASE ahead >= ns
  <2>1. curr_monotonic' = curr_monotonic
    BY <1>5 DEF set_time_increment
  <2>2. ~(ns > ahead)
    BY <1>1, <1>2, <1>5
  <2>3. Ns(curr_monotonic) = (Ns(curr_monotonic) - ahead) + ahead
    BY <1>1, <1>3
  <2> QED
    BY <1>3, <1>4, <2>1, <2>2, <2>3
<1>6. CASE ~(ahead >= ns)
  <2>1. AddNs(ns - ahead)
    BY <1>6 DEF set_time_increment
  <2>2. ns - ahead \in Int /\ ns > ahead
    BY <1>1, <1>2, <1>6
  <2>3. /\ curr_monotonic' \in timespec
        /\ Ns(curr_monotonic') = Ns(curr_monotonic) + (ns - ahead)
        /\ \A fld \in Fields : curr_monotonic[fld] <= curr_monotonic'[fld]
    BY <2>1, <2>2, AddNsAdds
  <2>4. Ns(curr_monotonic) + (ns - ahead) = (Ns(curr_monotonic) - ahead) + ns
    BY <1>1, <1>2, <1>3
  <2> QED
    BY <2>2, <2>3, <2>4
<1> QED
  BY <1>5, <1>6

-----------------------------------------------------------------------------
(* Type correctness.                                                         *)

LEMMA InitType == Init => TypeOK
BY DEF Init, TypeOK, START_MONOTONIC, timespec, Fields

LEMMA NextType == TypeOK /\ [Next]_vars => TypeOK'
<1> SUFFICES ASSUME TypeOK, [Next]_vars PROVE TypeOK'
  OBVIOUS
<1>1. ASSUME NEW t \in Thread, increase_time(t) PROVE TypeOK'
  <2>1. curr_monotonic' \in timespec /\ resolution_increment' \in Nat
    <3>1. CASE is_time_stopped
      BY <1>1, <3>1, IncreaseResolution DEF increase_time, TypeOK
    <3>2. CASE ~is_time_stopped
      BY <1>1, <3>2 DEF increase_time, TypeOK
    <3> QED
      BY <3>1, <3>2
  <2> QED
    BY <1>1, <2>1 DEF increase_time, TypeOK
<1>2. ASSUME NEW t \in Thread, NEW fld \in Fields, read_field(t, fld)
      PROVE  TypeOK'
  <2>1. tp[t] \in timespec /\ curr_monotonic[fld] \in Nat
    BY DEF TypeOK, timespec
  <2>2. [tp[t] EXCEPT ![fld] = curr_monotonic[fld]] \in timespec
    BY <2>1 DEF timespec
  <2>3. tp' \in [Thread -> timespec]
    BY <1>2, <2>2 DEF read_field, TypeOK
  <2> QED
    BY <1>2, <2>3 DEF read_field, TypeOK, clock
<1>3. ASSUME NEW ns \in Increments, set_time_increment(ns) PROVE TypeOK'
  <2>1. curr_monotonic' \in timespec
    BY <1>3, SetTimeIncrement
  <2> QED
    BY <1>3, <2>1 DEF set_time_increment, TypeOK, reading
<1>4. CASE UNCHANGED vars
  BY <1>4 DEF TypeOK, vars, clock, reading
<1> QED
  BY <1>1, <1>2, <1>3, <1>4 DEF Next

\* The clock and everything a reading has loaded are always timespecs with
\* fields that are not negative, whatever the increments (timing.c).
THEOREM TimingType == Spec => []TypeOK
BY InitType, NextType, PTL DEF Spec

-----------------------------------------------------------------------------
(* Refinement.                                                               *)

LEMMA InitClock == Init => TheClock!Init
<1> SUFFICES ASSUME Init PROVE TheClock!Init
  OBVIOUS
<1>1. TypeOK /\ resolution_increment = 0
  BY InitType DEF Init
<1>2. Ns(curr_monotonic) \in Nat
  BY <1>1, NsNat DEF TypeOK
<1>3. Resolution * resolution_increment = 0
  BY <1>1, TimingAssumption
<1> QED
  BY <1>2, <1>3 DEF TheClock!Init

\* A reading is a tick or nothing, loading a field is nothing, and a command
\* is the abstract clock's.
LEMMA NextClock ==
  TypeOK /\ [Next]_vars => [TheClock!Next]_(TheClock!vars)
<1> SUFFICES ASSUME TypeOK, [Next]_vars
             PROVE  [TheClock!Next]_(TheClock!vars)
  OBVIOUS
<1> DEFINE ahead == Resolution * resolution_increment
           base == Ns(curr_monotonic) - ahead
<1>1. ahead \in Nat /\ Ns(curr_monotonic) \in Nat
  BY TimingAssumption, Product, NsNat DEF TypeOK
<1>2. ASSUME NEW t \in Thread, increase_time(t), is_time_stopped
      PROVE  TheClock!Tick
  <2>1. /\ Ns(curr_monotonic') = Ns(curr_monotonic) + Resolution
        /\ resolution_increment' = resolution_increment + 1
    BY <1>2, IncreaseResolution DEF increase_time
  <2>2. Resolution * resolution_increment' = ahead + Resolution
    BY <2>1, TimingAssumption, Successor DEF TypeOK
  <2>3. Ns(curr_monotonic') - (Resolution * resolution_increment') = base
    BY <1>1, <2>1, <2>2, TimingAssumption
  <2> QED
    BY <2>2, <2>3 DEF TheClock!Tick, Ns
<1>3. ASSUME UNCHANGED clock PROVE UNCHANGED TheClock!vars
  BY <1>3 DEF TheClock!vars, clock, Ns
<1>4. ASSUME NEW t \in Thread, increase_time(t), ~is_time_stopped
      PROVE  UNCHANGED TheClock!vars
  BY <1>4 DEF increase_time, TheClock!vars, Ns
<1>5. ASSUME NEW ns \in Increments, set_time_increment(ns)
      PROVE  TheClock!Advance(ns)
  <2>1. Ns(curr_monotonic') = base + (IF ns > ahead THEN ns ELSE ahead)
    BY <1>5, SetTimeIncrement
  <2>2. Resolution * resolution_increment' = 0
    BY <1>5, TimingAssumption DEF set_time_increment
  <2>3. base + (IF ns > ahead THEN ns ELSE ahead) \in Int
    BY <1>1, TimingAssumption
  <2>4. Ns(curr_monotonic') - (Resolution * resolution_increment')
          = base + (IF ns > ahead THEN ns ELSE ahead)
    BY <2>1, <2>2, <2>3
  <2> QED
    BY <2>2, <2>4 DEF TheClock!Advance, Ns
<1>6. CASE Next
  BY <1>2, <1>3, <1>4, <1>5, <1>6
     DEF Next, read_field, TheClock!Next
<1>7. CASE UNCHANGED vars
  BY <1>3, <1>7 DEF vars, clock
<1> QED
  BY <1>6, <1>7

\* Carries, deductions and late commands add up: timing.c's two timespecs and
\* its counter implement the clock the router commands.
THEOREM ClockRefinement == Spec => ImplementsClock
<1>1. Init => TheClock!Init
  BY InitClock
<1>2. TypeOK /\ [Next]_vars => [TheClock!Next]_(TheClock!vars)
  BY NextClock
<1> QED
  BY <1>1, <1>2, TimingType, PTL DEF Spec, ImplementsClock, TheClock!Spec

-----------------------------------------------------------------------------
(* A single reader does not see the clock go back, wherever the commands      *)
(* fall between the loads of its two fields.                                 *)

OneReader == \A t, u \in Thread : t = u

ReaderInv == TypeOK /\ ReadingsBounded /\ NeverBackwards

LEMMA InitReader == Init => ReaderInv
<1> SUFFICES ASSUME Init PROVE ReaderInv
  OBVIOUS
<1>1. TypeOK
  BY InitType
<1>2. Ns(START_MONOTONIC) \in Nat
  BY <1>1, NsNat DEF Init, TypeOK
<1>3. \A fld \in Fields : START_MONOTONIC[fld] \in Nat
  BY <1>1 DEF Init, TypeOK, timespec
<1>4. ReadingsBounded
  BY <1>2, <1>3 DEF Init, ReadingsBounded
<1>5. NeverBackwards
  BY <1>2 DEF Init, NeverBackwards
<1> QED
  BY <1>1, <1>4, <1>5 DEF ReaderInv

\* A reading that is complete lies between where the one before it left the
\* clock and where the clock is now.
LEMMA CompleteReading ==
  ASSUME TypeOK, ReadingsBounded, NEW t \in Thread, unread[t] = {}
  PROVE  Ns(last[t]) <= Ns(tp[t]) /\ Ns(tp[t]) <= Ns(curr_monotonic)
<1>1. /\ prev_monotonic \in timespec /\ curr_monotonic \in timespec
      /\ tp[t] \in timespec /\ last[t] \in timespec
  BY DEF TypeOK
<1>2. \A fld \in Fields : /\ prev_monotonic[fld] <= tp[t][fld]
                          /\ tp[t][fld] <= curr_monotonic[fld]
  BY DEF ReadingsBounded
<1>3. Ns(prev_monotonic) <= Ns(tp[t]) /\ Ns(tp[t]) <= Ns(curr_monotonic)
  BY <1>1, <1>2, NsMonotone
<1>4. Ns(last[t]) <= Ns(prev_monotonic)
  BY DEF ReadingsBounded
<1>5. Ns(last[t]) \in Nat /\ Ns(prev_monotonic) \in Nat /\ Ns(tp[t]) \in Nat
  BY <1>1, NsNat
<1> QED
  BY <1>3, <1>4, <1>5

LEMMA NextReader ==
  ASSUME OneReader
  PROVE  ReaderInv /\ [Next]_vars => ReaderInv'
<1> SUFFICES ASSUME ReaderInv, [Next]_vars PROVE ReaderInv'
  OBVIOUS
<1>1. TypeOK /\ TypeOK' /\ ReadingsBounded
  BY NextType DEF ReaderInv
<1>2. ReadingsBounded'
  <2>1. ASSUME NEW t \in Thread, increase_time(t) PROVE ReadingsBounded'
    <3>1. Ns(tp[t]) <= Ns(curr_monotonic)
      BY <1>1, <2>1, CompleteReading DEF increase_time
    <3>2. Ns(curr_monotonic) <= Ns(curr_monotonic')
      <4>1. CASE is_time_stopped
        <5>1. Ns(curr_monotonic') = Ns(curr_monotonic) + Resolution
          BY <1>1, <2>1, <4>1, IncreaseResolution DEF increase_time
        <5> QED
          BY <1>1, <5>1, NsNat, TimingAssumption DEF TypeOK
      <4>2. CASE ~is_time_stopped
        BY <1>1, <2>1, <4>2, NsNat DEF increase_time, TypeOK
      <4> QED
        BY <4>1, <4>2
    <3>3. Ns(last'[t]) <= Ns(prev_monotonic')
      <4>1. last'[t] = tp[t] /\ prev_monotonic' = curr_monotonic'
        BY <1>1, <2>1 DEF increase_time, TypeOK
      <4>2. /\ Ns(tp[t]) \in Nat /\ Ns(curr_monotonic) \in Nat
            /\ Ns(curr_monotonic') \in Nat
        BY <1>1, NsNat DEF TypeOK
      <4>3. Ns(tp[t]) <= Ns(curr_monotonic')
        BY <3>1, <3>2, <4>2
      <4> QED
        BY <4>1, <4>3
    <3>4. unread'[t] = Fields
      BY <1>1, <2>1 DEF increase_time, TypeOK
    <3>5. \A u \in Thread : u = t
      BY DEF OneReader
    <3>6. \A fld \in Fields : prev_monotonic'[fld] <= curr_monotonic'[fld]
      BY <1>1, <2>1 DEF increase_time, TypeOK, timespec
    <3> QED
      BY <3>3, <3>4, <3>5, <3>6 DEF ReadingsBounded, Ns
  <2>2. ASSUME NEW t \in Thread, NEW fld \in Fields, read_field(t, fld)
        PROVE  ReadingsBounded'
    <3>1. UNCHANGED <<curr_monotonic, prev_monotonic, last>>
      BY <2>2 DEF read_field, clock
    <3>2. curr_monotonic[fld] \in Nat /\ prev_monotonic[fld] <= curr_monotonic[fld]
      BY <1>1 DEF TypeOK, timespec, ReadingsBounded
    <3>3. tp'[t][fld] = curr_monotonic[fld]
      BY <1>1, <2>2 DEF read_field, TypeOK, timespec
    <3>4. ASSUME NEW u \in Thread, NEW fl \in Fields \ unread'[u]
          PROVE  prev_monotonic[fl] <= tp'[u][fl] /\ tp'[u][fl] <= curr_monotonic[fl]
      <4>1. u = t
        BY DEF OneReader
      <4>2. CASE fl = fld
        BY <3>2, <3>3, <4>1, <4>2
      <4>3. CASE fl # fld
        <5>1. tp'[t][fl] = tp[t][fl] /\ fl \notin unread[t]
          BY <1>1, <2>2, <3>4, <4>1, <4>3 DEF read_field, TypeOK, timespec
        <5> QED
          BY <1>1, <4>1, <5>1 DEF ReadingsBounded
      <4> QED
        BY <4>2, <4>3
    <3> QED
      BY <1>1, <3>1, <3>4 DEF ReadingsBounded, Ns
  <2>3. ASSUME NEW ns \in Increments, set_time_increment(ns)
        PROVE  ReadingsBounded'
    <3>1. \A fld \in Fields : curr_monotonic[fld] <= curr_monotonic'[fld]
      BY <1>1, <2>3, SetTimeIncrement
    <3>2. UNCHANGED <<prev_monotonic, unread, tp, last>>
      BY <2>3 DEF set_time_increment, reading
    <3>3. \A fld \in Fields : /\ prev_monotonic[fld] \in Nat
                              /\ curr_monotonic[fld] \in Nat
                              /\ curr_monotonic'[fld] \in Nat
                              /\ \A t \in Thread : tp[t][fld] \in Nat
      BY <1>1 DEF TypeOK, timespec
    <3>4. \A fld \in Fields : prev_monotonic[fld] <= curr_monotonic'[fld]
      BY <1>1, <3>1, <3>3 DEF ReadingsBounded
    <3>5. \A t \in Thread : \A fld \in Fields \ unread[t] :
            tp[t][fld] <= curr_monotonic'[fld]
      BY <1>1, <3>1, <3>3 DEF ReadingsBounded
    <3> QED
      BY <1>1, <3>2, <3>4, <3>5 DEF ReadingsBounded, Ns
  <2>4. CASE UNCHANGED vars
    BY <1>1, <2>4 DEF ReadingsBounded, vars, clock, reading, Ns
  <2> QED
    BY <2>1, <2>2, <2>3, <2>4 DEF Next
<1>3. NeverBackwards'
  <2> SUFFICES ASSUME NEW t \in Thread, unread'[t] = {}
               PROVE  Ns(last'[t]) <= Ns(tp'[t])
    BY DEF NeverBackwards, Ns
  <2>1. (TypeOK /\ ReadingsBounded)'
    BY <1>1, <1>2
  <2>2. /\ prev_monotonic' \in timespec /\ curr_monotonic' \in timespec
        /\ tp'[t] \in timespec /\ last'[t] \in timespec
    BY <2>1 DEF TypeOK
  <2>3. \A fld \in Fields : prev_monotonic'[fld] <= tp'[t][fld]
    BY <2>1 DEF ReadingsBounded
  <2>4. Ns(prev_monotonic') <= Ns(tp'[t])
    BY <2>2, <2>3, NsMonotone
  <2>5. Ns(last'[t]) <= Ns(prev_monotonic')
    BY <2>1 DEF ReadingsBounded, Ns
  <2>6. Ns(last'[t]) \in Nat /\ Ns(prev_monotonic') \in Nat /\ Ns(tp'[t]) \in Nat
    BY <2>2, NsNat
  <2> QED
    BY <2>4, <2>5, <2>6
<1> QED
  BY <1>1, <1>2, <1>3 DEF ReaderInv

\* As long as one thread reads it, the clock never goes back although it is
\* read outside the mutex: a command only ever increases both fields.
THEOREM NoStepBack ==
  ASSUME OneReader
  PROVE  Spec => []NeverBackwards
<1>1. Init => ReaderInv
  BY InitReader
<1>2. ReaderInv /\ [Next]_vars => ReaderInv'
  BY NextReader
<1>3. ReaderInv => NeverBackwards
  BY DEF ReaderInv
<1> QED
  BY <1>1, <1>2, <1>3, PTL DEF Spec
=============================================================================
