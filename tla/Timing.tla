------------------------------- MODULE Timing -------------------------------
(* The time of the intercepted program (src/mysyscall/timing.c and its       *)
(* callers): clock_gettime, gettimeofday and time read a virtual clock that  *)
(* the router's inc_time_ns command advances.                                *)
(*                                                                           *)
(* The clock is updated under a mutex; the callers read its two fields after *)
(* the mutex has been released, each field at a moment of its own and in     *)
(* either order.                                                             *)
EXTENDS Integers

CONSTANTS
  Thread,       \* the threads of the program that read the clock
  S_TO_NS,      \* nanoseconds per second
  Resolution,   \* the nanoseconds of struct timespec resolution
  Increments,   \* what inc_time_ns is given, any long
  Horizon       \* bound: the clock is not moved once it is here

ASSUME TimingAssumption ==
  /\ S_TO_NS \in Nat /\ Resolution \in Nat
  /\ 0 < Resolution /\ Resolution < S_TO_NS
  /\ Increments \subseteq Int
  /\ Horizon \in Nat

Fields == {"tv_sec", "tv_nsec"}
timespec == [Fields -> Nat]
START_MONOTONIC == [fld \in Fields |-> IF fld = "tv_sec" THEN 10 ELSE 0]

VARIABLES
  curr_monotonic, prev_monotonic,   \* the clock, and where the last reading left it
  resolution_increment,             \* readings that moved it since the last command
  unread,                           \* unread[t]: the fields t's reading has still to load
  tp,                               \* tp[t]: what t's reading has loaded
  last                              \* last[t]: what t's reading before that returned

clock == <<curr_monotonic, prev_monotonic, resolution_increment>>
reading == <<unread, tp, last>>
vars == <<clock, reading>>

TypeOK ==
  /\ curr_monotonic \in timespec
  /\ prev_monotonic \in timespec
  /\ resolution_increment \in Nat
  /\ unread \in [Thread -> SUBSET Fields]
  /\ tp \in [Thread -> timespec]
  /\ last \in [Thread -> timespec]

\* A timespec, normalised or not, in nanoseconds.
Ns(ts) == ts["tv_sec"] * S_TO_NS + ts["tv_nsec"]

Init ==
  /\ curr_monotonic = START_MONOTONIC /\ prev_monotonic = START_MONOTONIC
  /\ resolution_increment = 0
  /\ unread = [t \in Thread |-> {}]
  /\ tp = [t \in Thread |-> START_MONOTONIC]
  /\ last = [t \in Thread |-> START_MONOTONIC]

is_time_stopped == prev_monotonic = curr_monotonic

\* Mutant: the carry is forgotten.
increase_resolution_no_carry ==
  /\ resolution_increment' = resolution_increment + 1
  /\ LET nsec == curr_monotonic["tv_nsec"] + Resolution
     IN  curr_monotonic' = [curr_monotonic EXCEPT !["tv_nsec"] =
           IF nsec >= S_TO_NS THEN nsec - S_TO_NS ELSE nsec]

\* Mutant: it comes one resolution too early.
increase_resolution_early ==
  /\ resolution_increment' = resolution_increment + 1
  /\ LET nsec == curr_monotonic["tv_nsec"] + Resolution
         carry == nsec + Resolution >= S_TO_NS
     IN  curr_monotonic' =
           [curr_monotonic EXCEPT
              !["tv_sec"] = @ + (IF carry THEN 1 ELSE 0),
              !["tv_nsec"] = IF carry THEN nsec - S_TO_NS ELSE nsec]

increase_resolution ==
  /\ resolution_increment' = resolution_increment + 1
  /\ LET nsec == curr_monotonic["tv_nsec"] + Resolution
         carry == nsec >= S_TO_NS
     IN  curr_monotonic' =
           [curr_monotonic EXCEPT
              !["tv_sec"] = @ + (IF carry THEN 1 ELSE 0),
              !["tv_nsec"] = IF carry THEN nsec - S_TO_NS ELSE nsec]

\* The first half of a reading, under the mutex.
increase_time(t) ==
  /\ unread[t] = {}
  /\ Ns(curr_monotonic) < Horizon
  /\ IF is_time_stopped THEN increase_resolution
     ELSE UNCHANGED <<curr_monotonic, resolution_increment>>
  /\ prev_monotonic' = curr_monotonic'
  /\ last' = [last EXCEPT ![t] = tp[t]]
  /\ unread' = [unread EXCEPT ![t] = Fields]
  /\ UNCHANGED tp

\* The second half, after the mutex: the fields one by one.
read_field(t, fld) ==
  /\ fld \in unread[t]
  /\ tp' = [tp EXCEPT ![t] = [@ EXCEPT ![fld] = curr_monotonic[fld]]]
  /\ unread' = [unread EXCEPT ![t] = @ \ {fld}]
  /\ UNCHANGED <<clock, last>>

\* tv_nsec / S_TO_NS and tv_nsec % S_TO_NS are added, without a carry.
AddNs(ns) ==
  \E sec \in 0 .. ns, nsec \in 0 .. S_TO_NS - 1 :
    /\ ns = sec * S_TO_NS + nsec
    /\ curr_monotonic' = [curr_monotonic EXCEPT !["tv_sec"] = @ + sec,
                                                !["tv_nsec"] = @ + nsec]

\* Mutant: what the readings have added is not deducted.
set_time_increment_in_full(tv_nsec) ==
  /\ Ns(curr_monotonic) < Horizon
  /\ IF Resolution * resolution_increment >= tv_nsec
     THEN UNCHANGED curr_monotonic
     ELSE AddNs(tv_nsec)
  /\ resolution_increment' = 0
  /\ UNCHANGED <<prev_monotonic, reading>>

set_time_increment(tv_nsec) ==
  /\ Ns(curr_monotonic) < Horizon
  /\ LET ns == Resolution * resolution_increment
     IN  IF ns >= tv_nsec THEN UNCHANGED curr_monotonic ELSE AddNs(tv_nsec - ns)
  /\ resolution_increment' = 0
  /\ UNCHANGED <<prev_monotonic, reading>>

Next ==
  \/ \E t \in Thread : increase_time(t) \/ \E fld \in Fields : read_field(t, fld)
  \/ \E ns \in Increments : set_time_increment(ns)

Spec == Init /\ [][Next]_vars

-----------------------------------------------------------------------------
\* What NeverBackwards rests on: no field of the clock is behind where the last
\* reading left it, what a reading has loaded lies between the two, and what
\* the reading before returned is not ahead of them.
ReadingsBounded ==
  /\ \A fld \in Fields : prev_monotonic[fld] <= curr_monotonic[fld]
  /\ \A t \in Thread :
       /\ Ns(last[t]) <= Ns(prev_monotonic)
       /\ \A fld \in Fields \ unread[t] :
            /\ prev_monotonic[fld] <= tp[t][fld]
            /\ tp[t][fld] <= curr_monotonic[fld]

\* The clock stands at what the commands add up to, plus one resolution for
\* every reading since the last command: the carries, the deduction of earlier
\* readings and the commands that come too late are accounted for, whatever
\* the threads are in the middle of (timing.c).
TheClock == INSTANCE VirtualClock WITH
  base <- Ns(curr_monotonic) - Resolution * resolution_increment,
  ahead <- Resolution * resolution_increment
ImplementsClock == TheClock!Spec

\* The clock does not go back for a thread that reads it, although the command
\* thread advances it while its fields are being loaded (clock_gettime).
NeverBackwards ==
  \A t \in Thread : unread[t] = {} => Ns(last[t]) <= Ns(tp[t])

\* timing.c:39, "if time is not advanced by command, increase with one
\* resolution": without commands, two successive readings of a thread differ
\* by a resolution at least.
ReadingsIncrease ==
  \A t \in Thread :
    unread[t] = {} /\ tp[t] # START_MONOTONIC => Ns(last[t]) + Resolution <= Ns(tp[t])
=============================================================================
