--------------------------- MODULE ZipSchedProofs ---------------------------
(***************************************************************************)
(* What the scheduler returns, for every number of tasks.                  *)
(***************************************************************************)
EXTENDS ZipSched, WellFoundedInduction, TLAPS

USE NTasksAssumption DEF Tasks, Idle

\* A set of natural numbers that is not empty has a smallest element.
LEMMA Smallest ==
    ASSUME NEW S \in SUBSET Nat, S # {}
    PROVE  \E x \in S : \A y \in S : x <= y
<1>1. PICK x \in S : \A y \in S : <<y, x>> \notin OpToRel(<, Nat)
  BY NatLessThanWellFounded, WFMin
<1>2. ASSUME NEW y \in S PROVE x <= y
  <2>1. <<y, x>> \in Nat \X Nat
    OBVIOUS
  <2>2. ~(y < x)
    BY <1>1, <2>1, Zenon DEF OpToRel
  <2> QED BY <2>2
<1> QED BY <1>2

\* FirstOf returns a member of the set.
LEMMA FirstOfMember ==
    ASSUME NEW S \in SUBSET Tasks, S # {}
    PROVE  FirstOf(S) \in S
<1>1. S \in SUBSET Nat
  OBVIOUS
<1>2. \E t \in S : \A u \in S : t <= u
  BY <1>1, Smallest
<1> QED BY <1>2 DEF FirstOf

\* kschedule returns a task that is ready, or the idle task if there is none.
LEMMA KScheduleChoice ==
    ASSUME NEW st, NEW last \in Tasks \cup {Idle}
    PROVE  \/ KSchedule(st, last) \in Tasks /\ st[KSchedule(st, last)] = "READY"
           \/ KSchedule(st, last) = Idle /\ \A t \in Tasks : st[t] # "READY"
<1> DEFINE ready == ReadyTasks(st)
           later == {t \in ready : t > last}
<1>1. /\ ready \in SUBSET Tasks
      /\ later \in SUBSET Tasks
      /\ \A t \in ready : st[t] = "READY"
      /\ later \subseteq ready
  BY DEF ReadyTasks
<1>2. CASE later # {}
  <2>1. KSchedule(st, last) = FirstOf(later)
    BY <1>2 DEF KSchedule
  <2> QED BY <2>1, <1>1, <1>2, FirstOfMember
<1>3. CASE later = {} /\ ready # {}
  <2>1. KSchedule(st, last) = FirstOf(ready)
    BY <1>3 DEF KSchedule
  <2> QED BY <2>1, <1>1, <1>3, FirstOfMember
<1>4. CASE ready = {}
  <2>1. KSchedule(st, last) = Idle
    BY <1>4 DEF KSchedule
  <2> QED BY <2>1, <1>4 DEF ReadyTasks
<1> QED BY <1>2, <1>3, <1>4
=============================================================================
