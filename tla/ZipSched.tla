------------------------------ MODULE ZipSched ------------------------------
(***************************************************************************)
(* The ZipOS scheduler (kschedule, sw/zipos/kernel.c) as an operator.      *)
(*                                                                         *)
(* tasklist[] is the set 0 .. Idle, whose last entry Idle (LAST_TASK) is   *)
(* the idle task.  Idle is never chosen while another task is ready.       *)
(***************************************************************************)
EXTENDS Naturals

CONSTANT NTasks         \* number of user tasks: kntasks()

ASSUME NTasksAssumption == NTasks \in Nat \ {0}

Tasks == 0 .. NTasks - 1        \* tasklist[0 .. LAST_TASK-1]
Idle  == NTasks                 \* tasklist[LAST_TASK], the idle task

\* The tasks that may run, and the first of them at or after position i.
ReadyTasks(state) == {t \in Tasks : state[t] = "READY"}
FirstOf(S) == CHOOSE t \in S : \A u \in S : t <= u

\* Mutant: always from the first task on.
KScheduleFirst(state, last) ==
    IF ReadyTasks(state) # {} THEN FirstOf(ReadyTasks(state)) ELSE Idle

\* kschedule: the next ready task after the one that ran last, going round
\* once; the idle task when nothing is ready.
KSchedule(state, last) ==
    LET ready == ReadyTasks(state)
        later == {t \in ready : t > last}
    IN  CASE later # {}                 -> FirstOf(later)
          [] later = {} /\ ready # {}   -> FirstOf(ready)
          [] ready = {}                 -> Idle
=============================================================================
