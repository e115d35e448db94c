------------------------------ MODULE ZipTimer ------------------------------
(***************************************************************************)
(* A count-down timer (rtl/cpu/ziptimer.v), ticked on every clock.  It     *)
(* interrupts for one clock as it goes from one to zero and, if it         *)
(* reloads, starts again on the next.                                      *)
(***************************************************************************)
EXTENDS Integers

CONSTANTS Reloadable,           \* the RELOADABLE parameter
          Wrap                  \* 2^VW, the number of values it counts

VARIABLES running, auto, reload, value, int

timerVars == <<running, auto, reload, value, int>>

TimerInit ==
    /\ running = FALSE /\ auto = FALSE /\ int = FALSE
    /\ reload = 0 /\ value = 0

Writes(n, again) == [value |-> n, auto |-> again]

\* A write that comes as the timer expires keeps the interrupt; if the timer
\* does not reload, that interrupt then stops the count just written.
TimerWrite(w) ==
    /\ running' = (w.value # 0)
    /\ value' = w.value
    /\ auto' = (Reloadable /\ w.auto)
    /\ reload' = IF Reloadable /\ w.auto /\ w.value # 0 THEN w.value ELSE reload

TimerCount ==
    /\ running' = (running /\ (int => auto))
    /\ value' = CASE running /\ ~int        -> (value - 1) % Wrap
                  [] running /\ int /\ auto -> reload
                  [] OTHER                  -> value
    /\ UNCHANGED <<auto, reload>>

TimerClock(words) ==
    /\ int' = (running /\ value = 1)
    /\ \/ words = {} /\ TimerCount
       \/ \E w \in words : TimerWrite(w)

TimerType ==
    /\ {running, auto, int} \subseteq BOOLEAN
    /\ reload \in 0 .. Wrap - 1 /\ value \in 0 .. Wrap - 1
=============================================================================
