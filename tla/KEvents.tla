------------------------------ MODULE KEvents -------------------------------
(***************************************************************************)
(* Events and timeouts in ZipOS (sw/zipos/kernel.c): wait(), clear(),      *)
(* post(), the timer and button interrupts, and kpost(), which hands       *)
(* events out to the tasks.                                                *)
(*                                                                         *)
(* A set of events is a mask of the code; "TIMEOUT" is SWINT_TIMEOUT.  A   *)
(* pass of the kernel goes through "irq", "trap" and "sched", as in        *)
(* SysPipe.  The millisecond counter is signed and wraps, timeouts are     *)
(* unsigned: Half stands for 2^31.                                         *)
(***************************************************************************)
EXTENDS Integers, FiniteSets, ZipSched

CONSTANTS Waits,        \* calls to wait(): records [mask, timeout]
          Clears,       \* calls to clear(): records [mask, timeout]
          Posts,        \* sets of events that tasks post
          Sleepers,     \* tasks that also sleep in pipes
          Signals,      \* hardware interrupts that are never enabled: KEYPAD
          MaskValue,    \* MaskValue[m]: the mask m as a number
          Half,         \* 2^31: where the millisecond counter wraps
          TicksPerSecond,
          Debounce,     \* 50: how long the button has to be quiet
          HasButton     \* is the button pressed at all?

\* The events that tasks may post, and all of them.
Software == {"CLOCK", "PPS", "DOORBELL"}
Events == Software \cup Signals \cup {"BUTTON", "TIMEOUT"}

ASSUME EventsAssumption ==
    /\ Half \in Nat /\ Half > 2
    /\ TicksPerSecond \in Nat \ {0}
    /\ Debounce \in Nat \ {0}
    /\ Sleepers \subseteq Tasks
    /\ HasButton \in BOOLEAN
    /\ \A w \in Waits : w.timeout \in -1 .. Half - 2 /\ w.mask \subseteq Events
    /\ \A c \in Clears : c.timeout \in -1 .. Half - 2 /\ MaskValue[c.mask] \in 0 .. 2 * Half - 1

VARIABLES
    state, waitsig, pending, timeout,   \* of each TASK
    ret,                    \* context[1]: what its last call returned
    ms, ticks, buttonstate, \* kernel_entry's counters
    btnen,                  \* is the button in enableset?
    irqs,                   \* pending bits of the interrupt controller
    pressed,                \* the button itself
    current, phase, trap,   \* the running task, the kernel's loop, its trap
    call,                   \* each task is in "user" code, a "wait" or a "pipe"
    goal, elapsed,          \* the timeout of the wait it sleeps in, and how
                            \* long that has been
    lost                    \* events taken from it that no call returned

taskVars == <<state, waitsig, pending, timeout, ret>>
clockVars == <<ms, ticks>>
buttonVars == <<buttonstate, btnen>>
kernelVars == <<current, phase, trap>>
histVars == <<call, goal, elapsed, lost>>
vars == <<taskVars, clockVars, buttonVars, irqs, pressed, kernelVars, histVars>>

NoTrap == [id |-> "none", mask |-> {}, timeout |-> 0]
Sleep == [mask |-> {}, timeout |-> -1]          \* wait(0,-1), of the pipes

Init ==
    /\ state = [t \in Tasks |-> "READY"]
    /\ waitsig = [t \in Tasks |-> {}]
    /\ pending = [t \in Tasks |-> {}]
    /\ timeout = [t \in Tasks |-> 0]
    /\ ret = [t \in Tasks |-> {}]
    /\ ms = 0 /\ ticks = 0
    /\ buttonstate = 0 /\ btnen = TRUE
    /\ irqs = {} /\ pressed = FALSE
    /\ current = 0 /\ phase = "user" /\ trap = NoTrap
    /\ call = [t \in Tasks |-> "user"]
    /\ goal = [t \in Tasks |-> 0]
    /\ elapsed = [t \in Tasks |-> 0]
    /\ lost = [t \in Tasks |-> {}]

-----------------------------------------------------------------------------
(***************************************************************************)
(* Tasks                                                                   *)
(***************************************************************************)
Trap(id, m, n) ==
    /\ phase = "user"
    /\ phase' = "irq"
    /\ trap' = [id |-> id, mask |-> m, timeout |-> n]
    /\ ret' = [ret EXCEPT ![current] = {}]
    /\ UNCHANGED <<state, waitsig, pending, timeout, clockVars, buttonVars, irqs, pressed,
                   current, histVars>>

Running(t, c) == current = t /\ call[t] = c

Wait(t) == Running(t, "user") /\ \E w \in Waits : Trap("WAIT", w.mask, w.timeout)
Clear(t) == Running(t, "user") /\ \E c \in Clears : Trap("CLEAR", c.mask, c.timeout)
Post(t) == Running(t, "user") /\ \E m \in Posts : Trap("POST", m, 0)
Yield(t) == Running(t, "user") /\ Trap("YIELD", {}, 0)

\* read() or write() on a pipe that is empty or full.
Block(t) == /\ t \in Sleepers
            /\ Running(t, "user")
            /\ Trap("BLOCK", {}, 0)

\* A task made ready inside such a call finishes it, or sleeps again.
PipeReturn(t) ==
    /\ Running(t, "pipe") /\ phase = "user"
    /\ call' = [call EXCEPT ![t] = "user"]
    /\ UNCHANGED <<taskVars, clockVars, buttonVars, irqs, pressed, kernelVars,
                   goal, elapsed, lost>>

PipeWait(t) == Running(t, "pipe") /\ Trap("WAIT", Sleep.mask, Sleep.timeout)

Task(t) == Wait(t) \/ Clear(t) \/ Post(t) \/ Yield(t) \/ Block(t)
           \/ PipeReturn(t) \/ PipeWait(t)

\* The other end of the pipe makes a task ready.
PipeWakes(t) ==
    /\ call[t] = "pipe" /\ state[t] = "WAITING"
    /\ state' = [state EXCEPT ![t] = "READY"]
    /\ UNCHANGED <<waitsig, pending, timeout, ret, clockVars, buttonVars, irqs,
                   pressed, kernelVars, histVars>>

-----------------------------------------------------------------------------
(***************************************************************************)
(* Devices                                                                 *)
(***************************************************************************)
DeviceVars == <<taskVars, clockVars, buttonVars, kernelVars, histVars>>

\* The timer interrupts once a millisecond; it is served before the next one.
Tick == /\ "TIMER" \notin irqs
        /\ irqs' = irqs \cup {"TIMER"}
        /\ UNCHANGED <<pressed, DeviceVars>>

Signal == \E s \in Signals \ irqs : /\ irqs' = irqs \cup {s}
                                    /\ UNCHANGED <<pressed, DeviceVars>>

\* The button's interrupt line is its level.
Press == /\ HasButton /\ ~pressed
         /\ pressed' = TRUE
         /\ irqs' = irqs \cup {"BUTTON"}
         /\ UNCHANGED DeviceVars

Release == /\ pressed
           /\ pressed' = FALSE
           /\ UNCHANGED <<irqs, DeviceVars>>

-----------------------------------------------------------------------------
(***************************************************************************)
(* kpost: move the clock on, mark the timeouts that are due, hand out the  *)
(* events, and make ready every sleeper that waits for one of its own.     *)
(***************************************************************************)
SecondHalf == Half * 2
NextMs(tick) == IF tick THEN (ms + 1) % Half ELSE ms
Wraps(tick) == tick /\ ms = Half - 1

\* A timeout once the counter is at n; when it wraps all timeouts wrap along,
\* those that are past to the upper half, where they are negative.
RebasedUnwrapped(d) == d                        \* mutant
Rebased(d) == IF d = Half THEN 1 ELSE (d + Half) % SecondHalf

TimeoutAt(t, tick) == IF Wraps(tick) /\ timeout[t] # 0 THEN Rebased(timeout[t]) ELSE timeout[t]

DueEarly(t, tick) ==                            \* mutant
    /\ timeout[t] # 0
    /\ IF Wraps(tick) THEN TimeoutAt(t, tick) >= Half ELSE timeout[t] <= NextMs(tick)
Due(t, tick) ==
    /\ timeout[t] # 0
    /\ IF Wraps(tick) THEN TimeoutAt(t, tick) >= Half ELSE timeout[t] < NextMs(tick)

PendingAfter(t, events, tick) ==
    pending[t] \cup events \cup (IF Due(t, tick) THEN {"TIMEOUT"} ELSE {})

Wakes(t, events, tick) ==
    IF state[t] = "WAITING" THEN waitsig[t] \cap PendingAfter(t, events, tick) ELSE {}

\* What a task waits for once it got the events w.
WaitsigKept(t, w) == waitsig[t]                 \* mutant
WaitsigAfter(t, w) == IF w # {} THEN {} ELSE waitsig[t]

KPost(events, tick) ==
    /\ ms' = NextMs(tick)
    /\ timeout' = [t \in Tasks |-> IF Due(t, tick) THEN 0 ELSE TimeoutAt(t, tick)]
    /\ pending' = [t \in Tasks |-> PendingAfter(t, events, tick) \ Wakes(t, events, tick)]
    /\ state' = [t \in Tasks |-> IF Wakes(t, events, tick) # {} THEN "READY" ELSE state[t]]
    /\ ret' = [t \in Tasks |-> IF Wakes(t, events, tick) # {} THEN Wakes(t, events, tick)
                                                              ELSE ret[t]]
    /\ waitsig' = [t \in Tasks |-> WaitsigAfter(t, Wakes(t, events, tick))]
    /\ call' = [t \in Tasks |->
                  IF Wakes(t, events, tick) # {} /\ call[t] = "wait" THEN "user" ELSE call[t]]
    /\ lost' = [t \in Tasks |->
                  lost[t] \cup (IF call[t] = "pipe" THEN Wakes(t, events, tick) ELSE {})]
    /\ goal' = [t \in Tasks |-> IF call'[t] = "wait" THEN goal[t] ELSE 0]
    /\ elapsed' = [t \in Tasks |->
                  IF goal'[t] > 0 THEN elapsed[t] + (IF tick THEN 1 ELSE 0) ELSE 0]

-----------------------------------------------------------------------------
(***************************************************************************)
(* The kernel's interrupt pass.                                            *)
(***************************************************************************)
Enabled == {"TIMER"} \cup (IF btnen THEN {"BUTTON"} ELSE {})
Active == irqs \cap Enabled # {}

Interrupt == /\ phase = "user" /\ Active
             /\ phase' = "irq" /\ trap' = NoTrap
             /\ UNCHANGED <<taskVars, clockVars, buttonVars, irqs, pressed, current, histVars>>

\* The debounce counter and the enable after a timer tick.
Quiet(tick) == IF tick /\ buttonstate > 0 THEN buttonstate - 1 ELSE buttonstate
RearmNever(tick) == btnen                       \* mutant
Rearm(tick) == btnen \/ (tick /\ buttonstate = 0 /\ ~pressed)

\* The button counts if it was quiet for long enough; seen or not, it has to
\* be quiet again.
KIrq ==
    /\ phase = "irq" /\ Active
    /\ phase' = "trap"
    /\ LET tick == "TIMER" \in irqs
           button == "BUTTON" \in irqs
           second == tick /\ ticks + 1 = TicksPerSecond
           heard == IF button /\ Quiet(tick) > 0 THEN irqs \ {"BUTTON"} ELSE irqs
           events == (heard \ {"TIMER"}) \cup (IF second THEN {"CLOCK"} ELSE {})
       IN  /\ ticks' = IF tick THEN (ticks + 1) % TicksPerSecond ELSE ticks
           /\ buttonstate' = IF button THEN Debounce ELSE Quiet(tick)
           /\ btnen' = (~button /\ Rearm(tick))
           /\ KPost(events, tick)
    /\ irqs' = IF pressed THEN {"BUTTON"} ELSE {}
    /\ UNCHANGED <<pressed, current, trap>>

KIrqIdle ==
    /\ phase = "irq" /\ ~Active
    /\ phase' = "trap"
    /\ UNCHANGED <<taskVars, clockVars, buttonVars, irqs, pressed, current, trap, histVars>>

-----------------------------------------------------------------------------
(***************************************************************************)
(* Traps                                                                   *)
(***************************************************************************)
Handle(ids) == /\ phase = "trap" /\ trap.id \in ids
               /\ phase' = "sched"
               /\ UNCHANGED <<ticks, buttonVars, irqs, pressed, current, trap>>

KNoTrap == Handle({"none", "YIELD"}) /\ UNCHANGED <<taskVars, ms, histVars>>

\* The events that the caller asks about, those that it has not seen.
SeenUntested == {}                              \* mutant
Seen == trap.mask \cap pending[current]

Take(seen) == /\ pending' = [pending EXCEPT ![current] = @ \ seen]
              /\ ret' = [ret EXCEPT ![current] = seen]

KWaitReturns ==
    /\ Handle({"WAIT"})
    /\ Seen # {} \/ trap.timeout = 0
    /\ Take(Seen)
    /\ waitsig' = IF Seen # {} THEN waitsig ELSE [waitsig EXCEPT ![current] = trap.mask]
    /\ UNCHANGED <<state, timeout, ms, histVars>>

KWaitSleeps ==
    /\ Handle({"WAIT"})
    /\ Seen = {} /\ trap.timeout # 0
    /\ Take({})
    /\ state' = [state EXCEPT ![current] = "WAITING"]
    /\ IF trap.timeout > 0
       THEN /\ timeout' = [timeout EXCEPT ![current] = ms + trap.timeout]
            /\ waitsig' = [waitsig EXCEPT ![current] = trap.mask \cup {"TIMEOUT"}]
       ELSE /\ waitsig' = [waitsig EXCEPT ![current] = trap.mask]
            /\ UNCHANGED timeout
    /\ call' = [call EXCEPT ![current] = IF @ = "pipe" THEN "pipe" ELSE "wait"]
    /\ goal' = [goal EXCEPT ![current] = trap.timeout]
    /\ UNCHANGED <<ms, elapsed, lost>>

\* The timeout is taken from context[2], which is the mask, not from
\* context[3] (kernel.c:298).
KClear ==
    /\ Handle({"CLEAR"})
    /\ LET n == MaskValue[trap.mask]
           off == IF n >= Half THEN {"TIMEOUT"} ELSE {}
       IN  /\ pending' = [pending EXCEPT ![current] = (@ \ Seen) \ off]
           /\ timeout' = IF n \in 1 .. Half - 1
                         THEN [timeout EXCEPT ![current] = ms + n]
                         ELSE timeout
    /\ ret' = [ret EXCEPT ![current] = Seen]
    /\ UNCHANGED <<state, waitsig, ms, histVars>>

\* Tasks cannot post the hardware's events.
KPostTrap == Handle({"POST"}) /\ KPost(trap.mask \cap Software, FALSE)

KBlock ==
    /\ Handle({"BLOCK"})
    /\ state' = [state EXCEPT ![current] = "WAITING"]
    /\ call' = [call EXCEPT ![current] = "pipe"]
    /\ UNCHANGED <<waitsig, pending, timeout, ret, ms, goal, elapsed, lost>>

KTrap == KNoTrap \/ KWaitReturns \/ KWaitSleeps \/ KClear \/ KPostTrap \/ KBlock

KSched ==
    /\ phase = "sched"
    /\ current' = IF \/ trap.id = "YIELD"
                     \/ current = Idle
                     \/ state[current] # "READY"
                  THEN KSchedule(state, current)
                  ELSE current
    /\ phase' = "user" /\ trap' = NoTrap
    /\ UNCHANGED <<taskVars, clockVars, buttonVars, irqs, pressed, histVars>>

Kernel == KIrq \/ KIrqIdle \/ KTrap \/ KSched

Next == \/ \E t \in Tasks : Task(t) \/ PipeWakes(t)
        \/ Tick \/ Signal \/ Press \/ Release
        \/ Interrupt \/ Kernel

Spec == Init /\ [][Next]_vars

\* The CPU runs the kernel, takes the interrupts that are enabled, and the
\* timer never stops.
Fairness == WF_vars(Kernel) /\ WF_vars(Interrupt) /\ WF_vars(Tick)

\* No task keeps the CPU for ever: each one that runs comes back to a call that
\* lets the others run, as the tasks of doorbell.c do in their loops.
FairSpec == Spec /\ Fairness /\ \A t \in Tasks : SF_vars(Yield(t)) /\ SF_vars(PipeReturn(t))


-----------------------------------------------------------------------------
(***************************************************************************)
(* Properties                                                              *)
(***************************************************************************)
\* Types; and only the running task can be in a trap.
TypeInv ==
    /\ state \in [Tasks -> {"READY", "WAITING"}]
    /\ waitsig \in [Tasks -> SUBSET Events] /\ pending \in [Tasks -> SUBSET Events]
    /\ timeout \in [Tasks -> 0 .. 2 * Half - 1] /\ ret \in [Tasks -> SUBSET Events]
    /\ ms \in 0 .. Half - 1 /\ ticks \in 0 .. TicksPerSecond - 1
    /\ buttonstate \in 0 .. Debounce /\ btnen \in BOOLEAN
    /\ irqs \subseteq Signals \cup {"TIMER", "BUTTON"} /\ pressed \in BOOLEAN
    /\ current \in Tasks \cup {Idle} /\ phase \in {"user", "irq", "trap", "sched"}
    /\ call \in [Tasks -> {"user", "wait", "pipe"}]
    /\ trap.id # "none" => current \in Tasks /\ phase # "user"
    /\ \A t \in Tasks : call[t] = "wait" => state[t] = "WAITING"

\* An event that comes at any time, between a task's look at it and its going
\* to sleep too, is not missed: no task sleeps in wait() for an event that it
\* has got already (ktraps.h:45).
NoMissedEvents ==
    \A t \in Tasks :
        call[t] = "wait" => (waitsig[t] \ {"TIMEOUT"}) \cap pending[t] = {}

\* No event is taken from a task without a wait() or clear() that returns it.
EventsReported == \A t \in Tasks : lost[t] = {}

\* A wait that says it timed out took longer than it was asked to: before and
\* after the wrap of the counter (kernel.c:423).
TimeoutsAreDue ==
    [][\A t \in Tasks :
          (call[t] = "wait" /\ call'[t] = "user" /\ "TIMEOUT" \in ret'[t])
              => elapsed[t] + (IF ms' # ms THEN 1 ELSE 0) > goal[t]]_vars

\* And no wait with a timeout lasts more than two milliseconds longer.
TimeoutsAreKept ==
    \A t \in Tasks : (call[t] = "wait" /\ goal[t] > 0) => elapsed[t] <= goal[t] + 1

\* A ready task gets the CPU.
TasksRun == \A t \in Tasks : (state[t] = "READY") ~> (current = t)

\* Once it is left alone, the button can be heard again.
ButtonRearmed == <>[](~pressed) => <>[]btnen
=============================================================================
