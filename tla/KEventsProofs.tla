---------------------------- MODULE KEventsProofs ----------------------------
(***************************************************************************)
(* Proofs about KEvents, for every value of its constants.                 *)
(***************************************************************************)
EXTENDS KEvents, ZipSchedProofs

USE EventsAssumption

-----------------------------------------------------------------------------
(***************************************************************************)
(* The inductive invariant.                                                *)
(***************************************************************************)

\* The running task is not asleep when its trap is served, and a trap carries
\* what a call may ask for.
TrapInv ==
    trap.id # "none" /\ phase \in {"irq", "trap"} =>
        /\ call[current] # "wait"
        /\ trap.id = "WAIT" => trap.mask \subseteq Events /\ trap.timeout \in -1 .. Half - 2
        /\ trap.id = "CLEAR" => MaskValue[trap.mask] \in 0 .. 2 * Half - 1

\* What is left of a wait is what its timeout is ahead of the counter.  After
\* a wrap a timeout that would be 0, and so no timeout, is one later.
Exact(t) == timeout[t] >= ms /\ timeout[t] - ms = goal[t] - elapsed[t]
OneLater(t) == ms <= 1 /\ timeout[t] = 1 /\ timeout[t] - ms = goal[t] - elapsed[t] + 1
TimedOK(t) ==
    IF call[t] = "wait" /\ goal[t] > 0
    THEN "TIMEOUT" \in waitsig[t] /\ timeout[t] # 0 /\ (Exact(t) \/ OneLater(t))
    ELSE elapsed[t] = 0

TimedInv ==
    /\ goal \in [Tasks -> -1 .. Half - 2]
    /\ elapsed \in [Tasks -> Nat]
    /\ \A t \in Tasks : TimedOK(t)

Inv == TypeInv /\ TrapInv /\ NoMissedEvents /\ TimedInv

-----------------------------------------------------------------------------
(***************************************************************************)
(* The millisecond counter and the timeouts.                               *)
(***************************************************************************)

\* The counter after a pass.
LEMMA NextMsValue ==
    ASSUME TypeInv, NEW tick \in BOOLEAN
    PROVE  /\ NextMs(tick) = IF ~tick THEN ms ELSE IF ms = Half - 1 THEN 0 ELSE ms + 1
           /\ NextMs(tick) \in 0 .. Half - 1
<1>1. ms \in 0 .. Half - 1 /\ Half \in Nat \ {0} /\ ms + 1 \in 0 .. 2 * Half - 1
  BY DEF TypeInv
<1>2. (ms + 1) % Half = IF ms + 1 < Half THEN ms + 1 ELSE ms + 1 - Half
  BY <1>1
<1> QED BY <1>1, <1>2 DEF NextMs

\* A timeout after the counter wrapped.
LEMMA RebasedValue ==
    ASSUME NEW d \in 0 .. 2 * Half - 1
    PROVE  Rebased(d) = IF d = Half THEN 1 ELSE IF d < Half THEN d + Half ELSE d - Half
<1>1. d + Half \in 0 .. 2 * (2 * Half) - 1 /\ 2 * Half \in Nat \ {0}
  OBVIOUS
<1>2. (d + Half) % (2 * Half) = IF d + Half < 2 * Half THEN d + Half ELSE d + Half - 2 * Half
  BY <1>1
<1>3. Half * 2 = 2 * Half
  OBVIOUS
<1> QED BY <1>2, <1>3 DEF Rebased, SecondHalf

\* Timeouts stay in their type.
LEMMA TimeoutAtType ==
    ASSUME TypeInv, NEW t \in Tasks, NEW tick \in BOOLEAN
    PROVE  TimeoutAt(t, tick) \in 0 .. 2 * Half - 1
<1>1. timeout[t] \in 0 .. 2 * Half - 1
  BY DEF TypeInv
<1> QED BY <1>1, RebasedValue DEF TimeoutAt

-----------------------------------------------------------------------------
(***************************************************************************)
(* kpost.                                                                  *)
(***************************************************************************)

\* The events a sleeper gets are events.
LEMMA WakesType ==
    ASSUME TypeInv, NEW t \in Tasks, NEW events \in SUBSET Events, NEW tick \in BOOLEAN
    PROVE  /\ PendingAfter(t, events, tick) \in SUBSET Events
           /\ Wakes(t, events, tick) \in SUBSET Events
<1>1. pending[t] \in SUBSET Events /\ "TIMEOUT" \in Events
  BY DEF TypeInv, Events
<1> QED BY <1>1 DEF PendingAfter, Wakes

\* kpost leaves the types as they are.
LEMMA KPostTypes ==
    ASSUME TypeInv, NEW events \in SUBSET Events, NEW tick \in BOOLEAN, KPost(events, tick)
    PROVE  /\ state' \in [Tasks -> {"READY", "WAITING"}]
           /\ waitsig' \in [Tasks -> SUBSET Events] /\ pending' \in [Tasks -> SUBSET Events]
           /\ timeout' \in [Tasks -> 0 .. 2 * Half - 1] /\ ret' \in [Tasks -> SUBSET Events]
           /\ ms' \in 0 .. Half - 1
           /\ call' \in [Tasks -> {"user", "wait", "pipe"}]
           /\ \A t \in Tasks : call'[t] = "wait" => call[t] = "wait" /\ state'[t] = "WAITING"
<1>1. state' \in [Tasks -> {"READY", "WAITING"}]
  BY DEF KPost, TypeInv
<1>2. waitsig' \in [Tasks -> SUBSET Events]
  BY DEF KPost, TypeInv, WaitsigAfter
<1>3. pending' \in [Tasks -> SUBSET Events]
  <2>1. pending' = [t \in Tasks |-> PendingAfter(t, events, tick) \ Wakes(t, events, tick)]
    BY DEF KPost
  <2>2. \A t \in Tasks : PendingAfter(t, events, tick) \ Wakes(t, events, tick) \in SUBSET Events
    BY WakesType
  <2> QED BY <2>1, <2>2, Zenon
<1>4. timeout' \in [Tasks -> 0 .. 2 * Half - 1]
  <2>1. timeout' = [t \in Tasks |-> IF Due(t, tick) THEN 0 ELSE TimeoutAt(t, tick)]
    BY DEF KPost
  <2>2. \A t \in Tasks : TimeoutAt(t, tick) \in 0 .. 2 * Half - 1
    BY TimeoutAtType
  <2>3. 0 \in 0 .. 2 * Half - 1
    OBVIOUS
  <2> QED BY <2>1, <2>2, <2>3
<1>5. ret' \in [Tasks -> SUBSET Events]
  <2>1. \A t \in Tasks : Wakes(t, events, tick) \in SUBSET Events
    BY WakesType
  <2> QED BY <2>1 DEF KPost, TypeInv
<1>6. ms' \in 0 .. Half - 1
  BY NextMsValue DEF KPost
<1>7. call' \in [Tasks -> {"user", "wait", "pipe"}]
  BY DEF KPost, TypeInv
<1>8. ASSUME NEW t \in Tasks, call'[t] = "wait"
      PROVE  call[t] = "wait" /\ state'[t] = "WAITING"
  <2>1. call[t] = "wait" /\ Wakes(t, events, tick) = {}
    BY <1>8 DEF KPost
  <2> QED BY <2>1 DEF KPost, TypeInv
<1> QED BY <1>1, <1>2, <1>3, <1>4, <1>5, <1>6, <1>7, <1>8

\* A sleeper that kpost does not wake has none of the events it waits for.
LEMMA KPostMissesNothing ==
    ASSUME TypeInv, NEW events \in SUBSET Events, NEW tick \in BOOLEAN, KPost(events, tick)
    PROVE  NoMissedEvents'
<1> SUFFICES ASSUME NEW t \in Tasks, call'[t] = "wait"
             PROVE  (waitsig'[t] \ {"TIMEOUT"}) \cap pending'[t] = {}
  BY DEF NoMissedEvents
<1>1. call[t] = "wait" /\ Wakes(t, events, tick) = {}
  BY DEF KPost
<1>2. state[t] = "WAITING"
  BY <1>1 DEF TypeInv
<1>3. waitsig[t] \cap PendingAfter(t, events, tick) = {}
  BY <1>1, <1>2 DEF Wakes
<1>4. /\ waitsig'[t] = waitsig[t]
      /\ pending'[t] = PendingAfter(t, events, tick)
  BY <1>1 DEF KPost, WaitsigAfter
<1> QED BY <1>3, <1>4

\* The timeout of a wait that goes on stays as far ahead of the counter as
\* the wait has to go, also where the counter wraps.
LEMMA TimeoutKept ==
    ASSUME TypeInv, TimedInv, NEW t \in Tasks, NEW tick \in BOOLEAN,
           call[t] = "wait", goal[t] > 0, ~Due(t, tick)
    PROVE  LET left == TimeoutAt(t, tick) - NextMs(tick)
               togo == goal[t] - elapsed[t] - (IF tick THEN 1 ELSE 0)
           IN  /\ TimeoutAt(t, tick) # 0
               /\ \/ left >= 0 /\ left = togo
                  \/ NextMs(tick) <= 1 /\ TimeoutAt(t, tick) = 1 /\ left = togo + 1
<1> DEFINE one == IF tick THEN 1 ELSE 0
           at == TimeoutAt(t, tick)
           now == NextMs(tick)
<1> SUFFICES /\ at # 0
             /\ \/ at - now >= 0 /\ at - now = goal[t] - elapsed[t] - one
                \/ now <= 1 /\ at = 1 /\ at - now = goal[t] - elapsed[t] - one + 1
  OBVIOUS
<1>1. /\ timeout[t] \in 0 .. 2 * Half - 1 /\ timeout[t] # 0
      /\ ms \in 0 .. Half - 1
      /\ goal[t] \in -1 .. Half - 2 /\ elapsed[t] \in Nat
      /\ Exact(t) \/ OneLater(t)
  BY DEF TypeInv, TimedInv, TimedOK
<1>2. CASE ~tick
  <2>1. NextMs(tick) = ms /\ TimeoutAt(t, tick) = timeout[t]
    BY <1>2, NextMsValue DEF TimeoutAt, Wraps
  <2>2. at = timeout[t] /\ now = ms /\ one = 0
    BY <1>2, <2>1
  <2> HIDE DEF at, now, one
  <2> QED BY <1>1, <2>2 DEF Exact, OneLater
<1>3. CASE tick /\ ms # Half - 1
  <2>1. NextMs(tick) = ms + 1 /\ TimeoutAt(t, tick) = timeout[t] /\ ~Wraps(tick)
    BY <1>3, NextMsValue DEF TimeoutAt, Wraps
  <2>2. timeout[t] >= ms + 1
    BY <1>1, <2>1 DEF Due
  <2>3. at = timeout[t] /\ now = ms + 1 /\ one = 1
    BY <1>3, <2>1
  <2> HIDE DEF at, now, one
  <2> QED BY <1>1, <2>2, <2>3 DEF Exact, OneLater
<1>4. CASE tick /\ ms = Half - 1
  <2>1. NextMs(tick) = 0 /\ TimeoutAt(t, tick) = Rebased(timeout[t]) /\ Wraps(tick)
    BY <1>1, <1>4, NextMsValue DEF TimeoutAt, Wraps
  <2>2. Rebased(timeout[t]) < Half
    BY <1>1, <2>1, RebasedValue DEF Due
  <2>3. Rebased(timeout[t]) = IF timeout[t] = Half THEN 1
                              ELSE IF timeout[t] < Half THEN timeout[t] + Half
                              ELSE timeout[t] - Half
    BY <1>1, RebasedValue
  <2>4. timeout[t] >= Half /\ Exact(t)
    BY <1>1, <1>4, <2>2, <2>3 DEF OneLater
  <2>5. now = 0 /\ one = 1 /\ at = Rebased(timeout[t])
    BY <1>4, <2>1
  <2> HIDE DEF at, now, one
  <2>6. timeout[t] - (Half - 1) = goal[t] - elapsed[t]
    BY <1>4, <2>4 DEF Exact
  <2>7. CASE timeout[t] = Half
    <3>1. at = 1 /\ goal[t] - elapsed[t] = 1
      BY <2>3, <2>5, <2>6, <2>7
    <3> QED BY <3>1, <2>5
  <2>8. CASE timeout[t] > Half
    <3>1. at = timeout[t] - Half
      BY <1>1, <2>3, <2>5, <2>8
    <3> QED BY <1>1, <2>5, <2>6, <2>8, <3>1
  <2> QED BY <1>1, <2>4, <2>7, <2>8
<1> QED BY <1>2, <1>3, <1>4

\* kpost keeps the time of every wait that goes on.
LEMMA KPostTimed ==
    ASSUME TypeInv, TimedInv, NEW events \in SUBSET Events, NEW tick \in BOOLEAN,
           KPost(events, tick)
    PROVE  TimedInv'
<1> DEFINE one == IF tick THEN 1 ELSE 0
<1>1. one \in Nat
  OBVIOUS
<1>2. goal' = [t \in Tasks |-> IF call'[t] = "wait" THEN goal[t] ELSE 0]
  BY DEF KPost
<1>3. elapsed' = [t \in Tasks |-> IF goal'[t] > 0 THEN elapsed[t] + one ELSE 0]
  BY DEF KPost
<1> HIDE DEF one
<1>4. goal' \in [Tasks -> -1 .. Half - 2]
  BY <1>2 DEF TimedInv
<1>5. elapsed' \in [Tasks -> Nat]
  BY <1>1, <1>3 DEF TimedInv
<1>6. ASSUME NEW t \in Tasks, call'[t] = "wait", goal'[t] > 0
      PROVE  "TIMEOUT" \in waitsig'[t] /\ timeout'[t] # 0 /\ (Exact(t)' \/ OneLater(t)')
  <2>1. call[t] = "wait" /\ goal'[t] = goal[t] /\ Wakes(t, events, tick) = {}
    BY <1>2, <1>6 DEF KPost
  <2>2. "TIMEOUT" \in waitsig[t] /\ state[t] = "WAITING"
    BY <1>6, <2>1 DEF TimedInv, TimedOK, TypeInv
  <2>3. ~Due(t, tick)
    BY <2>1, <2>2 DEF Wakes, PendingAfter
  <2>4. /\ waitsig'[t] = waitsig[t]
        /\ timeout'[t] = TimeoutAt(t, tick)
        /\ ms' = NextMs(tick)
    BY <2>1, <2>3 DEF KPost, WaitsigAfter
  <2>5. elapsed'[t] = elapsed[t] + one
    BY <1>3, <1>6
  <2>6. /\ TimeoutAt(t, tick) # 0
        /\ \/ /\ TimeoutAt(t, tick) - NextMs(tick) >= 0
              /\ TimeoutAt(t, tick) - NextMs(tick) = goal[t] - elapsed[t] - one
           \/ /\ NextMs(tick) <= 1 /\ TimeoutAt(t, tick) = 1
              /\ TimeoutAt(t, tick) - NextMs(tick) = goal[t] - elapsed[t] - one + 1
    BY <1>6, <2>1, <2>3, TimeoutKept DEF one
  <2>7. /\ goal[t] \in Int /\ elapsed[t] \in Int /\ one \in Int
        /\ TimeoutAt(t, tick) \in Int /\ NextMs(tick) \in Int
    BY <1>1, TimeoutAtType, NextMsValue DEF TimedInv
  <2>8. Exact(t)' \/ OneLater(t)'
    BY <2>1, <2>4, <2>5, <2>6, <2>7 DEF Exact, OneLater
  <2> QED BY <2>2, <2>4, <2>6, <2>8
<1>7. ASSUME NEW t \in Tasks, ~(call'[t] = "wait" /\ goal'[t] > 0)
      PROVE  elapsed'[t] = 0
  <2>1. ~(goal'[t] > 0)
    BY <1>2, <1>7
  <2> QED BY <1>3, <2>1
<1>8. \A t \in Tasks : TimedOK(t)'
  BY <1>6, <1>7 DEF TimedOK
<1> QED BY <1>4, <1>5, <1>8 DEF TimedInv

-----------------------------------------------------------------------------
(***************************************************************************)
(* Steps that leave parts of the invariant alone.                          *)
(***************************************************************************)

\* Waits that nothing touches.
LEMMA TimedFrame ==
    ASSUME TimedInv, UNCHANGED <<call, goal, elapsed, timeout, ms, waitsig>>
    PROVE  TimedInv'
<1>1. \A t \in Tasks : TimedOK(t)' = TimedOK(t)
  BY DEF TimedOK, Exact, OneLater
<1> QED BY <1>1 DEF TimedInv

\* A task that traps.
LEMMA TrapStep ==
    ASSUME Inv, NEW t \in Tasks, current = t, call[t] # "wait",
           NEW id \in {"WAIT", "CLEAR", "POST", "YIELD", "BLOCK"}, NEW m, NEW n,
           id = "WAIT" => m \subseteq Events /\ n \in -1 .. Half - 2,
           id = "CLEAR" => MaskValue[m] \in 0 .. 2 * Half - 1,
           Trap(id, m, n)
    PROVE  Inv'
<1> USE DEF Trap, taskVars, clockVars, buttonVars, kernelVars, histVars
<1>1. TypeInv'
  BY DEF Inv, TypeInv
<1>2. TrapInv'
  BY DEF TrapInv
<1>3. NoMissedEvents'
  BY DEF Inv, NoMissedEvents
<1>4. TimedInv'
  BY TimedFrame DEF Inv
<1> QED BY <1>1, <1>2, <1>3, <1>4 DEF Inv

\* A task's step, and the other end of its pipe.
LEMMA TaskStep ==
    ASSUME Inv, NEW t \in Tasks, Task(t) \/ PipeWakes(t)
    PROVE  Inv'
<1>1. CASE Wait(t)
  <2>1. PICK w \in Waits : Trap("WAIT", w.mask, w.timeout)
    BY <1>1 DEF Wait
  <2>2. current = t /\ call[t] # "wait"
    BY <1>1 DEF Wait, Running
  <2>3. w.mask \subseteq Events /\ w.timeout \in -1 .. Half - 2
    OBVIOUS
  <2> QED BY <2>1, <2>2, <2>3, TrapStep
<1>2. CASE Clear(t)
  <2>1. PICK c \in Clears : Trap("CLEAR", c.mask, c.timeout)
    BY <1>2 DEF Clear
  <2>2. current = t /\ call[t] # "wait"
    BY <1>2 DEF Clear, Running
  <2>3. MaskValue[c.mask] \in 0 .. 2 * Half - 1
    OBVIOUS
  <2> QED BY <2>1, <2>2, <2>3, TrapStep
<1>3. CASE Post(t)
  <2>1. PICK m \in Posts : Trap("POST", m, 0)
    BY <1>3 DEF Post
  <2>2. current = t /\ call[t] # "wait"
    BY <1>3 DEF Post, Running
  <2> QED BY <2>1, <2>2, TrapStep
<1>4. CASE Yield(t)
  BY <1>4, TrapStep DEF Yield, Running
<1>5. CASE Block(t)
  BY <1>5, TrapStep DEF Block, Running
<1>6. CASE PipeWait(t)
  <2>1. {} \subseteq Events /\ -1 \in -1 .. Half - 2
    OBVIOUS
  <2>2. current = t /\ call[t] # "wait" /\ Trap("WAIT", {}, -1)
    BY <1>6 DEF PipeWait, Running, Sleep
  <2> QED BY <2>1, <2>2, TrapStep
<1>7. CASE PipeReturn(t)
  <2> USE <1>7 DEF PipeReturn, Running, taskVars, clockVars, buttonVars, kernelVars
  <2>1. TypeInv'
    BY DEF Inv, TypeInv
  <2>2. TrapInv'
    BY DEF TrapInv
  <2>3. NoMissedEvents'
    BY DEF Inv, NoMissedEvents, TypeInv
  <2>4. TimedInv'
    <3>1. \A u \in Tasks : (call'[u] = "wait") = (call[u] = "wait")
      BY DEF Inv, TypeInv
    <3>2. \A u \in Tasks : TimedOK(u)' = TimedOK(u)
      BY <3>1 DEF TimedOK, Exact, OneLater
    <3> QED BY <3>2 DEF Inv, TimedInv
  <2> QED BY <2>1, <2>2, <2>3, <2>4 DEF Inv
<1>8. CASE PipeWakes(t)
  <2> USE <1>8 DEF PipeWakes, clockVars, buttonVars, kernelVars, histVars
  <2>1. TypeInv'
    BY DEF Inv, TypeInv
  <2>2. TrapInv'
    BY DEF Inv, TrapInv
  <2>3. NoMissedEvents'
    BY DEF Inv, NoMissedEvents
  <2>4. TimedInv'
    BY TimedFrame DEF Inv
  <2> QED BY <2>1, <2>2, <2>3, <2>4 DEF Inv
<1> QED BY <1>1, <1>2, <1>3, <1>4, <1>5, <1>6, <1>7, <1>8 DEF Task

\* Devices.
LEMMA DeviceStep ==
    ASSUME Inv, Tick \/ Signal \/ Press \/ Release
    PROVE  Inv'
<1>1. UNCHANGED DeviceVars /\ irqs' \subseteq Signals \cup {"TIMER", "BUTTON"} /\ pressed' \in BOOLEAN
  BY DEF Tick, Signal, Press, Release, DeviceVars, Inv, TypeInv
<1> USE <1>1 DEF DeviceVars, taskVars, clockVars, buttonVars, kernelVars, histVars
<1>2. TypeInv'
  BY DEF Inv, TypeInv
<1>3. TrapInv' /\ NoMissedEvents'
  BY DEF Inv, TrapInv, NoMissedEvents
<1>4. TimedInv'
  BY TimedFrame DEF Inv
<1> QED BY <1>2, <1>3, <1>4 DEF Inv

\* An interrupt, and passes that have nothing to do.
LEMMA IdleStep ==
    ASSUME Inv, Interrupt \/ KIrqIdle \/ KNoTrap
    PROVE  Inv'
<1> USE DEF Interrupt, KIrqIdle, KNoTrap, Handle, taskVars, clockVars, buttonVars, kernelVars,
            histVars
<1>1. TypeInv'
  BY DEF Inv, TypeInv, NoTrap
<1>2. TrapInv'
  BY DEF Inv, TrapInv, NoTrap
<1>3. NoMissedEvents'
  BY DEF Inv, NoMissedEvents
<1>4. TimedInv'
  BY TimedFrame DEF Inv
<1> QED BY <1>1, <1>2, <1>3, <1>4 DEF Inv

\* The interrupt pass.
LEMMA IrqStep ==
    ASSUME Inv, KIrq
    PROVE  Inv'
<1> DEFINE tick == "TIMER" \in irqs
           button == "BUTTON" \in irqs
           second == tick /\ ticks + 1 = TicksPerSecond
           heard == IF button /\ Quiet(tick) > 0 THEN irqs \ {"BUTTON"} ELSE irqs
           events == (heard \ {"TIMER"}) \cup (IF second THEN {"CLOCK"} ELSE {})
<1>1. KPost(events, tick)
  BY DEF KIrq
<1>2. events \in SUBSET Events /\ tick \in BOOLEAN
  BY DEF Inv, TypeInv, Events, Software
<1>3. /\ ticks' = IF tick THEN (ticks + 1) % TicksPerSecond ELSE ticks
      /\ buttonstate' = IF button THEN Debounce ELSE Quiet(tick)
      /\ btnen' = (~button /\ Rearm(tick))
      /\ irqs' = IF pressed THEN {"BUTTON"} ELSE {}
      /\ UNCHANGED <<pressed, current, trap>>
      /\ phase = "irq" /\ phase' = "trap"
  BY DEF KIrq
<1>4. ticks' \in 0 .. TicksPerSecond - 1
  <2>1. ticks \in 0 .. TicksPerSecond - 1
    BY DEF Inv, TypeInv
  <2> QED BY <1>3, <2>1
<1>5. buttonstate' \in 0 .. Debounce
  BY <1>3 DEF Inv, TypeInv, Quiet
<1>6. btnen' \in BOOLEAN
  BY <1>3
<1> HIDE DEF tick, button, second, heard, events
<1>7. TypeInv'
  BY <1>1, <1>2, <1>3, <1>4, <1>5, <1>6, KPostTypes DEF Inv, TypeInv
<1>8. TrapInv'
  <2>1. trap.id # "none" => call'[current] # "wait"
    BY <1>1, <1>2, <1>3, KPostTypes DEF Inv, TrapInv, TypeInv
  <2> QED BY <1>3, <2>1 DEF Inv, TrapInv
<1>9. NoMissedEvents' /\ TimedInv'
  BY <1>1, <1>2, KPostMissesNothing, KPostTimed DEF Inv
<1> QED BY <1>7, <1>8, <1>9 DEF Inv

\* wait() with nothing to wait for, or with an event already there.
LEMMA WaitReturnsStep ==
    ASSUME Inv, KWaitReturns
    PROVE  Inv'
<1> USE DEF KWaitReturns, Handle, Take, buttonVars, histVars
<1>1. /\ current \in Tasks /\ call[current] # "wait"
      /\ trap.mask \subseteq Events
  BY DEF Inv, TypeInv, TrapInv
<1>2. Seen \in SUBSET Events
  BY <1>1 DEF Seen
<1>3. TypeInv'
  <2>1. /\ pending' \in [Tasks -> SUBSET Events]
        /\ ret' \in [Tasks -> SUBSET Events]
        /\ waitsig' \in [Tasks -> SUBSET Events]
    BY <1>1, <1>2 DEF Inv, TypeInv
  <2> QED BY <1>1, <2>1 DEF Inv, TypeInv
<1>4. TrapInv'
  BY DEF TrapInv
<1>5. \A t \in Tasks : call[t] = "wait" => waitsig'[t] = waitsig[t] /\ pending'[t] = pending[t]
  BY <1>1 DEF Inv, TypeInv
<1>6. NoMissedEvents'
  BY <1>5 DEF Inv, NoMissedEvents
<1>7. TimedInv'
  <2>1. \A t \in Tasks : TimedOK(t)' = TimedOK(t)
    BY <1>5 DEF TimedOK, Exact, OneLater
  <2> QED BY <2>1 DEF Inv, TimedInv
<1> QED BY <1>3, <1>4, <1>6, <1>7 DEF Inv

\* wait() that sleeps.
LEMMA WaitSleepsStep ==
    ASSUME Inv, KWaitSleeps
    PROVE  Inv'
<1> USE DEF KWaitSleeps, Handle, Take, buttonVars
<1>1. /\ current \in Tasks /\ call[current] # "wait"
      /\ trap.mask \subseteq Events /\ trap.timeout \in -1 .. Half - 2
      /\ trap.timeout # 0
  BY DEF Inv, TypeInv, TrapInv
<1>2. /\ pending' = [pending EXCEPT ![current] = @ \ {}]
      /\ pending' = pending
  BY DEF Inv, TypeInv
<1>3. TypeInv'
  <2>1. /\ ret' \in [Tasks -> SUBSET Events]
        /\ waitsig' \in [Tasks -> SUBSET Events]
    BY <1>1 DEF Inv, TypeInv, Events
  <2>2. timeout' \in [Tasks -> 0 .. 2 * Half - 1]
    BY <1>1 DEF Inv, TypeInv
  <2>3. /\ state' \in [Tasks -> {"READY", "WAITING"}]
        /\ call' \in [Tasks -> {"user", "wait", "pipe"}]
        /\ \A t \in Tasks : call'[t] = "wait" => state'[t] = "WAITING"
    BY <1>1 DEF Inv, TypeInv
  <2> QED BY <1>1, <1>2, <2>1, <2>2, <2>3 DEF Inv, TypeInv
<1>4. TrapInv'
  BY DEF TrapInv
<1>5. \A t \in Tasks \ {current} :
         /\ call'[t] = call[t] /\ waitsig'[t] = waitsig[t]
         /\ timeout'[t] = timeout[t] /\ goal'[t] = goal[t]
  BY DEF Inv, TypeInv, TimedInv
<1>6. NoMissedEvents'
  <2>1. (waitsig'[current] \ {"TIMEOUT"}) \cap pending[current] = {}
    BY <1>1 DEF Seen, Inv, TypeInv
  <2> QED BY <1>2, <1>5, <2>1 DEF Inv, NoMissedEvents
<1>7. TimedInv'
  <2>1. goal' \in [Tasks -> -1 .. Half - 2] /\ goal'[current] = trap.timeout
    BY <1>1 DEF Inv, TimedInv
  <2>2. elapsed[current] = 0 /\ elapsed' = elapsed /\ ms' = ms
    BY <1>1 DEF Inv, TimedInv, TimedOK
  <2>3. ASSUME trap.timeout > 0
        PROVE  "TIMEOUT" \in waitsig'[current] /\ timeout'[current] # 0 /\ Exact(current)'
    <3>1. ms \in 0 .. Half - 1
      BY DEF Inv, TypeInv
    <3>2. timeout'[current] = ms + trap.timeout /\ "TIMEOUT" \in waitsig'[current]
      BY <1>1, <2>3 DEF Inv, TypeInv
    <3> QED BY <1>1, <2>1, <2>2, <2>3, <3>1, <3>2 DEF Exact
  <2>4. TimedOK(current)'
    BY <2>1, <2>2, <2>3 DEF TimedOK
  <2>5. \A t \in Tasks \ {current} : TimedOK(t)' = TimedOK(t)
    BY <1>5 DEF TimedOK, Exact, OneLater
  <2>6. \A t \in Tasks : TimedOK(t)'
    BY <2>4, <2>5 DEF Inv, TimedInv
  <2> QED BY <2>1, <2>2, <2>6 DEF Inv, TimedInv
<1> QED BY <1>3, <1>4, <1>6, <1>7 DEF Inv

\* clear(), which may set the timeout of its caller.
LEMMA ClearStep ==
    ASSUME Inv, KClear
    PROVE  Inv'
<1> USE DEF KClear, Handle, buttonVars, histVars
<1>1. /\ current \in Tasks /\ call[current] # "wait"
      /\ MaskValue[trap.mask] \in 0 .. 2 * Half - 1
  BY DEF Inv, TypeInv, TrapInv
<1>2. Seen \in SUBSET Events
  BY <1>1 DEF Seen, Inv, TypeInv
<1>3. PICK off \in SUBSET {"TIMEOUT"} : pending' = [pending EXCEPT ![current] = (@ \ Seen) \ off]
  <2> DEFINE off == IF MaskValue[trap.mask] >= Half THEN {"TIMEOUT"} ELSE {}
  <2>1. pending' = [pending EXCEPT ![current] = (@ \ Seen) \ off]
    OBVIOUS
  <2>2. off \in SUBSET {"TIMEOUT"}
    OBVIOUS
  <2> HIDE DEF off
  <2> QED BY <2>1, <2>2
<1>4. \/ timeout' = timeout
      \/ /\ MaskValue[trap.mask] \in 1 .. Half - 1
         /\ timeout' = [timeout EXCEPT ![current] = ms + MaskValue[trap.mask]]
  OBVIOUS
<1>5. TypeInv'
  <2>1. /\ pending' \in [Tasks -> SUBSET Events]
        /\ ret' \in [Tasks -> SUBSET Events]
    BY <1>1, <1>2, <1>3 DEF Inv, TypeInv
  <2>2. timeout' \in [Tasks -> 0 .. 2 * Half - 1]
    BY <1>1, <1>4 DEF Inv, TypeInv
  <2> QED BY <1>1, <2>1, <2>2 DEF Inv, TypeInv
<1>6. TrapInv'
  BY DEF TrapInv
<1>7. \A t \in Tasks : call[t] = "wait" => timeout'[t] = timeout[t] /\ pending'[t] = pending[t]
  BY <1>1, <1>3, <1>4 DEF Inv, TypeInv
<1>8. NoMissedEvents'
  BY <1>7 DEF Inv, NoMissedEvents
<1>9. TimedInv'
  <2>1. \A t \in Tasks : TimedOK(t)' = TimedOK(t)
    BY <1>7 DEF TimedOK, Exact, OneLater
  <2> QED BY <2>1 DEF Inv, TimedInv
<1> QED BY <1>5, <1>6, <1>8, <1>9 DEF Inv

\* post().
LEMMA PostStep ==
    ASSUME Inv, KPostTrap
    PROVE  Inv'
<1>1. KPost(trap.mask \cap Software, FALSE) /\ trap.mask \cap Software \in SUBSET Events
  BY DEF KPostTrap, Events
<1>2. /\ UNCHANGED <<ticks, buttonVars, irqs, pressed, current, trap>>
      /\ phase' = "sched" /\ phase = "trap"
  BY DEF KPostTrap, Handle
<1>3. TypeInv'
  BY <1>1, <1>2, KPostTypes DEF Inv, TypeInv, buttonVars
<1>4. TrapInv'
  BY <1>2 DEF TrapInv
<1>5. NoMissedEvents' /\ TimedInv'
  BY <1>1, KPostMissesNothing, KPostTimed DEF Inv
<1> QED BY <1>3, <1>4, <1>5 DEF Inv

\* A task goes to sleep in a pipe.
LEMMA BlockStep ==
    ASSUME Inv, KBlock
    PROVE  Inv'
<1> USE DEF KBlock, Handle, buttonVars
<1>1. current \in Tasks /\ call[current] # "wait"
  BY DEF Inv, TypeInv, TrapInv
<1>2. TypeInv'
  BY <1>1 DEF Inv, TypeInv
<1>3. TrapInv'
  BY DEF TrapInv
<1>4. \A t \in Tasks : (call'[t] = "wait") = (call[t] = "wait")
  BY <1>1 DEF Inv, TypeInv
<1>5. NoMissedEvents'
  BY <1>4 DEF Inv, NoMissedEvents
<1>6. TimedInv'
  <2>1. \A t \in Tasks : TimedOK(t)' = TimedOK(t)
    BY <1>4 DEF TimedOK, Exact, OneLater
  <2> QED BY <2>1 DEF Inv, TimedInv
<1> QED BY <1>2, <1>3, <1>5, <1>6 DEF Inv

\* The scheduler.
LEMMA SchedStep ==
    ASSUME Inv, KSched
    PROVE  Inv'
<1> USE DEF KSched, taskVars, clockVars, buttonVars, histVars
<1>1. current' \in Tasks \cup {Idle}
  BY KScheduleChoice DEF Inv, TypeInv
<1>2. TypeInv'
  BY <1>1 DEF Inv, TypeInv, NoTrap
<1>3. TrapInv' /\ NoMissedEvents'
  BY DEF Inv, TrapInv, NoMissedEvents, NoTrap
<1>4. TimedInv'
  BY TimedFrame DEF Inv
<1> QED BY <1>2, <1>3, <1>4 DEF Inv

-----------------------------------------------------------------------------
(***************************************************************************)
(* The theorems.                                                           *)
(***************************************************************************)

LEMMA InitInv == Init => Inv
<1> SUFFICES ASSUME Init PROVE Inv
  OBVIOUS
<1> USE DEF Init
<1>1. TypeInv
  <2>1. current \in Tasks \cup {Idle}
    BY NTasksAssumption DEF Tasks
  <2>2. ms \in 0 .. Half - 1 /\ ticks \in 0 .. TicksPerSecond - 1 /\ buttonstate \in 0 .. Debounce
    OBVIOUS
  <2>3. /\ state \in [Tasks -> {"READY", "WAITING"}]
        /\ waitsig \in [Tasks -> SUBSET Events] /\ pending \in [Tasks -> SUBSET Events]
        /\ timeout \in [Tasks -> 0 .. 2 * Half - 1] /\ ret \in [Tasks -> SUBSET Events]
        /\ call \in [Tasks -> {"user", "wait", "pipe"}]
        /\ \A t \in Tasks : call[t] # "wait"
    OBVIOUS
  <2>4. trap.id = "none" /\ phase = "user" /\ btnen = TRUE /\ irqs = {} /\ pressed = FALSE
    BY DEF NoTrap
  <2> QED BY <2>1, <2>2, <2>3, <2>4, Zenon DEF TypeInv
<1>2. TrapInv /\ NoMissedEvents
  BY DEF TrapInv, NoMissedEvents, NoTrap
<1>3. TimedInv
  BY DEF TimedInv, TimedOK
<1> QED BY <1>1, <1>2, <1>3 DEF Inv

LEMMA StepInv == Inv /\ [Next]_vars => Inv'
<1> SUFFICES ASSUME Inv, [Next]_vars PROVE Inv'
  OBVIOUS
<1>1. CASE UNCHANGED vars
  <2> USE <1>1 DEF vars, taskVars, clockVars, buttonVars, kernelVars, histVars
  <2>1. TypeInv'
    BY DEF Inv, TypeInv
  <2>2. TrapInv' /\ NoMissedEvents'
    BY DEF Inv, TrapInv, NoMissedEvents
  <2>3. TimedInv'
    BY TimedFrame DEF Inv
  <2> QED BY <2>1, <2>2, <2>3 DEF Inv
<1>2. CASE \E t \in Tasks : Task(t) \/ PipeWakes(t)
  BY <1>2, TaskStep
<1>3. CASE Tick \/ Signal \/ Press \/ Release
  BY <1>3, DeviceStep
<1>4. CASE Interrupt \/ KIrqIdle \/ KNoTrap
  BY <1>4, IdleStep
<1>5. CASE KIrq
  BY <1>5, IrqStep
<1>6. CASE KWaitReturns
  BY <1>6, WaitReturnsStep
<1>7. CASE KWaitSleeps
  BY <1>7, WaitSleepsStep
<1>8. CASE KClear
  BY <1>8, ClearStep
<1>9. CASE KPostTrap
  BY <1>9, PostStep
<1>10. CASE KBlock
  BY <1>10, BlockStep
<1>11. CASE KSched
  BY <1>11, SchedStep
<1> QED BY <1>1, <1>2, <1>3, <1>4, <1>5, <1>6, <1>7, <1>8, <1>9, <1>10, <1>11
        DEF Next, Kernel, KTrap

\* The types, and that a task in wait() is asleep.
THEOREM EventsTypeInvariant == Spec => []TypeInv
<1>1. Inv => TypeInv
  BY DEF Inv
<1> QED BY InitInv, StepInv, <1>1, PTL DEF Spec

\* No task sleeps in wait() for an event it has got, however many tasks there
\* are and whatever they wait for, clear and post (kernel.c WAIT, kpost).
THEOREM NothingMissed == Spec => []NoMissedEvents
<1>1. Inv => NoMissedEvents
  BY DEF Inv
<1> QED BY InitInv, StepInv, <1>1, PTL DEF Spec

\* No wait with a timeout is more than one tick late, wherever the counter
\* stands when it begins (kernel.c kpost, the wrap of milliseconds).
THEOREM TimeoutsKept == Spec => []TimeoutsAreKept
<1>1. Inv => TimeoutsAreKept
  <2> SUFFICES ASSUME Inv, NEW t \in Tasks, call[t] = "wait", goal[t] > 0
               PROVE  elapsed[t] <= goal[t] + 1
    BY DEF TimeoutsAreKept
  <2>1. /\ goal[t] \in -1 .. Half - 2 /\ elapsed[t] \in Nat
        /\ timeout[t] \in 0 .. 2 * Half - 1 /\ ms \in 0 .. Half - 1
        /\ Exact(t) \/ OneLater(t)
    BY DEF Inv, TypeInv, TimedInv, TimedOK
  <2> QED BY <2>1 DEF Exact, OneLater
<1> QED BY InitInv, StepInv, <1>1, PTL DEF Spec

-----------------------------------------------------------------------------
(***************************************************************************)
(* Events that sleepers in pipes do not take, and timeouts that are over   *)
(* with their waits: under what the code has to be asked for them.         *)
(***************************************************************************)

\* Nobody polls for an event and then sleeps in a pipe: a poll leaves its mask
\* in waitsig (kernel.c:280), and the event would end the sleep.  doorbell_task
\* does (doorbell.c:378), the other tasks do not.
NoPollThenPipe == Sleepers = {} \/ \A w \in Waits : w.timeout = 0 => w.mask = {}

\* Waits with a timeout are for the time alone, and no clear() has a mask that
\* it takes for a timeout (kernel.c:298): a wait that another event ended, or
\* such a clear(), leaves a timeout behind.  menu_task has one of each
\* (doorbell.c:542, 659).
TimeAlone == /\ \A w \in Waits : w.timeout > 0 => w.mask = {}
             /\ \A c \in Clears : MaskValue[c.mask] \notin 1 .. Half - 1
             /\ "TIMEOUT" \notin Signals

\* No wait that a step ends by its timeout was shorter than asked for.
OnTime ==
    \A t \in Tasks :
        (call[t] = "wait" /\ call'[t] = "user" /\ "TIMEOUT" \in ret'[t])
            => elapsed[t] + (IF ms' # ms THEN 1 ELSE 0) > goal[t]

Called == trap.id # "none" /\ phase \in {"irq", "trap"}

\* What a call may ask for, a call inside a pipe among them.
CallInv ==
    /\ Called => /\ trap.id = "WAIT" /\ call[current] = "pipe" => trap.mask = {} /\ trap.timeout = -1
                 /\ trap.id = "BLOCK" => current \in Sleepers
    /\ \A t \in Tasks : call[t] = "pipe" => t \in Sleepers

\* Outside wait() a task is not waiting for anything.
ReportInv ==
    /\ EventsReported
    /\ Sleepers # {} =>
         /\ \A t \in Tasks : call[t] # "wait" => waitsig[t] = {}
         /\ Called /\ trap.id = "WAIT" /\ trap.timeout = 0 => trap.mask = {}

\* A timeout belongs to a wait that only it can end.
DueInv ==
    /\ \A t \in Tasks :
          /\ "TIMEOUT" \notin pending[t]
          /\ timeout[t] # 0 => call[t] = "wait" /\ goal[t] > 0
          /\ call[t] = "wait" /\ goal[t] > 0 => waitsig[t] = {"TIMEOUT"}
    /\ Called => /\ trap.id = "WAIT" /\ trap.timeout > 0 => trap.mask = {}
                 /\ trap.id = "CLEAR" => MaskValue[trap.mask] \notin 1 .. Half - 1

\* A timeout is due when the wait has lasted longer than it was asked to.
LEMMA DueLate ==
    ASSUME TypeInv, TimedInv, NEW t \in Tasks, NEW tick \in BOOLEAN,
           call[t] = "wait", goal[t] > 0, Due(t, tick)
    PROVE  tick /\ NextMs(tick) # ms /\ elapsed[t] + 1 > goal[t]
<1>1. /\ timeout[t] \in 0 .. 2 * Half - 1 /\ timeout[t] # 0
      /\ ms \in 0 .. Half - 1
      /\ goal[t] \in -1 .. Half - 2 /\ elapsed[t] \in Nat
      /\ Exact(t) \/ OneLater(t)
  BY DEF TypeInv, TimedInv, TimedOK
<1>2. CASE ~tick
  <2>1. timeout[t] < ms
    BY <1>2, NextMsValue DEF Due, Wraps
  <2> QED BY <1>1, <2>1 DEF Exact, OneLater
<1>3. CASE tick /\ ms # Half - 1
  <2>1. NextMs(tick) = ms + 1 /\ timeout[t] < ms + 1
    BY <1>3, NextMsValue DEF Due, Wraps
  <2>2. ms + 1 # ms
    BY <1>1
  <2>3. CASE Exact(t)
    <3>1. timeout[t] >= ms /\ timeout[t] - ms = goal[t] - elapsed[t]
      BY <2>3 DEF Exact
    <3>2. elapsed[t] + 1 > goal[t]
      BY <1>1, <2>1, <3>1
    <3> QED BY <1>3, <2>1, <2>2, <3>2
  <2>4. CASE OneLater(t)
    <3>1. timeout[t] - ms = goal[t] - elapsed[t] + 1
      BY <2>4 DEF OneLater
    <3>2. elapsed[t] + 1 > goal[t]
      BY <1>1, <2>1, <3>1
    <3> QED BY <1>3, <2>1, <2>2, <3>2
  <2> QED BY <1>1, <2>3, <2>4
<1>4. CASE tick /\ ms = Half - 1
  <2>1. NextMs(tick) = 0 /\ Rebased(timeout[t]) >= Half
    BY <1>1, <1>4, NextMsValue DEF Due, Wraps, TimeoutAt
  <2>2. Rebased(timeout[t]) = IF timeout[t] = Half THEN 1
                              ELSE IF timeout[t] < Half THEN timeout[t] + Half
                              ELSE timeout[t] - Half
    BY <1>1, RebasedValue
  <2>3. timeout[t] < Half
    BY <1>1, <2>1, <2>2
  <2>4. 0 # ms
    BY <1>4
  <2>5. CASE Exact(t)
    <3>1. timeout[t] >= ms /\ timeout[t] - ms = goal[t] - elapsed[t]
      BY <2>5 DEF Exact
    <3>2. elapsed[t] + 1 > goal[t]
      BY <1>1, <1>4, <2>3, <3>1
    <3> QED BY <1>4, <2>1, <2>4, <3>2
  <2>6. CASE OneLater(t)
    <3>1. ms <= 1 /\ timeout[t] = 1
      BY <2>6 DEF OneLater
    <3> QED BY <1>4, <3>1
  <2> QED BY <1>1, <2>5, <2>6
<1> QED BY <1>2, <1>3, <1>4

\* kpost.
LEMMA KPostCalls ==
    ASSUME TypeInv, CallInv, NEW events \in SUBSET Events, NEW tick \in BOOLEAN,
           KPost(events, tick), UNCHANGED <<current, trap>>,
           phase' \in {"irq", "trap"} => phase \in {"irq", "trap"}
    PROVE  CallInv'
<1>1. \A t \in Tasks : call'[t] = "pipe" => call[t] = "pipe"
  BY DEF KPost
<1>2. Called' => Called /\ current \in Tasks
  BY DEF Called, TypeInv
<1> QED BY <1>1, <1>2 DEF CallInv

LEMMA KPostReports ==
    ASSUME TypeInv, CallInv, ReportInv, NEW events \in SUBSET Events, NEW tick \in BOOLEAN,
           KPost(events, tick), UNCHANGED <<current, trap>>,
           phase' \in {"irq", "trap"} => phase \in {"irq", "trap"}
    PROVE  ReportInv'
<1>1. ASSUME NEW t \in Tasks
      PROVE  lost'[t] = {}
  <2>1. call[t] = "pipe" => Wakes(t, events, tick) = {}
    BY DEF CallInv, ReportInv, Wakes
  <2>2. lost'[t] = lost[t] \cup (IF call[t] = "pipe" THEN Wakes(t, events, tick) ELSE {})
    BY DEF KPost
  <2> QED BY <2>1, <2>2 DEF ReportInv, EventsReported
<1>2. ASSUME Sleepers # {}, NEW t \in Tasks, call'[t] # "wait"
      PROVE  waitsig'[t] = {}
  <2>1. call[t] # "wait" \/ Wakes(t, events, tick) # {}
    BY <1>2 DEF KPost
  <2>2. waitsig'[t] = IF Wakes(t, events, tick) # {} THEN {} ELSE waitsig[t]
    BY DEF KPost, WaitsigAfter
  <2> QED BY <1>2, <2>1, <2>2 DEF ReportInv
<1>3. Called' => Called
  BY DEF Called
<1> QED BY <1>1, <1>2, <1>3 DEF ReportInv, EventsReported

LEMMA KPostDue ==
    ASSUME TypeInv, TimedInv, DueInv, NEW events \in SUBSET Events, NEW tick \in BOOLEAN,
           "TIMEOUT" \notin events,
           KPost(events, tick), UNCHANGED <<current, trap>>,
           phase' \in {"irq", "trap"} => phase \in {"irq", "trap"}
    PROVE  DueInv' /\ OnTime
<1>1. ASSUME NEW t \in Tasks, ~Due(t, tick)
      PROVE  /\ "TIMEOUT" \notin PendingAfter(t, events, tick)
             /\ timeout'[t] # 0 => call[t] = "wait" /\ goal[t] > 0 /\ Wakes(t, events, tick) = {}
  <2>1. "TIMEOUT" \notin PendingAfter(t, events, tick)
    BY <1>1 DEF DueInv, PendingAfter
  <2>2. timeout'[t] # 0 => timeout[t] # 0
    BY <1>1 DEF KPost, TimeoutAt
  <2>3. timeout[t] # 0 => call[t] = "wait" /\ goal[t] > 0 /\ waitsig[t] = {"TIMEOUT"}
    BY DEF DueInv
  <2>4. waitsig[t] = {"TIMEOUT"} => Wakes(t, events, tick) = {}
    BY <2>1 DEF Wakes
  <2> QED BY <2>1, <2>2, <2>3, <2>4
<1>2. ASSUME NEW t \in Tasks, Due(t, tick)
      PROVE  /\ call[t] = "wait" /\ goal[t] > 0
             /\ Wakes(t, events, tick) = {"TIMEOUT"}
             /\ timeout'[t] = 0
  <2>1. timeout[t] # 0
    BY <1>2 DEF Due
  <2>2. call[t] = "wait" /\ goal[t] > 0 /\ waitsig[t] = {"TIMEOUT"}
    BY <2>1 DEF DueInv
  <2>3. state[t] = "WAITING"
    BY <2>2 DEF TypeInv
  <2>4. "TIMEOUT" \in PendingAfter(t, events, tick)
    BY <1>2 DEF PendingAfter
  <2> QED BY <1>2, <2>2, <2>3, <2>4 DEF Wakes, KPost
<1>3. ASSUME NEW t \in Tasks
      PROVE  /\ "TIMEOUT" \notin pending'[t]
             /\ timeout'[t] # 0 => call'[t] = "wait" /\ goal'[t] > 0
             /\ call'[t] = "wait" /\ goal'[t] > 0 => waitsig'[t] = {"TIMEOUT"}
  <2>1. pending'[t] = PendingAfter(t, events, tick) \ Wakes(t, events, tick)
    BY DEF KPost
  <2>2. /\ Wakes(t, events, tick) = {} => call'[t] = call[t] /\ waitsig'[t] = waitsig[t]
        /\ call'[t] = "wait" => Wakes(t, events, tick) = {} /\ goal'[t] = goal[t]
    BY DEF KPost, WaitsigAfter
  <2>3. CASE Due(t, tick)
    BY <1>2, <2>1, <2>2, <2>3
  <2>4. CASE ~Due(t, tick)
    BY <1>1, <2>1, <2>2, <2>4 DEF DueInv
  <2> QED BY <2>3, <2>4
<1>4. Called' => Called
  BY DEF Called
<1>5. DueInv'
  BY <1>3, <1>4 DEF DueInv
<1>6. OnTime
  <2> SUFFICES ASSUME NEW t \in Tasks, call[t] = "wait", call'[t] = "user", "TIMEOUT" \in ret'[t]
               PROVE  elapsed[t] + (IF ms' # ms THEN 1 ELSE 0) > goal[t]
    BY DEF OnTime
  <2>1. Wakes(t, events, tick) # {} /\ ret'[t] = Wakes(t, events, tick)
    BY DEF KPost
  <2>2. Due(t, tick)
    BY <1>1, <2>1 DEF Wakes
  <2>3. NextMs(tick) # ms /\ elapsed[t] + 1 > goal[t]
    BY <1>2, <2>2, DueLate
  <2>4. ms' = NextMs(tick)
    BY DEF KPost
  <2> QED BY <2>3, <2>4
<1> QED BY <1>5, <1>6

\* The interrupt pass is a kpost, and posts no timeout of its own.
LEMMA KIrqPosts ==
    ASSUME Inv, KIrq
    PROVE  /\ \E events \in SUBSET Events, tick \in BOOLEAN :
                 /\ KPost(events, tick)
                 /\ "TIMEOUT" \notin Signals => "TIMEOUT" \notin events
           /\ UNCHANGED <<current, trap>> /\ phase = "irq"
<1> DEFINE tick == "TIMER" \in irqs
           button == "BUTTON" \in irqs
           second == tick /\ ticks + 1 = TicksPerSecond
           heard == IF button /\ Quiet(tick) > 0 THEN irqs \ {"BUTTON"} ELSE irqs
           events == (heard \ {"TIMER"}) \cup (IF second THEN {"CLOCK"} ELSE {})
<1>1. KPost(events, tick) /\ UNCHANGED <<current, trap>> /\ phase = "irq"
  BY DEF KIrq
<1>2. events \in SUBSET Events /\ tick \in BOOLEAN
  BY DEF Inv, TypeInv, Events, Software
<1>3. "TIMEOUT" \notin Signals => "TIMEOUT" \notin events
  BY DEF Inv, TypeInv
<1> HIDE DEF tick, button, second, heard, events
<1> QED BY <1>1, <1>2, <1>3

LEMMA PostPosts ==
    ASSUME KPostTrap
    PROVE  /\ KPost(trap.mask \cap Software, FALSE)
           /\ trap.mask \cap Software \in SUBSET Events
           /\ "TIMEOUT" \notin trap.mask \cap Software
           /\ UNCHANGED <<current, trap>> /\ phase = "trap"
BY DEF KPostTrap, Handle, Events, Software

\* Steps that end or begin no call leave the tasks as they are.
Frame == UNCHANGED <<waitsig, pending, timeout, call, goal, lost>>

LEMMA FrameSteps ==
    ASSUME NEW t \in Tasks,
           PipeWakes(t) \/ Tick \/ Signal \/ Press \/ Release \/ Interrupt
             \/ KIrqIdle \/ KNoTrap \/ KSched \/ UNCHANGED vars
    PROVE  Frame /\ (Called' => Called /\ UNCHANGED <<current, trap>>)
BY DEF Frame, Called, PipeWakes, Tick, Signal, Press, Release, Interrupt, KIrqIdle, KNoTrap,
       KSched, Handle, NoTrap, DeviceVars, vars, taskVars, clockVars, buttonVars, kernelVars, histVars

\* A task's call.
LEMMA TrapSteps ==
    ASSUME NEW t \in Tasks, Wait(t) \/ Clear(t) \/ Post(t) \/ Yield(t) \/ Block(t) \/ PipeWait(t)
    PROVE  /\ Frame /\ current' = current /\ current = t
           /\ \/ /\ trap'.id = "WAIT" /\ call[t] = "user"
                 /\ \E w \in Waits : trap'.mask = w.mask /\ trap'.timeout = w.timeout
              \/ trap'.id = "WAIT" /\ call[t] = "pipe" /\ trap'.mask = {} /\ trap'.timeout = -1
              \/ /\ trap'.id = "CLEAR" /\ call[t] = "user"
                 /\ \E c \in Clears : trap'.mask = c.mask
              \/ trap'.id \in {"POST", "YIELD"} /\ call[t] = "user"
              \/ trap'.id = "BLOCK" /\ call[t] = "user" /\ t \in Sleepers
<1> USE DEF Trap, Running, Frame, taskVars, histVars
<1>1. CASE Wait(t)
  BY <1>1 DEF Wait
<1>2. CASE Clear(t)
  BY <1>2 DEF Clear
<1>3. CASE Post(t)
  BY <1>3 DEF Post
<1>4. CASE Yield(t)
  BY <1>4 DEF Yield
<1>5. CASE Block(t)
  BY <1>5 DEF Block
<1>6. CASE PipeWait(t)
  BY <1>6 DEF PipeWait, Sleep
<1> QED BY <1>1, <1>2, <1>3, <1>4, <1>5, <1>6

\* The steps, as these proofs look at them.
LEMMA StepCases ==
    ASSUME [Next]_vars
    PROVE  \/ \E t \in Tasks : \/ PipeWakes(t) \/ Tick \/ Signal \/ Press \/ Release \/ Interrupt
                               \/ KIrqIdle \/ KNoTrap \/ KSched \/ UNCHANGED vars
           \/ \E t \in Tasks : Wait(t) \/ Clear(t) \/ Post(t) \/ Yield(t) \/ Block(t) \/ PipeWait(t)
           \/ \E t \in Tasks : PipeReturn(t)
           \/ KIrq \/ KPostTrap
           \/ KWaitReturns \/ KWaitSleeps \/ KClear \/ KBlock
<1>1. 0 \in Tasks
  BY NTasksAssumption DEF Tasks
<1> QED BY <1>1 DEF Next, Task, Kernel, KTrap

\* What the calls ask for, step by step.
LEMMA CallStep ==
    ASSUME Inv, CallInv, [Next]_vars
    PROVE  CallInv'
<1>1. CASE \E t \in Tasks : \/ PipeWakes(t) \/ Tick \/ Signal \/ Press \/ Release \/ Interrupt
                            \/ KIrqIdle \/ KNoTrap \/ KSched \/ UNCHANGED vars
  BY <1>1, FrameSteps DEF Frame, CallInv
<1>2. CASE \E t \in Tasks : Wait(t) \/ Clear(t) \/ Post(t) \/ Yield(t) \/ Block(t) \/ PipeWait(t)
  <2>1. PICK t \in Tasks : Wait(t) \/ Clear(t) \/ Post(t) \/ Yield(t) \/ Block(t) \/ PipeWait(t)
    BY <1>2
  <2> QED BY <2>1, TrapSteps DEF Frame, CallInv
<1>3. CASE \E t \in Tasks : PipeReturn(t)
  BY <1>3 DEF PipeReturn, CallInv, Inv, TypeInv, Called, kernelVars
<1>4. CASE KIrq
  BY <1>4, KIrqPosts, KPostCalls DEF Inv
<1>5. CASE KPostTrap
  BY <1>5, PostPosts, KPostCalls DEF Inv
<1>6. CASE KWaitReturns \/ KClear
  BY <1>6 DEF KWaitReturns, KClear, Handle, CallInv, Called, histVars
<1>7. CASE KWaitSleeps
  BY <1>7 DEF KWaitSleeps, Handle, CallInv, Called, Inv, TypeInv
<1>8. CASE KBlock
  <2>1. current \in Sleepers
    BY <1>8 DEF KBlock, Handle, CallInv, Called
  <2> QED BY <1>8, <2>1 DEF KBlock, Handle, CallInv, Called, Inv, TypeInv
<1> QED BY <1>1, <1>2, <1>3, <1>4, <1>5, <1>6, <1>7, <1>8, StepCases

\* Nobody loses an event.
LEMMA ReportStep ==
    ASSUME NoPollThenPipe, Inv, CallInv, ReportInv, [Next]_vars
    PROVE  ReportInv'
<1>1. CASE \E t \in Tasks : \/ PipeWakes(t) \/ Tick \/ Signal \/ Press \/ Release \/ Interrupt
                            \/ KIrqIdle \/ KNoTrap \/ KSched \/ UNCHANGED vars
  BY <1>1, FrameSteps DEF Frame, ReportInv, EventsReported
<1>2. CASE \E t \in Tasks : Wait(t) \/ Clear(t) \/ Post(t) \/ Yield(t) \/ Block(t) \/ PipeWait(t)
  <2>1. PICK t \in Tasks : Wait(t) \/ Clear(t) \/ Post(t) \/ Yield(t) \/ Block(t) \/ PipeWait(t)
    BY <1>2
  <2>2. Sleepers # {} /\ trap'.id = "WAIT" /\ trap'.timeout = 0 => trap'.mask = {}
    BY <2>1, TrapSteps DEF NoPollThenPipe
  <2> QED BY <2>1, <2>2, TrapSteps DEF Frame, ReportInv, EventsReported
<1>3. CASE \E t \in Tasks : PipeReturn(t)
  BY <1>3 DEF PipeReturn, ReportInv, EventsReported, Inv, TypeInv, Called, taskVars, kernelVars,
              Running
<1>4. CASE KIrq
  BY <1>4, KIrqPosts, KPostReports DEF Inv
<1>5. CASE KPostTrap
  BY <1>5, PostPosts, KPostReports DEF Inv
<1>6. CASE KWaitReturns
  <2>1. /\ Sleepers # {} => (Seen = {} => trap.mask = {})
        /\ UNCHANGED histVars /\ phase' = "sched"
        /\ waitsig' = waitsig \/ (Seen = {} /\ waitsig' = [waitsig EXCEPT ![current] = trap.mask])
    BY <1>6 DEF KWaitReturns, Handle, ReportInv, Called
  <2>2. \A t \in Tasks : Sleepers # {} /\ call'[t] # "wait" => waitsig'[t] = {}
    BY <2>1 DEF ReportInv, histVars, Inv, TypeInv
  <2> QED BY <2>1, <2>2 DEF ReportInv, EventsReported, Called, histVars
<1>7. CASE KWaitSleeps
  <2>1. /\ call' = [call EXCEPT ![current] = IF @ = "pipe" THEN "pipe" ELSE "wait"]
        /\ waitsig' = [waitsig EXCEPT ![current] =
                         IF trap.timeout > 0 THEN trap.mask \cup {"TIMEOUT"} ELSE trap.mask]
        /\ phase' = "sched" /\ lost' = lost /\ Called /\ trap.id = "WAIT"
    BY <1>7 DEF KWaitSleeps, Handle, Called
  <2>2. call[current] = "pipe" => trap.mask = {} /\ trap.timeout = -1
    BY <2>1 DEF CallInv
  <2>3. current \in Tasks
    BY <2>1 DEF Inv, TypeInv, Called
  <2>4. \A t \in Tasks : Sleepers # {} /\ call'[t] # "wait" => waitsig'[t] = {}
    BY <2>1, <2>2, <2>3 DEF ReportInv, Inv, TypeInv
  <2> QED BY <2>1, <2>4 DEF ReportInv, EventsReported, Called
<1>8. CASE KClear
  BY <1>8 DEF KClear, Handle, ReportInv, EventsReported, Called, histVars
<1>9. CASE KBlock
  <2>1. call[current] # "wait" /\ current \in Tasks
    BY <1>9 DEF KBlock, Handle, Inv, TrapInv, TypeInv
  <2>2. \A t \in Tasks : call'[t] # "wait" => call[t] # "wait"
    BY <1>9, <2>1 DEF KBlock, Inv, TypeInv
  <2> QED BY <1>9, <2>2 DEF KBlock, Handle, ReportInv, EventsReported, Called
<1> QED BY <1>1, <1>2, <1>3, <1>4, <1>5, <1>6, <1>7, <1>8, <1>9, StepCases

\* A step that ends no wait is not early.
LEMMA NoneEnded ==
    ASSUME \A t \in Tasks : call[t] = "wait" => call'[t] # "user"
    PROVE  OnTime
BY DEF OnTime

LEMMA DueStep ==
    ASSUME TimeAlone, Inv, CallInv, DueInv, [Next]_vars
    PROVE  DueInv' /\ OnTime
<1>1. CASE \E t \in Tasks : \/ PipeWakes(t) \/ Tick \/ Signal \/ Press \/ Release \/ Interrupt
                            \/ KIrqIdle \/ KNoTrap \/ KSched \/ UNCHANGED vars
  BY <1>1, FrameSteps, NoneEnded DEF Frame, DueInv
<1>2. CASE \E t \in Tasks : Wait(t) \/ Clear(t) \/ Post(t) \/ Yield(t) \/ Block(t) \/ PipeWait(t)
  <2>1. PICK t \in Tasks : Wait(t) \/ Clear(t) \/ Post(t) \/ Yield(t) \/ Block(t) \/ PipeWait(t)
    BY <1>2
  <2>2. /\ trap'.id = "WAIT" /\ trap'.timeout > 0 => trap'.mask = {}
        /\ trap'.id = "CLEAR" => MaskValue[trap'.mask] \notin 1 .. Half - 1
    BY <2>1, TrapSteps DEF TimeAlone
  <2> QED BY <2>1, <2>2, TrapSteps, NoneEnded DEF Frame, DueInv
<1>3. CASE \E t \in Tasks : PipeReturn(t)
  <2>1. PICK t \in Tasks : PipeReturn(t)
    BY <1>3
  <2>2. /\ \A u \in Tasks : (call'[u] = "wait") = (call[u] = "wait")
        /\ UNCHANGED <<taskVars, kernelVars, goal>>
    BY <2>1 DEF PipeReturn, Running, Inv, TypeInv
  <2> QED BY <2>2, NoneEnded DEF DueInv, Called, taskVars, kernelVars
<1>4. CASE KIrq
  <2>1. PICK events \in SUBSET Events, tick \in BOOLEAN : KPost(events, tick) /\ "TIMEOUT" \notin events
    BY <1>4, KIrqPosts DEF TimeAlone
  <2> QED BY <1>4, <2>1, KIrqPosts, KPostDue DEF Inv
<1>5. CASE KPostTrap
  BY <1>5, PostPosts, KPostDue DEF Inv
<1>6. CASE KWaitReturns
  <2>1. current \in Tasks /\ call[current] # "wait"
    BY <1>6 DEF KWaitReturns, Handle, Inv, TrapInv, TypeInv
  <2>2. /\ \A t \in Tasks : pending'[t] \subseteq pending[t]
        /\ \A t \in Tasks : call[t] = "wait" => waitsig'[t] = waitsig[t]
        /\ UNCHANGED <<timeout, call, goal>> /\ phase' = "sched"
    BY <1>6, <2>1 DEF KWaitReturns, Handle, Take, histVars, Inv, TypeInv
  <2> QED BY <2>2, NoneEnded DEF DueInv, Called
<1>7. CASE KWaitSleeps
  <2>1. /\ current \in Tasks /\ call[current] # "wait" /\ Called /\ trap.id = "WAIT"
        /\ trap.timeout \in -1 .. Half - 2 /\ trap.timeout # 0
    BY <1>7 DEF KWaitSleeps, Handle, Called, Inv, TrapInv, TypeInv
  <2>2. /\ pending' = pending /\ phase' = "sched"
        /\ call' = [call EXCEPT ![current] = IF @ = "pipe" THEN "pipe" ELSE "wait"]
        /\ goal' = [goal EXCEPT ![current] = trap.timeout]
    BY <1>7 DEF KWaitSleeps, Handle, Take, Inv, TypeInv
  <2>3. /\ call[current] = "pipe" => trap.timeout = -1
        /\ trap.timeout > 0 => trap.mask = {}
        /\ timeout[current] = 0
    BY <2>1 DEF CallInv, DueInv
  <2>4. /\ trap.timeout > 0 => waitsig'[current] = {"TIMEOUT"}
        /\ ~(trap.timeout > 0) => timeout' = timeout
        /\ \A t \in Tasks \ {current} : waitsig'[t] = waitsig[t] /\ timeout'[t] = timeout[t]
    BY <1>7, <2>1, <2>3 DEF KWaitSleeps, Inv, TypeInv
  <2>5. /\ call'[current] \in {"pipe", "wait"} /\ goal'[current] = trap.timeout
        /\ trap.timeout > 0 => call'[current] = "wait"
        /\ \A t \in Tasks \ {current} : call'[t] = call[t] /\ goal'[t] = goal[t]
    BY <2>1, <2>2, <2>3 DEF Inv, TypeInv, TimedInv
  <2>6. ASSUME NEW t \in Tasks
        PROVE  /\ timeout'[t] # 0 => call'[t] = "wait" /\ goal'[t] > 0
               /\ call'[t] = "wait" /\ goal'[t] > 0 => waitsig'[t] = {"TIMEOUT"}
    <3>1. CASE t = current
      BY <2>3, <2>4, <2>5, <3>1
    <3>2. CASE t # current
      BY <2>4, <2>5, <3>2 DEF DueInv
    <3> QED BY <3>1, <3>2
  <2>7. OnTime
    BY <2>1, <2>5, NoneEnded
  <2> QED BY <2>2, <2>6, <2>7 DEF DueInv, Called
<1>8. CASE KClear
  <2>1. current \in Tasks /\ MaskValue[trap.mask] \notin 1 .. Half - 1
    BY <1>8 DEF KClear, Handle, Inv, TypeInv, DueInv, Called
  <2>2. /\ \A t \in Tasks : pending'[t] \subseteq pending[t]
        /\ UNCHANGED <<timeout, waitsig, call, goal>> /\ phase' = "sched"
    BY <1>8, <2>1 DEF KClear, Handle, histVars, Inv, TypeInv
  <2> QED BY <2>2, NoneEnded DEF DueInv, Called
<1>9. CASE KBlock
  <2>1. current \in Tasks /\ call[current] # "wait"
    BY <1>9 DEF KBlock, Handle, Inv, TrapInv, TypeInv
  <2>2. /\ \A t \in Tasks : (call'[t] = "wait") = (call[t] = "wait")
        /\ UNCHANGED <<waitsig, pending, timeout, goal>> /\ phase' = "sched"
    BY <1>9, <2>1 DEF KBlock, Handle, Inv, TypeInv
  <2>3. OnTime
    BY <1>9, <2>1, NoneEnded DEF KBlock, Inv, TypeInv
  <2> QED BY <2>2, <2>3 DEF DueInv, Called
<1> QED BY <1>1, <1>2, <1>3, <1>4, <1>5, <1>6, <1>7, <1>8, <1>9, StepCases

LEMMA InitKept == Init => CallInv /\ ReportInv /\ DueInv
BY DEF Init, CallInv, ReportInv, EventsReported, DueInv, Called, NoTrap

\* Every event taken from a task is returned by a call of its own, unless the
\* task sleeps in pipes and there are polls for events, whose masks stay in
\* waitsig (kernel.c:280; section 6, i, of the README): that is the only way
\* an event is lost.
THEOREM EventsKept ==
    ASSUME NoPollThenPipe
    PROVE  Spec => []EventsReported
<1>1. Init => Inv /\ CallInv /\ ReportInv
  BY InitInv, InitKept
<1>2. Inv /\ CallInv /\ ReportInv /\ [Next]_vars => (Inv /\ CallInv /\ ReportInv)'
  BY StepInv, CallStep, ReportStep
<1>3. ReportInv => EventsReported
  BY DEF ReportInv
<1> QED BY <1>1, <1>2, <1>3, PTL DEF Spec

\* No wait times out early, wherever the millisecond counter stands and wraps,
\* unless an event ended a wait before its timeout or a clear() took its mask
\* for one (kernel.c:447, 298; section 6, b and e, of the README): these are
\* the only ways to an early end.
THEOREM TimeoutsDue ==
    ASSUME TimeAlone
    PROVE  Spec => TimeoutsAreDue
<1>1. Init => Inv /\ CallInv /\ DueInv
  BY InitInv, InitKept
<1>2. Inv /\ CallInv /\ DueInv /\ [Next]_vars => (Inv /\ CallInv /\ DueInv)'
  BY StepInv, CallStep, DueStep
<1>3. Inv /\ CallInv /\ DueInv /\ [Next]_vars =>
        [\A t \in Tasks :
            (call[t] = "wait" /\ call'[t] = "user" /\ "TIMEOUT" \in ret'[t])
                => elapsed[t] + (IF ms' # ms THEN 1 ELSE 0) > goal[t]]_vars
  BY DueStep DEF OnTime
<1> QED BY <1>1, <1>2, <1>3, PTL DEF Spec, TimeoutsAreDue
=============================================================================
