--------------------------- MODULE SysPipeProofs ----------------------------
(***************************************************************************)
(* Proofs about SysPipe, for every value of its constants: first that what *)
(* an interrupt handler and one reader share is kept in order, then that a *)
(* pipe between tasks neither loses nor repeats a byte, whatever the       *)
(* number of tasks that read and write.                                    *)
(***************************************************************************)
EXTENDS SysPipe, ZipSchedProofs, SequenceTheorems, FiniteSetTheorems

USE NTasksAssumption, PipeAssumption DEF Tasks, Idle, Mask, NoTask, IntTask

-----------------------------------------------------------------------------
(***************************************************************************)
(* Index arithmetic.                                                       *)
(***************************************************************************)

\* Masking keeps indices inside m_buf.
LEMMA WrapRange ==
    ASSUME NEW i \in 0 .. 2 * Size - 1
    PROVE  Wrap(i) \in 0 .. Mask
BY DEF Wrap

\* How full the ring is, and how much room it has.
LEMMA RingRange ==
    ASSUME head \in 0 .. Mask, tail \in 0 .. Mask
    PROVE  /\ Occupied \in 0 .. Mask
           /\ NumAvail = Mask - Occupied
           /\ head # tail <=> Occupied > 0
BY DEF Occupied, NumAvail, Wrap

\* Filling the ring from head on, without overtaking tail or the end of m_buf.
LEMMA FillRing ==
    ASSUME head \in 0 .. Mask, tail \in 0 .. Mask,
           NEW len \in Nat, len <= NumAvail, head + len <= Size
    PROVE  /\ Wrap(Wrap(head + len) - tail + Size) = Occupied + len
           /\ \A k \in 0 .. Occupied - 1 :
                 /\ Wrap(tail + k) \in 0 .. Mask
                 /\ ~(head <= Wrap(tail + k) /\ Wrap(tail + k) < head + len)
           /\ \A k \in Occupied .. Occupied + len - 1 :
                 Wrap(tail + k) = head + (k - Occupied)
BY DEF Occupied, NumAvail, Wrap

\* What copies and pops add to out are sequences of integers.
LEMMA NumbersSeq ==
    ASSUME NEW n \in Nat, NEW len \in Nat
    PROVE  /\ Numbers(n, len) \in Seq(Int)
           /\ Len(Numbers(n, len)) = len
BY DEF Numbers

LEMMA ChunkSeq ==
    ASSUME NEW i \in 0 .. Mask, NEW len \in Nat, i + len <= Size,
           buf \in [0 .. Mask -> Byte]
    PROVE  Chunk(i, len) \in Seq(Int)
BY DEF Chunk, Byte, Blank

LEMMA PoppedSeq ==
    ASSUME NEW n \in 1 .. 2, tail \in 0 .. Mask, buf \in [0 .. Mask -> Byte]
    PROVE  [k \in 1 .. n |-> buf[Wrap(tail + k - 1)]] \in Seq(Int)
<1>1. \A k \in 1 .. n : Wrap(tail + k - 1) \in 0 .. Mask
  BY WrapRange
<1>2. \A i \in 0 .. Mask : buf[i] \in Int
  BY DEF Byte, Blank
<1> DEFINE popped == [k \in 1 .. n |-> buf[Wrap(tail + k - 1)]]
<1>3. popped \in [1 .. n -> Int]
  BY <1>1, <1>2, Zenon
<1> HIDE DEF popped
<1>4. popped \in Seq(Int)
  BY <1>3, n \in Nat
<1> QED BY <1>4 DEF popped

\* Copying into m_buf leaves a buffer of bytes.
LEMMA FilledType ==
    ASSUME NEW i \in 0 .. Mask, NEW n \in Nat, NEW len \in Nat,
           buf \in [0 .. Mask -> Byte]
    PROVE  Filled(i, n, len) \in [0 .. Mask -> Byte]
BY DEF Filled, Byte

-----------------------------------------------------------------------------
(***************************************************************************)
(* Type correctness.  The steps that copy are lemmas of their own.         *)
(***************************************************************************)

\* What TypeOK says of the fields of records.
LEMMA FieldTypes ==
    ASSUME TypeOK
    PROVE  /\ \A t \in Tasks : arg[t].src \in Nat /\ arg[t].len \in Nat
           /\ trap.id \in TrapIds /\ trap.len \in Nat
<1>1. ASSUME NEW t \in Tasks PROVE arg[t].src \in Nat /\ arg[t].len \in Nat
  <2>1. arg[t] \in [src : Nat, len : Nat]
    BY DEF TypeOK, TaskOK
  <2> QED BY <2>1
<1>2. trap \in [id : TrapIds, len : Nat]
  BY DEF TypeOK, KernelOK
<1> QED BY <1>1, <1>2

\* Waking the owner of an end leaves state a function to READY and WAITING,
\* and puts nobody to sleep.
LEMMA AwakeType ==
    ASSUME TypeOK
    PROVE  /\ \A t \in Tasks : /\ Awake(t) \in [Tasks -> {"READY", "WAITING"}]
                               /\ \A u \in Tasks : state[u] = "READY" => Awake(t)[u] = "READY"
           /\ \A s \in {WakeReader, WakeWriter} :
                  /\ s \in [Tasks -> {"READY", "WAITING"}]
                  /\ \A u \in Tasks : state[u] = "READY" => s[u] = "READY"
<1>1. \A t \in Tasks : /\ Awake(t) \in [Tasks -> {"READY", "WAITING"}]
                       /\ \A u \in Tasks : state[u] = "READY" => Awake(t)[u] = "READY"
  BY DEF TypeOK, TaskOK, Awake
<1>2. rdtask \in Tasks \/ WakeReader = state
  BY DEF WakeReader
<1>3. wrtask \in Tasks \/ WakeWriter = state
  BY DEF WakeWriter, TypeOK, PipeOK
<1>4. state \in [Tasks -> {"READY", "WAITING"}]
  BY DEF TypeOK, TaskOK
<1>5. rdtask \in Tasks => WakeReader = Awake(rdtask)
  BY DEF WakeReader
<1>6. wrtask \in Tasks => WakeWriter = Awake(wrtask)
  BY DEF WakeWriter
<1>7. /\ WakeReader \in [Tasks -> {"READY", "WAITING"}]
      /\ \A u \in Tasks : state[u] = "READY" => WakeReader[u] = "READY"
  BY <1>1, <1>2, <1>4, <1>5, Zenon
<1>8. /\ WakeWriter \in [Tasks -> {"READY", "WAITING"}]
      /\ \A u \in Tasks : state[u] = "READY" => WakeWriter[u] = "READY"
  BY <1>1, <1>3, <1>4, <1>6, Zenon
<1> QED BY <1>1, <1>7, <1>8, Zenon

\* Copying out of m_buf, within its bounds and within the request.
LEMMA CopyOutStep ==
    ASSUME TypeInv,
           NEW t \in Tasks, Running(t, "r_wrap") \/ Running(t, "r_rest"),
           NEW len \in Nat, tail + len <= Size, len <= nleft[t],
           NEW next \in {"r_rest", "r_direct", "r_done"},
           next = "r_rest" => h >= NextTail(len),
           CopyOut(t, len, next)
    PROVE  TypeInv'
<1> USE DEF pipeVars, taskVars, localVars, kernelVars, devVars, histVars, callVars,
            Running, Resting, PcReader, PcWriter, TrapIds
<1>1. PipeOK /\ TaskOK /\ KernelOK /\ CallsOK /\ DevInv /\ TrapInv /\ PcInv
  BY DEF TypeInv, TypeOK
<1>2. /\ UNCHANGED <<head, buf, error, rdtask, wrtask, nwritten, state, arg, src,
                     localVars, gie, devVars, accepted, callVars, current>>
      /\ tail' = Wrap(tail + len)
      /\ nread' = nread + len
      /\ nleft' = [nleft EXCEPT ![t] = nleft[t] - len]
      /\ out' = out \o Chunk(tail, len)
  BY DEF CopyOut, SanityCheck, Trap, NoTrapYet, NextTail
<1>3. \/ phase' = "irq" /\ trap' = [id |-> "EXIT", len |-> 0] /\ pc' = pc
      \/ UNCHANGED <<phase, trap>> /\ pc' = [pc EXCEPT ![t] = next]
  BY DEF CopyOut, SanityCheck, Trap, NoTrapYet, Goto
<1>4. phase = "user" /\ current = t /\ trap.id = "none" /\ pc[t] \in {"r_wrap", "r_rest"}
  BY <1>1 DEF TrapInv
<1>5. PipeOK'
  <2>1. tail' \in 0 .. Mask
    BY <1>1, <1>2, WrapRange DEF PipeOK
  <2>2. nread' \in Nat
    BY <1>1, <1>2 DEF PipeOK
  <2> QED BY <1>1, <1>2, <2>1, <2>2 DEF PipeOK
<1>6. TaskOK'
  <2>0. nleft \in [Tasks -> Nat] /\ nleft[t] - len \in Nat
    BY <1>1 DEF TaskOK
  <2>1. nleft' \in [Tasks -> Nat]
    BY <1>2, <2>0
  <2>2. pc' \in [Tasks -> {"user"} \cup PcReader \cup PcWriter]
    BY <1>1, <1>3 DEF TaskOK
  <2> QED BY <1>1, <1>2, <2>1, <2>2 DEF TaskOK
<1>7. KernelOK'
  BY <1>1, <1>2, <1>3 DEF KernelOK
<1>8. CallsOK'
  <2>1. tail \in 0 .. Mask /\ buf \in [0 .. Mask -> Byte]
    BY <1>1 DEF PipeOK
  <2>2. out' \in Seq(Int)
    BY <1>1, <1>2, <2>1, ChunkSeq, ConcatProperties DEF CallsOK
  <2> QED BY <1>1, <1>2, <2>2 DEF CallsOK
<1>9. DevInv'
  BY <1>1, <1>2 DEF DevInv
<1>10. TrapInv'
  BY <1>1, <1>2, <1>3, <1>4 DEF TrapInv, KernelOK
<1>11. PcInv'
  <2>1. CASE pc' = pc /\ trap' = [id |-> "EXIT", len |-> 0]
    BY <1>1, <1>2, <1>4, <2>1 DEF PcInv
  <2>2. CASE trap' = trap /\ pc' = [pc EXCEPT ![t] = next]
    <3>1. tail' = NextTail(len)
      BY <1>2 DEF NextTail
    <3>2. IntReader = "none"
      BY <1>1, <1>4 DEF PcInv
    <3>3. \A u \in Tasks : u # t => pc'[u] = pc[u] /\ pc[u] \in Resting
      BY <1>1, <1>4, <2>2 DEF PcInv, TaskOK
    <3>4. pc'[t] = next
      BY <1>1, <2>2 DEF TaskOK
    <3> QED BY <1>2, <1>4, <2>2, <3>1, <3>2, <3>3, <3>4 DEF PcInv
  <2> QED BY <1>3, <2>1, <2>2
<1> QED BY <1>5, <1>6, <1>7, <1>8, <1>9, <1>10, <1>11 DEF TypeInv, TypeOK

\* kpop takes the next bytes of m_buf and wakes the writer.
LEMMA PopTypes ==
    ASSUME TypeOK, NEW n \in 1 .. 2, KPop(n)
    PROVE  /\ UNCHANGED <<head, buf, error>>
           /\ tail' \in 0 .. Mask
           /\ state' \in [Tasks -> {"READY", "WAITING"}]
           /\ \A u \in Tasks : state[u] = "READY" => state'[u] = "READY"
           /\ out' \in Seq(Int)
<1>1. tail \in 0 .. Mask /\ buf \in [0 .. Mask -> Byte] /\ out \in Seq(Int)
  BY DEF TypeOK, PipeOK, CallsOK
<1>2. tail' \in 0 .. Mask
  BY <1>1, WrapRange DEF KPop
<1>3. out' \in Seq(Int)
  BY <1>1, PoppedSeq, ConcatProperties DEF KPop
<1>4. state' = WakeWriter /\ UNCHANGED <<head, buf, error>>
  BY DEF KPop
<1> QED BY <1>2, <1>3, <1>4, AwakeType


\* Every variable keeps its type; in particular the ring's indices stay inside
\* m_buf, whatever interrupts happen, and no copy that uread_syspipe or
\* uwrite_syspipe makes has a negative length (syspipe.c:139-187, 323-355).
THEOREM TypeInvariant == Spec => []TypeInv
<1> USE DEF Resting, PcReader, PcWriter, TrapIds
<1>1. Init => TypeInv
  <2> SUFFICES ASSUME Init PROVE TypeInv
    OBVIOUS
  <2>1. PipeOK
    <3>1. buf \in [0 .. Mask -> Byte]
      BY DEF Init, Byte
    <3>2. /\ rdtask \in Tasks \cup {NoTask, IntTask}
          /\ wrtask \in Tasks \cup {NoTask}
      BY DEF Init
    <3>3. head = 0 /\ tail = 0 /\ error \in BOOLEAN /\ nread = 0 /\ nwritten = 0
      BY DEF Init
    <3> QED BY <3>1, <3>2, <3>3 DEF PipeOK
  <2>2. TaskOK
    BY DEF Init, TaskOK
  <2>3. KernelOK
    <3>1. dev \in BOOLEAN /\ gie \in BOOLEAN /\ audiostate \in BOOLEAN
      BY Zenon DEF Init
    <3>2. current \in Tasks \cup {Idle} /\ trap \in [id : TrapIds, len : Nat]
      BY DEF Init, NoTrap
    <3> QED BY <3>1, <3>2 DEF Init, KernelOK
  <2>4. CallsOK
    BY DEF Init, CallsOK
  <2>5. DevInv
    BY DEF Init, DevInv
  <2>6. TrapInv
    BY DEF Init, TrapInv, NoTrap
  <2>7. PcInv
    BY DEF Init, PcInv
  <2> QED BY <2>1, <2>2, <2>3, <2>4, <2>5, <2>6, <2>7 DEF TypeInv, TypeOK
<1>2. TypeInv /\ [Next]_vars => TypeInv'
  <2> SUFFICES ASSUME TypeInv, [Next]_vars PROVE TypeInv'
    OBVIOUS
  <2>1. PipeOK /\ TaskOK /\ KernelOK /\ CallsOK /\ DevInv /\ TrapInv /\ PcInv
    BY DEF TypeInv, TypeOK
  <2>2. /\ TypeOK
        /\ \A t \in Tasks : arg[t].src \in Nat /\ arg[t].len \in Nat
        /\ trap.id \in TrapIds /\ trap.len \in Nat
    BY FieldTypes DEF TypeInv
  <2> USE DEF pipeVars, taskVars, localVars, kernelVars, devVars, histVars, callVars,
              Running, Goto, Trap, NoTrapYet
  <2>3. ASSUME NEW t \in Tasks, NEW n \in ReadLens, Read(t, n) PROVE TypeInv'
    <3>1. PipeOK' /\ TaskOK' /\ DevInv'
      BY <2>1, <2>3 DEF Read, PipeOK, TaskOK, CallsOK, DevInv
    <3>2. KernelOK'
      BY <2>1, <2>2, <2>3 DEF Read, KernelOK
    <3>3. CallsOK'
      BY <2>1, <2>2, <2>3 DEF Read, CallsOK
    <3>4. TrapInv'
      BY <2>1, <2>2, <2>3 DEF Read, TrapInv, KernelOK, TaskOK, PcInv
    <3>5. PcInv'
      BY <2>1, <2>2, <2>3 DEF Read, PcInv, TrapInv, TaskOK, KernelOK
    <3> QED BY <3>1, <3>2, <3>3, <3>4, <3>5 DEF TypeInv, TypeOK
  <2>4. ASSUME NEW t \in Tasks, NEW n \in WriteLens, Write(t, n) PROVE TypeInv'
    <3>1. PipeOK' /\ TaskOK' /\ DevInv'
      BY <2>1, <2>4 DEF Write, PipeOK, TaskOK, CallsOK, DevInv
    <3>2. KernelOK'
      BY <2>1, <2>2, <2>4 DEF Write, KernelOK
    <3>3. CallsOK'
      BY <2>1, <2>2, <2>4 DEF Write, CallsOK
    <3>4. TrapInv'
      BY <2>1, <2>2, <2>4 DEF Write, TrapInv, KernelOK, TaskOK, PcInv
    <3>5. PcInv'
      BY <2>1, <2>2, <2>4 DEF Write, PcInv, TrapInv, TaskOK, KernelOK
    <3> QED BY <3>1, <3>2, <3>3, <3>4, <3>5 DEF TypeInv, TypeOK
  <2>5. ASSUME NEW t \in Tasks, Yield(t) PROVE TypeInv'
    <3>1. PipeOK' /\ TaskOK' /\ CallsOK' /\ DevInv'
      BY <2>1, <2>5 DEF Yield, PipeOK, TaskOK, CallsOK, DevInv
    <3>2. KernelOK'
      BY <2>1, <2>2, <2>5 DEF Yield, KernelOK
    <3>3. TrapInv'
      BY <2>1, <2>2, <2>5 DEF Yield, TrapInv, KernelOK, TaskOK, PcInv
    <3>4. PcInv'
      BY <2>1, <2>2, <2>5 DEF Yield, PcInv, TrapInv, TaskOK, KernelOK
    <3> QED BY <3>1, <3>2, <3>3, <3>4 DEF TypeInv, TypeOK
  <2>6. ASSUME NEW t \in Tasks, REntry(t) PROVE TypeInv'
    <3>1. PipeOK' /\ KernelOK' /\ DevInv' /\ TrapInv'
      BY <2>1, <2>6 DEF REntry, PipeOK, TaskOK, KernelOK, CallsOK, DevInv, TrapInv, PcInv
    <3>2. TaskOK'
      <4>1. nleft \in [Tasks -> Nat] /\ pc \in [Tasks -> {"user"} \cup PcReader \cup PcWriter]
        BY <2>1 DEF TaskOK
      <4>2. nleft' \in [Tasks -> Nat] /\ pc' \in [Tasks -> {"user"} \cup PcReader \cup PcWriter]
        BY <4>1, <2>6, <2>2 DEF REntry
      <4> QED BY <2>1, <2>6, <4>2 DEF REntry, TaskOK
    <3>3. CallsOK'
      <4>1. ret \in [Tasks -> Int] /\ nread \in Int
        BY <2>1 DEF CallsOK, PipeOK
      <4>2. ret' \in [Tasks -> Int]
        BY <4>1, <2>6 DEF REntry
      <4> QED BY <2>1, <2>6, <4>2 DEF REntry, CallsOK
    <3>4. PcInv'
      BY <2>1, <2>2, <2>6 DEF REntry, PcInv, TrapInv, TaskOK, KernelOK
    <3> QED BY <3>1, <3>2, <3>3, <3>4 DEF TypeInv, TypeOK
  <2>7. ASSUME NEW t \in Tasks, RHead(t) PROVE TypeInv'
    <3>1. PipeOK' /\ KernelOK' /\ CallsOK' /\ DevInv' /\ TrapInv'
      BY <2>1, <2>7 DEF RHead, Wrapped, PipeOK, TaskOK, KernelOK, CallsOK, DevInv, TrapInv, PcInv
    <3>2. TaskOK'
      BY <2>1, <2>2, <2>7 DEF RHead, Wrapped, TaskOK, PipeOK
    <3>3. PcInv'
      <4>1. h' = head /\ tail' = tail /\ trap' = trap /\ current' = current /\ current = t
            /\ pc' = [pc EXCEPT ![t] = IF Wrapped THEN "r_wrap" ELSE "r_rest"]
            /\ pc[t] = "r_head"
        BY <2>7 DEF RHead
      <4>2. ~Wrapped => head >= tail
        BY <2>1 DEF Wrapped, PipeOK
      <4>3. pc'[t] \in {"r_wrap", "r_rest"} /\ (pc'[t] = "r_rest" => ~Wrapped)
        BY <2>1, <4>1 DEF TaskOK
      <4>4. \A u \in Tasks : u # t => pc'[u] = pc[u]
        BY <2>1, <4>1 DEF TaskOK
      <4>5. IntReader = "none" /\ trap.id = "none"
        BY <2>1, <2>7, <4>1 DEF RHead, PcInv, TrapInv
      <4> QED BY <2>1, <4>1, <4>2, <4>3, <4>4, <4>5 DEF PcInv
    <3> QED BY <3>1, <3>2, <3>3 DEF TypeInv, TypeOK
  <2>8. ASSUME NEW t \in Tasks, RWrap(t) PROVE TypeInv'
    <3> DEFINE len == MinOf(Size - tail, nleft[t])
                   next == IF nleft[t] = len THEN "r_done" ELSE "r_rest"
    <3>1. tail \in 0 .. Mask /\ h \in 0 .. Mask /\ nleft[t] \in Nat
      BY <2>1 DEF PipeOK, TaskOK
    <3>2. len \in Nat /\ tail + len <= Size /\ len <= nleft[t]
      BY <3>1 DEF MinOf
    <3>3. next = "r_rest" => h >= NextTail(len)
      BY <3>1 DEF MinOf, NextTail, Wrap
    <3>4. CopyOut(t, len, next) /\ Running(t, "r_wrap")
      BY <2>8 DEF RWrap
    <3> HIDE DEF len
    <3> QED BY <3>2, <3>3, <3>4, CopyOutStep
  <2>9. ASSUME NEW t \in Tasks, RRest(t) PROVE TypeInv'
    <3> DEFINE len == MinOf(h - tail, nleft[t])
                   next == IF nleft[t] = len THEN "r_done" ELSE "r_direct"
    <3>1. tail \in 0 .. Mask /\ h \in 0 .. Mask /\ nleft[t] \in Nat
      BY <2>1 DEF PipeOK, TaskOK
    <3>2. h >= tail
      BY <2>1, <2>9 DEF RRest, PcInv, TrapInv
    <3>3. len \in Nat /\ tail + len <= Size /\ len <= nleft[t]
      BY <3>1, <3>2 DEF MinOf
    <3>4. CopyOut(t, len, next) /\ Running(t, "r_rest")
      BY <2>9 DEF RRest
    <3> HIDE DEF len
    <3> QED BY <3>3, <3>4, CopyOutStep
  <2>10. ASSUME NEW t \in Tasks, RDirect(t) PROVE TypeInv'
    <3> DEFINE len == MinOf(nleft[t], arg[wrtask].len)
    <3>a. wrtask = NoTask \/ wrtask \in Tasks
      BY <2>1 DEF PipeOK
    <3>b. wrtask \in Tasks => len \in Nat /\ nleft[t] - len \in Nat /\ arg[wrtask].len - len \in Nat
      <4>1. nleft[t] \in Nat
        BY <2>1 DEF TaskOK
      <4> QED BY <2>2, <4>1 DEF MinOf
    <3> HIDE DEF len
    <3>c. \/ /\ wrtask = NoTask
             /\ UNCHANGED <<out, nread, nwritten, nleft, arg, wrtask, state>>
             /\ pc' = [pc EXCEPT ![t] = "r_check"]
          \/ /\ wrtask \in Tasks
             /\ out' = out \o Numbers(arg[wrtask].src, len)
             /\ nread' = nread + len /\ nwritten' = nwritten + len
             /\ nleft' = [nleft EXCEPT ![t] = nleft[t] - len]
             /\ arg' = [arg EXCEPT ![wrtask] = Advance(arg[wrtask], len)]
             /\ \/ wrtask' = NoTask /\ state' = Awake(wrtask)
                \/ UNCHANGED <<wrtask, state>>
             /\ pc' = [pc EXCEPT ![t] = IF nleft[t] = len THEN "r_done" ELSE "r_check"]
      BY <2>10, <3>a DEF RDirect, len
    <3>d. /\ UNCHANGED <<head, tail, buf, error, rdtask, src, localVars, gie, devVars, accepted, callVars>>
          /\ UNCHANGED <<current, phase, trap>>
          /\ phase = "user" /\ current = t /\ pc[t] = "r_direct"
      BY <2>10 DEF RDirect
    <3>1. KernelOK' /\ DevInv'
      BY <2>1, <3>c, <3>d DEF PipeOK, KernelOK, CallsOK, DevInv
    <3>2. PipeOK'
      BY <2>1, <3>a, <3>b, <3>c, <3>d, SMTT(30) DEF PipeOK
    <3>3. TaskOK'
      <4>1. CASE wrtask = NoTask
        <5>1. UNCHANGED <<nleft, arg, state>> /\ pc' = [pc EXCEPT ![t] = "r_check"]
          BY <3>c, <4>1
        <5> QED BY <2>1, <3>d, <5>1 DEF TaskOK
      <4>2. CASE wrtask \in Tasks
        <5>1. nleft \in [Tasks -> Nat] /\ arg \in [Tasks -> [src : Nat, len : Nat]]
          BY <2>1 DEF TaskOK
        <5>2. nleft' \in [Tasks -> Nat]
          BY <3>b, <3>c, <4>2, <5>1
        <5>3. Advance(arg[wrtask], len) \in [src : Nat, len : Nat]
          BY <2>2, <3>b, <4>2 DEF Advance
        <5>4. arg' \in [Tasks -> [src : Nat, len : Nat]]
          BY <3>c, <4>2, <5>1, <5>3
        <5>5. state' \in [Tasks -> {"READY", "WAITING"}]
          <6>1. state' \in {state, Awake(wrtask)}
            BY <3>c, <4>2
          <6> QED BY <2>1, <2>2, <4>2, <6>1, AwakeType DEF TaskOK
        <5>6. pc' \in [Tasks -> {"user"} \cup PcReader \cup PcWriter]
          BY <2>1, <3>c DEF TaskOK
        <5> QED BY <2>1, <3>d, <5>2, <5>4, <5>5, <5>6 DEF TaskOK
      <4> QED BY <3>a, <4>1, <4>2
    <3>4. CallsOK'
      <4>1. wrtask \in Tasks => Numbers(arg[wrtask].src, len) \in Seq(Int)
        BY <2>2, <3>b, NumbersSeq
      <4>2. out \in Seq(Int)
        BY <2>1 DEF CallsOK
      <4>3. CASE out' = out
        BY <2>1, <3>d, <4>3 DEF CallsOK
      <4>4. CASE wrtask \in Tasks /\ out' = out \o Numbers(arg[wrtask].src, len)
        <5>1. out' \in Seq(Int)
          BY <4>1, <4>2, <4>4, ConcatProperties
        <5> QED BY <2>1, <3>d, <5>1 DEF CallsOK
      <4> QED BY <3>c, <4>3, <4>4
    <3>5. TrapInv'
      BY <2>1, <2>2, <3>c, <3>d, AwakeType DEF TrapInv
    <3>6. PcInv'
      BY <2>1, <3>c, <3>d DEF PcInv, TaskOK, TrapInv
    <3> QED BY <3>1, <3>2, <3>3, <3>4, <3>5, <3>6 DEF TypeInv, TypeOK
  <2>11. ASSUME NEW t \in Tasks, RCheck(t) PROVE TypeInv'
    <3>1. PipeOK' /\ CallsOK' /\ DevInv'
      BY <2>1, <2>11 DEF RCheck, PipeOK, CallsOK, DevInv
    <3>2. TaskOK'
      BY <2>1, <2>11 DEF RCheck, TaskOK, PipeOK
    <3>3. KernelOK'
      <4>1. trap' \in [id : TrapIds, len : Nat]
        BY <2>1, <2>11 DEF RCheck, KernelOK
      <4> QED BY <2>1, <2>11, <4>1 DEF RCheck, KernelOK
    <3>4. TrapInv'
      BY <2>1, <2>2, <2>11, SMTT(30) DEF RCheck, TrapInv, KernelOK, TaskOK, PcInv
    <3>5. PcInv'
      BY <2>1, <2>2, <2>11 DEF RCheck, PcInv, TrapInv, TaskOK, KernelOK
    <3> QED BY <3>1, <3>2, <3>3, <3>4, <3>5 DEF TypeInv, TypeOK
  <2>12. ASSUME NEW t \in Tasks, RDone(t) PROVE TypeInv'
    <3>1. KernelOK'
      BY <2>1, <2>12 DEF RDone, KernelOK
    <3>2. PipeOK'
      BY <2>1, <2>2, <2>12 DEF RDone, PipeOK
    <3>3. TaskOK'
      BY <2>1, <2>2, <2>12, AwakeType DEF RDone, TaskOK
    <3>4. CallsOK'
      <4>1. ret \in [Tasks -> Int] /\ nread \in Int
        BY <2>1 DEF CallsOK, PipeOK
      <4>2. ret' \in [Tasks -> Int]
        BY <4>1, <2>12 DEF RDone
      <4> QED BY <2>1, <2>12, <4>2 DEF RDone, CallsOK
    <3>5. DevInv'
      <4>1. IntReader = "none" /\ rdtask' # IntTask
        BY <2>1, <2>12 DEF RDone, PcInv
      <4> QED BY <2>1, <2>12, <4>1 DEF RDone, DevInv
    <3>6. TrapInv'
      BY <2>1, <2>2, <2>12, AwakeType DEF RDone, TrapInv, TaskOK
    <3>7. PcInv'
      BY <2>1, <2>2, <2>12 DEF RDone, PcInv, TrapInv, TaskOK, KernelOK
    <3> QED BY <3>1, <3>2, <3>3, <3>4, <3>5, <3>6, <3>7 DEF TypeInv, TypeOK
  <2>13. ASSUME NEW t \in Tasks, WEntry(t) PROVE TypeInv'
    <3>1. PipeOK' /\ KernelOK' /\ CallsOK' /\ DevInv' /\ TrapInv'
      BY <2>1, <2>13 DEF WEntry, PipeOK, TaskOK, KernelOK, CallsOK, DevInv, TrapInv, PcInv
    <3>2. TaskOK'
      BY <2>1, <2>2, <2>13 DEF WEntry, TaskOK
    <3>3. PcInv'
      BY <2>1, <2>2, <2>13 DEF WEntry, PcInv, TrapInv, TaskOK, KernelOK
    <3> QED BY <3>1, <3>2, <3>3 DEF TypeInv, TypeOK
  <2>14. ASSUME NEW t \in Tasks, WDirect(t) PROVE TypeInv'
    <3> DEFINE len == MinOf(nleft[t], arg[rdtask].len)
    <3>a. rdtask \in {NoTask, IntTask} \/ rdtask \in Tasks
      BY <2>1 DEF PipeOK
    <3>b. rdtask \in Tasks => len \in Nat /\ nleft[t] - len \in Nat /\ arg[rdtask].len - len \in Nat
      <4>1. nleft[t] \in Nat
        BY <2>1 DEF TaskOK
      <4> QED BY <2>2, <4>1 DEF MinOf
    <3> HIDE DEF len
    <3>c. \/ /\ UNCHANGED <<out, nread, nwritten, nleft, src, arg, rdtask, state>>
             /\ pc' = [pc EXCEPT ![t] = "w_avail"]
          \/ /\ rdtask \in Tasks
             /\ out' = out \o Numbers(src[t], len)
             /\ nread' = nread + len /\ nwritten' = nwritten + len
             /\ nleft' = [nleft EXCEPT ![t] = nleft[t] - len]
             /\ src' = [src EXCEPT ![t] = src[t] + len]
             /\ arg' = [arg EXCEPT ![rdtask] = Advance(arg[rdtask], len)]
             /\ \/ rdtask' = NoTask /\ state' = Awake(rdtask)
                \/ UNCHANGED <<rdtask, state>>
             /\ pc' = [pc EXCEPT ![t] = IF nleft[t] = len THEN "w_done" ELSE "w_avail"]
      BY <2>14, <3>a DEF WDirect, len
    <3>d. /\ UNCHANGED <<head, tail, buf, error, wrtask, localVars, gie, devVars, accepted, callVars>>
          /\ UNCHANGED <<current, phase, trap>>
          /\ phase = "user" /\ current = t /\ pc[t] = "w_top"
      BY <2>14 DEF WDirect
    <3>1. KernelOK'
      BY <2>1, <3>c, <3>d DEF KernelOK
    <3>2. PipeOK'
      BY <2>1, <3>a, <3>b, <3>c, <3>d, SMTT(30) DEF PipeOK
    <3>3. TaskOK'
      <4>1. CASE UNCHANGED <<nleft, src, arg, state>> /\ pc' = [pc EXCEPT ![t] = "w_avail"]
        BY <2>1, <3>d, <4>1 DEF TaskOK
      <4>2. CASE rdtask \in Tasks /\ nleft' = [nleft EXCEPT ![t] = nleft[t] - len]
        <5>1. nleft \in [Tasks -> Nat] /\ src \in [Tasks -> Nat] /\ arg \in [Tasks -> [src : Nat, len : Nat]]
          BY <2>1 DEF TaskOK
        <5>2. nleft' \in [Tasks -> Nat]
          BY <3>b, <4>2, <5>1
        <5>7. src' \in [Tasks -> Nat]
          <6>1. src' \in {src, [src EXCEPT ![t] = src[t] + len]}
            BY <3>c
          <6>2. src[t] \in Nat /\ len \in Nat
            BY <3>b, <4>2, <5>1
          <6>3. src[t] + len \in Nat
            BY <6>2
          <6>4. [src EXCEPT ![t] = src[t] + len] \in [Tasks -> Nat]
            BY <5>1, <6>3, Zenon
          <6> QED BY <5>1, <6>1, <6>4
        <5>3. Advance(arg[rdtask], len) \in [src : Nat, len : Nat]
          BY <2>2, <3>b, <4>2 DEF Advance
        <5>4. arg' \in [Tasks -> [src : Nat, len : Nat]]
          BY <3>c, <4>2, <5>1, <5>3
        <5>5. state' \in [Tasks -> {"READY", "WAITING"}]
          <6>1. state' \in {state, Awake(rdtask)}
            BY <3>c, <4>2
          <6>2. Awake(rdtask) \in [Tasks -> {"READY", "WAITING"}]
            BY <2>2, <4>2, AwakeType
          <6> QED BY <2>1, <6>1, <6>2 DEF TaskOK
        <5>6. pc' \in [Tasks -> {"user"} \cup PcReader \cup PcWriter]
          BY <2>1, <3>c DEF TaskOK
        <5> QED BY <2>1, <3>d, <5>2, <5>4, <5>5, <5>6, <5>7 DEF TaskOK
      <4> QED BY <3>c, <4>1, <4>2
    <3>4. CallsOK'
      <4>1. rdtask \in Tasks => Numbers(src[t], len) \in Seq(Int)
        <5>1. src[t] \in Nat
          BY <2>1 DEF TaskOK
        <5> QED BY <3>b, <5>1, NumbersSeq
      <4>2. out \in Seq(Int)
        BY <2>1 DEF CallsOK
      <4>3. CASE out' = out
        BY <2>1, <3>d, <4>3 DEF CallsOK
      <4>4. CASE rdtask \in Tasks /\ out' = out \o Numbers(src[t], len)
        <5>1. out' \in Seq(Int)
          BY <4>1, <4>2, <4>4, ConcatProperties
        <5> QED BY <2>1, <3>d, <5>1 DEF CallsOK
      <4> QED BY <3>c, <4>3, <4>4
    <3>5. DevInv'
      BY <2>1, <3>a, <3>c, <3>d DEF DevInv
    <3>6. TrapInv'
      BY <2>1, <2>2, <3>c, <3>d, AwakeType DEF TrapInv
    <3>7. PcInv'
      <4>1. \E l \in {"w_avail", "w_done"} : pc' = [pc EXCEPT ![t] = l]
        BY <3>c
      <4>2. h' = h /\ tail' = tail
        BY <3>d
      <4>3. current' = current /\ trap' = trap /\ current = t
        BY <3>d
      <4>4. \A u \in Tasks : pc'[u] = pc[u] \/ (u = t /\ pc'[u] \in {"w_avail", "w_done"})
        BY <2>1, <4>1 DEF TaskOK
      <4>5. trap.id = "none"
        BY <2>1, <3>d DEF TrapInv
      <4> QED BY <2>1, <4>2, <4>3, <4>4, <4>5 DEF PcInv
    <3> QED BY <3>1, <3>2, <3>3, <3>4, <3>5, <3>6, <3>7 DEF TypeInv, TypeOK
  <2>15. ASSUME NEW t \in Tasks, WAvail(t) PROVE TypeInv'
    <3>1. PipeOK' /\ KernelOK' /\ CallsOK' /\ DevInv' /\ TrapInv'
      BY <2>1, <2>15 DEF WAvail, PipeOK, TaskOK, KernelOK, CallsOK, DevInv, TrapInv, PcInv
    <3>2. TaskOK'
      <4>1. navail' \in 0 .. Mask
        BY <2>1, <2>15 DEF WAvail, NumAvail, Wrap, PipeOK
      <4> QED BY <2>1, <2>15, <4>1 DEF WAvail, TaskOK
    <3>3. PcInv'
      BY <2>1, <2>2, <2>15 DEF WAvail, PcInv, TrapInv, TaskOK, KernelOK
    <3> QED BY <3>1, <3>2, <3>3 DEF TypeInv, TypeOK
  <2>16. ASSUME NEW t \in Tasks, WFill(t) PROVE TypeInv'
    <3> DEFINE len == FillLen(t)
    <3>a. head \in 0 .. Mask /\ navail \in 0 .. Mask /\ nleft[t] \in Nat /\ src[t] \in Nat
      BY <2>1 DEF PipeOK, TaskOK
    <3>b. len \in Nat /\ head + len <= Size /\ len <= nleft[t] /\ len <= navail
      BY <3>a DEF FillLen, MinOf
    <3> HIDE DEF len
    <3>c. /\ buf' = Filled(head, src[t], len) /\ head' = Wrap(head + len)
          /\ src' = [src EXCEPT ![t] = src[t] + len]
          /\ nleft' = [nleft EXCEPT ![t] = nleft[t] - len]
          /\ nwritten' = nwritten + len /\ navail' = navail - len
          /\ \E l \in {"w_done", "w_check", "w_top"} : pc' = [pc EXCEPT ![t] = l]
          /\ phase = "user" /\ current = t /\ pc[t] = "w_fill"
          /\ UNCHANGED <<tail, error, rdtask, wrtask, nread, state, arg, h, gie, devVars, histVars, callVars>>
          /\ UNCHANGED <<current, phase, trap>>
      BY <2>16 DEF WFill, len
    <3>1. KernelOK' /\ CallsOK' /\ DevInv' /\ TrapInv'
      BY <2>1, <3>c DEF PipeOK, TaskOK, KernelOK, CallsOK, DevInv, TrapInv, PcInv
    <3>2. PipeOK'
      <4>1. buf' \in [0 .. Mask -> Byte]
        BY <2>1, <3>a, <3>b, <3>c, FilledType DEF PipeOK
      <4>2. head' \in 0 .. Mask
        BY <3>a, <3>b, <3>c, WrapRange
      <4> QED BY <2>1, <3>b, <3>c, <4>1, <4>2 DEF PipeOK
    <3>3. TaskOK'
      <4>1. nleft \in [Tasks -> Nat] /\ nleft[t] - len \in Nat /\ src \in [Tasks -> Nat]
        BY <2>1, <3>a, <3>b DEF TaskOK
      <4>2. nleft' \in [Tasks -> Nat]
        BY <3>c, <4>1
      <4>5. src' \in [Tasks -> Nat]
        BY <3>a, <3>b, <3>c, <4>1
      <4>3. navail' \in 0 .. Mask
        BY <3>a, <3>b, <3>c
      <4>4. pc' \in [Tasks -> {"user"} \cup PcReader \cup PcWriter]
        BY <2>1, <3>c DEF TaskOK
      <4> QED BY <2>1, <3>c, <4>2, <4>3, <4>4, <4>5 DEF TaskOK
    <3>4. PcInv'
      BY <2>1, <3>c DEF PcInv, TrapInv, TaskOK
    <3> QED BY <3>1, <3>2, <3>3, <3>4 DEF TypeInv, TypeOK
  <2>17. ASSUME NEW t \in Tasks, WCheck(t) PROVE TypeInv'
    <3>1. PipeOK' /\ CallsOK' /\ DevInv'
      BY <2>1, <2>17 DEF WCheck, PipeOK, CallsOK, DevInv
    <3>2. TaskOK'
      BY <2>1, <2>2, <2>17 DEF WCheck, TaskOK
    <3>3. KernelOK'
      <4>1. trap' \in [id : TrapIds, len : Nat]
        BY <2>1, <2>17 DEF WCheck, KernelOK
      <4> QED BY <2>1, <2>17, <4>1 DEF WCheck, KernelOK
    <3>4. TrapInv'
      BY <2>1, <2>17, SMTT(30) DEF WCheck, TrapInv, TaskOK
    <3>5. PcInv'
      BY <2>1, <2>2, <2>17 DEF WCheck, PcInv, TrapInv, TaskOK, KernelOK
    <3> QED BY <3>1, <3>2, <3>3, <3>4, <3>5 DEF TypeInv, TypeOK
  <2>18. ASSUME NEW t \in Tasks, WDone(t) PROVE TypeInv'
    <3>1. KernelOK' /\ DevInv'
      BY <2>1, <2>18 DEF WDone, PipeOK, KernelOK, CallsOK, DevInv
    <3>2. PipeOK'
      BY <2>1, <2>2, <2>18 DEF WDone, PipeOK
    <3>3. TaskOK'
      BY <2>1, <2>2, <2>18 DEF WDone, TaskOK
    <3>4. CallsOK'
      <4>1. ret \in [Tasks -> Int] /\ nwritten \in Int
        BY <2>1 DEF CallsOK, PipeOK
      <4>2. ret' \in [Tasks -> Int]
        BY <4>1, <2>18 DEF WDone
      <4> QED BY <2>1, <2>18, <4>2 DEF WDone, CallsOK
    <3>5. TrapInv'
      BY <2>1, <2>2, <2>18 DEF WDone, TrapInv, KernelOK, TaskOK, PcInv
    <3>6. PcInv'
      BY <2>1, <2>2, <2>18 DEF WDone, PcInv, TrapInv, TaskOK, KernelOK
    <3> QED BY <3>1, <3>2, <3>3, <3>4, <3>5, <3>6 DEF TypeInv, TypeOK
  <2>19. ASSUME Interrupt PROVE TypeInv'
    <3>1. PipeOK' /\ TaskOK' /\ CallsOK' /\ DevInv'
      BY <2>1, <2>19 DEF Interrupt, NoTrap, PipeOK, TaskOK, CallsOK, DevInv
    <3>2. KernelOK'
      BY <2>1, <2>2, <2>19 DEF Interrupt, NoTrap, KernelOK
    <3>3. TrapInv'
      BY <2>1, <2>2, <2>19 DEF Interrupt, NoTrap, TrapInv, KernelOK, TaskOK, PcInv
    <3>4. PcInv'
      BY <2>1, <2>2, <2>19 DEF Interrupt, NoTrap, PcInv, TrapInv, TaskOK, KernelOK
    <3> QED BY <3>1, <3>2, <3>3, <3>4 DEF TypeInv, TypeOK
  <2>20. ASSUME NEW active \in BOOLEAN, KIrqIdle(active) PROVE TypeInv'
    <3>1. PipeOK' /\ TaskOK' /\ CallsOK' /\ DevInv'
      BY <2>1, <2>20 DEF KIrqIdle, Served, PipeOK, TaskOK, CallsOK, DevInv
    <3>2. KernelOK'
      BY <2>1, <2>2, <2>20 DEF KIrqIdle, Served, KernelOK
    <3>3. TrapInv'
      BY <2>1, <2>2, <2>20 DEF KIrqIdle, Served, TrapInv, KernelOK, TaskOK, PcInv
    <3>4. PcInv'
      BY <2>1, <2>2, <2>20 DEF KIrqIdle, Served, PcInv, TrapInv, TaskOK, KernelOK
    <3> QED BY <3>1, <3>2, <3>3, <3>4 DEF TypeInv, TypeOK
  <2>21. ASSUME NEW active \in BOOLEAN, KIrqTx(active) PROVE TypeInv'
    <3>1. UNCHANGED <<rdtask, wrtask, nread, nwritten, arg, pc, nleft, src, localVars,
                       current, trap, accepted, callVars>>
      BY <2>21 DEF KIrqTx, Served
    <3>2. phase = "irq" /\ phase' = "trap" /\ gie' \in BOOLEAN /\ dev' \in BOOLEAN /\ audiostate' \in BOOLEAN
      BY <2>1, <2>21 DEF KIrqTx, Served, KernelOK
    <3>3. \/ UNCHANGED <<head, tail, buf, error, state, out>>
          \/ \E n \in 1 .. 2 : KPop(n)
      <4>1. UNCHANGED <<head, tail, buf, error, state, out>> \/ KPop(1)
        BY <2>21 DEF KIrqTx
      <4> QED BY <4>1
    <3>4. /\ head' = head /\ buf' = buf /\ error' = error /\ tail' \in 0 .. Mask
          /\ state' \in [Tasks -> {"READY", "WAITING"}]
          /\ \A u \in Tasks : state[u] = "READY" => state'[u] = "READY"
          /\ out' \in Seq(Int)
      <4>1. CASE UNCHANGED <<head, tail, buf, error, state, out>>
        BY <2>1, <4>1 DEF PipeOK, TaskOK, CallsOK
      <4>2. CASE \E n \in 1 .. 2 : KPop(n)
        BY <2>2, <4>2, PopTypes
      <4> QED BY <3>3, <4>1, <4>2
    <3>5. PipeOK'
      BY <2>1, <3>1, <3>4 DEF PipeOK
    <3>6. TaskOK'
      BY <2>1, <3>1, <3>4 DEF TaskOK
    <3>7. KernelOK' /\ CallsOK'
      BY <2>1, <3>1, <3>2, <3>4 DEF KernelOK, CallsOK
    <3>8. DevInv'
      <4>1. ~IntWriter
        BY <2>21 DEF KIrqTx
      <4> QED BY <2>1, <3>1, <4>1 DEF DevInv
    <3>9. TrapInv'
      BY <2>1, <3>1, <3>2, <3>4 DEF TrapInv, KernelOK
    <3>10. PcInv'
      <4>1. \A u \in Tasks : pc[u] \notin PcReader
        BY <2>1, <2>21 DEF KIrqTx, PcInv
      <4> QED BY <2>1, <3>1, <4>1 DEF PcInv
    <3> QED BY <3>5, <3>6, <3>7, <3>8, <3>9, <3>10 DEF TypeInv, TypeOK
  <2>e. ASSUME KIrqEcho PROVE TypeInv'
    <3>1. PipeOK' /\ TaskOK' /\ CallsOK' /\ DevInv'
      BY <2>1, <2>e DEF KIrqEcho, Served, PipeOK, TaskOK, CallsOK, DevInv
    <3>2. KernelOK'
      BY <2>1, <2>e DEF KIrqEcho, Served, KernelOK
    <3>3. TrapInv'
      BY <2>1, <2>e DEF KIrqEcho, Served, TrapInv
    <3>4. PcInv'
      BY <2>1, <2>e DEF KIrqEcho, Served, PcInv
    <3> QED BY <3>1, <3>2, <3>3, <3>4 DEF TypeInv, TypeOK
  <2>22. ASSUME KIrqRx PROVE TypeInv'
    <3>1. CallsOK'
      BY <2>1, <2>22 DEF KIrqRx, Served, KPush, CallsOK
    <3>2. PipeOK'
      <4>1. accepted - 1 \in Nat
        BY <2>1, <2>22 DEF KIrqRx, DevInv, CallsOK
      <4>2. head \in 0 .. Mask /\ buf \in [0 .. Mask -> Byte]
        BY <2>1 DEF PipeOK
      <4>3. Wrap(head + 1) \in 0 .. Mask
        BY <4>2, WrapRange
      <4>4. [buf EXCEPT ![head] = accepted - 1] \in [0 .. Mask -> Byte]
        BY <4>1, <4>2 DEF Byte
      <4> QED BY <2>1, <2>22, <4>3, <4>4 DEF KIrqRx, Served, KPush, PipeOK
    <3>3. TaskOK'
      BY <2>1, <2>2, <2>22, AwakeType DEF KIrqRx, Served, KPush, TaskOK
    <3>4. KernelOK'
      BY <2>1, <2>2, <2>22 DEF KIrqRx, Served, KPush, KernelOK
    <3>5. DevInv'
      BY <2>1, <2>2, <2>22 DEF KIrqRx, Served, KPush, DevInv, PipeOK, CallsOK
    <3>6. TrapInv'
      BY <2>1, <2>2, <2>22, AwakeType DEF KIrqRx, Served, KPush, TrapInv, KernelOK, TaskOK
    <3>7. PcInv'
      BY <2>1, <2>2, <2>22 DEF KIrqRx, Served, KPush, PcInv, TrapInv, TaskOK, KernelOK
    <3> QED BY <3>1, <3>2, <3>3, <3>4, <3>5, <3>6, <3>7 DEF TypeInv, TypeOK
  <2>23. ASSUME KIrqAudio PROVE TypeInv'
    <3>1. UNCHANGED <<rdtask, wrtask, nread, nwritten, arg, pc, nleft, src, localVars,
                       current, trap, accepted, callVars>>
      BY <2>23 DEF KIrqAudio, Served
    <3>2. phase = "irq" /\ phase' = "trap" /\ gie' \in BOOLEAN /\ dev' \in BOOLEAN /\ audiostate' \in BOOLEAN
      BY <2>1, <2>23 DEF KIrqAudio, Served, KernelOK
    <3>3. \/ UNCHANGED <<head, tail, buf, error, state, out>>
          \/ \E n \in 1 .. 2 : KPop(n)
      <4>1. UNCHANGED <<head, tail, buf, error, state, out>> \/ KPop(2)
        BY <2>23 DEF KIrqAudio
      <4> QED BY <4>1
    <3>4. /\ head' = head /\ buf' = buf /\ error' = error /\ tail' \in 0 .. Mask
          /\ state' \in [Tasks -> {"READY", "WAITING"}]
          /\ \A u \in Tasks : state[u] = "READY" => state'[u] = "READY"
          /\ out' \in Seq(Int)
      <4>1. CASE UNCHANGED <<head, tail, buf, error, state, out>>
        BY <2>1, <4>1 DEF PipeOK, TaskOK, CallsOK
      <4>2. CASE \E n \in 1 .. 2 : KPop(n)
        BY <2>2, <4>2, PopTypes
      <4> QED BY <3>3, <4>1, <4>2
    <3>5. PipeOK'
      BY <2>1, <3>1, <3>4 DEF PipeOK
    <3>6. TaskOK'
      BY <2>1, <3>1, <3>4 DEF TaskOK
    <3>7. KernelOK' /\ CallsOK'
      BY <2>1, <3>1, <3>2, <3>4 DEF KernelOK, CallsOK
    <3>8. DevInv'
      <4>1. ~IntWriter
        BY <2>23 DEF KIrqAudio
      <4> QED BY <2>1, <3>1, <4>1 DEF DevInv
    <3>9. TrapInv'
      BY <2>1, <3>1, <3>2, <3>4 DEF TrapInv, KernelOK
    <3>10. PcInv'
      <4>1. \A u \in Tasks : pc[u] \notin PcReader
        BY <2>1, <2>23 DEF KIrqAudio, PcInv
      <4> QED BY <2>1, <3>1, <4>1 DEF PcInv
    <3> QED BY <3>5, <3>6, <3>7, <3>8, <3>9, <3>10 DEF TypeInv, TypeOK
  <2>24. ASSUME KStartAudio PROVE TypeInv'
    <3>1. UNCHANGED <<rdtask, wrtask, nread, nwritten, arg, pc, nleft, src, localVars,
                       current, trap, accepted, callVars>>
      BY <2>24 DEF KStartAudio, Served
    <3>2. phase = "irq" /\ phase' = "trap" /\ gie' \in BOOLEAN /\ dev' \in BOOLEAN /\ audiostate' \in BOOLEAN
      BY <2>1, <2>24 DEF KStartAudio, Served, KernelOK
    <3>3. \/ UNCHANGED <<head, tail, buf, error, state, out>>
          \/ \E n \in 1 .. 2 : KPop(n)
      <4>1. UNCHANGED <<head, tail, buf, error, state, out>> \/ KPop(2)
        BY <2>24 DEF KStartAudio
      <4> QED BY <4>1
    <3>4. /\ head' = head /\ buf' = buf /\ error' = error /\ tail' \in 0 .. Mask
          /\ state' \in [Tasks -> {"READY", "WAITING"}]
          /\ \A u \in Tasks : state[u] = "READY" => state'[u] = "READY"
          /\ out' \in Seq(Int)
      <4>1. CASE UNCHANGED <<head, tail, buf, error, state, out>>
        BY <2>1, <4>1 DEF PipeOK, TaskOK, CallsOK
      <4>2. CASE \E n \in 1 .. 2 : KPop(n)
        BY <2>2, <4>2, PopTypes
      <4> QED BY <3>3, <4>1, <4>2
    <3>5. PipeOK'
      BY <2>1, <3>1, <3>4 DEF PipeOK
    <3>6. TaskOK'
      BY <2>1, <3>1, <3>4 DEF TaskOK
    <3>7. KernelOK' /\ CallsOK'
      BY <2>1, <3>1, <3>2, <3>4 DEF KernelOK, CallsOK
    <3>8. DevInv'
      <4>1. ~IntWriter
        BY <2>24 DEF KStartAudio
      <4> QED BY <2>1, <3>1, <4>1 DEF DevInv
    <3>9. TrapInv'
      BY <2>1, <3>1, <3>2, <3>4 DEF TrapInv, KernelOK
    <3>10. PcInv'
      <4>1. \A u \in Tasks : pc[u] \notin PcReader
        BY <2>1, <2>24 DEF KStartAudio, PcInv
      <4> QED BY <2>1, <3>1, <4>1 DEF PcInv
    <3> QED BY <3>5, <3>6, <3>7, <3>8, <3>9, <3>10 DEF TypeInv, TypeOK
  <2>25. ASSUME KNoTrap PROVE TypeInv'
    <3>0. UNCHANGED <<pipeVars, taskVars, localVars, devVars, histVars, callVars>>
      BY <2>25 DEF KNoTrap, Handle
    <3>1. PipeOK' /\ TaskOK' /\ CallsOK' /\ DevInv'
      BY <2>1, <3>0 DEF PipeOK, TaskOK, CallsOK, DevInv
    <3>2. KernelOK'
      BY <2>1, <2>2, <2>25 DEF KNoTrap, Handle, KernelOK
    <3>3. TrapInv'
      BY <2>1, <2>2, <2>25 DEF KNoTrap, Handle, TrapInv, KernelOK, TaskOK, PcInv
    <3>4. PcInv'
      BY <2>1, <2>2, <2>25 DEF KNoTrap, Handle, PcInv, TrapInv, TaskOK, KernelOK
    <3> QED BY <3>1, <3>2, <3>3, <3>4 DEF TypeInv, TypeOK
  <2>26. ASSUME KWait PROVE TypeInv'
    <3>1. PipeOK' /\ CallsOK' /\ DevInv'
      BY <2>1, <2>26 DEF KWait, Handle, PipeOK, CallsOK, DevInv
    <3>2. TaskOK'
      BY <2>1, <2>2, <2>26 DEF KWait, Handle, TaskOK
    <3>3. KernelOK'
      BY <2>1, <2>2, <2>26 DEF KWait, Handle, KernelOK
    <3>4. TrapInv'
      BY <2>1, <2>2, <2>26 DEF KWait, Handle, TrapInv, KernelOK, TaskOK, PcInv
    <3>5. PcInv'
      BY <2>1, <2>2, <2>26 DEF KWait, Handle, PcInv, TrapInv, TaskOK, KernelOK
    <3> QED BY <3>1, <3>2, <3>3, <3>4, <3>5 DEF TypeInv, TypeOK
  <2>27. ASSUME KExit PROVE TypeInv'
    <3>1. PipeOK' /\ TaskOK' /\ CallsOK' /\ DevInv'
      BY <2>1, <2>27 DEF KExit, Handle, PipeOK, TaskOK, CallsOK, DevInv
    <3>2. KernelOK'
      BY <2>1, <2>2, <2>27 DEF KExit, Handle, KernelOK
    <3>3. TrapInv'
      BY <2>1, <2>2, <2>27 DEF KExit, Handle, TrapInv, KernelOK, TaskOK, PcInv
    <3>4. PcInv'
      BY <2>1, <2>2, <2>27 DEF KExit, Handle, PcInv, TrapInv, TaskOK, KernelOK
    <3> QED BY <3>1, <3>2, <3>3, <3>4 DEF TypeInv, TypeOK
  <2>28. ASSUME KReadHalt PROVE TypeInv'
    <3>1. PipeOK' /\ TaskOK' /\ DevInv'
      BY <2>1, <2>28 DEF KReadHalt, Handle, PipeOK, TaskOK, CallsOK, DevInv
    <3>2. KernelOK'
      BY <2>1, <2>2, <2>28 DEF KReadHalt, Handle, KernelOK
    <3>3. CallsOK'
      <4>1. ret \in [Tasks -> Int]
        BY <2>1 DEF CallsOK
      <4>2. ret' \in [Tasks -> Int]
        BY <4>1, <2>28 DEF KReadHalt, Fail, EBUSY, EFAULT
      <4> QED BY <2>1, <2>28, <4>2 DEF KReadHalt, Handle, CallsOK
    <3>4. TrapInv'
      BY <2>1, <2>2, <2>28 DEF KReadHalt, Handle, TrapInv, KernelOK, TaskOK, PcInv
    <3>5. PcInv'
      BY <2>1, <2>2, <2>28 DEF KReadHalt, Handle, PcInv, TrapInv, TaskOK, KernelOK
    <3> QED BY <3>1, <3>2, <3>3, <3>4, <3>5 DEF TypeInv, TypeOK
  <2>29. ASSUME KReadError PROVE TypeInv'
    <3>1. TaskOK' /\ DevInv'
      BY <2>1, <2>29 DEF KReadError, Handle, PipeOK, TaskOK, CallsOK, DevInv
    <3>2. PipeOK'
      BY <2>1, <2>2, <2>29 DEF KReadError, Handle, PipeOK
    <3>3. KernelOK'
      BY <2>1, <2>2, <2>29 DEF KReadError, Handle, KernelOK
    <3>4. CallsOK'
      <4>1. ret \in [Tasks -> Int] /\ out \in Seq(Int) /\ EIO \in Int
        BY <2>1 DEF CallsOK, EIO
      <4>2. out' \in Seq(Int)
        BY <4>1, <2>29 DEF KReadError
      <4>3. ret' \in [Tasks -> Int]
        BY <4>1, <2>29 DEF KReadError, Fail
      <4> QED BY <2>1, <2>29, <4>2, <4>3 DEF KReadError, Handle, CallsOK
    <3>5. TrapInv'
      BY <2>1, <2>2, <2>29 DEF KReadError, Handle, TrapInv, KernelOK, TaskOK, PcInv
    <3>6. PcInv'
      BY <2>1, <2>2, <2>29 DEF KReadError, Handle, PcInv, TrapInv, TaskOK, KernelOK
    <3> QED BY <3>1, <3>2, <3>3, <3>4, <3>5, <3>6 DEF TypeInv, TypeOK
  <2>30. ASSUME KRead PROVE TypeInv'
    <3>a. current \in Tasks /\ trap.len \in Nat
      BY <2>1, <2>2, <2>30 DEF KRead, Handle, TrapInv
    <3>b. IntReader = "none"
      BY <2>1, <2>30 DEF KRead, DevInv, PipeOK
    <3>1. CallsOK'
      BY <2>1, <2>30 DEF KRead, Handle, CallsOK
    <3>2. PipeOK'
      BY <2>1, <2>30, <3>a DEF KRead, Handle, TakeReadEnd, PipeOK
    <3>3. TaskOK'
      <4>1. state' \in [Tasks -> {"READY", "WAITING"}]
        BY <2>1, <2>30, <3>a DEF KRead, HandOver, TaskOK, PipeOK
      <4>2. arg' \in [Tasks -> [src : Nat, len : Nat]]
        BY <2>1, <2>30, <3>a DEF KRead, TaskOK
      <4> QED BY <2>1, <2>30, <3>a, <4>1, <4>2 DEF KRead, Handle, TaskOK
    <3>4. KernelOK'
      BY <2>1, <2>2, <2>30 DEF KRead, Handle, KernelOK
    <3>5. DevInv'
      BY <2>1, <2>30, <3>a, <3>b DEF KRead, Handle, TakeReadEnd, DevInv
    <3>6. TrapInv'
      BY <2>1, <2>2, <2>30 DEF KRead, Handle, TrapInv, KernelOK, TaskOK, PcInv
    <3>7. PcInv'
      BY <2>1, <2>30, <3>a, <3>b DEF KRead, Handle, PcInv, TaskOK
    <3> QED BY <3>1, <3>2, <3>3, <3>4, <3>5, <3>6, <3>7 DEF TypeInv, TypeOK
  <2>31. ASSUME KWriteFail PROVE TypeInv'
    <3>1. PipeOK' /\ TaskOK' /\ DevInv'
      BY <2>1, <2>31 DEF KWriteFail, Handle, PipeOK, TaskOK, CallsOK, DevInv
    <3>2. KernelOK'
      BY <2>1, <2>2, <2>31 DEF KWriteFail, Handle, KernelOK
    <3>3. CallsOK'
      <4>1. ret \in [Tasks -> Int]
        BY <2>1 DEF CallsOK
      <4>2. ret' \in [Tasks -> Int]
        BY <4>1, <2>31 DEF KWriteFail, Fail, EBUSY, EFAULT
      <4> QED BY <2>1, <2>31, <4>2 DEF KWriteFail, Handle, CallsOK
    <3>4. TrapInv'
      BY <2>1, <2>2, <2>31 DEF KWriteFail, Handle, TrapInv, KernelOK, TaskOK, PcInv
    <3>5. PcInv'
      BY <2>1, <2>2, <2>31 DEF KWriteFail, Handle, PcInv, TrapInv, TaskOK, KernelOK
    <3> QED BY <3>1, <3>2, <3>3, <3>4, <3>5 DEF TypeInv, TypeOK
  <2>32. ASSUME KWrite PROVE TypeInv'
    <3>a. current \in Tasks /\ trap.len \in Nat /\ accepted \in Nat
      BY <2>1, <2>2, <2>32 DEF KWrite, Handle, TrapInv, CallsOK
    <3>b. accepted + trap.len \in Nat
      BY <3>a
    <3>1. PipeOK'
      BY <2>1, <2>32, <3>a DEF KWrite, Handle, TakeWriteEnd, PipeOK
    <3>2. TaskOK'
      <4>1. state' \in [Tasks -> {"READY", "WAITING"}]
        BY <2>1, <2>32, <3>a DEF KWrite, HandOver, TaskOK
      <4>2. arg' \in [Tasks -> [src : Nat, len : Nat]]
        BY <2>1, <2>32, <3>a DEF KWrite, TaskOK
      <4> QED BY <2>1, <2>32, <3>a, <4>1, <4>2 DEF KWrite, Handle, TaskOK
    <3>3. KernelOK'
      BY <2>1, <2>2, <2>32 DEF KWrite, Handle, KernelOK
    <3>4. CallsOK'
      BY <2>1, <2>32, <3>b DEF KWrite, Handle, CallsOK
    <3>5. DevInv'
      BY <2>1, <2>32, <3>a, <3>b DEF KWrite, Handle, TakeWriteEnd, DevInv, CallsOK
    <3>6. TrapInv'
      BY <2>1, <2>2, <2>32 DEF KWrite, Handle, TrapInv, KernelOK, TaskOK, PcInv
    <3>7. PcInv'
      BY <2>1, <2>32, <3>a DEF KWrite, Handle, PcInv, TaskOK
    <3> QED BY <3>1, <3>2, <3>3, <3>4, <3>5, <3>6, <3>7 DEF TypeInv, TypeOK
  <2>33. ASSUME KSched PROVE TypeInv'
    <3>a. current' \in Tasks \cup {Idle} /\ (current' \in Tasks => state[current'] = "READY")
      <4>1. current \in Tasks \cup {Idle}
        BY <2>1 DEF KernelOK
      <4>2. CASE current' = KSchedule(state, current)
        BY <4>1, <4>2, KScheduleChoice
      <4>3. CASE current' = current /\ current # Idle /\ state[current] = "READY"
        BY <4>1, <4>3
      <4> QED BY <2>33, <4>2, <4>3 DEF KSched
    <3>1. PipeOK' /\ TaskOK' /\ CallsOK' /\ DevInv'
      BY <2>1, <2>33 DEF KSched, NoTrap, PipeOK, TaskOK, CallsOK, DevInv
    <3>2. KernelOK'
      BY <2>1, <2>33, <3>a DEF KSched, NoTrap, KernelOK, TrapIds
    <3>3. TrapInv'
      BY <2>1, <2>33, <3>a DEF KSched, NoTrap, TrapInv
    <3>4. PcInv'
      <4>1. trap'.id = "none" /\ UNCHANGED <<pc, h, tail>>
        BY <2>33 DEF KSched, NoTrap
      <4>2. ASSUME NEW u \in Tasks, pc[u] \notin Resting PROVE current = u /\ current' = u /\ trap.id = "none"
        <5>1. current = u /\ trap.id \in {"none", "EXIT"}
          BY <2>1, <2>2, <4>2 DEF PcInv
        <5>2. trap.id = "none"
          BY <2>1, <2>33, <5>1 DEF KSched, TrapInv
        <5>3. state[current] = "READY" /\ current # Idle
          BY <2>1, <5>1, <5>2 DEF TrapInv
        <5>4. current' = current
          BY <2>33, <5>2, <5>3 DEF KSched
        <5> QED BY <5>1, <5>2, <5>4, Zenon
      <4> QED BY <2>1, <2>2, <4>1, <4>2 DEF PcInv
    <3> QED BY <3>1, <3>2, <3>3, <3>4 DEF TypeInv, TypeOK
  <2>34. ASSUME RxArrive PROVE TypeInv'
    <3>1. PipeOK' /\ TaskOK' /\ TrapInv' /\ PcInv'
      BY <2>1, <2>34 DEF RxArrive, PipeOK, TaskOK, KernelOK, TrapInv, PcInv
    <3>2. KernelOK'
      BY <2>1, <2>2, <2>34 DEF RxArrive, KernelOK
    <3>3. CallsOK'
      <4>1. accepted' \in Nat /\ accepted' > 0
        BY <2>1, <2>34 DEF RxArrive, CallsOK
      <4> QED BY <2>1, <2>34, <4>1 DEF RxArrive, CallsOK
    <3>4. DevInv'
      BY <2>1, <2>2, <2>34 DEF RxArrive, DevInv, PipeOK, CallsOK
    <3> QED BY <3>1, <3>2, <3>3, <3>4 DEF TypeInv, TypeOK
  <2>35. ASSUME DeviceReady PROVE TypeInv'
    <3>1. PipeOK' /\ TaskOK' /\ CallsOK' /\ TrapInv' /\ PcInv'
      BY <2>1, <2>35 DEF DeviceReady, PipeOK, TaskOK, KernelOK, CallsOK, TrapInv, PcInv
    <3>2. KernelOK'
      BY <2>1, <2>2, <2>35 DEF DeviceReady, KernelOK
    <3>3. DevInv'
      BY <2>1, <2>2, <2>35 DEF DeviceReady, DevInv, PipeOK, CallsOK
    <3> QED BY <3>1, <3>2, <3>3 DEF TypeInv, TypeOK
  <2>36. CASE UNCHANGED vars
    <3>1. PipeOK' /\ TaskOK'
      BY <2>1, <2>36 DEF vars, PipeOK, TaskOK
    <3>2. KernelOK' /\ CallsOK'
      BY <2>1, <2>36 DEF vars, KernelOK, CallsOK
    <3>3. DevInv' /\ TrapInv'
      BY <2>1, <2>36 DEF vars, DevInv, TrapInv
    <3>4. PcInv'
      BY <2>1, <2>36 DEF vars, PcInv
    <3> QED BY <3>1, <3>2, <3>3, <3>4 DEF TypeInv, TypeOK
  <2> QED
    BY <2>3, <2>4, <2>5, <2>6, <2>7, <2>8, <2>9, <2>10, <2>11, <2>12, <2>13,
       <2>14, <2>15, <2>16, <2>17, <2>18, <2>19, <2>20, <2>21, <2>22, <2>e, <2>23,
       <2>24, <2>25, <2>26, <2>27, <2>28, <2>29, <2>30, <2>31, <2>32, <2>33,
       <2>34, <2>35, <2>36
    DEF Next, Calls, URead, UWrite, Kernel, KIrq, KTrap
<1> QED BY <1>1, <1>2, PTL DEF Spec

\* What TypeInv says of a pipe that the kernel does not drain, fact by fact: the
\* types, where the tasks are, and who is ready.
LEMMA TaskFacts ==
    ASSUME TypeInv, IntReader = "none"
    PROVE  /\ head \in 0 .. Mask /\ tail \in 0 .. Mask /\ buf \in [0 .. Mask -> Byte]
           /\ rdtask \in Tasks \cup {NoTask} /\ wrtask \in Tasks \cup {NoTask}
           /\ nread \in Nat /\ nwritten \in Nat
           /\ state \in [Tasks -> {"READY", "WAITING"}]
           /\ arg \in [Tasks -> [src : Nat, len : Nat]]
           /\ \A t \in Tasks : arg[t].src \in Nat /\ arg[t].len \in Nat
           /\ pc \in [Tasks -> {"user"} \cup PcReader \cup PcWriter]
           /\ nleft \in [Tasks -> Nat] /\ src \in [Tasks -> Nat]
           /\ h \in 0 .. Mask /\ navail \in 0 .. Mask
           /\ current \in Tasks \cup {Idle}
           /\ trap.id \in TrapIds /\ trap.len \in Nat
           /\ accepted \in Nat /\ out \in Seq(Int)
           /\ asked \in [Tasks -> Nat] /\ ret \in [Tasks -> Int]
           /\ trap.id # "none" => phase # "user" /\ current \in Tasks
           /\ trap.id = "none" /\ current \in Tasks => state[current] = "READY"
           /\ trap.id \in {"READ", "WRITE", "YIELD"} /\ phase \in {"irq", "trap"}
                 => pc[current] = "user"
           /\ trap.id = "WAIT" => pc[current] \in {"r_head", "w_top"}
           /\ phase = "sched" => trap.id # "EXIT"
           /\ \A t \in Tasks :
                 /\ t # current => pc[t] \in Resting
                 /\ t = current /\ trap.id \notin {"none", "EXIT"} => pc[t] \in Resting
                 /\ t = current /\ trap.id = "none" /\ pc[t] = "r_rest" => h >= tail
<1>1. rdtask # IntTask
  BY DEF TypeInv, DevInv
<1>2. \A t \in Tasks : arg[t].src \in Nat /\ arg[t].len \in Nat
  BY FieldTypes DEF TypeInv
<1>3. trap.id \in TrapIds /\ trap.len \in Nat
  BY FieldTypes DEF TypeInv
<1>4. PipeOK /\ TaskOK /\ KernelOK /\ CallsOK /\ TrapInv /\ PcInv
  BY DEF TypeInv, TypeOK
<1> QED
  BY <1>1, <1>2, <1>3, <1>4 DEF PipeOK, TaskOK, KernelOK, CallsOK, TrapInv, PcInv
-----------------------------------------------------------------------------
(***************************************************************************)
(* The pipes that have an interrupt at one end.  The one that the kernel   *)
(* drains byte by byte into the transmitter delivers what the write calls  *)
(* handed over, in order, and calls return what was asked for.  From the   *)
(* one that the receiver fills while a task reads it, a reader never       *)
(* misses a byte unawares, nor gets one twice, whatever arrives between    *)
(* two instructions of read().                                             *)
(***************************************************************************)

-----------------------------------------------------------------------------
(***************************************************************************)
(* The pipe that the transmitter drains: taking a byte out of its ring.    *)
(***************************************************************************)

\* Taking the byte at tail out of a ring that is not empty.
LEMMA PopRing ==
    ASSUME head \in 0 .. Mask, tail \in 0 .. Mask, head # tail
    PROVE  /\ Wrap(head - Wrap(tail + 1) + Size) = Occupied - 1
           /\ \A k \in 0 .. Occupied - 2 : Wrap(Wrap(tail + 1) + k) = Wrap(tail + (k + 1))
           /\ Wrap(tail + 0) = tail
BY DEF Occupied, Wrap

-----------------------------------------------------------------------------
(***************************************************************************)
(* The two steps that touch the ring.                                      *)
(***************************************************************************)

\* A writer copies: the ring holds so many more of its bytes, and it owes so
\* many fewer.
LEMMA WFillStep ==
    ASSUME TypeInv, RingInv, OwnerInv, NEW t \in Tasks, WFill(t), TypeInv'
    PROVE  RingInv' /\ OwnerInv'
<1> DEFINE len == FillLen(t)
<1>1. /\ head \in 0 .. Mask /\ tail \in 0 .. Mask /\ navail \in 0 .. Mask
      /\ nleft \in [Tasks -> Nat] /\ src \in [Tasks -> Nat]
      /\ nleft[t] \in Nat /\ src[t] \in Nat /\ nwritten \in Nat
      /\ buf \in [0 .. Mask -> Byte] /\ out \in Seq(Int) /\ accepted \in Nat
      /\ pc \in [Tasks -> {"user"} \cup PcReader \cup PcWriter]
  BY DEF TypeInv, TypeOK, PipeOK, TaskOK, CallsOK
<1>2. /\ pc[t] = "w_fill" /\ wrtask = t /\ navail <= NumAvail
      /\ \A u \in Tasks : pc[u] \in PcWriter <=> u = t
  BY DEF WFill, Running, OwnerInv, PcWriter
<1>3. len \in Nat /\ head + len <= Size /\ len <= nleft[t] /\ len <= navail
  BY <1>1 DEF FillLen, MinOf
<1> HIDE DEF len
<1>4. /\ buf' = Filled(head, src[t], len) /\ head' = Wrap(head + len)
      /\ src' = [src EXCEPT ![t] = src[t] + len]
      /\ nleft' = [nleft EXCEPT ![t] = nleft[t] - len]
      /\ nwritten' = nwritten + len /\ navail' = navail - len
      /\ UNCHANGED <<tail, wrtask, out, accepted, asked, arg>>
      /\ pc' = [pc EXCEPT ![t] = CASE nleft[t] = len -> "w_done"
                                   [] nleft[t] # len /\ navail = len -> "w_check"
                                   [] OTHER -> "w_top"]
  BY DEF WFill, len, Goto, histVars, callVars
<1>5. src[t] = Len(out) + Occupied /\ accepted = src[t] + nleft[t] /\ nwritten + nleft[t] = asked[t]
  BY <1>1, <1>2 DEF OwnerInv, OwnerSrc, OwnerLeft
<1>6. Occupied \in 0 .. Mask /\ len <= NumAvail /\ Len(out) \in Nat
  <2>1. Occupied \in 0 .. Mask /\ NumAvail = Mask - Occupied
    BY <1>1, RingRange
  <2> QED BY <1>1, <1>2, <1>3, <2>1
<1>9. /\ Wrap(Wrap(head + len) - tail + Size) = Occupied + len
      /\ \A k \in 0 .. Occupied - 1 :
            /\ Wrap(tail + k) \in 0 .. Mask
            /\ ~(head <= Wrap(tail + k) /\ Wrap(tail + k) < head + len)
      /\ \A k \in Occupied .. Occupied + len - 1 : Wrap(tail + k) = head + (k - Occupied)
  BY <1>1, <1>3, <1>6, FillRing, Zenon
<1>10. Occupied' = Occupied + len
  BY <1>4, <1>9 DEF Occupied
<1>11. \A j \in 0 .. Mask :
          buf'[j] = IF head <= j /\ j < head + len THEN src[t] + (j - head) ELSE buf[j]
  BY <1>4 DEF Filled
<1>7. RingInv'
  <2>1. ASSUME NEW k \in 0 .. Occupied - 1 PROVE buf'[Wrap(tail + k)] = Len(out) + k
    <3>1. Wrap(tail + k) \in 0 .. Mask /\ ~(head <= Wrap(tail + k) /\ Wrap(tail + k) < head + len)
      BY <1>9
    <3>2. buf'[Wrap(tail + k)] = buf[Wrap(tail + k)]
      BY <1>4, <3>1 DEF Filled
    <3> QED BY <3>2 DEF RingInv
  <2>2. ASSUME NEW k \in Occupied .. Occupied + len - 1 PROVE buf'[Wrap(tail + k)] = Len(out) + k
    <3>1. Wrap(tail + k) = head + (k - Occupied)
      BY <1>9
    <3>3. head + (k - Occupied) \in 0 .. Mask
      BY <1>1, <1>3, <1>6
    <3>2. buf'[Wrap(tail + k)] = src[t] + (k - Occupied)
      BY <1>1, <1>3, <1>6, <1>11, <3>1, <3>3
    <3> QED BY <1>5, <1>6, <3>2
  <2>3. \A k \in 0 .. Occupied' - 1 : k \in 0 .. Occupied - 1 \/ k \in Occupied .. Occupied + len - 1
    BY <1>3, <1>6, <1>10
  <2>4. \A k \in 0 .. Occupied' - 1 : buf'[Wrap(tail + k)] = Len(out) + k
    BY <2>1, <2>2, <2>3
  <2> QED BY <1>4, <2>4 DEF RingInv, Wrap
<1>8. OwnerInv'
  <2>1. /\ src'[t] = src[t] + len /\ nleft'[t] = nleft[t] - len
        /\ pc'[t] \in {"w_done", "w_check", "w_top"}
        /\ pc'[t] = "w_done" => nleft[t] = len
        /\ \A u \in Tasks : u # t => pc'[u] = pc[u] /\ nleft'[u] = nleft[u]
    BY <1>1, <1>4
  <2>2. \A u \in Tasks : /\ pc'[u] \in PcWriter <=> wrtask' = u
                         /\ pc'[u] # "w_fill"
                         /\ pc'[u] = "w_done" => nleft'[u] = 0
    <3>1. ASSUME NEW u \in Tasks, u # t
          PROVE  pc'[u] \notin PcWriter /\ wrtask' # u
      BY <1>2, <1>4, <2>1, <3>1
    <3>2. pc'[t] \in PcWriter /\ wrtask' = t /\ pc'[t] # "w_fill"
      BY <1>2, <1>4, <2>1 DEF PcWriter
    <3>3. pc'[t] = "w_done" => nleft'[t] = 0
      BY <1>1, <1>3, <2>1
    <3> QED BY <3>1, <3>2, <3>3 DEF PcWriter
  <2>3. wrtask' = t /\ t # NoTask
    BY <1>2, <1>4
  <2>4. OwnerSrc' = src[t] + len /\ OwnerLeft' = nleft[t] - len
    BY <2>1, <2>3 DEF OwnerSrc, OwnerLeft
  <2>5. /\ OwnerSrc' = Len(out') + Occupied' /\ accepted' = OwnerSrc' + OwnerLeft'
        /\ nwritten' + OwnerLeft' = asked'[t]
    <3>1. out' = out /\ accepted' = accepted /\ asked'[t] = asked[t] /\ nwritten' = nwritten + len
      BY <1>4
    <3>2. OwnerSrc' = Len(out) + (Occupied + len)
      BY <1>1, <1>3, <1>5, <1>6, <2>4
    <3>3. accepted = OwnerSrc' + OwnerLeft'
      <4>1. src[t] \in Nat /\ nleft[t] \in Nat /\ len \in Nat
        BY <1>1, <1>3
      <4>2. src[t] + nleft[t] = (src[t] + len) + (nleft[t] - len)
        BY <4>1
      <4> QED BY <1>5, <2>4, <4>2
    <3>4. (nwritten + len) + OwnerLeft' = asked[t]
      BY <1>1, <1>3, <1>5, <2>4
    <3> QED BY <1>10, <3>1, <3>2, <3>3, <3>4
  <2> QED BY <2>2, <2>3, <2>5 DEF OwnerInv
<1> QED BY <1>7, <1>8

\* The transmitter takes a byte: the next one in order.
LEMMA PopStep ==
    ASSUME TypeInv, RingInv, KPop(1)
    PROVE  /\ RingInv'
           /\ Len(out') = Len(out) + 1
           /\ Occupied' = Occupied - 1
<1>1. /\ head \in 0 .. Mask /\ tail \in 0 .. Mask /\ buf \in [0 .. Mask -> Byte]
      /\ out \in Seq(Int) /\ Len(out) \in Nat
  BY DEF TypeInv, TypeOK, PipeOK, CallsOK
<1> DEFINE popped == [k \in 1 .. 1 |-> buf[Wrap(tail + k - 1)]]
<1>2. /\ head # tail /\ head' = head /\ buf' = buf
      /\ tail' = Wrap(tail + 1) /\ out' = out \o popped
  BY DEF KPop
<1>3. Occupied' = Occupied - 1 /\ Occupied \in 0 .. Mask /\ Occupied > 0
  BY <1>1, <1>2, PopRing, RingRange DEF Occupied
<1>4. popped \in Seq(Int) /\ Len(popped) = 1 /\ popped[1] = Len(out)
  <2>1. popped \in Seq(Int)
    BY <1>1, PoppedSeq
  <2>2. buf[Wrap(tail + 0)] = Len(out) + 0
    BY <1>3 DEF RingInv
  <2>3. popped[1] = buf[Wrap(tail + 1 - 1)]
    OBVIOUS
  <2> QED BY <1>1, <2>1, <2>2, <2>3
<1> HIDE DEF popped
<1>5. /\ Len(out') = Len(out) + 1
      /\ \A i \in 1 .. Len(out) + 1 : out'[i] = IF i <= Len(out) THEN out[i] ELSE popped[i - Len(out)]
  BY <1>1, <1>2, <1>4, ConcatProperties, ZenonT(60)
<1>6. ASSUME NEW i \in 1 .. Len(out') PROVE out'[i] = i - 1
  <2>1. CASE i <= Len(out)
    BY <1>1, <1>5, <2>1 DEF RingInv
  <2>2. CASE i = Len(out) + 1
    BY <1>1, <1>4, <1>5, <2>2, SMTT(30)
  <2> QED BY <1>1, <1>5, <2>1, <2>2
<1>7. ASSUME NEW k \in 0 .. Occupied' - 1 PROVE buf'[Wrap(tail' + k)] = Len(out') + k
  <2>1. Wrap(Wrap(tail + 1) + k) = Wrap(tail + (k + 1)) /\ k + 1 \in 0 .. Occupied - 1
    BY <1>1, <1>2, <1>3, PopRing
  <2>2. buf[Wrap(tail + (k + 1))] = Len(out) + (k + 1)
    BY <2>1 DEF RingInv
  <2> QED BY <1>1, <1>2, <1>5, <2>1, <2>2
<1>8. RingInv'
  BY <1>6, <1>7 DEF RingInv, Wrap
<1> QED BY <1>3, <1>5, <1>8

-----------------------------------------------------------------------------
(***************************************************************************)
(* Its inductive invariant.                                                *)
(***************************************************************************)

\* Steps that leave the ring alone keep what is known of it.
LEMMA RingFrame ==
    ASSUME RingInv, UNCHANGED <<head, tail, buf, out>>
    PROVE  RingInv' /\ Occupied' = Occupied /\ NumAvail' = NumAvail
BY DEF RingInv, Occupied, NumAvail, Wrap

\* OwnerInv after a step, from its parts: for each task, and for the numbers of
\* the owner's call.
LEMMA OwnerIntro ==
    ASSUME \A t \in Tasks : /\ pc'[t] \in PcWriter <=> wrtask' = t
                            /\ pc'[t] = "w_fill" => navail' <= NumAvail'
                            /\ pc'[t] = "w_done" => nleft'[t] = 0,
           \/ wrtask' = NoTask /\ accepted' = Len(out') + Occupied'
           \/ /\ wrtask' # NoTask
              /\ OwnerSrc' = Len(out') + Occupied'
              /\ accepted' = OwnerSrc' + OwnerLeft'
              /\ nwritten' + OwnerLeft' = asked'[wrtask']
    PROVE  OwnerInv'
BY Zenon DEF OwnerInv

\* So do steps that leave the owner's call alone, whichever task makes them.
LEMMA OwnerFrame ==
    ASSUME TypeInv, OwnerInv,
           Occupied' = Occupied, NumAvail' = NumAvail,
           UNCHANGED <<out, wrtask, accepted, nwritten, navail, src, nleft>>,
           wrtask # NoTask => asked'[wrtask] = asked[wrtask],
           \A t \in Tasks :
              \/ pc'[t] = pc[t] /\ (pc[t] = "w_entry" => arg'[t] = arg[t])
              \/ pc[t] \in {"w_top", "w_check"} /\ pc'[t] \in {"w_top", "w_avail"}
    PROVE  OwnerInv'
<1>1. wrtask \in Tasks \cup {NoTask}
  BY DEF TypeInv, TypeOK, PipeOK
<1>2. \A t \in Tasks : /\ pc'[t] \in PcWriter <=> wrtask' = t
                       /\ pc'[t] = "w_fill" => navail' <= NumAvail'
                       /\ pc'[t] = "w_done" => nleft'[t] = 0
  BY DEF OwnerInv, PcWriter
<1>3. CASE wrtask = NoTask
  <2>1. wrtask' = NoTask /\ accepted' = Len(out') + Occupied'
    BY <1>3 DEF OwnerInv
  <2> QED BY <1>2, <2>1, OwnerIntro
<1>4. CASE wrtask \in Tasks
  <2>1. OwnerSrc' = OwnerSrc /\ OwnerLeft' = OwnerLeft
    BY <1>4 DEF OwnerSrc, OwnerLeft
  <2>2. wrtask # NoTask
    BY <1>4
  <2>3. /\ OwnerSrc' = Len(out') + Occupied' /\ accepted' = OwnerSrc' + OwnerLeft'
        /\ nwritten' + OwnerLeft' = asked'[wrtask']
    BY <2>1, <2>2 DEF OwnerInv
  <2>4. wrtask' # NoTask
    BY <2>2
  <2> QED BY <1>2, <2>3, <2>4, OwnerIntro
<1> QED BY <1>1, <1>3, <1>4

\* The inductive invariant of a pipe that the transmitter drains.
THEOREM TxInvariant ==
    ASSUME IntReader = "tx"
    PROVE  Spec => [](TypeInv /\ TxInv)
<1> USE DEF PcReader, PcWriter
<1>1. Init => RingInv /\ OwnerInv /\ CallInv
  <2> SUFFICES ASSUME Init PROVE RingInv /\ OwnerInv /\ CallInv
    OBVIOUS
  <2>1. Occupied = 0
    BY DEF Init, Occupied, Wrap
  <2>2. RingInv
    BY <2>1 DEF Init, RingInv
  <2>3. OwnerInv
    BY <2>1 DEF Init, OwnerInv
  <2>4. CallInv
    BY DEF Init, CallInv, NoTrap
  <2> QED BY <2>2, <2>3, <2>4
<1>2. TypeInv /\ TypeInv' /\ RingInv /\ OwnerInv /\ CallInv /\ [Next]_vars
         => RingInv' /\ OwnerInv' /\ CallInv'
  <2> SUFFICES ASSUME TypeInv, TypeInv', RingInv, OwnerInv, CallInv, [Next]_vars
               PROVE  RingInv' /\ OwnerInv' /\ CallInv'
    OBVIOUS
  <2>1. /\ pc \in [Tasks -> {"user"} \cup PcReader \cup PcWriter]
        /\ asked \in [Tasks -> Nat] /\ ret \in [Tasks -> Int]
        /\ arg \in [Tasks -> [src : Nat, len : Nat]]
        /\ nleft \in [Tasks -> Nat] /\ src \in [Tasks -> Nat]
        /\ Len(out) \in Nat /\ accepted \in Nat /\ nwritten \in Nat
        /\ rdtask = IntTask /\ ~IntWriter
        /\ \A t \in Tasks : pc[t] \notin PcReader
        /\ trap.id # "none" => phase # "user" /\ current \in Tasks
        /\ trap.id \in {"READ", "WRITE", "YIELD"} /\ phase \in {"irq", "trap"}
              => pc[current] = "user"
        /\ trap.id = "WAIT" => pc[current] = "w_top"
    <3>1. \A t \in Tasks : pc[t] \notin PcReader
      BY DEF TypeInv, PcInv
    <3>2. rdtask = IntTask /\ ~IntWriter
      BY DEF TypeInv, DevInv
    <3>3. trap.id = "WAIT" => pc[current] = "w_top"
      BY <3>1 DEF TypeInv, TrapInv
    <3>4. /\ pc \in [Tasks -> {"user"} \cup PcReader \cup PcWriter]
          /\ asked \in [Tasks -> Nat] /\ ret \in [Tasks -> Int]
          /\ arg \in [Tasks -> [src : Nat, len : Nat]]
          /\ nleft \in [Tasks -> Nat] /\ src \in [Tasks -> Nat]
          /\ out \in Seq(Int) /\ accepted \in Nat /\ nwritten \in Nat
      BY DEF TypeInv, TypeOK, PipeOK, TaskOK, CallsOK
    <3>5. Len(out) \in Nat
      BY <3>4
    <3>6. /\ trap.id # "none" => phase # "user" /\ current \in Tasks
          /\ trap.id \in {"READ", "WRITE", "YIELD"} /\ phase \in {"irq", "trap"}
                => pc[current] = "user"
      BY DEF TypeInv, TrapInv
    <3> QED BY <3>1, <3>2, <3>3, <3>4, <3>5, <3>6
  <2> USE DEF pipeVars, taskVars, localVars, kernelVars, devVars, histVars, callVars,
              Running, Goto, Trap, NoTrapYet
  <2>2. ASSUME NEW t \in Tasks, NEW m \in ReadLens, Read(t, m)
        PROVE  RingInv' /\ OwnerInv' /\ CallInv'
    <3>1. RingInv' /\ Occupied' = Occupied /\ NumAvail' = NumAvail
      BY <2>2, RingFrame DEF Read
    <3>2. OwnerInv'
      <4>1. /\ UNCHANGED <<out, wrtask, accepted, nwritten, navail, src, nleft, pc, arg>>
            /\ pc[t] = "user" /\ asked' = [asked EXCEPT ![t] = m]
        BY <2>2 DEF Read
      <4>2. wrtask # t
        BY <4>1 DEF OwnerInv
      <4>3. wrtask # NoTask => asked'[wrtask] = asked[wrtask]
        BY <2>1, <4>1, <4>2
      <4> QED BY <3>1, <4>1, <4>3, OwnerFrame
    <3>3. CallInv'
      BY <2>1, <2>2 DEF Read, CallInv
    <3> QED BY <3>1, <3>2, <3>3
  <2>3. ASSUME NEW t \in Tasks, NEW m \in WriteLens, Write(t, m)
        PROVE  RingInv' /\ OwnerInv' /\ CallInv'
    <3>1. RingInv' /\ Occupied' = Occupied /\ NumAvail' = NumAvail
      BY <2>3, RingFrame DEF Write
    <3>2. OwnerInv'
      <4>1. /\ UNCHANGED <<out, wrtask, accepted, nwritten, navail, src, nleft, pc, arg>>
            /\ pc[t] = "user" /\ asked' = [asked EXCEPT ![t] = m]
        BY <2>3 DEF Write
      <4>2. wrtask # t
        BY <4>1 DEF OwnerInv
      <4>3. wrtask # NoTask => asked'[wrtask] = asked[wrtask]
        BY <2>1, <4>1, <4>2
      <4> QED BY <3>1, <4>1, <4>3, OwnerFrame
    <3>3. CallInv'
      BY <2>1, <2>3 DEF Write, CallInv
    <3> QED BY <3>1, <3>2, <3>3
  <2>4. ASSUME NEW t \in Tasks, Yield(t)
        PROVE  RingInv' /\ OwnerInv' /\ CallInv'
    <3>1. RingInv' /\ Occupied' = Occupied /\ NumAvail' = NumAvail
      BY <2>4, RingFrame DEF Yield
    <3>2. OwnerInv'
      BY <2>1, <2>4, <3>1, OwnerFrame DEF Yield
    <3>3. CallInv'
      BY <2>1, <2>4 DEF Yield, CallInv
    <3> QED BY <3>1, <3>2, <3>3
  <2>5. ASSUME NEW t \in Tasks, URead(t)
        PROVE  RingInv' /\ OwnerInv' /\ CallInv'
    <3>1. pc[t] \in PcReader
      BY <2>5 DEF URead, REntry, RHead, RWrap, RRest, RDirect, RCheck, RDone
    <3> QED BY <2>1, <3>1
  <2>6. ASSUME NEW t \in Tasks, WEntry(t)
        PROVE  RingInv' /\ OwnerInv' /\ CallInv'
    <3>1. RingInv' /\ Occupied' = Occupied /\ NumAvail' = NumAvail
      BY <2>6, RingFrame DEF WEntry
    <3>2. wrtask = t /\ pc[t] = "w_entry" /\ wrtask' = t /\ pc'[t] = "w_top"
      BY <2>1, <2>6 DEF WEntry, OwnerInv
    <3>3. OwnerSrc' = OwnerSrc /\ OwnerLeft' = OwnerLeft
      BY <2>1, <2>6, <3>2 DEF WEntry, OwnerSrc, OwnerLeft
    <3>4. \A u \in Tasks : u # t => pc'[u] = pc[u] /\ nleft'[u] = nleft[u] /\ pc[u] \notin PcWriter
      BY <2>1, <2>6, <3>2 DEF WEntry, OwnerInv
    <3>5. OwnerInv'
      <4>1. /\ UNCHANGED <<out, wrtask, accepted, nwritten, navail, asked>> /\ wrtask' # NoTask
        BY <2>6, <3>2 DEF WEntry
      <4>2. /\ OwnerSrc' = Len(out') + Occupied' /\ accepted' = OwnerSrc' + OwnerLeft'
            /\ nwritten' + OwnerLeft' = asked'[wrtask']
        BY <3>1, <3>3, <4>1 DEF OwnerInv
      <4>3. \A u \in Tasks : /\ pc'[u] \in PcWriter <=> wrtask' = u
                             /\ pc'[u] \notin {"w_fill", "w_done"}
        BY <3>2, <3>4
      <4> QED BY <4>1, <4>2, <4>3, OwnerIntro
    <3>6. CallInv'
      BY <2>1, <2>6 DEF WEntry, CallInv
    <3> QED BY <3>1, <3>5, <3>6
  <2>7. ASSUME NEW t \in Tasks, WDirect(t)
        PROVE  RingInv' /\ OwnerInv' /\ CallInv'
    <3>1. /\ pc[t] = "w_top" /\ pc' = [pc EXCEPT ![t] = "w_avail"]
          /\ UNCHANGED <<head, tail, buf, out, wrtask, accepted, nwritten, navail, src, nleft,
                         arg, asked, ret, current, phase, trap>>
      BY <2>1, <2>7 DEF WDirect
    <3>2. RingInv' /\ Occupied' = Occupied /\ NumAvail' = NumAvail
      BY <3>1, RingFrame
    <3>3. OwnerInv'
      BY <2>1, <3>1, <3>2, OwnerFrame
    <3>4. CallInv'
      BY <2>1, <3>1 DEF CallInv
    <3> QED BY <3>2, <3>3, <3>4
  <2>8. ASSUME NEW t \in Tasks, WAvail(t)
        PROVE  RingInv' /\ OwnerInv' /\ CallInv'
    <3>1. RingInv' /\ Occupied' = Occupied /\ NumAvail' = NumAvail
      BY <2>8, RingFrame DEF WAvail
    <3>2. wrtask = t /\ pc[t] = "w_avail" /\ wrtask' = t /\ pc'[t] = "w_fill" /\ navail' = NumAvail
      BY <2>1, <2>8 DEF WAvail, OwnerInv
    <3>3. OwnerSrc' = OwnerSrc /\ OwnerLeft' = OwnerLeft
      BY <2>1, <2>8, <3>2 DEF WAvail, OwnerSrc, OwnerLeft
    <3>4. \A u \in Tasks : u # t => pc'[u] = pc[u] /\ nleft'[u] = nleft[u] /\ pc[u] \notin PcWriter
      BY <2>1, <2>8, <3>2 DEF WAvail, OwnerInv
    <3>5. NumAvail' \in Int
      BY RingRange, <3>1 DEF TypeInv, TypeOK, PipeOK
    <3>6. OwnerInv'
      <4>1. /\ UNCHANGED <<out, wrtask, accepted, nwritten, asked>> /\ wrtask' # NoTask
        BY <2>8, <3>2 DEF WAvail
      <4>2. /\ OwnerSrc' = Len(out') + Occupied' /\ accepted' = OwnerSrc' + OwnerLeft'
            /\ nwritten' + OwnerLeft' = asked'[wrtask']
        BY <3>1, <3>3, <4>1 DEF OwnerInv
      <4>3. \A u \in Tasks : /\ pc'[u] \in PcWriter <=> wrtask' = u
                             /\ pc'[u] # "w_done"
        BY <3>2, <3>4
      <4>4. navail' <= NumAvail'
        BY <3>1, <3>2, <3>5
      <4> QED BY <4>1, <4>2, <4>3, <4>4, OwnerIntro
    <3>7. CallInv'
      BY <2>1, <2>8 DEF WAvail, CallInv
    <3> QED BY <3>1, <3>6, <3>7
  <2>9. ASSUME NEW t \in Tasks, WFill(t)
        PROVE  RingInv' /\ OwnerInv' /\ CallInv'
    <3>1. RingInv' /\ OwnerInv'
      BY <2>9, WFillStep
    <3>2. /\ \E l \in {"w_done", "w_check", "w_top"} : pc' = [pc EXCEPT ![t] = l]
          /\ pc[t] = "w_fill"
          /\ UNCHANGED <<accepted, asked, ret, current, phase, trap>>
      BY <2>9 DEF WFill
    <3>3. CallInv'
      BY <2>1, <3>2 DEF CallInv
    <3> QED BY <3>1, <3>3
  <2>10. ASSUME NEW t \in Tasks, WCheck(t)
        PROVE  RingInv' /\ OwnerInv' /\ CallInv'
    <3>1. /\ pc[t] = "w_check" /\ pc' = [pc EXCEPT ![t] = "w_top"]
          /\ UNCHANGED <<head, tail, buf, out, wrtask, accepted, nwritten, navail, src, nleft,
                         arg, asked, ret, current>>
          /\ UNCHANGED <<phase, trap>> \/ trap'.id = "WAIT"
          /\ phase = "user"
      <4>1. /\ pc[t] = "w_check" /\ pc' = [pc EXCEPT ![t] = "w_top"] /\ phase = "user"
            /\ UNCHANGED <<head, tail, buf, out, wrtask, accepted, nwritten, navail, src, nleft,
                           arg, asked, ret>>
        BY <2>10 DEF WCheck
      <4>2. /\ current' = current
            /\ UNCHANGED <<phase, trap>> \/ trap' = [id |-> "WAIT", len |-> 0]
        BY <2>10 DEF WCheck
      <4>3. [id |-> "WAIT", len |-> 0].id = "WAIT"
        OBVIOUS
      <4> QED BY <4>1, <4>2, <4>3
    <3>2. RingInv' /\ Occupied' = Occupied /\ NumAvail' = NumAvail
      BY <3>1, RingFrame
    <3>3. OwnerInv'
      BY <2>1, <3>1, <3>2, OwnerFrame
    <3>4. CallInv'
      <4>1. \A u \in Tasks : pc'[u] = "user" => pc[u] = "user"
        BY <2>1, <3>1
      <4>2. \A u \in Tasks : pc'[u] = "user" /\ ret'[u] >= 0 => ret'[u] = asked'[u]
        BY <3>1, <4>1 DEF CallInv
      <4>3. trap'.id = "WRITE" => phase' = "user"
        BY <3>1
      <4> QED BY <4>2, <4>3 DEF CallInv
    <3> QED BY <3>2, <3>3, <3>4
  <2>11. ASSUME NEW t \in Tasks, WDone(t)
        PROVE  RingInv' /\ OwnerInv' /\ CallInv'
    <3>1. RingInv' /\ Occupied' = Occupied /\ NumAvail' = NumAvail
      BY <2>11, RingFrame DEF WDone
    <3>2. wrtask = t /\ pc[t] = "w_done" /\ wrtask' = NoTask /\ pc'[t] = "user" /\ nleft[t] = 0
      BY <2>1, <2>11 DEF WDone, OwnerInv
    <3>3. accepted = Len(out) + Occupied /\ nwritten = asked[t]
      <4>1. OwnerLeft = 0 /\ OwnerSrc = src[t] /\ src[t] \in Nat /\ wrtask # NoTask
        BY <2>1, <3>2 DEF OwnerSrc, OwnerLeft
      <4>2. src[t] = Len(out) + Occupied /\ accepted = src[t] + 0 /\ nwritten + 0 = asked[t]
        BY <3>2, <4>1 DEF OwnerInv
      <4> QED BY <2>1, <4>1, <4>2
    <3>4. \A u \in Tasks : u # t => pc'[u] = pc[u] /\ pc[u] \notin PcWriter /\ ret'[u] = ret[u]
      BY <2>1, <2>11, <3>2 DEF WDone, OwnerInv
    <3>5. OwnerInv'
      <4>1. /\ UNCHANGED <<out, accepted>>
        BY <2>11 DEF WDone
      <4>2. wrtask' = NoTask /\ accepted' = Len(out') + Occupied'
        BY <3>1, <3>2, <3>3, <4>1
      <4>3. \A u \in Tasks : pc'[u] \notin PcWriter /\ wrtask' # u
        BY <3>2, <3>4
      <4> QED BY <4>2, <4>3, OwnerIntro
    <3>6. ret'[t] = asked[t]
      BY <2>1, <2>11, <3>3 DEF WDone
    <3>7. CallInv'
      <4>1. UNCHANGED <<trap, phase, asked>> /\ phase = "user"
        BY <2>11 DEF WDone
      <4>2. ASSUME NEW u \in Tasks, pc'[u] = "user", ret'[u] >= 0
            PROVE  ret'[u] = asked'[u]
        <5>1. CASE u = t
          BY <3>6, <4>1, <5>1
        <5>2. CASE u # t
          BY <3>4, <4>1, <4>2, <5>2 DEF CallInv
        <5> QED BY <5>1, <5>2
      <4> QED BY <4>1, <4>2 DEF CallInv
    <3> QED BY <3>1, <3>5, <3>7
  <2>12. ASSUME Interrupt
        PROVE  RingInv' /\ OwnerInv' /\ CallInv'
    <3>1. RingInv' /\ Occupied' = Occupied /\ NumAvail' = NumAvail
      BY <2>12, RingFrame DEF Interrupt, NoTrap
    <3>2. OwnerInv'
      BY <2>1, <2>12, <3>1, OwnerFrame DEF Interrupt, NoTrap
    <3>3. CallInv'
      BY <2>1, <2>12 DEF Interrupt, NoTrap, CallInv
    <3> QED BY <3>1, <3>2, <3>3
  <2>13. ASSUME NEW active \in BOOLEAN, KIrqIdle(active)
        PROVE  RingInv' /\ OwnerInv' /\ CallInv'
    <3>1. RingInv' /\ Occupied' = Occupied /\ NumAvail' = NumAvail
      BY <2>13, RingFrame DEF KIrqIdle, Served
    <3>2. OwnerInv'
      BY <2>1, <2>13, <3>1, OwnerFrame DEF KIrqIdle, Served
    <3>3. CallInv'
      BY <2>1, <2>13 DEF KIrqIdle, Served, CallInv
    <3> QED BY <3>1, <3>2, <3>3
  <2>14. ASSUME NEW active \in BOOLEAN, KIrqTx(active)
        PROVE  RingInv' /\ OwnerInv' /\ CallInv'
    <3>1. /\ UNCHANGED <<current, trap, arg, pc, nleft, src, navail, nwritten, wrtask, accepted, asked, ret>>
          /\ phase = "irq" /\ phase' = "trap"
      BY <2>14 DEF KIrqTx, Served
    <3>2. CallInv'
      BY <2>1, <3>1 DEF CallInv
    <3>3. CASE UNCHANGED <<head, tail, buf, out>>
      <4>1. RingInv' /\ Occupied' = Occupied /\ NumAvail' = NumAvail
        BY <3>3, RingFrame
      <4>2. OwnerInv'
        BY <2>1, <3>1, <3>3, <4>1, OwnerFrame
      <4> QED BY <3>2, <4>1, <4>2
    <3>4. CASE KPop(1)
      <4>1. RingInv' /\ Len(out') = Len(out) + 1 /\ Occupied' = Occupied - 1
        BY <3>4, PopStep
      <4>2. Occupied \in Int /\ NumAvail \in Int /\ NumAvail' \in Int /\ NumAvail' = NumAvail + 1
        <5>1. Occupied \in 0 .. Mask /\ NumAvail = Mask - Occupied
          BY RingRange DEF TypeInv, TypeOK, PipeOK
        <5>2. head' \in 0 .. Mask /\ tail' \in 0 .. Mask
          BY DEF TypeInv, TypeOK, PipeOK
        <5>3. \A hd, tl \in 0 .. Mask :
                 Wrap(tl - hd - 1 + Size) = Mask - Wrap(hd - tl + Size)
          BY DEF Wrap
        <5>4. NumAvail' = Wrap(tail' - head' - 1 + Size) /\ Occupied' = Wrap(head' - tail' + Size)
          BY DEF NumAvail, Occupied, Wrap
        <5>5. NumAvail' = Mask - Occupied'
          BY <5>2, <5>3, <5>4
        <5> QED BY <4>1, <5>1, <5>5
      <4>3. navail \in Int
        BY DEF TypeInv, TypeOK, TaskOK
      <4>4. OwnerSrc' = OwnerSrc /\ OwnerLeft' = OwnerLeft
        BY <3>1 DEF OwnerSrc, OwnerLeft
      <4>5. Len(out') + Occupied' = Len(out) + Occupied
        BY <2>1, <4>1, <4>2
      <4>6. navail <= NumAvail => navail' <= NumAvail'
        BY <3>1, <4>2, <4>3
      <4>7. OwnerInv'
        BY <3>1, <4>4, <4>5, <4>6 DEF OwnerInv
      <4> QED BY <3>2, <4>1, <4>7
    <3> QED BY <2>14, <3>3, <3>4 DEF KIrqTx
  <2>15. ASSUME KIrqEcho
        PROVE  RingInv' /\ OwnerInv' /\ CallInv'
    <3>1. RingInv' /\ Occupied' = Occupied /\ NumAvail' = NumAvail
      BY <2>15, RingFrame DEF KIrqEcho, Served
    <3>2. OwnerInv'
      BY <2>1, <2>15, <3>1, OwnerFrame DEF KIrqEcho, Served
    <3>3. CallInv'
      BY <2>1, <2>15 DEF KIrqEcho, Served, CallInv
    <3> QED BY <3>1, <3>2, <3>3
  <2>16. ASSUME KIrqRx \/ KIrqAudio \/ KStartAudio
        PROVE  RingInv' /\ OwnerInv' /\ CallInv'
    BY <2>1, <2>16 DEF KIrqRx, KIrqAudio, KStartAudio
  <2>17. ASSUME KNoTrap
        PROVE  RingInv' /\ OwnerInv' /\ CallInv'
    <3>1. RingInv' /\ Occupied' = Occupied /\ NumAvail' = NumAvail
      BY <2>17, RingFrame DEF KNoTrap, Handle
    <3>2. OwnerInv'
      BY <2>1, <2>17, <3>1, OwnerFrame DEF KNoTrap, Handle
    <3>3. CallInv'
      BY <2>1, <2>17 DEF KNoTrap, Handle, CallInv, Handle
    <3> QED BY <3>1, <3>2, <3>3
  <2>18. ASSUME KWait
        PROVE  RingInv' /\ OwnerInv' /\ CallInv'
    <3>1. RingInv' /\ Occupied' = Occupied /\ NumAvail' = NumAvail
      BY <2>18, RingFrame DEF KWait, Handle
    <3>2. OwnerInv'
      BY <2>1, <2>18, <3>1, OwnerFrame DEF KWait, Handle
    <3>3. CallInv'
      BY <2>1, <2>18 DEF KWait, Handle, CallInv
    <3> QED BY <3>1, <3>2, <3>3
  <2>19. ASSUME KExit
        PROVE  RingInv' /\ OwnerInv' /\ CallInv'
    <3>1. RingInv' /\ Occupied' = Occupied /\ NumAvail' = NumAvail
      BY <2>19, RingFrame DEF KExit, Handle
    <3>2. OwnerInv'
      BY <2>1, <2>19, <3>1, OwnerFrame DEF KExit, Handle
    <3>3. CallInv'
      BY <2>1, <2>19 DEF KExit, Handle, CallInv
    <3> QED BY <3>1, <3>2, <3>3
  <2>20. ASSUME KReadHalt
        PROVE  RingInv' /\ OwnerInv' /\ CallInv'
    <3>1. RingInv' /\ Occupied' = Occupied /\ NumAvail' = NumAvail
      BY <2>20, RingFrame DEF KReadHalt, Handle, Fail, EBUSY, EFAULT
    <3>2. OwnerInv'
      BY <2>1, <2>20, <3>1, OwnerFrame DEF KReadHalt, Handle, Fail, EBUSY, EFAULT
    <3>3. CallInv'
      <4>1. \E e \in Int : e < 0 /\ ret' = [ret EXCEPT ![current] = e]
        BY <2>20 DEF KReadHalt, Fail, EBUSY, EFAULT
      <4>2. /\ UNCHANGED <<pc, asked, current, trap>>
            /\ phase = "trap" /\ phase' \notin {"irq", "trap"}
            /\ trap.id \in {"READ", "WRITE"} /\ current \in Tasks
        BY <2>1, <2>20 DEF KReadHalt, Handle
      <4>3. \A u \in Tasks : IF u = current THEN ret'[u] < 0 ELSE ret'[u] = ret[u]
        BY <2>1, <4>1, <4>2
      <4>4. \A u \in Tasks : ret'[u] \in Int
        BY DEF TypeInv, TypeOK, CallsOK
      <4>5. \A u \in Tasks : pc'[u] = "user" /\ ret'[u] >= 0 => ret'[u] = asked'[u]
        BY <4>2, <4>3, <4>4 DEF CallInv
      <4> QED BY <4>2, <4>5 DEF CallInv
    <3> QED BY <3>1, <3>2, <3>3
  <2>21. ASSUME KReadError \/ KRead
        PROVE  RingInv' /\ OwnerInv' /\ CallInv'
    BY <2>1, <2>21 DEF KReadError, KRead
  <2>22. ASSUME KWriteFail
        PROVE  RingInv' /\ OwnerInv' /\ CallInv'
    <3>1. RingInv' /\ Occupied' = Occupied /\ NumAvail' = NumAvail
      BY <2>22, RingFrame DEF KWriteFail, Handle, Fail, EBUSY, EFAULT
    <3>2. OwnerInv'
      BY <2>1, <2>22, <3>1, OwnerFrame DEF KWriteFail, Handle, Fail, EBUSY, EFAULT
    <3>3. CallInv'
      <4>1. \E e \in Int : e < 0 /\ ret' = [ret EXCEPT ![current] = e]
        BY <2>22 DEF KWriteFail, Fail, EBUSY, EFAULT
      <4>2. /\ UNCHANGED <<pc, asked, current, trap>>
            /\ phase = "trap" /\ phase' \notin {"irq", "trap"}
            /\ trap.id \in {"READ", "WRITE"} /\ current \in Tasks
        BY <2>1, <2>22 DEF KWriteFail, Handle
      <4>3. \A u \in Tasks : IF u = current THEN ret'[u] < 0 ELSE ret'[u] = ret[u]
        BY <2>1, <4>1, <4>2
      <4>4. \A u \in Tasks : ret'[u] \in Int
        BY DEF TypeInv, TypeOK, CallsOK
      <4>5. \A u \in Tasks : pc'[u] = "user" /\ ret'[u] >= 0 => ret'[u] = asked'[u]
        BY <4>2, <4>3, <4>4 DEF CallInv
      <4> QED BY <4>2, <4>5 DEF CallInv
    <3> QED BY <3>1, <3>2, <3>3
  <2>23. ASSUME KWrite
        PROVE  RingInv' /\ OwnerInv' /\ CallInv'
    <3>1. RingInv' /\ Occupied' = Occupied /\ NumAvail' = NumAvail
      BY <2>23, RingFrame DEF KWrite, TakeWriteEnd
    <3>2. /\ current \in Tasks /\ wrtask = NoTask /\ wrtask' = current /\ nwritten' = 0
          /\ trap.id = "WRITE" /\ phase = "trap" /\ phase' = "sched"
          /\ pc[current] = "user" /\ trap.len \in Nat
          /\ UNCHANGED <<out, asked, ret, current, trap, navail, nleft, src>>
      BY <2>1, <2>23, FieldTypes DEF KWrite, Handle, TakeWriteEnd, TypeInv
    <3>3. /\ pc' = [pc EXCEPT ![current] = "w_entry"]
          /\ arg' = [arg EXCEPT ![current] = [src |-> accepted, len |-> trap.len]]
          /\ accepted' = accepted + trap.len
      BY <2>23 DEF KWrite
    <3>4. OwnerSrc' = accepted /\ OwnerLeft' = trap.len
      BY <2>1, <3>2, <3>3 DEF OwnerSrc, OwnerLeft
    <3>5. accepted = Len(out) + Occupied /\ asked[current] = trap.len
      BY <3>2 DEF OwnerInv, CallInv
    <3>6. \A u \in Tasks : /\ pc'[u] \in PcWriter <=> u = current
                           /\ pc'[u] \notin {"w_fill", "w_done"}
                           /\ u # current => pc'[u] = pc[u]
      <4>1. \A u \in Tasks : pc'[u] = IF u = current THEN "w_entry" ELSE pc[u]
        BY <2>1, <3>3
      <4>2. \A u \in Tasks : pc[u] \notin PcWriter
        BY <3>2 DEF OwnerInv
      <4> QED BY <4>1, <4>2
    <3>7. OwnerInv'
      <4>1. accepted' = OwnerSrc' + OwnerLeft' /\ nwritten' + OwnerLeft' = asked'[wrtask']
        <5>1. accepted' = OwnerSrc' + OwnerLeft'
          BY <3>3, <3>4
        <5>2. nwritten' + OwnerLeft' = trap.len
          BY <3>2, <3>4
        <5>3. asked'[wrtask'] = trap.len
          BY <3>2, <3>5
        <5> QED BY <5>1, <5>2, <5>3
      <4>2. OwnerSrc' = Len(out') + Occupied'
        BY <3>1, <3>2, <3>4, <3>5
      <4>3. \A u \in Tasks : /\ pc'[u] \in PcWriter <=> wrtask' = u
                             /\ pc'[u] # "w_fill" /\ pc'[u] # "w_done"
        <5>1. wrtask' = current
          BY <3>2
        <5> QED BY <3>6, <5>1
      <4>4. wrtask' # NoTask
        BY <3>2
      <4> QED BY <4>1, <4>2, <4>3, <4>4, OwnerIntro
    <3>8. CallInv'
      BY <2>1, <3>2, <3>3, <3>6 DEF CallInv
    <3> QED BY <3>1, <3>7, <3>8
  <2>24. ASSUME KSched
        PROVE  RingInv' /\ OwnerInv' /\ CallInv'
    <3>1. RingInv' /\ Occupied' = Occupied /\ NumAvail' = NumAvail
      BY <2>24, RingFrame DEF KSched, NoTrap
    <3>2. OwnerInv'
      BY <2>1, <2>24, <3>1, OwnerFrame DEF KSched, NoTrap
    <3>3. CallInv'
      BY <2>1, <2>24 DEF KSched, NoTrap, CallInv
    <3> QED BY <3>1, <3>2, <3>3
  <2>25. ASSUME RxArrive \/ DeviceReady
        PROVE  RingInv' /\ OwnerInv' /\ CallInv'
    <3>1. /\ UNCHANGED <<head, tail, buf, out, wrtask, accepted, nwritten, navail, src, nleft, pc,
                         arg, asked, ret, current, phase, trap>>
      BY <2>1, <2>25 DEF RxArrive, DeviceReady
    <3>2. RingInv' /\ Occupied' = Occupied /\ NumAvail' = NumAvail
      BY <3>1, RingFrame
    <3>3. OwnerInv'
      BY <3>1, <3>2, OwnerFrame
    <3>4. CallInv'
      BY <3>1 DEF CallInv
    <3> QED BY <3>2, <3>3, <3>4
  <2>26. ASSUME UNCHANGED vars
        PROVE  RingInv' /\ OwnerInv' /\ CallInv'
    <3>1. RingInv' /\ Occupied' = Occupied /\ NumAvail' = NumAvail
      BY <2>26, RingFrame DEF vars
    <3>2. OwnerInv'
      BY <2>1, <2>26, <3>1, OwnerFrame DEF vars
    <3>3. CallInv'
      BY <2>1, <2>26 DEF vars, CallInv
    <3> QED BY <3>1, <3>2, <3>3
  <2> QED
    BY <2>2, <2>3, <2>4, <2>5, <2>6, <2>7, <2>8, <2>9, <2>10, <2>11, <2>12,
       <2>13, <2>14, <2>15, <2>16, <2>17, <2>18, <2>19, <2>20, <2>21, <2>22,
       <2>23, <2>24, <2>25, <2>26
    DEF Next, Calls, UWrite, Kernel, KIrq, KTrap
<1>3. Spec => []TypeInv
  BY TypeInvariant
<1>4. TypeInv /\ RingInv /\ OwnerInv /\ CallInv <=> TypeInv /\ TxInv
  BY DEF TxInv
<1>5. Spec => [](RingInv /\ OwnerInv /\ CallInv)
  BY <1>1, <1>2, <1>3, PTL DEF Spec
<1> QED BY <1>3, <1>4, <1>5, PTL

\* Bytes leave in the order in which write() took them (syspipe.c:9), none lost
\* and none repeated, for every ring size, every mix of writers and lengths.
THEOREM TxInOrder ==
    ASSUME IntReader = "tx"
    PROVE  Spec => []InOrder
<1>1. TypeInv /\ TxInv => InOrder
  BY LenProperties DEF TypeInv, TypeOK, CallsOK, TxInv, RingInv, InOrder
<1> QED BY <1>1, TxInvariant, PTL

\* A call that did not fail returns the length asked for (doorbell.c, uartstr).
THEOREM TxCallsComplete ==
    ASSUME IntReader = "tx"
    PROVE  Spec => []CallsComplete
<1>1. TxInv => CallsComplete
  BY DEF TxInv, CallInv, CallsComplete
<1> QED BY <1>1, TxInvariant, PTL
-----------------------------------------------------------------------------
(***************************************************************************)
(* It implements PipeFifo.                                                 *)
(***************************************************************************)

\* A byte taken by the transmitter is the abstract FIFO's oldest.
LEMMA PopDelivers ==
    ASSUME TypeInv, RingInv, OwnerInv, KPop(1), UNCHANGED <<accepted, wrtask>>
    PROVE  Fifo!Deliver
<1> USE DEF PcWriter
<1>1. /\ head \in 0 .. Mask /\ tail \in 0 .. Mask /\ buf \in [0 .. Mask -> Byte]
      /\ out \in Seq(Int) /\ accepted \in Nat
      /\ arg \in [Tasks -> [src : Nat, len : Nat]] /\ nleft \in [Tasks -> Nat]
      /\ wrtask \in Tasks \cup {NoTask}
  BY DEF TypeInv, TypeOK, PipeOK, TaskOK, CallsOK
<1>2. head # tail /\ out' = out \o [k \in 1 .. 1 |-> buf[Wrap(tail + k - 1)]]
  BY DEF KPop
<1>3. Occupied \in 0 .. Mask /\ Occupied > 0 /\ Wrap(tail + 0) = tail
  BY <1>1, <1>2, PopRing, RingRange
<1>4. buf[Wrap(tail + 0)] = Len(out) + 0
  BY <1>3 DEF RingInv
<1>5. out' = Append(out, Len(out))
  <2>1. [k \in 1 .. 1 |-> buf[Wrap(tail + k - 1)]] = <<buf[tail]>>
    BY <1>1, <1>3 DEF Wrap
  <2>2. buf[tail] = Len(out)
    BY <1>1, <1>3, <1>4
  <2>3. out \o <<buf[tail]>> = Append(out, buf[tail])
    BY <1>1, <2>2
  <2> QED BY <1>2, <2>1, <2>2, <2>3
<1>6. Len(out) < accepted
  <2>1. CASE wrtask = NoTask
    BY <1>1, <1>3, <2>1 DEF OwnerInv
  <2>2. CASE wrtask \in Tasks
    <3>1. OwnerLeft \in Nat
      BY <1>1, <2>2 DEF OwnerLeft
    <3>2. accepted = (Len(out) + Occupied) + OwnerLeft
      BY <2>2 DEF OwnerInv
    <3>3. Len(out) \in Nat
      BY <1>1
    <3> QED BY <1>3, <3>1, <3>2, <3>3
  <2> QED BY <1>1, <2>1, <2>2
<1> QED BY <1>5, <1>6 DEF Fifo!Deliver

\* A write call that returns leaves at most m_mask of its bytes in the ring.
LEMMA DoneReturns ==
    ASSUME TypeInv, OwnerInv, NEW t \in Tasks, WDone(t)
    PROVE  Fifo!Return
<1>1. /\ head \in 0 .. Mask /\ tail \in 0 .. Mask
      /\ out \in Seq(Int) /\ accepted \in Nat /\ src \in [Tasks -> Nat]
  BY DEF TypeInv, TypeOK, PipeOK, TaskOK, CallsOK
<1>2. /\ pc[t] = "w_done" /\ wrtask' = NoTask /\ UNCHANGED <<accepted, out>>
  BY DEF WDone, Running, histVars
<1>3. wrtask = t /\ nleft[t] = 0 /\ wrtask # NoTask
  BY <1>2 DEF OwnerInv, PcWriter
<1>4. OwnerSrc = src[t] /\ OwnerLeft = 0
  BY <1>2, <1>3 DEF OwnerSrc, OwnerLeft
<1>5. Occupied \in 0 .. Mask
  BY <1>1, RingRange
<1>6. src[t] = Len(out) + Occupied /\ accepted = src[t] + 0
  BY <1>3, <1>4 DEF OwnerInv
<1>7. accepted - Len(out) <= Mask
  <2>1. Len(out) \in Nat /\ src[t] \in Nat
    BY <1>1
  <2> QED BY <1>5, <1>6, <2>1
<1> QED BY <1>2, <1>3, <1>7 DEF Fifo!Return

\* The pipe that the transmitter drains implements the abstract FIFO: a write
\* trap is its Write, a byte sent its Deliver, the return of uwrite_syspipe its
\* Return, and every other step of tasks, kernel and devices a stutter.
THEOREM TxImplementsFifo ==
    ASSUME IntReader = "tx"
    PROVE  Spec => Fifo!Spec
<1>1. Init => Fifo!Init
  BY DEF Init, Fifo!Init
<1>2. TypeInv /\ TxInv /\ [Next]_vars => [Fifo!Next]_(Fifo!fifoVars)
  <2> SUFFICES ASSUME TypeInv, TxInv, [Next]_vars
               PROVE  Fifo!Next \/ UNCHANGED <<accepted, out, wrtask>>
    BY DEF Fifo!fifoVars
  <2>1. /\ \A t \in Tasks : pc[t] \notin PcReader
        /\ rdtask = IntTask /\ ~IntWriter /\ RingInv /\ OwnerInv /\ CallInv
    BY DEF TypeInv, PcInv, DevInv, TxInv
  <2> USE DEF pipeVars, histVars
  <2>2. ASSUME NEW t \in Tasks, Calls(t) PROVE UNCHANGED <<accepted, out, wrtask>>
    BY <2>2 DEF Calls, Read, Write, Yield
  <2>3. ASSUME NEW t \in Tasks, URead(t) PROVE FALSE
    <3>1. pc[t] \in PcReader
      BY <2>3 DEF URead, REntry, RHead, RWrap, RRest, RDirect, RCheck, RDone, Running, PcReader
    <3> QED BY <2>1, <3>1
  <2>4. ASSUME NEW t \in Tasks, UWrite(t)
        PROVE  Fifo!Return \/ UNCHANGED <<accepted, out, wrtask>>
    <3>1. CASE WDone(t)
      BY <2>1, <3>1, DoneReturns
    <3>2. CASE WDirect(t)
      BY <2>1, <3>2 DEF WDirect
    <3>3. CASE WEntry(t) \/ WAvail(t) \/ WFill(t) \/ WCheck(t)
      BY <3>3 DEF WEntry, WAvail, WFill, WCheck
    <3> QED BY <2>4, <3>1, <3>2, <3>3 DEF UWrite
  <2>5. ASSUME NEW active \in BOOLEAN, KIrq(active)
        PROVE  Fifo!Deliver \/ UNCHANGED <<accepted, out, wrtask>>
    <3>1. UNCHANGED <<accepted, wrtask>>
      BY <2>5 DEF KIrq, KIrqIdle, KIrqTx, KIrqRx, KIrqEcho, KIrqAudio, KStartAudio, Served
    <3>2. KPop(1) \/ out' = out
      BY <2>1, <2>5 DEF KIrq, KIrqIdle, KIrqTx, KIrqRx, KIrqEcho, KIrqAudio, KStartAudio
    <3> QED BY <2>1, <3>1, <3>2, PopDelivers
  <2>6. ASSUME KWrite PROVE Fifo!Next
    <3>1. /\ wrtask = NoTask /\ wrtask' = current /\ current \in Tasks
          /\ accepted' = accepted + trap.len /\ out' = out
          /\ trap.id = "WRITE" /\ phase = "trap" /\ trap.len > 0
      <4>1. trap.id # "none" => current \in Tasks
        BY DEF TypeInv, TrapInv
      <4> QED BY <2>6, <4>1 DEF KWrite, TakeWriteEnd, Handle
    <3>2. accepted + trap.len <= Limit /\ trap.len \in WriteLens
      BY <2>1, <3>1 DEF CallInv
    <3>3. trap.len \in WriteLens \ {0} /\ wrtask' # NoTask
      BY <3>1, <3>2
    <3>4. Fifo!Write(trap.len)
      BY <3>1, <3>2, <3>3 DEF Fifo!Write
    <3> QED BY <3>3, <3>4 DEF Fifo!Next
  <2>7. ASSUME KTrap, ~KWrite PROVE UNCHANGED <<accepted, out, wrtask>>
    BY <2>1, <2>7 DEF KTrap, KNoTrap, KWait, KExit, KReadHalt, KReadError, KRead, KWriteFail
  <2>8. ASSUME Interrupt \/ KSched \/ RxArrive \/ DeviceReady \/ UNCHANGED vars
        PROVE  UNCHANGED <<accepted, out, wrtask>>
    BY <2>1, <2>8 DEF Interrupt, KSched, RxArrive, DeviceReady, vars
  <2> QED BY <2>2, <2>3, <2>4, <2>5, <2>6, <2>7, <2>8 DEF Next, Kernel, Fifo!Next
<1> QED BY <1>1, <1>2, TxInvariant, PTL DEF Spec, Fifo!Spec

-----------------------------------------------------------------------------
(***************************************************************************)
(* The pipe that the receiver fills: the inductive invariant.              *)
(***************************************************************************)

\* How many of the bytes accepted have been offered to kpush_syspipe, the
\* k-th byte of the ring, and how many bytes the reader's copy of m_head shows.
Offered == accepted - (IF dev THEN 1 ELSE 0)
At(k) == buf[Wrap(tail + k)]
Shown == Wrap(h - tail + Size)

\* Nobody writes, and the owner of the read end is the one task that reads.
OneReader ==
    /\ wrtask = NoTask /\ trap.id # "WRITE"
    /\ \A t \in Tasks : /\ pc[t] \notin PcWriter
                        /\ pc[t] \in PcReader <=> rdtask = t
                        /\ pc[t] = "r_entry" => arg[t].len > 0

\* The bytes in the ring are later than those delivered, and in order.
OrderInv ==
    /\ NoRepeats
    /\ Offered >= 0
    /\ \A i \in DOMAIN out : out[i] < Offered
    /\ \A k \in 0 .. Occupied - 1 :
          /\ 0 <= At(k) /\ At(k) < Offered
          /\ \A i \in DOMAIN out : out[i] < At(k)
          /\ \A l \in 0 .. k - 1 : At(l) < At(k)

\* Byte b is the next to be delivered.
Follows(b) == IF out = <<>> THEN b = 0
              ELSE out[Len(out)] = EIO \/ b = out[Len(out)] + 1

\* Where a read stands: the debugging checks end the task (syspipe.c:159)
\* before it has copied a second byte and goes on.
ReadInv ==
    \A t \in Tasks : pc[t] \in PcReader =>
        /\ nread \in {0, 1}
        /\ pc[t] = "r_entry" => nread = 0
        /\ nread = 1 /\ pc[t] # "r_done" => nleft[t] = 1
        /\ pc[t] \in {"r_wrap", "r_rest"} => Shown <= Occupied
        /\ pc[t] = "r_wrap" => h < tail
        /\ error /\ pc[t] # "r_done" =>
              /\ head # tail /\ Follows(At(0))
              /\ nread = 0 => Full /\ \A k \in 0 .. Occupied - 1 : At(k) = At(0) + k

\* Unless a byte was dropped, what the ring holds follows what was delivered,
\* without a gap; if one was, the read in progress still ends before the gap.
SureInv ==
    /\ GapsReported
    /\ ~error => /\ Follows(Offered - Occupied)
                 /\ \A k \in 0 .. Occupied - 1 : At(k) = Offered - Occupied + k
    /\ trap.id # "EXIT" => ReadInv

RxInv == OneReader /\ OrderInv /\ SureInv

-----------------------------------------------------------------------------
(***************************************************************************)
(* The ring, when a reader takes bytes out and when the receiver adds one. *)
(***************************************************************************)

LEMMA CopyRing ==
    ASSUME head \in 0 .. Mask, tail \in 0 .. Mask, buf \in [0 .. Mask -> Byte],
           NEW len \in Nat, len <= Occupied, tail + len <= Size,
           UNCHANGED <<head, buf>>, tail' = Wrap(tail + len)
    PROVE  /\ Occupied' = Occupied - len
           /\ \A k \in 0 .. Occupied - len - 1 : At(k)' = At(k + len)
           /\ Chunk(tail, len) = [k \in 1 .. len |-> At(k - 1)]
<1>1. /\ tail + len < Size => tail' = tail + len
      /\ tail + len = Size => tail' = 0
  BY DEF Wrap
<1>2. Occupied' = Wrap(head - tail' + Size)
  BY DEF Occupied, Wrap
<1> DEFINE m == tail'
<1>3. m \in 0 .. Mask
  BY <1>1
<1>4. \A k \in Int : At(k)' = buf[Wrap(m + k)]
  BY DEF At, Wrap
<1> HIDE DEF m
<1>5. Wrap(head - m + Size) = Occupied - len
  BY <1>1, <1>3 DEF Wrap, Occupied, m
<1>6. \A k \in 0 .. Occupied - len - 1 : Wrap(m + k) = Wrap(tail + (k + len))
  BY <1>1, <1>3 DEF Wrap, Occupied, m
<1>7. \A k \in 1 .. len : Wrap(tail + (k - 1)) = tail + k - 1
  BY DEF Wrap
<1>8. Chunk(tail, len) = [k \in 1 .. len |-> At(k - 1)]
  BY <1>7 DEF Chunk, At
<1> QED
  BY <1>2, <1>4, <1>5, <1>6, <1>8 DEF At, m

LEMMA PushRing ==
    ASSUME head \in 0 .. Mask, tail \in 0 .. Mask, buf \in [0 .. Mask -> Byte],
           NEW v \in Int, ~Full, buf' = [buf EXCEPT ![head] = v],
           head' = Wrap(head + 1), tail' = tail
    PROVE  /\ Occupied' = Occupied + 1 /\ head' # tail'
           /\ \A k \in 0 .. Occupied - 1 : At(k)' = At(k)
           /\ \A k \in {Occupied} : At(k)' = v
<1>1. Occupied' = Wrap(Wrap(head + 1) - tail + Size)
  BY DEF Occupied, Wrap
<1>2. Wrap(Wrap(head + 1) - tail + Size) = Occupied + 1 /\ Wrap(head + 1) # tail
  BY DEF Occupied, Wrap, Full
<1>3. \A k \in 0 .. Occupied - 1 : Wrap(tail + k) \in 0 .. Mask \ {head}
  BY DEF Occupied, Wrap
<1>4. Wrap(tail + Occupied) = head
  BY DEF Occupied, Wrap
<1>5. \A k \in Int : At(k)' = buf'[Wrap(tail + k)]
  BY DEF At, Wrap
<1>6. \A k \in 0 .. Occupied - 1 : At(k)' = At(k)
  BY <1>3, <1>5 DEF At
<1>7. Occupied \in Int
  BY RingRange
<1>8. \A k \in {Occupied} : At(k)' = v
  BY <1>4, <1>5, <1>7
<1> QED
  BY <1>1, <1>2, <1>6, <1>8

\* Bytes in order, delivered after earlier ones.
LEMMA OrderAppended ==
    ASSUME OrderInv, out \in Seq(Int), head \in 0 .. Mask, tail \in 0 .. Mask,
           buf \in [0 .. Mask -> Byte],
           NEW len \in Nat, len <= Occupied,
           out' = out \o [k \in 1 .. len |-> At(k - 1)],
           Occupied' = Occupied - len, UNCHANGED <<accepted, dev>>,
           \A k \in 0 .. Occupied - len - 1 : At(k)' = At(k + len)
    PROVE  OrderInv'
<1> DEFINE c == [k \in 1 .. len |-> At(k - 1)]
           n == Len(out)
<1>1. \A k \in 0 .. Occupied - 1 : At(k) \in Int
  <2>1. \A k \in 0 .. Occupied - 1 : Wrap(tail + k) \in 0 .. Mask
    BY DEF Wrap, Occupied
  <2>2. \A i \in 0 .. Mask : buf[i] \in Int
    BY DEF Byte, Blank
  <2> QED
    BY <2>1, <2>2 DEF At
<1>2. Occupied \in 0 .. Mask /\ n \in Nat /\ DOMAIN out = 1 .. n
  BY RingRange
<1>3. c \in Seq(Int) /\ Len(c) = len
  BY <1>1, <1>2
<1>4. \A k \in 1 .. len : c[k] = At(k - 1) /\ k - 1 \in 0 .. Occupied - 1
  BY <1>2
<1>5. /\ out' \in Seq(Int) /\ DOMAIN out' = 1 .. n + len
      /\ \A i \in 1 .. n + len : out'[i] = IF i <= n THEN out[i] ELSE c[i - n]
  <2>1. Len(out') = n + len
    BY <1>3, ConcatProperties
  <2>2. out' \in Seq(Int) /\ \A i \in 1 .. n + Len(c) : out'[i] = IF i <= n THEN out[i] ELSE c[i - n]
    BY <1>3, ConcatProperties
  <2> QED
    BY <1>3, <2>1, <2>2
<1> HIDE DEF c, n
<1>6. \A i \in 1 .. n + len : i > n => /\ out'[i] = At(i - n - 1) /\ i - n - 1 \in 0 .. Occupied - 1
                                       /\ i - n - 1 < len
  <2> SUFFICES ASSUME NEW i \in 1 .. n + len, i > n
               PROVE  out'[i] = At(i - n - 1) /\ i - n - 1 \in 0 .. Occupied - 1 /\ i - n - 1 < len
    OBVIOUS
  <2>1. i - n \in 1 .. len
    BY <1>2
  <2>2. out'[i] = c[i - n]
    BY <1>2, <1>5
  <2> QED
    BY <1>2, <1>4, <2>1, <2>2
<1>7. \A i \in 1 .. n + len : i <= n => out'[i] = out[i] /\ i \in DOMAIN out
  BY <1>2, <1>5
<1>8. Offered' = Offered /\ Offered >= 0
  BY DEF OrderInv, Offered
<1>9. NoRepeats'
  <2> SUFFICES ASSUME NEW i \in 1 .. n + len, NEW j \in 1 .. n + len, i < j,
                      out'[i] # EIO, out'[j] # EIO
               PROVE  out'[i] < out'[j]
    BY <1>5 DEF NoRepeats
  <2>1. CASE j <= n
    <3>1. i <= n /\ out'[i] = out[i] /\ out'[j] = out[j]
      BY <1>2, <1>7, <2>1
    <3>2. i \in DOMAIN out /\ j \in DOMAIN out
      BY <1>7, <2>1, <3>1
    <3> QED
      BY <3>1, <3>2 DEF OrderInv, NoRepeats
  <2>2. CASE i <= n /\ j > n
    BY <1>6, <1>7, <2>2 DEF OrderInv
  <2>3. CASE i > n
    <3>1. i - n - 1 \in 0 .. (j - n - 1) - 1 /\ j > n
      BY <1>2, <2>3
    <3> QED
      BY <1>6, <2>3, <3>1 DEF OrderInv
  <2> QED
    BY <1>2, <2>1, <2>2, <2>3
<1>10. \A i \in DOMAIN out' : out'[i] < Offered'
  BY <1>5, <1>6, <1>7, <1>8, <1>2 DEF OrderInv
<1>11. ASSUME NEW k \in 0 .. Occupied - len - 1
       PROVE  /\ 0 <= At(k)' /\ At(k)' < Offered'
              /\ \A i \in DOMAIN out' : out'[i] < At(k)'
              /\ \A l \in 0 .. k - 1 : At(l)' < At(k)'
  <2>1. k + len \in 0 .. Occupied - 1 /\ At(k)' = At(k + len)
    BY <1>2
  <2>2. \A i \in 1 .. n + len : out'[i] < At(k + len)
    <3>1. ASSUME NEW i \in 1 .. n + len, i > n
          PROVE  out'[i] < At(k + len)
      <4>1. i - n - 1 \in 0 .. (k + len) - 1
        BY <1>2, <1>6, <3>1
      <4> QED
        BY <1>6, <2>1, <3>1, <4>1 DEF OrderInv
    <3>2. ASSUME NEW i \in 1 .. n + len, ~(i > n)
          PROVE  out'[i] < At(k + len)
      <4>1. i <= n
        BY <1>2, <3>2
      <4>2. out'[i] = out[i] /\ i \in DOMAIN out
        BY <1>7, <4>1
      <4> QED
        BY <2>1, <4>2 DEF OrderInv
    <3> QED
      BY <3>1, <3>2, Zenon
  <2>3. \A l \in 0 .. k - 1 : At(l)' = At(l + len) /\ l + len \in 0 .. (k + len) - 1
    BY <1>2
  <2> QED
    BY <1>5, <1>8, <2>1, <2>2, <2>3 DEF OrderInv
<1> QED
  BY <1>8, <1>9, <1>10, <1>11 DEF OrderInv

\* Consecutive bytes that follow what was delivered.
LEMMA RunAppended ==
    ASSUME GapsReported, out \in Seq(Int), NEW b \in Nat, NEW len \in Nat, Follows(b),
           out' = out \o [k \in 1 .. len |-> b + k - 1]
    PROVE  GapsReported' /\ \A d \in {b + len} : Follows(d)'
<1> DEFINE c == [k \in 1 .. len |-> b + k - 1]
           n == Len(out)
<1>1. c \in Seq(Int) /\ Len(c) = len /\ n \in Nat /\ DOMAIN out = 1 .. n
  OBVIOUS
<1>2. /\ out' \in Seq(Int) /\ Len(out') = n + len
      /\ \A i \in 1 .. n + len : out'[i] = IF i <= n THEN out[i] ELSE c[i - n]
  BY <1>1, ConcatProperties
<1>3. \A i \in 1 .. n + len : /\ i <= n => out'[i] = out[i]
                              /\ i > n => out'[i] = b + (i - n) - 1
  BY <1>1, <1>2
<1> DEFINE s == out'
<1>a. /\ Len(s) = n + len /\ DOMAIN s = 1 .. n + len
      /\ \A i \in 1 .. n + len : /\ i <= n => s[i] = out[i]
                                 /\ i > n => s[i] = b + (i - n) - 1
      /\ s = out \o c
  BY <1>2, <1>3
<1>4. n > 0 => out[n] = EIO \/ b = out[n] + 1
  BY <1>1 DEF Follows, n
<1>5. n = 0 => b = 0
  <2>1. n = 0 => out = <<>>
    BY <1>1 DEF n
  <2> QED
    BY <2>1 DEF Follows
<1>b. n > 0 => out[n] \in Int
  BY <1>1
<1>c. len = 0 => out \o c = out
  <2>1. len = 0 => c = <<>>
    BY <1>1
  <2> QED
    BY <2>1, ConcatEmptySeq
<1> HIDE DEF c, n, s
<1>6. ASSUME NEW i \in 1 .. n + len
      PROVE  \/ s[i] = EIO
             \/ i = 1 /\ s[i] = 0
             \/ i > 1 /\ (s[i-1] = EIO \/ s[i] = s[i-1] + 1)
  <2>1. CASE i <= n
    <3>1. i \in DOMAIN out /\ s[i] = out[i] /\ (i > 1 => s[i-1] = out[i-1])
      BY <1>1, <1>a, <2>1
    <3> QED
      BY <3>1 DEF GapsReported
  <2>2. CASE i = n + 1
    <3>1. s[i] = b
      BY <1>1, <1>a, <2>2
    <3>2. CASE n = 0
      BY <1>5, <2>2, <3>1, <3>2
    <3>3. CASE n > 0
      <4>1. s[i-1] = out[n] /\ i > 1
        BY <1>1, <1>a, <2>2, <3>3
      <4> QED
        BY <1>4, <1>b, <3>1, <3>3, <4>1
    <3> QED
      BY <1>1, <3>2, <3>3
  <2>3. CASE i > n + 1
    <3>0. i > n /\ i - 1 \in 1 .. n + len /\ i - 1 > n
      BY <1>1, <2>3
    <3>1. s[i] = b + (i - n) - 1 /\ s[i-1] = b + ((i - 1) - n) - 1
      BY <1>a, <3>0, Zenon
    <3>2. s[i] = s[i-1] + 1 /\ i > 1
      BY <1>1, <2>3, <3>1
    <3> QED
      BY <3>2
  <2> QED
    BY <1>1, <2>1, <2>2, <2>3
<1>7. \/ s = <<>> /\ b + len = 0
      \/ s # <<>> /\ (s[Len(s)] = EIO \/ b + len = s[Len(s)] + 1)
  <2>1. CASE len = 0 /\ n = 0
    <3>1. s = out /\ b = 0 /\ out = <<>>
      BY <1>1, <1>5, <1>a, <1>c, <2>1 DEF n
    <3>2. b + len = 0
      BY <2>1, <3>1
    <3> QED
      BY <3>1, <3>2, Zenon
  <2>2. CASE len = 0 /\ n > 0
    <3>1. s = out /\ out # <<>> /\ s[Len(s)] = out[n]
      BY <1>1, <1>a, <1>c, <2>2 DEF n
    <3> QED
      BY <1>4, <2>2, <3>1
  <2>3. CASE len > 0
    <3>1. n + len \in 1 .. n + len /\ n + len > n
      BY <1>1, <2>3
    <3>2. s[n + len] = b + (n + len - n) - 1
      BY <1>1, <1>a, <3>1
    <3>3. s # <<>> /\ Len(s) = n + len
      BY <1>a, <1>1, <2>3
    <3>4. b + len = s[n + len] + 1
      BY <1>1, <3>2
    <3> QED
      BY <3>3, <3>4
  <2> QED
    BY <1>1, <2>1, <2>2, <2>3
<1>8. GapsReported'
  BY <1>6, <1>a DEF GapsReported, s
<1>9. ASSUME NEW d \in {b + len}
      PROVE  Follows(d)'
  BY <1>7, <1>9 DEF Follows, s
<1> QED
  BY <1>8, <1>9

-----------------------------------------------------------------------------
(***************************************************************************)
(* Who reads.                                                              *)
(***************************************************************************)

\* There is no writer; the calls of the reader are in their order.
LEMMA OneReaderStep ==
    ASSUME IntWriter, Writers = {}, TypeInv, OneReader, [Next]_vars
    PROVE  OneReader'
<1> USE DEF PcReader, PcWriter, pipeVars, taskVars, localVars, kernelVars, devVars, histVars,
            callVars, Running, Goto, Trap, NoTrapYet
<1>1. IntReader = "none"
  OBVIOUS
<1>2. /\ wrtask = NoTask /\ trap.id # "WRITE"
      /\ \A t \in Tasks : /\ pc[t] \notin PcWriter
                          /\ pc[t] \in PcReader <=> rdtask = t
                          /\ pc[t] = "r_entry" => arg[t].len > 0
  BY DEF OneReader
<1>3. /\ pc \in [Tasks -> {"user"} \cup PcReader \cup PcWriter]
      /\ arg \in [Tasks -> [src : Nat, len : Nat]]
  BY <1>1, TaskFacts
<1>4. ASSUME UNCHANGED <<wrtask, pc, rdtask, arg>>, trap'.id # "WRITE"
      PROVE  OneReader'
  BY <1>2, <1>4 DEF OneReader
<1>5. CASE \E t \in Tasks : Calls(t)
  BY <1>2, <1>4, <1>5 DEF Calls, Read, Write, Yield
<1>6. ASSUME NEW t \in Tasks, URead(t)
      PROVE  OneReader'
  <2>1. pc[t] \in PcReader /\ rdtask = t /\ wrtask' = wrtask /\ arg' = arg
    <3>1. pc[t] \in PcReader /\ rdtask = t
      BY <1>2, <1>6 DEF URead, REntry, RHead, RWrap, RRest, CopyOut, RDirect, RCheck, RDone
    <3> QED
      BY <1>2, <1>6, <3>1 DEF URead, REntry, RHead, RWrap, RRest, CopyOut, RDirect, RCheck, RDone
  <2>2. trap'.id # "WRITE"
    BY <1>2, <1>6 DEF URead, REntry, RHead, RWrap, RRest, CopyOut, SanityCheck, RDirect,
          RCheck, RDone
  <2>3. CASE RDone(t)
    BY <1>2, <1>3, <2>1, <2>2, <2>3 DEF RDone, OneReader
  <2>4. CASE ~RDone(t)
    <3>1. rdtask' = rdtask
      BY <1>6, <2>4 DEF URead, REntry, RHead, RWrap, RRest, CopyOut, RDirect, RCheck
    <3>2. \/ pc' = pc
          \/ \E l \in PcReader \ {"r_entry"} : pc' = [pc EXCEPT ![t] = l]
      BY <1>2, <1>6, <2>4 DEF URead, REntry, RHead, RWrap, RRest, CopyOut, SanityCheck, RDirect,
          RCheck
    <3> QED
      BY <1>2, <1>3, <2>1, <2>2, <3>1, <3>2 DEF OneReader
  <2> QED
    BY <2>3, <2>4
<1>7. ASSUME NEW t \in Tasks, UWrite(t)
      PROVE  OneReader'
  BY <1>2, <1>7 DEF UWrite, WEntry, WDirect, WAvail, WFill, WCheck, WDone
<1>8. CASE Interrupt
  BY <1>2, <1>4, <1>8 DEF Interrupt, NoTrap
<1>9. CASE \E active \in BOOLEAN : KIrq(active)
  BY <1>2, <1>4, <1>9 DEF KIrq, KIrqIdle, KIrqTx, KIrqRx, KIrqEcho, KIrqAudio, KStartAudio, Served
<1>10. CASE KNoTrap \/ KExit \/ KReadHalt \/ KReadError
  BY <1>2, <1>4, <1>10 DEF KNoTrap, KExit, KReadHalt, KReadError, Handle
<1>11. CASE KWait
  <2>1. pc[current] # "r_entry"
    BY <1>1, <1>11, TaskFacts DEF KWait, Handle
  <2> QED
    BY <1>2, <1>3, <1>11, <2>1 DEF KWait, Handle, OneReader
<1>12. CASE KRead
  <2>1. current \in Tasks
    BY <1>1, <1>12, TaskFacts DEF KRead, Handle
  <2> QED
    BY <1>2, <1>3, <1>12, <2>1 DEF KRead, TakeReadEnd, Handle, OneReader
<1>13. CASE KWriteFail \/ KWrite
  BY <1>2, <1>13 DEF KWriteFail, KWrite, Handle
<1>14. CASE KSched
  BY <1>2, <1>4, <1>14 DEF KSched, NoTrap
<1>15. CASE RxArrive \/ DeviceReady \/ UNCHANGED vars
  BY <1>2, <1>4, <1>15 DEF RxArrive, DeviceReady, vars
<1> QED
  BY <1>5, <1>6, <1>7, <1>8, <1>9, <1>10, <1>11, <1>12, <1>13, <1>14, <1>15
     DEF Next, Kernel, KTrap

\* A step that does not touch the ring, and offers it nothing.
LEMMA RxFrame ==
    ASSUME UNCHANGED <<head, tail, buf, error, out>>, Offered' = Offered
    PROVE  /\ OrderInv => OrderInv'
           /\ GapsReported => GapsReported'
           /\ Occupied' = Occupied /\ Full' = Full
           /\ \A k \in Int : At(k)' = At(k)
           /\ \A d \in Int : Follows(d)' = Follows(d)
<1>1. Occupied' = Occupied /\ Full' = Full
  BY DEF Occupied, Full, Wrap
<1>2. \A k \in Int : At(k)' = At(k)
  BY DEF At, Wrap
<1>3. \A d \in Int : Follows(d)' = Follows(d)
  BY DEF Follows
<1>4. GapsReported => GapsReported'
  BY DEF GapsReported
<1>5. NoRepeats => NoRepeats'
  BY DEF NoRepeats
<1>6. OrderInv => OrderInv'
  BY <1>1, <1>2, <1>5 DEF OrderInv
<1> QED
  BY <1>1, <1>2, <1>3, <1>4, <1>6

-----------------------------------------------------------------------------
(***************************************************************************)
(* What a read in progress has seen.                                       *)
(***************************************************************************)

\* The other steps leave a read where it stands.
LEMMA ReadKept ==
    ASSUME TypeInv, IntReader = "none", ReadInv, Offered' = Offered,
           UNCHANGED <<head, tail, buf, error, out, nread, pc, nleft, h>>
    PROVE  ReadInv'
<1>1. /\ Occupied' = Occupied /\ Full' = Full
      /\ \A k \in Int : At(k)' = At(k)
      /\ \A d \in Int : Follows(d)' = Follows(d)
  BY RxFrame
<1>2. Shown' = Shown
  BY DEF Shown, Wrap
<1>3. Occupied \in 0 .. Mask
  BY TaskFacts, RingRange
<1>4. \A t \in Tasks : pc'[t] = pc[t] /\ nleft'[t] = nleft[t]
  OBVIOUS
<1>5. (head # tail => Follows(At(0)))
      => (head' # tail' => Follows(At(0))')
  BY DEF Follows, At, Wrap
<1> QED
  BY <1>1, <1>2, <1>3, <1>4, <1>5 DEF ReadInv

\* A step that leaves the ring alone keeps SureInv if it keeps ReadInv.
LEMMA SureFrame ==
    ASSUME TypeInv, IntReader = "none", SureInv, Offered' = Offered,
           UNCHANGED <<head, tail, buf, error, out>>,
           trap'.id # "EXIT" => ReadInv'
    PROVE  SureInv'
<1>1. /\ GapsReported => GapsReported'
      /\ Occupied' = Occupied
      /\ \A k \in Int : At(k)' = At(k)
  BY RxFrame
<1>2. Occupied \in 0 .. Mask
  BY TaskFacts, RingRange
<1>3. Follows(Offered - Occupied) => Follows(Offered - Occupied)'
  BY <1>1 DEF Follows
<1> QED
  BY <1>1, <1>2, <1>3 DEF SureInv

LEMMA OfferedInt ==
    ASSUME TypeInv, IntReader = "none"
    PROVE  Offered \in Int
<1>1. accepted \in Nat
  BY TaskFacts
<1>2. accepted - 1 \in Int /\ accepted - 0 \in Int
  BY <1>1
<1> QED
  BY <1>2, Zenon DEF Offered

\* What a copy takes: the next byte to be delivered and those that follow it.
LEMMA CopyRun ==
    ASSUME TypeInv, IntReader = "none", OrderInv, SureInv, trap.id # "EXIT",
           NEW t \in Tasks, pc[t] \in PcReader, pc[t] # "r_done",
           NEW len \in Nat, len <= Occupied, len <= nleft[t]
    PROVE  \E b \in Nat : /\ Follows(b)
                          /\ \A k \in 0 .. len - 1 : At(k) = b + k
                          /\ ~error => b = Offered - Occupied
                          /\ error => b = At(0)
<1>1. Occupied \in 0 .. Mask /\ (head # tail <=> Occupied > 0) /\ Offered \in Nat
      /\ nleft[t] \in Nat
  <2>1. Offered \in Int /\ Offered >= 0
    BY OfferedInt DEF OrderInv
  <2>2. Occupied \in 0 .. Mask /\ (head # tail <=> Occupied > 0) /\ nleft[t] \in Nat
    BY TaskFacts, RingRange
  <2> QED
    BY <2>1, <2>2
<1>2. Occupied > 0 => At(0) >= 0
  BY <1>1 DEF OrderInv
<1>3. ReadInv
  BY DEF SureInv
<1>4. CASE ~error
  <2> DEFINE b == Offered - Occupied
  <2>1. Follows(b) /\ \A k \in 0 .. Occupied - 1 : At(k) = b + k
    BY <1>4 DEF SureInv
  <2>2. b \in Int
    BY <1>1
  <2>3. b >= 0
    <3>1. CASE Occupied > 0
      <4>1. At(0) = b + 0
        BY <1>1, <2>1, <3>1
      <4> QED
        BY <1>2, <2>2, <3>1, <4>1
    <3> QED
      BY <1>1, <3>1
  <2>4. \A k \in 0 .. len - 1 : At(k) = b + k
    BY <1>1, <2>1
  <2>5. b \in Nat
    BY <2>2, <2>3
  <2> QED
    BY <1>4, <2>1, <2>4, <2>5
<1>5. CASE error
  <2>1. /\ head # tail /\ Follows(At(0)) /\ nread \in {0, 1}
        /\ nread = 0 => \A k \in 0 .. Occupied - 1 : At(k) = At(0) + k
        /\ nread = 1 => nleft[t] = 1
    BY <1>3, <1>5 DEF ReadInv
  <2>2. At(0) \in Nat
    <3>1. tail \in 0 .. Mask /\ buf \in [0 .. Mask -> Byte]
      BY TaskFacts
    <3>2. Wrap(tail + 0) \in 0 .. Mask /\ \A i \in 0 .. Mask : buf[i] \in Int
      BY <3>1 DEF Byte, Blank, Wrap
    <3>3. At(0) \in Int
      BY <3>2 DEF At
    <3> QED
      BY <1>1, <1>2, <2>1, <3>3
  <2>3. \A k \in 0 .. len - 1 : At(k) = At(0) + k
    <3>1. CASE nread = 0
      BY <1>1, <2>1, <3>1
    <3>2. CASE nread = 1
      <4>1. \A k \in 0 .. len - 1 : k = 0
        BY <2>1, <3>2
      <4> QED
        BY <2>2, <4>1
    <3> QED
      BY <2>1, <3>1, <3>2
  <2> QED
    BY <1>5, <2>1, <2>2, <2>3
<1> QED
  BY <1>4, <1>5

\* A copy out of the ring keeps what is delivered in order and without gaps.
LEMMA CopyRead ==
    ASSUME IntWriter, TypeInv, OneReader, OneReader', OrderInv, SureInv, trap.id = "none",
           NEW t \in Tasks, pc[t] \in {"r_wrap", "r_rest"},
           NEW len \in Nat, len <= Occupied, tail + len <= Size, len <= nleft[t],
           NEW next \in {"r_rest", "r_direct", "r_done"},
           CopyOut(t, len, next),
           nleft[t] = len <=> next = "r_done",
           next = "r_rest" => len > 0 /\ Wrap(h - NextTail(len) + Size) <= Occupied - len
    PROVE  OrderInv' /\ SureInv'
<1> USE DEF pipeVars, taskVars, localVars, kernelVars, devVars, histVars, callVars
<1>1. /\ head \in 0 .. Mask /\ tail \in 0 .. Mask /\ buf \in [0 .. Mask -> Byte]
      /\ nread \in Nat /\ nleft \in [Tasks -> Nat] /\ out \in Seq(Int) /\ h \in 0 .. Mask
      /\ pc \in [Tasks -> {"user"} \cup PcReader \cup PcWriter]
      /\ Occupied \in 0 .. Mask /\ (head # tail <=> Occupied > 0)
  BY TaskFacts, RingRange
<1>2. /\ UNCHANGED <<head, buf, error, rdtask, h, accepted, dev>>
      /\ tail' = Wrap(tail + len) /\ out' = out \o Chunk(tail, len)
      /\ nread' = nread + len /\ nleft' = [nleft EXCEPT ![t] = nleft[t] - len]
  BY DEF CopyOut, NextTail
<1>3. \/ trap'.id = "EXIT"
      \/ /\ nleft[t] - len < 2 /\ nread + len < 2
         /\ pc' = [pc EXCEPT ![t] = next]
  BY <1>1 DEF CopyOut, SanityCheck, Trap, Goto
<1>4. /\ Occupied' = Occupied - len
      /\ \A k \in 0 .. Occupied - len - 1 : At(k)' = At(k + len)
      /\ Chunk(tail, len) = [k \in 1 .. len |-> At(k - 1)]
  BY <1>1, <1>2, CopyRing
<1>5. PICK b \in Nat : /\ Follows(b)
                       /\ \A k \in 0 .. len - 1 : At(k) = b + k
                       /\ ~error => b = Offered - Occupied
                       /\ error => b = At(0)
  BY CopyRun DEF PcReader
<1>6. OrderInv'
  BY <1>1, <1>2, <1>4, OrderAppended
<1>7. out' = out \o [k \in 1 .. len |-> b + k - 1]
  <2>1. \A k \in 1 .. len : At(k - 1) = b + k - 1
    BY <1>5
  <2> QED
    BY <1>2, <1>4, <2>1
<1>8. GapsReported' /\ \A d \in {b + len} : Follows(d)'
  BY <1>1, <1>5, <1>7, RunAppended DEF SureInv
<1>9. Offered' = Offered /\ Offered \in Int
  BY <1>2, OfferedInt DEF Offered
<1>10. ASSUME ~error'
       PROVE  /\ Follows(Offered - Occupied)'
              /\ \A k \in 0 .. Occupied' - 1 : At(k)' = Offered' - Occupied' + k
  <2>1. b = Offered - Occupied /\ \A k \in 0 .. Occupied - 1 : At(k) = Offered - Occupied + k
    BY <1>2, <1>5, <1>10 DEF SureInv
  <2>2. Offered' - Occupied' = b + len
    BY <1>1, <1>4, <1>9, <2>1
  <2>3. \A k \in 0 .. Occupied - len - 1 : At(k)' = b + len + k
    <3> SUFFICES ASSUME NEW k \in 0 .. Occupied - len - 1
                 PROVE  At(k)' = b + len + k
      OBVIOUS
    <3>1. k + len \in 0 .. Occupied - 1
      BY <1>1
    <3>2. At(k + len) = Offered - Occupied + (k + len)
      BY <2>1, <3>1
    <3>3. At(k)' = At(k + len)
      BY <1>4
    <3> QED
      BY <1>1, <1>9, <2>1, <3>2, <3>3
  <2>4. \A d \in {Offered' - Occupied'} : Follows(d)'
    BY <1>8, <2>2
  <2> QED
    BY <1>4, <2>2, <2>3, <2>4 DEF Follows
<1>11. ASSUME trap'.id # "EXIT"
       PROVE  ReadInv'
  <2>1. /\ nleft[t] - len < 2 /\ nread + len < 2
        /\ pc' = [pc EXCEPT ![t] = next]
    BY <1>3, <1>11
  <2>2. rdtask = t /\ \A u \in Tasks : pc'[u] \in PcReader => u = t
    <3>1. rdtask = t
      BY DEF OneReader, PcReader
    <3> QED
      BY <1>2, <3>1 DEF OneReader
  <2>3. pc'[t] = next /\ nleft'[t] = nleft[t] - len /\ nleft[t] \in Nat
    BY <1>1, <1>2, <2>1
  <2>4. nread' \in {0, 1} /\ (nread' = 1 /\ next # "r_done" => nleft'[t] = 1)
    BY <1>1, <1>2, <2>1, <2>3
  <2>5. next = "r_rest" => Shown' <= Occupied'
    <3>1. Shown' = Wrap(h - NextTail(len) + Size)
      BY <1>2 DEF Shown, Wrap, NextTail
    <3> QED
      BY <1>4, <3>1
  <2>6. ASSUME error', next # "r_done"
        PROVE  /\ head' # tail' /\ Follows(At(0))'
               /\ nread' = 0 => Full' /\ \A k \in 0 .. Occupied' - 1 : At(k)' = At(0)' + k
    <3>0. error /\ b = At(0)
      BY <1>2, <1>5, <2>6
    <3>1. /\ head # tail /\ Follows(At(0)) /\ nread \in {0, 1}
          /\ nread = 0 => Full /\ \A k \in 0 .. Occupied - 1 : At(k) = At(0) + k
      BY <3>0 DEF SureInv, ReadInv, PcReader
    <3>2. CASE len = 0
      <4>1. tail' = tail /\ out' = out
        <5>1. tail' = tail
          BY <1>1, <1>2, <3>2 DEF Wrap
        <5>2. [k \in 1 .. len |-> b + k - 1] = <<>>
          BY <3>2
        <5>3. out' = out
          BY <1>1, <1>7, <5>2, ConcatEmptySeq
        <5> QED
          BY <5>1, <5>3
      <4>2. UNCHANGED <<head, tail, buf, error, out>> /\ nread' = nread
        BY <1>1, <1>2, <3>2, <4>1
      <4>3. /\ Occupied' = Occupied /\ Full' = Full
            /\ \A k \in Int : At(k)' = At(k)
            /\ \A d \in Int : Follows(d)' = Follows(d)
        BY <1>9, <4>2, RxFrame
      <4>4. Follows(At(0)) => Follows(At(0))'
        BY <4>2 DEF Follows, At, Wrap
      <4> QED
        BY <1>1, <3>1, <4>2, <4>3, <4>4
    <3>3. CASE len > 0
      <4>1. len = 1 /\ nread = 0 /\ nread' = 1
        BY <1>1, <1>2, <2>1, <3>3
      <4>2. Occupied = Mask /\ \A k \in 0 .. Occupied - 1 : At(k) = At(0) + k
        BY <1>1, <3>1, <4>1 DEF Full, Occupied, Wrap
      <4>3. At(0)' = At(1) /\ At(1) = b + len /\ Occupied' > 0
        BY <1>1, <1>4, <3>0, <4>1, <4>2
      <4>4. head' # tail'
        <5>1. tail' \in 0 .. Mask
          BY <1>1, <1>2 DEF Wrap
        <5> QED
          BY <1>1, <1>2, <4>3, <5>1 DEF Occupied, Wrap
      <4>5. Follows(At(0))'
        BY <1>8, <4>3 DEF Follows
      <4> QED
        BY <4>1, <4>4, <4>5
    <3> QED
      BY <3>2, <3>3
  <2>7. next # "r_wrap" /\ next # "r_entry"
    OBVIOUS
  <2> QED
    BY <2>2, <2>3, <2>4, <2>5, <2>6, <2>7 DEF ReadInv
<1> QED
  BY <1>6, <1>8, <1>10, <1>11 DEF SureInv

-----------------------------------------------------------------------------
(***************************************************************************)
(* The steps of the reader.                                                *)
(***************************************************************************)

\* ReadInv after a step of the one task that reads.
LEMMA ReadIntro ==
    ASSUME OneReader', NEW t \in Tasks, rdtask' \in {t, NoTask},
           pc'[t] \in PcReader =>
              /\ nread' \in {0, 1}
              /\ pc'[t] = "r_entry" => nread' = 0
              /\ nread' = 1 /\ pc'[t] # "r_done" => nleft'[t] = 1
              /\ pc'[t] \in {"r_wrap", "r_rest"} => Shown' <= Occupied'
              /\ pc'[t] = "r_wrap" => h' < tail'
              /\ error' /\ pc'[t] # "r_done" =>
                    /\ head' # tail' /\ Follows(At(0))'
                    /\ nread' = 0 => Full' /\ \A k \in 0 .. Occupied' - 1 : At(k)' = At(0)' + k
    PROVE  ReadInv'
<1>1. \A u \in Tasks : pc'[u] \in PcReader => u = t
  BY DEF OneReader
<1> QED
  BY <1>1 DEF ReadInv

\* Steps of read() that copy nothing.
LEMMA RxLook ==
    ASSUME IntWriter, TypeInv, OneReader, OneReader', SureInv, NEW t \in Tasks,
           REntry(t) \/ RHead(t) \/ RDirect(t) \/ RCheck(t) \/ RDone(t)
    PROVE  SureInv'
<1> USE DEF PcReader, PcWriter, pipeVars, taskVars, localVars, devVars, histVars, callVars,
            Running, Goto, Trap, NoTrapYet
<1>1. /\ IntReader = "none" /\ rdtask = t /\ rdtask' \in {t, NoTask} /\ wrtask = NoTask
      /\ arg[t].len > 0 \/ pc[t] # "r_entry"
      /\ current = t /\ pc[t] \in PcReader \ {"r_wrap", "r_rest"} /\ trap.id = "none"
  <2>1. pc[t] \in PcReader \ {"r_wrap", "r_rest"} /\ current = t /\ phase = "user"
    BY DEF REntry, RHead, RDirect, RCheck, RDone
  <2>2. rdtask = t /\ wrtask = NoTask /\ (pc[t] = "r_entry" => arg[t].len > 0)
    BY <2>1 DEF OneReader
  <2>3. arg[t].len > 0 \/ pc[t] # "r_entry"
    BY <2>2
  <2>4. rdtask' \in {t, NoTask}
    BY <2>2 DEF REntry, RHead, RDirect, RCheck, RDone
  <2>5. trap.id = "none"
    BY <2>1, TaskFacts
  <2> QED
    BY <2>1, <2>2, <2>3, <2>4, <2>5
<1>2. /\ head \in 0 .. Mask /\ tail \in 0 .. Mask /\ Occupied \in 0 .. Mask
      /\ nleft \in [Tasks -> Nat]
      /\ pc \in [Tasks -> {"user"} \cup PcReader \cup PcWriter]
      /\ Offered \in Int
  BY <1>1, TaskFacts, RingRange, OfferedInt
<1>3. /\ nread \in {0, 1}
      /\ pc[t] = "r_entry" => nread = 0
      /\ nread = 1 /\ pc[t] # "r_done" => nleft[t] = 1
      /\ error /\ pc[t] # "r_done" =>
              /\ head # tail /\ Follows(At(0))
              /\ nread = 0 => Full /\ \A k \in 0 .. Occupied - 1 : At(k) = At(0) + k
  BY <1>1 DEF SureInv, ReadInv
<1>4. UNCHANGED <<head, tail, buf, error, out, accepted, dev>>
  BY <1>1 DEF REntry, RHead, RDirect, RCheck, RDone
<1>5. Offered' = Offered
  BY <1>4 DEF Offered
<1>6. /\ Occupied' = Occupied /\ Full' = Full
      /\ \A k \in Int : At(k)' = At(k)
  BY <1>4, <1>5, RxFrame
<1>7. Follows(At(0)) => Follows(At(0))'
  BY <1>4 DEF Follows, At, Wrap
<1>8. CASE REntry(t)
  <2>1. pc'[t] = "r_head" /\ nread' = nread /\ nread = 0
    BY <1>1, <1>2, <1>3, <1>8 DEF REntry
  <2>2. ReadInv'
    BY <1>1, <1>2, <1>3, <1>4, <1>6, <1>7, <1>8, <2>1, ReadIntro DEF REntry
  <2> QED
    BY <1>1, <1>4, <1>5, <2>2, SureFrame
<1>9. CASE RHead(t)
  <2>1. /\ pc'[t] \in {"r_wrap", "r_rest"} /\ nread' = nread /\ nleft' = nleft /\ h' = head
        /\ pc'[t] = "r_wrap" => head < tail
    BY <1>2, <1>9 DEF RHead, Wrapped
  <2>2. Shown' = Occupied
    BY <1>4, <2>1 DEF Shown, Occupied, Wrap
  <2>3. ReadInv'
    BY <1>1, <1>2, <1>3, <1>4, <1>6, <1>7, <1>9, <2>1, <2>2, ReadIntro DEF RHead
  <2> QED
    BY <1>1, <1>4, <1>5, <2>3, SureFrame
<1>10. CASE RDirect(t)
  <2>1. pc'[t] = "r_check" /\ nread' = nread /\ nleft' = nleft
    BY <1>1, <1>2, <1>10 DEF RDirect
  <2>2. ReadInv'
    BY <1>1, <1>2, <1>3, <1>4, <1>6, <1>7, <1>10, <2>1, ReadIntro DEF RDirect
  <2> QED
    BY <1>1, <1>4, <1>5, <2>2, SureFrame
<1>11. CASE RCheck(t)
  <2>1. pc'[t] = "r_head" /\ nread' = nread /\ nleft' = nleft
    BY <1>1, <1>2, <1>11 DEF RCheck
  <2>2. ReadInv'
    BY <1>1, <1>2, <1>3, <1>4, <1>6, <1>7, <1>11, <2>1, ReadIntro DEF RCheck
  <2> QED
    BY <1>1, <1>4, <1>5, <2>2, SureFrame
<1>12. CASE RDone(t)
  <2>1. pc'[t] = "user"
    BY <1>1, <1>2, <1>12 DEF RDone
  <2>2. ReadInv'
    BY <1>1, <2>1, ReadIntro
  <2> QED
    BY <1>1, <1>4, <1>5, <2>2, SureFrame
<1> QED
  BY <1>8, <1>9, <1>10, <1>11, <1>12

\* The copies of read().
LEMMA RxCopy ==
    ASSUME IntWriter, TypeInv, OneReader, OneReader', OrderInv, SureInv, NEW t \in Tasks,
           RWrap(t) \/ RRest(t)
    PROVE  OrderInv' /\ SureInv'
<1>1. /\ current = t /\ phase = "user" /\ pc[t] \in {"r_wrap", "r_rest"}
      /\ RWrap(t) => pc[t] = "r_wrap"
      /\ RRest(t) => pc[t] = "r_rest"
  BY DEF RWrap, RRest, Running
<1>2. /\ trap.id = "none" /\ head \in 0 .. Mask /\ tail \in 0 .. Mask /\ h \in 0 .. Mask
      /\ nleft[t] \in Nat /\ Occupied \in 0 .. Mask
      /\ pc[t] = "r_rest" => h >= tail
  BY <1>1, TaskFacts, RingRange
<1>3. Shown <= Occupied /\ (pc[t] = "r_wrap" => h < tail)
  BY <1>1, <1>2 DEF SureInv, ReadInv, PcReader
<1>4. CASE RWrap(t)
  <2> DEFINE len == MinOf(Size - tail, nleft[t])
             next == IF nleft[t] = len THEN "r_done" ELSE "r_rest"
  <2>1. h < tail /\ Wrap(h - tail + Size) <= Occupied
    BY <1>1, <1>3, <1>4 DEF Shown
  <2>2. len \in Nat /\ tail + len <= Size /\ len <= nleft[t] /\ len <= Occupied
    BY <1>2, <2>1 DEF MinOf, Wrap
  <2>3. nleft[t] # len => len > 0 /\ Wrap(h - NextTail(len) + Size) <= Occupied - len
    BY <1>2, <2>1 DEF MinOf, NextTail, Wrap
  <2>4. CopyOut(t, len, next)
    BY <1>4 DEF RWrap
  <2> HIDE DEF len
  <2>5. next \in {"r_rest", "r_direct", "r_done"} /\ (nleft[t] = len <=> next = "r_done")
    OBVIOUS
  <2>6. next = "r_rest" => len > 0 /\ Wrap(h - NextTail(len) + Size) <= Occupied - len
    BY <2>3
  <2> HIDE DEF next
  <2> QED
    BY <1>1, <1>2, <2>2, <2>4, <2>5, <2>6, CopyRead
<1>5. CASE RRest(t)
  <2> DEFINE len == MinOf(h - tail, nleft[t])
             next == IF nleft[t] = len THEN "r_done" ELSE "r_direct"
  <2>1. h >= tail /\ Wrap(h - tail + Size) <= Occupied
    BY <1>1, <1>2, <1>3, <1>5 DEF Shown
  <2>2. len \in Nat /\ tail + len <= Size /\ len <= nleft[t] /\ len <= Occupied
    BY <1>2, <2>1 DEF MinOf, Wrap
  <2>3. CopyOut(t, len, next)
    BY <1>5 DEF RRest
  <2> HIDE DEF len
  <2>4. /\ next \in {"r_rest", "r_direct", "r_done"} /\ (nleft[t] = len <=> next = "r_done")
        /\ next # "r_rest"
    OBVIOUS
  <2> HIDE DEF next
  <2> QED
    BY <1>1, <1>2, <2>2, <2>3, <2>4, CopyRead
<1> QED
  BY <1>4, <1>5

-----------------------------------------------------------------------------
(***************************************************************************)
(* The steps of the kernel.                                                *)
(***************************************************************************)

\* The receiver's interrupt, between any two instructions of a read.
LEMMA RxPush ==
    ASSUME IntWriter, TypeInv, OrderInv, SureInv, KIrqRx
    PROVE  OrderInv' /\ SureInv'
<1>1. /\ head \in 0 .. Mask /\ tail \in 0 .. Mask /\ buf \in [0 .. Mask -> Byte]
      /\ Occupied \in 0 .. Mask /\ (head # tail <=> Occupied > 0)
      /\ accepted \in Nat /\ Offered \in Int /\ h \in 0 .. Mask
  BY TaskFacts, RingRange, OfferedInt
<1>2. /\ UNCHANGED <<tail, out, accepted, nread, nleft, pc, h, trap>>
      /\ dev /\ ~dev' /\ KPush(accepted - 1)
  BY DEF KIrqRx, Served, localVars
<1>3. Offered' = Offered + 1 /\ Offered = accepted - 1
  <2>1. Offered = accepted - 1
    BY <1>2 DEF Offered
  <2>2. Offered' = accepted - 0
    BY <1>2 DEF Offered
  <2> QED
    BY <1>1, <2>1, <2>2
<1>4. \A d \in Int : Follows(d)' = Follows(d)
  BY <1>2 DEF Follows
<1>5. Shown' = Shown
  BY <1>2 DEF Shown, Wrap
<1>6. GapsReported' /\ NoRepeats'
  BY <1>2 DEF GapsReported, NoRepeats, SureInv, OrderInv
<1>7. CASE ~Full
  <2>1. /\ buf' = [buf EXCEPT ![head] = Offered] /\ head' = Wrap(head + 1) /\ error' = error
    BY <1>2, <1>3, <1>7 DEF KPush
  <2>2. /\ Occupied' = Occupied + 1 /\ head' # tail'
        /\ \A k \in 0 .. Occupied - 1 : At(k)' = At(k)
        /\ \A k \in {Occupied} : At(k)' = Offered
    BY <1>1, <1>2, <1>7, <2>1, PushRing
  <2>3. \A k \in 0 .. Occupied' - 1 : k \in 0 .. Occupied - 1 \/ k = Occupied
    BY <1>1, <2>2
  <2>4. OrderInv'
    <3>1. /\ Offered >= 0 /\ \A i \in DOMAIN out : out[i] < Offered
          /\ \A k \in 0 .. Occupied - 1 :
                /\ 0 <= At(k) /\ At(k) < Offered
                /\ \A i \in DOMAIN out : out[i] < At(k)
                /\ \A l \in 0 .. k - 1 : At(l) < At(k)
      BY DEF OrderInv
    <3>2. out \in Seq(Int) /\ \A i \in DOMAIN out : out[i] \in Int
      <4>1. out \in Seq(Int)
        BY TaskFacts
      <4> QED
        BY <4>1
    <3>3. \A i \in DOMAIN out' : out'[i] < Offered'
      <4>1. \A i \in DOMAIN out : out[i] < Offered + 1
        BY <1>1, <3>1, <3>2
      <4> QED
        BY <1>2, <1>3, <4>1
    <3>4. ASSUME NEW k \in 0 .. Occupied - 1
          PROVE  /\ 0 <= At(k)' /\ At(k)' < Offered'
                 /\ \A i \in DOMAIN out' : out'[i] < At(k)'
                 /\ \A l \in 0 .. k - 1 : At(l)' < At(k)'
      <4>1. \A l \in 0 .. k - 1 : At(l)' = At(l)
        BY <1>1, <2>2
      <4>2. At(k)' = At(k) /\ At(k) \in Int
        <5>1. Wrap(tail + k) \in 0 .. Mask
          BY <1>1 DEF Wrap, Occupied
        <5>2. At(k) \in Int
          BY <1>1, <5>1 DEF At, Byte, Blank
        <5> QED
          BY <2>2, <5>2
      <4>3. At(k) < Offered + 1
        BY <1>1, <3>1, <4>2
      <4> QED
        BY <1>2, <1>3, <3>1, <4>1, <4>2, <4>3
    <3>5. ASSUME NEW k \in {Occupied}
          PROVE  /\ 0 <= At(k)' /\ At(k)' < Offered'
                 /\ \A i \in DOMAIN out' : out'[i] < At(k)'
                 /\ \A l \in 0 .. k - 1 : At(l)' < At(k)'
      <4>1. At(k)' = Offered
        BY <2>2
      <4>2. \A l \in 0 .. k - 1 : At(l)' = At(l) /\ At(l) < Offered
        BY <1>1, <2>2, <3>1
      <4> QED
        BY <1>1, <1>2, <1>3, <3>1, <4>1, <4>2
    <3> QED
      BY <1>1, <1>3, <1>6, <2>3, <3>1, <3>3, <3>4, <3>5 DEF OrderInv
  <2>5. ASSUME ~error'
        PROVE  /\ Follows(Offered - Occupied)'
               /\ \A k \in 0 .. Occupied' - 1 : At(k)' = Offered' - Occupied' + k
    <3>1. /\ Follows(Offered - Occupied)
          /\ \A k \in 0 .. Occupied - 1 : At(k) = Offered - Occupied + k
      BY <2>1, <2>5 DEF SureInv
    <3>2. Offered' - Occupied' = Offered - Occupied
      BY <1>1, <1>3, <2>2
    <3>3. \A k \in 0 .. Occupied - 1 : At(k)' = Offered - Occupied + k
      BY <2>2, <3>1
    <3>4. \A k \in {Occupied} : At(k)' = Offered - Occupied + k
      BY <1>1, <2>2
    <3>5. Follows(Offered - Occupied)'
      BY <1>2, <3>1, <3>2 DEF Follows
    <3> QED
      BY <2>3, <3>2, <3>3, <3>4, <3>5
  <2>6. ASSUME trap'.id # "EXIT", NEW t \in Tasks, pc'[t] \in PcReader
        PROVE  /\ nread' \in {0, 1}
               /\ pc'[t] = "r_entry" => nread' = 0
               /\ nread' = 1 /\ pc'[t] # "r_done" => nleft'[t] = 1
               /\ pc'[t] \in {"r_wrap", "r_rest"} => Shown' <= Occupied'
               /\ pc'[t] = "r_wrap" => h' < tail'
               /\ error' /\ pc'[t] # "r_done" =>
                     /\ head' # tail' /\ Follows(At(0))'
                     /\ nread' = 0 => Full' /\ \A k \in 0 .. Occupied' - 1 : At(k)' = At(0)' + k
    <3>1. /\ nread \in {0, 1}
          /\ pc[t] = "r_entry" => nread = 0
          /\ nread = 1 /\ pc[t] # "r_done" => nleft[t] = 1
          /\ pc[t] \in {"r_wrap", "r_rest"} => Shown <= Occupied
          /\ pc[t] = "r_wrap" => h < tail
          /\ error /\ pc[t] # "r_done" =>
                /\ head # tail /\ Follows(At(0))
                /\ nread = 0 => Full
      BY <1>2, <2>6 DEF SureInv, ReadInv
    <3>2. pc[t] \in {"r_wrap", "r_rest"} => Shown' <= Occupied'
      <4>1. Shown \in Int
        BY <1>1 DEF Shown, Wrap
      <4> QED
        BY <1>1, <1>5, <2>2, <3>1, <4>1
    <3>3. error' /\ pc'[t] # "r_done" =>
             head' # tail' /\ Follows(At(0))' /\ nread' # 0
      <4> SUFFICES ASSUME error', pc'[t] # "r_done"
                   PROVE  head' # tail' /\ Follows(At(0))' /\ nread' # 0
        OBVIOUS
      <4>1. head # tail /\ Follows(At(0)) /\ nread # 0
        BY <1>2, <1>7, <2>1, <3>1
      <4>2. At(0)' = At(0)
        BY <1>1, <2>2, <4>1
      <4> QED
        BY <1>2, <2>2, <4>1, <4>2 DEF Follows
    <3> QED
      BY <1>2, <3>1, <3>2, <3>3
  <2> QED
    BY <1>6, <2>4, <2>5, <2>6 DEF SureInv, ReadInv
<1>8. CASE Full
  <2>1. UNCHANGED <<head, tail, buf, out>> /\ error'
    BY <1>2, <1>8 DEF KPush
  <2>2. Occupied' = Occupied /\ Full' = Full /\ \A k \in Int : At(k)' = At(k)
    BY <2>1 DEF Occupied, Full, At, Wrap
  <2>3. OrderInv'
    <3>1. \A i \in DOMAIN out : out[i] < Offered + 1
      <4>1. out \in Seq(Int)
        BY TaskFacts
      <4> QED
        BY <1>1, <4>1 DEF OrderInv
    <3>2. \A k \in 0 .. Occupied - 1 : At(k) < Offered + 1
      <4>1. \A k \in 0 .. Occupied - 1 : At(k) \in Int
        <5>1. \A k \in 0 .. Occupied - 1 : Wrap(tail + k) \in 0 .. Mask
          BY <1>1 DEF Wrap, Occupied
        <5> QED
          BY <1>1, <5>1 DEF At, Byte, Blank
      <4> QED
        BY <1>1, <4>1 DEF OrderInv
    <3>3. Offered + 1 >= 0
      BY <1>1 DEF OrderInv
    <3> QED
      BY <1>1, <1>3, <1>6, <2>1, <2>2, <3>1, <3>2, <3>3 DEF OrderInv
  <2>4. head # tail /\ 0 \in 0 .. Occupied - 1
    BY <1>1, <1>8 DEF Full, Wrap
  <2>5. ASSUME trap'.id # "EXIT", NEW t \in Tasks, pc'[t] \in PcReader
        PROVE  /\ nread' \in {0, 1}
               /\ pc'[t] = "r_entry" => nread' = 0
               /\ nread' = 1 /\ pc'[t] # "r_done" => nleft'[t] = 1
               /\ pc'[t] \in {"r_wrap", "r_rest"} => Shown' <= Occupied'
               /\ pc'[t] = "r_wrap" => h' < tail'
               /\ error' /\ pc'[t] # "r_done" =>
                     /\ head' # tail' /\ Follows(At(0))'
                     /\ nread' = 0 => Full' /\ \A k \in 0 .. Occupied' - 1 : At(k)' = At(0)' + k
    <3>1. /\ nread \in {0, 1}
          /\ pc[t] = "r_entry" => nread = 0
          /\ nread = 1 /\ pc[t] # "r_done" => nleft[t] = 1
          /\ pc[t] \in {"r_wrap", "r_rest"} => Shown <= Occupied
          /\ pc[t] = "r_wrap" => h < tail
          /\ error /\ pc[t] # "r_done" =>
                /\ Follows(At(0))
                /\ nread = 0 => \A k \in 0 .. Occupied - 1 : At(k) = At(0) + k
      BY <1>2, <2>5 DEF SureInv, ReadInv
    <3>2. pc[t] # "r_done" =>
             /\ Follows(At(0))
             /\ nread = 0 => \A k \in 0 .. Occupied - 1 : At(k) = At(0) + k
      <4>1. CASE error
        BY <3>1, <4>1
      <4>2. CASE ~error
        <5>1. /\ Follows(Offered - Occupied)
              /\ \A k \in 0 .. Occupied - 1 : At(k) = Offered - Occupied + k
          BY <4>2 DEF SureInv
        <5>2. At(0) = Offered - Occupied
          BY <1>1, <2>4, <5>1
        <5> QED
          BY <5>1, <5>2
      <4> QED
        BY <4>1, <4>2
    <3>3. Follows(At(0)) => Follows(At(0))'
      BY <2>1 DEF Follows, At, Wrap
    <3> QED
      BY <1>1, <1>2, <1>5, <1>8, <2>1, <2>2, <2>4, <3>1, <3>2, <3>3
  <2> QED
    BY <1>6, <2>1, <2>3, <2>5 DEF SureInv, ReadInv
<1> QED
  BY <1>7, <1>8

\* read() reports the loss, and drops what the ring holds.
LEMMA RxReport ==
    ASSUME IntWriter, TypeInv, OneReader, OneReader', OrderInv, SureInv, KReadError
    PROVE  OrderInv' /\ SureInv'
<1> USE DEF PcReader
<1>1. /\ head \in 0 .. Mask /\ out \in Seq(Int) /\ Offered \in Int /\ Offered >= 0
  BY TaskFacts, OfferedInt DEF OrderInv
<1>2. /\ UNCHANGED <<head, rdtask, accepted, dev, pc>> /\ rdtask = NoTask
      /\ tail' = head /\ ~error' /\ out' = Append(out, EIO)
  BY DEF KReadError, Handle, devVars
<1> DEFINE n == Len(out)
           s == out'
<1>3. /\ n \in Nat /\ DOMAIN out = 1 .. n
      /\ s \in Seq(Int) /\ DOMAIN s = 1 .. n + 1 /\ Len(s) = n + 1
      /\ \A i \in 1 .. n : s[i] = out[i]
      /\ s[n + 1] = EIO
  BY <1>1, <1>2 DEF EIO
<1>4. \A i \in 1 .. n + 1 : i \in 1 .. n \/ i = n + 1
  BY <1>3
<1>5. Occupied' = 0 /\ Offered' = Offered
  BY <1>1, <1>2 DEF Occupied, Offered, Wrap
<1> HIDE DEF n, s
<1>6. NoRepeats'
  <2> SUFFICES ASSUME NEW i \in 1 .. n + 1, NEW j \in 1 .. n + 1, i < j,
                      s[i] # EIO, s[j] # EIO
               PROVE  s[i] < s[j]
    BY <1>3 DEF NoRepeats, s
  <2>1. i \in DOMAIN out /\ j \in DOMAIN out /\ s[i] = out[i] /\ s[j] = out[j]
    BY <1>3, <1>4
  <2> QED
    BY <2>1 DEF OrderInv, NoRepeats
<1>7. GapsReported'
  <2> SUFFICES ASSUME NEW i \in 1 .. n + 1
               PROVE  \/ s[i] = EIO
                      \/ i = 1 /\ s[i] = 0
                      \/ i > 1 /\ (s[i-1] = EIO \/ s[i] = s[i-1] + 1)
    BY <1>3 DEF GapsReported, s
  <2>1. CASE i = n + 1
    BY <1>3, <2>1
  <2>2. CASE i \in 1 .. n
    <3>1. i \in DOMAIN out /\ s[i] = out[i] /\ (i > 1 => s[i-1] = out[i-1])
      BY <1>3, <2>2
    <3> QED
      BY <3>1 DEF SureInv, GapsReported
  <2> QED
    BY <1>4, <2>1, <2>2
<1>8. \A i \in 1 .. n + 1 : s[i] < Offered
  <2>1. \A i \in 1 .. n : s[i] < Offered
    BY <1>3 DEF OrderInv
  <2>2. EIO < Offered
    BY <1>1 DEF EIO
  <2> QED
    BY <1>3, <1>4, <2>1, <2>2
<1>9. OrderInv'
  BY <1>1, <1>3, <1>5, <1>6, <1>8 DEF OrderInv, s
<1>10. Follows(Offered - Occupied)'
  <2>1. s # <<>> /\ s[Len(s)] = EIO
    BY <1>3
  <2> QED
    BY <2>1 DEF Follows, s
<1>11. ReadInv'
  BY <1>2 DEF OneReader, ReadInv
<1> QED
  BY <1>5, <1>7, <1>9, <1>10, <1>11 DEF SureInv

-----------------------------------------------------------------------------
\* A read of the receiver's pipe reports every loss, and never returns a byte
\* twice or late (syspipe.c:388), wherever in read() the receiver's interrupts
\* come and however many bytes they drop: the pipe is written by the kernel
\* alone (kernel.c:156), and any number of tasks may open it for reading.
THEOREM RxReadsAreHonest ==
    ASSUME IntWriter, Writers = {}
    PROVE  Spec => []ReadsAreHonest
<1> USE DEF PcReader, PcWriter
<1>0. IntReader = "none"
  OBVIOUS
<1>1. Init => RxInv
  <2> SUFFICES ASSUME Init PROVE RxInv
    OBVIOUS
  <2>1. /\ head = 0 /\ tail = 0 /\ ~error /\ out = <<>> /\ accepted = 0 /\ ~dev
        /\ wrtask = NoTask /\ rdtask = NoTask /\ trap.id = "none"
        /\ \A t \in Tasks : pc[t] = "user"
    BY <1>0 DEF Init, NoTrap
  <2>2. Occupied = 0 /\ Offered = 0
    <3>1. Offered = 0
      BY <2>1, accepted - 0 = 0 DEF Offered
    <3> QED
      BY <2>1, <3>1 DEF Occupied, Wrap
  <2>3. OneReader
    BY <2>1 DEF OneReader
  <2>4. OrderInv
    BY <2>1, <2>2 DEF OrderInv, NoRepeats
  <2>5. SureInv
    BY <2>1, <2>2 DEF SureInv, GapsReported, Follows, ReadInv
  <2> QED
    BY <2>3, <2>4, <2>5 DEF RxInv
<1>2. TypeInv /\ RxInv /\ [Next]_vars => RxInv'
  <2> SUFFICES ASSUME TypeInv, RxInv, [Next]_vars PROVE RxInv'
    OBVIOUS
  <2> USE DEF pipeVars, taskVars, localVars, kernelVars, devVars, histVars, callVars,
              Running, Goto, Trap, NoTrapYet
  <2>1. OneReader /\ OrderInv /\ SureInv /\ OneReader'
    BY OneReaderStep DEF RxInv
  <2>2. ASSUME UNCHANGED <<head, tail, buf, error, out>>, Offered' = Offered,
               trap'.id # "EXIT" => ReadInv'
        PROVE  RxInv'
    BY <1>0, <2>1, <2>2, RxFrame, SureFrame DEF RxInv
  <2>3. ASSUME UNCHANGED <<head, tail, buf, error, out, nread, pc, nleft, h>>, Offered' = Offered,
               trap.id # "EXIT" \/ trap'.id = "EXIT"
        PROVE  RxInv'
    <3>1. trap'.id # "EXIT" => ReadInv'
      BY <1>0, <2>1, <2>3, ReadKept DEF SureInv
    <3> QED
      BY <2>2, <2>3, <3>1
  <2>4. CASE \E t \in Tasks : Calls(t)
    <3>1. UNCHANGED <<accepted, dev>> => Offered' = Offered
      BY DEF Offered
    <3>2. trap.id # "EXIT"
      BY <1>0, <2>4, TaskFacts DEF Calls, Read, Write, Yield
    <3> QED
      BY <2>3, <2>4, <3>1, <3>2 DEF Calls, Read, Write, Yield
  <2>5. CASE \E t \in Tasks : URead(t)
    <3>1. PICK t \in Tasks : URead(t)
      BY <2>5
    <3>2. CASE RWrap(t) \/ RRest(t)
      BY <2>1, <3>2, RxCopy DEF RxInv
    <3>3. CASE REntry(t) \/ RHead(t) \/ RDirect(t) \/ RCheck(t) \/ RDone(t)
      <4>1. wrtask = NoTask
        BY <2>1 DEF OneReader
      <4>2. UNCHANGED <<head, tail, buf, error, out, accepted, dev>>
        BY <3>3, <4>1 DEF REntry, RHead, RDirect, RCheck, RDone
      <4>3. Offered' = Offered
        BY <4>2 DEF Offered
      <4> QED
        BY <2>1, <3>3, <4>2, <4>3, RxLook, RxFrame DEF RxInv
    <3> QED
      BY <3>1, <3>2, <3>3 DEF URead
  <2>6. CASE \E t \in Tasks : UWrite(t)
    BY <2>1, <2>6 DEF OneReader, UWrite, WEntry, WDirect, WAvail, WFill, WCheck, WDone
  <2>7. CASE Interrupt \/ KSched
    <3>1. trap.id # "EXIT"
      BY <1>0, <2>7, TaskFacts DEF Interrupt, KSched
    <3>2. UNCHANGED <<accepted, dev>> => Offered' = Offered
      BY DEF Offered
    <3> QED
      BY <2>3, <2>7, <3>1, <3>2 DEF Interrupt, KSched
  <2>8. CASE \E active \in BOOLEAN : KIrq(active)
    <3>1. CASE KIrqRx
      BY <2>1, <3>1, RxPush DEF RxInv
    <3>2. CASE \E active \in BOOLEAN : KIrqIdle(active)
      <4>1. UNCHANGED <<accepted, dev>> => Offered' = Offered
        BY DEF Offered
      <4> QED
        BY <2>3, <3>2, <4>1 DEF KIrqIdle, Served
    <3> QED
      BY <1>0, <2>8, <3>1, <3>2 DEF KIrq, KIrqTx, KIrqEcho, KIrqAudio, KStartAudio
  <2>9. CASE KNoTrap \/ KWait \/ KExit \/ KReadHalt
    <3>1. UNCHANGED <<accepted, dev>> => Offered' = Offered
      BY DEF Offered
    <3> QED
      BY <2>3, <2>9, <3>1 DEF KNoTrap, KWait, KExit, KReadHalt, Handle
  <2>10. CASE KReadError
    BY <2>1, <2>10, RxReport DEF RxInv
  <2>11. CASE KRead
    <3>1. /\ UNCHANGED <<head, tail, buf, error, out, accepted, dev>> /\ ~error
          /\ current \in Tasks /\ pc' = [pc EXCEPT ![current] = "r_entry"]
          /\ rdtask' = current /\ nread' = 0
      BY <1>0, <2>11, TaskFacts DEF KRead, Handle, TakeReadEnd
    <3>2. pc'[current] = "r_entry"
      BY <1>0, <3>1, TaskFacts
    <3>3. ReadInv'
      BY <2>1, <3>1, <3>2, ReadIntro
    <3>4. Offered' = Offered
      BY <3>1 DEF Offered
    <3> QED
      BY <2>2, <3>1, <3>3, <3>4
  <2>12. CASE KWriteFail \/ KWrite
    BY <2>1, <2>12 DEF OneReader, KWriteFail, KWrite, Handle
  <2>13. CASE RxArrive
    <3>1. accepted \in Nat /\ accepted' = accepted + 1 /\ ~dev /\ dev'
      BY <1>0, <2>13, TaskFacts DEF RxArrive
    <3>2. Offered = accepted - 0 /\ Offered' = accepted' - 1
      BY <3>1 DEF Offered
    <3>3. Offered' = Offered
      BY <3>1, <3>2
    <3> QED
      BY <2>3, <2>13, <3>3 DEF RxArrive
  <2>14. CASE DeviceReady
    BY <1>0, <2>14 DEF DeviceReady
  <2>15. CASE UNCHANGED vars
    <3>1. UNCHANGED <<accepted, dev>> => Offered' = Offered
      BY DEF Offered
    <3> QED
      BY <2>3, <2>15, <3>1 DEF vars
  <2> QED
    BY <2>4, <2>5, <2>6, <2>7, <2>8, <2>9, <2>10, <2>11, <2>12, <2>13, <2>14, <2>15
       DEF Next, Kernel, KTrap
<1>3. RxInv => ReadsAreHonest
  BY DEF RxInv, OrderInv, SureInv, ReadsAreHonest
<1> QED
  BY <1>1, <1>2, <1>3, TypeInvariant, PTL DEF Spec

-----------------------------------------------------------------------------
(***************************************************************************)
(* The inductive invariant.                                                *)
(***************************************************************************)

\* A task that has left the CPU in the middle of a call did so by wait(), and
\* its saved registers hold the arguments of wait().
Slept(t) == t # current \/ (trap.id = "WAIT" /\ phase = "sched")

\* What a copy relies on: no other task has moved head or tail since they were
\* looked at, and the saved call of the other side is what it has not copied.
CopyInv ==
    /\ ~error
    /\ trap.id \in {"READ", "WRITE", "YIELD"} => pc[current] \in {"user", "r_entry", "w_entry"}
    /\ rdtask \in Tasks => /\ pc[rdtask] \in PcReader
                           /\ pc[rdtask] = "r_entry" => arg[rdtask].len > 0
    /\ wrtask \in Tasks => /\ pc[wrtask] \in PcWriter
                           /\ pc[wrtask] = "w_entry" => arg[wrtask].len > 0
    /\ \A t \in Tasks :
          /\ pc[t] \in {"r_wrap", "r_rest"} /\ trap.id = "none" => h = head
          /\ pc[t] = "r_wrap" /\ trap.id = "none" => head < tail
          /\ pc[t] = "w_fill" => navail = NumAvail
          /\ pc[t] \in {"r_done", "w_done"} => nleft[t] = 0
          /\ pc[t] \notin {"user", "r_entry", "w_entry"} /\ Slept(t) => arg[t].len = 0

\* The bytes in a sequence, those that the ring holds, and those that task t
\* has been given by a call but not copied.
Injective(s) == \A i, j \in 1 .. Len(s) : s[i] = s[j] => i = j
Elements(s) == {s[i] : i \in 1 .. Len(s)}
Interval(n, len) == n .. n + len - 1
Kept(t) == IF pc[t] = "w_entry" THEN Interval(arg[t].src, arg[t].len)
           ELSE IF pc[t] \in PcWriter THEN Interval(src[t], nleft[t])
           ELSE {}
KeptBy == [t \in Tasks |-> Kept(t)]

\* Each of the first n bytes is delivered, in the ring, or kept by one task.
Parted(D, R, K, n) ==
    /\ D \cap R = {}
    /\ \A t \in Tasks : K[t] \cap D = {} /\ K[t] \cap R = {}
    /\ \A t, u \in Tasks : t # u => K[t] \cap K[u] = {}
    /\ \A m : (m \in D \/ m \in R \/ \E t \in Tasks : m \in K[t]) <=> m \in 0 .. n - 1

PlaceInv == /\ Injective(out) /\ Injective(Contents)
            /\ Parted(Elements(out), Elements(Contents), KeptBy, accepted)

-----------------------------------------------------------------------------
(***************************************************************************)
(* One task reads and one writes.                                          *)
(***************************************************************************)

ToRead(t) == IF pc[t] = "r_entry" THEN arg[t].len ELSE nleft[t]
ToWrite(t) == IF pc[t] = "w_entry" THEN arg[t].len ELSE nleft[t]

\* The application opens the display's pipe once for writing and once for
\* reading (doorbell.c:212, 231).
OneOfEach == /\ \A t, u \in Readers : t = u
             /\ \A t, u \in Writers : t = u

\* A call has read or written what it was asked to but for what is left.
ReadCount(t) == pc[t] \in PcReader => t \in Readers /\ nread + ToRead(t) = asked[t]
WriteCount(t) == pc[t] \in PcWriter => t \in Writers /\ nwritten + ToWrite(t) = asked[t]
CallPending(t) == t = current /\ trap.id \in {"READ", "WRITE"} /\ phase \in {"irq", "trap"}
ReturnCount(t) == pc[t] = "user" /\ ret[t] >= 0 => ret[t] = asked[t] \/ CallPending(t)

CountInv ==
    /\ trap.id \in {"READ", "WRITE"} /\ phase \in {"irq", "trap"}
          => /\ asked[current] = trap.len
             /\ current \in (IF trap.id = "READ" THEN Readers ELSE Writers)
    /\ \A t \in Tasks : ReadCount(t) /\ WriteCount(t) /\ ReturnCount(t)

\* Task w looks at its buffer again though nothing is left of it to write: a
\* reader has taken all of it.
Emptied(w) == \/ pc[w] = "w_entry" /\ arg[w].len = 0
              \/ pc[w] \in {"w_top", "w_avail", "w_fill"} /\ nleft[w] = 0

\* A writer is filling the ring, and does not give up the CPU before it has.
Filling == /\ current \in Tasks /\ trap.id = "none"
           /\ pc[current] \in {"w_top", "w_avail", "w_fill"} /\ nleft[current] > 0

\* A reader about to sleep has the read end and an empty ring; one that has
\* lost the read end in the middle of its call wants one byte, and gets it.
ReaderKept(r) ==
    /\ pc[r] \in {"r_direct", "r_check"} => nleft[r] = 1 /\ head = tail /\ rdtask = r
    /\ pc[r] = "r_head" /\ (r # current \/ trap.id = "WAIT") => nleft[r] = 1
    /\ pc[r] = "r_entry" /\ rdtask # r => arg[r].len = 0
    /\ pc[r] \in {"r_head", "r_wrap", "r_rest"} /\ rdtask # r
          => nleft[r] = 1 /\ (head # tail \/ (pc[r] = "r_head" /\ Filling))

\* A writer about to sleep has the write end; one that has lost it in the
\* middle of its call has room in the ring, and finishes.
WriterKept(w) ==
    /\ pc[w] = "w_check" => nleft[w] > 0 /\ wrtask = w
    /\ pc[w] = "w_entry" /\ wrtask # w => arg[w].len = 0
    /\ pc[w] \in {"w_top", "w_avail", "w_fill"} /\ nleft[w] > 0 /\ wrtask # w
          => head = tail \/ nleft[w] <= NumAvail
    /\ Emptied(w) => /\ wrtask # w /\ head = tail
                     /\ \A r \in Tasks : pc[r] \in PcReader
                           => pc[r] = "r_done" \/ (pc[r] = "r_entry" /\ state[r] = "WAITING")

\* Until the debugging checks stop the machine (syspipe.c:159).
SleepInv ==
    trap.id # "EXIT" =>
        /\ \A t \in Tasks : state[t] = "WAITING" => t \in {rdtask, wrtask}
        /\ trap.id = "WAIT" /\ phase \in {"irq", "trap"} => current \in {rdtask, wrtask}
        /\ \A t \in Tasks : ReaderKept(t) /\ WriterKept(t)

-----------------------------------------------------------------------------
(***************************************************************************)
(* What a copy relies on.                                                  *)
(***************************************************************************)

\* CopyInv after a step of the running task t in user mode, from what the step
\* did to that task and to the saved calls of the others.
LEMMA CopyUserIntro ==
    ASSUME TypeInv, CopyInv, IntReader = "none", NEW t \in Tasks,
           phase = "user", current = t, current' = t, phase' # "sched", ~error',
           \A u \in Tasks : u # t => pc'[u] = pc[u] /\ (arg[u].len = 0 => arg'[u].len = 0),
           trap'.id \in {"READ", "WRITE", "YIELD"} => pc'[t] = "user",
           rdtask' \in Tasks => /\ pc'[rdtask'] \in PcReader
                                /\ pc'[rdtask'] = "r_entry" => arg'[rdtask'].len > 0,
           wrtask' \in Tasks => /\ pc'[wrtask'] \in PcWriter
                                /\ pc'[wrtask'] = "w_entry" => arg'[wrtask'].len > 0,
           pc'[t] \in {"r_wrap", "r_rest"} /\ trap'.id = "none" => h' = head',
           pc'[t] = "r_wrap" /\ trap'.id = "none" => head' < tail',
           pc'[t] = "w_fill" => navail' = NumAvail',
           pc'[t] \in {"r_done", "w_done"} => nleft'[t] = 0
    PROVE  CopyInv'
<1>1. ASSUME NEW u \in Tasks, u # t
      PROVE  /\ pc'[u] \in Resting
             /\ pc'[u] \notin {"user", "r_entry", "w_entry"} => arg'[u].len = 0
  BY <1>1, TaskFacts DEF CopyInv, Slept
<1>2. ~Slept(t)'
  BY DEF Slept
<1> QED
  BY <1>1, <1>2 DEF CopyInv, Resting

\* A step of a task in its user code, in read() or in write().
LEMMA CopyUser ==
    ASSUME TypeInv, CopyInv, IntReader = "none", ~IntWriter, NEW t \in Tasks,
           Calls(t) \/ URead(t) \/ UWrite(t)
    PROVE  CopyInv'
<1> USE DEF PcReader, PcWriter, pipeVars, taskVars, localVars, devVars, histVars, callVars,
            Running, Goto, Trap, NoTrapYet
<1>1. /\ phase = "user" /\ current = t /\ current' = t /\ phase' # "sched" /\ trap.id = "none"
      /\ error' = error /\ ~error
  <2>1. CASE Calls(t)
    BY <2>1, TaskFacts DEF CopyInv, Calls, Read, Write, Yield
  <2>2. CASE URead(t)
    BY <2>2, TaskFacts DEF CopyInv, URead, REntry, RHead, RWrap, RRest, CopyOut, SanityCheck,
          RDirect, RCheck, RDone
  <2>3. CASE UWrite(t)
    BY <2>3, TaskFacts DEF CopyInv, UWrite, WEntry, WDirect, WAvail, WFill, WCheck, WDone
  <2> QED
    BY <2>1, <2>2, <2>3
<1>a. /\ rdtask \in Tasks => /\ pc[rdtask] \in PcReader
                             /\ pc[rdtask] = "r_entry" => arg[rdtask].len > 0
      /\ wrtask \in Tasks => /\ pc[wrtask] \in PcWriter
                             /\ pc[wrtask] = "w_entry" => arg[wrtask].len > 0
  BY DEF CopyInv
<1>b. pc \in [Tasks -> {"user"} \cup PcReader \cup PcWriter] /\ rdtask \in Tasks \cup {NoTask}
      /\ wrtask \in Tasks \cup {NoTask} /\ arg \in [Tasks -> [src : Nat, len : Nat]]
      /\ \A u \in Tasks : arg[u].len \in Nat
  BY TaskFacts
<1>c. nleft \in [Tasks -> Nat] /\ pc \in [Tasks -> {"user"} \cup PcReader \cup PcWriter]
  BY TaskFacts
<1>2. CASE Calls(t)
  <2>1. CASE \E n \in ReadLens : Read(t, n)
    BY <1>1, <2>1, <1>a, <1>b, CopyUserIntro DEF Read
  <2>2. CASE \E n \in WriteLens : Write(t, n)
    BY <1>1, <2>2, <1>a, <1>b, CopyUserIntro DEF Write
  <2>3. CASE Yield(t)
    BY <1>1, <2>3, <1>a, <1>b, CopyUserIntro DEF Yield
  <2> QED
    BY <1>2, <2>1, <2>2, <2>3 DEF Calls
<1>4. CASE REntry(t)
  <2>1. /\ UNCHANGED <<rdtask, wrtask, arg, trap>> /\ pc[t] = "r_entry"
        /\ pc' = [pc EXCEPT ![t] = IF arg[t].len = 0 THEN "user" ELSE "r_head"]
    BY <1>4 DEF REntry
  <2> QED
    BY <1>1, <2>1, <1>a, <1>b, CopyUserIntro
<1>5. CASE RHead(t)
  BY <1>1, <1>5, <1>a, <1>b, CopyUserIntro DEF RHead, Wrapped
<1>6. CASE RCheck(t)
  BY <1>1, <1>6, <1>a, <1>b, CopyUserIntro DEF RCheck
<1>7. CASE RDone(t)
  BY <1>1, <1>7, <1>a, <1>b, CopyUserIntro DEF RDone
<1>8. CASE WEntry(t)
  BY <1>1, <1>8, <1>a, <1>b, CopyUserIntro DEF WEntry
<1>9. CASE WAvail(t)
  BY <1>1, <1>9, <1>a, <1>b, CopyUserIntro DEF WAvail, NumAvail
<1>10. CASE WCheck(t)
  BY <1>1, <1>10, <1>a, <1>b, CopyUserIntro DEF WCheck
<1>11. CASE WDone(t)
  BY <1>1, <1>11, <1>a, <1>b, CopyUserIntro DEF WDone
<1>12. CASE RWrap(t)
  <2>1. h = head /\ UNCHANGED <<head, h, rdtask, wrtask, arg>>
    BY <1>1, <1>12 DEF RWrap, CopyOut, CopyInv
  <2>2. \/ pc' = pc /\ trap'.id = "EXIT"
        \/ \E l \in {"r_done", "r_rest"} : pc' = [pc EXCEPT ![t] = l] /\ trap' = trap
    BY <1>12 DEF RWrap, CopyOut, SanityCheck
  <2>3. pc[t] = "r_wrap"
    BY <1>12 DEF RWrap
  <2>4. pc'[t] = "r_done" => nleft'[t] = 0
    <3>1. PICK len \in Int : /\ nleft' = [nleft EXCEPT ![t] = nleft[t] - len]
                             /\ pc' = [pc EXCEPT ![t] = "r_done"] => len = nleft[t]
      <4> DEFINE len == MinOf(Size - tail, nleft[t])
      <4>1. head \in 0 .. Mask /\ tail \in 0 .. Mask /\ h \in 0 .. Mask /\ nleft[t] \in Nat
        BY TaskFacts
      <4>2. len \in Int
        BY <4>1 DEF MinOf
      <4>3. nleft' = [nleft EXCEPT ![t] = nleft[t] - len]
        BY <1>12 DEF RWrap, CopyOut
      <4>4. \/ pc' = pc
            \/ pc' = [pc EXCEPT ![t] = IF nleft[t] = len THEN "r_done" ELSE "r_rest"]
        BY <1>12 DEF RWrap, CopyOut, SanityCheck
      <4> HIDE DEF len
      <4> QED
        BY <1>c, <2>3, <4>2, <4>3, <4>4
    <3>2. CASE pc' = pc
      BY <2>3, <3>2
    <3>3. CASE pc' = [pc EXCEPT ![t] = "r_done"]
      BY <1>c, <3>1, <3>3
    <3>4. CASE pc' # pc /\ pc' # [pc EXCEPT ![t] = "r_done"]
      BY <1>c, <2>2, <3>4
    <3> QED
      BY <3>2, <3>3, <3>4
  <2> QED
    BY <1>1, <2>1, <2>2, <2>3, <2>4, <1>a, <1>b, CopyUserIntro
<1>13. CASE RRest(t)
  <2>1. h = head /\ UNCHANGED <<head, h, rdtask, wrtask, arg>>
    BY <1>1, <1>13 DEF RRest, CopyOut, CopyInv
  <2>2. \/ pc' = pc /\ trap'.id = "EXIT"
        \/ \E l \in {"r_done", "r_direct"} : pc' = [pc EXCEPT ![t] = l] /\ trap' = trap
    BY <1>13 DEF RRest, CopyOut, SanityCheck
  <2>3. pc[t] = "r_rest"
    BY <1>13 DEF RRest
  <2>4. pc'[t] = "r_done" => nleft'[t] = 0
    <3>1. PICK len \in Int : /\ nleft' = [nleft EXCEPT ![t] = nleft[t] - len]
                             /\ pc' = [pc EXCEPT ![t] = "r_done"] => len = nleft[t]
      <4> DEFINE len == MinOf(h - tail, nleft[t])
      <4>1. head \in 0 .. Mask /\ tail \in 0 .. Mask /\ h \in 0 .. Mask /\ nleft[t] \in Nat
        BY TaskFacts
      <4>2. len \in Int
        BY <4>1 DEF MinOf
      <4>3. nleft' = [nleft EXCEPT ![t] = nleft[t] - len]
        BY <1>13 DEF RRest, CopyOut
      <4>4. \/ pc' = pc
            \/ pc' = [pc EXCEPT ![t] = IF nleft[t] = len THEN "r_done" ELSE "r_direct"]
        BY <1>13 DEF RRest, CopyOut, SanityCheck
      <4> HIDE DEF len
      <4> QED
        BY <1>c, <2>3, <4>2, <4>3, <4>4
    <3>2. CASE pc' = pc
      BY <2>3, <3>2
    <3>3. CASE pc' = [pc EXCEPT ![t] = "r_done"]
      BY <1>c, <3>1, <3>3
    <3>4. CASE pc' # pc /\ pc' # [pc EXCEPT ![t] = "r_done"]
      BY <1>c, <2>2, <3>4
    <3> QED
      BY <3>2, <3>3, <3>4
  <2> QED
    BY <1>1, <2>1, <2>2, <2>3, <2>4, <1>a, <1>b, CopyUserIntro
<1>14. CASE RDirect(t)
  <2>1. /\ rdtask' = rdtask /\ wrtask' \in {wrtask, NoTask} /\ trap' = trap /\ pc[t] = "r_direct"
        /\ \E l \in {"r_done", "r_check"} : pc' = [pc EXCEPT ![t] = l]
    BY <1>14 DEF RDirect
  <2>2. ASSUME NEW u \in Tasks, arg[u].len = 0
        PROVE  arg'[u].len = 0
    <3>1. \/ arg' = arg
          \/ /\ wrtask \in Tasks
             /\ arg' = [arg EXCEPT ![wrtask] = Advance(arg[wrtask], MinOf(nleft[t], arg[wrtask].len))]
      BY <1>14, <1>b DEF RDirect, IntTask
    <3>2. CASE u = wrtask /\ arg' # arg
      <4>1. nleft[t] \in Nat
        BY TaskFacts
      <4>2. MinOf(nleft[t], arg[u].len) = 0
        BY <2>2, <4>1 DEF MinOf
      <4>3. arg'[u].len = arg[u].len - 0
        BY <1>b, <3>1, <3>2, <4>2 DEF Advance
      <4> QED
        BY <2>2, <4>3
    <3> QED
      BY <1>b, <2>2, <3>1, <3>2
  <2>3. rdtask' \in Tasks => /\ pc'[rdtask'] \in PcReader
                             /\ pc'[rdtask'] = "r_entry" => arg'[rdtask'].len > 0
    <3>1. rdtask \in Tasks => rdtask # wrtask
      BY <1>a
    <3>2. rdtask \in Tasks => arg'[rdtask] = arg[rdtask]
      BY <1>14, <1>b, <3>1 DEF RDirect
    <3> QED
      BY <2>1, <3>2, <1>a, <1>b
  <2>4. wrtask' \in Tasks => /\ pc'[wrtask'] \in PcWriter
                             /\ pc'[wrtask'] = "w_entry" => arg'[wrtask'].len > 0
    <3>1. ASSUME wrtask' \in Tasks
          PROVE  wrtask' = wrtask /\ wrtask # t /\ pc'[wrtask] = pc[wrtask]
      BY <2>1, <1>a, <1>b, <3>1, SMTT(30)
    <3>2. ASSUME wrtask' \in Tasks, pc[wrtask] = "w_entry"
          PROVE  arg'[wrtask].len > 0
      <4>1. wrtask \in Tasks /\ nleft[t] \in Nat /\ arg[wrtask].len \in Nat
        BY <3>1, <3>2, <1>b, TaskFacts
      <4>2. /\ arg' = [arg EXCEPT ![wrtask] = Advance(arg[wrtask], MinOf(nleft[t], arg[wrtask].len))]
            /\ arg[wrtask].len # MinOf(nleft[t], arg[wrtask].len)
        BY <1>14, <3>1, <3>2, <4>1 DEF RDirect
      <4>3. arg'[wrtask].len = arg[wrtask].len - MinOf(nleft[t], arg[wrtask].len)
        BY <1>b, <4>1, <4>2 DEF Advance
      <4> QED
        BY <4>1, <4>2, <4>3 DEF MinOf
    <3> QED
      BY <3>1, <3>2, <1>a
  <2>5. pc'[t] = "r_done" => nleft'[t] = 0
    <3>1. ASSUME pc'[t] = "r_done"
          PROVE  \E len \in {nleft[t]} : nleft' = [nleft EXCEPT ![t] = nleft[t] - len]
      BY <1>14, <1>c, <3>1 DEF RDirect
    <3> QED
      BY <1>c, <3>1
  <2> QED
    BY <1>1, <2>1, <2>2, <2>3, <2>4, <2>5, <1>b, CopyUserIntro
<1>15. CASE WDirect(t)
  <2>1. /\ wrtask' = wrtask /\ rdtask' \in {rdtask, NoTask} /\ trap' = trap /\ pc[t] = "w_top"
        /\ \E l \in {"w_done", "w_avail"} : pc' = [pc EXCEPT ![t] = l]
    BY <1>15 DEF WDirect
  <2>2. ASSUME NEW u \in Tasks, arg[u].len = 0
        PROVE  arg'[u].len = 0
    <3>1. \/ arg' = arg
          \/ /\ rdtask \in Tasks
             /\ arg' = [arg EXCEPT ![rdtask] = Advance(arg[rdtask], MinOf(nleft[t], arg[rdtask].len))]
      BY <1>15, <1>b DEF WDirect, IntTask
    <3>2. CASE u = rdtask /\ arg' # arg
      <4>1. nleft[t] \in Nat
        BY TaskFacts
      <4>2. MinOf(nleft[t], arg[u].len) = 0
        BY <2>2, <4>1 DEF MinOf
      <4>3. arg'[u].len = arg[u].len - 0
        BY <1>b, <3>1, <3>2, <4>2 DEF Advance
      <4> QED
        BY <2>2, <4>3
    <3> QED
      BY <1>b, <2>2, <3>1, <3>2
  <2>3. wrtask' \in Tasks => /\ pc'[wrtask'] \in PcWriter
                             /\ pc'[wrtask'] = "w_entry" => arg'[wrtask'].len > 0
    <3>1. wrtask \in Tasks => rdtask # wrtask
      BY <1>a
    <3>2. wrtask \in Tasks => arg'[wrtask] = arg[wrtask]
      BY <1>15, <1>b, <3>1 DEF WDirect
    <3> QED
      BY <2>1, <3>2, <1>a, <1>b
  <2>4. rdtask' \in Tasks => /\ pc'[rdtask'] \in PcReader
                             /\ pc'[rdtask'] = "r_entry" => arg'[rdtask'].len > 0
    <3>1. ASSUME rdtask' \in Tasks
          PROVE  rdtask' = rdtask /\ rdtask # t /\ pc'[rdtask] = pc[rdtask]
      BY <2>1, <1>a, <1>b, <3>1, SMTT(30)
    <3>2. ASSUME rdtask' \in Tasks, pc[rdtask] = "r_entry"
          PROVE  arg'[rdtask].len > 0
      <4>1. rdtask \in Tasks /\ nleft[t] \in Nat /\ arg[rdtask].len \in Nat
        BY <3>1, <3>2, <1>b, TaskFacts
      <4>2. /\ arg' = [arg EXCEPT ![rdtask] = Advance(arg[rdtask], MinOf(nleft[t], arg[rdtask].len))]
            /\ arg[rdtask].len # MinOf(nleft[t], arg[rdtask].len)
        BY <1>15, <3>1, <3>2, <4>1 DEF WDirect, IntTask
      <4>3. arg'[rdtask].len = arg[rdtask].len - MinOf(nleft[t], arg[rdtask].len)
        BY <1>b, <4>1, <4>2 DEF Advance
      <4> QED
        BY <4>1, <4>2, <4>3 DEF MinOf
    <3> QED
      BY <3>1, <3>2, <1>a
  <2>5. pc'[t] = "w_done" => nleft'[t] = 0
    <3>1. ASSUME pc'[t] = "w_done"
          PROVE  \E len \in {nleft[t]} : nleft' = [nleft EXCEPT ![t] = nleft[t] - len]
      BY <1>15, <1>c, <3>1 DEF WDirect
    <3> QED
      BY <1>c, <3>1
  <2> QED
    BY <1>1, <2>1, <2>2, <2>3, <2>4, <2>5, <1>b, CopyUserIntro
<1>16. CASE WFill(t)
  <2>1. /\ UNCHANGED <<rdtask, wrtask, arg, trap>> /\ pc[t] = "w_fill"
        /\ \E l \in {"w_done", "w_check", "w_top"} : pc' = [pc EXCEPT ![t] = l]
    BY <1>16 DEF WFill
  <2>2. pc'[t] = "w_done" => nleft'[t] = 0
    <3> DEFINE len == FillLen(t)
    <3>1. /\ nleft' = [nleft EXCEPT ![t] = nleft[t] - len]
          /\ pc' = [pc EXCEPT ![t] = CASE nleft[t] = len -> "w_done"
                                       [] nleft[t] # len /\ navail = len -> "w_check"
                                       [] OTHER -> "w_top"]
      BY <1>16 DEF WFill
    <3> HIDE DEF len
    <3>2. pc'[t] = "w_done" => nleft[t] = len
      BY <1>c, <3>1
    <3> QED
      BY <1>c, <3>1, <3>2
  <2> QED
    BY <1>1, <2>1, <2>2, <1>a, <1>b, CopyUserIntro
<1> QED
  BY <1>2, <1>4, <1>5, <1>6, <1>7, <1>8, <1>9, <1>10, <1>11, <1>12, <1>13, <1>14, <1>15, <1>16
     DEF URead, UWrite

\* The interrupts are none of a task pipe's business.
LEMMA IrqIdle ==
    ASSUME IntReader = "none", ~IntWriter, NEW active \in BOOLEAN, KIrq(active)
    PROVE  /\ phase = "irq" /\ phase' = "trap"
           /\ UNCHANGED <<pipeVars, taskVars, localVars, current, trap, histVars, callVars>>
BY DEF KIrq, KIrqIdle, KIrqTx, KIrqRx, KIrqEcho, KIrqAudio, KStartAudio, Served, pipeVars, taskVars,
       localVars, histVars, callVars

\* A step of the kernel, or one that changes nothing.
LEMMA CopyKernel ==
    ASSUME TypeInv, CopyInv, IntReader = "none", ~IntWriter,
           Interrupt \/ Kernel \/ RxArrive \/ DeviceReady \/ UNCHANGED vars
    PROVE  CopyInv'
<1> USE DEF PcReader, PcWriter, pipeVars, taskVars, localVars, devVars, histVars, callVars,
            Goto
<1>b. /\ pc \in [Tasks -> {"user"} \cup PcReader \cup PcWriter] /\ rdtask \in Tasks \cup {NoTask}
      /\ wrtask \in Tasks \cup {NoTask} /\ arg \in [Tasks -> [src : Nat, len : Nat]]
      /\ \A u \in Tasks : arg[u].len \in Nat
  BY TaskFacts
<1>f. ASSUME UNCHANGED <<head, tail, error, rdtask, wrtask, pc, h, navail, arg, nleft, current, trap>>,
             phase' = "sched" /\ trap.id = "WAIT" => phase = "sched"
      PROVE  CopyInv'
  <2>1. NumAvail' = NumAvail
    BY <1>f DEF NumAvail, Wrap
  <2>2. \A t \in Tasks : Slept(t)' => Slept(t)
    BY <1>f DEF Slept
  <2> QED
    BY <1>f, <2>1, <2>2 DEF CopyInv
<1>1. CASE Interrupt
  <2>1. phase = "user" /\ trap' = NoTrap /\ current' = current /\ phase' = "irq"
        /\ UNCHANGED <<head, tail, error, rdtask, wrtask, pc, h, navail, arg, nleft>>
    BY <1>1 DEF Interrupt
  <2>2. trap.id = "none"
    BY <2>1, TaskFacts
  <2>3. NumAvail' = NumAvail
    BY <2>1 DEF NumAvail, Wrap
  <2>4. \A t \in Tasks : Slept(t)' => Slept(t)
    BY <2>1 DEF Slept
  <2> QED
    BY <2>1, <2>2, <2>3, <2>4 DEF CopyInv, NoTrap
<1>2. CASE \E active \in BOOLEAN : KIrq(active)
  BY <1>2, <1>f, IrqIdle
<1>3. CASE KNoTrap
  BY <1>3, <1>f DEF KNoTrap, Handle
<1>4. CASE KExit \/ KReadHalt
  BY <1>4, <1>f DEF KExit, KReadHalt, Handle
<1>5. CASE KWriteFail
  BY <1>5, <1>f DEF KWriteFail, Handle
<1>6. CASE RxArrive \/ DeviceReady \/ UNCHANGED vars
  BY <1>6, <1>f DEF RxArrive, DeviceReady, vars, kernelVars
<1>7. CASE KReadError
  BY <1>7 DEF KReadError, CopyInv
<1>8. CASE KWait
  <2>1. /\ phase = "trap" /\ trap.id = "WAIT" /\ pc[current] \in {"r_head", "w_top"} /\ current \in Tasks
        /\ arg' = [arg EXCEPT ![current] = [src |-> 0, len |-> 0]] /\ phase' = "sched"
        /\ UNCHANGED <<head, tail, error, rdtask, wrtask, pc, h, navail, nleft, current, trap>>
    BY <1>8, TaskFacts DEF KWait, Handle
  <2>2. NumAvail' = NumAvail
    BY <2>1 DEF NumAvail, Wrap
  <2>3. ASSUME NEW t \in Tasks, pc[t] \notin {"user", "r_entry", "w_entry"}, Slept(t)'
        PROVE  arg'[t].len = 0
    BY <1>b, <2>1, <2>3 DEF Slept, CopyInv
  <2>4. ASSUME NEW t \in Tasks, pc[t] \in {"r_entry", "w_entry"}
        PROVE  arg'[t] = arg[t]
    BY <1>b, <2>1, <2>4
  <2> QED
    BY <2>1, <2>2, <2>3, <2>4 DEF CopyInv
<1>9. CASE KRead
  <2>1. /\ phase = "trap" /\ trap.id = "READ" /\ pc[current] = "user" /\ current \in Tasks /\ trap.len > 0
        /\ arg' = [arg EXCEPT ![current] = [src |-> 0, len |-> trap.len]]
        /\ pc' = [pc EXCEPT ![current] = "r_entry"] /\ rdtask' = current
        /\ UNCHANGED <<head, tail, error, wrtask, h, navail, nleft, current, trap>>
    BY <1>9, TaskFacts DEF KRead, Handle, TakeReadEnd
  <2>2. NumAvail' = NumAvail
    BY <2>1 DEF NumAvail, Wrap
  <2>3. \A t \in Tasks : Slept(t)' => Slept(t)
    BY <2>1 DEF Slept
  <2>4. ASSUME NEW t \in Tasks, t # current
        PROVE  pc'[t] = pc[t] /\ arg'[t] = arg[t]
    BY <1>b, <2>1, <2>4
  <2>5. pc'[current] = "r_entry" /\ arg'[current].len > 0
    BY <1>b, <2>1
  <2>6. wrtask \in Tasks => wrtask # current
    BY <2>1 DEF CopyInv
  <2> QED
    BY <2>1, <2>2, <2>3, <2>4, <2>5, <2>6 DEF CopyInv
<1>10. CASE KWrite
  <2>1. /\ phase = "trap" /\ trap.id = "WRITE" /\ pc[current] = "user" /\ current \in Tasks /\ trap.len > 0
        /\ arg' = [arg EXCEPT ![current] = [src |-> accepted, len |-> trap.len]]
        /\ pc' = [pc EXCEPT ![current] = "w_entry"] /\ wrtask' = current
        /\ UNCHANGED <<head, tail, error, rdtask, h, navail, nleft, current, trap>>
    BY <1>10, TaskFacts DEF KWrite, Handle, TakeWriteEnd
  <2>2. NumAvail' = NumAvail
    BY <2>1 DEF NumAvail, Wrap
  <2>3. \A t \in Tasks : Slept(t)' => Slept(t)
    BY <2>1 DEF Slept
  <2>4. ASSUME NEW t \in Tasks, t # current
        PROVE  pc'[t] = pc[t] /\ arg'[t] = arg[t]
    BY <1>b, <2>1, <2>4
  <2>5. pc'[current] = "w_entry" /\ arg'[current].len > 0
    BY <1>b, <2>1
  <2>6. rdtask \in Tasks => rdtask # current
    BY <2>1 DEF CopyInv
  <2> QED
    BY <2>1, <2>2, <2>3, <2>4, <2>5, <2>6 DEF CopyInv
<1>11. CASE KSched
  <2>1. /\ phase = "sched" /\ phase' = "user" /\ trap' = NoTrap
        /\ UNCHANGED <<head, tail, error, rdtask, wrtask, pc, h, navail, arg, nleft>>
    BY <1>11 DEF KSched
  <2>2. NumAvail' = NumAvail
    BY <2>1 DEF NumAvail, Wrap
  <2>3. ASSUME NEW t \in Tasks, pc[t] \notin {"user", "r_entry", "w_entry"}, Slept(t)'
        PROVE  Slept(t)
    <3>1. t # current'
      BY <2>1, <2>3 DEF Slept, NoTrap
    <3>2. CASE t = current /\ trap.id = "none"
      <4>1. state[current] = "READY" /\ current # Idle
        BY <3>2, TaskFacts
      <4> QED
        BY <1>11, <3>1, <3>2, <4>1 DEF KSched
    <3>3. CASE t = current /\ trap.id # "none"
      BY <2>1, <2>3, <3>3, TaskFacts DEF Slept, CopyInv, TrapIds
    <3> QED
      BY <3>2, <3>3 DEF Slept
  <2>4. trap'.id = "none"
    BY <2>1 DEF NoTrap
  <2>5. ASSUME NEW t \in Tasks, pc[t] \in {"r_wrap", "r_rest"}
        PROVE  trap.id = "none"
    <3>1. t = current /\ trap.id \in {"none", "EXIT"}
      BY <2>5, TaskFacts DEF Resting
    <3> QED
      BY <2>1, <3>1, TaskFacts
  <2> QED
    BY <2>1, <2>2, <2>3, <2>4, <2>5 DEF CopyInv
<1> QED
  BY <1>1, <1>2, <1>3, <1>4, <1>5, <1>6, <1>7, <1>8, <1>9, <1>10, <1>11 DEF Kernel, KTrap

LEMMA CopyInvariant ==
    ASSUME IntReader = "none", ~IntWriter
    PROVE  Spec => [](TypeInv /\ CopyInv)
<1>1. Init => CopyInv
  <2> SUFFICES ASSUME Init PROVE CopyInv
    OBVIOUS
  <2>1. rdtask \notin Tasks /\ wrtask \notin Tasks
    BY DEF Init
  <2> QED
    BY <2>1 DEF Init, CopyInv, NoTrap
<1>2. TypeInv /\ CopyInv /\ [Next]_vars => CopyInv'
  BY CopyUser, CopyKernel DEF Next
<1> QED
  BY <1>1, <1>2, TypeInvariant, PTL DEF Spec

-----------------------------------------------------------------------------
(***************************************************************************)
(* Sequences without repetition, and sets that share out the bytes.        *)
(***************************************************************************)

\* One sequence after the other repeats nothing just if neither does and they
\* have nothing in common.
LEMMA ConcatInjective ==
    ASSUME NEW s \in Seq(Int), NEW r \in Seq(Int)
    PROVE  /\ Elements(s \o r) = Elements(s) \cup Elements(r)
           /\ Injective(s \o r) <=> /\ Injective(s) /\ Injective(r)
                                    /\ Elements(s) \cap Elements(r) = {}
<1> DEFINE c == s \o r
<1>1. /\ c \in Seq(Int) /\ Len(c) = Len(s) + Len(r) /\ Len(s) \in Nat /\ Len(r) \in Nat
      /\ \A i \in 1 .. Len(s) + Len(r) : c[i] = IF i <= Len(s) THEN s[i] ELSE r[i - Len(s)]
  BY ConcatProperties
<1> HIDE DEF c
<1>2. \A i \in 1 .. Len(s) : i \in 1 .. Len(c) /\ c[i] = s[i]
  BY <1>1
<1>3. ASSUME NEW i \in 1 .. Len(r)
      PROVE  i + Len(s) \in 1 .. Len(c) /\ c[i + Len(s)] = r[i]
  <2>1. i + Len(s) \in 1 .. Len(s) + Len(r) /\ ~(i + Len(s) <= Len(s)) /\ (i + Len(s)) - Len(s) = i
    BY <1>1
  <2> QED
    BY <1>1, <2>1
<1>4. ASSUME NEW i \in 1 .. Len(c)
      PROVE  \/ i \in 1 .. Len(s) /\ c[i] = s[i]
             \/ i - Len(s) \in 1 .. Len(r) /\ c[i] = r[i - Len(s)]
  BY <1>1, SMTT(30)
<1>5. Elements(c) = Elements(s) \cup Elements(r)
  <2>1. ASSUME NEW m \in Elements(c)
        PROVE  m \in Elements(s) \cup Elements(r)
    <3>1. PICK i \in 1 .. Len(c) : m = c[i]
      BY DEF Elements
    <3> QED
      BY <1>4, <3>1 DEF Elements
  <2>2. ASSUME NEW m \in Elements(s)
        PROVE  m \in Elements(c)
    <3>1. PICK i \in 1 .. Len(s) : m = s[i]
      BY DEF Elements
    <3> QED
      BY <1>2, <3>1 DEF Elements
  <2>3. ASSUME NEW m \in Elements(r)
        PROVE  m \in Elements(c)
    <3>1. PICK i \in 1 .. Len(r) : m = r[i]
      BY DEF Elements
    <3>2. i + Len(s) \in 1 .. Len(c) /\ c[i + Len(s)] = m
      BY <1>3, <3>1
    <3> QED
      BY <3>2 DEF Elements
  <2> QED
    BY <2>1, <2>2, <2>3
<1>6. ASSUME Injective(c)
      PROVE  /\ Injective(s) /\ Injective(r)
             /\ Elements(s) \cap Elements(r) = {}
  <2>1. Injective(s)
    BY <1>2, <1>6 DEF Injective
  <2>2. ASSUME NEW i \in 1 .. Len(r), NEW j \in 1 .. Len(r), r[i] = r[j]
        PROVE  i = j
    <3>1. c[i + Len(s)] = c[j + Len(s)]
      BY <1>3, <2>2
    <3>2. i + Len(s) = j + Len(s)
      BY <1>3, <1>6, <3>1 DEF Injective
    <3> QED
      BY <1>1, <3>2
  <2>3. ASSUME NEW i \in 1 .. Len(s), NEW j \in 1 .. Len(r), s[i] = r[j]
        PROVE  FALSE
    <3>1. c[i] = c[j + Len(s)]
      BY <1>2, <1>3, <2>3
    <3>2. i = j + Len(s)
      BY <1>2, <1>3, <1>6, <3>1 DEF Injective
    <3> QED
      BY <1>1, <3>2
  <2> QED
    BY <2>1, <2>2, <2>3 DEF Injective, Elements
<1>7. ASSUME Injective(s), Injective(r), Elements(s) \cap Elements(r) = {}
      PROVE  Injective(c)
  <2> SUFFICES ASSUME NEW i \in 1 .. Len(c), NEW j \in 1 .. Len(c), c[i] = c[j]
               PROVE  i = j
    BY DEF Injective
  <2>1. CASE i \in 1 .. Len(s) /\ j \in 1 .. Len(s)
    BY <1>2, <1>7, <2>1 DEF Injective
  <2>2. CASE i \notin 1 .. Len(s) /\ j \notin 1 .. Len(s)
    <3>1. /\ i - Len(s) \in 1 .. Len(r) /\ j - Len(s) \in 1 .. Len(r)
          /\ r[i - Len(s)] = r[j - Len(s)]
      BY <1>4, <2>2
    <3>2. i - Len(s) = j - Len(s)
      BY <1>7, <3>1 DEF Injective
    <3> QED
      BY <1>1, <3>2
  <2>3. CASE i \in 1 .. Len(s) /\ j \notin 1 .. Len(s)
    <3>1. /\ s[i] = r[j - Len(s)] /\ j - Len(s) \in 1 .. Len(r)
      BY <1>2, <1>4, <2>3
    <3>2. s[i] \in Elements(s) /\ s[i] \in Elements(r)
      BY <3>1, <2>3 DEF Elements
    <3> QED
      BY <1>7, <3>2
  <2>4. CASE i \notin 1 .. Len(s) /\ j \in 1 .. Len(s)
    <3>1. /\ s[j] = r[i - Len(s)] /\ i - Len(s) \in 1 .. Len(r)
      BY <1>2, <1>4, <2>4
    <3>2. s[j] \in Elements(s) /\ s[j] \in Elements(r)
      BY <3>1, <2>4 DEF Elements
    <3> QED
      BY <1>7, <3>2
  <2> QED
    BY <2>1, <2>2, <2>3, <2>4
<1> QED
  BY <1>5, <1>6, <1>7 DEF c

\* What a task has to copy, number by number.
LEMMA NumbersInjective ==
    ASSUME NEW n \in Nat, NEW len \in Nat
    PROVE  /\ Numbers(n, len) \in Seq(Int)
           /\ Injective(Numbers(n, len))
           /\ Elements(Numbers(n, len)) = Interval(n, len)
<1> DEFINE s == Numbers(n, len)
<1>1. s \in Seq(Int) /\ Len(s) = len /\ \A k \in 1 .. len : s[k] = n + k - 1
  BY NumbersSeq DEF Numbers
<1> HIDE DEF s
<1>2. Injective(s)
  BY <1>1 DEF Injective
<1>3. ASSUME NEW m \in Interval(n, len)
      PROVE  m \in Elements(s)
  <2>1. m - n + 1 \in 1 .. len /\ n + (m - n + 1) - 1 = m
    BY DEF Interval
  <2>2. s[m - n + 1] = m
    BY <1>1, <2>1
  <2> QED
    BY <1>1, <2>1, <2>2 DEF Elements
<1>4. ASSUME NEW m \in Elements(s)
      PROVE  m \in Interval(n, len)
  <2>1. PICK k \in 1 .. len : m = s[k]
    BY <1>1 DEF Elements
  <2> QED
    BY <1>1, <2>1 DEF Interval
<1> QED
  BY <1>1, <1>2, <1>3, <1>4 DEF s

LEMMA MinOfBounds ==
    ASSUME NEW a \in Nat, NEW b \in Nat
    PROVE  MinOf(a, b) \in Nat /\ MinOf(a, b) <= a /\ MinOf(a, b) <= b
BY DEF MinOf

\* What is left of an interval without its first len numbers.
LEMMA IntervalRest ==
    ASSUME NEW n \in Nat, NEW all \in Nat, NEW len \in Nat, len <= all
    PROVE  /\ Interval(n, len) \subseteq Interval(n, all)
           /\ Interval(n + len, all - len) = Interval(n, all) \ Interval(n, len)
<1>1. \A m \in Interval(n + len, all - len) : m \in Interval(n, all) /\ m \notin Interval(n, len)
  BY DEF Interval
<1>2. \A m \in Interval(n, all) : m \in Interval(n, len) \/ m \in Interval(n + len, all - len)
  BY DEF Interval
<1>3. Interval(n, len) \subseteq Interval(n, all)
  BY DEF Interval
<1> QED
  BY <1>1, <1>2, <1>3

\* Bytes go from the ring to those delivered, ...
LEMMA PartedPopped ==
    ASSUME NEW D, NEW R, NEW K, NEW n, Parted(D, R, K, n), NEW M, M \subseteq R
    PROVE  Parted(D \cup M, R \ M, K, n)
BY DEF Parted

\* ... from a task to those delivered, ...
LEMMA PartedCopied ==
    ASSUME NEW D, NEW R, NEW K, NEW n, Parted(D, R, K, n),
           NEW t \in Tasks, NEW M, M \subseteq K[t],
           NEW L, \A u \in Tasks : L[u] = IF u = t THEN K[t] \ M ELSE K[u]
    PROVE  Parted(D \cup M, R, L, n)
BY DEF Parted

\* ... and from a task to the ring.
LEMMA PartedPushed ==
    ASSUME NEW D, NEW R, NEW K, NEW n, Parted(D, R, K, n),
           NEW t \in Tasks, NEW M, M \subseteq K[t],
           NEW L, \A u \in Tasks : L[u] = IF u = t THEN K[t] \ M ELSE K[u]
    PROVE  Parted(D, R \cup M, L, n)
BY DEF Parted

\* A task that had nothing to copy is given the bytes that come next.
LEMMA PartedGiven ==
    ASSUME NEW D, NEW R, NEW K, NEW n \in Nat, Parted(D, R, K, n),
           NEW t \in Tasks, K[t] = {}, NEW len \in Nat,
           NEW L, \A u \in Tasks : L[u] = IF u = t THEN Interval(n, len) ELSE K[u]
    PROVE  Parted(D, R, L, n + len)
BY DEF Parted, Interval

-----------------------------------------------------------------------------
(***************************************************************************)
(* The steps that move bytes.                                              *)
(***************************************************************************)

\* Steps that move no byte.
LEMMA PlaceFrame ==
    ASSUME PlaceInv, UNCHANGED <<head, tail, buf, out, accepted>>,
           \A t \in Tasks : Kept(t)' = Kept(t)
    PROVE  PlaceInv'
<1>1. Contents' = Contents
  BY DEF Contents, Occupied, Wrap
<1>2. KeptBy' = KeptBy
  BY DEF KeptBy
<1> QED
  BY <1>1, <1>2 DEF PlaceInv, Injective, Elements

\* What the ring holds is a sequence.
LEMMA ContentsSeq ==
    ASSUME head \in 0 .. Mask, tail \in 0 .. Mask, buf \in [0 .. Mask -> Byte]
    PROVE  /\ Contents \in Seq(Int) /\ Len(Contents) = Occupied
           /\ \A k \in 1 .. Occupied : Contents[k] = buf[Wrap(tail + k - 1)]
<1>1. Occupied \in 0 .. Mask
  BY RingRange
<1>2. \A k \in 1 .. Occupied : Wrap(tail + k - 1) \in 0 .. Mask
  BY <1>1, WrapRange
<1>3. \A i \in 0 .. Mask : buf[i] \in Int
  BY DEF Byte, Blank
<1>4. Contents \in [1 .. Occupied -> Int]
  BY <1>2, <1>3, Zenon DEF Contents
<1>5. Contents \in Seq(Int) /\ Len(Contents) = Occupied
  BY <1>1, <1>4
<1> QED
  BY <1>5 DEF Contents

\* A reader takes the oldest len bytes from the ring, up to its end.
LEMMA PoppedContents ==
    ASSUME head \in 0 .. Mask, tail \in 0 .. Mask, buf \in [0 .. Mask -> Byte],
           NEW len \in Nat, tail + len <= Size, len <= Occupied,
           head' = head, buf' = buf, tail' = Wrap(tail + len)
    PROVE  /\ Chunk(tail, len) \in Seq(Int) /\ Contents' \in Seq(Int)
           /\ Contents = Chunk(tail, len) \o Contents'
<1>1. /\ Wrap(tail + len) \in 0 .. Mask
      /\ Wrap(head - Wrap(tail + len) + Size) = Occupied - len
      /\ \A k \in 1 .. len : Wrap(tail + k - 1) = tail + k - 1
      /\ \A k \in 1 .. Occupied - len : Wrap(Wrap(tail + len) + k - 1) = Wrap(tail + (k + len) - 1)
  BY DEF Occupied, Wrap
<1>2. tail' \in 0 .. Mask /\ head' \in 0 .. Mask /\ buf' \in [0 .. Mask -> Byte]
  BY <1>1
<1>3. Occupied' = Occupied - len
  BY <1>1 DEF Occupied
<1>4. /\ Contents \in Seq(Int) /\ Len(Contents) = Occupied
      /\ \A k \in 1 .. Occupied : Contents[k] = buf[Wrap(tail + k - 1)]
  BY ContentsSeq
<1> DEFINE rest == Contents'
           taken == Chunk(tail, len)
<1>5. rest = [k \in 1 .. Occupied - len |-> buf[Wrap(Wrap(tail + len) + k - 1)]]
  BY <1>3 DEF Contents, Wrap
<1>6. Occupied \in 0 .. Mask
  BY RingRange
<1>7. \A k \in 1 .. Occupied - len : buf[Wrap(Wrap(tail + len) + k - 1)] \in Int
  <2>1. ASSUME NEW k \in 1 .. Occupied - len
        PROVE  buf[Wrap(Wrap(tail + len) + k - 1)] \in Int
    <3>1. Wrap(tail + (k + len) - 1) \in 0 .. Mask
      BY <1>6, WrapRange
    <3> QED
      BY <1>1, <3>1 DEF Byte, Blank
  <2> QED
    BY <2>1
<1>8. rest \in Seq(Int) /\ Len(rest) = Occupied - len
  BY <1>5, <1>6, <1>7
<1>9. taken \in Seq(Int) /\ Len(taken) = len
  <2>1. taken \in Seq(Int)
    BY ChunkSeq
  <2>2. taken = [k \in 1 .. len |-> buf[tail + k - 1]]
    BY DEF Chunk
  <2> HIDE DEF taken
  <2> QED
    BY <2>1, <2>2
<1>10. \A k \in 1 .. len : taken[k] = Contents[k]
  <2>1. ASSUME NEW k \in 1 .. len
        PROVE  taken[k] = Contents[k]
    <3>1. k \in 1 .. Occupied
      BY <1>6
    <3>2. Contents[k] = buf[tail + k - 1]
      BY <1>1, <1>4, <3>1
    <3>3. taken[k] = buf[tail + k - 1]
      BY DEF Chunk
    <3> QED
      BY <3>2, <3>3
  <2> QED
    BY <2>1
<1>11. \A k \in 1 .. Occupied - len : rest[k] = Contents[k + len]
  <2>1. ASSUME NEW k \in 1 .. Occupied - len
        PROVE  rest[k] = Contents[k + len]
    <3>1. k + len \in 1 .. Occupied
      BY <1>6
    <3> QED
      BY <1>1, <1>4, <1>5, <3>1
  <2> QED
    BY <2>1
<1> HIDE DEF rest, taken
<1> DEFINE c == taken \o rest
<1>12. /\ c \in Seq(Int) /\ Len(c) = Occupied
       /\ \A k \in 1 .. Occupied : c[k] = IF k <= len THEN taken[k] ELSE rest[k - len]
  <2>1. /\ c \in Seq(Int) /\ Len(c) = Len(taken) + Len(rest)
        /\ \A k \in 1 .. Len(taken) + Len(rest) :
              c[k] = IF k <= Len(taken) THEN taken[k] ELSE rest[k - Len(taken)]
    BY <1>8, <1>9, ConcatProperties
  <2>2. Len(taken) + Len(rest) = Occupied
    BY <1>6, <1>8, <1>9
  <2> QED
    BY <1>9, <2>1, <2>2
<1> HIDE DEF c
<1>13. \A k \in 1 .. Occupied : c[k] = Contents[k]
  <2>1. ASSUME NEW k \in 1 .. Occupied, k > len
        PROVE  c[k] = Contents[k]
    <3>1. k - len \in 1 .. Occupied - len /\ (k - len) + len = k
      BY <1>6, <2>1
    <3>2. rest[k - len] = Contents[(k - len) + len]
      BY <1>11, <3>1
    <3> QED
      BY <1>12, <2>1, <3>1, <3>2
  <2>2. ASSUME NEW k \in 1 .. Occupied, k <= len
        PROVE  c[k] = Contents[k]
    BY <1>10, <1>12, <2>2
  <2> QED
    BY <1>6, <2>1, <2>2
<1>14. c = Contents
  BY <1>4, <1>12, <1>13
<1> QED
  BY <1>8, <1>9, <1>14 DEF c, rest, taken

\* A writer adds len bytes to the ring, up to its end.
LEMMA PushedContents ==
    ASSUME head \in 0 .. Mask, tail \in 0 .. Mask, buf \in [0 .. Mask -> Byte],
           NEW n \in Nat, NEW len \in Nat, head + len <= Size, len <= NumAvail,
           tail' = tail, buf' = Filled(head, n, len), head' = Wrap(head + len)
    PROVE  /\ Contents \in Seq(Int)
           /\ Contents' = Contents \o Numbers(n, len)
<1>1. /\ Wrap(Wrap(head + len) - tail + Size) = Occupied + len
      /\ \A k \in 0 .. Occupied - 1 :
            /\ Wrap(tail + k) \in 0 .. Mask
            /\ ~(head <= Wrap(tail + k) /\ Wrap(tail + k) < head + len)
      /\ \A k \in Occupied .. Occupied + len - 1 : Wrap(tail + k) = head + (k - Occupied)
  BY FillRing, Zenon
<1>2. Occupied \in 0 .. Mask /\ NumAvail = Mask - Occupied
  BY RingRange
<1>3. /\ Contents \in Seq(Int) /\ Len(Contents) = Occupied
      /\ \A k \in 1 .. Occupied : Contents[k] = buf[Wrap(tail + k - 1)]
  BY ContentsSeq
<1>4. Occupied' = Occupied + len
  BY <1>1 DEF Occupied
<1> DEFINE full == Contents'
           c == Contents \o Numbers(n, len)
<1>5. full = [k \in 1 .. Occupied + len |-> Filled(head, n, len)[Wrap(tail + k - 1)]]
  BY <1>4 DEF Contents, Wrap
<1>6. /\ c \in Seq(Int) /\ Len(c) = Occupied + len
      /\ \A k \in 1 .. Occupied + len :
            c[k] = IF k <= Occupied THEN Contents[k] ELSE Numbers(n, len)[k - Occupied]
  <2>1. Numbers(n, len) \in Seq(Int) /\ Len(Numbers(n, len)) = len
    BY NumbersSeq
  <2>2. /\ c \in Seq(Int) /\ Len(c) = Len(Contents) + Len(Numbers(n, len))
        /\ \A k \in 1 .. Len(Contents) + Len(Numbers(n, len)) :
              c[k] = IF k <= Len(Contents) THEN Contents[k]
                     ELSE Numbers(n, len)[k - Len(Contents)]
    BY <1>3, <2>1, ConcatProperties
  <2> QED
    BY <1>3, <2>1, <2>2
<1> HIDE DEF full, c
<1>7. ASSUME NEW k \in 1 .. Occupied
      PROVE  full[k] = c[k]
  <2>1. /\ Wrap(tail + (k - 1)) \in 0 .. Mask
        /\ ~(head <= Wrap(tail + (k - 1)) /\ Wrap(tail + (k - 1)) < head + len)
    <3>1. k - 1 \in 0 .. Occupied - 1
      BY <1>2
    <3> QED
      BY <1>1, <3>1
  <2>2. Wrap(tail + k - 1) = Wrap(tail + (k - 1))
    BY <1>2
  <2>3. full[k] = Filled(head, n, len)[Wrap(tail + (k - 1))]
    BY <1>2, <1>5, <2>2
  <2>4. Filled(head, n, len)[Wrap(tail + (k - 1))] = buf[Wrap(tail + (k - 1))]
    BY <2>1 DEF Filled
  <2> QED
    BY <1>2, <1>3, <1>6, <2>2, <2>3, <2>4, SMTT(30)
<1>8. ASSUME NEW k \in Occupied + 1 .. Occupied + len
      PROVE  full[k] = c[k]
  <2>1. k - 1 \in Occupied .. Occupied + len - 1 /\ k - Occupied \in 1 .. len /\ k \in 1 .. Occupied + len
        /\ ~(k <= Occupied)
    BY <1>2
  <2>2. Wrap(tail + (k - 1)) = head + ((k - 1) - Occupied)
    BY <1>1, <2>1
  <2>3. Wrap(tail + k - 1) = head + ((k - 1) - Occupied)
    BY <1>2, <2>2
  <2>4. head + ((k - 1) - Occupied) \in 0 .. Mask
    BY <1>2, <2>1
  <2>5. full[k] = n + ((k - 1) - Occupied)
    BY <1>2, <1>5, <2>1, <2>3, <2>4 DEF Filled
  <2>6. Numbers(n, len)[k - Occupied] = n + (k - Occupied) - 1
    BY <2>1 DEF Numbers
  <2> QED
    BY <1>2, <1>6, <2>1, <2>5, <2>6
<1>9. \A k \in 1 .. Occupied + len : full[k] = c[k]
  BY <1>2, <1>7, <1>8
<1>10. full = c
  <2>1. DOMAIN full = 1 .. Occupied + len /\ DOMAIN c = 1 .. Occupied + len
    BY <1>2, <1>5, <1>6
  <2> QED
    BY <1>5, <1>6, <1>9, <2>1
<1> QED
  BY <1>3, <1>10 DEF full, c

\* A reader copies out of the ring.
LEMMA PlaceCopyOut ==
    ASSUME TypeInv, CopyInv, PlaceInv, IntReader = "none", NEW t \in Tasks, RWrap(t) \/ RRest(t)
    PROVE  PlaceInv'
<1>1. /\ head \in 0 .. Mask /\ tail \in 0 .. Mask /\ buf \in [0 .. Mask -> Byte] /\ out \in Seq(Int)
      /\ nleft[t] \in Nat /\ h \in 0 .. Mask
      /\ pc \in [Tasks -> {"user"} \cup PcReader \cup PcWriter] /\ pc[t] \in {"r_wrap", "r_rest"}
      /\ nleft \in [Tasks -> Nat]
  BY TaskFacts DEF RWrap, RRest, Running
<1>2. trap.id = "none" /\ current = t
  BY TaskFacts DEF RWrap, RRest, Running
<1>3. PICK len \in Nat : /\ tail + len <= Size /\ len <= Occupied
                         /\ \E next \in {"r_done", "r_rest", "r_direct"} : CopyOut(t, len, next)
  <2>1. CASE RWrap(t)
    <3>1. head < tail
      BY <1>2, <2>1 DEF CopyInv, RWrap, Running
    <3>2. MinOf(Size - tail, nleft[t]) \in Nat /\ tail + MinOf(Size - tail, nleft[t]) <= Size
          /\ MinOf(Size - tail, nleft[t]) <= Occupied
      BY <1>1, <3>1 DEF MinOf, Occupied, Wrap
    <3> QED
      BY <2>1, <3>2 DEF RWrap
  <2>2. CASE RRest(t)
    <3>1. h = head /\ h >= tail
      BY <1>2, <2>2, TaskFacts DEF CopyInv, RRest, Running
    <3>2. MinOf(h - tail, nleft[t]) \in Nat /\ tail + MinOf(h - tail, nleft[t]) <= Size
          /\ MinOf(h - tail, nleft[t]) <= Occupied
      BY <1>1, <3>1 DEF MinOf, Occupied, Wrap
    <3> QED
      BY <2>2, <3>2 DEF RRest
  <2> QED
    BY <2>1, <2>2
<1>4. /\ head' = head /\ buf' = buf /\ tail' = Wrap(tail + len) /\ out' = out \o Chunk(tail, len)
      /\ UNCHANGED <<accepted, arg, src>> /\ nleft' = [nleft EXCEPT ![t] = nleft[t] - len]
      /\ \E l \in PcReader : pc' = [pc EXCEPT ![t] = l]
  BY <1>1, <1>3, SMTT(30) DEF CopyOut, NextTail, SanityCheck, Trap, NoTrapYet, Goto, PcReader
<1>5. \A u \in Tasks : Kept(u)' = Kept(u)
  BY <1>1, <1>4 DEF Kept, PcReader, PcWriter
<1>6. KeptBy' = KeptBy
  BY <1>5 DEF KeptBy
<1>7. /\ Chunk(tail, len) \in Seq(Int) /\ Contents' \in Seq(Int)
      /\ Contents = Chunk(tail, len) \o Contents'
  BY <1>1, <1>3, <1>4, PoppedContents
<1> DEFINE taken == Chunk(tail, len)
           rest == Contents'
<1> HIDE DEF taken, rest
<1>8. /\ Injective(taken) /\ Injective(rest) /\ Elements(taken) \cap Elements(rest) = {}
      /\ Elements(Contents) = Elements(taken) \cup Elements(rest)
  <2>1. taken \in Seq(Int) /\ rest \in Seq(Int) /\ Contents = taken \o rest
    BY <1>7 DEF taken, rest
  <2>2. Injective(taken \o rest)
    BY <2>1 DEF PlaceInv
  <2> QED
    BY <2>1, <2>2, ConcatInjective
<1>9. Elements(rest) = Elements(Contents) \ Elements(taken)
  BY <1>8
<1>10. Injective(out \o taken) /\ Elements(out \o taken) = Elements(out) \cup Elements(taken)
  <2>1. Elements(out) \cap Elements(taken) = {}
    BY <1>8 DEF PlaceInv, Parted
  <2>2. taken \in Seq(Int) /\ Injective(out)
    BY <1>7 DEF taken, PlaceInv
  <2> QED
    BY <1>1, <1>8, <2>1, <2>2, ConcatInjective
<1>11. Parted(Elements(out) \cup Elements(taken), Elements(Contents) \ Elements(taken), KeptBy, accepted)
  BY <1>8, PartedPopped DEF PlaceInv
<1>12. out' = out \o taken /\ Contents' = rest
  BY <1>4 DEF taken, rest
<1>13. Injective(out') /\ Injective(Contents')
  BY <1>8, <1>10, <1>12
<1>14. Parted(Elements(out'), Elements(Contents'), KeptBy', accepted')
  BY <1>4, <1>6, <1>9, <1>10, <1>11, <1>12
<1>15. Elements(out)' = Elements(out') /\ Elements(Contents)' = Elements(Contents')
       /\ Injective(out)' = Injective(out') /\ Injective(Contents)' = Injective(Contents')
  BY DEF Elements, Injective
<1> QED
  BY <1>13, <1>14, <1>15 DEF PlaceInv, Parted

\* A task's bytes are copied straight into a reader's buffer.
LEMMA PlaceDirect ==
    ASSUME PlaceInv, out \in Seq(Int), NEW w \in Tasks, NEW n \in Nat, NEW len \in Nat,
           UNCHANGED <<head, tail, buf, accepted>>, out' = out \o Numbers(n, len),
           Interval(n, len) \subseteq Kept(w),
           \A u \in Tasks : Kept(u)' = IF u = w THEN Kept(w) \ Interval(n, len) ELSE Kept(u)
    PROVE  PlaceInv'
<1>1. Contents' = Contents
  BY DEF Contents, Occupied, Wrap
<1> DEFINE copied == Numbers(n, len)
<1>2. copied \in Seq(Int) /\ Injective(copied) /\ Elements(copied) = Interval(n, len)
  BY NumbersInjective
<1> HIDE DEF copied
<1>3. Injective(out \o copied) /\ Elements(out \o copied) = Elements(out) \cup Elements(copied)
  <2>1. KeptBy[w] = Kept(w)
    BY DEF KeptBy
  <2>2. Elements(out) \cap Elements(copied) = {}
    BY <1>2, <2>1 DEF PlaceInv, Parted
  <2> QED
    BY <1>2, <2>2, ConcatInjective DEF PlaceInv
<1>4. \A u \in Tasks : KeptBy'[u] = IF u = w THEN KeptBy[w] \ Interval(n, len) ELSE KeptBy[u]
  BY DEF KeptBy
<1>5. Parted(Elements(out) \cup Interval(n, len), Elements(Contents), KeptBy', accepted)
  <2>1. Interval(n, len) \subseteq KeptBy[w]
    BY DEF KeptBy
  <2>2. Parted(Elements(out), Elements(Contents), KeptBy, accepted)
    BY DEF PlaceInv
  <2> HIDE DEF KeptBy
  <2> QED
    BY <1>4, <2>1, <2>2, PartedCopied
<1>6. out' = out \o copied
  BY DEF copied
<1>7. Injective(out') /\ Parted(Elements(out'), Elements(Contents'), KeptBy', accepted')
  BY <1>1, <1>2, <1>3, <1>5, <1>6
<1>8. Elements(out)' = Elements(out') /\ Elements(Contents)' = Elements(Contents')
      /\ Injective(out)' = Injective(out') /\ Injective(Contents)' = Injective(Contents')
  BY DEF Elements, Injective
<1>9. Injective(Contents')
  BY <1>1 DEF PlaceInv
<1> QED
  BY <1>7, <1>8, <1>9 DEF PlaceInv, Parted

\* A writer copies into the ring.
LEMMA PlaceFill ==
    ASSUME TypeInv, CopyInv, PlaceInv, IntReader = "none", NEW t \in Tasks, WFill(t)
    PROVE  PlaceInv'
<1> DEFINE len == FillLen(t)
<1>1. /\ head \in 0 .. Mask /\ tail \in 0 .. Mask /\ buf \in [0 .. Mask -> Byte] /\ out \in Seq(Int)
      /\ nleft[t] \in Nat /\ src[t] \in Nat /\ navail \in 0 .. Mask
      /\ pc \in [Tasks -> {"user"} \cup PcReader \cup PcWriter] /\ pc[t] = "w_fill"
      /\ nleft \in [Tasks -> Nat] /\ src \in [Tasks -> Nat]
  BY TaskFacts DEF WFill, Running
<1>2. len \in Nat /\ head + len <= Size /\ len <= nleft[t] /\ len <= navail
  BY <1>1 DEF FillLen, MinOf
<1>3. navail = NumAvail
  BY <1>1 DEF CopyInv
<1>4. /\ buf' = Filled(head, src[t], len) /\ head' = Wrap(head + len) /\ tail' = tail
      /\ src' = [src EXCEPT ![t] = src[t] + len] /\ nleft' = [nleft EXCEPT ![t] = nleft[t] - len]
      /\ UNCHANGED <<accepted, out, arg>>
      /\ \E l \in {"w_done", "w_check", "w_top"} : pc' = [pc EXCEPT ![t] = l]
  BY DEF WFill, Goto, histVars
<1> HIDE DEF len
<1> DEFINE pushed == Numbers(src[t], len)
<1>5. Contents \in Seq(Int) /\ Contents' = Contents \o pushed
  BY <1>1, <1>2, <1>3, <1>4, PushedContents
<1>6. pushed \in Seq(Int) /\ Injective(pushed) /\ Elements(pushed) = Interval(src[t], len)
  BY <1>1, <1>2, NumbersInjective
<1> HIDE DEF pushed
<1>7. /\ Kept(t) = Interval(src[t], nleft[t]) /\ Interval(src[t], len) \subseteq Kept(t)
      /\ \A u \in Tasks : Kept(u)' = IF u = t THEN Kept(t) \ Interval(src[t], len) ELSE Kept(u)
  <2>1. Kept(t) = Interval(src[t], nleft[t])
    BY <1>1 DEF Kept, PcWriter
  <2>2. Interval(src[t], len) \subseteq Interval(src[t], nleft[t])
    BY <1>1, <1>2, SMTT(30) DEF Interval
  <2>3. Interval(src[t] + len, nleft[t] - len) = Interval(src[t], nleft[t]) \ Interval(src[t], len)
    <3> DEFINE n == src[t]
               all == nleft[t]
    <3>1. n \in Nat /\ all \in Nat /\ len \in Nat /\ len <= all
      BY <1>1, <1>2
    <3> HIDE DEF n, all
    <3>2. Interval(n + len, all - len) = Interval(n, all) \ Interval(n, len)
      BY <3>1, IntervalRest
    <3> QED
      BY <3>2 DEF n, all
  <2>4. Kept(t)' = Interval(src[t] + len, nleft[t] - len)
    BY <1>1, <1>4 DEF Kept, PcWriter
  <2>5. ASSUME NEW u \in Tasks, u # t
        PROVE  Kept(u)' = Kept(u)
    BY <1>1, <1>4, <2>5 DEF Kept
  <2> QED
    BY <2>1, <2>2, <2>3, <2>4, <2>5
<1>8. Injective(Contents \o pushed) /\ Elements(Contents \o pushed) = Elements(Contents) \cup Elements(pushed)
  <2>1. KeptBy[t] = Kept(t)
    BY DEF KeptBy
  <2>2. Elements(Contents) \cap Elements(pushed) = {}
    BY <1>6, <1>7, <2>1 DEF PlaceInv, Parted
  <2> QED
    BY <1>5, <1>6, <2>2, ConcatInjective DEF PlaceInv
<1>9. \A u \in Tasks : KeptBy'[u] = IF u = t THEN KeptBy[t] \ Interval(src[t], len) ELSE KeptBy[u]
  BY <1>7 DEF KeptBy
<1>10. Parted(Elements(out), Elements(Contents) \cup Interval(src[t], len), KeptBy', accepted)
  <2>1. Interval(src[t], len) \subseteq KeptBy[t]
    BY <1>7 DEF KeptBy
  <2>2. Parted(Elements(out), Elements(Contents), KeptBy, accepted)
    BY DEF PlaceInv
  <2> HIDE DEF KeptBy
  <2> QED
    BY <1>9, <2>1, <2>2, PartedPushed
<1>11. Injective(Contents') /\ Parted(Elements(out'), Elements(Contents'), KeptBy', accepted')
  BY <1>4, <1>5, <1>6, <1>8, <1>10
<1>12. Elements(out)' = Elements(out') /\ Elements(Contents)' = Elements(Contents')
       /\ Injective(out)' = Injective(out') /\ Injective(Contents)' = Injective(Contents')
  BY DEF Elements, Injective
<1>13. Injective(out')
  BY <1>4 DEF PlaceInv
<1> QED
  BY <1>11, <1>12, <1>13 DEF PlaceInv, Parted

\* A direct copy between the running task and a blocked one.
LEMMA PlaceRDirect ==
    ASSUME TypeInv, CopyInv, PlaceInv, IntReader = "none", NEW t \in Tasks, RDirect(t)
    PROVE  PlaceInv'
<1>1. /\ pc \in [Tasks -> {"user"} \cup PcReader \cup PcWriter] /\ pc[t] = "r_direct" /\ current = t
      /\ nleft \in [Tasks -> Nat] /\ nleft[t] \in Nat /\ out \in Seq(Int)
      /\ arg \in [Tasks -> [src : Nat, len : Nat]]
      /\ wrtask \in Tasks \cup {NoTask}
  BY TaskFacts DEF RDirect, Running
<1>2. /\ UNCHANGED <<head, tail, buf, src, accepted>>
      /\ \E l \in {"r_check", "r_done"} : pc' = [pc EXCEPT ![t] = l]
  BY <1>1 DEF RDirect, Goto
<1>3. CASE wrtask = NoTask
  <2>1. UNCHANGED <<out, nleft, arg>>
    BY <1>3 DEF RDirect
  <2>2. \A u \in Tasks : Kept(u)' = Kept(u)
    BY <1>1, <1>2, <2>1 DEF Kept, PcWriter
  <2> QED
    BY <1>2, <2>1, <2>2, PlaceFrame
<1>4. ASSUME NEW w \in Tasks, wrtask = w
      PROVE  PlaceInv'
  <2> DEFINE len == MinOf(nleft[t], arg[w].len)
  <2>1. arg[w].len \in Nat /\ arg[w].src \in Nat /\ w # t /\ pc[w] \in PcWriter
    BY <1>1, <1>4, TaskFacts DEF CopyInv, PcWriter
  <2>2. len \in Nat /\ len <= arg[w].len
    BY <1>1, <2>1, MinOfBounds, Zenon
  <2>3. /\ out' = out \o Numbers(arg[w].src, len)
        /\ nleft' = [nleft EXCEPT ![t] = nleft[t] - len]
        /\ arg' = [arg EXCEPT ![w] = Advance(arg[w], len)]
    BY <1>4 DEF RDirect
  <2> HIDE DEF len
  <2>4. \A u \in Tasks : u # w => Kept(u)' = Kept(u)
    BY <1>1, <1>2, <2>3 DEF Kept, PcWriter
  <2>5. /\ Interval(arg[w].src, len) \subseteq Kept(w)
        /\ Kept(w)' = Kept(w) \ Interval(arg[w].src, len)
    <3>1. CASE pc[w] = "w_entry"
      <4>1. Kept(w) = Interval(arg[w].src, arg[w].len)
        BY <3>1 DEF Kept
      <4>3. arg'[w].src = arg[w].src + len /\ arg'[w].len = arg[w].len - len /\ pc'[w] = "w_entry"
        BY <1>1, <1>2, <1>4, <2>1, <2>3, <3>1 DEF Advance
      <4>4. Kept(w)' = Interval(arg[w].src + len, arg[w].len - len)
        BY <4>3 DEF Kept
      <4> QED
        <5> DEFINE n == arg[w].src
                   all == arg[w].len
        <5>1. n \in Nat /\ all \in Nat /\ len \in Nat /\ len <= all
          BY <2>1, <2>2
        <5> HIDE DEF n, all
        <5>2. /\ Interval(n, len) \subseteq Interval(n, all)
              /\ Interval(n + len, all - len) = Interval(n, all) \ Interval(n, len)
          BY <5>1, IntervalRest
        <5> QED
          BY <4>1, <4>4, <5>2 DEF n, all
    <3>2. CASE pc[w] # "w_entry"
      <4>1. arg[w].len = 0
        BY <1>1, <1>4, <2>1, <3>2 DEF CopyInv, Slept, PcWriter
      <4>2. len = 0
        BY <2>2, <4>1
      <4>3. Interval(arg[w].src, len) = {}
        BY <2>1, <4>2 DEF Interval
      <4>4. Kept(w)' = Kept(w)
        BY <1>1, <1>2, <2>1, <2>3, <3>2 DEF Kept, PcWriter
      <4> QED
        BY <4>3, <4>4
    <3> QED
      BY <3>1, <3>2
  <2> QED
    BY <1>1, <1>2, <2>1, <2>2, <2>3, <2>4, <2>5, PlaceDirect
<1> QED
  BY <1>1, <1>3, <1>4

LEMMA PlaceWDirect ==
    ASSUME TypeInv, CopyInv, PlaceInv, IntReader = "none", NEW t \in Tasks, WDirect(t)
    PROVE  PlaceInv'
<1>1. /\ pc \in [Tasks -> {"user"} \cup PcReader \cup PcWriter] /\ pc[t] = "w_top" /\ current = t
      /\ nleft \in [Tasks -> Nat] /\ nleft[t] \in Nat /\ out \in Seq(Int)
      /\ src \in [Tasks -> Nat] /\ src[t] \in Nat
      /\ arg \in [Tasks -> [src : Nat, len : Nat]]
      /\ rdtask \in Tasks \cup {NoTask}
  BY TaskFacts DEF WDirect, Running
<1>2. /\ UNCHANGED <<head, tail, buf, accepted>>
      /\ \E l \in {"w_avail", "w_done"} : pc' = [pc EXCEPT ![t] = l]
  BY <1>1 DEF WDirect, Goto
<1>3. CASE rdtask = NoTask
  <2>1. UNCHANGED <<out, nleft, arg, src>>
    BY <1>3 DEF WDirect
  <2>2. \A u \in Tasks : Kept(u)' = Kept(u)
    BY <1>1, <1>2, <2>1 DEF Kept, PcWriter
  <2> QED
    BY <1>2, <2>1, <2>2, PlaceFrame
<1>4. CASE rdtask \in Tasks
  <2> DEFINE r == rdtask
             len == MinOf(nleft[t], arg[r].len)
  <2>1. arg[r].len \in Nat /\ r # t /\ pc[r] \in PcReader
    BY <1>1, <1>4, TaskFacts DEF CopyInv, PcReader
  <2>2. len \in Nat /\ len <= nleft[t]
    BY <1>1, <2>1, MinOfBounds, Zenon
  <2>3. /\ out' = out \o Numbers(src[t], len)
        /\ nleft' = [nleft EXCEPT ![t] = nleft[t] - len]
        /\ src' = [src EXCEPT ![t] = src[t] + len]
        /\ arg' = [arg EXCEPT ![r] = Advance(arg[r], len)]
    BY <1>4 DEF WDirect, IntTask
  <2> HIDE DEF len
  <2>4. ASSUME NEW u \in Tasks, u # t
        PROVE  Kept(u)' = Kept(u)
    <3>1. pc'[u] = pc[u] /\ src'[u] = src[u] /\ nleft'[u] = nleft[u] /\ (pc[u] = "w_entry" => arg'[u] = arg[u])
      BY <1>1, <1>2, <1>4, <2>1, <2>3, <2>4 DEF PcReader
    <3> QED
      BY <3>1 DEF Kept
  <2>5. /\ Interval(src[t], len) \subseteq Kept(t)
        /\ Kept(t)' = Kept(t) \ Interval(src[t], len)
    <3>1. Kept(t) = Interval(src[t], nleft[t])
      BY <1>1 DEF Kept, PcWriter
    <3>2. Kept(t)' = Interval(src[t] + len, nleft[t] - len)
      BY <1>1, <1>2, <2>3 DEF Kept, PcWriter
    <3> QED
      <4> DEFINE n == src[t]
                 all == nleft[t]
      <4>1. n \in Nat /\ all \in Nat /\ len \in Nat /\ len <= all
        BY <1>1, <2>2
      <4> HIDE DEF n, all
      <4>2. /\ Interval(n, len) \subseteq Interval(n, all)
            /\ Interval(n + len, all - len) = Interval(n, all) \ Interval(n, len)
        BY <4>1, IntervalRest
      <4> QED
        BY <3>1, <3>2, <4>2 DEF n, all
  <2> QED
    BY <1>1, <1>2, <2>2, <2>3, <2>4, <2>5, PlaceDirect
<1> QED
  BY <1>1, <1>3, <1>4

\* The kernel gives a task the bytes that it wants to write.
LEMMA PlaceWrite ==
    ASSUME TypeInv, PlaceInv, IntReader = "none", KWrite
    PROVE  PlaceInv'
<1>1. /\ current \in Tasks /\ pc[current] = "user" /\ trap.len \in Nat /\ accepted \in Nat
      /\ pc \in [Tasks -> {"user"} \cup PcReader \cup PcWriter]
      /\ arg \in [Tasks -> [src : Nat, len : Nat]]
  BY TaskFacts DEF KWrite, Handle
<1>2. /\ UNCHANGED <<head, tail, buf, out, src, nleft>> /\ accepted' = accepted + trap.len
      /\ arg' = [arg EXCEPT ![current] = [src |-> accepted, len |-> trap.len]]
      /\ pc' = [pc EXCEPT ![current] = "w_entry"]
  BY DEF KWrite, Handle, Goto
<1>3. Contents' = Contents
  BY <1>2 DEF Contents, Occupied, Wrap
<1>4. ASSUME NEW u \in Tasks
      PROVE  Kept(u)' = IF u = current THEN Interval(accepted, trap.len) ELSE Kept(u)
  BY <1>1, <1>2 DEF Kept
<1>5. \A u \in Tasks : KeptBy'[u] = IF u = current THEN Interval(accepted, trap.len) ELSE KeptBy[u]
  BY <1>4 DEF KeptBy
<1>6. KeptBy[current] = {}
  BY <1>1 DEF KeptBy, Kept, PcWriter
<1>7. Parted(Elements(out), Elements(Contents), KeptBy', accepted + trap.len)
  <2>1. Parted(Elements(out), Elements(Contents), KeptBy, accepted)
    BY DEF PlaceInv
  <2> HIDE DEF KeptBy
  <2> QED
    BY <1>1, <1>5, <1>6, <2>1, PartedGiven
<1> QED
  <2>1. Elements(out)' = Elements(out) /\ Elements(Contents)' = Elements(Contents)
        /\ Injective(out)' = Injective(out) /\ Injective(Contents)' = Injective(Contents)
    BY <1>2, <1>3 DEF Elements, Injective
  <2>2. Parted(Elements(out), Elements(Contents), KeptBy, accepted)' =
            Parted(Elements(out)', Elements(Contents)', KeptBy', accepted')
    BY DEF Parted
  <2> QED
    BY <1>2, <1>7, <2>1, <2>2 DEF PlaceInv

\* Every other step leaves each byte where it is.
LEMMA PlaceOther ==
    ASSUME TypeInv, CopyInv, PlaceInv, IntReader = "none", ~IntWriter,
           \/ \E t \in Tasks : \/ Calls(t) \/ REntry(t) \/ RHead(t) \/ RCheck(t) \/ RDone(t)
                               \/ WEntry(t) \/ WAvail(t) \/ WCheck(t) \/ WDone(t)
           \/ Interrupt \/ \E active \in BOOLEAN : KIrq(active)
           \/ KNoTrap \/ KWait \/ KExit \/ KReadHalt \/ KRead \/ KWriteFail \/ KSched
           \/ RxArrive \/ DeviceReady \/ UNCHANGED vars
    PROVE  PlaceInv'
<1> USE DEF pipeVars, taskVars, localVars, kernelVars, devVars, histVars, callVars, Goto
<1>b. /\ pc \in [Tasks -> {"user"} \cup PcReader \cup PcWriter]
      /\ arg \in [Tasks -> [src : Nat, len : Nat]]
      /\ nleft \in [Tasks -> Nat] /\ src \in [Tasks -> Nat]
  BY TaskFacts
<1>1. ASSUME NEW t \in Tasks, Calls(t)
      PROVE  PlaceInv'
  <2>1. UNCHANGED <<head, tail, buf, out, accepted, pc, arg, src, nleft>>
    BY <1>1 DEF Calls, Read, Write, Yield
  <2> QED
    BY <2>1, PlaceFrame DEF Kept
<1>2. ASSUME NEW t \in Tasks, REntry(t) \/ RHead(t) \/ RCheck(t) \/ RDone(t)
      PROVE  PlaceInv'
  <2>1. /\ UNCHANGED <<head, tail, buf, out, accepted, arg, src>>
        /\ \E l \in {"user"} \cup PcReader : pc' = [pc EXCEPT ![t] = l]
        /\ pc[t] \in PcReader
        /\ \A u \in Tasks : u # t => nleft'[u] = nleft[u]
    BY <1>2, <1>b DEF REntry, RHead, RCheck, RDone, Running, PcReader
  <2>2. \A u \in Tasks : Kept(u)' = Kept(u)
    BY <1>b, <2>1 DEF Kept, PcReader, PcWriter
  <2> QED
    BY <2>1, <2>2, PlaceFrame
<1>3. ASSUME NEW t \in Tasks, WEntry(t)
      PROVE  PlaceInv'
  <2>1. /\ UNCHANGED <<head, tail, buf, out, accepted, arg>>
        /\ pc' = [pc EXCEPT ![t] = "w_top"] /\ pc[t] = "w_entry"
        /\ nleft' = [nleft EXCEPT ![t] = arg[t].len] /\ src' = [src EXCEPT ![t] = arg[t].src]
    BY <1>3 DEF WEntry, Running
  <2>2. ASSUME NEW u \in Tasks
        PROVE  Kept(u)' = Kept(u)
    <3>1. CASE u # t
      BY <1>b, <2>1, <3>1 DEF Kept
    <3>2. CASE u = t
      <4>1. pc'[t] = "w_top" /\ src'[t] = arg[t].src /\ nleft'[t] = arg[t].len
        BY <1>b, <2>1
      <4> QED
        BY <2>1, <3>2, <4>1 DEF Kept, PcWriter
    <3> QED
      BY <3>1, <3>2
  <2> QED
    BY <2>1, <2>2, PlaceFrame
<1>4. ASSUME NEW t \in Tasks, WAvail(t) \/ WCheck(t)
      PROVE  PlaceInv'
  <2>1. /\ UNCHANGED <<head, tail, buf, out, accepted, arg, src, nleft>>
        /\ \E l \in {"w_fill", "w_top"} : pc' = [pc EXCEPT ![t] = l]
        /\ pc[t] \in {"w_avail", "w_check"}
    BY <1>4 DEF WAvail, WCheck, Running
  <2>2. \A u \in Tasks : Kept(u)' = Kept(u)
    BY <1>b, <2>1 DEF Kept, PcWriter
  <2> QED
    BY <2>1, <2>2, PlaceFrame
<1>5. ASSUME NEW t \in Tasks, WDone(t)
      PROVE  PlaceInv'
  <2>1. /\ UNCHANGED <<head, tail, buf, out, accepted, arg, src, nleft>>
        /\ pc' = [pc EXCEPT ![t] = "user"] /\ pc[t] = "w_done"
    BY <1>5 DEF WDone, Running
  <2>2. nleft[t] = 0 /\ Interval(src[t], 0) = {}
    BY <1>b, <2>1, SMTT(30) DEF Interval, CopyInv
  <2>3. \A u \in Tasks : Kept(u)' = Kept(u)
    BY <1>b, <1>5, <2>1, <2>2 DEF Kept, PcWriter
  <2> QED
    BY <2>1, <2>3, PlaceFrame
<1>6. CASE Interrupt \/ (\E active \in BOOLEAN : KIrq(active)) \/ KNoTrap \/ KExit \/ KReadHalt
           \/ KWriteFail \/ KSched \/ RxArrive \/ DeviceReady \/ UNCHANGED vars
  <2>1. UNCHANGED <<head, tail, buf, out, accepted, pc, arg, src, nleft>>
    BY <1>6, IrqIdle DEF Interrupt, KNoTrap, KExit, KReadHalt, KWriteFail, KSched, RxArrive, DeviceReady,
       vars, Handle
  <2> QED
    BY <2>1, PlaceFrame DEF Kept
<1>7. CASE KWait
  <2>1. /\ UNCHANGED <<head, tail, buf, out, accepted, pc, src, nleft>>
        /\ arg' = [arg EXCEPT ![current] = [src |-> 0, len |-> 0]]
        /\ pc[current] # "w_entry"
    BY <1>7, TaskFacts DEF KWait, Handle
  <2>2. \A u \in Tasks : Kept(u)' = Kept(u)
    BY <1>b, <2>1 DEF Kept
  <2> QED
    BY <2>1, <2>2, PlaceFrame
<1>8. CASE KRead
  <2>1. /\ UNCHANGED <<head, tail, buf, out, accepted, src, nleft>>
        /\ arg' = [arg EXCEPT ![current] = [src |-> 0, len |-> trap.len]]
        /\ pc' = [pc EXCEPT ![current] = "r_entry"] /\ pc[current] = "user"
    BY <1>8, TaskFacts DEF KRead, Handle
  <2>2. \A u \in Tasks : Kept(u)' = Kept(u)
    BY <1>b, <2>1 DEF Kept, PcWriter
  <2> QED
    BY <2>1, <2>2, PlaceFrame
<1> QED
  BY <1>1, <1>2, <1>3, <1>4, <1>5, <1>6, <1>7, <1>8

-----------------------------------------------------------------------------
(***************************************************************************)
(* Nothing is lost.                                                        *)
(***************************************************************************)

LEMMA PlaceInit ==
    ASSUME Init, IntReader = "none"
    PROVE  PlaceInv
<1>1. Occupied = 0 /\ accepted = 0 /\ out = <<>>
  BY DEF Init, Occupied, Wrap
<1>2. Contents = <<>>
  BY <1>1 DEF Contents
<1>3. Elements(<<>>) = {} /\ Injective(<<>>)
  BY DEF Elements, Injective
<1>4. \A t \in Tasks : KeptBy[t] = {}
  BY DEF Init, KeptBy, Kept, PcWriter
<1>5. Parted({}, {}, KeptBy, 0)
  BY <1>4 DEF Parted
<1> QED
  BY <1>1, <1>2, <1>3, <1>5 DEF PlaceInv

LEMMA PlaceInvariant ==
    ASSUME IntReader = "none", ~IntWriter
    PROVE  Spec => [](TypeInv /\ CopyInv /\ PlaceInv)
<1>1. Init => PlaceInv
  BY PlaceInit
<1>2. TypeInv /\ CopyInv /\ PlaceInv /\ [Next]_vars => PlaceInv'
  <2> SUFFICES ASSUME TypeInv, CopyInv, PlaceInv, [Next]_vars
               PROVE  PlaceInv'
    OBVIOUS
  <2>1. ASSUME NEW t \in Tasks, URead(t)
        PROVE  PlaceInv'
    BY <2>1, PlaceOther, PlaceCopyOut, PlaceRDirect DEF URead
  <2>2. ASSUME NEW t \in Tasks, UWrite(t)
        PROVE  PlaceInv'
    BY <2>2, PlaceOther, PlaceFill, PlaceWDirect DEF UWrite
  <2>3. ASSUME NEW t \in Tasks, Calls(t)
        PROVE  PlaceInv'
    BY <2>3, PlaceOther
  <2>4. CASE Kernel
    <3>1. ~KReadError
      BY DEF KReadError, CopyInv
    <3> QED
      BY <2>4, <3>1, PlaceOther, PlaceWrite DEF Kernel, KTrap
  <2>5. CASE Interrupt \/ RxArrive \/ DeviceReady \/ UNCHANGED vars
    BY <2>5, PlaceOther
  <2> QED
    BY <2>1, <2>2, <2>3, <2>4, <2>5 DEF Next
<1>3. Spec => [](TypeInv /\ CopyInv)
  BY CopyInvariant
<1> QED
  BY <1>1, <1>2, <1>3, PTL DEF Spec

\* How often a byte occurs in a sequence without repetition.
LEMMA TimesInjective ==
    ASSUME NEW s \in Seq(Int), Injective(s), NEW n \in Int
    PROVE  Times(s, n) = IF n \in Elements(s) THEN 1 ELSE 0
<1> DEFINE places == {i \in DOMAIN s : s[i] = n}
<1>1. DOMAIN s = 1 .. Len(s)
  OBVIOUS
<1>2. CASE n \in Elements(s)
  <2>1. PICK i \in 1 .. Len(s) : s[i] = n
    BY <1>2 DEF Elements
  <2>2. places = {i}
    BY <1>1, <2>1 DEF Injective
  <2>3. Cardinality({i}) = 1
    BY FS_Singleton
  <2> QED
    BY <1>2, <2>2, <2>3 DEF Times
<1>3. CASE n \notin Elements(s)
  <2>1. places = {}
    BY <1>1, <1>3 DEF Elements
  <2>2. Cardinality({}) = 0
    BY FS_EmptySet
  <2> QED
    BY <1>3, <2>1, <2>2 DEF Times
<1> QED
  BY <1>2, <1>3

\* What a task still has to copy is what the invariant says it keeps.
LEMMA OwedKept ==
    ASSUME TypeInv, IntReader = "none", NEW t \in Tasks, NEW n \in Int
    PROVE  Times(Owed(t), n) > 0 <=> n \in Kept(t)
<1>1. /\ pc[t] \in {"user"} \cup PcReader \cup PcWriter
      /\ arg[t].src \in Nat /\ arg[t].len \in Nat /\ src[t] \in Nat /\ nleft[t] \in Nat
  BY TaskFacts
<1>2. ASSUME NEW m \in Nat, NEW len \in Nat
      PROVE  Times(Numbers(m, len), n) > 0 <=> n \in Interval(m, len)
  <2> DEFINE s == Numbers(m, len)
  <2>1. s \in Seq(Int) /\ Injective(s) /\ Elements(s) = Interval(m, len)
    BY NumbersInjective
  <2> HIDE DEF s
  <2>2. Times(s, n) = IF n \in Elements(s) THEN 1 ELSE 0
    BY <2>1, TimesInjective
  <2> QED
    BY <2>1, <2>2 DEF s
<1>3. CASE pc[t] = "w_entry"
  <2>1. Owed(t) = Numbers(arg[t].src, arg[t].len) /\ Kept(t) = Interval(arg[t].src, arg[t].len)
    BY <1>3 DEF Owed, Kept
  <2> QED
    BY <1>1, <1>2, <2>1
<1>4. CASE pc[t] \in PcWriter \ {"w_entry"}
  <2>1. Owed(t) = Numbers(src[t], nleft[t]) /\ Kept(t) = Interval(src[t], nleft[t])
    BY <1>4 DEF Owed, Kept
  <2> QED
    BY <1>1, <1>2, <2>1
<1>5. CASE pc[t] \notin PcWriter
  <2>1. Owed(t) = <<>> /\ Kept(t) = {}
    BY <1>5 DEF Owed, Kept, PcWriter
  <2>2. Times(<<>>, n) = 0
    <3>1. {i \in DOMAIN <<>> : <<>>[i] = n} = {}
      OBVIOUS
    <3>2. Cardinality({}) = 0
      BY FS_EmptySet
    <3> QED
      BY <3>1, <3>2 DEF Times
  <2> QED
    BY <2>1, <2>2
<1> QED
  BY <1>3, <1>4, <1>5

\* Every byte that a write call took is in exactly one place: delivered, in the
\* ring, or still to be copied by one task, for every number of readers and
\* writers and every length: the direct copies in both directions between two
\* blocked tasks (syspipe.c:199-242, 285-311) neither drop nor repeat one.
THEOREM TaskNothingLost ==
    ASSUME IntReader = "none", ~IntWriter
    PROVE  Spec => []NothingLost
<1>1. TypeInv /\ CopyInv /\ PlaceInv => NothingLost
  <2> SUFFICES ASSUME TypeInv, PlaceInv, NEW n \in 0 .. accepted - 1
               PROVE  Times(out, n) + Times(Contents, n)
                          + Cardinality({t \in Tasks : Times(Owed(t), n) > 0}) = 1
    BY DEF NothingLost
  <2>1. /\ out \in Seq(Int) /\ head \in 0 .. Mask /\ tail \in 0 .. Mask
        /\ buf \in [0 .. Mask -> Byte] /\ accepted \in Nat /\ n \in Int
    BY TaskFacts
  <2>2. Contents \in Seq(Int)
    BY <2>1, ContentsSeq
  <2>3. Times(out, n) = IF n \in Elements(out) THEN 1 ELSE 0
    BY <2>1, TimesInjective DEF PlaceInv
  <2>4. Times(Contents, n) = IF n \in Elements(Contents) THEN 1 ELSE 0
    BY <2>1, <2>2, TimesInjective DEF PlaceInv
  <2> DEFINE keepers == {t \in Tasks : Times(Owed(t), n) > 0}
  <2>5. keepers = {t \in Tasks : n \in Kept(t)}
    BY <2>1, OwedKept
  <2> HIDE DEF keepers
  <2>6. Cardinality({}) = 0 /\ \A t \in Tasks : Cardinality({t}) = 1
    BY FS_EmptySet, FS_Singleton
  <2>7. /\ ~(n \in Elements(out) /\ n \in Elements(Contents))
        /\ \A t \in Tasks : n \in Kept(t) => n \notin Elements(out) /\ n \notin Elements(Contents)
        /\ \A t, u \in Tasks : n \in Kept(t) /\ n \in Kept(u) => t = u
        /\ n \in Elements(out) \/ n \in Elements(Contents) \/ \E t \in Tasks : n \in Kept(t)
    BY DEF PlaceInv, Parted, KeptBy
  <2>8. CASE \E t \in Tasks : n \in Kept(t)
    <3>1. PICK t \in Tasks : n \in Kept(t)
      BY <2>8
    <3>2. keepers = {t}
      BY <2>5, <2>7, <3>1
    <3>3. Cardinality(keepers) = 1
      BY <2>6, <3>2
    <3>4. n \notin Elements(out) /\ n \notin Elements(Contents)
      BY <2>7, <3>1
    <3> QED
      BY <2>3, <2>4, <3>3, <3>4 DEF keepers
  <2>9. CASE ~\E t \in Tasks : n \in Kept(t)
    <3>1. keepers = {}
      BY <2>5, <2>9
    <3>2. Cardinality(keepers) = 0
      BY <2>6, <3>1
    <3> QED
      BY <2>3, <2>4, <2>7, <2>9, <3>2 DEF keepers
  <2> QED
    BY <2>8, <2>9
<1> QED
  BY <1>1, PlaceInvariant, PTL
-----------------------------------------------------------------------------
(***************************************************************************)
(* One task reads and one writes: calls return what they were asked.       *)
(***************************************************************************)

\* CountInv after a step of the running task t that makes no call, from what
\* the step did to the task and to the totals that it shares with the others.
LEMMA CountUserIntro ==
    ASSUME TypeInv, CountInv, OneOfEach, IntReader = "none", NEW t \in Tasks,
           phase = "user", current = t, current' = t, asked' = asked,
           phase' = "user" \/ trap'.id \notin {"READ", "WRITE"},
           \A u \in Tasks : u # t => pc'[u] = pc[u] /\ ret'[u] = ret[u],
           \A u \in Tasks : u # t /\ pc[u] \in PcReader => nread' + ToRead(u)' = nread + ToRead(u),
           \A u \in Tasks : u # t /\ pc[u] \in PcWriter => nwritten' + ToWrite(u)' = nwritten + ToWrite(u),
           ReadCount(t)', WriteCount(t)', ReturnCount(t)'
    PROVE  CountInv'
<1>1. trap.id = "none"
  BY TaskFacts
<1>2. ASSUME NEW u \in Tasks, u # t
      PROVE  ReadCount(u)' /\ WriteCount(u)' /\ ReturnCount(u)'
  <2>1. /\ pc'[u] = pc[u] /\ ret'[u] = ret[u] /\ asked'[u] = asked[u]
        /\ ReadCount(u) /\ WriteCount(u) /\ ReturnCount(u) /\ ~CallPending(u)
    BY <1>1, <1>2 DEF CountInv, CallPending
  <2>2. ReturnCount(u)'
    BY <2>1 DEF ReturnCount
  <2>3. ReadCount(u)'
    BY <1>2, <2>1 DEF ReadCount
  <2>4. WriteCount(u)'
    BY <1>2, <2>1 DEF WriteCount
  <2> QED
    BY <2>2, <2>3, <2>4
<1>3. ~(trap'.id \in {"READ", "WRITE"} /\ phase' \in {"irq", "trap"})
  OBVIOUS
<1> QED
  BY <1>2, <1>3 DEF CountInv

\* A step of a task in its user code, in read() or in write().
LEMMA CountUser ==
    ASSUME TypeInv, CopyInv, CountInv, OneOfEach, IntReader = "none", NEW t \in Tasks,
           Calls(t) \/ URead(t) \/ UWrite(t)
    PROVE  CountInv'
<1> USE DEF Running, Goto, pipeVars, taskVars, localVars, devVars, histVars, callVars
<1>1. /\ pc \in [Tasks -> {"user"} \cup PcReader \cup PcWriter]
      /\ nleft \in [Tasks -> Nat] /\ asked \in [Tasks -> Nat] /\ ret \in [Tasks -> Int]
      /\ nread \in Nat /\ nwritten \in Nat /\ nleft[t] \in Nat
      /\ arg \in [Tasks -> [src : Nat, len : Nat]] /\ \A u \in Tasks : arg[u].len \in Nat
  BY TaskFacts
<1>2. ReadCount(t) /\ WriteCount(t) /\ ReturnCount(t)
  BY DEF CountInv
<1>3. phase = "user" /\ current = t /\ trap.id = "none"
  <2>1. phase = "user" /\ current = t
    BY DEF Calls, Read, Write, Yield, URead, REntry, RHead, RWrap, RRest, RDirect, RCheck, RDone,
          UWrite, WEntry, WDirect, WAvail, WFill, WCheck, WDone
  <2> QED
    BY <2>1, TaskFacts
<1>4. /\ pc[t] \in PcReader => \A u \in Tasks : u # t => pc[u] \notin PcReader
      /\ pc[t] \in PcWriter => \A u \in Tasks : u # t => pc[u] \notin PcWriter
  BY DEF CountInv, ReadCount, WriteCount, OneOfEach
<1>5. ASSUME pc[t] \in PcReader, current' = t, asked' = asked, ret' = ret,
             phase' = "user" \/ trap'.id \notin {"READ", "WRITE"},
             NEW l \in PcReader \ {"r_entry"}, pc' = [pc EXCEPT ![t] = l],
             NEW n \in Int, nleft' = [nleft EXCEPT ![t] = n], nread' + n = nread + ToRead(t),
             \A u \in Tasks : pc[u] \in PcWriter => nwritten' + ToWrite(u)' = nwritten + ToWrite(u)
      PROVE  CountInv'
  <2>1. pc'[t] = l /\ nleft'[t] = n /\ \A u \in Tasks : u # t => pc'[u] = pc[u] /\ ret'[u] = ret[u]
    BY <1>1, <1>5
  <2>2. ReadCount(t)'
    BY <1>2, <1>5, <2>1 DEF ReadCount, ToRead
  <2>3. WriteCount(t)' /\ ReturnCount(t)'
    BY <1>5, <2>1 DEF WriteCount, ReturnCount, PcReader, PcWriter
  <2> QED
    BY <1>3, <1>4, <1>5, <2>1, <2>2, <2>3, CountUserIntro
<1>6. ASSUME pc[t] \in PcWriter, current' = t, asked' = asked, ret' = ret,
             phase' = "user" \/ trap'.id \notin {"READ", "WRITE"},
             NEW l \in PcWriter \ {"w_entry"}, pc' = [pc EXCEPT ![t] = l],
             NEW n \in Int, nleft' = [nleft EXCEPT ![t] = n], nwritten' + n = nwritten + ToWrite(t),
             \A u \in Tasks : pc[u] \in PcReader => nread' + ToRead(u)' = nread + ToRead(u)
      PROVE  CountInv'
  <2>1. pc'[t] = l /\ nleft'[t] = n /\ \A u \in Tasks : u # t => pc'[u] = pc[u] /\ ret'[u] = ret[u]
    BY <1>1, <1>6
  <2>2. WriteCount(t)'
    BY <1>2, <1>6, <2>1 DEF WriteCount, ToWrite
  <2>3. ReadCount(t)' /\ ReturnCount(t)'
    BY <1>6, <2>1 DEF ReadCount, ReturnCount, PcReader, PcWriter
  <2> QED
    BY <1>3, <1>4, <1>6, <2>1, <2>2, <2>3, CountUserIntro
<1>7. ASSUME pc[t] \in PcReader, UNCHANGED <<nwritten, arg>>, NEW l \in PcReader, pc' = [pc EXCEPT ![t] = l],
             NEW n \in Int, nleft' = [nleft EXCEPT ![t] = n]
      PROVE  \A u \in Tasks : pc[u] \in PcWriter => nwritten' + ToWrite(u)' = nwritten + ToWrite(u)
  BY <1>1, <1>7 DEF ToWrite, PcReader, PcWriter
<1>8. ASSUME pc[t] \in PcWriter, UNCHANGED <<nread, arg>>, NEW l \in PcWriter, pc' = [pc EXCEPT ![t] = l],
             NEW n \in Int, nleft' = [nleft EXCEPT ![t] = n]
      PROVE  \A u \in Tasks : pc[u] \in PcReader => nread' + ToRead(u)' = nread + ToRead(u)
  BY <1>1, <1>8 DEF ToRead, PcReader, PcWriter
<1>10. CASE Calls(t)
  <2>1. \A u \in Tasks : u # t => asked'[u] = asked[u]
    BY <1>1, <1>10 DEF Calls, Read, Write, Yield
  <2>2. /\ UNCHANGED <<pc, ret, nread, nwritten, arg, nleft, current>> /\ pc[t] = "user"
        /\ phase' = "irq" /\ trap'.id \in {"READ", "WRITE", "YIELD"}
    BY <1>10 DEF Calls, Read, Write, Yield, Trap
  <2>3. trap'.id \in {"READ", "WRITE"} => /\ asked'[t] = trap'.len
                                          /\ t \in (IF trap'.id = "READ" THEN Readers ELSE Writers)
    <3>1. ASSUME NEW m \in ReadLens, Read(t, m)
          PROVE  asked'[t] = m /\ trap'.len = m /\ trap'.id = "READ" /\ t \in Readers
      BY <1>1, <3>1 DEF Read, Trap
    <3>2. ASSUME NEW m \in WriteLens, Write(t, m)
          PROVE  asked'[t] = m /\ trap'.len = m /\ trap'.id = "WRITE" /\ t \in Writers
      BY <1>1, <3>2 DEF Write, Trap
    <3>3. Yield(t) => trap'.id = "YIELD"
      BY DEF Yield, Trap
    <3> QED
      BY <1>10, <3>1, <3>2, <3>3 DEF Calls
  <2>4. ASSUME NEW u \in Tasks, u # t
        PROVE  ReadCount(u)' /\ WriteCount(u)' /\ ReturnCount(u)'
    <3>1. ReadCount(u) /\ WriteCount(u) /\ ReturnCount(u) /\ ~CallPending(u)
      BY <1>3 DEF CountInv, CallPending
    <3> QED
      BY <2>1, <2>2, <2>4, <3>1 DEF ReadCount, WriteCount, ReturnCount, ToRead, ToWrite
  <2>5. ReadCount(t)' /\ WriteCount(t)'
    BY <2>2 DEF ReadCount, WriteCount, PcReader, PcWriter
  <2>6. ReturnCount(t)'
    <3>1. CASE trap'.id = "YIELD"
      <4>1. asked' = asked
        BY <1>10, <3>1 DEF Calls, Read, Write, Yield, Trap
      <4> QED
        BY <1>2, <1>3, <2>2, <4>1 DEF ReturnCount, CallPending
    <3>2. CASE trap'.id # "YIELD"
      BY <1>3, <2>2, <3>2 DEF ReturnCount, CallPending
    <3> QED
      BY <3>1, <3>2
  <2> QED
    BY <1>3, <2>2, <2>3, <2>4, <2>5, <2>6 DEF CountInv
<1>11. CASE REntry(t)
  <2>1. /\ pc[t] = "r_entry" /\ UNCHANGED <<current, phase, trap, nread, nwritten, arg, asked>>
    BY <1>11 DEF REntry, NoTrapYet
  <2>2. CASE arg[t].len = 0
    <3>1. /\ pc' = [pc EXCEPT ![t] = "user"] /\ ret' = [ret EXCEPT ![t] = nread] /\ nleft' = nleft
      BY <1>11, <2>2 DEF REntry
    <3>2. ret'[t] = asked'[t]
      BY <1>1, <1>2, <2>1, <2>2, <3>1 DEF ReadCount, ToRead, PcReader
    <3>3. \A u \in Tasks : u # t => pc'[u] = pc[u] /\ ret'[u] = ret[u] /\ ToWrite(u)' = ToWrite(u)
      BY <1>1, <2>1, <3>1 DEF ToWrite
    <3>4. ReadCount(t)' /\ WriteCount(t)' /\ ReturnCount(t)'
      BY <1>1, <3>1, <3>2 DEF ReadCount, WriteCount, ReturnCount, PcReader, PcWriter
    <3> QED
      BY <1>3, <1>4, <2>1, <3>3, <3>4, CountUserIntro DEF PcReader
  <2>3. CASE arg[t].len # 0
    <3>1. /\ pc' = [pc EXCEPT ![t] = "r_head"] /\ ret' = ret
          /\ nleft' = [nleft EXCEPT ![t] = arg[t].len]
      BY <1>11, <2>3 DEF REntry
    <3>2. arg[t].len \in Int /\ nread' + arg[t].len = nread + ToRead(t)
      BY <1>1, <2>1 DEF ToRead
    <3>3. pc[t] \in PcReader /\ "r_head" \in PcReader \ {"r_entry"}
      BY <2>1 DEF PcReader
    <3> QED
      BY <1>3, <1>5, <1>7, <2>1, <3>1, <3>2, <3>3
  <2> QED
    BY <2>2, <2>3
<1>12. CASE RHead(t) \/ RCheck(t)
  <2>1. /\ pc[t] \in {"r_head", "r_check"} /\ UNCHANGED <<current, nread, nwritten, arg, asked, ret, nleft>>
        /\ \E l \in {"r_wrap", "r_rest", "r_head"} : pc' = [pc EXCEPT ![t] = l]
        /\ phase' = "user" \/ trap'.id = "WAIT"
    BY <1>3, <1>12 DEF RHead, RCheck, NoTrapYet, Trap
  <2>2. /\ nleft' = [nleft EXCEPT ![t] = nleft[t]] /\ nleft[t] \in Int
        /\ nread' + nleft[t] = nread + ToRead(t)
    <3>1. ToRead(t) = nleft[t]
      BY <2>1 DEF ToRead
    <3> QED
      BY <1>1, <2>1, <3>1
  <2> QED
    BY <1>3, <1>5, <1>7, <2>1, <2>2 DEF PcReader
<1>13. CASE RWrap(t) \/ RRest(t)
  <2>1. PICK len \in Int, next \in {"r_rest", "r_direct", "r_done"} :
             CopyOut(t, len, next) /\ pc[t] \in {"r_wrap", "r_rest"}
    <3> DEFINE k == nleft[t]
    <3>1. k \in Int /\ tail \in Int /\ h \in Int
      BY <1>1, TaskFacts
    <3> HIDE DEF k
    <3>2. MinOf(Size - tail, k) \in Int /\ MinOf(h - tail, k) \in Int
      BY <3>1 DEF MinOf
    <3> QED
      BY <1>13, <3>2 DEF RWrap, RRest, k
  <2>2. /\ UNCHANGED <<current, nwritten, arg, asked, ret>>
        /\ nleft' = [nleft EXCEPT ![t] = nleft[t] - len] /\ nread' = nread + len
        /\ phase' = "user" \/ trap'.id = "EXIT"
    BY <1>3, <2>1 DEF CopyOut, SanityCheck, NoTrapYet, Trap
  <2>3. \E l \in {"r_wrap", "r_rest", "r_direct", "r_done"} : pc' = [pc EXCEPT ![t] = l]
    <3>1. pc' = pc \/ pc' = [pc EXCEPT ![t] = next]
      BY <2>1 DEF CopyOut, SanityCheck
    <3>2. pc = [pc EXCEPT ![t] = pc[t]]
      BY <1>1
    <3> QED
      BY <2>1, <3>1, <3>2
  <2>4. nleft[t] - len \in Int /\ nread' + (nleft[t] - len) = nread + ToRead(t)
    <3>1. ToRead(t) = nleft[t]
      BY <2>1 DEF ToRead
    <3>2. nread' = nread + len /\ nread \in Nat /\ nleft[t] \in Nat /\ len \in Int
      BY <1>1, <2>1, <2>2
    <3> QED
      BY <3>1, <3>2
  <2> QED
    BY <1>3, <1>5, <1>7, <2>1, <2>2, <2>3, <2>4 DEF PcReader
<1>14. CASE RDirect(t)
  <2>1. CASE wrtask = NoTask
    <3>1. /\ pc[t] = "r_direct" /\ UNCHANGED <<current, phase, nread, nwritten, arg, asked, ret, nleft>>
          /\ pc' = [pc EXCEPT ![t] = "r_check"]
      BY <1>14, <2>1 DEF RDirect, NoTrapYet
    <3>2. nleft' = [nleft EXCEPT ![t] = nleft[t]] /\ ToRead(t) = nleft[t]
      BY <1>1, <3>1 DEF ToRead
    <3>3. nleft[t] \in Int /\ nread' + nleft[t] = nread + ToRead(t)
      BY <1>1, <3>1, <3>2
    <3> QED
      BY <1>3, <1>5, <1>7, <3>1, <3>2, <3>3 DEF PcReader
  <2>2. CASE wrtask # NoTask
    <3>0. PICK w \in Tasks : w = wrtask
      BY <2>2, TaskFacts
    <3> DEFINE len == MinOf(nleft[t], arg[w].len)
    <3>1. w \in Tasks /\ pc[w] \in PcWriter
      BY <3>0 DEF CopyInv
    <3>2. /\ pc[t] = "r_direct" /\ UNCHANGED <<current, phase, asked, ret>>
          /\ nread' = nread + len /\ nwritten' = nwritten + len
          /\ nleft' = [nleft EXCEPT ![t] = nleft[t] - len]
          /\ arg' = [arg EXCEPT ![w] = Advance(arg[w], len)]
          /\ \E l \in {"r_done", "r_check"} : pc' = [pc EXCEPT ![t] = l]
      BY <1>14, <2>2, <3>0 DEF RDirect, NoTrapYet
    <3>3. w # t /\ \A u \in Tasks : pc[u] \in PcWriter => u = w
      BY <1>4, <3>1, <3>2 DEF CountInv, WriteCount, OneOfEach, PcReader, PcWriter
    <3>4. pc[w] # "w_entry" => arg[w].len = 0
      BY <1>3, <3>1, <3>3 DEF CopyInv, Slept, PcWriter
    <3>5. len \in Nat /\ (arg[w].len = 0 => len = 0)
      <4>1. \A i, j \in Nat : MinOf(i, j) \in Nat /\ (j = 0 => MinOf(i, j) = 0)
        BY DEF MinOf
      <4>2. nleft[t] \in Nat /\ arg[w].len \in Nat
        BY <1>1
      <4> QED
        BY <4>1, <4>2
    <3> HIDE DEF len
    <3>c. nread' = nread + len /\ nwritten' = nwritten + len /\ nread \in Nat /\ nwritten \in Nat
          /\ nleft[t] \in Nat
      BY <1>1, <3>2
    <3>6. nwritten' + ToWrite(w)' = nwritten + ToWrite(w)
      <4>1. pc'[w] = pc[w] /\ nleft'[w] = nleft[w] /\ nleft[w] \in Nat /\ arg[w].len \in Nat
        BY <1>1, <3>1, <3>2, <3>3
      <4>2. arg'[w].len = arg[w].len - len
        BY <1>1, <3>1, <3>2 DEF Advance
      <4>3. CASE pc[w] = "w_entry"
        <5>1. ToWrite(w) = arg[w].len /\ ToWrite(w)' = arg[w].len - len
          BY <4>1, <4>2, <4>3 DEF ToWrite
        <5> QED
          BY <3>5, <3>c, <4>1, <5>1
      <4>4. CASE pc[w] # "w_entry"
        <5>1. ToWrite(w) = nleft[w] /\ ToWrite(w)' = nleft[w] /\ len = 0
          BY <3>4, <3>5, <4>1, <4>4 DEF ToWrite
        <5> QED
          BY <1>1, <3>2, <4>1, <5>1
      <4> QED
        BY <4>3, <4>4
    <3>7. nleft[t] - len \in Int /\ nread' + (nleft[t] - len) = nread + ToRead(t)
      <4>1. ToRead(t) = nleft[t]
        BY <3>2 DEF ToRead
      <4> QED
        BY <3>5, <3>c, <4>1
    <3> QED
      BY <1>3, <1>5, <3>2, <3>3, <3>6, <3>7 DEF PcReader
  <2> QED
    BY <2>1, <2>2
<1>15. CASE RDone(t)
  <2>1. /\ pc[t] = "r_done" /\ UNCHANGED <<current, phase, trap, nwritten, arg, asked, nleft>>
        /\ pc' = [pc EXCEPT ![t] = "user"] /\ ret' = [ret EXCEPT ![t] = nread]
    BY <1>15 DEF RDone, NoTrapYet
  <2>2. ret'[t] = asked'[t]
    <3>1. nleft[t] = 0
      BY <2>1 DEF CopyInv
    <3> QED
      BY <1>1, <1>2, <2>1, <3>1 DEF ReadCount, ToRead, PcReader
  <2>3. \A u \in Tasks : u # t => pc'[u] = pc[u] /\ ret'[u] = ret[u] /\ ToWrite(u)' = ToWrite(u)
    BY <1>1, <2>1 DEF ToWrite
  <2>4. ReadCount(t)' /\ WriteCount(t)' /\ ReturnCount(t)'
    BY <1>1, <2>1, <2>2 DEF ReadCount, WriteCount, ReturnCount, PcReader, PcWriter
  <2> QED
    BY <1>3, <1>4, <2>1, <2>3, <2>4, CountUserIntro DEF PcReader
<1>16. CASE WEntry(t)
  <2>1. /\ pc[t] = "w_entry" /\ UNCHANGED <<current, phase, trap, nread, nwritten, arg, asked, ret>>
        /\ pc' = [pc EXCEPT ![t] = "w_top"] /\ nleft' = [nleft EXCEPT ![t] = arg[t].len]
    BY <1>16 DEF WEntry, NoTrapYet
  <2>2. arg[t].len \in Int /\ nwritten' + arg[t].len = nwritten + ToWrite(t)
    BY <1>1, <2>1 DEF ToWrite
  <2>3. pc[t] \in PcWriter /\ "w_top" \in PcWriter \ {"w_entry"}
    BY <2>1 DEF PcWriter
  <2> QED
    BY <1>3, <1>6, <1>8, <2>1, <2>2, <2>3
<1>17. CASE WDirect(t)
  <2>1. CASE rdtask = NoTask
    <3>1. /\ pc[t] = "w_top" /\ UNCHANGED <<current, phase, nread, nwritten, arg, asked, ret, nleft>>
          /\ pc' = [pc EXCEPT ![t] = "w_avail"]
      BY <1>17, <2>1 DEF WDirect, NoTrapYet
    <3>2. nleft' = [nleft EXCEPT ![t] = nleft[t]] /\ ToWrite(t) = nleft[t]
      BY <1>1, <3>1 DEF ToWrite
    <3>3. nleft[t] \in Int /\ nwritten' + nleft[t] = nwritten + ToWrite(t)
      BY <1>1, <3>1, <3>2
    <3> QED
      BY <1>3, <1>6, <1>8, <3>1, <3>2, <3>3 DEF PcWriter
  <2>2. CASE rdtask # NoTask
    <3>0. PICK r \in Tasks : r = rdtask
      BY <2>2, TaskFacts
    <3> DEFINE len == MinOf(nleft[t], arg[r].len)
    <3>1. r \in Tasks /\ pc[r] \in PcReader
      BY <3>0 DEF CopyInv
    <3>2. /\ pc[t] = "w_top" /\ UNCHANGED <<current, phase, asked, ret>>
          /\ nread' = nread + len /\ nwritten' = nwritten + len
          /\ nleft' = [nleft EXCEPT ![t] = nleft[t] - len]
          /\ arg' = [arg EXCEPT ![r] = Advance(arg[r], len)]
          /\ \E l \in {"w_done", "w_avail"} : pc' = [pc EXCEPT ![t] = l]
      BY <1>17, <2>2, <3>0 DEF WDirect, NoTrapYet
    <3>3. r # t /\ \A u \in Tasks : pc[u] \in PcReader => u = r
      BY <1>4, <3>1, <3>2 DEF CountInv, ReadCount, OneOfEach, PcReader, PcWriter
    <3>4. pc[r] # "r_entry" => arg[r].len = 0
      BY <1>3, <3>1, <3>3 DEF CopyInv, Slept, PcReader
    <3>5. len \in Nat /\ (arg[r].len = 0 => len = 0)
      <4>1. \A i, j \in Nat : MinOf(i, j) \in Nat /\ (j = 0 => MinOf(i, j) = 0)
        BY DEF MinOf
      <4>2. nleft[t] \in Nat /\ arg[r].len \in Nat
        BY <1>1
      <4> QED
        BY <4>1, <4>2
    <3> HIDE DEF len
    <3>c. nread' = nread + len /\ nwritten' = nwritten + len /\ nread \in Nat /\ nwritten \in Nat
          /\ nleft[t] \in Nat
      BY <1>1, <3>2
    <3>6. nread' + ToRead(r)' = nread + ToRead(r)
      <4>1. pc'[r] = pc[r] /\ nleft'[r] = nleft[r] /\ nleft[r] \in Nat /\ arg[r].len \in Nat
        BY <1>1, <3>1, <3>2, <3>3
      <4>2. arg'[r].len = arg[r].len - len
        BY <1>1, <3>1, <3>2 DEF Advance
      <4>3. CASE pc[r] = "r_entry"
        <5>1. ToRead(r) = arg[r].len /\ ToRead(r)' = arg[r].len - len
          BY <4>1, <4>2, <4>3 DEF ToRead
        <5> QED
          BY <3>5, <3>c, <4>1, <5>1
      <4>4. CASE pc[r] # "r_entry"
        <5>1. ToRead(r) = nleft[r] /\ ToRead(r)' = nleft[r] /\ len = 0
          BY <3>4, <3>5, <4>1, <4>4 DEF ToRead
        <5> QED
          BY <1>1, <3>2, <4>1, <5>1
      <4> QED
        BY <4>3, <4>4
    <3>7. nleft[t] - len \in Int /\ nwritten' + (nleft[t] - len) = nwritten + ToWrite(t)
      <4>1. ToWrite(t) = nleft[t]
        BY <3>2 DEF ToWrite
      <4> QED
        BY <3>5, <3>c, <4>1
    <3> QED
      BY <1>3, <1>6, <3>2, <3>3, <3>6, <3>7 DEF PcWriter
  <2> QED
    BY <2>1, <2>2
<1>18. CASE WAvail(t) \/ WCheck(t)
  <2>1. /\ pc[t] \in {"w_avail", "w_check"} /\ UNCHANGED <<current, nread, nwritten, arg, asked, ret, nleft>>
        /\ \E l \in {"w_fill", "w_top"} : pc' = [pc EXCEPT ![t] = l]
        /\ phase' = "user" \/ trap'.id = "WAIT"
    BY <1>3, <1>18 DEF WAvail, WCheck, NoTrapYet, Trap
  <2>2. /\ nleft' = [nleft EXCEPT ![t] = nleft[t]] /\ nleft[t] \in Int
        /\ nwritten' + nleft[t] = nwritten + ToWrite(t)
    <3>1. ToWrite(t) = nleft[t]
      BY <2>1 DEF ToWrite
    <3> QED
      BY <1>1, <2>1, <3>1
  <2> QED
    BY <1>3, <1>6, <1>8, <2>1, <2>2 DEF PcWriter
<1>19. CASE WFill(t)
  <2> DEFINE len == FillLen(t)
  <2>1. /\ pc[t] = "w_fill" /\ UNCHANGED <<current, phase, nread, arg, asked, ret>>
        /\ nleft' = [nleft EXCEPT ![t] = nleft[t] - len] /\ nwritten' = nwritten + len
        /\ \E l \in {"w_done", "w_check", "w_top"} : pc' = [pc EXCEPT ![t] = l]
    BY <1>19 DEF WFill, NoTrapYet
  <2>2. len \in Int
    BY <1>1, TaskFacts DEF FillLen, MinOf
  <2> HIDE DEF len
  <2>3. nleft[t] - len \in Int /\ nwritten' + (nleft[t] - len) = nwritten + ToWrite(t)
    <3>1. ToWrite(t) = nleft[t]
      BY <2>1 DEF ToWrite
    <3>2. nwritten' = nwritten + len /\ nwritten \in Nat /\ nleft[t] \in Nat
      BY <1>1, <2>1
    <3> QED
      BY <2>2, <3>1, <3>2
  <2> QED
    BY <1>3, <1>6, <1>8, <2>1, <2>3 DEF PcWriter
<1>20. CASE WDone(t)
  <2>1. /\ pc[t] = "w_done" /\ UNCHANGED <<current, phase, trap, nread, nwritten, arg, asked, nleft>>
        /\ pc' = [pc EXCEPT ![t] = "user"] /\ ret' = [ret EXCEPT ![t] = nwritten]
    BY <1>20 DEF WDone, NoTrapYet
  <2>2. ret'[t] = asked'[t]
    <3>1. nleft[t] = 0
      BY <2>1 DEF CopyInv
    <3> QED
      BY <1>1, <1>2, <2>1, <3>1 DEF WriteCount, ToWrite, PcWriter
  <2>3. \A u \in Tasks : /\ u # t => pc'[u] = pc[u] /\ ret'[u] = ret[u]
                         /\ u # t => ToWrite(u)' = ToWrite(u) /\ ToRead(u)' = ToRead(u)
    BY <1>1, <2>1 DEF ToWrite, ToRead
  <2>4. ReadCount(t)' /\ WriteCount(t)' /\ ReturnCount(t)'
    BY <1>1, <2>1, <2>2 DEF ReadCount, WriteCount, ReturnCount, PcReader, PcWriter
  <2> QED
    BY <1>3, <2>1, <2>3, <2>4, CountUserIntro
<1> QED
  BY <1>10, <1>11, <1>12, <1>13, <1>14, <1>15, <1>16, <1>17, <1>18, <1>19, <1>20 DEF URead, UWrite

\* A step of the kernel, or one that changes nothing.
LEMMA CountKernel ==
    ASSUME TypeInv, CopyInv, CountInv, OneOfEach, IntReader = "none", ~IntWriter,
           Interrupt \/ Kernel \/ RxArrive \/ DeviceReady \/ UNCHANGED vars
    PROVE  CountInv'
<1> USE DEF Goto, pipeVars, taskVars, localVars, devVars, histVars, callVars
<1>1. /\ pc \in [Tasks -> {"user"} \cup PcReader \cup PcWriter]
      /\ nleft \in [Tasks -> Nat] /\ asked \in [Tasks -> Nat] /\ ret \in [Tasks -> Int]
      /\ arg \in [Tasks -> [src : Nat, len : Nat]] /\ \A u \in Tasks : arg[u].len \in Nat
  BY TaskFacts
<1>2. \A t \in Tasks : ReadCount(t) /\ WriteCount(t) /\ ReturnCount(t)
  BY DEF CountInv
\* A step that leaves the calls alone and hands none to the kernel.
<1>3. ASSUME UNCHANGED <<pc, nread, nwritten, asked, ret, arg, nleft>>,
             \A t \in Tasks : CallPending(t) => CallPending(t)',
             trap'.id \in {"READ", "WRITE"} /\ phase' \in {"irq", "trap"}
                => phase \in {"irq", "trap"} /\ UNCHANGED <<trap, current>>
      PROVE  CountInv'
  <2>1. \A t \in Tasks : ReadCount(t)' /\ WriteCount(t)' /\ ReturnCount(t)'
    BY <1>2, <1>3 DEF ReadCount, WriteCount, ReturnCount, ToRead, ToWrite
  <2> QED
    BY <1>3, <2>1 DEF CountInv
<1>4. CASE Interrupt
  <2>1. /\ phase = "user" /\ trap' = NoTrap
        /\ UNCHANGED <<pc, nread, nwritten, asked, ret, arg, nleft>>
    BY <1>4 DEF Interrupt
  <2> QED
    BY <1>3, <2>1 DEF CallPending, NoTrap
<1>5. CASE \E active \in BOOLEAN : KIrq(active)
  <2>1. /\ phase = "irq" /\ phase' = "trap"
        /\ UNCHANGED <<current, trap, pc, nread, nwritten, asked, ret, arg, nleft>>
    BY <1>5, IrqIdle
  <2> QED
    BY <1>3, <2>1 DEF CallPending
<1>6. CASE RxArrive \/ DeviceReady \/ UNCHANGED vars
  <2>1. UNCHANGED <<phase, current, trap, pc, nread, nwritten, asked, ret, arg, nleft>>
    BY <1>6 DEF RxArrive, DeviceReady, vars, kernelVars
  <2> QED
    BY <1>3, <2>1 DEF CallPending
<1>7. CASE KSched
  <2>1. /\ phase = "sched" /\ phase' = "user"
        /\ UNCHANGED <<pc, nread, nwritten, asked, ret, arg, nleft>>
    BY <1>7 DEF KSched
  <2> QED
    BY <1>3, <2>1 DEF CallPending
<1>8. CASE KNoTrap \/ KExit
  <2>1. /\ phase' \in {"sched", "halted"} /\ trap.id \notin {"READ", "WRITE"}
        /\ UNCHANGED <<pc, nread, nwritten, asked, ret, arg, nleft>>
    BY <1>8 DEF KNoTrap, KExit, Handle
  <2> QED
    BY <1>3, <2>1 DEF CallPending
<1>9. CASE KWait
  <2>1. /\ phase' = "sched" /\ trap.id = "WAIT" /\ pc[current] \in {"r_head", "w_top"} /\ current \in Tasks
        /\ arg' = [arg EXCEPT ![current] = [src |-> 0, len |-> 0]]
        /\ UNCHANGED <<pc, nread, nwritten, asked, ret, nleft, current, trap>>
    BY <1>9, TaskFacts DEF KWait, Handle
  <2>2. ASSUME NEW t \in Tasks
        PROVE  ToRead(t)' = ToRead(t) /\ ToWrite(t)' = ToWrite(t)
    BY <1>1, <2>1 DEF ToRead, ToWrite
  <2>3. \A t \in Tasks : ReadCount(t)' /\ WriteCount(t)' /\ ReturnCount(t)'
    BY <1>2, <2>1, <2>2 DEF ReadCount, WriteCount, ReturnCount, CallPending
  <2> QED
    BY <2>1, <2>3 DEF CountInv
\* A call that fails: its error is not a length.
<1>10. ASSUME current \in Tasks, NEW e \in Int, e < 0, ret' = [ret EXCEPT ![current] = e],
              phase' \in {"sched", "halted"},
              UNCHANGED <<pc, nread, nwritten, asked, arg, nleft, current, trap>>
       PROVE  CountInv'
  <2>1. ASSUME NEW t \in Tasks
        PROVE  ReturnCount(t)'
    <3>1. CASE t = current
      BY <1>1, <1>10, <3>1 DEF ReturnCount
    <3>2. CASE t # current
      <4>1. ret'[t] = ret[t] /\ ~CallPending(t)
        BY <1>1, <1>10, <3>2 DEF CallPending
      <4> QED
        BY <1>2, <1>10, <4>1 DEF ReturnCount
    <3> QED
      BY <3>1, <3>2
  <2>2. \A t \in Tasks : ReadCount(t)' /\ WriteCount(t)'
    BY <1>2, <1>10 DEF ReadCount, WriteCount, ToRead, ToWrite
  <2> QED
    BY <1>10, <2>1, <2>2 DEF CountInv
<1>11. CASE KReadHalt \/ KReadError \/ KWriteFail
  <2>1. /\ trap.id \in {"READ", "WRITE"} /\ current \in Tasks
        /\ phase' \in {"sched", "halted"}
        /\ UNCHANGED <<pc, nread, nwritten, asked, arg, nleft, current, trap>>
    BY <1>11, TaskFacts DEF KReadHalt, KReadError, KWriteFail, Handle
  <2>2. \E e \in {EIO, EFAULT, EBUSY} : ret' = [ret EXCEPT ![current] = e]
    BY <1>11 DEF KReadHalt, KReadError, KWriteFail, Fail
  <2>3. \A e \in {EIO, EFAULT, EBUSY} : e \in Int /\ e < 0
    BY DEF EIO, EFAULT, EBUSY
  <2> QED
    BY <1>10, <2>1, <2>2, <2>3
<1>12. CASE KRead
  <2>1. /\ phase = "trap" /\ trap.id = "READ" /\ pc[current] = "user" /\ current \in Tasks
        /\ phase' = "sched" /\ nread' = 0 /\ trap.len \in Nat
        /\ arg' = [arg EXCEPT ![current] = [src |-> 0, len |-> trap.len]]
        /\ pc' = [pc EXCEPT ![current] = "r_entry"]
        /\ UNCHANGED <<nwritten, asked, ret, nleft, current, trap>>
    BY <1>12, TaskFacts DEF KRead, Handle, TakeReadEnd
  <2>2. asked[current] = trap.len /\ current \in Readers
    BY <2>1 DEF CountInv
  <2>3. \A t \in Tasks : t # current => pc[t] \notin PcReader
    BY <1>2, <2>2 DEF ReadCount, OneOfEach
  <2>4. ReadCount(current)'
    <3>1. ToRead(current)' = trap.len
      BY <1>1, <2>1 DEF ToRead
    <3>2. nread' = 0 /\ asked'[current] = trap.len /\ trap.len \in Nat
      BY <2>1, <2>2
    <3>3. nread' + ToRead(current)' = asked'[current]
      BY <3>1, <3>2
    <3> QED
      BY <2>1, <2>2, <3>3 DEF ReadCount
  <2>5. WriteCount(current)' /\ ReturnCount(current)'
    BY <1>1, <2>1 DEF WriteCount, ReturnCount, PcWriter
  <2>6. ASSUME NEW t \in Tasks, t # current
        PROVE  ReadCount(t)' /\ WriteCount(t)' /\ ReturnCount(t)'
    <3>1. pc'[t] = pc[t] /\ arg'[t] = arg[t] /\ ~CallPending(t)
      BY <1>1, <2>1, <2>6 DEF CallPending
    <3>2. ToWrite(t)' = ToWrite(t) /\ pc'[t] \notin PcReader
      BY <2>1, <2>3, <2>6, <3>1 DEF ToWrite
    <3> QED
      BY <1>2, <2>1, <3>1, <3>2 DEF ReadCount, WriteCount, ReturnCount
  <2> QED
    BY <2>1, <2>4, <2>5, <2>6 DEF CountInv
<1>13. CASE KWrite
  <2>1. /\ phase = "trap" /\ trap.id = "WRITE" /\ pc[current] = "user" /\ current \in Tasks
        /\ phase' = "sched" /\ nwritten' = 0 /\ trap.len \in Nat
        /\ arg' = [arg EXCEPT ![current] = [src |-> accepted, len |-> trap.len]]
        /\ pc' = [pc EXCEPT ![current] = "w_entry"]
        /\ UNCHANGED <<nread, asked, ret, nleft, current, trap>>
    BY <1>13, TaskFacts DEF KWrite, Handle, TakeWriteEnd
  <2>2. asked[current] = trap.len /\ current \in Writers
    BY <2>1 DEF CountInv
  <2>3. \A t \in Tasks : t # current => pc[t] \notin PcWriter
    BY <1>2, <2>2 DEF WriteCount, OneOfEach
  <2>4. WriteCount(current)'
    <3>1. ToWrite(current)' = trap.len
      BY <1>1, <2>1 DEF ToWrite
    <3>2. nwritten' = 0 /\ asked'[current] = trap.len /\ trap.len \in Nat
      BY <2>1, <2>2
    <3>3. nwritten' + ToWrite(current)' = asked'[current]
      BY <3>1, <3>2
    <3> QED
      BY <2>1, <2>2, <3>3 DEF WriteCount
  <2>5. ReadCount(current)' /\ ReturnCount(current)'
    BY <1>1, <2>1 DEF ReadCount, ReturnCount, PcReader
  <2>6. ASSUME NEW t \in Tasks, t # current
        PROVE  ReadCount(t)' /\ WriteCount(t)' /\ ReturnCount(t)'
    <3>1. pc'[t] = pc[t] /\ arg'[t] = arg[t] /\ ~CallPending(t)
      BY <1>1, <2>1, <2>6 DEF CallPending
    <3>2. ToRead(t)' = ToRead(t) /\ pc'[t] \notin PcWriter
      BY <2>1, <2>3, <2>6, <3>1 DEF ToRead
    <3> QED
      BY <1>2, <2>1, <3>1, <3>2 DEF ReadCount, WriteCount, ReturnCount
  <2> QED
    BY <2>1, <2>4, <2>5, <2>6 DEF CountInv
<1> QED
  BY <1>4, <1>5, <1>6, <1>7, <1>8, <1>9, <1>11, <1>12, <1>13 DEF Kernel, KTrap

\* A call on a pipe with one reader and one writer that does not fail returns
\* what was asked for, though each of the two moves the other's counter when it
\* copies (syspipe.c:223-224, 292-299): display_task and menu_task on lcdpipe.
\* With a second writer it is false: see section 6 of the README.
THEOREM TaskCallsComplete ==
    ASSUME IntReader = "none", ~IntWriter, OneOfEach
    PROVE  Spec => []CallsComplete
<1>1. Init => CountInv
  <2> SUFFICES ASSUME Init PROVE CountInv
    OBVIOUS
  <2> QED
    BY DEF Init, CountInv, ReadCount, WriteCount, ReturnCount, PcReader, PcWriter, NoTrap
<1>2. TypeInv /\ CopyInv /\ CountInv /\ [Next]_vars => CountInv'
  BY CountUser, CountKernel DEF Next
<1>3. TypeInv /\ CountInv => CallsComplete
  BY DEF CountInv, ReturnCount, CallPending, CallsComplete
<1> QED
  BY <1>1, <1>2, <1>3, CopyInvariant, PTL DEF Spec

-----------------------------------------------------------------------------
(***************************************************************************)
(* One task reads and one writes: who sleeps can be woken.                 *)
(***************************************************************************)

\* Then at most one task is inside read() and one inside write(), and they own
\* the ends of the pipe, unless the other side has taken these back.
LEMMA OneCall ==
    ASSUME TypeInv, CopyInv, CountInv, OneOfEach, IntReader = "none"
    PROVE  /\ \A t, u \in Tasks : pc[t] \in PcReader /\ pc[u] \in PcReader => t = u
           /\ \A t, u \in Tasks : pc[t] \in PcWriter /\ pc[u] \in PcWriter => t = u
           /\ rdtask = NoTask \/ (rdtask \in Tasks /\ pc[rdtask] \in PcReader)
           /\ wrtask = NoTask \/ (wrtask \in Tasks /\ pc[wrtask] \in PcWriter)
BY TaskFacts DEF CopyInv, CountInv, ReadCount, WriteCount, OneOfEach

\* What the invariants say of the running task.
LEMMA SleepFacts ==
    ASSUME TypeInv, CopyInv, CountInv, SleepInv, OneOfEach, IntReader = "none",
           NEW t \in Tasks, phase = "user", current = t
    PROVE  /\ trap.id = "none" /\ state[t] = "READY" /\ ReaderKept(t) /\ WriterKept(t)
           /\ \A u \in Tasks : /\ state[u] = "WAITING" => u \in {rdtask, wrtask}
                               /\ ReaderKept(u) /\ WriterKept(u)
                               /\ u # t => pc[u] \in Resting
<1>1. trap.id = "none" /\ state[t] = "READY" /\ \A u \in Tasks : u # t => pc[u] \in Resting
  BY TaskFacts
<1> QED
  BY <1>1 DEF SleepInv

\* A reader's step leaves nothing to show about the other readers, and a
\* writer's about the other writers: there are none in a call.
LEMMA SleepIntro ==
    ASSUME TypeInv, CopyInv, CountInv, OneOfEach, IntReader = "none", NEW t \in Tasks,
           current' = t, \A u \in Tasks : u # t => pc'[u] = pc[u],
           trap'.id # "EXIT" =>
              /\ \A u \in Tasks : state'[u] = "WAITING" => u \in {rdtask', wrtask'}
              /\ trap'.id = "WAIT" => t \in {rdtask', wrtask'}
              /\ ReaderKept(t)' /\ WriterKept(t)'
              /\ \A u \in Tasks : u # t => /\ pc[t] \notin PcReader => ReaderKept(u)'
                                           /\ pc[t] \notin PcWriter => WriterKept(u)'
    PROVE  SleepInv'
<1>1. ASSUME NEW u \in Tasks, u # t, pc[t] \in PcReader
      PROVE  ReaderKept(u)'
  <2>1. pc'[u] \notin PcReader
    BY <1>1, OneCall
  <2> QED
    BY <2>1 DEF ReaderKept, PcReader
<1>2. ASSUME NEW u \in Tasks, u # t, pc[t] \in PcWriter
      PROVE  WriterKept(u)'
  <2>1. pc'[u] \notin PcWriter
    BY <1>2, OneCall
  <2> QED
    BY <2>1 DEF WriterKept, Emptied, PcWriter
<1> QED
  BY <1>1, <1>2 DEF SleepInv

\* While a reader copies, no writer sees less room, or an emptied buffer.
LEMMA WriterKeptFrame ==
    ASSUME TypeInv, CopyInv, CountInv, SleepInv, OneOfEach, IntReader = "none",
           NEW t \in Tasks, phase = "user", current = t, pc[t] \in PcReader \ {"r_done"},
           NEW u \in Tasks, u # t, pc'[u] = pc[u], nleft'[u] = nleft[u], arg'[u] = arg[u],
           wrtask' = wrtask, head' = head, head = tail => tail' = tail,
           head' = tail' \/ (nleft[u] <= NumAvail => nleft[u] <= NumAvail')
    PROVE  WriterKept(u)'
<1>1. ~Emptied(u)
  BY SleepFacts DEF WriterKept
<1>2. ~Emptied(u)'
  BY <1>1 DEF Emptied
<1>3. WriterKept(u)
  BY SleepFacts
<1> QED
  BY <1>2, <1>3 DEF WriterKept

\* A step of the task in read().
LEMMA SleepReader ==
    ASSUME TypeInv, CopyInv, CountInv, SleepInv, OneOfEach, IntReader = "none", ~IntWriter,
           NEW t \in Tasks, URead(t)
    PROVE  SleepInv'
<1> USE DEF Running, Goto, pipeVars, taskVars, localVars, devVars, histVars, callVars
<1>1. /\ pc \in [Tasks -> {"user"} \cup PcReader \cup PcWriter]
      /\ nleft \in [Tasks -> Nat] /\ nleft[t] \in Nat
      /\ arg \in [Tasks -> [src : Nat, len : Nat]]
      /\ state \in [Tasks -> {"READY", "WAITING"}]
      /\ head \in 0 .. Mask /\ tail \in 0 .. Mask /\ h \in 0 .. Mask
  BY TaskFacts
<1>2. phase = "user" /\ current = t /\ current' = t /\ pc[t] \in PcReader /\ pc[t] \notin PcWriter
  BY DEF URead, REntry, RHead, RWrap, RRest, RDirect, RCheck, RDone, CopyOut, SanityCheck,
        NoTrapYet, Trap, PcReader, PcWriter
<1>3. /\ trap.id = "none" /\ state[t] = "READY" /\ ReaderKept(t) /\ WriterKept(t)
      /\ \A u \in Tasks : state[u] = "WAITING" => u \in {rdtask, wrtask}
  BY <1>2, SleepFacts
<1>4. ~Filling
  BY <1>2 DEF Filling, PcReader
<1>5. ASSUME NEW l, l \notin PcWriter, pc' = [pc EXCEPT ![t] = l]
      PROVE  pc'[t] = l /\ WriterKept(t)' /\ \A u \in Tasks : u # t => pc'[u] = pc[u]
  <2>1. pc'[t] = l /\ \A u \in Tasks : u # t => pc'[u] = pc[u]
    BY <1>1, <1>5
  <2> QED
    BY <1>5, <2>1 DEF WriterKept, Emptied, PcWriter
<1>6. CASE REntry(t)
  <2>1. /\ pc[t] = "r_entry" /\ UNCHANGED <<head, tail, rdtask, wrtask, state, arg, trap>>
        /\ \E l \in {"user", "r_head"} : pc' = [pc EXCEPT ![t] = l]
        /\ \A u \in Tasks : u # t => nleft'[u] = nleft[u]
        /\ arg[t].len # 0 \/ pc' = [pc EXCEPT ![t] = "user"]
    BY <1>1, <1>6 DEF REntry, NoTrapYet
  <2>2. ReaderKept(t)'
    BY <1>1, <1>2, <1>3, <2>1 DEF ReaderKept
  <2>3. NumAvail' = NumAvail
    BY <2>1 DEF NumAvail, Wrap
  <2>4. \A u \in Tasks : u # t => WriterKept(u)'
    BY <1>1, <1>2, <2>1, <2>3, WriterKeptFrame
  <2> QED
    BY <1>2, <1>3, <1>5, <2>1, <2>2, <2>4, SleepIntro DEF PcWriter
<1>7. CASE RHead(t)
  <2>1. /\ pc[t] = "r_head" /\ UNCHANGED <<head, tail, rdtask, wrtask, state, arg, trap, nleft>>
        /\ \E l \in {"r_wrap", "r_rest"} : pc' = [pc EXCEPT ![t] = l]
    BY <1>7 DEF RHead, NoTrapYet
  <2>2. ReaderKept(t)'
    BY <1>1, <1>2, <1>3, <1>4, <2>1 DEF ReaderKept
  <2>3. NumAvail' = NumAvail
    BY <2>1 DEF NumAvail, Wrap
  <2>4. \A u \in Tasks : u # t => WriterKept(u)'
    BY <1>1, <1>2, <2>1, <2>3, WriterKeptFrame
  <2> QED
    BY <1>2, <1>3, <1>5, <2>1, <2>2, <2>4, SleepIntro DEF PcWriter
<1>8. CASE RWrap(t)
  <2> DEFINE n == nleft[t]
             len == MinOf(Size - tail, n)
             next == IF n = len THEN "r_done" ELSE "r_rest"
  <2>1. pc[t] = "r_wrap" /\ CopyOut(t, len, next)
    BY <1>8 DEF RWrap
  <2>2. head < tail /\ n \in Nat
    BY <1>1, <1>3, <2>1 DEF CopyInv
  <2>3. len \in Nat /\ len <= Size - tail /\ len <= n /\ (n = 1 => len = 1)
    <3>1. Size - tail \in Nat /\ Size - tail > 0
      BY <1>1
    <3> QED
      BY <2>2, <3>1 DEF MinOf
  <2> HIDE DEF n, len
  <2>4. /\ tail' = Wrap(tail + len) /\ nleft' = [nleft EXCEPT ![t] = n - len]
        /\ UNCHANGED <<head, rdtask, wrtask, state, arg>>
        /\ \/ trap'.id = "EXIT" /\ pc' = pc
           \/ pc' = [pc EXCEPT ![t] = next] /\ trap' = trap
    BY <2>1 DEF CopyOut, NextTail, SanityCheck, Trap, NoTrapYet, n
  <2>5. \A u \in Tasks : u # t => pc'[u] = pc[u] /\ nleft'[u] = nleft[u]
    BY <1>1, <2>4
  <2>6. ASSUME trap' = trap, pc' = [pc EXCEPT ![t] = next]
        PROVE  ReaderKept(t)'
    <3>1. pc'[t] = next
      BY <1>1, <2>6
    <3>2. rdtask # t => n = 1
      BY <1>3, <2>1 DEF ReaderKept, n
    <3>3. rdtask' # t => pc'[t] = "r_done"
      BY <2>3, <2>4, <3>1, <3>2
    <3> QED
      BY <3>1, <3>3 DEF ReaderKept
  <2>7. \A k \in Nat : k <= NumAvail => k <= NumAvail'
    <3> DEFINE m == tail'
    <3>1. m \in Nat /\ (m = tail + len \/ m = 0) /\ tail + len <= Size /\ m < Size
      BY <1>1, <2>3, <2>4 DEF Wrap
    <3>2. NumAvail = tail - head - 1
      BY <1>1, <2>2 DEF NumAvail, Wrap
    <3>3. NumAvail' = Wrap(m - head - 1 + Size)
      BY <2>4 DEF NumAvail, Wrap
    <3>4. m = tail + len => NumAvail' = m - head - 1
      BY <1>1, <2>2, <2>3, <3>1, <3>3 DEF Wrap
    <3>5. m = 0 => NumAvail' = Size - head - 1
      BY <1>1, <3>3 DEF Wrap
    <3> HIDE DEF m
    <3> QED
      BY <1>1, <2>2, <2>3, <3>1, <3>2, <3>4, <3>5
  <2>8. \A u \in Tasks : u # t => WriterKept(u)'
    BY <1>1, <1>2, <2>1, <2>2, <2>4, <2>5, <2>7, WriterKeptFrame, SMTT(30)
  <2>9. trap' = trap => WriterKept(t)'
    BY <1>5, <2>4, <1>3 DEF PcWriter
  <2> QED
    BY <1>2, <1>3, <2>4, <2>5, <2>6, <2>8, <2>9, SleepIntro
<1>9. CASE RRest(t)
  <2> DEFINE n == nleft[t]
             len == MinOf(h - tail, n)
             next == IF n = len THEN "r_done" ELSE "r_direct"
  <2>1. pc[t] = "r_rest" /\ CopyOut(t, len, next)
    BY <1>9 DEF RRest
  <2>2. h = head /\ head >= tail /\ n \in Nat
    BY <1>1, <1>2, <1>3, <2>1, TaskFacts DEF CopyInv
  <2>3. /\ len \in Nat /\ len <= head - tail /\ len <= n
        /\ n = 1 /\ head # tail => len = 1
        /\ n # len => len = head - tail
    BY <1>1, <2>2 DEF MinOf
  <2> HIDE DEF n, len
  <2>4. /\ tail' = Wrap(tail + len) /\ nleft' = [nleft EXCEPT ![t] = n - len]
        /\ UNCHANGED <<head, rdtask, wrtask, state, arg>>
        /\ \/ trap'.id = "EXIT" /\ pc' = pc
           \/ pc' = [pc EXCEPT ![t] = next] /\ trap' = trap /\ ~(n - len >= 2)
    BY <2>1 DEF CopyOut, NextTail, SanityCheck, Trap, NoTrapYet, n
  <2>5. \A u \in Tasks : u # t => pc'[u] = pc[u] /\ nleft'[u] = nleft[u]
    BY <1>1, <2>4
  <2>t. tail' = tail + len
    BY <1>1, <2>2, <2>3, <2>4 DEF Wrap
  <2>6. ASSUME trap' = trap, pc' = [pc EXCEPT ![t] = next], ~(n - len >= 2)
        PROVE  ReaderKept(t)'
    <3>1. pc'[t] = next /\ nleft'[t] = n - len
      BY <1>1, <2>4, <2>6
    <3>2. rdtask # t => n = 1 /\ head # tail
      BY <1>3, <2>1 DEF ReaderKept, n
    <3>3. ASSUME n # len
          PROVE  nleft'[t] = 1 /\ head' = tail' /\ rdtask' = t
      <4>1. n - len = 1
        BY <2>2, <2>3, <2>6, <3>3
      <4>2. tail + (head - tail) = head
        BY <1>1
      <4> QED
        BY <2>3, <2>4, <2>t, <3>1, <3>2, <3>3, <4>1, <4>2
    <3> QED
      BY <3>1, <3>3 DEF ReaderKept
  <2>7. head' = tail' \/ \A k \in Nat : k <= NumAvail => k <= NumAvail'
    <3> DEFINE m == tail'
    <3>1. m \in Nat /\ m = tail + len /\ m <= head
      BY <1>1, <2>2, <2>3, <2>t
    <3>2. NumAvail' = Wrap(m - head - 1 + Size)
      BY <2>4 DEF NumAvail, Wrap
    <3> HIDE DEF m
    <3>3. CASE m = head
      BY <2>4, <3>3 DEF m
    <3>4. CASE m # head
      <4>1. NumAvail = tail - head - 1 + Size /\ NumAvail' = m - head - 1 + Size
        BY <1>1, <2>2, <2>3, <3>1, <3>2, <3>4 DEF NumAvail, Wrap
      <4> QED
        BY <1>1, <2>3, <3>1, <4>1
    <3> QED
      BY <3>3, <3>4
  <2>8. head = tail => tail' = tail
    BY <1>1, <2>3, <2>t
  <2>9. \A u \in Tasks : u # t => WriterKept(u)'
    BY <1>1, <1>2, <2>1, <2>4, <2>5, <2>7, <2>8, WriterKeptFrame
  <2>10. trap' = trap => WriterKept(t)'
    BY <1>5, <2>4, <1>3 DEF PcWriter
  <2> QED
    BY <1>2, <1>3, <2>4, <2>5, <2>6, <2>9, <2>10, SleepIntro
<1>10. CASE RDirect(t)
  <2>1. pc[t] = "r_direct" /\ nleft[t] = 1 /\ head = tail /\ rdtask = t
    BY <1>3, <1>10 DEF RDirect, ReaderKept
  <2>2. /\ UNCHANGED <<head, tail, rdtask, trap>>
        /\ \E l \in {"r_done", "r_check"} : pc' = [pc EXCEPT ![t] = l]
    BY <1>10 DEF RDirect, NoTrapYet
  <2>3. NumAvail' = NumAvail
    BY <2>2 DEF NumAvail, Wrap
  <2>4. CASE wrtask = NoTask
    <3>1. UNCHANGED <<wrtask, state, arg, nleft>> /\ pc' = [pc EXCEPT ![t] = "r_check"]
      BY <1>10, <2>4 DEF RDirect
    <3>2. ReaderKept(t)'
      BY <1>1, <2>1, <2>2, <3>1 DEF ReaderKept
    <3>3. \A u \in Tasks : u # t => WriterKept(u)'
      BY <1>1, <1>2, <1>5, <2>1, <2>2, <2>3, <3>1, WriterKeptFrame DEF PcWriter
    <3> QED
      BY <1>2, <1>3, <1>5, <2>2, <3>1, <3>2, <3>3, SleepIntro DEF PcWriter
  <2>5. CASE wrtask # NoTask
    <3>1. PICK w \in Tasks : w = wrtask /\ pc[w] \in PcWriter /\ w # t
      BY <1>2, <2>5, OneCall
    <3> DEFINE k == arg[w].len
               len == MinOf(nleft[t], k)
    <3>2. /\ nleft' = [nleft EXCEPT ![t] = nleft[t] - len]
          /\ arg' = [arg EXCEPT ![w] = Advance(arg[w], len)]
          /\ k = len => wrtask' = NoTask /\ state' = [state EXCEPT ![w] = "READY"]
          /\ k # len => UNCHANGED <<wrtask, state>>
          /\ pc' = [pc EXCEPT ![t] = IF nleft[t] = len THEN "r_done" ELSE "r_check"]
      BY <1>10, <2>5, <3>1 DEF RDirect, Awake
    <3>3. k \in Nat /\ len = IF k = 0 THEN 0 ELSE 1
      <4>1. k \in Nat
        BY <1>1
      <4> QED
        BY <2>1, <4>1 DEF MinOf
    <3>4. pc[w] # "w_entry" => k = 0
      BY <1>2, <3>1 DEF CopyInv, Slept, PcWriter
    <3>5. ~Emptied(w) /\ WriterKept(w) /\ pc[w] \in {"w_entry", "w_top"}
      BY <1>2, <2>1, <3>1, SleepFacts DEF WriterKept, Resting, PcWriter, PcReader
    <3>6. arg'[w].len = k - len
      BY <1>1, <3>1, <3>2 DEF Advance
    <3> HIDE DEF k, len
    <3>7. nleft'[t] = nleft[t] - len /\ pc'[t] = IF nleft[t] = len THEN "r_done" ELSE "r_check"
      BY <1>1, <3>2
    <3>8. /\ pc'[w] = pc[w] /\ nleft'[w] = nleft[w]
          /\ \A u \in Tasks : u # t => pc'[u] = pc[u]
      BY <1>1, <3>1, <3>2
    <3>9. pc'[t] \in {"r_done", "r_check"} /\ (pc'[t] = "r_check" => nleft'[t] = 1 /\ k = 0)
      BY <2>1, <3>3, <3>7
    <3>10. ReaderKept(t)'
      BY <2>1, <2>2, <3>9 DEF ReaderKept
    <3>11. ASSUME NEW u \in Tasks, u # t, u # w
           PROVE  WriterKept(u)'
      <4>1. pc'[u] \notin PcWriter
        BY <3>1, <3>8, <3>11, OneCall
      <4> QED
        BY <4>1 DEF WriterKept, Emptied, PcWriter
    <3>12. WriterKept(w)'
      <4>1. CASE pc[w] = "w_entry"
        <5>1. k > 0 /\ len = 1
          BY <3>3, <3>4, <3>5, <4>1 DEF Emptied, k
        <5>2. pc'[t] = "r_done"
          BY <2>1, <3>7, <5>1
        <5>3. \A r \in Tasks : pc'[r] \in PcReader => r = t
          BY <1>2, <3>8, OneCall
        <5>4. CASE k = 1
          <6>1. wrtask' # w /\ arg'[w].len = 0
            BY <3>2, <3>6, <5>1, <5>4, <3>1
          <6> QED
            BY <2>1, <2>2, <3>8, <4>1, <5>2, <5>3, <6>1 DEF WriterKept
        <5>5. CASE k # 1
          <6>1. wrtask' = w /\ arg'[w].len # 0
            BY <3>1, <3>2, <3>3, <3>6, <5>1, <5>5
          <6> QED
            BY <3>8, <4>1, <6>1 DEF WriterKept, Emptied
        <5> QED
          BY <5>4, <5>5
      <4>2. CASE pc[w] = "w_top"
        <5>1. nleft[w] # 0
          BY <3>5, <4>2 DEF Emptied
        <5> QED
          BY <2>1, <2>2, <3>8, <4>2, <5>1 DEF WriterKept, Emptied
      <4> QED
        BY <3>5, <4>1, <4>2
    <3>13. WriterKept(t)'
      BY <1>5, <2>2 DEF PcWriter
    <3>14. ASSUME NEW u \in Tasks, state'[u] = "WAITING"
           PROVE  u \in {rdtask', wrtask'}
      <4>1. k = len => u # w
        BY <1>1, <3>2, <3>14
      <4>2. state[u] = "WAITING"
        BY <1>1, <3>2, <3>14, <4>1
      <4> QED
        BY <1>3, <2>2, <3>1, <3>2, <4>1, <4>2
    <3> QED
      BY <1>2, <1>3, <2>2, <3>8, <3>10, <3>11, <3>12, <3>13, <3>14, SleepIntro
  <2> QED
    BY <2>4, <2>5
<1>11. CASE RCheck(t)
  <2>1. /\ pc[t] = "r_check" /\ UNCHANGED <<head, tail, rdtask, wrtask, state, arg, nleft>>
        /\ pc' = [pc EXCEPT ![t] = "r_head"]
    BY <1>11 DEF RCheck
  <2>2. ReaderKept(t)'
    BY <1>1, <1>2, <1>3, <2>1 DEF ReaderKept
  <2>3. NumAvail' = NumAvail
    BY <2>1 DEF NumAvail, Wrap
  <2>4. \A u \in Tasks : u # t => WriterKept(u)'
    BY <1>1, <1>2, <2>1, <2>3, WriterKeptFrame
  <2>5. rdtask' = t
    BY <1>3, <2>1 DEF ReaderKept
  <2> QED
    BY <1>2, <1>3, <1>5, <2>1, <2>2, <2>4, <2>5, SleepIntro DEF PcWriter
<1>12. CASE RDone(t)
  <2>1. /\ pc[t] = "r_done" /\ UNCHANGED <<head, tail, wrtask, arg, nleft, trap>>
        /\ pc' = [pc EXCEPT ![t] = "user"] /\ state' = WakeWriter /\ rdtask' = NoTask
    BY <1>12 DEF RDone, NoTrapYet
  <2>2. ReaderKept(t)'
    BY <1>1, <2>1 DEF ReaderKept
  <2>3. NumAvail' = NumAvail
    BY <2>1 DEF NumAvail, Wrap
  <2>4. ASSUME NEW u \in Tasks, u # t
        PROVE  WriterKept(u)'
    <3>1. WriterKept(u)
      BY <1>2, SleepFacts
    <3>2. pc'[u] = pc[u] /\ (Emptied(u)' <=> Emptied(u))
      BY <1>1, <2>1, <2>4 DEF Emptied
    <3>3. \A r \in Tasks : pc'[r] \notin PcReader
      BY <1>1, <1>2, <2>1, OneCall DEF PcReader
    <3> QED
      BY <2>1, <2>3, <3>1, <3>2, <3>3 DEF WriterKept
  <2>5. ASSUME NEW u \in Tasks, state'[u] = "WAITING"
        PROVE  FALSE
    <3>1. state[u] = "WAITING" /\ u # wrtask
      BY <1>1, <2>1, <2>5, OneCall DEF WakeWriter, Awake
    <3>2. rdtask = u
      BY <1>3, <3>1
    <3> QED
      BY <1>2, <1>3, <3>1, <3>2, OneCall
  <2> QED
    BY <1>2, <1>3, <1>5, <2>1, <2>2, <2>4, <2>5, SleepIntro DEF PcWriter
<1> QED
  BY <1>6, <1>7, <1>8, <1>9, <1>10, <1>11, <1>12 DEF URead

\* While a writer runs, a reader that has slept is told of no change but the
\* bytes that it gets.
LEMMA ReaderKeptFrame ==
    ASSUME TypeInv, CopyInv, CountInv, SleepInv, OneOfEach, IntReader = "none",
           NEW t \in Tasks, phase = "user", current = t, current' = t, pc[t] \in PcWriter,
           NEW u \in Tasks, u # t, pc'[u] = pc[u], nleft'[u] = nleft[u], arg'[u] = arg[u],
           rdtask' = rdtask,
           rdtask # u /\ pc[u] = "r_head" => ((head # tail \/ Filling) => (head' # tail' \/ Filling'))
    PROVE  ReaderKept(u)'
<1>1. ReaderKept(u) /\ pc[u] \in Resting
  BY SleepFacts
<1>2. pc'[u] \notin {"r_direct", "r_check", "r_wrap", "r_rest"}
  BY <1>1 DEF Resting
<1> QED
  BY <1>1, <1>2 DEF ReaderKept

\* A step of the task in write().
LEMMA SleepWriter ==
    ASSUME TypeInv, CopyInv, CountInv, SleepInv, OneOfEach, IntReader = "none", ~IntWriter,
           NEW t \in Tasks, UWrite(t)
    PROVE  SleepInv'
<1> USE DEF Running, Goto, pipeVars, taskVars, localVars, devVars, histVars, callVars
<1>1. /\ pc \in [Tasks -> {"user"} \cup PcReader \cup PcWriter]
      /\ nleft \in [Tasks -> Nat] /\ nleft[t] \in Nat
      /\ arg \in [Tasks -> [src : Nat, len : Nat]]
      /\ state \in [Tasks -> {"READY", "WAITING"}]
      /\ head \in 0 .. Mask /\ tail \in 0 .. Mask /\ navail \in 0 .. Mask
  BY TaskFacts
<1>2. phase = "user" /\ current = t /\ current' = t /\ pc[t] \in PcWriter /\ pc[t] \notin PcReader
  BY DEF UWrite, WEntry, WDirect, WAvail, WFill, WCheck, WDone,
        NoTrapYet, Trap, PcReader, PcWriter
<1>3. /\ trap.id = "none" /\ state[t] = "READY" /\ ReaderKept(t) /\ WriterKept(t)
      /\ \A u \in Tasks : state[u] = "WAITING" => u \in {rdtask, wrtask}
  BY <1>2, SleepFacts
<1>4. Filling <=> pc[t] \in {"w_top", "w_avail", "w_fill"} /\ nleft[t] > 0
  BY <1>2, <1>3 DEF Filling
<1>5. ASSUME NEW l, l \notin PcReader, pc' = [pc EXCEPT ![t] = l]
      PROVE  pc'[t] = l /\ ReaderKept(t)' /\ \A u \in Tasks : u # t => pc'[u] = pc[u]
  <2>1. pc'[t] = l /\ \A u \in Tasks : u # t => pc'[u] = pc[u]
    BY <1>1, <1>5
  <2> QED
    BY <1>5, <2>1 DEF ReaderKept, PcReader
<1>6. Filling' <=> /\ trap'.id = "none" /\ nleft'[t] > 0
                   /\ pc'[t] \in {"w_top", "w_avail", "w_fill"}
  BY <1>2 DEF Filling
\* A step that takes no bytes from the ring, nor from the task.
<1>7. ASSUME UNCHANGED <<head, tail, rdtask, wrtask, state, arg, nleft, trap>>,
             NEW l \in PcWriter, pc' = [pc EXCEPT ![t] = l],
             Filling => Filling', WriterKept(t)'
      PROVE  SleepInv'
  <2>1. \A u \in Tasks : u # t => ReaderKept(u)'
    BY <1>2, <1>5, <1>7, ReaderKeptFrame DEF PcReader, PcWriter
  <2> QED
    BY <1>2, <1>3, <1>5, <1>7, <2>1, SleepIntro DEF PcReader, PcWriter
<1>8. CASE WEntry(t)
  <2>1. /\ pc[t] = "w_entry" /\ UNCHANGED <<head, tail, rdtask, wrtask, state, arg, trap>>
        /\ pc' = [pc EXCEPT ![t] = "w_top"] /\ nleft' = [nleft EXCEPT ![t] = arg[t].len]
    BY <1>8 DEF WEntry, NoTrapYet
  <2>2. nleft'[t] = arg[t].len /\ arg[t].len \in Nat /\ \A u \in Tasks : u # t => nleft'[u] = nleft[u]
    BY <1>1, <2>1
  <2>3. \A u \in Tasks : u # t => ReaderKept(u)'
    BY <1>2, <1>4, <1>5, <2>1, <2>2, ReaderKeptFrame DEF PcReader
  <2>4. WriterKept(t)'
    <3>1. \A r \in Tasks : pc'[r] \in PcReader => pc'[r] = pc[r] /\ state'[r] = state[r]
      BY <1>5, <2>1 DEF PcReader
    <3> QED
      BY <1>1, <1>3, <2>1, <2>2, <3>1 DEF WriterKept, Emptied
  <2> QED
    BY <1>2, <1>3, <1>5, <2>1, <2>3, <2>4, SleepIntro DEF PcReader
<1>9. CASE WDirect(t)
  <2>1. /\ pc[t] = "w_top" /\ UNCHANGED <<head, tail, wrtask, trap>>
        /\ \E l \in {"w_done", "w_avail"} : pc' = [pc EXCEPT ![t] = l]
    BY <1>9 DEF WDirect, NoTrapYet
  <2>2. NumAvail' = NumAvail
    BY <2>1 DEF NumAvail, Wrap
  <2>3. CASE rdtask = NoTask
    <3>1. UNCHANGED <<rdtask, state, arg, nleft>> /\ pc' = [pc EXCEPT ![t] = "w_avail"]
      BY <1>9, <2>3 DEF WDirect
    <3>2. pc'[t] = "w_avail" /\ \A u \in Tasks : u # t => pc'[u] = pc[u]
      BY <1>5, <3>1 DEF PcReader
    <3>3. WriterKept(t)'
      <4>1. Emptied(t)' <=> Emptied(t)
        BY <2>1, <3>1, <3>2 DEF Emptied
      <4>2. \A r \in Tasks : pc'[r] \in PcReader => pc'[r] = pc[r]
        BY <3>2 DEF PcReader
      <4> QED
        BY <1>3, <2>1, <2>2, <3>1, <3>2, <4>1, <4>2 DEF WriterKept
    <3>4. Filling => Filling'
      BY <1>3, <1>4, <1>6, <2>1, <3>1, <3>2
    <3>5. "w_avail" \in PcWriter
      BY DEF PcWriter
    <3> QED
      BY <1>7, <2>1, <3>1, <3>3, <3>4, <3>5
  <2>4. CASE rdtask # NoTask
    <3>1. PICK r \in Tasks : r = rdtask /\ pc[r] \in PcReader /\ r # t
      BY <1>2, <2>4, OneCall
    <3> DEFINE n == nleft[t]
               k == arg[r].len
               len == MinOf(n, k)
    <3>2. /\ nleft' = [nleft EXCEPT ![t] = n - len]
          /\ arg' = [arg EXCEPT ![r] = Advance(arg[r], len)]
          /\ k = len => rdtask' = NoTask /\ state' = [state EXCEPT ![r] = "READY"]
          /\ k # len => UNCHANGED <<rdtask, state>>
          /\ pc' = [pc EXCEPT ![t] = IF n = len THEN "w_done" ELSE "w_avail"]
      BY <1>9, <2>4, <3>1 DEF WDirect, Awake
    <3>3. n \in Nat /\ k \in Nat
      BY <1>1
    <3>4. len \in Nat /\ len <= n /\ (k = 0 => len = 0)
      BY <3>3 DEF MinOf
    <3>5. /\ pc[r] \in {"r_entry", "r_head"} /\ ReaderKept(r)
          /\ pc[r] # "r_entry" => k = 0
      BY <1>2, <3>1, SleepFacts DEF CopyInv, Slept, Resting, PcReader
    <3>6. pc[r] = "r_head" => n # 0
      BY <1>3, <2>1, <3>1 DEF WriterKept, Emptied
    <3>7. arg'[r].len = k - len
      BY <1>1, <3>1, <3>2 DEF Advance
    <3> HIDE DEF n, k, len
    <3>8. /\ nleft'[t] = n - len /\ pc'[t] = IF n = len THEN "w_done" ELSE "w_avail"
          /\ pc'[r] = pc[r] /\ nleft'[r] = nleft[r]
          /\ \A u \in Tasks : u # t => pc'[u] = pc[u]
      BY <1>1, <3>1, <3>2
    <3>9. ReaderKept(r)'
      <4>1. CASE pc[r] = "r_entry"
        <5>1. rdtask' # r => arg'[r].len = 0
          BY <3>1, <3>2, <3>3, <3>7
        <5> QED
          BY <3>8, <4>1, <5>1 DEF ReaderKept
      <4>2. CASE pc[r] = "r_head"
        <5>1. n > 0 /\ len = 0
          BY <3>3, <3>4, <3>5, <3>6, <4>2
        <5>2. pc'[t] = "w_avail" /\ nleft'[t] > 0
          BY <3>3, <3>8, <5>1
        <5>3. Filling'
          BY <1>3, <1>6, <2>1, <5>2
        <5>4. nleft[r] = 1
          BY <1>2, <3>1, <3>5, <4>2 DEF ReaderKept
        <5> QED
          BY <3>8, <4>2, <5>3, <5>4 DEF ReaderKept
      <4> QED
        BY <3>5, <4>1, <4>2
    <3>10. ASSUME NEW u \in Tasks, u # t, u # r
           PROVE  ReaderKept(u)'
      <4>1. pc'[u] \notin PcReader
        BY <3>1, <3>8, <3>10, OneCall
      <4> QED
        BY <4>1 DEF ReaderKept, PcReader
    <3>11. WriterKept(t)'
      <4>1. CASE n = len
        BY <3>8, <4>1 DEF WriterKept, Emptied
      <4>2. CASE n # len
        <5>1. n > 0 /\ n - len > 0 /\ n - len <= n
          BY <3>3, <3>4, <4>2
        <5>2. wrtask' # t => head = tail \/ n <= NumAvail
          BY <1>3, <2>1, <5>1 DEF WriterKept, n
        <5>3. wrtask' # t => head' = tail' \/ nleft'[t] <= NumAvail'
          <6>1. NumAvail \in Int
            BY <1>1 DEF NumAvail, Wrap
          <6> QED
            BY <2>1, <2>2, <3>3, <3>4, <3>8, <5>1, <5>2, <6>1
        <5> QED
          BY <3>8, <4>2, <5>1, <5>3 DEF WriterKept, Emptied
      <4> QED
        BY <4>1, <4>2
    <3>12. ReaderKept(t)'
      BY <1>5, <2>1 DEF PcReader
    <3>13. ASSUME NEW u \in Tasks, state'[u] = "WAITING"
           PROVE  u \in {rdtask', wrtask'}
      <4>1. k = len => u # r
        BY <1>1, <3>2, <3>13
      <4>2. state[u] = "WAITING"
        BY <1>1, <3>2, <3>13, <4>1
      <4> QED
        BY <1>3, <2>1, <3>1, <3>2, <4>1, <4>2
    <3> QED
      BY <1>2, <1>3, <2>1, <3>8, <3>9, <3>10, <3>11, <3>12, <3>13, SleepIntro
  <2> QED
    BY <2>3, <2>4
<1>10. CASE WAvail(t)
  <2>1. /\ pc[t] = "w_avail" /\ UNCHANGED <<head, tail, rdtask, wrtask, state, arg, nleft, trap>>
        /\ pc' = [pc EXCEPT ![t] = "w_fill"]
    BY <1>10 DEF WAvail, NoTrapYet
  <2>2. pc'[t] = "w_fill" /\ \A u \in Tasks : u # t => pc'[u] = pc[u]
    BY <1>5, <2>1 DEF PcReader
  <2>3. NumAvail' = NumAvail
    BY <2>1 DEF NumAvail, Wrap
  <2>4. WriterKept(t)'
    <3>1. Emptied(t)' <=> Emptied(t)
      BY <2>1, <2>2 DEF Emptied
    <3>2. \A r \in Tasks : pc'[r] \in PcReader => pc'[r] = pc[r]
      BY <2>2 DEF PcReader
    <3> QED
      BY <1>3, <2>1, <2>2, <2>3, <3>1, <3>2 DEF WriterKept
  <2>5. Filling => Filling'
    BY <1>3, <1>4, <1>6, <2>1, <2>2
  <2>6. "w_fill" \in PcWriter
    BY DEF PcWriter
  <2> QED
    BY <1>7, <2>1, <2>4, <2>5, <2>6
<1>11. CASE WFill(t)
  <2> DEFINE n == nleft[t]
             len == FillLen(t)
             room == NumAvail
             m == Wrap(head + len)
             next == CASE n = len -> "w_done"
                       [] n # len /\ navail = len -> "w_check"
                       [] OTHER -> "w_top"
  <2>1. /\ pc[t] = "w_fill" /\ UNCHANGED <<tail, rdtask, wrtask, state, arg, trap>>
        /\ nleft' = [nleft EXCEPT ![t] = n - len] /\ head' = m
        /\ pc' = [pc EXCEPT ![t] = next]
    BY <1>11 DEF WFill, NoTrapYet
  <2>2. navail = room /\ n \in Nat /\ room \in 0 .. Mask /\ (head = tail => room = Mask)
    <3>1. navail = room
      BY <2>1 DEF CopyInv
    <3>2. Occupied \in 0 .. Mask /\ NumAvail = Mask - Occupied /\ (head # tail <=> Occupied > 0)
      BY <1>1, RingRange
    <3>3. NumAvail \in 0 .. Mask /\ (head = tail => NumAvail = Mask)
      BY <3>2
    <3> QED
      BY <1>1, <3>1, <3>3
  <2>3. /\ len \in Nat /\ len <= n /\ len <= room /\ head + len <= Size
        /\ n <= room /\ n > 0 => len > 0
        /\ n > room => len = 0
    BY <1>1, <2>2 DEF FillLen, MinOf
  <2>4. pc'[t] = next /\ nleft'[t] = n - len /\ \A u \in Tasks : u # t => pc'[u] = pc[u] /\ nleft'[u] = nleft[u]
    BY <1>1, <2>1
  <2>5. /\ NumAvail' = room - len
        /\ head' # tail' <=> head # tail \/ len > 0
    <3> HIDE DEF len, n
    <3>1. Wrap(m - tail + Size) = Occupied + len
      BY <1>1, <2>3, FillRing
    <3>2. m \in 0 .. Mask
      BY <1>1, <2>3, WrapRange, SMTT(30)
    <3>3. Occupied \in 0 .. Mask /\ room = Mask - Occupied /\ (head # tail <=> Occupied > 0)
      BY <1>1, RingRange
    <3> HIDE DEF m
    <3>4. \A a, b \in 0 .. Mask : /\ Wrap(b - a - 1 + Size) = Mask - Wrap(a - b + Size)
                                  /\ a # b <=> Wrap(a - b + Size) > 0
      BY DEF Wrap
    <3>5. NumAvail' = Wrap(tail - m - 1 + Size)
      BY <2>1 DEF NumAvail, Wrap
    <3>e. Wrap(tail - m - 1 + Size) = Mask - Wrap(m - tail + Size) /\ (m # tail <=> Wrap(m - tail + Size) > 0)
      BY <1>1, <3>2, <3>4
    <3>6. NumAvail' = Mask - (Occupied + len) /\ (m # tail <=> Occupied + len > 0)
      BY <3>1, <3>5, <3>e
    <3> HIDE DEF room
    <3>7. Mask - (Occupied + len) = room - len
      BY <2>3, <3>3
    <3>8. (Occupied + len > 0) <=> (head # tail \/ len > 0)
      BY <2>3, <3>3
    <3> QED
      BY <2>1, <3>6, <3>7, <3>8
  <2> HIDE DEF n, len, room, m
  <2>6. /\ pc'[t] = "w_done" => n = len
        /\ pc'[t] = "w_check" => n # len /\ navail = len
        /\ pc'[t] = "w_top" => n # len /\ navail # len
        /\ pc'[t] \in {"w_done", "w_check", "w_top"}
    BY <2>4
  \* A writer with room for the rest, or in front of an empty ring, does not
  \* find the ring full.
  <2>7. n <= room \/ head = tail => pc'[t] # "w_check"
    <3>1. Mask > 0
      OBVIOUS
    <3> QED
      BY <2>2, <2>3, <2>6, <3>1
  <2>8. WriterKept(t)'
    <3>1. pc'[t] # "w_done" => n - len > 0 /\ n > 0
      BY <2>2, <2>3, <2>6
    <3>2. n > 0 /\ wrtask # t => head = tail \/ n <= room
      BY <1>3, <2>1 DEF WriterKept, n, room
    <3>3. pc'[t] = "w_check" => wrtask' = t
      BY <2>1, <2>7, <3>1, <3>2
    <3>4. n > 0 /\ wrtask # t => head' = tail' \/ nleft'[t] <= NumAvail'
      <4>1. CASE n <= room
        BY <2>2, <2>3, <2>4, <2>5, <4>1
      <4>2. CASE n > room
        BY <2>2, <2>3, <2>5, <3>2, <4>2
      <4> QED
        BY <2>2, <4>1, <4>2
    <3> QED
      BY <2>1, <2>4, <2>6, <3>1, <3>3, <3>4 DEF WriterKept, Emptied
  <2>9. head # tail \/ Filling => head' # tail' \/ Filling'
    <3>1. CASE head # tail \/ len > 0
      BY <2>5, <3>1
    <3>2. CASE head = tail /\ ~(len > 0) /\ Filling
      <4>1. n > 0 /\ n - len > 0
        BY <1>4, <2>2, <2>3, <3>2 DEF n
      <4>2. pc'[t] = "w_top"
        BY <2>3, <2>6, <2>7, <3>2, <4>1
      <4> QED
        BY <1>3, <1>6, <2>1, <2>4, <4>1, <4>2
    <3> QED
      BY <3>1, <3>2
  <2>10. \A u \in Tasks : u # t => ReaderKept(u)'
    BY <1>2, <2>1, <2>4, <2>9, ReaderKeptFrame
  <2>11. ReaderKept(t)'
    BY <1>5, <2>1 DEF PcReader
  <2> QED
    BY <1>2, <1>3, <2>1, <2>4, <2>8, <2>10, <2>11, SleepIntro
<1>12. CASE WCheck(t)
  <2>1. /\ pc[t] = "w_check" /\ UNCHANGED <<head, tail, rdtask, wrtask, state, arg, nleft>>
        /\ pc' = [pc EXCEPT ![t] = "w_top"]
    BY <1>12 DEF WCheck
  <2>2. nleft[t] > 0 /\ wrtask = t
    BY <1>3, <2>1 DEF WriterKept
  <2>3. \A u \in Tasks : u # t => ReaderKept(u)'
    BY <1>2, <1>4, <1>5, <2>1, ReaderKeptFrame DEF PcReader
  <2>4. WriterKept(t)'
    <3>1. pc'[t] = "w_top"
      BY <1>5, <2>1 DEF PcReader
    <3> QED
      BY <1>1, <2>1, <2>2, <3>1 DEF WriterKept, Emptied
  <2> QED
    BY <1>2, <1>3, <1>5, <2>1, <2>2, <2>3, <2>4, SleepIntro DEF PcReader
<1>13. CASE WDone(t)
  <2>1. /\ pc[t] = "w_done" /\ UNCHANGED <<head, tail, rdtask, state, arg, nleft, trap>>
        /\ pc' = [pc EXCEPT ![t] = "user"] /\ wrtask' = NoTask
    BY <1>13 DEF WDone, NoTrapYet
  <2>2. \A u \in Tasks : u # t => ReaderKept(u)'
    BY <1>2, <1>4, <1>5, <2>1, ReaderKeptFrame DEF PcReader
  <2>3. WriterKept(t)'
    BY <1>1, <2>1 DEF WriterKept, Emptied
  <2>4. \A u \in Tasks : state'[u] = "WAITING" => u = rdtask'
    BY <1>2, <1>3, <2>1, OneCall
  <2> QED
    BY <1>2, <1>3, <1>5, <2>1, <2>2, <2>3, <2>4, SleepIntro DEF PcReader
<1> QED
  BY <1>8, <1>9, <1>10, <1>11, <1>12, <1>13 DEF UWrite

\* A step that moves nothing in the pipe and takes no task out of its call.
LEMMA SleepFrame ==
    ASSUME SleepInv, trap.id # "EXIT", trap'.id # "EXIT",
           UNCHANGED <<head, tail, rdtask, wrtask, state, pc, nleft>>,
           \A u \in Tasks : pc[u] \in {"r_entry", "w_entry"} => arg'[u] = arg[u],
           trap'.id = "WAIT" /\ phase' \in {"irq", "trap"}
              => trap.id = "WAIT" /\ phase \in {"irq", "trap"} /\ current' = current,
           \A u \in Tasks : pc[u] = "r_head" /\ (u # current' \/ trap'.id = "WAIT")
              => u # current \/ trap.id = "WAIT",
           Filling => Filling'
    PROVE  SleepInv'
<1>1. NumAvail' = NumAvail
  BY DEF NumAvail, Wrap
<1>2. ASSUME NEW u \in Tasks
      PROVE  ReaderKept(u)' /\ WriterKept(u)'
  <2>1. ReaderKept(u) /\ WriterKept(u) /\ (Emptied(u)' <=> Emptied(u))
    BY DEF SleepInv, Emptied
  <2>2. ReaderKept(u)'
    BY <2>1 DEF ReaderKept
  <2>3. WriterKept(u)'
    BY <1>1, <2>1 DEF WriterKept
  <2> QED
    BY <2>2, <2>3
<1> QED
  BY <1>2 DEF SleepInv

\* A step of the kernel, one of a task that only makes a call, or none.
LEMMA SleepKernel ==
    ASSUME TypeInv, CopyInv, CountInv, SleepInv, OneOfEach, IntReader = "none", ~IntWriter,
           (\E t \in Tasks : Calls(t)) \/ Interrupt \/ Kernel \/ RxArrive \/ DeviceReady
              \/ UNCHANGED vars
    PROVE  SleepInv'
<1> USE DEF Goto, pipeVars, taskVars, localVars, devVars, histVars, callVars
<1>1. /\ pc \in [Tasks -> {"user"} \cup PcReader \cup PcWriter]
      /\ arg \in [Tasks -> [src : Nat, len : Nat]]
      /\ state \in [Tasks -> {"READY", "WAITING"}]
  BY TaskFacts
<1>2. trap.id # "EXIT" => /\ \A t \in Tasks : state[t] = "WAITING" => t \in {rdtask, wrtask}
                          /\ \A t \in Tasks : ReaderKept(t) /\ WriterKept(t)
  BY DEF SleepInv
\* The machine is about to stop, or has stopped.
<1>3. CASE trap.id = "EXIT"
  <2>1. trap'.id = "EXIT"
    <3>1. phase # "user" /\ phase # "sched"
      BY <1>3, TaskFacts
    <3>2. CASE \E active \in BOOLEAN : KIrq(active)
      BY <1>3, <3>2, IrqIdle
    <3>3. CASE KTrap
      BY <1>3, <3>3 DEF KTrap, KNoTrap, KWait, KExit, KReadHalt, KReadError, KRead, KWriteFail,
            KWrite, Handle
    <3>4. CASE RxArrive \/ DeviceReady \/ UNCHANGED vars
      BY <1>3, <3>4 DEF RxArrive, DeviceReady, vars, kernelVars
    <3> QED
      BY <3>1, <3>2, <3>3, <3>4 DEF Kernel, KSched, Interrupt, Calls, Read, Write, Yield, Running
  <2> QED
    BY <2>1 DEF SleepInv
<1>4. ASSUME trap.id # "EXIT", \E t \in Tasks : Calls(t)
      PROVE  SleepInv'
  <2>1. PICK t \in Tasks : Calls(t)
    BY <1>4
  <2>2. /\ UNCHANGED <<head, tail, rdtask, wrtask, state, pc, nleft, arg, current>>
        /\ current = t /\ pc[t] = "user" /\ trap'.id \in {"READ", "WRITE", "YIELD"}
    BY <2>1 DEF Calls, Read, Write, Yield, Trap, Running
  <2>3. ~Filling
    BY <2>2 DEF Filling
  <2> QED
    BY <1>4, <2>2, <2>3, SleepFrame
<1>5. ASSUME trap.id # "EXIT", Interrupt
      PROVE  SleepInv'
  <2>1. /\ UNCHANGED <<head, tail, rdtask, wrtask, state, pc, nleft, arg, current>>
        /\ phase = "user" /\ trap'.id = "none"
    BY <1>5 DEF Interrupt, NoTrap
  <2>2. trap.id = "none"
    BY <2>1, TaskFacts
  <2> QED
    BY <1>5, <2>1, <2>2, SleepFrame DEF Filling
<1>6. ASSUME trap.id # "EXIT", \E active \in BOOLEAN : KIrq(active)
      PROVE  SleepInv'
  <2>1. /\ UNCHANGED <<head, tail, rdtask, wrtask, state, pc, nleft, arg, current, trap>>
        /\ phase = "irq" /\ phase' = "trap"
    BY <1>6, IrqIdle
  <2> QED
    BY <1>6, <2>1, SleepFrame DEF Filling
<1>7. ASSUME trap.id # "EXIT", RxArrive \/ DeviceReady \/ UNCHANGED vars
      PROVE  SleepInv'
  <2>1. UNCHANGED <<head, tail, rdtask, wrtask, state, pc, nleft, arg, current, trap, phase>>
    BY <1>7 DEF RxArrive, DeviceReady, vars, kernelVars
  <2> QED
    BY <1>7, <2>1, SleepFrame DEF Filling
<1>8. ASSUME trap.id # "EXIT", KNoTrap \/ KExit \/ KReadHalt \/ KWriteFail
      PROVE  SleepInv'
  <2>1. /\ UNCHANGED <<head, tail, rdtask, wrtask, state, pc, nleft, arg, current, trap>>
        /\ trap.id # "WAIT"
    BY <1>8 DEF KNoTrap, KExit, KReadHalt, KWriteFail, Handle
  <2> QED
    BY <1>8, <2>1, SleepFrame DEF Filling
<1>9. ~KReadError
  BY DEF KReadError, CopyInv
<1>10. ASSUME trap.id # "EXIT", KWait
       PROVE  SleepInv'
  <2>1. /\ phase = "trap" /\ phase' = "sched" /\ trap.id = "WAIT" /\ current \in Tasks
        /\ pc[current] \in {"r_head", "w_top"}
        /\ state' = [state EXCEPT ![current] = "WAITING"]
        /\ arg' = [arg EXCEPT ![current] = [src |-> 0, len |-> 0]]
        /\ UNCHANGED <<head, tail, rdtask, wrtask, pc, nleft, current, trap>>
    BY <1>10, TaskFacts DEF KWait, Handle
  <2>2. current \in {rdtask, wrtask}
    BY <2>1 DEF SleepInv
  <2>3. ASSUME NEW u \in Tasks
        PROVE  /\ pc[u] \in {"r_entry", "w_entry"} => arg'[u] = arg[u]
               /\ state[u] = "WAITING" => state'[u] = "WAITING"
               /\ state'[u] = "WAITING" => state[u] = "WAITING" \/ u = current
    BY <1>1, <2>1, <2>3
  <2>4. NumAvail' = NumAvail
    BY <2>1 DEF NumAvail, Wrap
  <2>5. ~Filling
    BY <2>1 DEF Filling
  <2>6. ASSUME NEW u \in Tasks
        PROVE  ReaderKept(u)' /\ WriterKept(u)'
    <3>1. ReaderKept(u) /\ WriterKept(u) /\ (Emptied(u)' <=> Emptied(u))
      BY <1>2, <1>10, <2>1, <2>3 DEF Emptied
    <3>2. ReaderKept(u)'
      BY <2>1, <2>3, <2>5, <3>1 DEF ReaderKept
    <3>3. WriterKept(u)'
      BY <2>1, <2>3, <2>4, <3>1 DEF WriterKept
    <3> QED
      BY <3>2, <3>3
  <2>7. \A u \in Tasks : state'[u] = "WAITING" => u \in {rdtask', wrtask'}
    BY <1>2, <1>10, <2>1, <2>2, <2>3
  <2> QED
    BY <2>1, <2>6, <2>7 DEF SleepInv
<1>11. ASSUME trap.id # "EXIT", KRead
       PROVE  SleepInv'
  <2>1. /\ phase' = "sched" /\ trap.id = "READ" /\ current \in Tasks /\ pc[current] = "user"
        /\ rdtask = NoTask /\ rdtask' = current
        /\ pc' = [pc EXCEPT ![current] = "r_entry"]
        /\ arg' = [arg EXCEPT ![current] = [src |-> 0, len |-> trap.len]]
        /\ state' = IF wrtask # NoTask
                    THEN [state EXCEPT ![current] = "WAITING", ![wrtask] = "READY"]
                    ELSE IF head = tail THEN [state EXCEPT ![current] = "WAITING"] ELSE state
        /\ UNCHANGED <<head, tail, wrtask, nleft, current, trap>>
    BY <1>11, TaskFacts DEF KRead, Handle, TakeReadEnd, HandOver
  <2>2. \A u \in Tasks : u # current => pc'[u] = pc[u] /\ arg'[u] = arg[u]
    BY <1>1, <2>1
  <2>3. \A u \in Tasks : u # current => pc[u] \notin PcReader
    <3>1. current \in Readers
      BY <1>11, <2>1 DEF CountInv, KRead, Handle
    <3> QED
      BY <3>1 DEF CountInv, ReadCount, OneOfEach
  <2>4. NumAvail' = NumAvail
    BY <2>1 DEF NumAvail, Wrap
  <2>5. pc'[current] = "r_entry"
    BY <1>1, <2>1
  <2>6. \A u \in Tasks : ReaderKept(u)'
    BY <2>1, <2>2, <2>3, <2>5 DEF ReaderKept, PcReader
  <2>7. ASSUME NEW u \in Tasks
        PROVE  WriterKept(u)'
    <3>1. CASE u = current
      BY <2>5, <3>1 DEF WriterKept, Emptied
    <3>2. CASE u # current
      <4>1. WriterKept(u) /\ (Emptied(u)' <=> Emptied(u))
        BY <1>2, <1>11, <2>1, <2>2, <3>2 DEF Emptied
      <4>2. ASSUME Emptied(u)
            PROVE  state'[current] = "WAITING"
        <5>1. wrtask # u /\ head = tail /\ pc[u] \in PcWriter
          BY <4>1, <4>2 DEF WriterKept, Emptied, PcWriter
        <5>2. wrtask = NoTask
          BY <5>1, OneCall
        <5> QED
          BY <1>1, <2>1, <5>1, <5>2
      <4>3. \A r \in Tasks : pc'[r] \in PcReader => r = current
        BY <2>2, <2>3
      <4> QED
        BY <2>1, <2>2, <2>4, <2>5, <3>2, <4>1, <4>2, <4>3 DEF WriterKept
    <3> QED
      BY <3>1, <3>2
  <2>8. ASSUME NEW u \in Tasks, state'[u] = "WAITING"
        PROVE  u = current \/ u = wrtask
    <3>1. u = current \/ state[u] = "WAITING"
      BY <1>1, <2>1, <2>8
    <3> QED
      BY <1>2, <1>11, <2>1, <3>1
  <2> QED
    BY <2>1, <2>6, <2>7, <2>8 DEF SleepInv
<1>12. ASSUME trap.id # "EXIT", KWrite
       PROVE  SleepInv'
  <2>1. /\ phase' = "sched" /\ trap.id = "WRITE" /\ current \in Tasks /\ pc[current] = "user"
        /\ wrtask = NoTask /\ wrtask' = current /\ trap.len > 0
        /\ pc' = [pc EXCEPT ![current] = "w_entry"]
        /\ arg' = [arg EXCEPT ![current] = [src |-> accepted, len |-> trap.len]]
        /\ state' = IF rdtask \in Tasks
                    THEN [state EXCEPT ![current] = "WAITING", ![rdtask] = "READY"]
                    ELSE IF Full THEN [state EXCEPT ![current] = "WAITING"] ELSE state
        /\ UNCHANGED <<head, tail, rdtask, nleft, current, trap>>
    BY <1>12, TaskFacts DEF KWrite, Handle, TakeWriteEnd, HandOver
  <2>2. \A u \in Tasks : u # current => pc'[u] = pc[u] /\ arg'[u] = arg[u]
    BY <1>1, <2>1
  <2>3. \A u \in Tasks : u # current => pc[u] \notin PcWriter
    <3>1. current \in Writers
      BY <1>12, <2>1 DEF CountInv, KWrite, Handle
    <3> QED
      BY <3>1 DEF CountInv, WriteCount, OneOfEach
  <2>4. pc'[current] = "w_entry" /\ arg'[current].len = trap.len /\ trap.len # 0
    BY <1>1, <2>1
  <2>5. ~Filling
    BY <2>1 DEF Filling
  <2>6. ASSUME NEW u \in Tasks
        PROVE  WriterKept(u)'
    <3>1. CASE u = current
      BY <2>1, <2>4, <3>1 DEF WriterKept, Emptied
    <3>2. CASE u # current
      BY <2>2, <2>3, <3>2 DEF WriterKept, Emptied, PcWriter
    <3> QED
      BY <3>1, <3>2
  <2>7. ASSUME NEW u \in Tasks
        PROVE  ReaderKept(u)'
    <3>1. CASE u = current
      BY <2>4, <3>1 DEF ReaderKept
    <3>2. CASE u # current
      <4>1. ReaderKept(u)
        BY <1>2, <1>12
      <4> QED
        BY <2>1, <2>2, <2>5, <3>2, <4>1 DEF ReaderKept
    <3> QED
      BY <3>1, <3>2
  <2>8. ASSUME NEW u \in Tasks, state'[u] = "WAITING"
        PROVE  u = current \/ u = rdtask
    <3>1. u = current \/ state[u] = "WAITING"
      BY <1>1, <2>1, <2>8
    <3> QED
      BY <1>2, <1>12, <2>1, <3>1
  <2> QED
    BY <2>1, <2>6, <2>7, <2>8 DEF SleepInv
<1>13. ASSUME trap.id # "EXIT", KSched
       PROVE  SleepInv'
  <2>1. /\ phase = "sched" /\ trap'.id = "none"
        /\ UNCHANGED <<head, tail, rdtask, wrtask, state, pc, nleft, arg>>
    BY <1>13 DEF KSched, NoTrap
  <2>2. trap.id = "none" /\ current \in Tasks => current' = current
    <3>1. trap.id = "none" /\ current \in Tasks => state[current] = "READY" /\ current # Idle
      BY TaskFacts
    <3> QED
      BY <1>13, <3>1 DEF KSched
  <2>3. Filling => Filling'
    BY <2>1, <2>2 DEF Filling
  <2>4. ASSUME NEW u \in Tasks, pc[u] = "r_head", u # current'
        PROVE  u # current \/ trap.id = "WAIT"
    <3>1. u = current => trap.id \notin {"none", "READ", "WRITE", "YIELD"}
      BY <2>2, <2>4 DEF CopyInv
    <3> QED
      BY <1>13, <3>1, TaskFacts DEF TrapIds
  <2> QED
    BY <1>13, <2>1, <2>3, <2>4, SleepFrame
<1> QED
  BY <1>3, <1>4, <1>5, <1>6, <1>7, <1>8, <1>9, <1>10, <1>11, <1>12, <1>13 DEF Kernel, KTrap

\* A task asleep in a pipe with one reader and one writer owns one of its ends,
\* so that the other side's call wakes it: though each side gives back the end
\* of the other (syspipe.c:231-241, 305-311), and that side may sleep after it,
\* it only does so before it has lost its end.
THEOREM TaskSleepersOwnAnEnd ==
    ASSUME IntReader = "none", ~IntWriter, OneOfEach
    PROVE  Spec => []SleepersOwnAnEnd
<1>1. Init => CountInv /\ SleepInv
  <2> SUFFICES ASSUME Init PROVE CountInv /\ SleepInv
    OBVIOUS
  <2>1. CountInv
    BY DEF Init, CountInv, ReadCount, WriteCount, ReturnCount, PcReader, PcWriter, NoTrap
  <2>2. SleepInv
    BY DEF Init, SleepInv, ReaderKept, WriterKept, Emptied, NoTrap
  <2> QED
    BY <2>1, <2>2
<1>2. TypeInv /\ CopyInv /\ CountInv /\ SleepInv /\ [Next]_vars => CountInv' /\ SleepInv'
  BY CountUser, CountKernel, SleepReader, SleepWriter, SleepKernel DEF Next
<1>3. TypeInv /\ SleepInv => SleepersOwnAnEnd
  <2> SUFFICES ASSUME TypeInv, SleepInv, phase = "user" PROVE SleepersOwnAnEnd
    BY DEF SleepersOwnAnEnd
  <2>1. trap.id = "none"
    BY TaskFacts
  <2> QED
    BY <2>1 DEF SleepInv, SleepersOwnAnEnd
<1> QED
  BY <1>1, <1>2, <1>3, CopyInvariant, PTL DEF Spec
=============================================================================
