------------------------------ MODULE SysPipe -------------------------------
(***************************************************************************)
(* One ZipOS pipe (sw/zipos/syspipe.c), the tasks that call read() and     *)
(* write() on it, and the kernel loop (sw/zipos/kernel.c) around them.     *)
(*                                                                         *)
(* ZipOS runs one task at a time and is cooperative: an interrupt may come *)
(* between any two user instructions, but the kernel switches tasks only   *)
(* at a trap.  A pass of the kernel loop first serves the interrupts that  *)
(* are pending (even those the task had just disabled), then the trap that *)
(* the task made, then schedules: the phases "irq", "trap" and "sched".    *)
(*                                                                         *)
(* A byte is the number of its place in the order in which write calls (or *)
(* the receiver) handed bytes to the pipe, so that order is visible.       *)
(***************************************************************************)
EXTENDS Integers, Sequences, FiniteSets, ZipSched

CONSTANTS Size,         \* m_mask + 1
          IntReader,    \* who drains the pipe from the kernel:
                        \* "tx" (txpipe), "audio" (pwmpipe) or "none"
          IntWriter,    \* is it the receiver that fills the pipe (rxpipe)?
          Readers,      \* tasks that call read()
          Writers,      \* tasks that call write()
          ReadLens,     \* lengths they read
          WriteLens,    \* lengths they write
          Limit         \* bound: bytes handed to the pipe in all

ASSUME PipeAssumption ==
    /\ Size \in Nat /\ Size > 2
    /\ IntReader \in {"none", "tx", "audio"}
    /\ IntWriter \in BOOLEAN
    /\ IntWriter => IntReader = "none"
    /\ Readers \subseteq Tasks
    /\ Writers \subseteq Tasks
    /\ ReadLens \subseteq Nat
    /\ WriteLens \subseteq Nat
    /\ Limit \in Nat

VARIABLES
    head, tail, buf, error,     \* m_head, m_tail, m_buf, m_error
    rdtask, wrtask,             \* m_rdtask, m_wrtask
    nread, nwritten,            \* m_nread, m_nwritten
    state,                      \* TASK.state
    arg,        \* TASK.context[3..4]: what is left of a call not resumed yet
    pc,         \* where each task is in uread_syspipe or uwrite_syspipe
    nleft, src, \* locals of those two that live across a wait()
    h, navail,  \* locals of the running task, dead at every trap
    current,    \* the running task
    phase,      \* user code, or the part of the kernel loop that is next
    trap,       \* the system call that brought us into the kernel
    gie,        \* interrupt controller's global enable
    dev,        \* device: byte received (rx), transmitter idle (tx),
                \* audio sample consumed (audio)
    audiostate, \* kernel_entry's audiostate
    accepted,   \* bytes handed over so far
    out,        \* every byte delivered, in order, and the errors between
    asked, ret  \* each task's last call: length asked for, value returned

pipeVars == <<head, tail, buf, error, rdtask, wrtask, nread, nwritten>>
taskVars == <<state, arg, pc, nleft, src>>
localVars == <<h, navail>>
kernelVars == <<current, phase, trap, gie>>
devVars == <<dev, audiostate>>
histVars == <<accepted, out>>
callVars == <<asked, ret>>
vars == <<pipeVars, taskVars, localVars, kernelVars, devVars, histVars, callVars>>

Mask    == Size - 1
NoTask  == -1               \* NULL
IntTask == -2               \* INTERRUPT_READ_TASK
Blank   == -3               \* a byte of m_buf that nobody wrote
EIO     == -5
EFAULT  == -14
EBUSY   == -16
NoTrap  == [id |-> "none", len |-> 0]

-----------------------------------------------------------------------------
\* Index arithmetic and copies.

\* i & m_mask, for the i that occur: 0 .. 2*m_mask+1.
Wrap(i) == IF i < Size THEN i ELSE i - Size

\* num_avail_syspipe: (tail - head - 1) & mask.
NumAvail == Wrap(tail - head - 1 + Size)

Occupied == Wrap(head - tail + Size)
Full == Wrap(head + 1) = tail

MinOf(a, b) == IF a < b THEN a ELSE b

\* Bytes n, n+1, ... of a task's buffer, and len bytes of m_buf from i on.
Numbers(n, len) == [k \in 1 .. len |-> n + k - 1]
Chunk(i, len) == [k \in 1 .. len |-> buf[i + k - 1]]

\* m_buf once len bytes of a task's buffer have been copied to it at i.
Filled(i, n, len) ==
    [k \in 0 .. Mask |-> IF i <= k /\ k < i + len THEN n + (k - i) ELSE buf[k]]

\* Make a task ready; let u go first while t sleeps; wake the owner of an
\* end of the pipe, if it is a task.
AwakeNever(t) == state                  \* mutant: the task is left asleep
Awake(t) == [state EXCEPT ![t] = "READY"]

HandOverAsleep(t, u) == [state EXCEPT ![t] = "WAITING"] \* mutant: u sleeps on
HandOver(t, u) == [state EXCEPT ![t] = "WAITING", ![u] = "READY"]

WakeNobody == state                     \* mutant
WakeReader == IF rdtask \in Tasks THEN Awake(rdtask) ELSE state

WakeWriter == IF wrtask # NoTask THEN Awake(wrtask) ELSE state

\* A saved call, len bytes further on.
AdvanceLenOnly(a, len) == [src |-> a.src, len |-> a.len - len]      \* mutant
Advance(a, len) == [src |-> a.src + len, len |-> a.len - len]

-----------------------------------------------------------------------------
Init ==
    /\ head = 0 /\ tail = 0 /\ error = FALSE
    /\ buf = [i \in 0 .. Mask |-> Blank]
    /\ rdtask = (IF IntReader = "none" THEN NoTask ELSE IntTask)
    /\ wrtask = NoTask
    /\ nread = 0 /\ nwritten = 0
    /\ state = [t \in Tasks |-> "READY"]
    /\ arg = [t \in Tasks |-> [src |-> 0, len |-> 0]]
    /\ pc = [t \in Tasks |-> "user"]
    /\ nleft = [t \in Tasks |-> 0]
    /\ src = [t \in Tasks |-> 0]
    /\ h = 0 /\ navail = 0
    /\ current = 0
    /\ phase = "user" /\ trap = NoTrap /\ gie = TRUE
    /\ dev \in BOOLEAN /\ (dev => IntReader # "none")
    /\ audiostate = FALSE
    /\ accepted = 0 /\ out = <<>>
    /\ asked = [t \in Tasks |-> 0] /\ ret = [t \in Tasks |-> 0]

-----------------------------------------------------------------------------
(***************************************************************************)
(* User code.  A step of task t; every system call is a Trap.              *)
(***************************************************************************)
Running(t, l) == phase = "user" /\ current = t /\ pc[t] = l
Goto(t, l) == pc' = [pc EXCEPT ![t] = l]

Trap(id, len) == /\ phase' = "irq"
                 /\ trap' = [id |-> id, len |-> len]
                 /\ UNCHANGED current

NoTrapYet == UNCHANGED <<current, phase, trap>>

Read(t, n) ==
    /\ t \in Readers
    /\ Running(t, "user")
    /\ Trap("READ", n)
    /\ asked' = [asked EXCEPT ![t] = n]
    /\ UNCHANGED <<pipeVars, taskVars, localVars, gie, devVars, histVars, ret>>

Write(t, n) ==
    /\ t \in Writers
    /\ Running(t, "user")
    /\ accepted + n <= Limit
    /\ Trap("WRITE", n)
    /\ asked' = [asked EXCEPT ![t] = n]
    /\ UNCHANGED <<pipeVars, taskVars, localVars, gie, devVars, histVars, ret>>

\* Whatever else the task does, it lets the others run.
Yield(t) ==
    /\ Running(t, "user")
    /\ Trap("YIELD", 0)
    /\ UNCHANGED <<pipeVars, taskVars, localVars, gie, devVars, histVars, callVars>>

-----------------------------------------------------------------------------
\* uread_syspipe

\* A writer may have satisfied the whole request before the reader ran.
REntry(t) ==
    /\ Running(t, "r_entry")
    /\ IF arg[t].len = 0
       THEN /\ ret' = [ret EXCEPT ![t] = nread]
            /\ Goto(t, "user")
            /\ UNCHANGED nleft
       ELSE /\ nleft' = [nleft EXCEPT ![t] = arg[t].len]
            /\ Goto(t, "r_head")
            /\ UNCHANGED ret
    /\ NoTrapYet
    /\ UNCHANGED <<pipeVars, state, arg, src, localVars, gie, devVars, histVars, asked>>

\* The debugging checks that follow each copy out of m_buf end the task when
\* two or more bytes are wanted still, or have been read (syspipe.c:159).
SanityCheck(t, left, read, next) ==
    IF left >= 2 \/ read >= 2
    THEN Trap("EXIT", 0) /\ UNCHANGED pc
    ELSE NoTrapYet /\ Goto(t, next)

\* The bytes to be read go round the end of m_buf.
NeverWrapped == FALSE                   \* mutant
Wrapped == head < tail

\* What the reader sees of m_head: the receiver may move it at any time.
RHead(t) ==
    /\ Running(t, "r_head")
    /\ h' = head
    /\ Goto(t, IF Wrapped THEN "r_wrap" ELSE "r_rest")
    /\ NoTrapYet
    /\ UNCHANGED <<pipeVars, state, arg, nleft, src, navail, gie, devVars,
                   histVars, callVars>>

\* tail moves on, to 0 at the end of m_buf.
NextTail(len) == Wrap(tail + len)

\* Copy len bytes from tail on.
CopyOut(t, len, next) ==
    /\ out' = out \o Chunk(tail, len)
    /\ nread' = nread + len
    /\ nleft' = [nleft EXCEPT ![t] = @ - len]
    /\ tail' = NextTail(len)
    /\ SanityCheck(t, nleft[t] - len, nread + len, next)
    /\ UNCHANGED <<head, buf, error, rdtask, wrtask, nwritten, state, arg, src,
                   localVars, gie, devVars, accepted, callVars>>

RWrap(t) ==
    /\ Running(t, "r_wrap")
    /\ LET len == MinOf(Size - tail, nleft[t])
       IN  CopyOut(t, len, IF nleft[t] = len THEN "r_done" ELSE "r_rest")

RRest(t) ==
    /\ Running(t, "r_rest")
    /\ LET len == MinOf(h - tail, nleft[t])
       IN  CopyOut(t, len, IF nleft[t] = len THEN "r_done" ELSE "r_direct")

\* Copy straight from the buffer of a blocked writer, and release the writer
\* once its buffer is exhausted.
RDirect(t) ==
    /\ Running(t, "r_direct")
    /\ IF wrtask = NoTask
       THEN /\ Goto(t, "r_check")
            /\ UNCHANGED <<out, nread, nwritten, nleft, arg, wrtask, state>>
       ELSE LET w == wrtask
                len == MinOf(nleft[t], arg[w].len)
            IN  /\ out' = out \o Numbers(arg[w].src, len)
                /\ nread' = nread + len
                /\ nwritten' = nwritten + len
                /\ nleft' = [nleft EXCEPT ![t] = @ - len]
                /\ arg' = [arg EXCEPT ![w] = Advance(@, len)]
                /\ IF arg[w].len = len
                   THEN wrtask' = NoTask /\ state' = Awake(w)
                   ELSE UNCHANGED <<wrtask, state>>
                /\ Goto(t, IF nleft[t] = len THEN "r_done" ELSE "r_check")
    /\ NoTrapYet
    /\ UNCHANGED <<head, tail, buf, error, rdtask, src, localVars, gie, devVars,
                   accepted, callVars>>

\* DISABLE_INTS; wait(0,-1) if the pipe is empty, else ENABLE_INTS.
RCheck(t) ==
    /\ Running(t, "r_check")
    /\ h' = head
    /\ Goto(t, "r_head")
    /\ IF head = tail
       THEN Trap("WAIT", 0) /\ gie' = FALSE
       ELSE NoTrapYet /\ gie' = TRUE
    /\ UNCHANGED <<pipeVars, state, arg, nleft, src, navail, devVars, histVars, callVars>>

RDone(t) ==
    /\ Running(t, "r_done")
    /\ ret' = [ret EXCEPT ![t] = nread]
    /\ nread' = 0
    /\ rdtask' = NoTask
    /\ state' = WakeWriter
    /\ gie' = TRUE
    /\ Goto(t, "user")
    /\ NoTrapYet
    /\ UNCHANGED <<head, tail, buf, error, wrtask, nwritten, arg, nleft, src,
                   localVars, devVars, histVars, asked>>

-----------------------------------------------------------------------------
\* uwrite_syspipe

WEntry(t) ==
    /\ Running(t, "w_entry")
    /\ nleft' = [nleft EXCEPT ![t] = arg[t].len]
    /\ src' = [src EXCEPT ![t] = arg[t].src]
    /\ Goto(t, "w_top")
    /\ NoTrapYet
    /\ UNCHANGED <<pipeVars, state, arg, localVars, gie, devVars, histVars, callVars>>

\* Copy straight into the buffer of a blocked reader, and release the reader
\* once its buffer is full.  There is none when the kernel drains the pipe.
WDirect(t) ==
    /\ Running(t, "w_top")
    /\ IF rdtask \in {NoTask, IntTask}
       THEN /\ Goto(t, "w_avail")
            /\ UNCHANGED <<out, nread, nwritten, nleft, src, arg, rdtask, state>>
       ELSE LET r == rdtask
                len == MinOf(nleft[t], arg[r].len)
            IN  /\ out' = out \o Numbers(src[t], len)
                /\ nread' = nread + len
                /\ nwritten' = nwritten + len
                /\ nleft' = [nleft EXCEPT ![t] = @ - len]
                /\ src' = [src EXCEPT ![t] = @ + len]
                /\ arg' = [arg EXCEPT ![r] = Advance(@, len)]
                /\ IF arg[r].len = len
                   THEN rdtask' = NoTask /\ state' = Awake(r)
                   ELSE UNCHANGED <<rdtask, state>>
                /\ Goto(t, IF nleft[t] = len THEN "w_done" ELSE "w_avail")
    /\ NoTrapYet
    /\ UNCHANGED <<head, tail, buf, error, wrtask, localVars, gie, devVars,
                   accepted, callVars>>

WAvail(t) ==
    /\ Running(t, "w_avail")
    /\ navail' = NumAvail
    /\ Goto(t, "w_fill")
    /\ NoTrapYet
    /\ UNCHANGED <<pipeVars, state, arg, nleft, src, h, gie, devVars, histVars, callVars>>

\* How much is copied into m_buf: nothing unless all of it fits, but as much
\* as fits before the end of m_buf when the kernel drains the pipe.
FillTooMuch(t) ==                       \* mutant: navail ignored
    IF navail > 0 THEN MinOf(Size - head, nleft[t]) ELSE 0
FillLen(t) ==
    IF nleft[t] <= navail \/ (IntReader # "none" /\ navail > 0)
    THEN MinOf(MinOf(Size - head, nleft[t]), navail)
    ELSE 0

WFill(t) ==
    /\ Running(t, "w_fill")
    /\ LET len == FillLen(t)
       IN  /\ buf' = Filled(head, src[t], len)
           /\ head' = Wrap(head + len)
           /\ src' = [src EXCEPT ![t] = @ + len]
           /\ nleft' = [nleft EXCEPT ![t] = @ - len]
           /\ nwritten' = nwritten + len
           /\ navail' = navail - len
           /\ Goto(t, CASE nleft[t] = len -> "w_done"
                        [] nleft[t] # len /\ navail = len -> "w_check"
                        [] OTHER -> "w_top")
    /\ NoTrapYet
    /\ UNCHANGED <<tail, error, rdtask, wrtask, nread, state, arg, h, gie, devVars,
                   histVars, callVars>>

\* DISABLE_INTS; wait(0,-1) if there is still no room (or, in a pipe that
\* tasks read, still no reader), else ENABLE_INTS.
WCheck(t) ==
    /\ Running(t, "w_check")
    /\ Goto(t, "w_top")
    /\ IF IF rdtask = IntTask THEN NumAvail = 0 ELSE rdtask = NoTask
       THEN Trap("WAIT", 0) /\ gie' = FALSE
       ELSE NoTrapYet /\ gie' = TRUE
    /\ UNCHANGED <<pipeVars, state, arg, nleft, src, localVars, devVars, histVars,
                   callVars>>

WDone(t) ==
    /\ Running(t, "w_done")
    /\ ret' = [ret EXCEPT ![t] = nwritten]
    /\ wrtask' = NoTask
    /\ Goto(t, "user")
    /\ NoTrapYet
    /\ UNCHANGED <<head, tail, buf, error, rdtask, nread, nwritten, state, arg,
                   nleft, src, localVars, gie, devVars, histVars, asked>>

URead(t) == REntry(t) \/ RHead(t) \/ RWrap(t) \/ RRest(t) \/ RDirect(t)
            \/ RCheck(t) \/ RDone(t)

UWrite(t) == WEntry(t) \/ WDirect(t) \/ WAvail(t) \/ WFill(t) \/ WCheck(t) \/ WDone(t)

-----------------------------------------------------------------------------
(***************************************************************************)
(* Kernel.  An interrupt ends user mode; the timer sees to it that there   *)
(* is always one to come.                                                  *)
(***************************************************************************)
Interrupt ==
    /\ phase = "user" /\ gie
    /\ phase' = "irq" /\ trap' = NoTrap
    /\ UNCHANGED <<pipeVars, taskVars, localVars, current, gie, devVars, histVars, callVars>>

\* The kernel's interrupt pass.  "active" is bit 15 of the controller: there
\* is an enabled interrupt pending.  Only then are bytes received and audio
\* continued, only else is audio started; a byte is sent either way.
Served(active) ==
    /\ phase = "irq"
    /\ (trap.id = "none" => active)
    /\ phase' = "trap" /\ gie' = TRUE
    /\ UNCHANGED <<current, trap, arg, pc, nleft, src, localVars, nread, nwritten,
                   rdtask, wrtask, accepted, callVars>>

\* Nothing to do for this pipe.
KIrqIdle(active) ==
    /\ Served(active)
    /\ ~(IntWriter /\ active /\ dev)
    /\ ~(IntReader = "tx" /\ dev)
    /\ IntReader = "audio" => IF active THEN ~(audiostate /\ dev) ELSE audiostate
    /\ UNCHANGED <<head, tail, buf, error, state, devVars, out>>

\* kpush_syspipe: the byte is lost if the pipe is full.
KPushSilent(v) ==                       \* mutant: the loss is not recorded
    /\ UNCHANGED error
    /\ IF ~Full
       THEN /\ buf' = [buf EXCEPT ![head] = v]
            /\ head' = Wrap(head + 1)
            /\ state' = WakeReader
       ELSE UNCHANGED <<buf, head, state>>
KPush(v) ==
    IF ~Full
    THEN /\ buf' = [buf EXCEPT ![head] = v]
         /\ head' = Wrap(head + 1)
         /\ state' = WakeReader
         /\ UNCHANGED error
    ELSE /\ error' = TRUE
         /\ UNCHANGED <<buf, head, state>>

KIrqRx ==
    /\ Served(TRUE)
    /\ IntWriter /\ dev
    /\ KPush(accepted - 1)
    /\ dev' = FALSE
    /\ UNCHANGED <<tail, audiostate, out>>

\* kpop_syspipe and kpop_short_syspipe take n bytes if the pipe is not empty.
KPopOne(n) ==                           \* mutant: tail moves by one only
    /\ head # tail
    /\ out' = out \o [k \in 1 .. n |-> buf[Wrap(tail + k - 1)]]
    /\ tail' = Wrap(tail + 1)
    /\ state' = WakeWriter
    /\ UNCHANGED <<head, buf, error>>
KPopAsleep(n) ==                        \* mutant: the writer is not woken
    /\ head # tail
    /\ out' = out \o [k \in 1 .. n |-> buf[Wrap(tail + k - 1)]]
    /\ tail' = Wrap(tail + n)
    /\ UNCHANGED <<head, buf, error, state>>
KPop(n) ==
    /\ head # tail
    /\ out' = out \o [k \in 1 .. n |-> buf[Wrap(tail + k - 1)]]
    /\ tail' = Wrap(tail + n)
    /\ state' = WakeWriter
    /\ UNCHANGED <<head, buf, error>>

KIrqTx(active) ==
    /\ Served(active)
    /\ IntReader = "tx" /\ dev
    /\ IF head # tail
       THEN KPop(1) /\ dev' = FALSE
       ELSE UNCHANGED <<head, tail, buf, error, state, out, dev>>
    /\ UNCHANGED audiostate

\* A byte received while the transmitter is idle is echoed before the pipe is
\* looked at: the transmitter is busy with it.
KIrqEcho ==
    /\ Served(TRUE)
    /\ IntReader = "tx" /\ dev
    /\ dev' = FALSE
    /\ UNCHANGED <<head, tail, buf, error, state, audiostate, out>>

\* Audio runs until the pipe is found empty.
KIrqAudio ==
    /\ Served(TRUE)
    /\ IntReader = "audio" /\ audiostate /\ dev
    /\ dev' = FALSE
    /\ IF head # tail
       THEN KPop(2) /\ UNCHANGED audiostate
       ELSE audiostate' = FALSE /\ UNCHANGED <<head, tail, buf, error, state, out>>

KStartAudio ==
    /\ Served(FALSE)
    /\ IntReader = "audio" /\ ~audiostate
    /\ IF head # tail
       THEN KPop(2) /\ audiostate' = TRUE /\ dev' = FALSE
       ELSE UNCHANGED <<head, tail, buf, error, state, out, devVars>>

KIrq(active) == \/ KIrqIdle(active)
                \/ KIrqTx(active)
                \/ IF active THEN KIrqRx \/ KIrqEcho \/ KIrqAudio ELSE KStartAudio

-----------------------------------------------------------------------------
\* Trap handling, the second part of the kernel's loop.

Handle(id) == /\ phase = "trap" /\ trap.id = id
              /\ UNCHANGED <<current, trap, gie, nleft, src, localVars, devVars, asked>>

\* Nothing was called, or nothing changes but what KSched does.
KNoTrap ==
    /\ \E id \in {"none", "YIELD"} : Handle(id)
    /\ phase' = "sched"
    /\ UNCHANGED <<pipeVars, state, arg, pc, histVars, ret>>

\* wait(0,-1): sleep until some other code makes the task ready.  The saved
\* registers now hold the arguments of wait(), whose context[4] is zero.
KWait ==
    /\ Handle("WAIT")
    /\ phase' = "sched"
    /\ state' = [state EXCEPT ![current] = "WAITING"]
    /\ arg' = [arg EXCEPT ![current] = [src |-> 0, len |-> 0]]
    /\ UNCHANGED <<pipeVars, pc, histVars, ret>>

\* exit(): the kernel panics and halts the CPU.
KExit ==
    /\ Handle("EXIT")
    /\ phase' = "halted"
    /\ UNCHANGED <<pipeVars, state, arg, pc, histVars, ret>>

Fail(errno) == ret' = [ret EXCEPT ![current] = errno]

\* kread_syspipe: a second reader, or a request for nothing, halts the CPU.
KReadHalt ==
    /\ Handle("READ")
    /\ \/ rdtask # NoTask /\ Fail(EBUSY)
       \/ rdtask = NoTask /\ ~error /\ trap.len <= 0 /\ Fail(EFAULT)
    /\ phase' = "halted"
    /\ UNCHANGED <<pipeVars, state, arg, pc, histVars>>

\* kread_syspipe: report that bytes were lost, and drop what the pipe holds.
KReadError ==
    /\ Handle("READ")
    /\ rdtask = NoTask /\ error
    /\ tail' = head /\ error' = FALSE
    /\ Fail(EIO)
    /\ out' = Append(out, EIO)
    /\ phase' = "sched"
    /\ UNCHANGED <<head, buf, rdtask, wrtask, nread, nwritten, state, arg, pc, accepted>>

TakeReadEndOnly == rdtask' = current /\ UNCHANGED nread     \* mutant
TakeReadEnd == rdtask' = current /\ nread' = 0

\* kread_syspipe: take the read end; let a blocked writer go first.
KRead ==
    /\ Handle("READ")
    /\ rdtask = NoTask /\ ~error /\ trap.len > 0
    /\ TakeReadEnd
    /\ arg' = [arg EXCEPT ![current] = [src |-> 0, len |-> trap.len]]
    /\ Goto(current, "r_entry")
    /\ state' = IF wrtask # NoTask
                THEN HandOver(current, wrtask)
                ELSE IF head = tail
                     THEN [state EXCEPT ![current] = "WAITING"]
                     ELSE state
    /\ phase' = "sched"
    /\ UNCHANGED <<head, tail, buf, error, wrtask, nwritten, histVars, ret>>

\* kwrite_syspipe: refuse a second writer, or a request for nothing.
KWriteFail ==
    /\ Handle("WRITE")
    /\ \/ wrtask # NoTask /\ Fail(EBUSY)
       \/ wrtask = NoTask /\ trap.len <= 0 /\ Fail(EFAULT)
    /\ phase' = "sched"
    /\ UNCHANGED <<pipeVars, state, arg, pc, histVars>>

TakeWriteEnd == wrtask' = current /\ nwritten' = 0

\* kwrite_syspipe: take the write end; let a blocked reader go first.
KWrite ==
    /\ Handle("WRITE")
    /\ wrtask = NoTask /\ trap.len > 0
    /\ TakeWriteEnd
    /\ arg' = [arg EXCEPT ![current] = [src |-> accepted, len |-> trap.len]]
    /\ accepted' = accepted + trap.len
    /\ Goto(current, "w_entry")
    /\ state' = IF rdtask \in Tasks
                THEN HandOver(current, rdtask)
                ELSE IF Full
                     THEN [state EXCEPT ![current] = "WAITING"]
                     ELSE state
    /\ phase' = "sched"
    /\ UNCHANGED <<head, tail, buf, error, rdtask, nread, out, ret>>

KTrap == KNoTrap \/ KWait \/ KExit \/ KReadHalt \/ KReadError \/ KRead
         \/ KWriteFail \/ KWrite

\* The end of the loop: reschedule only if asked to, if the task is no longer
\* ready, or if it is the idle task; and return to user mode.
KSched ==
    /\ phase = "sched"
    /\ current' = IF \/ trap.id \in {"YIELD", "WAIT"}
                     \/ current = Idle
                     \/ state[current] # "READY"
                  THEN KSchedule(state, current)
                  ELSE current
    /\ phase' = "user" /\ trap' = NoTrap
    /\ UNCHANGED <<pipeVars, taskVars, localVars, gie, devVars, histVars, callVars>>

Kernel == (\E active \in BOOLEAN : KIrq(active)) \/ KTrap \/ KSched

-----------------------------------------------------------------------------
\* Devices

\* The receiver has a byte; it is served before the next one arrives.
RxArrive ==
    /\ IntWriter /\ ~dev
    /\ accepted < Limit
    /\ accepted' = accepted + 1
    /\ dev' = TRUE
    /\ UNCHANGED <<pipeVars, taskVars, localVars, kernelVars, audiostate, out, callVars>>

\* The transmitter, or the audio port, is ready for another byte or sample.
DeviceReady ==
    /\ IntReader # "none" /\ ~dev
    /\ dev' = TRUE
    /\ UNCHANGED <<pipeVars, taskVars, localVars, kernelVars, audiostate, histVars, callVars>>

Calls(t) == \/ \E n \in ReadLens : Read(t, n)
            \/ \E n \in WriteLens : Write(t, n)
            \/ Yield(t)

Next == \/ \E t \in Tasks : Calls(t) \/ URead(t) \/ UWrite(t)
        \/ Interrupt \/ Kernel
        \/ RxArrive \/ DeviceReady

Spec == Init /\ [][Next]_vars

(***************************************************************************)
(* Fairness.  The CPU runs, and user code gets on between two interrupts   *)
(* (the timer's are a millisecond, 80000 clocks, apart); the timer         *)
(* interrupts it for ever, so that again and again a pass of the kernel    *)
(* finds bit 15 set; the devices finish what they were given; the receiver *)
(* does not have a byte to echo whenever the transmitter is idle; and no   *)
(* task keeps calling without ever waiting for something else, as every    *)
(* task of doorbell.c does in its main loop.                               *)
(***************************************************************************)
Fairness ==
    /\ WF_vars(Kernel)
    /\ WF_vars(Interrupt)
    /\ SF_vars(KIrq(TRUE))
    /\ SF_vars(KIrqTx(TRUE))
    /\ WF_vars(DeviceReady)
    /\ SF_vars(\E t \in Tasks : URead(t) \/ UWrite(t))
    /\ \A t \in Tasks : SF_vars(Yield(t))

FairSpec == Spec /\ Fairness

\* The reader of a task's pipe comes back for more: display_task's loop.
ReaderFairness == \A t \in Readers : SF_vars(\E n \in ReadLens : Read(t, n))

TaskSpec == FairSpec /\ ReaderFairness

-----------------------------------------------------------------------------
(***************************************************************************)
(* Properties                                                              *)
(***************************************************************************)
PcReader == {"r_entry", "r_head", "r_wrap", "r_rest", "r_direct", "r_check", "r_done"}
PcWriter == {"w_entry", "w_top", "w_avail", "w_fill", "w_check", "w_done"}
Byte == Nat \cup {Blank}
TrapIds == {"none", "READ", "WRITE", "YIELD", "WAIT", "EXIT"}

\* The type of every variable: in particular the indices of the ring stay
\* inside m_buf and no copy has a negative length.
PipeOK ==
    /\ head \in 0 .. Mask /\ tail \in 0 .. Mask
    /\ buf \in [0 .. Mask -> Byte]
    /\ error \in BOOLEAN
    /\ rdtask \in Tasks \cup {NoTask, IntTask}
    /\ wrtask \in Tasks \cup {NoTask}
    /\ nread \in Nat /\ nwritten \in Nat

TaskOK ==
    /\ state \in [Tasks -> {"READY", "WAITING"}]
    /\ arg \in [Tasks -> [src : Nat, len : Nat]]
    /\ pc \in [Tasks -> {"user"} \cup PcReader \cup PcWriter]
    /\ nleft \in [Tasks -> Nat] /\ src \in [Tasks -> Nat]
    /\ h \in 0 .. Mask /\ navail \in 0 .. Mask

KernelOK ==
    /\ current \in Tasks \cup {Idle}
    /\ phase \in {"user", "irq", "trap", "sched", "halted"}
    /\ trap \in [id : TrapIds, len : Nat]
    /\ gie \in BOOLEAN /\ dev \in BOOLEAN /\ audiostate \in BOOLEAN

CallsOK ==
    /\ accepted \in Nat
    /\ out \in Seq(Int)
    /\ asked \in [Tasks -> Nat] /\ ret \in [Tasks -> Int]

TypeOK == PipeOK /\ TaskOK /\ KernelOK /\ CallsOK

-----------------------------------------------------------------------------
(***************************************************************************)
(* The inductive invariants that SysPipeProofs.tla rests on.               *)
(***************************************************************************)

\* Where a task can be while another one runs, or while it is in a trap:
\* outside a call, at the start of one, or just after a wait().
Resting == {"user", "r_entry", "r_head", "w_entry", "w_top"}

\* The kernel drains the pipe or a task does; a byte received has a number.
DevInv ==
    /\ rdtask = IntTask <=> IntReader # "none"
    /\ IntWriter /\ dev => accepted > 0

\* Cooperative scheduling: the running task is ready until the kernel serves
\* its trap, and it traps only where a call or a wait() is made.
TrapInv ==
    /\ trap.id # "none" => phase # "user" /\ current \in Tasks
    /\ trap.id = "none" /\ current \in Tasks => state[current] = "READY"
    /\ trap.id \in {"READ", "WRITE", "YIELD"} /\ phase \in {"irq", "trap"}
          => pc[current] = "user"
    /\ trap.id = "WAIT" => pc[current] \in {"r_head", "w_top"}
    /\ phase = "sched" => trap.id # "EXIT"

\* Every other task rests, and so the copy of m_head that a reader works with
\* never lags behind tail.
PcInv ==
    \A t \in Tasks :
        /\ pc[t] \in PcReader => IntReader = "none"
        /\ t # current => pc[t] \in Resting
        /\ t = current /\ trap.id \notin {"none", "EXIT"} => pc[t] \in Resting
        /\ t = current /\ trap.id = "none" /\ pc[t] = "r_rest" => h >= tail

TypeInv == TypeOK /\ DevInv /\ TrapInv /\ PcInv

\* Where the next byte of the owner's call comes from, and how many are left.
OwnerSrc == IF pc[wrtask] = "w_entry" THEN arg[wrtask].src ELSE src[wrtask]
OwnerLeft == IF pc[wrtask] = "w_entry" THEN arg[wrtask].len ELSE nleft[wrtask]

\* What has been delivered, and what the ring holds next.
RingInv ==
    /\ \A i \in 1 .. Len(out) : out[i] = i - 1
    /\ \A k \in 0 .. Occupied - 1 : buf[Wrap(tail + k)] = Len(out) + k

\* The owner of the write end is the one task that is writing, and what it has
\* not copied into the ring yet follows what the ring holds.
OwnerInv ==
    /\ \A t \in Tasks :
          /\ pc[t] \in PcWriter <=> wrtask = t
          /\ pc[t] = "w_fill" => navail <= NumAvail
          /\ pc[t] = "w_done" => nleft[t] = 0
    /\ wrtask = NoTask => accepted = Len(out) + Occupied
    /\ wrtask # NoTask => /\ OwnerSrc = Len(out) + Occupied
                          /\ accepted = OwnerSrc + OwnerLeft
                          /\ nwritten + OwnerLeft = asked[wrtask]

\* A call in the kernel's hands is the one that its task made; one that is over
\* and did not fail returned what was asked for.
CallInv ==
    /\ trap.id = "WRITE" /\ phase \in {"irq", "trap"}
          => /\ accepted + trap.len <= Limit
             /\ trap.len \in WriteLens
             /\ asked[current] = trap.len
    /\ \A t \in Tasks :
          pc[t] = "user" /\ ret[t] >= 0
            => \/ ret[t] = asked[t]
               \/ t = current /\ trap.id \in {"READ", "WRITE"} /\ phase \in {"irq", "trap"}

\* A pipe that the transmitter drains: what is delivered, what is in the ring
\* and what the owner of the write end still has are consecutive bytes.
TxInv == RingInv /\ OwnerInv /\ CallInv
-----------------------------------------------------------------------------

\* What m_buf holds, oldest byte first; the bytes task t's write call has not
\* copied anywhere yet; and how often byte n occurs in a sequence.
Contents == [k \in 1 .. Occupied |-> buf[Wrap(tail + k - 1)]]
Owed(t) == CASE pc[t] = "w_entry"               -> Numbers(arg[t].src, arg[t].len)
             [] pc[t] \in PcWriter \ {"w_entry"} -> Numbers(src[t], nleft[t])
             [] OTHER                           -> <<>>
Times(s, n) == Cardinality({i \in DOMAIN s : s[i] = n})

\* A pipe drained by the kernel delivers byte after byte in the order in which
\* write() took them (syspipe.c:9), whatever interrupts happen while a writer
\* copies around the end of the ring.
InOrder == \A i \in DOMAIN out : out[i] = i - 1

\* Every byte that a write call took is in exactly one place: delivered, in
\* the ring, or still in the writer's own buffer.  The direct copies between
\* two blocked tasks neither drop nor repeat one.
NothingLost ==
    \A n \in 0 .. accepted - 1 :
        Times(out, n) + Times(Contents, n)
            + Cardinality({t \in Tasks : Times(Owed(t), n) > 0}) = 1

\* A call that did not fail returns the length that was asked for: uartstr()
\* in doorbell.c calls it a panic when it does not.
CallsComplete ==
    phase = "user" =>
        \A t \in Tasks : (pc[t] = "user" /\ ret[t] >= 0) => ret[t] = asked[t]

\* A task asleep in the pipe owns one of its ends: nothing but the other end
\* of the pipe would ever wake it.
SleepersOwnAnEnd ==
    phase = "user" =>
        \A t \in Tasks : state[t] = "WAITING" => t \in {rdtask, wrtask}

\* A reader of the receiver's pipe never misses bytes unawares: where the
\* numbers it reads jump, read() returned an error in between (syspipe.c:388).
GapsReported ==
    \A i \in DOMAIN out :
        \/ out[i] = EIO
        \/ i = 1 /\ out[i] = 0
        \/ i > 1 /\ (out[i-1] = EIO \/ out[i] = out[i-1] + 1)

\* Nor does it read a byte twice, or a late one.
NoRepeats ==
    \A i, j \in DOMAIN out : (i < j /\ out[i] # EIO /\ out[j] # EIO) => out[i] < out[j]

\* A read that lost bytes says so, and no byte is read twice.
ReadsAreHonest == GapsReported /\ NoRepeats

\* The kernel-drained pipe implements the abstract FIFO.
Fifo == INSTANCE PipeFifo WITH Capacity <- Mask, busy <- (wrtask # NoTask)
FifoSpec == Fifo!FairSpec

\* A write call returns, and the bytes it took are delivered.
WritesReturn == \A t \in Tasks : (pc[t] \in PcWriter) ~> (pc[t] = "user")
BytesDelivered == \A n \in 1 .. Limit : (accepted >= n) ~> (Len(out) >= n)

\* A write to a pipe that is full, or too full, puts the writer to sleep rather
\* than keeping the CPU (syspipe.c:10): the tasks that could make room depend
\* on it.
WritersBlock ==
    \A t \in Tasks : (pc[t] \in PcWriter) ~> (pc[t] = "user" \/ state[t] = "WAITING")

\* A read() that the kernel accepted is carried out: the machine does not halt
\* (syspipe.c:132: "Continue 'reading' until we have fulfilled the request").
ReadsGoOn == phase # "halted"

\* A reader whose pipe is not empty is not left asleep (syspipe.c:10).
ReadersWake ==
    \A t \in Tasks :
        (rdtask = t /\ state[t] = "WAITING" /\ head # tail) ~> (state[t] = "READY")
=============================================================================
