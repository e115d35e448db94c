------------------------------ MODULE IntPath -------------------------------
(***************************************************************************)
(* From a device to the kernel and back: the interrupt controller, the     *)
(* timer, the watchdog, the UART's and the audio port's registers, clock   *)
(* by clock, and the kernel's loop (sw/zipos/kernel.c), one bus cycle per  *)
(* action.  SysPipe and KEvents take a pass of that loop for one step;     *)
(* here anything can happen between its reads and its writes.              *)
(*                                                                         *)
(* Every action is one clock: the kernel makes one bus cycle, or is busy,  *)
(* or a task runs, and Hardware clocks all the peripherals at once.  The   *)
(* pipes are counters; the button, the LEDs and kpost are left out.        *)
(***************************************************************************)
EXTENDS Integers, Sequences, IControl, UartPort, PwmAudio

CONSTANTS Period,       \* CONTEXT_LENGTH: what the timer is loaded with
          Loads,        \* what a run has to do: bytes that arrive, bytes and
                        \* samples that tasks write, the watchdog's time, and
                        \* clocks that a pass of the kernel spends off the bus
          Ascii         \* the bytes that arrive, by number, below 128

ASSUME IntPathAssumption ==
    /\ Lines = {"TIMER", "UARTRX", "UARTTX", "AUDIO"}
    /\ Period \in Nat /\ Period > 13
    /\ Loads \subseteq [rx : Nat, tx : Nat, audio : Nat, watchdog : {0, 2 * Period}, slack : Nat]
    \* A tick finds the last one served: its pass is shorter than the timer's period.
    /\ \A l \in Loads : 13 + 2 * l.slack <= Period

VARIABLES load,                                 \* of Loads
          tRunning, tAuto, tReload, tValue, tInt,       \* the timer
          wRunning, wAuto, wReload, wValue, wInt,       \* the watchdog
          txBusy,                               \* the transmitter is sending
          pc, pic, enableset, audiostate,       \* kernel_entry's
          slack,                                \* left of the load's in this pass
          txpipe, pwmpipe,                      \* bytes and samples in them
          queued, sampled,                      \* written there so far
          arrived, overrun, pushed,             \* history of received bytes
          unsent, unplayed, uncounted           \* bytes, samples, ticks under way

Timer == INSTANCE ZipTimer WITH Reloadable <- TRUE, Wrap <- 4 * Period,
    running <- tRunning, auto <- tAuto, reload <- tReload, value <- tValue, int <- tInt
Watchdog == INSTANCE ZipTimer WITH Reloadable <- FALSE, Wrap <- 4 * Period,
    running <- wRunning, auto <- wAuto, reload <- wReload, value <- wValue, int <- wInt

hwVars == <<icontrolVars, portVars, audioVars, Timer!timerVars, Watchdog!timerVars, txBusy>>
loopVars == <<pic, enableset, audiostate>>
pipeVars == <<txpipe, pwmpipe, queued, sampled>>
histVars == <<arrived, overrun, pushed, unsent, unplayed, uncounted>>
vars == <<load, hwVars, pc, slack, loopVars, pipeVars, histVars>>

\* ksetup has started the timer, and has printed.
Init ==
    /\ load \in Loads
    /\ IControlInit /\ PortInit(0) /\ AudioInit /\ Watchdog!TimerInit
    /\ tRunning = TRUE /\ tAuto = TRUE /\ tInt = FALSE
    /\ tReload = Period /\ tValue = Period
    /\ txBusy \in BOOLEAN
    /\ pc = "setup" /\ slack = load.slack
    /\ pic = {} /\ enableset = {"TIMER"} /\ audiostate = FALSE
    /\ txpipe = 0 /\ pwmpipe = 0 /\ queued = 0 /\ sampled = 0
    /\ arrived = 0 /\ overrun = {} /\ pushed = <<>>
    /\ unsent = 0 /\ unplayed = 0 /\ uncounted = 0

-----------------------------------------------------------------------------
(***************************************************************************)
(* The hardware.  A bus cycle names the register and the word written to   *)
(* it.  What a sample or a byte to send says does not matter; a byte       *)
(* received is the number it arrived as.                                   *)
(***************************************************************************)
Cycle(to, word) == [to |-> to, word |-> word]
NoCycle == Cycle("none", 0)
PicCycle(on, en, clr) == Cycle("pic", Word(on, en, clr))
ReadUart == Cycle("read", 0)
WriteUart == Cycle("uart", 0)
WriteAudio(what) == Cycle("pwm", what)
SetWatchdog == Cycle("watchdog", Watchdog!Writes(load.watchdog, FALSE))

WordsFor(reg, c) == {w \in {c.word} : c.to = reg}
Count(b) == IF b THEN 1 ELSE 0

High == [TIMER |-> tInt, UARTRX |-> rxRdy, UARTTX |-> ~txStb, AUDIO |-> audioInt]

\* The transmitter takes the port's byte when it is idle, and is then busy
\* for as long as the byte takes.
Transmitter == txBusy' \in IF txBusy THEN BOOLEAN ELSE {txStb}

Receiver(c) ==
    \E new \in {{}} \cup {{n} : n \in {arrived + 1} \cap 1 .. load.rx} :
        /\ RxPortClock(c.to = "read", new)
        /\ arrived' = arrived + Count(new # {})
        /\ overrun' = IF new # {} /\ rxRdy /\ c.to # "read" THEN overrun \cup {rxData}
                      ELSE overrun

\* Any sample that meets one that was not played yet replaces it.
Player(c) ==
    \E ztimer \in BOOLEAN :
        LET kept == IF ztimer THEN 0 ELSE unplayed
            overwrites == c.to = "pwm" /\ kept > 0
        IN  /\ AudioClock(c.to = "pwm", ztimer)
            /\ unplayed' = kept + Count(overwrites \/ (c.to = "pwm" /\ c.word = "sample"))

Hardware(c) ==
    /\ UNCHANGED load
    /\ IControlClock(WordsFor("pic", c), {l \in Lines : High[l]})
    /\ Timer!TimerClock({})
    /\ Watchdog!TimerClock(WordsFor("watchdog", c))
    /\ TxPortClock(WordsFor("uart", c), txBusy)
    /\ Transmitter
    /\ Receiver(c)
    /\ Player(c)
    /\ unsent' = unsent + Count(c.to = "uart") - Count(unsent > 0 /\ txStb /\ ~txBusy)
    /\ uncounted' = uncounted + Count(tInt') - Count(pc = "ack" /\ c.to = "pic" /\ "TIMER" \in pic)

-----------------------------------------------------------------------------
(***************************************************************************)
(* Tasks run until they trap or, a few clocks after the controller asks,   *)
(* are interrupted.                                                        *)
(***************************************************************************)
Run == /\ pc = "user" /\ (interrupt => slack > 0)
       /\ slack' = slack - Count(interrupt)
       /\ Hardware(NoCycle)
       /\ UNCHANGED <<pc, loopVars, pushed>>

Task == Run /\ UNCHANGED pipeVars

Write == /\ Run /\ queued < load.tx
         /\ queued' = queued + 1 /\ txpipe' = txpipe + 1
         /\ UNCHANGED <<pwmpipe, sampled>>

Play == /\ Run /\ sampled < load.audio
        /\ sampled' = sampled + 1 /\ pwmpipe' = pwmpipe + 1
        /\ UNCHANGED <<txpipe, queued>>

Enter == /\ pc = "user" /\ pc' = "pic"
         /\ Hardware(NoCycle)
         /\ UNCHANGED <<slack, loopVars, pipeVars, pushed>>

Trap == Enter /\ ~interrupt
Interrupt == Enter /\ interrupt

-----------------------------------------------------------------------------
(***************************************************************************)
(* The kernel: one bus cycle, then on to the next.                         *)
(***************************************************************************)
Step(at, cycle, next) ==
    /\ pc = at /\ pc' = next
    /\ Hardware(cycle)
    /\ UNCHANGED slack

\* Between two of them.
KBusy == /\ pc # "user" /\ slack > 0
         /\ slack' = slack - 1
         /\ Hardware(NoCycle)
         /\ UNCHANGED <<pc, loopVars, pipeVars, pushed>>

KSetup == /\ Step("setup", PicCycle(TRUE, enableset, Lines), "watchdog")
          /\ UNCHANGED <<loopVars, pipeVars, pushed>>

KWatchdog == /\ pc = "watchdog" /\ pc' = "user"
             /\ slack' = load.slack
             /\ Hardware(SetWatchdog)
             /\ UNCHANGED <<loopVars, pipeVars, pushed>>

KReadPic == /\ Step("pic", NoCycle, IF any THEN "ack" ELSE "gie")
            /\ pic' = intState
            /\ UNCHANGED <<enableset, audiostate, pipeVars, pushed>>

ServeEnabled(p) ==                      \* mutant: UARTTX only where enabled
    IF "UARTRX" \in p THEN "rx"
    ELSE IF "UARTTX" \in p \cap enableset THEN "tx"
    ELSE IF "AUDIO" \in p /\ audiostate THEN "audio"
    ELSE "enable"

\* Where the interrupt pass goes, with the interrupts p left to serve.
Serve(p) == IF "UARTRX" \in p THEN "rx"
            ELSE IF "UARTTX" \in p THEN "tx"
            ELSE IF "AUDIO" \in p /\ audiostate THEN "audio"
            ELSE "enable"

AckEverything == PicCycle(FALSE, pic, Lines)      \* mutant: 0x7fff
AckWord == PicCycle(FALSE, pic, pic)

KAck == /\ Step("ack", AckWord, Serve(pic))
        /\ UNCHANGED <<loopVars, pipeVars, pushed>>

Readable == rxRdy /\ rxData \in Ascii
AfterRx == pic \ {"UARTRX"}

KRxNothing == /\ Step("rx", ReadUart, Serve(AfterRx))
              /\ ~Readable
              /\ UNCHANGED <<loopVars, pipeVars, pushed>>

KRx == /\ Step("rx", ReadUart, IF "UARTTX" \in pic THEN "echo" ELSE Serve(AfterRx))
       /\ Readable
       /\ pushed' = Append(pushed, rxData)
       /\ UNCHANGED <<loopVars, pipeVars>>

KEcho == /\ Step("echo", WriteUart, "echoack")
         /\ UNCHANGED <<loopVars, pipeVars, pushed>>

TxAckWord == PicCycle(FALSE, {}, {"UARTTX"})

KEchoAck == /\ Step("echoack", TxAckWord, Serve(AfterRx \ {"UARTTX"}))
            /\ pic' = pic \ {"UARTTX"}
            /\ UNCHANGED <<enableset, audiostate, pipeVars, pushed>>

\* The transmit pipe is popped in the interrupt pass and in the idle one.
Send(at, ack) ==
    /\ Step(at, WriteUart, ack)
    /\ txpipe > 0 /\ txpipe' = txpipe - 1
    /\ enableset' = enableset \cup {"UARTTX"}
    /\ UNCHANGED <<pic, audiostate, pwmpipe, queued, sampled, pushed>>

SendNothing(at, next) ==
    /\ Step(at, NoCycle, next)
    /\ txpipe = 0
    /\ enableset' = enableset \ {"UARTTX"}
    /\ UNCHANGED <<pic, audiostate, pipeVars, pushed>>

AfterTx == pic \ {"UARTRX", "UARTTX"}

KTx == Send("tx", "txack")
KTxEmpty == SendNothing("tx", Serve(AfterTx))
KTxAck == Step("txack", TxAckWord, Serve(AfterTx)) /\ UNCHANGED <<loopVars, pipeVars, pushed>>

KAudio == /\ Step("audio", WriteAudio("sample"), "audioack")
          /\ pwmpipe > 0 /\ pwmpipe' = pwmpipe - 1
          /\ UNCHANGED <<loopVars, txpipe, queued, sampled, pushed>>

KAudioEnds == /\ Step("audio", WriteAudio("silence"), "audioack")
              /\ pwmpipe = 0
              /\ audiostate' = FALSE
              /\ enableset' = enableset \ {"AUDIO"}
              /\ UNCHANGED <<pic, pipeVars, pushed>>

AudioAckNothing == PicCycle(FALSE, {}, {})        \* mutant
AudioAckWord == PicCycle(FALSE, {}, {"AUDIO"})

KAudioAck == /\ Step("audioack", AudioAckWord, "enable")
             /\ UNCHANGED <<loopVars, pipeVars, pushed>>

KEnable == /\ Step("enable", PicCycle(TRUE, enableset, {}), "watchdog")
           /\ UNCHANGED <<loopVars, pipeVars, pushed>>

\* A pass that finds no interrupt active.
KGie == /\ Step("gie", PicCycle(TRUE, {}, {}), "start")
        /\ UNCHANGED <<loopVars, pipeVars, pushed>>

IdleTx == IF "UARTTX" \in pic THEN "idletx" ELSE "enable"
Starts == ~audiostate /\ pwmpipe > 0

KNoStart == /\ Step("start", NoCycle, IdleTx)
            /\ ~Starts
            /\ UNCHANGED <<loopVars, pipeVars, pushed>>

KStart == /\ Step("start", WriteAudio("sample"), "startack")
          /\ Starts
          /\ pwmpipe' = pwmpipe - 1
          /\ audiostate' = TRUE
          /\ enableset' = enableset \cup {"AUDIO"}
          /\ UNCHANGED <<pic, txpipe, queued, sampled, pushed>>

KStartAck == Step("startack", AudioAckWord, IdleTx) /\ UNCHANGED <<loopVars, pipeVars, pushed>>

KIdleTx == Send("idletx", "idletxack")
KIdleTxEmpty == SendNothing("idletx", "enable")
KIdleTxAck == Step("idletxack", TxAckWord, "enable") /\ UNCHANGED <<loopVars, pipeVars, pushed>>

Kernel == \/ KBusy \/ KSetup \/ KWatchdog \/ KReadPic
          \/ KAck \/ KRxNothing \/ KRx \/ KEcho \/ KEchoAck \/ KTx \/ KTxEmpty \/ KTxAck
          \/ KAudio \/ KAudioEnds \/ KAudioAck \/ KEnable
          \/ KGie \/ KNoStart \/ KStart \/ KStartAck \/ KIdleTx \/ KIdleTxEmpty \/ KIdleTxAck

Next == Task \/ Write \/ Play \/ Trap \/ Interrupt \/ Kernel

\* The clock runs, and every byte is sent in the end.
FairSpec == Init /\ [][Next]_vars /\ []<><<Next>>_vars /\ []<>~txBusy

-----------------------------------------------------------------------------
(***************************************************************************)
(* Properties                                                              *)
(***************************************************************************)
TypeInv ==
    /\ IControlType /\ Timer!TimerType /\ Watchdog!TimerType
    /\ pic \subseteq Lines /\ enableset \subseteq Lines
    /\ slack \in 0 .. load.slack
    /\ txpipe \in 0 .. load.tx /\ pwmpipe \in 0 .. load.audio

\* Nothing is written over what a port still holds.  A byte of the transmit
\* pipe, or an echo, never meets one the transmitter has not taken: UARTTX,
\* cleared after each write (kernel.c:161,171,247), is never pending while a
\* byte waits.  A sample never meets one that was not played: the port asks
\* for one a clock late, and keeps asking until kernel.c:204 clears it.
NothingOverwritten == unsent = Count(txStb) /\ unplayed <= 1

\* A byte is pushed once and no more, though UARTRX is pending again before
\* the byte that raised it is read (kernel.c:128,153): the later read finds no
\* byte.  Every byte that arrived is waiting, was pushed, was overwritten by a
\* later one, or was not ASCII: one that comes as another is read is not lost.
PushedExactlyOnce ==
    /\ \A i, j \in 1 .. Len(pushed) : i < j => pushed[i] < pushed[j]
    /\ \A n \in Ascii \cap 1 .. arrived :
         \/ rxRdy /\ rxData = n
         \/ n \in overrun
         \/ \E i \in 1 .. Len(pushed) : pushed[i] = n

\* The kernel counts every tick of the timer, whatever it was doing: only
\* what it has read is cleared (kernel.c:120-128).  The watchdog, set again on
\* every pass (kernel.c:109), never expires: the timer interrupts whatever runs
\* long before.
TimeIsKept == uncounted \in 0 .. 1 /\ ~wInt

\* UARTRX is never enabled; a byte is read all the same, by the passes that
\* other interrupts cause.
BytesRead == rxRdy ~> ~rxRdy

\* What is in the transmit pipe gets sent, even though the transmitter's
\* interrupt is disabled when the pipe was last found empty.
PipeDrains == (txpipe > 0 \/ unsent > 0) ~> (txpipe = 0 /\ unsent = 0)
=============================================================================
