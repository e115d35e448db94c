---------------------------- MODULE IntPathProofs ----------------------------
(***************************************************************************)
(* Proofs about IntPath, for every load, every period and every set of     *)
(* bytes.                                                                  *)
(***************************************************************************)
EXTENDS IntPath, SequenceTheorems, TLAPS

-----------------------------------------------------------------------------
(***************************************************************************)
(* The transmitter.  UARTTX says that the port is free, except between the *)
(* write of a byte and the acknowledgement that follows it.                *)
(***************************************************************************)
TxAcks == {"txack", "echoack", "idletxack"}
TxUses == {"ack", "rx", "tx", "echo", "gie", "start", "startack", "idletx"}
TxInv ==
    /\ IF txStb THEN unsent = 1 ELSE unsent = 0
    /\ "UARTTX" \in intState => ~txStb \/ pc \in TxAcks
    /\ pc \in TxUses /\ "UARTTX" \in pic => ~txStb
    /\ pc \in {"tx", "echo", "idletx"} => "UARTTX" \in pic

(***************************************************************************)
(* The audio port.  It holds no sample while audio is off, nor where it is *)
(* known to have asked for one.                                            *)
(***************************************************************************)
AudioAcks == {"audioack", "startack"}
AudioUses == {"ack", "rx", "echo", "echoack", "tx", "txack", "audio"}
AudioInv ==
    /\ unplayed \in 0 .. 1
    /\ unplayed > 0 => nextValid
    /\ ~audiostate => unplayed = 0
    /\ "AUDIO" \in intState \/ audioInt => ~nextValid \/ pc \in AudioAcks
    /\ pc \in AudioUses /\ "AUDIO" \in pic => unplayed = 0
    /\ pc = "audio" => "AUDIO" \in pic /\ audiostate

(***************************************************************************)
(* The receiver.  Bytes are numbered as they arrive.                       *)
(***************************************************************************)
RxInv ==
    /\ arrived \in Nat /\ pushed \in Seq(Int)
    /\ rxRdy \in BOOLEAN /\ (rxRdy => rxData \in 1 .. arrived)
    /\ \A i \in 1 .. Len(pushed) : pushed[i] <= arrived /\ (rxRdy => pushed[i] < rxData)
    /\ PushedExactlyOnce

(***************************************************************************)
(* Time.  Rest is the number of bus cycles that a pass has left, without   *)
(* those it spends off the bus.                                            *)
(***************************************************************************)
Pcs == {"setup", "watchdog", "user", "pic", "ack", "rx", "echo", "echoack", "tx", "txack",
        "audio", "audioack", "enable", "gie", "start", "startack", "idletx", "idletxack"}
Rest == IF pc = "user" THEN 0
        ELSE IF pc = "watchdog" THEN 1
        ELSE IF pc \in {"enable", "setup"} THEN 2
        ELSE IF pc \in {"audioack", "idletxack"} THEN 3
        ELSE IF pc \in {"audio", "idletx"} THEN 4
        ELSE IF pc \in {"txack", "echoack", "startack"} THEN 5
        ELSE IF pc \in {"tx", "echo", "start"} THEN 6
        ELSE IF pc \in {"rx", "gie"} THEN 7
        ELSE IF pc = "ack" THEN 8
        ELSE 9

\* Clocks until a task is interrupted, if it does not trap.
UntilEntered == IF interrupt THEN 1
                ELSE IF any THEN 2
                ELSE IF "TIMER" \in intState THEN 3
                ELSE tValue + 4

\* Clocks until the watchdog is set again.
UntilSet == slack + (IF pc = "user" THEN UntilEntered + 9 ELSE Rest)

\* A tick that was not counted, the clocks until it is, and until the next.
Uncounted == tInt \/ "TIMER" \in intState
UntilCounted ==
    IF pc = "ack" /\ "TIMER" \in pic THEN slack + 1
    ELSE IF pc = "pic" /\ "TIMER" \in intState THEN
             IF any THEN slack + 2 ELSE slack + load.slack + 13
    ELSE IF pc = "user" THEN
             IF "TIMER" \in intState THEN slack + UntilEntered + 2 ELSE slack + load.slack + 14
    ELSE slack + load.slack + Rest + 5
UntilTick == IF tInt THEN Period + 1 ELSE tValue

PassInv ==
    /\ load \in Loads /\ pc \in Pcs /\ slack \in 0 .. load.slack
    /\ {any, interrupt, gie} \subseteq BOOLEAN
    /\ pc = "ack" => pic \subseteq intState
    /\ "TIMER" \in enableset
    /\ pc \in {"watchdog", "user", "pic"} => "TIMER" \in intEnable
    /\ pc \in {"watchdog", "user"} => gie /\ (any => intState \cap intEnable # {})
    /\ pc = "user" /\ interrupt => any
    /\ pc = "setup" => intEnable = {} /\ ~any /\ tValue > slack /\ ~Uncounted

TimerInv ==
    /\ tRunning /\ tAuto /\ tReload = Period
    /\ tValue \in 0 .. Period /\ tInt \in BOOLEAN /\ (tInt <=> tValue = 0)

CountInv ==
    /\ IF Uncounted THEN uncounted = 1 ELSE uncounted = 0
    /\ ~(tInt /\ "TIMER" \in intState)
    /\ Uncounted => UntilCounted <= UntilTick

WatchdogInv ==
    /\ ~wInt /\ ~wAuto /\ wRunning \in BOOLEAN
    /\ wValue \in 0 .. 2 * Period
    /\ wRunning => wValue > UntilSet

TimeInv == PassInv /\ TimerInv /\ CountInv /\ WatchdogInv
Inv == TxInv /\ AudioInv /\ RxInv /\ TimeInv

-----------------------------------------------------------------------------
(***************************************************************************)
(* What a clock does to each device.                                       *)
(***************************************************************************)
Raised == {l \in Lines : High[l]}

LEMMA RaisedLines ==
    /\ Raised \subseteq Lines
    /\ "TIMER" \in Raised <=> tInt
    /\ "UARTTX" \in Raised <=> ~txStb
    /\ "AUDIO" \in Raised <=> audioInt
BY IntPathAssumption DEF Raised, High

LEMMA CountOne == Count(TRUE) = 1 /\ Count(FALSE) = 0
BY DEF Count

\* The controller, in a clock with no bus cycle of its own, and in one.
LEMMA OtherClock ==
    ASSUME NEW c, Hardware(c), c.to # "pic"
    PROVE  /\ intState' = intState \cup Raised
           /\ intEnable' = intEnable /\ gie' = gie
<1>1. WordsFor("pic", c) = {}
  BY DEF WordsFor
<1>2. QED
  BY <1>1 DEF Hardware, IControlClock, Raised

LEMMA PicClock ==
    ASSUME NEW on \in BOOLEAN, NEW en, NEW clr, Hardware(PicCycle(on, en, clr))
    PROVE  /\ intState' = (intState \cup Raised) \ clr
           /\ on => intEnable' = intEnable \cup en /\ gie'
           /\ ~on => intEnable' = intEnable \ en /\ ~gie'
           /\ gie' = on
<1> DEFINE w == Word(on, en, clr)
<1>1. WordsFor("pic", PicCycle(on, en, clr)) = {w}
  BY DEF WordsFor, PicCycle, Cycle
<1>2. w.gie = on /\ w.enable = en /\ w.clear = clr
  BY DEF Word
<1> HIDE DEF w
<1>3. /\ intState' = (intState \cup Raised) \ UNION {x.clear : x \in {w}}
      /\ intEnable' = (intEnable \cup UNION {x.enable : x \in {y \in {w} : y.gie}})
                      \ UNION {x.enable : x \in {y \in {w} : ~y.gie}}
      /\ gie' = \E x \in {w} : x.gie
  BY <1>1 DEF Hardware, IControlClock, Raised
<1>4. UNION {x.clear : x \in {w}} = clr /\ gie' = on
  BY <1>2, <1>3
<1>5. CASE on
  <2>1. {y \in {w} : y.gie} = {w} /\ {y \in {w} : ~y.gie} = {}
    BY <1>2, <1>5
  <2> QED
    BY <1>2, <1>3, <1>4, <1>5, <2>1
<1>6. CASE ~on
  <2>1. {y \in {w} : y.gie} = {} /\ {y \in {w} : ~y.gie} = {w}
    BY <1>2, <1>6
  <2> QED
    BY <1>2, <1>3, <1>4, <1>6, <2>1
<1> QED
  BY <1>5, <1>6

\* The UART's transmitter and the audio port.
LEMMA PortClock ==
    ASSUME NEW c, Hardware(c)
    PROVE  /\ txStb' = (c.to = "uart" \/ (txStb /\ txBusy))
           /\ unsent' = unsent + Count(c.to = "uart") - Count(unsent > 0 /\ txStb /\ ~txBusy)
           /\ audioInt' = ~nextValid
<1>1. WordsFor("uart", c) # {} <=> c.to = "uart"
  BY DEF WordsFor
<1>2. QED
  BY <1>1 DEF Hardware, TxPortClock, Player, AudioClock

-----------------------------------------------------------------------------
(***************************************************************************)
(* The transmitter's port.                                                 *)
(***************************************************************************)

\* A clock without a write to the port, and without the acknowledgement of one.
LEMMA TxQuiet ==
    ASSUME TxInv, NEW c, Hardware(c), c.to # "uart",
           "UARTTX" \in intState' => "UARTTX" \in intState \cup Raised
    PROVE  /\ IF txStb' THEN unsent' = 1 ELSE unsent' = 0
           /\ txStb' => txStb
           /\ "UARTTX" \in intState' => ~txStb' \/ pc \in TxAcks
<1> DEFINE taken == unsent > 0 /\ txStb /\ ~txBusy
<1>1. txStb' <=> txStb /\ txBusy
  BY PortClock
<1>2. (c.to = "uart") = FALSE
  OBVIOUS
<1>3. unsent' = unsent + 0 - Count(taken)
  BY <1>2, PortClock, CountOne
<1>4. /\ IF txStb THEN unsent = 1 ELSE unsent = 0
      /\ "UARTTX" \in intState => ~txStb \/ pc \in TxAcks
  BY DEF TxInv
<1>5. taken <=> txStb /\ ~txBusy
  BY <1>4
<1>6. IF taken THEN Count(taken) = 1 ELSE Count(taken) = 0
  BY CountOne
<1> HIDE DEF taken
<1>7. IF txStb' THEN unsent' = 1 ELSE unsent' = 0
  BY <1>1, <1>3, <1>4, <1>5, <1>6
<1>8. "UARTTX" \in intState' => ~txStb' \/ pc \in TxAcks
  BY <1>1, <1>4, RaisedLines
<1> QED
  BY <1>1, <1>7, <1>8

\* A byte is written where none waits.
LEMMA TxWritten ==
    ASSUME TxInv, Hardware(WriteUart), pc \in {"tx", "echo", "idletx"}
    PROVE  txStb' /\ unsent' = 1
<1>1. ~txStb /\ unsent = 0
  BY DEF TxInv, TxUses
<1>2. (WriteUart.to = "uart") = TRUE /\ (unsent > 0 /\ txStb /\ ~txBusy) = FALSE
  BY <1>1 DEF WriteUart, Cycle
<1>3. txStb' /\ unsent' = unsent + 1 - 0
  BY <1>2, PortClock, CountOne
<1>4. QED
  BY <1>1, <1>3

\* After UARTTX is cleared no byte waits, or UARTTX is not pending.
LEMMA TxAcknowledged ==
    ASSUME Hardware(TxAckWord)
    PROVE  "UARTTX" \notin intState'
<1>1. intState' = (intState \cup Raised) \ {"UARTTX"}
  BY PicClock DEF TxAckWord
<1>2. QED
  BY <1>1

LEMMA ServeTx ==
    ASSUME NEW p
    PROVE  /\ Serve(p) \in {"rx", "tx", "audio", "enable"}
           /\ Serve(p) = "tx" => "UARTTX" \in p
           /\ Serve(p) = "audio" => "AUDIO" \in p /\ audiostate
           /\ "UARTRX" \notin p => Serve(p) # "rx"
           /\ "UARTRX" \notin p /\ "UARTTX" \in p => Serve(p) = "tx"
BY DEF Serve

\* A clock in which the transmitter's part of the kernel's state stands still.
LEMMA TxIdle ==
    ASSUME TxInv, NEW c, Hardware(c), c.to \notin {"pic", "uart"}, pic' = pic,
           pc \in TxAcks => pc' \in TxAcks,
           pc' \in TxUses => pc \in TxUses \/ "UARTTX" \notin pic,
           pc' \in {"tx", "echo", "idletx"} => "UARTTX" \in pic
    PROVE  TxInv'
<1>1. intState' = intState \cup Raised
  BY OtherClock
<1>2. QED
  BY <1>1, TxQuiet DEF TxInv

\* A clock in which it writes the controller, other than to acknowledge a byte.
LEMMA TxPic ==
    ASSUME TxInv, NEW on \in BOOLEAN, NEW en, NEW clr, Hardware(PicCycle(on, en, clr)),
           pic' = pic, pc \notin TxAcks,
           pc' \in TxUses => pc \in TxUses \/ "UARTTX" \notin pic,
           pc' \in {"tx", "echo", "idletx"} => "UARTTX" \in pic
    PROVE  TxInv'
<1>1. intState' = (intState \cup Raised) \ clr /\ PicCycle(on, en, clr).to # "uart"
  BY PicClock DEF PicCycle, Cycle
<1>2. /\ IF txStb' THEN unsent' = 1 ELSE unsent' = 0
      /\ txStb' => txStb
      /\ "UARTTX" \in intState' => ~txStb' \/ pc \in TxAcks
  BY <1>1, TxQuiet
<1>3. QED
  BY <1>2 DEF TxInv

\* A byte, from a pipe or echoed.
LEMMA TxWrites ==
    ASSUME TxInv, Hardware(WriteUart), pc \in {"tx", "echo", "idletx"},
           pic' = pic, pc' \in TxAcks
    PROVE  TxInv'
BY TxWritten DEF TxInv, TxAcks, TxUses

\* Its acknowledgement.
LEMMA TxAck ==
    ASSUME TxInv, Hardware(TxAckWord), pc' \notin {"tx", "echo", "idletx"},
           pc' \in TxUses => "UARTTX" \notin pic'
    PROVE  TxInv'
<1>1. TxAckWord.to # "uart" /\ "UARTTX" \notin intState'
  BY TxAcknowledged DEF TxAckWord, PicCycle, Cycle
<1>2. QED
  BY <1>1, TxQuiet DEF TxInv

LEMMA Cycles ==
    /\ NoCycle.to \notin {"pic", "uart"} /\ ReadUart.to \notin {"pic", "uart"}
    /\ SetWatchdog.to \notin {"pic", "uart"}
    /\ \A what : WriteAudio(what).to \notin {"pic", "uart"}
BY DEF NoCycle, ReadUart, SetWatchdog, WriteAudio, Cycle

LEMMA TxNext ==
    ASSUME TxInv, Next
    PROVE  TxInv'
<1> USE DEF Step, loopVars, TxAcks, TxUses
<1>1. CASE Task \/ Write \/ Play
  BY <1>1, TxIdle, Cycles DEF Task, Write, Play, Run
<1>2. CASE Trap \/ Interrupt
  BY <1>2, TxIdle, Cycles DEF Trap, Interrupt, Enter
<1>3. CASE KBusy
  BY <1>3, TxIdle, Cycles DEF KBusy, TxInv
<1>4. CASE KSetup
  BY <1>4, TxPic DEF KSetup
<1>5. CASE KWatchdog
  BY <1>5, TxIdle, Cycles DEF KWatchdog
<1>6. CASE KReadPic
  <2>1. intState' = intState \cup Raised
    BY <1>6, OtherClock, Cycles DEF KReadPic
  <2>2. /\ IF txStb' THEN unsent' = 1 ELSE unsent' = 0
        /\ txStb' => txStb
        /\ "UARTTX" \in intState' => ~txStb' \/ pc \in TxAcks
    BY <1>6, <2>1, TxQuiet, Cycles DEF KReadPic
  <2>3. pc = "pic" /\ pc' \in {"ack", "gie"} /\ pic' = intState
    BY <1>6 DEF KReadPic
  <2>4. QED
    BY <2>2, <2>3 DEF TxInv
<1>7. CASE KAck
  BY <1>7, TxPic, ServeTx DEF KAck, AckWord
<1>8. CASE KRxNothing
  BY <1>8, TxIdle, Cycles, ServeTx DEF KRxNothing, AfterRx
<1>9. CASE KRx
  BY <1>9, TxIdle, Cycles, ServeTx DEF KRx, AfterRx
<1>10. CASE KEcho
  BY <1>10, TxWrites DEF KEcho
<1>11. CASE KEchoAck
  <2>1. pic' = pic \ {"UARTTX"} /\ pc' \in {"rx", "audio", "enable"} /\ Hardware(TxAckWord)
    BY <1>11, ServeTx DEF KEchoAck, AfterRx
  <2>2. QED
    BY <2>1, TxAck
<1>12. CASE KTx \/ KIdleTx
  BY <1>12, TxWrites DEF KTx, KIdleTx, Send
<1>13. CASE KTxEmpty
  <2>1. pc = "tx" /\ pic' = pic /\ pc' \in {"audio", "enable"} /\ Hardware(NoCycle)
    BY <1>13, ServeTx DEF KTxEmpty, SendNothing, AfterTx
  <2>2. QED
    BY <2>1, TxIdle, Cycles
<1>14. CASE KTxAck
  <2>1. pic' = pic /\ pc' \in {"audio", "enable"} /\ Hardware(TxAckWord)
    BY <1>14, ServeTx DEF KTxAck, AfterTx
  <2>2. QED
    BY <2>1, TxAck
<1>15. CASE KAudio \/ KAudioEnds
  <2>1. pc = "audio" /\ pic' = pic /\ pc' = "audioack" /\ \E what : Hardware(WriteAudio(what))
    BY <1>15 DEF KAudio, KAudioEnds
  <2>2. QED
    BY <2>1, TxIdle, Cycles
<1>16. CASE KAudioAck
  BY <1>16, TxPic DEF KAudioAck, AudioAckWord
<1>17. CASE KEnable
  BY <1>17, TxPic DEF KEnable
<1>18. CASE KGie
  BY <1>18, TxPic DEF KGie
<1>19. CASE KNoStart
  BY <1>19, TxIdle, Cycles DEF KNoStart, IdleTx
<1>20. CASE KStart
  <2>1. pc = "start" /\ pic' = pic /\ pc' = "startack" /\ \E what : Hardware(WriteAudio(what))
    BY <1>20 DEF KStart
  <2>2. QED
    BY <2>1, TxIdle, Cycles
<1>21. CASE KStartAck
  BY <1>21, TxPic DEF KStartAck, AudioAckWord, IdleTx
<1>22. CASE KIdleTxEmpty
  BY <1>22, TxIdle, Cycles DEF KIdleTxEmpty, SendNothing
<1>23. CASE KIdleTxAck
  BY <1>23, TxAck DEF KIdleTxAck
<1>24. QED
  BY <1>1, <1>2, <1>3, <1>4, <1>5, <1>6, <1>7, <1>8, <1>9, <1>10, <1>11, <1>12, <1>13, <1>14,
     <1>15, <1>16, <1>17, <1>18, <1>19, <1>20, <1>21, <1>22, <1>23 DEF Next, Kernel

-----------------------------------------------------------------------------
(***************************************************************************)
(* The audio port.                                                         *)
(***************************************************************************)

\* A clock in which no sample is written: the one that waits is played, or not.
LEMMA AudioQuiet ==
    ASSUME AudioInv, NEW c, Hardware(c), c.to # "pwm",
           "AUDIO" \in intState' => "AUDIO" \in intState \cup Raised
    PROVE  /\ unplayed' \in {0, unplayed}
           /\ nextValid' => nextValid
           /\ unplayed' > 0 => nextValid'
           /\ "AUDIO" \in intState' \/ audioInt' => ~nextValid' \/ pc \in AudioAcks
<1>1. PICK ztimer \in BOOLEAN :
         /\ AudioClock(c.to = "pwm", ztimer)
         /\ unplayed' = (IF ztimer THEN 0 ELSE unplayed)
                + Count((c.to = "pwm" /\ (IF ztimer THEN 0 ELSE unplayed) > 0)
                        \/ (c.to = "pwm" /\ c.word = "sample"))
  BY DEF Hardware, Player
<1>2. ((c.to = "pwm" /\ (IF ztimer THEN 0 ELSE unplayed) > 0)
          \/ (c.to = "pwm" /\ c.word = "sample")) = FALSE
  OBVIOUS
<1>3. unplayed \in 0 .. 1
  BY DEF AudioInv
<1>4. unplayed' = (IF ztimer THEN 0 ELSE unplayed) + 0
  BY <1>1, <1>2, CountOne
<1>5. (nextValid' <=> nextValid /\ ~ztimer) /\ (audioInt' <=> ~nextValid)
  BY <1>1 DEF AudioClock
<1>6. "AUDIO" \in intState' \/ audioInt' => ~nextValid' \/ pc \in AudioAcks
  BY <1>5, RaisedLines DEF AudioInv
<1>7. CASE ztimer
  BY <1>3, <1>4, <1>5, <1>6, <1>7
<1>8. CASE ~ztimer
  BY <1>3, <1>4, <1>5, <1>6, <1>8 DEF AudioInv
<1> QED
  BY <1>7, <1>8

\* A sample, or silence, is written where no sample waits.
LEMMA AudioWritten ==
    ASSUME AudioInv, NEW what, Hardware(WriteAudio(what)), unplayed = 0
    PROVE  /\ nextValid' /\ unplayed' \in 0 .. 1
           /\ what # "sample" => unplayed' = 0
<1>1. PICK ztimer \in BOOLEAN :
         /\ AudioClock(WriteAudio(what).to = "pwm", ztimer)
         /\ unplayed' = (IF ztimer THEN 0 ELSE unplayed)
                + Count((WriteAudio(what).to = "pwm" /\ (IF ztimer THEN 0 ELSE unplayed) > 0)
                        \/ (WriteAudio(what).to = "pwm" /\ WriteAudio(what).word = "sample"))
  BY DEF Hardware, Player
<1>2. WriteAudio(what).to = "pwm" /\ WriteAudio(what).word = what
  BY DEF WriteAudio, Cycle
<1>3. (IF ztimer THEN 0 ELSE unplayed) = 0
  OBVIOUS
<1>4. ((WriteAudio(what).to = "pwm" /\ (IF ztimer THEN 0 ELSE unplayed) > 0)
          \/ (WriteAudio(what).to = "pwm" /\ WriteAudio(what).word = "sample"))
        = (what = "sample")
  BY <1>2, <1>3
<1>5. unplayed' = 0 + Count(what = "sample")
  BY <1>1, <1>3, <1>4
<1>6. nextValid'
  BY <1>1, <1>2 DEF AudioClock
<1>7. IF what = "sample" THEN Count(what = "sample") = 1 ELSE Count(what = "sample") = 0
  BY DEF Count
<1> QED
  BY <1>5, <1>6, <1>7

\* A clock that leaves the audio part of the kernel's state alone.
LEMMA AudioIdle ==
    ASSUME AudioInv, NEW c, Hardware(c), c.to \notin {"pic", "pwm"},
           "AUDIO" \in pic' => "AUDIO" \in pic, audiostate' = audiostate,
           pc \in AudioAcks => pc' = pc,
           pc' \in AudioUses => pc \in AudioUses \/ "AUDIO" \notin pic,
           pc' = "audio" => "AUDIO" \in pic' /\ audiostate
    PROVE  AudioInv'
<1>1. intState' = intState \cup Raised
  BY OtherClock
<1>2. /\ unplayed' \in {0, unplayed}
      /\ nextValid' => nextValid
      /\ unplayed' > 0 => nextValid'
      /\ "AUDIO" \in intState' \/ audioInt' => ~nextValid' \/ pc \in AudioAcks
  BY <1>1, AudioQuiet
<1>3. QED
  BY <1>2 DEF AudioInv

LEMMA AudioPic ==
    ASSUME AudioInv, NEW on \in BOOLEAN, NEW en, NEW clr, Hardware(PicCycle(on, en, clr)),
           "AUDIO" \in pic' => "AUDIO" \in pic, audiostate' = audiostate, pc \notin AudioAcks,
           pc' \in AudioUses => pc \in AudioUses \/ "AUDIO" \notin pic,
           pc' = "audio" => "AUDIO" \in pic' /\ audiostate
    PROVE  AudioInv'
<1>1. intState' = (intState \cup Raised) \ clr /\ PicCycle(on, en, clr).to # "pwm"
  BY PicClock DEF PicCycle, Cycle
<1>2. /\ unplayed' \in {0, unplayed}
      /\ nextValid' => nextValid
      /\ unplayed' > 0 => nextValid'
      /\ "AUDIO" \in intState' \/ audioInt' => ~nextValid' \/ pc \in AudioAcks
  BY <1>1, AudioQuiet
<1>3. QED
  BY <1>2 DEF AudioInv

\* A sample, or the silence after the last.
LEMMA AudioWrites ==
    ASSUME AudioInv, NEW what, Hardware(WriteAudio(what)), unplayed = 0,
           what # "sample" \/ audiostate', pc' \in AudioAcks
    PROVE  AudioInv'
<1>1. /\ nextValid' /\ unplayed' \in 0 .. 1
      /\ what # "sample" => unplayed' = 0
  BY AudioWritten
<1>2. QED
  BY <1>1 DEF AudioInv, AudioAcks, AudioUses

\* Once AUDIO is cleared the port holds no sample, or AUDIO is not pending:
\* what the port asked for a clock late was cleared with it.
LEMMA AudioAck ==
    ASSUME AudioInv, Hardware(AudioAckWord), audiostate' = audiostate,
           pc' \notin AudioUses
    PROVE  AudioInv'
<1>1. intState' = (intState \cup Raised) \ {"AUDIO"} /\ AudioAckWord.to # "pwm"
  BY PicClock DEF AudioAckWord, PicCycle, Cycle
<1>2. /\ unplayed' \in {0, unplayed}
      /\ nextValid' => nextValid
      /\ unplayed' > 0 => nextValid'
  BY <1>1, AudioQuiet
<1>3. audioInt' <=> ~nextValid
  BY PortClock
<1>4. "AUDIO" \notin intState' /\ (audioInt' => ~nextValid')
  BY <1>1, <1>2, <1>3
<1>5. unplayed' \in 0 .. 1 /\ (~audiostate' => unplayed' = 0)
  BY <1>2 DEF AudioInv
<1>6. pc' # "audio"
  BY DEF AudioUses
<1>7. QED
  BY <1>2, <1>4, <1>5, <1>6 DEF AudioInv

LEMMA AudioCycles ==
    /\ NoCycle.to \notin {"pic", "pwm"} /\ ReadUart.to \notin {"pic", "pwm"}
    /\ SetWatchdog.to \notin {"pic", "pwm"} /\ WriteUart.to \notin {"pic", "pwm"}
BY DEF NoCycle, ReadUart, SetWatchdog, WriteUart, Cycle

LEMMA AudioNext ==
    ASSUME AudioInv, Next
    PROVE  AudioInv'
<1> USE DEF Step, loopVars, AudioAcks, AudioUses
<1>1. CASE Task \/ Write \/ Play
  BY <1>1, AudioIdle, AudioCycles DEF Task, Write, Play, Run
<1>2. CASE Trap \/ Interrupt
  BY <1>2, AudioIdle, AudioCycles DEF Trap, Interrupt, Enter
<1>3. CASE KBusy
  BY <1>3, AudioIdle, AudioCycles DEF KBusy, AudioInv
<1>4. CASE KSetup
  BY <1>4, AudioPic DEF KSetup
<1>5. CASE KWatchdog
  BY <1>5, AudioIdle, AudioCycles DEF KWatchdog
<1>6. CASE KReadPic
  <2>1. intState' = intState \cup Raised
    BY <1>6, OtherClock, AudioCycles DEF KReadPic
  <2>2. /\ unplayed' \in {0, unplayed}
        /\ nextValid' => nextValid
        /\ unplayed' > 0 => nextValid'
        /\ "AUDIO" \in intState' \/ audioInt' => ~nextValid' \/ pc \in AudioAcks
    BY <1>6, <2>1, AudioQuiet, AudioCycles DEF KReadPic
  <2>3. pc = "pic" /\ pc' \in {"ack", "gie"} /\ pic' = intState /\ audiostate' = audiostate
    BY <1>6 DEF KReadPic
  <2>4. QED
    BY <2>2, <2>3 DEF AudioInv
<1>7. CASE KAck
  BY <1>7, AudioPic, ServeTx DEF KAck, AckWord
<1>8. CASE KRxNothing
  BY <1>8, AudioIdle, AudioCycles, ServeTx DEF KRxNothing, AfterRx
<1>9. CASE KRx
  BY <1>9, AudioIdle, AudioCycles, ServeTx DEF KRx, AfterRx
<1>10. CASE KEcho
  BY <1>10, AudioIdle, AudioCycles DEF KEcho
<1>11. CASE KEchoAck
  BY <1>11, AudioPic, ServeTx DEF KEchoAck, AfterRx, TxAckWord
<1>12. CASE KTx \/ KIdleTx
  BY <1>12, AudioIdle, AudioCycles DEF KTx, KIdleTx, Send
<1>13. CASE KTxEmpty
  BY <1>13, AudioIdle, AudioCycles, ServeTx DEF KTxEmpty, SendNothing, AfterTx
<1>14. CASE KTxAck
  BY <1>14, AudioPic, ServeTx DEF KTxAck, AfterTx, TxAckWord
<1>15. CASE KAudio
  <2>1. pc = "audio" /\ pc' = "audioack" /\ audiostate' = audiostate /\ Hardware(WriteAudio("sample"))
    BY <1>15 DEF KAudio
  <2>2. unplayed = 0
    BY <2>1 DEF AudioInv
  <2>3. QED
    BY <2>1, <2>2, AudioWrites DEF AudioInv
<1>16. CASE KAudioEnds
  <2>1. pc = "audio" /\ pc' = "audioack" /\ Hardware(WriteAudio("silence"))
    BY <1>16 DEF KAudioEnds
  <2>2. unplayed = 0
    BY <2>1 DEF AudioInv
  <2>3. QED
    BY <2>1, <2>2, AudioWrites
<1>17. CASE KAudioAck
  BY <1>17, AudioAck DEF KAudioAck
<1>18. CASE KEnable
  BY <1>18, AudioPic DEF KEnable
<1>19. CASE KGie
  BY <1>19, AudioPic DEF KGie
<1>20. CASE KNoStart
  BY <1>20, AudioIdle, AudioCycles DEF KNoStart, IdleTx
<1>21. CASE KStart
  <2>1. /\ pc' = "startack" /\ audiostate' = TRUE /\ ~audiostate
        /\ Hardware(WriteAudio("sample"))
    BY <1>21 DEF KStart, Starts
  <2>2. unplayed = 0
    BY <2>1 DEF AudioInv
  <2>3. QED
    BY <2>1, <2>2, AudioWrites
<1>22. CASE KStartAck
  BY <1>22, AudioAck DEF KStartAck, IdleTx
<1>23. CASE KIdleTxEmpty
  BY <1>23, AudioIdle, AudioCycles DEF KIdleTxEmpty, SendNothing
<1>24. CASE KIdleTxAck
  BY <1>24, AudioPic DEF KIdleTxAck, TxAckWord
<1>25. QED
  BY <1>1, <1>2, <1>3, <1>4, <1>5, <1>6, <1>7, <1>8, <1>9, <1>10, <1>11, <1>12, <1>13, <1>14,
     <1>15, <1>16, <1>17, <1>18, <1>19, <1>20, <1>21, <1>22, <1>23, <1>24 DEF Next, Kernel

-----------------------------------------------------------------------------
(***************************************************************************)
(* The receiver's port.                                                    *)
(***************************************************************************)

\* A byte that arrives is the next, and overwrites one that waits, unless that
\* one is read in this clock.
LEMMA RxClock ==
    ASSUME NEW c, Hardware(c), arrived \in Nat, rxRdy \in BOOLEAN
    PROVE  \/ /\ arrived' = arrived /\ rxData' = rxData /\ overrun' = overrun
              /\ rxRdy' = (rxRdy /\ c.to # "read")
           \/ /\ arrived' = arrived + 1 /\ rxData' = arrived + 1 /\ rxRdy' = TRUE
              /\ IF rxRdy /\ c.to # "read" THEN overrun' = overrun \cup {rxData}
                 ELSE overrun' = overrun
<1>1. PICK new \in {{}} \cup {{n} : n \in {arrived + 1} \cap 1 .. load.rx} :
        /\ RxPortClock(c.to = "read", new)
        /\ arrived' = arrived + Count(new # {})
        /\ overrun' = IF new # {} /\ rxRdy /\ c.to # "read" THEN overrun \cup {rxData}
                      ELSE overrun
  BY DEF Hardware, Receiver
<1>2. IF new # {} THEN Count(new # {}) = 1 ELSE Count(new # {}) = 0
  BY DEF Count
<1>3. CASE new = {}
  <2>1. rxRdy' = (rxRdy /\ c.to # "read") /\ rxData' = rxData
    BY <1>1, <1>3 DEF RxPortClock
  <2>2. overrun' = overrun
    BY <1>1, <1>3
  <2>3. arrived' = arrived
    BY <1>1, <1>2, <1>3
  <2>4. QED
    BY <2>1, <2>2, <2>3
<1>4. CASE new = {arrived + 1}
  <2>1. rxRdy' = TRUE /\ rxData' = arrived + 1
    BY <1>1, <1>4 DEF RxPortClock
  <2>2. IF rxRdy /\ c.to # "read" THEN overrun' = overrun \cup {rxData}
        ELSE overrun' = overrun
    BY <1>1, <1>4
  <2>3. arrived' = arrived + 1
    BY <1>1, <1>2, <1>4
  <2>4. QED
    BY <2>1, <2>2, <2>3
<1> QED
  BY <1>1, <1>3, <1>4

\* A clock in which no byte is pushed, and none that could be is read.
LEMMA RxIdle ==
    ASSUME RxInv, NEW c, Hardware(c), c.to # "read" \/ ~Readable, pushed' = pushed
    PROVE  RxInv'
<1>1. /\ arrived \in Nat /\ rxRdy \in BOOLEAN /\ pushed \in Seq(Int)
      /\ rxRdy => rxData \in 1 .. arrived
      /\ \A i \in 1 .. Len(pushed) : pushed[i] <= arrived /\ (rxRdy => pushed[i] < rxData)
  BY DEF RxInv
<1>2. /\ \A i, j \in 1 .. Len(pushed) : i < j => pushed[i] < pushed[j]
      /\ \A n \in Ascii \cap 1 .. arrived :
           \/ rxRdy /\ rxData = n
           \/ n \in overrun
           \/ \E i \in 1 .. Len(pushed) : pushed[i] = n
  BY DEF RxInv, PushedExactlyOnce
<1>3. \A i \in 1 .. Len(pushed) : pushed[i] \in Int
  BY <1>1
<1>4. CASE /\ arrived' = arrived /\ rxData' = rxData /\ overrun' = overrun
           /\ rxRdy' = (rxRdy /\ c.to # "read")
  <2>1. \A n \in Ascii \cap 1 .. arrived : rxRdy /\ rxData = n => rxRdy'
    BY <1>4 DEF Readable
  <2>2. QED
    BY <1>1, <1>2, <1>4, <2>1 DEF RxInv, PushedExactlyOnce
<1>5. CASE /\ arrived' = arrived + 1 /\ rxData' = arrived + 1 /\ rxRdy' = TRUE
           /\ IF rxRdy /\ c.to # "read" THEN overrun' = overrun \cup {rxData}
              ELSE overrun' = overrun
  <2>1. \A i \in 1 .. Len(pushed) : pushed[i] <= arrived' /\ pushed[i] < rxData'
    BY <1>1, <1>3, <1>5
  <2>2. ASSUME NEW n \in Ascii \cap 1 .. arrived'
        PROVE  \/ rxRdy' /\ rxData' = n
               \/ n \in overrun'
               \/ \E i \in 1 .. Len(pushed) : pushed[i] = n
    <3>1. CASE n = arrived + 1
      BY <1>5, <3>1
    <3>2. CASE n \in Ascii \cap 1 .. arrived
      <4>1. rxRdy /\ rxData = n => n \in overrun'
        BY <1>5, <3>2 DEF Readable
      <4>2. overrun \subseteq overrun'
        BY <1>5
      <4>3. QED
        BY <1>2, <3>2, <4>1, <4>2
    <3>3. QED
      BY <1>1, <1>5, <3>1, <3>2
  <2>3. QED
    BY <1>1, <1>2, <1>5, <2>1, <2>2 DEF RxInv, PushedExactlyOnce
<1> QED
  BY <1>1, <1>4, <1>5, RxClock

\* A byte is read and pushed: it is later than every byte pushed before.
LEMMA RxPush ==
    ASSUME RxInv, Hardware(ReadUart), Readable, pushed' = Append(pushed, rxData)
    PROVE  RxInv'
<1> DEFINE len == Len(pushed)
<1>1. /\ arrived \in Nat /\ rxRdy \in BOOLEAN /\ pushed \in Seq(Int) /\ len \in Nat
      /\ rxRdy /\ rxData \in 1 .. arrived
      /\ \A i \in 1 .. len : pushed[i] \in Int /\ pushed[i] <= arrived /\ pushed[i] < rxData
  BY DEF RxInv, Readable
<1>2. /\ \A i, j \in 1 .. len : i < j => pushed[i] < pushed[j]
      /\ \A n \in Ascii \cap 1 .. arrived :
           rxData = n \/ n \in overrun \/ \E i \in 1 .. len : pushed[i] = n
  BY DEF RxInv, PushedExactlyOnce
<1>3. /\ pushed' \in Seq(Int) /\ Len(pushed') = len + 1
      /\ \A i \in 1 .. len : pushed'[i] = pushed[i]
      /\ pushed'[len + 1] = rxData
  BY <1>1
<1> HIDE DEF len
<1>4. ReadUart.to = "read"
  BY DEF ReadUart, Cycle
<1>5. /\ \A i \in 1 .. len + 1 : pushed'[i] \in Int /\ pushed'[i] <= arrived
      /\ \A i, j \in 1 .. len + 1 : i < j => pushed'[i] < pushed'[j]
  BY <1>1, <1>2, <1>3
<1>6. \A n \in Ascii \cap 1 .. arrived : n \in overrun \/ \E i \in 1 .. len + 1 : pushed'[i] = n
  BY <1>1, <1>2, <1>3
<1>7. CASE arrived' = arrived /\ overrun' = overrun /\ rxRdy' = FALSE
  BY <1>1, <1>3, <1>5, <1>6, <1>7 DEF RxInv, PushedExactlyOnce
<1>8. CASE /\ arrived' = arrived + 1 /\ rxData' = arrived + 1 /\ rxRdy' = TRUE
           /\ overrun' = overrun
  <2> arrived \in Nat
    BY <1>1
  <2>1. \A n \in Ascii \cap 1 .. arrived' :
          rxData' = n \/ n \in overrun' \/ \E i \in 1 .. len + 1 : pushed'[i] = n
    <3>1. \A n \in Ascii \cap 1 .. arrived' : n = arrived + 1 \/ n \in 1 .. arrived
      BY <1>8
    <3>2. QED
      BY <1>6, <1>8, <3>1
  <2>2. ASSUME NEW i \in 1 .. len + 1
        PROVE  pushed'[i] <= arrived' /\ pushed'[i] < rxData'
    <3> DEFINE p == pushed'[i]
    <3>1. p \in Int /\ p <= arrived
      BY <1>5
    <3> HIDE DEF p
    <3>2. p <= arrived' /\ p < rxData'
      BY <1>8, <3>1
    <3>3. QED
      BY <3>2 DEF p
  <2>3. QED
    BY <1>1, <1>3, <1>5, <1>8, <2>1, <2>2 DEF RxInv, PushedExactlyOnce
<1> QED
  BY <1>1, <1>4, <1>7, <1>8, RxClock

LEMMA RxNext ==
    ASSUME RxInv, Next
    PROVE  RxInv'
<1>1. CASE KRx
  BY <1>1, RxPush DEF KRx, Step
<1>2. CASE KRxNothing
  BY <1>2, RxIdle DEF KRxNothing, Step
<1>3. ASSUME pushed' = pushed, NEW c, c.to # "read", Hardware(c)
      PROVE  RxInv'
  BY <1>3, RxIdle
<1>4. /\ NoCycle.to # "read" /\ WriteUart.to # "read" /\ SetWatchdog.to # "read"
      /\ \A what : WriteAudio(what).to # "read"
      /\ \A on, en, clr : PicCycle(on, en, clr).to # "read"
  BY DEF NoCycle, WriteUart, SetWatchdog, WriteAudio, PicCycle, Cycle
<1>5. CASE Task \/ Write \/ Play \/ Trap \/ Interrupt
  BY <1>3, <1>4, <1>5 DEF Task, Write, Play, Run, Trap, Interrupt, Enter
<1>6. CASE KBusy \/ KSetup \/ KWatchdog \/ KReadPic \/ KAck
  BY <1>3, <1>4, <1>6 DEF KBusy, KSetup, KWatchdog, KReadPic, KAck, AckWord, Step
<1>7. CASE KEcho \/ KEchoAck \/ KTx \/ KTxEmpty \/ KTxAck
  BY <1>3, <1>4, <1>7 DEF KEcho, KEchoAck, KTx, KTxEmpty, KTxAck, Send, SendNothing, TxAckWord, Step
<1>8. CASE KAudio \/ KAudioEnds \/ KAudioAck \/ KEnable
  BY <1>3, <1>4, <1>8 DEF KAudio, KAudioEnds, KAudioAck, AudioAckWord, KEnable, Step
<1>9. CASE KGie \/ KNoStart \/ KStart \/ KStartAck
  BY <1>3, <1>4, <1>9 DEF KGie, KNoStart, KStart, KStartAck, AudioAckWord, Step
<1>10. CASE KIdleTx \/ KIdleTxEmpty \/ KIdleTxAck
  BY <1>3, <1>4, <1>10 DEF KIdleTx, KIdleTxEmpty, KIdleTxAck, Send, SendNothing, TxAckWord, Step
<1>11. QED
  BY <1>1, <1>2, <1>5, <1>6, <1>7, <1>8, <1>9, <1>10 DEF Next, Kernel

-----------------------------------------------------------------------------
(***************************************************************************)
(* Time.                                                                   *)
(***************************************************************************)

LEMMA LoadRange ==
    ASSUME load \in Loads
    PROVE  /\ load.slack \in Nat /\ load.watchdog \in {0, 2 * Period}
           /\ Period \in Nat /\ Period > 13 /\ 13 + 2 * load.slack <= Period
BY IntPathAssumption

\* The timer ticks once in Period + 1 clocks.
LEMMA TimerTicks ==
    ASSUME TimerInv, NEW c, Hardware(c), Period \in Nat, Period > 13
    PROVE  /\ TimerInv'
           /\ IF tInt THEN tValue' = Period /\ ~tInt'
              ELSE tValue' = tValue - 1 /\ (tInt' <=> tValue = 1)
<1>1. /\ tRunning = TRUE /\ tAuto = TRUE /\ tReload = Period
      /\ tValue \in 0 .. Period /\ tInt \in BOOLEAN /\ (tInt <=> tValue = 0)
  BY DEF TimerInv
<1>2. /\ tInt' <=> tRunning /\ tValue = 1
      /\ tRunning' = (tRunning /\ (tInt => tAuto))
      /\ tAuto' = tAuto /\ tReload' = tReload
  BY DEF Hardware, Timer!TimerClock, Timer!TimerCount
<1>3. tValue' = CASE tRunning /\ ~tInt         -> (tValue - 1) % (4 * Period)
                  [] tRunning /\ tInt /\ tAuto -> tReload
                  [] OTHER                     -> tValue
  BY DEF Hardware, Timer!TimerClock, Timer!TimerCount
<1>4. tRunning' /\ tAuto' /\ tReload' = Period /\ tInt' \in BOOLEAN
  <2>1. tInt' \in BOOLEAN
    BY DEF Hardware, Timer!TimerClock
  <2>2. QED
    BY <1>1, <1>2, <2>1
<1>5. IF tInt THEN tValue' = Period ELSE tValue' = tValue - 1
  <2>1. CASE tInt
    BY <1>1, <1>3, <2>1
  <2>2. CASE ~tInt
    <3>1. tValue' = (tValue - 1) % (4 * Period)
      BY <1>1, <1>3, <2>2
    <3>2. tValue \in 1 .. Period
      BY <1>1, <2>2
    <3>3. (tValue - 1) % (4 * Period) = tValue - 1
      BY <3>2
    <3>4. QED
      BY <2>2, <3>1, <3>3
  <2>3. QED
    BY <2>1, <2>2
<1>6. IF tInt THEN tValue' = Period /\ ~tInt' ELSE tValue' = tValue - 1 /\ (tInt' <=> tValue = 1)
  BY <1>1, <1>2, <1>5
<1>7. tValue' \in 0 .. Period /\ (tInt' <=> tValue' = 0)
  BY <1>1, <1>6
<1> QED
  BY <1>4, <1>6, <1>7 DEF TimerInv

\* The watchdog, unless it is set.
LEMMA WatchdogTicks ==
    ASSUME WatchdogInv, NEW c, Hardware(c), c.to # "watchdog", Period \in Nat, Period > 13
    PROVE  /\ ~wAuto' /\ wRunning' = wRunning
           /\ wInt' <=> wRunning /\ wValue = 1
           /\ IF wRunning /\ wValue > 0 THEN wValue' = wValue - 1 ELSE wRunning \/ wValue' = wValue
<1>1. ~wInt /\ ~wAuto /\ wRunning \in BOOLEAN /\ wValue \in 0 .. 2 * Period
  BY DEF WatchdogInv
<1>2. WordsFor("watchdog", c) = {}
  BY DEF WordsFor
<1>3. /\ wInt' = (wRunning /\ wValue = 1)
      /\ wRunning' = (wRunning /\ (wInt => wAuto))
      /\ wValue' = CASE wRunning /\ ~wInt         -> (wValue - 1) % (4 * Period)
                     [] wRunning /\ wInt /\ wAuto -> wReload
                     [] OTHER                     -> wValue
      /\ wAuto' = wAuto
  BY <1>2 DEF Hardware, Watchdog!TimerClock, Watchdog!TimerCount
<1>4. CASE wRunning
  <2>1. wValue' = (wValue - 1) % (4 * Period)
    BY <1>1, <1>3, <1>4
  <2>2. wValue > 0 => (wValue - 1) % (4 * Period) = wValue - 1
    BY <1>1
  <2>3. QED
    BY <1>1, <1>3, <1>4, <2>1, <2>2
<1>5. CASE ~wRunning
  <2>1. wValue' = wValue
    BY <1>1, <1>3, <1>5
  <2>2. QED
    BY <1>1, <1>3, <1>5, <2>1
<1> QED
  BY <1>1, <1>4, <1>5

\* Setting it.
LEMMA WatchdogSet ==
    ASSUME WatchdogInv, Hardware(SetWatchdog)
    PROVE  /\ ~wAuto' /\ wRunning' = (load.watchdog # 0) /\ wValue' = load.watchdog
           /\ wInt' <=> wRunning /\ wValue = 1
<1>1. WordsFor("watchdog", SetWatchdog) = {Watchdog!Writes(load.watchdog, FALSE)}
  BY DEF WordsFor, SetWatchdog, Cycle
<1>2. /\ wInt' = (wRunning /\ wValue = 1)
      /\ \E w \in {Watchdog!Writes(load.watchdog, FALSE)} : Watchdog!TimerWrite(w)
  BY <1>1 DEF Hardware, Watchdog!TimerClock
<1>3. Watchdog!TimerWrite(Watchdog!Writes(load.watchdog, FALSE))
  BY <1>2
<1>4. ~wAuto' /\ wRunning' = (load.watchdog # 0) /\ wValue' = load.watchdog
  BY <1>3 DEF Watchdog!TimerWrite, Watchdog!Writes
<1>5. QED
  BY <1>2, <1>4

\* What the controller says a clock later.
LEMMA Controller ==
    ASSUME NEW c, Hardware(c)
    PROVE  /\ any' = (intState \cap intEnable # {}) /\ interrupt' = (gie /\ any)
           /\ load' = load
BY DEF Hardware, IControlClock

\* The bookkeeping of a pass, in a clock that leaves the controller alone.
LEMMA PassOther ==
    ASSUME PassInv, TimerInv, Next, NEW c, Hardware(c), c.to # "pic",
           pc' \in Pcs, slack' \in 0 .. load.slack, "TIMER" \in enableset',
           pc' = "ack" => (pc = "ack" /\ pic' = pic) \/ pic' = intState,
           pc' \in {"watchdog", "user"} => pc \in {"watchdog", "user"},
           pc' = "pic" => pc \in {"user", "pic"},
           pc' = "setup" => pc = "setup" /\ slack' < slack
    PROVE  PassInv'
<1>1. intState' = intState \cup Raised /\ intEnable' = intEnable /\ gie' = gie
  BY OtherClock
<1>2. any' = (intState \cap intEnable # {}) /\ interrupt' = (gie /\ any) /\ load' = load
  BY Controller
<1>3. load' \in Loads /\ slack' \in 0 .. load'.slack /\ {any', interrupt', gie'} \subseteq BOOLEAN
  BY <1>1, <1>2 DEF PassInv
<1>4. pc' = "ack" => pic' \subseteq intState'
  BY <1>1 DEF PassInv
<1>5. pc' \in {"watchdog", "user", "pic"} => "TIMER" \in intEnable'
  BY <1>1 DEF PassInv
<1>6. /\ pc' \in {"watchdog", "user"} => gie' /\ (any' => intState' \cap intEnable' # {})
      /\ pc' = "user" /\ interrupt' => any'
  BY <1>1, <1>2 DEF PassInv
<1>7. ASSUME pc' = "setup"
      PROVE  intEnable' = {} /\ ~any' /\ tValue' > slack' /\ ~Uncounted'
  <2>1. /\ intEnable = {} /\ ~any /\ tValue > slack /\ ~tInt /\ "TIMER" \notin intState
        /\ slack' < slack /\ slack \in 0 .. load.slack /\ load \in Loads
    BY <1>7 DEF PassInv, Uncounted
  <2>2. /\ load.slack \in Nat /\ slack \in Nat /\ slack' \in Nat
        /\ Period \in Nat /\ Period > 13
    BY <2>1, LoadRange
  <2>3. tValue' = tValue - 1 /\ (tInt' <=> tValue = 1) /\ tValue \in 0 .. Period
    BY <2>1, <2>2, TimerTicks DEF TimerInv
  <2>4. tValue' > slack' /\ ~tInt'
    BY <2>1, <2>2, <2>3
  <2>5. "TIMER" \notin intState' /\ ~any' /\ intEnable' = {}
    BY <1>1, <1>2, <2>1, RaisedLines
  <2>6. QED
    BY <2>4, <2>5 DEF Uncounted
<1>8. QED
  BY <1>3, <1>4, <1>5, <1>6, <1>7 DEF PassInv

\* The bookkeeping, in a clock that writes the controller.
LEMMA PassPic ==
    ASSUME PassInv, NEW on \in BOOLEAN, NEW en, NEW clr, Hardware(PicCycle(on, en, clr)),
           pc' \in Pcs \ {"setup", "user", "pic", "ack"},
           slack' = slack, enableset' = enableset,
           pc' = "watchdog" =>
               on /\ en = enableset /\ (clr = {} \/ intEnable = {})
    PROVE  PassInv'
<1>1. /\ intState' = (intState \cup Raised) \ clr /\ gie' = on
      /\ on => intEnable' = intEnable \cup en
  BY PicClock
<1>2. any' = (intState \cap intEnable # {}) /\ interrupt' = (gie /\ any) /\ load' = load
  BY Controller
<1>3. QED
  BY <1>1, <1>2 DEF PassInv

LEMMA PassCycles ==
    /\ NoCycle.to = "none" /\ ReadUart.to = "read"
    /\ SetWatchdog.to = "watchdog" /\ WriteUart.to = "uart"
    /\ \A what : WriteAudio(what).to = "pwm"
BY DEF NoCycle, ReadUart, SetWatchdog, WriteUart, WriteAudio, Cycle

LEMMA PassNext ==
    ASSUME PassInv, TimerInv, Next
    PROVE  PassInv'
<1> USE DEF Step, loopVars, Pcs
<1> /\ pc \in Pcs /\ slack \in 0 .. load.slack /\ "TIMER" \in enableset /\ load \in Loads
    /\ load.slack \in Nat
  BY LoadRange DEF PassInv
<1>1. CASE Task \/ Write \/ Play
  <2>1. /\ pc = "user" /\ pc' = pc /\ enableset' = enableset
        /\ interrupt => slack > 0
        /\ slack' = slack - Count(interrupt)
        /\ Hardware(NoCycle)
    BY <1>1 DEF Task, Write, Play, Run
  <2>2. slack' \in 0 .. load.slack
    BY <2>1 DEF Count
  <2>3. QED
    BY <2>1, <2>2, PassOther, PassCycles
<1>2. CASE Trap \/ Interrupt
  BY <1>2, PassOther, PassCycles DEF Trap, Interrupt, Enter
<1>3. CASE KBusy
  <2>1. /\ pc # "user" /\ pc' = pc /\ enableset' = enableset /\ pic' = pic
        /\ slack > 0 /\ slack' = slack - 1
        /\ Hardware(NoCycle)
    BY <1>3 DEF KBusy
  <2>2. slack' \in 0 .. load.slack /\ slack' < slack
    BY <2>1
  <2>3. QED
    BY <2>1, <2>2, PassOther, PassCycles
<1>4. CASE KSetup
  <2>1. /\ intEnable = {} /\ pc' = "watchdog" /\ slack' = slack /\ enableset' = enableset
        /\ Hardware(PicCycle(TRUE, enableset, Lines))
    BY <1>4 DEF KSetup, PassInv
  <2>2. QED
    BY <2>1, PassPic
<1>5. CASE KWatchdog
  BY <1>5, PassOther, PassCycles DEF KWatchdog
<1>6. CASE KReadPic
  BY <1>6, PassOther, PassCycles DEF KReadPic
<1>7. CASE KAck
  BY <1>7, PassPic, ServeTx DEF KAck, AckWord
<1>8. CASE KRxNothing
  BY <1>8, PassOther, PassCycles, ServeTx DEF KRxNothing
<1>9. CASE KRx
  BY <1>9, PassOther, PassCycles, ServeTx DEF KRx
<1>10. CASE KEcho
  BY <1>10, PassOther, PassCycles DEF KEcho
<1>11. CASE KEchoAck
  <2>1. /\ pc' \in {"rx", "tx", "audio", "enable"} /\ slack' = slack /\ enableset' = enableset
        /\ Hardware(TxAckWord)
    BY <1>11, ServeTx DEF KEchoAck
  <2>2. QED
    BY <2>1, PassPic DEF TxAckWord
<1>12. CASE KTx \/ KIdleTx
  BY <1>12, PassOther, PassCycles DEF KTx, KIdleTx, Send
<1>13. CASE KTxEmpty \/ KIdleTxEmpty
  BY <1>13, PassOther, PassCycles, ServeTx DEF KTxEmpty, KIdleTxEmpty, SendNothing
<1>14. CASE KTxAck \/ KIdleTxAck
  BY <1>14, PassPic, ServeTx DEF KTxAck, KIdleTxAck, TxAckWord
<1>15. CASE KAudio
  BY <1>15, PassOther, PassCycles DEF KAudio
<1>16. CASE KAudioEnds
  BY <1>16, PassOther, PassCycles DEF KAudioEnds
<1>17. CASE KAudioAck
  BY <1>17, PassPic DEF KAudioAck, AudioAckWord
<1>18. CASE KEnable
  BY <1>18, PassPic DEF KEnable
<1>19. CASE KGie
  BY <1>19, PassPic DEF KGie
<1>20. CASE KNoStart
  BY <1>20, PassOther, PassCycles DEF KNoStart, IdleTx
<1>21. CASE KStart
  BY <1>21, PassOther, PassCycles DEF KStart
<1>22. CASE KStartAck
  BY <1>22, PassPic DEF KStartAck, AudioAckWord, IdleTx
<1>23. QED
  BY <1>1, <1>2, <1>3, <1>4, <1>5, <1>6, <1>7, <1>8, <1>9, <1>10, <1>11, <1>12, <1>13, <1>14,
     <1>15, <1>16, <1>17, <1>18, <1>19, <1>20, <1>21, <1>22 DEF Next, Kernel

\* The watchdog expires no sooner than it is set again.
LEMMA WatchdogKept ==
    ASSUME WatchdogInv, NEW c, Hardware(c), c.to # "watchdog",
           Period \in Nat, Period > 13,
           UntilSet \in Nat, UntilSet' \in Nat, UntilSet' < UntilSet
    PROVE  WatchdogInv'
<1>1. /\ ~wAuto' /\ wRunning' = wRunning
      /\ wInt' <=> wRunning /\ wValue = 1
      /\ IF wRunning /\ wValue > 0 THEN wValue' = wValue - 1 ELSE wRunning \/ wValue' = wValue
  BY WatchdogTicks
<1>2. /\ wRunning \in BOOLEAN /\ wValue \in 0 .. 2 * Period
      /\ wRunning => wValue > UntilSet
  BY DEF WatchdogInv
<1>3. CASE wRunning
  <2>1. wValue > 1 /\ wValue' = wValue - 1
    BY <1>1, <1>2, <1>3
  <2>2. ~wInt' /\ wValue' \in 0 .. 2 * Period /\ wValue' > UntilSet'
    BY <1>1, <1>2, <1>3, <2>1
  <2>3. QED
    BY <1>1, <1>2, <2>2 DEF WatchdogInv
<1>4. CASE ~wRunning
  BY <1>1, <1>2, <1>4 DEF WatchdogInv
<1> QED
  BY <1>2, <1>3, <1>4

\* A clock in which no tick is counted: one that came before is nearer to it.
LEMMA CountKept ==
    ASSUME CountInv, TimerInv, NEW c, Hardware(c), Period \in Nat, Period > 13,
           ~(pc = "ack" /\ c.to = "pic" /\ "TIMER" \in pic),
           "TIMER" \in intState' <=> "TIMER" \in intState \/ tInt,
           UntilCounted \in Nat, UntilCounted' \in Nat \ {0},
           Uncounted => UntilCounted' < UntilCounted,
           ~Uncounted => UntilCounted' <= Period + 1
    PROVE  CountInv'
<1> DEFINE ticks == Count(tInt')
           counts == Count(pc = "ack" /\ c.to = "pic" /\ "TIMER" \in pic)
<1>1. IF tInt THEN tValue' = Period /\ ~tInt' ELSE tValue' = tValue - 1 /\ (tInt' <=> tValue = 1)
  BY TimerTicks
<1>2. tValue \in 0 .. Period /\ (tInt <=> tValue = 0)
  BY DEF TimerInv
<1>3. /\ IF Uncounted THEN uncounted = 1 ELSE uncounted = 0
      /\ Uncounted => UntilCounted <= UntilTick
  BY DEF CountInv
<1>4. /\ uncounted' = uncounted + ticks - counts
      /\ counts = 0 /\ (IF tInt' THEN ticks = 1 ELSE ticks = 0)
  BY DEF Hardware, Count
<1> HIDE DEF ticks, counts
<1>5. CASE Uncounted
  <2>1. UntilCounted > 1 /\ UntilCounted <= UntilTick /\ UntilCounted' <= UntilCounted - 1
    BY <1>3, <1>5
  <2>2. ~tInt' /\ "TIMER" \in intState' /\ Uncounted'
    BY <1>1, <1>2, <1>5, <2>1 DEF Uncounted, UntilTick
  <2>3. uncounted' = 1
    BY <1>3, <1>4, <1>5, <2>2
  <2>4. UntilTick' = tValue' /\ UntilTick = tValue' + 1
    BY <1>1, <1>2, <2>2 DEF UntilTick
  <2>5. UntilCounted' <= UntilTick'
    BY <1>1, <1>2, <2>1, <2>4
  <2>6. QED
    BY <2>2, <2>3, <2>5 DEF CountInv
<1>6. CASE ~Uncounted
  <2>1. "TIMER" \notin intState' /\ (Uncounted' <=> tInt')
    BY <1>6 DEF Uncounted
  <2>2. IF tInt' THEN uncounted' = 1 ELSE uncounted' = 0
    BY <1>3, <1>4, <1>6
  <2>3. tInt' => UntilTick' = Period + 1
    BY DEF UntilTick
  <2>4. Uncounted' => UntilCounted' <= UntilTick'
    BY <1>6, <2>1, <2>3
  <2>5. QED
    BY <2>1, <2>2, <2>4 DEF CountInv
<1> QED
  BY <1>5, <1>6

LEMMA Potentials ==
    ASSUME PassInv, TimerInv
    PROVE  /\ Rest \in 0 .. 9 /\ UntilEntered \in 1 .. Period + 4
           /\ load.slack \in Nat /\ slack \in 0 .. load.slack
           /\ Period \in Nat /\ Period > 13 /\ 13 + 2 * load.slack <= Period
           /\ UntilSet \in Nat /\ UntilCounted \in Nat \ {0}
<1>1. /\ load \in Loads /\ pc \in Pcs /\ slack \in 0 .. load.slack /\ tValue \in 0 .. Period
  BY DEF PassInv, TimerInv
<1>2. /\ load.slack \in Nat /\ Period \in Nat /\ Period > 13 /\ 13 + 2 * load.slack <= Period
  BY <1>1, LoadRange
<1>3. Rest \in 0 .. 9
  BY DEF Rest
<1>4. UntilEntered \in 1 .. Period + 4
  BY <1>1, <1>2 DEF UntilEntered
<1>5. UntilSet \in Nat
  BY <1>1, <1>2, <1>3, <1>4 DEF UntilSet
<1>6. UntilCounted \in Nat \ {0}
  BY <1>1, <1>2, <1>3, <1>4 DEF UntilCounted
<1> QED
  BY <1>1, <1>2, <1>3, <1>4, <1>5, <1>6

\* The same of the next state, and what they are there.
LEMMA NextEntered ==
    /\ interrupt' => UntilEntered' = 1
    /\ ~interrupt' /\ any' => UntilEntered' = 2
    /\ ~interrupt' /\ ~any' /\ "TIMER" \in intState' => UntilEntered' = 3
    /\ ~interrupt' /\ ~any' /\ "TIMER" \notin intState' => UntilEntered' = tValue' + 4
BY DEF UntilEntered

LEMMA NextSet ==
    /\ pc' = "user" => UntilSet' = slack' + (UntilEntered' + 9)
    /\ pc' # "user" => UntilSet' = slack' + Rest'
BY DEF UntilSet

LEMMA NextCounted ==
    /\ pc' = "ack" /\ "TIMER" \in pic' => UntilCounted' = slack' + 1
    /\ pc' = "pic" /\ "TIMER" \in intState' =>
          /\ any' => UntilCounted' = slack' + 2
          /\ ~any' => UntilCounted' = slack' + load'.slack + 13
    /\ pc' = "user" =>
          /\ "TIMER" \in intState' => UntilCounted' = slack' + UntilEntered' + 2
          /\ "TIMER" \notin intState' => UntilCounted' = slack' + load'.slack + 14
    /\ \/ pc' \notin {"ack", "pic", "user"}
       \/ pc' = "ack" /\ "TIMER" \notin pic'
       \/ pc' = "pic" /\ "TIMER" \notin intState'
       => UntilCounted' = slack' + load'.slack + Rest' + 5
BY DEF UntilCounted

LEMMA PotentialsNext ==
    ASSUME PassInv', TimerInv'
    PROVE  /\ Rest' \in 0 .. 9 /\ UntilEntered' \in 1 .. Period + 4
           /\ load'.slack \in Nat /\ slack' \in 0 .. load'.slack
           /\ UntilSet' \in Nat /\ UntilCounted' \in Nat \ {0}
<1>1. /\ load' \in Loads /\ pc' \in Pcs /\ slack' \in 0 .. load'.slack /\ tValue' \in 0 .. Period
  BY DEF PassInv, TimerInv
<1>2. load'.slack \in Nat /\ Period \in Nat
  BY <1>1, IntPathAssumption
<1>3. Rest' \in 0 .. 9
  BY DEF Rest
<1>4. UntilEntered' \in 1 .. Period + 4
  BY <1>1, <1>2, NextEntered
<1>5. UntilSet' \in Nat
  BY <1>1, <1>2, <1>3, <1>4, NextSet
<1>6. UntilCounted' \in Nat \ {0}
  BY <1>1, <1>2, <1>3, <1>4, NextCounted
<1> QED
  BY <1>1, <1>2, <1>3, <1>4, <1>5, <1>6

\* What every step below starts from.
Before == PassInv /\ TimerInv /\ CountInv /\ WatchdogInv
After == PassInv' /\ TimerInv'

\* The kernel's next bus cycle, in a pass that counts no tick.
LEMMA OrdinaryStep ==
    ASSUME Before, After, NEW c, Hardware(c), c.to # "watchdog", slack' = slack,
           pc \notin {"user", "pic", "watchdog"}, pc' \notin {"user", "pic", "ack"},
           ~(pc = "ack" /\ "TIMER" \in pic), Rest' < Rest,
           "TIMER" \in intState' <=> "TIMER" \in intState \/ tInt
    PROVE  CountInv' /\ WatchdogInv'
<1>1. /\ Rest \in 0 .. 9 /\ load.slack \in Nat /\ slack \in 0 .. load.slack
      /\ Period \in Nat /\ Period > 13 /\ 13 + 2 * load.slack <= Period
      /\ UntilSet \in Nat /\ UntilCounted \in Nat
  BY Potentials DEF Before
<1>2. Rest' \in 0 .. 9 /\ UntilSet' \in Nat /\ UntilCounted' \in Nat \ {0}
  BY PotentialsNext DEF After
<1>3. load' = load
  BY Controller
<1>4. UntilSet = slack + Rest /\ UntilSet' = slack + Rest'
  BY NextSet DEF UntilSet
<1>5. UntilSet' < UntilSet
  <2> DEFINE rest == Rest'
  <2>1. rest \in 0 .. 9 /\ rest < Rest /\ UntilSet' = slack + rest
    BY <1>2, <1>4
  <2> HIDE DEF rest
  <2>2. slack + rest < slack + Rest
    BY <1>1, <2>1
  <2>3. QED
    BY <1>4, <2>1, <2>2
<1>6. UntilCounted = slack + load.slack + Rest + 5 /\ UntilCounted' = slack + load.slack + Rest' + 5
  BY <1>3, NextCounted DEF UntilCounted
<1>7. UntilCounted' < UntilCounted /\ UntilCounted' <= Period + 1
  BY <1>1, <1>2, <1>6
<1>8. CountInv'
  BY <1>1, <1>2, <1>7, CountKept DEF Before
<1>9. WatchdogInv'
  BY <1>1, <1>2, <1>5, WatchdogKept DEF Before
<1> QED
  BY <1>8, <1>9

\* Both inputs that matter, in a clock without a write to the controller.
LEMMA TickStays ==
    ASSUME NEW c, Hardware(c), c.to # "pic"
    PROVE  "TIMER" \in intState' <=> "TIMER" \in intState \/ tInt
BY OtherClock, RaisedLines

LEMMA TickKept ==
    ASSUME NEW on \in BOOLEAN, NEW en, NEW clr, Hardware(PicCycle(on, en, clr)), "TIMER" \notin clr
    PROVE  "TIMER" \in intState' <=> "TIMER" \in intState \/ tInt
BY PicClock, RaisedLines

\* A task runs: the interrupt comes nearer, or is there.
LEMMA RunStep ==
    ASSUME Before, After, Run
    PROVE  CountInv' /\ WatchdogInv'
<1>1. /\ pc = "user" /\ pc' = "user" /\ Hardware(NoCycle)
      /\ interrupt => slack > 0
      /\ slack' = slack - Count(interrupt)
  BY DEF Run
<1>2. /\ UntilEntered \in 1 .. Period + 4 /\ load.slack \in Nat /\ slack \in 0 .. load.slack
      /\ Period \in Nat /\ Period > 13 /\ 13 + 2 * load.slack <= Period
      /\ UntilSet \in Nat /\ UntilCounted \in Nat
  BY Potentials DEF Before
<1>3. /\ UntilEntered' \in 1 .. Period + 4 /\ UntilSet' \in Nat /\ UntilCounted' \in Nat \ {0}
      /\ slack' \in Nat
  BY PotentialsNext DEF After
<1>4. /\ any' = (intState \cap intEnable # {}) /\ interrupt' = (gie /\ any) /\ load' = load
  BY <1>1, Controller
<1>5. "TIMER" \in intState' <=> "TIMER" \in intState \/ tInt
  BY <1>1, TickStays, PassCycles
<1>6. /\ gie /\ (any => any') /\ (interrupt => any) /\ "TIMER" \in intEnable
      /\ any \in BOOLEAN /\ interrupt \in BOOLEAN
  BY <1>1, <1>4 DEF Before, PassInv
<1>7. IF tInt THEN tValue' = Period /\ ~tInt' ELSE tValue' = tValue - 1 /\ (tInt' <=> tValue = 1)
  BY <1>1, <1>2, TimerTicks DEF Before
<1>8. tValue \in 0 .. Period /\ (tInt <=> tValue = 0)
  BY DEF Before, TimerInv
<1>9. IF interrupt THEN slack' = slack - 1 /\ UntilEntered' = UntilEntered
      ELSE slack' = slack /\ UntilEntered' < UntilEntered
  <2>1. CASE interrupt
    <3>1. slack' = slack - 1
      BY <1>1, <2>1 DEF Count
    <3>2. UntilEntered' = 1
      BY <1>4, <1>6, <2>1, NextEntered
    <3>3. QED
      BY <2>1, <3>1, <3>2 DEF UntilEntered
  <2>2. CASE ~interrupt
    <3>1. slack' = slack
      BY <1>1, <1>2, <2>2 DEF Count
    <3>2. CASE any
      <4>1. UntilEntered' = 1
        BY <1>4, <1>6, <3>2, NextEntered
      <4>2. QED
        BY <2>2, <3>1, <3>2, <4>1 DEF UntilEntered
    <3>3. CASE ~any /\ "TIMER" \in intState
      <4>1. any' /\ ~interrupt'
        BY <1>4, <1>6, <3>3
      <4>2. UntilEntered' = 2
        BY <4>1, NextEntered
      <4>3. QED
        BY <2>2, <3>1, <3>3, <4>2 DEF UntilEntered
    <3>4. CASE ~any /\ "TIMER" \notin intState
      <4>1. UntilEntered = tValue + 4
        BY <2>2, <3>4 DEF UntilEntered
      <4>2. UntilEntered' \in {1, 2, 3, tValue' + 4}
        BY NextEntered
      <4>3. tInt => UntilEntered' \in {1, 2, 3}
        BY <1>5, NextEntered
      <4>4. UntilEntered' < UntilEntered
        BY <1>2, <1>7, <1>8, <4>1, <4>2, <4>3
      <4>5. QED
        BY <2>2, <3>1, <4>4
    <3>5. QED
      BY <3>2, <3>3, <3>4
  <2>3. QED
    BY <2>1, <2>2
<1> DEFINE left == slack'
           entered == UntilEntered'
<1>10. /\ left \in Nat /\ entered \in Nat /\ left + entered < slack + UntilEntered
       /\ UntilSet' = left + (entered + 9)
       /\ "TIMER" \in intState' => UntilCounted' = left + entered + 2
  <2>1. IF interrupt THEN left = slack - 1 /\ entered = UntilEntered
        ELSE left = slack /\ entered < UntilEntered
    BY <1>9
  <2>2. left \in Nat /\ entered \in Nat
    BY <1>2, <1>3
  <2>3. /\ UntilSet' = left + (entered + 9)
        /\ "TIMER" \in intState' => UntilCounted' = left + entered + 2
    BY <1>1, NextSet, NextCounted
  <2> HIDE DEF left, entered
  <2>4. left + entered < slack + UntilEntered
    BY <1>2, <2>1, <2>2
  <2>5. QED
    BY <2>2, <2>3, <2>4
<1>11. /\ UntilSet' < UntilSet
       /\ Uncounted => UntilCounted' < UntilCounted
  <2>1. /\ UntilSet = slack + (UntilEntered + 9)
        /\ "TIMER" \in intState => UntilCounted = slack + UntilEntered + 2
        /\ "TIMER" \notin intState => UntilCounted = slack + load.slack + 14
    BY <1>1 DEF UntilSet, UntilCounted
  <2>2. ~interrupt /\ "TIMER" \notin intState /\ tInt => entered <= 3 /\ left = slack
    BY <1>5, <1>9, NextEntered
  <2>3. interrupt => left < slack /\ entered = 1
    BY <1>2, <1>9 DEF UntilEntered
  <2> HIDE DEF left, entered
  <2>4. left + (entered + 9) < slack + (UntilEntered + 9)
    BY <1>2, <1>10
  <2>5. "TIMER" \in intState => left + entered + 2 < slack + UntilEntered + 2
    BY <1>2, <1>10
  <2>6. "TIMER" \notin intState /\ tInt => left + entered + 2 < slack + load.slack + 14
    BY <1>2, <1>10, <2>2, <2>3
  <2>7. QED
    BY <1>5, <1>10, <2>1, <2>4, <2>5, <2>6 DEF Uncounted
<1>12. ~Uncounted => UntilCounted' <= Period + 1
  <2>1. "TIMER" \notin intState' => UntilCounted' = slack' + load.slack + 14
    BY <1>1, <1>4, NextCounted
  <2>2. QED
    BY <1>2, <1>3, <1>5, <1>9, <2>1 DEF Uncounted
<1>13. CountInv'
  BY <1>1, <1>2, <1>3, <1>5, <1>11, <1>12, CountKept, PassCycles DEF Before
<1>14. WatchdogInv'
  BY <1>1, <1>2, <1>3, <1>11, WatchdogKept, PassCycles DEF Before
<1> QED
  BY <1>13, <1>14

\* The task traps or is interrupted.
LEMMA EnterStep ==
    ASSUME Before, After, Enter
    PROVE  CountInv' /\ WatchdogInv'
<1>1. pc = "user" /\ pc' = "pic" /\ Hardware(NoCycle) /\ slack' = slack
  BY DEF Enter
<1>2. /\ UntilEntered \in 1 .. Period + 4 /\ load.slack \in Nat /\ slack \in 0 .. load.slack
      /\ Period \in Nat /\ Period > 13 /\ 13 + 2 * load.slack <= Period
      /\ UntilSet \in Nat /\ UntilCounted \in Nat
  BY Potentials DEF Before
<1>3. UntilSet' \in Nat /\ UntilCounted' \in Nat \ {0}
  BY PotentialsNext DEF After
<1>4. any' = (intState \cap intEnable # {}) /\ load' = load
  BY <1>1, Controller
<1>5. "TIMER" \in intState' <=> "TIMER" \in intState \/ tInt
  BY <1>1, TickStays, PassCycles
<1>6. "TIMER" \in intState => any'
  BY <1>1, <1>4 DEF Before, PassInv
<1>7. Rest' = 9
  BY <1>1 DEF Rest
<1>8. UntilSet = slack + (UntilEntered + 9) /\ UntilSet' = slack + 9
  BY <1>1, <1>7, NextSet DEF UntilSet
<1>9. UntilSet' < UntilSet
  BY <1>2, <1>8
<1>10. UntilCounted = IF "TIMER" \in intState THEN slack + UntilEntered + 2
                      ELSE slack + load.slack + 14
  BY <1>1 DEF UntilCounted
<1>11. /\ any' /\ "TIMER" \in intState' => UntilCounted' = slack + 2
       /\ ~any' /\ "TIMER" \in intState' => UntilCounted' = slack + load.slack + 13
       /\ "TIMER" \notin intState' => UntilCounted' = slack + load.slack + 14
  BY <1>1, <1>2, <1>4, <1>7, NextCounted
<1>12. /\ Uncounted => UntilCounted' < UntilCounted
       /\ ~Uncounted => UntilCounted' <= Period + 1
  BY <1>2, <1>5, <1>6, <1>10, <1>11 DEF Uncounted
<1>13. CountInv'
  BY <1>1, <1>2, <1>3, <1>5, <1>12, CountKept, PassCycles DEF Before
<1>14. WatchdogInv'
  BY <1>1, <1>2, <1>3, <1>9, WatchdogKept, PassCycles DEF Before
<1> QED
  BY <1>13, <1>14

\* The kernel is busy.
LEMMA BusyStep ==
    ASSUME Before, After, KBusy
    PROVE  CountInv' /\ WatchdogInv'
<1>1. /\ pc # "user" /\ pc' = pc /\ pic' = pic /\ Hardware(NoCycle)
      /\ slack > 0 /\ slack' = slack - 1
  BY DEF KBusy, loopVars
<1>2. /\ Rest \in 0 .. 9 /\ load.slack \in Nat /\ slack \in 0 .. load.slack
      /\ Period \in Nat /\ Period > 13 /\ 13 + 2 * load.slack <= Period
      /\ UntilSet \in Nat /\ UntilCounted \in Nat
  BY Potentials DEF Before
<1>3. UntilSet' \in Nat /\ UntilCounted' \in Nat \ {0}
  BY PotentialsNext DEF After
<1>4. any' = (intState \cap intEnable # {}) /\ load' = load
  BY <1>1, Controller
<1>5. "TIMER" \in intState' <=> "TIMER" \in intState \/ tInt
  BY <1>1, TickStays, PassCycles
<1>6. pc = "pic" /\ "TIMER" \in intState => any'
  BY <1>4 DEF Before, PassInv
<1>7. Rest' = Rest /\ (pc = "pic" => Rest = 9)
  BY <1>1 DEF Rest
<1>8. UntilSet = slack + Rest /\ UntilSet' = slack - 1 + Rest
  BY <1>1, <1>7, NextSet DEF UntilSet
<1>9. UntilSet' < UntilSet
  BY <1>2, <1>8
<1>10. CASE pc = "ack" /\ "TIMER" \in pic
  <2>1. UntilCounted = slack + 1 /\ UntilCounted' = slack - 1 + 1
    BY <1>1, <1>10, NextCounted DEF UntilCounted
  <2>2. UntilCounted' < UntilCounted /\ UntilCounted' <= Period + 1
    BY <1>2, <2>1
  <2>3. QED
    BY <1>1, <1>2, <1>3, <1>5, <1>9, <2>2, CountKept, WatchdogKept, PassCycles DEF Before
<1>11. CASE pc = "pic"
  <2>1. UntilCounted = IF "TIMER" \in intState THEN IF any THEN slack + 2 ELSE slack + load.slack + 13
                       ELSE slack + load.slack + Rest + 5
    BY <1>11 DEF UntilCounted
  <2>2. /\ any' /\ "TIMER" \in intState' => UntilCounted' = slack - 1 + 2
        /\ ~any' /\ "TIMER" \in intState' => UntilCounted' = slack - 1 + load.slack + 13
        /\ "TIMER" \notin intState' => UntilCounted' = slack - 1 + load.slack + Rest + 5
    BY <1>1, <1>4, <1>7, <1>11, NextCounted
  <2>3. /\ Uncounted => UntilCounted' < UntilCounted
        /\ ~Uncounted => UntilCounted' <= Period + 1
    BY <1>2, <1>5, <1>6, <1>7, <1>11, <2>1, <2>2 DEF Uncounted
  <2>4. QED
    BY <1>1, <1>2, <1>3, <1>5, <1>9, <2>3, CountKept, WatchdogKept, PassCycles DEF Before
<1>12. CASE pc # "pic" /\ ~(pc = "ack" /\ "TIMER" \in pic)
  <2>1. UntilCounted = slack + load.slack + Rest + 5
    BY <1>1, <1>12 DEF UntilCounted
  <2>2. UntilCounted' = slack - 1 + load.slack + Rest + 5
    BY <1>1, <1>4, <1>7, <1>12, NextCounted
  <2>3. UntilCounted' < UntilCounted /\ UntilCounted' <= Period + 1
    BY <1>2, <2>1, <2>2
  <2>4. QED
    BY <1>1, <1>2, <1>3, <1>5, <1>9, <2>3, CountKept, WatchdogKept, PassCycles DEF Before
<1> QED
  BY <1>10, <1>11, <1>12

\* The watchdog is set: a pass and a period fit in the time it gets.
LEMMA WatchdogStep ==
    ASSUME Before, After, KWatchdog
    PROVE  CountInv' /\ WatchdogInv'
<1>1. pc = "watchdog" /\ pc' = "user" /\ slack' = load.slack /\ Hardware(SetWatchdog)
  BY DEF KWatchdog
<1>2. /\ load.slack \in Nat /\ slack \in 0 .. load.slack
      /\ Period \in Nat /\ Period > 13 /\ 13 + 2 * load.slack <= Period
      /\ UntilSet \in Nat /\ UntilCounted \in Nat
  BY Potentials DEF Before
<1>3. UntilEntered' \in 1 .. Period + 4 /\ UntilCounted' \in Nat \ {0}
  BY PotentialsNext DEF After
<1>4. load' = load /\ load.watchdog \in {0, 2 * Period}
  BY <1>1, Controller, LoadRange DEF Before, PassInv
<1>5. "TIMER" \in intState' <=> "TIMER" \in intState \/ tInt
  BY <1>1, TickStays, PassCycles
<1> DEFINE entered == UntilEntered'
<1>6. /\ entered \in 1 .. Period + 4
      /\ UntilSet' = load.slack + (entered + 9)
      /\ "TIMER" \in intState' => UntilCounted' = load.slack + entered + 2 /\ entered <= 3
      /\ "TIMER" \notin intState' => UntilCounted' = load.slack + load.slack + 14
  BY <1>1, <1>3, <1>4, NextSet, NextCounted, NextEntered
<1> HIDE DEF entered
<1>7. UntilCounted = slack + load.slack + 1 + 5 /\ UntilSet = slack + 1
  BY <1>1 DEF UntilCounted, UntilSet, Rest
<1>8. /\ Uncounted => UntilCounted' < UntilCounted
      /\ ~Uncounted => UntilCounted' <= Period + 1
  BY <1>2, <1>5, <1>6, <1>7 DEF Uncounted
<1>9. CountInv'
  BY <1>1, <1>2, <1>3, <1>5, <1>8, CountKept DEF Before
<1>10. load.slack + (entered + 9) < 2 * Period
  BY <1>2, <1>6
<1>11. /\ ~wAuto' /\ wRunning' = (load.watchdog # 0) /\ wValue' = load.watchdog
       /\ wInt' <=> wRunning /\ wValue = 1
  BY <1>1, WatchdogSet DEF Before
<1>12. ~wInt'
  BY <1>2, <1>7, <1>11 DEF Before, WatchdogInv
<1>13. wRunning' \in BOOLEAN /\ wValue' \in 0 .. 2 * Period /\ (wRunning' => wValue' > UntilSet')
  <2>1. CASE load.watchdog = 0
    <3>1. wRunning' = FALSE /\ wValue' = 0
      BY <1>11, <2>1
    <3>2. 0 \in 0 .. 2 * Period
      BY <1>2
    <3>3. QED
      BY <3>1, <3>2, Zenon
  <2>2. CASE load.watchdog = 2 * Period
    <3>1. wValue' = 2 * Period /\ 2 * Period > load.slack + (entered + 9)
      BY <1>2, <1>6, <1>10, <1>11, <2>2
    <3>2. wRunning' \in BOOLEAN /\ wValue' \in 0 .. 2 * Period
      BY <1>2, <1>11, <3>1
    <3>3. QED
      BY <1>6, <3>1, <3>2
  <2>3. QED
    BY <1>4, <2>1, <2>2
<1>14. WatchdogInv'
  BY <1>11, <1>12, <1>13 DEF WatchdogInv
<1> QED
  BY <1>9, <1>14

\* The kernel reads the controller: a tick that it finds is counted next.
LEMMA ReadPicStep ==
    ASSUME Before, After, KReadPic
    PROVE  CountInv' /\ WatchdogInv'
<1>1. /\ pc = "pic" /\ pc' = (IF any THEN "ack" ELSE "gie") /\ pic' = intState
      /\ Hardware(NoCycle) /\ slack' = slack
  BY DEF KReadPic, Step
<1>2. /\ load.slack \in Nat /\ slack \in 0 .. load.slack
      /\ Period \in Nat /\ Period > 13 /\ 13 + 2 * load.slack <= Period
      /\ UntilSet \in Nat /\ UntilCounted \in Nat
  BY Potentials DEF Before
<1>3. UntilSet' \in Nat /\ UntilCounted' \in Nat \ {0}
  BY PotentialsNext DEF After
<1>4. load' = load
  BY <1>1, Controller
<1>5. "TIMER" \in intState' <=> "TIMER" \in intState \/ tInt
  BY <1>1, TickStays, PassCycles
<1>6. Rest = 9 /\ (any => pc' = "ack" /\ Rest' = 8) /\ (~any => pc' = "gie" /\ Rest' = 7)
  BY <1>1 DEF Rest
<1>7. UntilSet = slack + 9 /\ (any => UntilSet' = slack + 8) /\ (~any => UntilSet' = slack + 7)
  BY <1>1, <1>6, NextSet DEF UntilSet
<1>8. UntilSet' < UntilSet
  BY <1>2, <1>7
<1>9. UntilCounted = IF "TIMER" \in intState THEN IF any THEN slack + 2 ELSE slack + load.slack + 13
                     ELSE slack + load.slack + Rest + 5
  BY <1>1 DEF UntilCounted
<1>10. /\ any /\ "TIMER" \in intState => UntilCounted' = slack + 1
       /\ any /\ "TIMER" \notin intState => UntilCounted' = slack + load.slack + 8 + 5
       /\ ~any => UntilCounted' = slack + load.slack + 7 + 5
  BY <1>1, <1>4, <1>6, NextCounted
<1>11. /\ Uncounted => UntilCounted' < UntilCounted
       /\ ~Uncounted => UntilCounted' <= Period + 1
  BY <1>2, <1>6, <1>9, <1>10 DEF Uncounted
<1>12. CountInv'
  BY <1>1, <1>2, <1>3, <1>5, <1>11, CountKept, PassCycles DEF Before
<1>13. WatchdogInv'
  BY <1>1, <1>2, <1>3, <1>8, WatchdogKept, PassCycles DEF Before
<1> QED
  BY <1>12, <1>13

\* A tick is counted and cleared; the next one cannot have come.
LEMMA AckStep ==
    ASSUME Before, After, KAck, "TIMER" \in pic
    PROVE  CountInv' /\ WatchdogInv'
<1>1. /\ pc = "ack" /\ pc' \in {"rx", "tx", "audio", "enable"}
      /\ Hardware(PicCycle(FALSE, pic, pic)) /\ slack' = slack
  BY ServeTx DEF KAck, Step, AckWord
<1>2. /\ load.slack \in Nat /\ slack \in 0 .. load.slack
      /\ Period \in Nat /\ Period > 13 /\ 13 + 2 * load.slack <= Period
      /\ UntilSet \in Nat /\ UntilCounted \in Nat
  BY Potentials DEF Before
<1>3. UntilSet' \in Nat /\ UntilCounted' \in Nat \ {0} /\ Rest' \in 0 .. 9
  BY PotentialsNext DEF After
<1>4. load' = load /\ PicCycle(FALSE, pic, pic).to = "pic"
  BY <1>1, Controller DEF PicCycle, Cycle
<1>5. "TIMER" \in intState /\ ~tInt /\ uncounted = 1
  BY <1>1 DEF Before, PassInv, CountInv, Uncounted
<1>6. "TIMER" \notin intState'
  <2>1. intState' = (intState \cup Raised) \ pic
    BY <1>1, PicClock
  <2>2. QED
    BY <2>1
<1>7. uncounted' = uncounted + Count(tInt') - Count(TRUE)
  <2>1. (pc = "ack" /\ PicCycle(FALSE, pic, pic).to = "pic" /\ "TIMER" \in pic) = TRUE
    BY <1>1, <1>4
  <2>2. QED
    BY <1>1, <2>1 DEF Hardware
<1>8. IF tInt' THEN uncounted' = 1 ELSE uncounted' = 0
  <2> DEFINE ticks == Count(tInt')
  <2>1. IF tInt' THEN ticks = 1 ELSE ticks = 0
    BY DEF Count
  <2>2. uncounted' = 1 + ticks - 1
    BY <1>5, <1>7, CountOne
  <2> HIDE DEF ticks
  <2>3. QED
    BY <2>1, <2>2
<1> DEFINE rest == Rest'
<1>9. /\ rest \in 0 .. 7 /\ UntilSet' = slack + rest
      /\ UntilCounted' = slack + load.slack + rest + 5
  <2>1. Rest' \in {7, 6, 4, 2}
    BY <1>1 DEF Rest
  <2>2. QED
    BY <1>1, <1>4, <2>1, NextSet, NextCounted
<1> HIDE DEF rest
<1>10. slack + load.slack + rest + 5 <= Period + 1
  BY <1>2, <1>9
<1>11. tInt' => UntilTick' = Period + 1
  BY DEF UntilTick
<1>12. CountInv'
  BY <1>6, <1>8, <1>9, <1>10, <1>11 DEF CountInv, Uncounted
<1>13. UntilSet = slack + 8
  BY <1>1 DEF UntilSet, Rest
<1>14. UntilSet' < UntilSet
  <2>1. slack + rest < slack + 8
    BY <1>2, <1>9
  <2>2. QED
    BY <1>9, <1>13, <2>1
<1>15. WatchdogInv'
  BY <1>1, <1>2, <1>3, <1>4, <1>14, WatchdogKept DEF Before
<1> QED
  BY <1>12, <1>15

LEMMA TimeNext ==
    ASSUME TimeInv, Next
    PROVE  TimeInv'
<1>1. Before
  BY DEF Before, TimeInv
<1>2. PassInv'
  BY PassNext DEF TimeInv
<1>3. Period \in Nat /\ Period > 13
  BY IntPathAssumption
<1>4. TimerInv'
  <2>1. \E c : Hardware(c)
    BY DEF Next, Kernel, Task, Write, Play, Run, Trap, Interrupt, Enter, KBusy, KSetup, KWatchdog,
           KReadPic, KAck, KRxNothing, KRx, KEcho, KEchoAck, KTx, KTxEmpty, KTxAck, KAudio,
           KAudioEnds, KAudioAck, KEnable, KGie, KNoStart, KStart, KStartAck, KIdleTx,
           KIdleTxEmpty, KIdleTxAck, Send, SendNothing, Step
  <2>2. QED
    BY <1>3, <2>1, TimerTicks DEF TimeInv
<1>5. After
  BY <1>2, <1>4 DEF After
<1>6. ASSUME CountInv' /\ WatchdogInv'
      PROVE  TimeInv'
  BY <1>2, <1>4, <1>6 DEF TimeInv
<1> HIDE DEF TimeInv
<1> USE DEF Step, loopVars
<1>7. CASE Task \/ Write \/ Play
  BY <1>1, <1>5, <1>6, <1>7, RunStep DEF Task, Write, Play
<1>8. CASE Trap \/ Interrupt
  BY <1>1, <1>5, <1>6, <1>8, EnterStep DEF Trap, Interrupt
<1>9. CASE KBusy
  BY <1>1, <1>5, <1>6, <1>9, BusyStep
<1>10. CASE KSetup
  <2>1. /\ pc = "setup" /\ pc' = "watchdog" /\ slack' = slack
        /\ Hardware(PicCycle(TRUE, enableset, Lines))
    BY <1>10 DEF KSetup
  <2>2. "TIMER" \notin intState /\ ~tInt
    BY <1>1, <2>1 DEF Before, PassInv, Uncounted
  <2>3. "TIMER" \notin intState'
    BY <2>1, <2>2, PicClock, RaisedLines
  <2>4. Rest' < Rest
    BY <2>1 DEF Rest
  <2>5. QED
    BY <1>1, <1>5, <1>6, <2>1, <2>2, <2>3, <2>4, OrdinaryStep DEF PicCycle, Cycle
<1>11. CASE KWatchdog
  BY <1>1, <1>5, <1>6, <1>11, WatchdogStep
<1>12. CASE KReadPic
  BY <1>1, <1>5, <1>6, <1>12, ReadPicStep
<1>13. CASE KAck /\ "TIMER" \in pic
  BY <1>1, <1>5, <1>6, <1>13, AckStep
<1>14. ASSUME NEW c, Hardware(c), c.to \notin {"pic", "watchdog"}, slack' = slack,
              pc \notin {"user", "pic", "watchdog", "ack"}, pc' \notin {"user", "pic", "ack"},
              Rest' < Rest
       PROVE  TimeInv'
  BY <1>1, <1>5, <1>6, <1>14, TickStays, OrdinaryStep
<1>15. ASSUME NEW on \in BOOLEAN, NEW en, NEW clr, Hardware(PicCycle(on, en, clr)),
              "TIMER" \notin clr, slack' = slack,
              pc \notin {"user", "pic", "watchdog"}, pc' \notin {"user", "pic", "ack"},
              ~(pc = "ack" /\ "TIMER" \in pic), Rest' < Rest
       PROVE  TimeInv'
  <2>1. PicCycle(on, en, clr).to # "watchdog"
    BY DEF PicCycle, Cycle
  <2>2. "TIMER" \in intState' <=> "TIMER" \in intState \/ tInt
    BY <1>15, TickKept
  <2>3. QED
    BY <1>1, <1>5, <1>6, <1>15, <2>1, <2>2, OrdinaryStep
<1>16. CASE KAck /\ "TIMER" \notin pic
  <2>1. pc = "ack" /\ pc' \in {"rx", "tx", "audio", "enable"}
    BY <1>16, ServeTx DEF KAck
  <2>2. Rest' < Rest
    BY <2>1 DEF Rest
  <2>3. QED
    BY <1>15, <1>16, <2>1, <2>2 DEF KAck, AckWord
<1>17. CASE KRxNothing \/ KRx
  <2>1. /\ pc = "rx" /\ pc' \in {"tx", "audio", "enable", "echo"}
        /\ slack' = slack /\ Hardware(ReadUart)
    BY <1>17, ServeTx DEF KRxNothing, KRx, AfterRx
  <2>2. Rest' < Rest
    BY <2>1 DEF Rest
  <2>3. QED
    BY <1>14, <2>1, <2>2, PassCycles
<1>18. CASE KEcho \/ KTx \/ KIdleTx
  <2>1. /\ \/ pc = "echo" /\ pc' = "echoack"
           \/ pc = "tx" /\ pc' = "txack"
           \/ pc = "idletx" /\ pc' = "idletxack"
        /\ slack' = slack /\ Hardware(WriteUart)
    BY <1>18 DEF KEcho, KTx, KIdleTx, Send
  <2>2. Rest' < Rest
    BY <2>1 DEF Rest
  <2>3. QED
    BY <1>14, <2>1, <2>2, PassCycles
<1>19. CASE KEchoAck \/ KTxAck \/ KIdleTxAck
  <2>1. /\ \/ pc = "echoack" /\ pc' \in {"audio", "enable"}
           \/ pc = "txack" /\ pc' \in {"audio", "enable"}
           \/ pc = "idletxack" /\ pc' = "enable"
        /\ slack' = slack /\ Hardware(PicCycle(FALSE, {}, {"UARTTX"}))
    BY <1>19, ServeTx DEF KEchoAck, KTxAck, KIdleTxAck, TxAckWord, AfterRx, AfterTx, Serve
  <2>2. Rest' < Rest
    BY <2>1 DEF Rest
  <2>3. QED
    BY <1>15, <2>1, <2>2
<1>20. CASE KTxEmpty \/ KIdleTxEmpty
  <2>1. /\ \/ pc = "tx" /\ pc' \in {"audio", "enable"}
           \/ pc = "idletx" /\ pc' = "enable"
        /\ slack' = slack /\ Hardware(NoCycle)
    BY <1>20, ServeTx DEF KTxEmpty, KIdleTxEmpty, SendNothing, AfterTx, Serve
  <2>2. Rest' < Rest
    BY <2>1 DEF Rest
  <2>3. QED
    BY <1>14, <2>1, <2>2, PassCycles
<1>21. CASE KAudio \/ KAudioEnds \/ KStart
  <2>1. /\ \/ pc = "audio" /\ pc' = "audioack"
           \/ pc = "start" /\ pc' = "startack"
        /\ slack' = slack /\ \E what : Hardware(WriteAudio(what))
    BY <1>21 DEF KAudio, KAudioEnds, KStart
  <2>2. Rest' < Rest
    BY <2>1 DEF Rest
  <2>3. QED
    BY <1>14, <2>1, <2>2, PassCycles
<1>22. CASE KAudioAck \/ KStartAck
  <2>1. /\ \/ pc = "audioack" /\ pc' = "enable"
           \/ pc = "startack" /\ pc' \in {"idletx", "enable"}
        /\ slack' = slack /\ Hardware(PicCycle(FALSE, {}, {"AUDIO"}))
    BY <1>22 DEF KAudioAck, KStartAck, AudioAckWord, IdleTx
  <2>2. Rest' < Rest
    BY <2>1 DEF Rest
  <2>3. QED
    BY <1>15, <2>1, <2>2
<1>23. CASE KEnable \/ KGie
  <2>1. /\ \/ pc = "enable" /\ pc' = "watchdog"
           \/ pc = "gie" /\ pc' = "start"
        /\ slack' = slack /\ \E en : Hardware(PicCycle(TRUE, en, {}))
    BY <1>23 DEF KEnable, KGie
  <2>2. Rest' < Rest
    BY <2>1 DEF Rest
  <2>3. QED
    BY <1>15, <2>1, <2>2
<1>24. CASE KNoStart
  <2>1. /\ pc = "start" /\ pc' \in {"idletx", "enable"}
        /\ slack' = slack /\ Hardware(NoCycle)
    BY <1>24 DEF KNoStart, IdleTx
  <2>2. Rest' < Rest
    BY <2>1 DEF Rest
  <2>3. QED
    BY <1>14, <2>1, <2>2, PassCycles
<1>25. QED
  BY <1>7, <1>8, <1>9, <1>10, <1>11, <1>12, <1>13, <1>16, <1>17, <1>18, <1>19, <1>20, <1>21,
     <1>22, <1>23, <1>24 DEF Next, Kernel

-----------------------------------------------------------------------------
(***************************************************************************)
(* The theorems.                                                           *)
(***************************************************************************)

LEMMA InvInit ==
    ASSUME Init
    PROVE  Inv
<1>1. load \in Loads
  BY DEF Init
<1>2. /\ load.slack \in Nat /\ Period \in Nat /\ Period > 13 /\ 13 + 2 * load.slack <= Period
  BY <1>1, LoadRange
<1>3. /\ intState = {} /\ intEnable = {} /\ gie = FALSE /\ any = FALSE /\ interrupt = FALSE
      /\ txStb = FALSE /\ rxRdy = FALSE /\ nextValid = TRUE /\ audioInt = FALSE
      /\ wRunning = FALSE /\ wAuto = FALSE /\ wInt = FALSE /\ wValue = 0
      /\ tRunning = TRUE /\ tAuto = TRUE /\ tInt = FALSE /\ tReload = Period /\ tValue = Period
      /\ pc = "setup" /\ slack = load.slack
      /\ pic = {} /\ enableset = {"TIMER"} /\ audiostate = FALSE
      /\ arrived = 0 /\ pushed = <<>>
      /\ unsent = 0 /\ unplayed = 0 /\ uncounted = 0
  BY DEF Init, IControlInit, PortInit, AudioInit, Watchdog!TimerInit
<1>4. TxInv
  BY <1>3 DEF TxInv, TxUses
<1>5. AudioInv
  BY <1>3 DEF AudioInv, AudioUses
<1>6. RxInv
  <2>1. pushed \in Seq(Int) /\ Len(pushed) = 0
    BY <1>3
  <2>2. 1 .. Len(pushed) = {} /\ 1 .. arrived = {}
    BY <1>3, <2>1
  <2>3. PushedExactlyOnce
    BY <2>2 DEF PushedExactlyOnce
  <2>4. QED
    BY <1>3, <2>1, <2>2, <2>3 DEF RxInv
<1>7. ~Uncounted
  BY <1>3 DEF Uncounted
<1>8. PassInv
  <2>1. slack \in 0 .. load.slack /\ tValue > slack
    BY <1>2, <1>3
  <2>2. QED
    BY <1>1, <1>3, <1>7, <2>1 DEF PassInv, Pcs
<1>9. TimerInv
  <2>1. tValue \in 0 .. Period /\ tValue # 0
    BY <1>2, <1>3
  <2>2. QED
    BY <1>3, <2>1 DEF TimerInv
<1>10. CountInv
  BY <1>3, <1>7 DEF CountInv
<1>11. WatchdogInv
  <2>1. 0 \in 0 .. 2 * Period
    BY <1>2
  <2>2. QED
    BY <1>3, <2>1 DEF WatchdogInv
<1> QED
  BY <1>4, <1>5, <1>6, <1>8, <1>9, <1>10, <1>11 DEF Inv, TimeInv

\* Inv is inductive.
LEMMA InvNext ==
    ASSUME Inv, [Next]_vars
    PROVE  Inv'
<1>1. CASE Next
  BY <1>1, TxNext, AudioNext, RxNext, TimeNext DEF Inv
<1>2. CASE UNCHANGED vars
  <2>1. TxInv'
    BY <1>2 DEF Inv, vars, hwVars, portVars, icontrolVars, loopVars, histVars, TxInv
  <2>2. AudioInv'
    BY <1>2 DEF Inv, vars, hwVars, audioVars, icontrolVars, loopVars, histVars, AudioInv
  <2>3. RxInv'
    BY <1>2 DEF Inv, vars, hwVars, portVars, histVars, RxInv, PushedExactlyOnce
  <2>4. TimeInv'
    BY <1>2 DEF Inv, vars, hwVars, icontrolVars, Timer!timerVars, Watchdog!timerVars, loopVars,
           histVars, TimeInv, PassInv, TimerInv, CountInv, WatchdogInv, Uncounted, UntilCounted,
           UntilTick, UntilSet, UntilEntered, Rest
  <2>5. QED
    BY <2>1, <2>2, <2>3, <2>4 DEF Inv
<1> QED
  BY <1>1, <1>2

LEMMA InvAlways == FairSpec => []Inv
<1>1. Init => Inv
  BY InvInit
<1>2. Inv /\ [Next]_vars => Inv'
  BY InvNext
<1>3. QED
  BY <1>1, <1>2, PTL DEF FairSpec

\* No byte is written over one that the transmitter has not taken, and no
\* sample over one that was not played, whatever the kernel, the tasks and the
\* devices do and when: UARTTX and AUDIO are acknowledged after the write, so
\* that neither is pending, nor was read as pending, while the port holds
\* something (kernel.c:161,171,204,247).
THEOREM PortsAreNotOverwritten == FairSpec => []NothingOverwritten
<1>1. Inv => NothingOverwritten
  <2>1. ASSUME Inv
        PROVE  unsent = Count(txStb)
    BY <2>1 DEF Inv, TxInv, Count
  <2>2. ASSUME Inv
        PROVE  unplayed <= 1
    BY <2>2 DEF Inv, AudioInv
  <2>3. QED
    BY <2>1, <2>2 DEF NothingOverwritten
<1>2. QED
  BY <1>1, InvAlways, PTL

\* Each byte received is pushed into the pipe at most once, in the order of
\* arrival, and none is lost but those that a later one overwrote and those
\* that are not ASCII (kernel.c:150-153): for any number of bytes.
THEOREM BytesPushedExactlyOnce == FairSpec => []PushedExactlyOnce
<1>1. Inv => PushedExactlyOnce
  BY DEF Inv, RxInv
<1>2. QED
  BY <1>1, InvAlways, PTL

\* Every tick is counted before the next, and the watchdog never expires, as
\* long as a pass of the kernel is shorter than the timer's period.
THEOREM TicksCounted == FairSpec => []TimeIsKept
<1>1. Inv => TimeIsKept
  BY DEF Inv, TimeInv, CountInv, WatchdogInv, TimeIsKept
<1>2. QED
  BY <1>1, InvAlways, PTL
=============================================================================
