-------------------------- MODULE SerialLineProofs --------------------------
(***************************************************************************)
(* Proofs about SerialLine: a byte gets through the line as it is, however *)
(* long a baud is, while the two ends agree on it within one part in       *)
(* twenty or so.                                                           *)
(***************************************************************************)
EXTENDS MCSerialLine, SequenceTheorems, TLAPS

\* How far the transmitter's baud may be from the receiver's: the stop bit
\* has come when the receiver looks for it and goes back to looking for a start
\* bit (rxuartlite.v:177), and that is over before the transmitter can begin
\* the next byte.
Half == RxBaud \div 2
Tolerated(t) == /\ t \in Nat
                /\ 9 * t <= 9 * RxBaud + Half + 1
                /\ 9 * RxBaud + Half + 2 <= 10 * t

\* Bits come in eights, and the receiver's three registers have filled before
\* the first low level that is long enough for a start bit.
Tolerance == /\ RxBaud >= 6
             /\ \A t \in Bauds : Tolerated(t)
             /\ Bytes \subseteq [1 .. 8 -> {0, 1}]

-----------------------------------------------------------------------------
(***************************************************************************)
(* The inductive invariant.                                                *)
(***************************************************************************)

\* What is on the line x clocks after it fell for the byte b, with bauds of t.
Carries(level, b, x, t) ==
    /\ level \in {0, 1}
    /\ x < 0 => level = 1
    /\ 0 <= x /\ x < t => level = 0
    /\ \A s \in 1 .. 8 : s * t <= x /\ x < (s + 1) * t => level = b[s]
    /\ 9 * t <= x => level = 1

TxIsIdle == txState = TxIdle
RxIsIdle == rxState = RxIdle

\* The transmitter by itself.
TxOK ==
    /\ txBaud \in Bauds
    /\ txState \in 0 .. 9 \cup {TxIdle}
    /\ txBits \in [1 .. 8 -> {0, 1}] /\ txLine \in {0, 1}
    /\ ~TxIsIdle => txCount \in 0 .. txBaud - 1 /\ (txZero <=> txCount = 0) /\ txBusy
    /\ \A i \in 1 .. 8 : txState + i > 8 => txBits[i] = 1
    /\ TxIsIdle => txLine = 1
    /\ txZero \in BOOLEAN /\ txBusy \in BOOLEAN
    /\ TxIsIdle /\ ~txZero => txBusy

PortOK == txStb \in BOOLEAN /\ (txStb => txData \in Bytes)

RxOK ==
    /\ chg \in Nat /\ halfBaud \in BOOLEAN /\ wr \in BOOLEAN
    /\ {q, qq, ck} \subseteq {0, 1}
    /\ rxBits \in [1 .. 8 -> {0, 1}]
    /\ rxZero \in BOOLEAN /\ (RxIsIdle => ~rxZero) /\ (rxZero => rxCount = 0)

\* Clocks since the line fell for the byte that is being sent, up to where
\* the next one can begin.
Elapsed ==
    IF TxIsIdle THEN 10 * txBaud + (IF ~txZero THEN 0 ELSE IF txBusy THEN 1 ELSE 2)
    ELSE txState * txBaud + (txBaud - 1 - txCount)

\* The first clocks, while the registers fill.
Settling ==
    /\ flying = <<>> /\ TxIsIdle /\ RxIsIdle /\ ~wr /\ ~halfBaud /\ ck = 0
    /\ \/ ~txZero /\ q = 0 /\ qq = 0 /\ chg = 0
       \/ txZero /\ txBusy /\ q = 1 /\ qq = 0 /\ chg <= 1
       \/ txZero /\ ~txBusy /\ q = 1 /\ qq = 1

\* Nothing on the wire.
Still ==
    /\ flying = <<>> /\ RxIsIdle /\ ~wr
    /\ txLine = 1 /\ q = 1 /\ qq = 1 /\ ck = 1
    /\ TxIsIdle \/ txState = 9

\* A byte is on the wire.
Sent == Head(flying)

Transmitting ==
    /\ flying = <<Sent>> /\ Sent \in [1 .. 8 -> {0, 1}]
    /\ \A i \in 1 .. 8 : txState + i <= 8 => txBits[i] = Sent[txState + i]
    /\ txLine = IF txState = 0 THEN 0 ELSE IF txState <= 8 THEN Sent[txState] ELSE 1
    /\ Carries(q, Sent, Elapsed - 1, txBaud)
    /\ Carries(qq, Sent, Elapsed - 2, txBaud)
    /\ Carries(ck, Sent, Elapsed - 3, txBaud)

\* The receiver has not found the start bit yet,
Listening ==
    /\ RxIsIdle /\ ~wr /\ Elapsed <= Half + 3
    /\ Elapsed >= 3 =>
         /\ chg = IF Elapsed - 3 < HalfBaud THEN Elapsed - 3 ELSE HalfBaud
         /\ halfBaud <=> Elapsed = Half + 3

\* is in bit rxState of the byte,
Receiving ==
    /\ rxState \in 0 .. 8 /\ ~wr
    /\ rxCount \in 0 .. RxBaud - 1 /\ (rxZero <=> rxCount = 0)
    /\ Elapsed = Half + 4 + rxState * RxBaud + (RxBaud - 1 - rxCount)
    /\ \A i \in 1 .. 8 : i <= rxState => rxBits[8 - rxState + i] = Sent[i]

\* or has it.
Finished == RxIsIdle /\ wr /\ byte = Sent /\ Elapsed >= 9 * txBaud + 3

Busy == Transmitting /\ (Listening \/ Receiving \/ Finished)

Inv == TxOK /\ PortOK /\ RxOK /\ (Settling \/ Still \/ Busy)

-----------------------------------------------------------------------------
(***************************************************************************)
(* Bits and bauds.                                                         *)
(***************************************************************************)

\* What Append does.
LEMMA Appended ==
    ASSUME NEW S, NEW s \in Seq(S), NEW e \in S
    PROVE  /\ Append(s, e) \in Seq(S) /\ Len(Append(s, e)) = Len(s)+1
           /\ \A i \in 1 .. Len(s) : Append(s, e)[i] = s[i]
           /\ Append(s, e)[Len(s)+1] = e
           /\ Append(s, e) \in [1 .. Len(s)+1 -> S]
<1>1. /\ Append(s, e) \in Seq(S) /\ Len(Append(s, e)) = Len(s)+1
      /\ \A i \in 1 .. Len(s) : Append(s, e)[i] = s[i]
      /\ Append(s, e)[Len(s)+1] = e
  OBVIOUS
<1>2. Append(s, e) \in [1 .. Len(s)+1 -> S]
  BY <1>1, LenProperties
<1> QED BY <1>1, <1>2

\* What Tail does.
LEMMA Tailed ==
    ASSUME NEW S, NEW s \in Seq(S), s # <<>>
    PROVE  /\ Tail(s) \in Seq(S) /\ Len(Tail(s)) + 1 = Len(s)
           /\ \A i \in 1 .. Len(s) - 1 : Tail(s)[i] = s[i+1]
           /\ Head(s) = s[1]
BY HeadTailProperties

\* A register shifts as those of txuartlite.v and rxuartlite.v do.
LEMMA Shifted ==
    ASSUME NEW S, NEW s \in Seq(S), NEW e \in S, s # <<>>
    PROVE  /\ ShiftIn(e, s) \in [1 .. Len(s) -> S]
           /\ \A i \in 1 .. Len(s) - 1 : ShiftIn(e, s)[i] = s[i + 1]
           /\ ShiftIn(e, s)[Len(s)] = e
           /\ Head(s) = s[1]
<1> DEFINE t == Tail(s)
<1>1. /\ t \in Seq(S) /\ Len(t) + 1 = Len(s)
      /\ \A i \in 1 .. Len(s) - 1 : t[i] = s[i+1]
      /\ Head(s) = s[1]
  BY Tailed
<1> HIDE DEF t
<1>2. /\ \A i \in 1 .. Len(t) : Append(t, e)[i] = t[i]
      /\ Append(t, e)[Len(t)+1] = e
      /\ Append(t, e) \in [1 .. Len(t)+1 -> S]
  BY <1>1, Appended
<1>3. 1 .. Len(t) = 1 .. Len(s) - 1
  <2>1. Len(t) = Len(s) - 1
    BY <1>1, LenProperties
  <2> QED BY <2>1
<1>4. ShiftIn(e, s) = Append(t, e)
  BY DEF ShiftIn, t
<1>5. /\ \A i \in 1 .. Len(s) - 1 : Append(t, e)[i] = s[i + 1]
      /\ Append(t, e)[Len(s)] = e
      /\ Append(t, e) \in [1 .. Len(s) -> S]
  <2>1. \A i \in 1 .. Len(s) - 1 : Append(t, e)[i] = s[i + 1]
    BY <1>1, <1>2, <1>3
  <2>2. Append(t, e)[Len(s)] = e
    BY <1>1, <1>2
  <2>3. Append(t, e) \in [1 .. Len(s) -> S]
    <3>1. Append(t, e) \in [1 .. Len(t) + 1 -> S]
      BY <1>2
    <3>2. Len(t) + 1 = Len(s)
      BY <1>1
    <3> QED BY <3>1, <3>2, Zenon
  <2> QED BY <2>1, <2>2, <2>3
<1> QED BY <1>1, <1>4, <1>5

\* A register of eight bits.
LEMMA ShiftValue ==
    ASSUME NEW bits \in [1 .. 8 -> {0, 1}], NEW bit \in {0, 1}
    PROVE  /\ ShiftIn(bit, bits) \in [1 .. 8 -> {0, 1}]
           /\ \A i \in 1 .. 7 : ShiftIn(bit, bits)[i] = bits[i + 1]
           /\ ShiftIn(bit, bits)[8] = bit
           /\ Head(bits) = bits[1]
<1>1. bits \in Seq({0, 1})
  <2>1. bits \in UNION {[1 .. n -> {0, 1}] : n \in Nat}
    OBVIOUS
  <2> QED BY <2>1, SeqDef
<1>2. Len(bits) = 8 /\ bits # <<>>
  <2>1. DOMAIN bits = 1 .. 8 /\ DOMAIN bits = 1 .. Len(bits) /\ Len(bits) \in Nat
    BY <1>1, LenProperties
  <2>2. Len(bits) = 8
    BY <2>1
  <2>3. Len(<<>>) = 0
    OBVIOUS
  <2>4. bits # <<>>
     BY <2>2, <2>3
  <2> QED BY <2>2, <2>4
<1>3. 8 - 1 = 7
  OBVIOUS
<1>4. /\ ShiftIn(bit, bits) \in [1 .. Len(bits) -> {0, 1}]
      /\ \A i \in 1 .. Len(bits) - 1 : ShiftIn(bit, bits)[i] = bits[i + 1]
      /\ ShiftIn(bit, bits)[Len(bits)] = bit
      /\ Head(bits) = bits[1]
  <2>1. \A S : \A s \in Seq(S), e \in S : s # <<>> => 
        /\ ShiftIn(e, s) \in [1 .. Len(s) -> S]
        /\ \A i \in 1 .. Len(s) - 1 : ShiftIn(e, s)[i] = s[i + 1]
        /\ ShiftIn(e, s)[Len(s)] = e
        /\ Head(s) = s[1]
    BY Shifted
  <2> DEFINE B == {0, 1}
  <2>2. bits \in Seq(B) /\ bit \in B
    BY <1>1
  <2>3. /\ ShiftIn(bit, bits) \in [1 .. Len(bits) -> B]
        /\ \A i \in 1 .. Len(bits) - 1 : ShiftIn(bit, bits)[i] = bits[i + 1]
        /\ ShiftIn(bit, bits)[Len(bits)] = bit
        /\ Head(bits) = bits[1]
    <3> HIDE DEF B
    <3> QED BY <1>2, <2>1, <2>2
  <2> QED BY <2>3
<1> QED BY <1>2, <1>3, <1>4

\* What the tolerance says in numbers.
LEMMA Bounds ==
    ASSUME Tolerance, TxOK
    PROVE  /\ txBaud \in Nat /\ txBaud >= 6
           /\ RxBaud \in Nat /\ RxBaud >= 6
           /\ Half \in Nat /\ Half >= 3 /\ 2 * Half <= RxBaud /\ RxBaud <= 2 * Half + 1
           /\ HalfBaud = Half - 1
           /\ 9 * txBaud <= 9 * RxBaud + Half + 1
           /\ 9 * RxBaud + Half + 2 <= 10 * txBaud
<1>1. RxBaud \in Nat /\ RxBaud >= 6
  BY RxBaudAssumption DEF Tolerance
<1>2. Half \in Nat /\ 2 * Half <= RxBaud /\ RxBaud <= 2 * Half + 1 /\ HalfBaud = Half - 1
  BY <1>1 DEF Half, HalfBaud
<1>3. Tolerated(txBaud)
  BY DEF Tolerance, TxOK
<1>4. /\ txBaud \in Nat
      /\ 9 * txBaud <= 9 * RxBaud + Half + 1
      /\ 9 * RxBaud + Half + 2 <= 10 * txBaud
  BY <1>3 DEF Tolerated
<1>5. Half >= 3
  BY <1>1, <1>2
<1>6. txBaud >= 6
  BY <1>1, <1>2, <1>4, <1>5
<1> QED BY <1>1, <1>2, <1>4, <1>5, <1>6

\* Multiples of a baud are in order.
LEMMA Multiples ==
    ASSUME NEW t \in Nat, NEW a \in 0 .. 10, NEW b \in 0 .. 10, a <= b
    PROVE  a * t \in Nat /\ b * t \in Nat /\ a * t <= b * t
BY SMT

\* The values of the multiples.
LEMMA NextMultiple ==
    ASSUME NEW t \in Nat, NEW a \in Int
    PROVE  a * t \in Int /\ (a + 1) * t = a * t + t
BY SMT

\* Half of RxBaud into a bit by its receiver is inside it for the transmitter.
LEMMA Sampling ==
    ASSUME Tolerance, TxOK, NEW r \in 0 .. 7
    PROVE  /\ (r + 1) * txBaud <= Half + (r + 1) * RxBaud
           /\ Half + (r + 1) * RxBaud < (r + 2) * txBaud
<1> DEFINE t == txBaud
<1>1. /\ t \in Nat /\ RxBaud \in Nat /\ Half \in Nat /\ t >= 6
      /\ 9 * t <= 9 * RxBaud + Half + 1
      /\ 9 * RxBaud + Half + 2 <= 10 * t
      /\ 2 * Half <= RxBaud /\ RxBaud <= 2 * Half + 1
  BY Bounds
<1> HIDE DEF t
<1>2. r = 0 \/ r = 1 \/ r = 2 \/ r = 3 \/ r = 4 \/ r = 5 \/ r = 6 \/ r = 7
  OBVIOUS
<1>3. (r + 1) * t <= Half + (r + 1) * RxBaud /\ Half + (r + 1) * RxBaud < (r + 2) * t
  BY <1>1, <1>2
<1> QED BY <1>3 DEF t

-----------------------------------------------------------------------------
(***************************************************************************)
(* The transmitter.                                                        *)
(***************************************************************************)

\* It begins a byte.
LEMMA TxAcceptStep ==
    ASSUME Tolerance, TxOK, PortOK, TxClock(Offered), TxAccepts(Offered)
    PROVE  /\ TxIsIdle /\ txZero /\ ~txBusy /\ txLine = 1
           /\ TxOK' /\ txBaud' = txBaud /\ txData \in [1 .. 8 -> {0, 1}]
           /\ txState' = 0 /\ txBits' = txData /\ txLine' = 0
           /\ Elapsed' = 0
<1>1. txStb /\ ~txBusy /\ Offered = {txData}
  BY DEF TxAccepts, Offered
<1>2. TxIsIdle /\ txZero /\ txState = TxIdle
  BY <1>1 DEF TxOK, TxIsIdle
<1>3. txState' = 0 /\ txBusy' = TRUE /\ txBaud' = txBaud
  <2>1. TxStateClock(TxAccepts(Offered)) /\ txBaud' = txBaud
    BY DEF TxClock
  <2>2. /\ txState' = IF TxAccepts(Offered) THEN 0 ELSE TxIdle
        /\ txBusy' = TxAccepts(Offered)
    BY <1>2, <2>1 DEF TxStateClock, TxIdle
  <2> QED BY <2>1, <2>2
<1>4. txBits' = txData /\ txLine' = 0
  BY <1>1 DEF TxClock, TxDataClock
<1>5. txCount' = txBaud - 1 /\ txZero' = FALSE
  BY <1>2 DEF TxClock, TxBaudClock
<1>6. txData \in [1 .. 8 -> {0, 1}]
  BY <1>1 DEF PortOK, Tolerance
<1>7. txBaud \in Nat /\ txBaud >= 6
  BY Bounds
<1>8. ~TxIsIdle'
  BY <1>3 DEF TxIsIdle, TxIdle
<1>9. TxOK'
  <2>1. txBaud' \in Bauds /\ txState' \in 0 .. 9 \cup {TxIdle} /\ txBits' \in [1 .. 8 -> {0, 1}]
    BY <1>3, <1>4, <1>6 DEF TxOK
  <2>2. txCount' \in 0 .. txBaud' - 1 /\ (txZero' <=> txCount' = 0) /\ txBusy'
    BY <1>3, <1>5, <1>7
  <2>3. \A i \in 1 .. 8 : txState' + i > 8 => txBits'[i] = 1
    BY <1>3
  <2> QED BY <1>3, <1>4, <1>5, <1>8, <2>1, <2>2, <2>3 DEF TxOK
<1>10. Elapsed' = 0
  BY <1>3, <1>5, <1>7, <1>8 DEF Elapsed
<1> QED BY <1>1, <1>2, <1>3, <1>4, <1>6, <1>9, <1>10 DEF TxOK

\* What any other clock does with a byte that is being sent.
Shifts == /\ txState' = IF txState <= 8 THEN txState + 1 ELSE TxIdle
          /\ txLine' = txBits[1]
          /\ \A i \in 1 .. 7 : txBits'[i] = txBits[i + 1]

LEMMA TxOtherStep ==
    ASSUME Tolerance, TxOK, TxClock(Offered), ~TxAccepts(Offered)
    PROVE  /\ TxOK' /\ txBaud' = txBaud
           /\ Elapsed' = IF TxIsIdle /\ txZero /\ ~txBusy THEN Elapsed ELSE Elapsed + 1
           /\ TxIsIdle => TxIsIdle' /\ txLine' = 1
           /\ TxIsIdle => txZero' /\ (txZero => ~txBusy')
           /\ ~TxIsIdle => \/ ~txZero /\ UNCHANGED <<txState, txBits, txLine>>
                           \/ txZero /\ Shifts
           /\ TxIsIdle /\ ~txZero => txBusy'
<1>1. txBaud' = txBaud /\ txBaud \in Nat /\ txBaud >= 6
  BY Bounds DEF TxClock
<1>2. CASE ~txZero
  <2>1. /\ txState' = txState /\ txBusy' = TRUE
        /\ UNCHANGED <<txBits, txLine>>
    BY <1>2 DEF TxClock, TxStateClock, TxDataClock
  <2>2. CASE TxIsIdle
    <3>1. txZero' = TRUE /\ TxIsIdle'
      BY <2>1, <2>2 DEF TxClock, TxBaudClock, TxIsIdle
    <3>2. TxOK'
      BY <1>1, <2>1, <2>2, <3>1 DEF TxOK, TxIsIdle
    <3>3. Elapsed' = Elapsed + 1
      BY <1>1, <1>2, <2>1, <2>2, <3>1 DEF Elapsed
    <3> QED BY <1>1, <1>2, <2>1, <2>2, <3>1, <3>2, <3>3 DEF TxOK
  <2>3. CASE ~TxIsIdle
    <3>1. /\ txCount' = txCount - 1 /\ (txZero' <=> txCount = 1) /\ ~TxIsIdle'
          /\ txZero' \in BOOLEAN
      BY <1>2, <2>1, <2>3 DEF TxClock, TxBaudClock, TxIsIdle
    <3>2. txCount \in 1 .. txBaud - 1 /\ txState \in 0 .. 9
      BY <1>1, <1>2, <2>3 DEF TxOK, TxIsIdle
    <3>3. txCount' \in 0 .. txBaud' - 1 /\ (txZero' <=> txCount' = 0)
      BY <1>1, <3>1, <3>2
    <3>4. TxOK'
      BY <1>1, <2>1, <2>3, <3>1, <3>3 DEF TxOK, TxIsIdle
    <3>5. Elapsed' = Elapsed + 1
      <4>1. txState * txBaud \in Int
        BY <1>1, <3>2, NextMultiple
      <4>2. Elapsed = txState * txBaud + (txBaud - 1 - txCount)
        BY <2>3 DEF Elapsed
      <4>3. Elapsed' = txState * txBaud + (txBaud - 1 - txCount')
        BY <1>1, <2>1, <3>1 DEF Elapsed
      <4> QED BY <1>1, <3>1, <3>2, <4>1, <4>2, <4>3
    <3> QED BY <1>1, <1>2, <2>1, <2>3, <3>4, <3>5
  <2> QED BY <2>2, <2>3
<1>3. CASE txZero
  <2>1. /\ txBits' = ShiftIn(1, txBits) /\ txLine' = Head(txBits)
        /\ txBits \in [1 .. 8 -> {0, 1}]
    BY <1>3 DEF TxClock, TxDataClock, TxOK
  <2>2. /\ txBits' \in [1 .. 8 -> {0, 1}]
        /\ \A i \in 1 .. 7 : txBits'[i] = txBits[i + 1]
        /\ txBits'[8] = 1 /\ txLine' = txBits[1] /\ txLine' \in {0, 1}
    BY <2>1, ShiftValue
  <2>3. CASE TxIsIdle
    <3>1. txState' = txState /\ txBusy' = FALSE /\ txZero' = TRUE /\ TxIsIdle'
      <4>1. TxStateClock(TxAccepts(Offered)) /\ TxBaudClock(TxAccepts(Offered))
        BY DEF TxClock
      <4>2. /\ txState' = IF TxAccepts(Offered) THEN 0 ELSE TxIdle
            /\ txBusy' = TxAccepts(Offered)
        BY <1>3, <2>3, <4>1 DEF TxStateClock, TxIsIdle, TxIdle
      <4>3. txZero' = ~TxAccepts(Offered)
        BY <2>3, <4>1 DEF TxBaudClock, TxIsIdle
      <4>4. TxAccepts(Offered) = FALSE
        BY DEF TxAccepts
      <4>5. txBusy' = FALSE /\ txZero' = TRUE
        BY <4>2, <4>3, <4>4
      <4>6. txState' = txState
        BY <2>3, <4>2, <4>4 DEF TxIsIdle
      <4> QED BY <2>3, <4>5, <4>6 DEF TxIsIdle
    <3>2. \A i \in 1 .. 8 : txBits[i] = 1
      BY <2>3 DEF TxOK, TxIsIdle, TxIdle
    <3>3. \A i \in 1 .. 8 : txBits'[i] = 1
      BY <2>2, <3>2
    <3>4. TxOK'
      <4>1. txBaud' \in Bauds /\ txState' \in 0 .. 9 \cup {TxIdle} /\ txBits' \in [1 .. 8 -> {0, 1}]
        BY <1>1, <2>2, <3>1 DEF TxOK
      <4>2. txLine' = 1
        BY <2>2, <3>2
      <4> QED BY <3>1, <3>3, <4>1, <4>2 DEF TxOK
    <3>5. Elapsed' = IF ~txBusy THEN Elapsed ELSE Elapsed + 1
      BY <1>1, <1>3, <2>3, <3>1 DEF Elapsed
    <3> QED BY <1>1, <1>3, <2>2, <2>3, <3>1, <3>2, <3>4, <3>5
  <2>4. CASE ~TxIsIdle
    <3>1. txState \in 0 .. 9 /\ txState < TxIdle /\ txCount = 0
      BY <1>3, <2>4 DEF TxOK, TxIsIdle, TxIdle
    <3>2. /\ txState' = IF txState <= 8 THEN txState + 1 ELSE TxIdle
          /\ txBusy' = TRUE
      BY <1>3, <3>1 DEF TxClock, TxStateClock, TxStop
    <3>3. txCount' = txBaud - 1 /\ txZero' = FALSE
      <4>1. TxBaudClock(TxAccepts(Offered))
        BY DEF TxClock
      <4>2. txZero' = (txCount = 1)
        BY <2>4, <4>1 DEF TxBaudClock, TxIsIdle
      <4>3. txCount' = txBaud - 1
        BY <1>3, <2>4, <4>1 DEF TxBaudClock, TxIsIdle
      <4>4. (txCount = 1) = FALSE
        BY <3>1
      <4> QED BY <4>2, <4>3, <4>4, Zenon
    <3>4. \A i \in 1 .. 8 : txState' + i > 8 => txBits'[i] = 1
      <4> SUFFICES ASSUME NEW i \in 1 .. 8, txState' + i > 8
                   PROVE  txBits'[i] = 1
        OBVIOUS
      <4>1. CASE i = 8
        BY <2>2, <4>1
      <4>2. CASE i # 8
        <5>1. i + 1 \in 1 .. 8 /\ txBits'[i] = txBits[i + 1]
          BY <2>2, <4>2
        <5>2. txState + (i + 1) > 8
          BY <3>1, <3>2
        <5> QED BY <5>1, <5>2 DEF TxOK
      <4> QED BY <4>1, <4>2
    <3>5. TxIsIdle' => txLine' = 1
      <4>1. TxIsIdle' => txState = 9
        BY <3>1, <3>2 DEF TxIsIdle, TxIdle
      <4>2. txState = 9 => txBits[1] = 1
        BY DEF TxOK
      <4> QED BY <2>2, <4>1, <4>2
    <3>6. txState' \in 0 .. 9 \cup {TxIdle}
      BY <3>1, <3>2
    <3>7. TxOK'
      <4>1. txBaud' \in Bauds /\ txBits' \in [1 .. 8 -> {0, 1}]
        BY <1>1, <2>2 DEF TxOK
      <4>2. txCount' \in 0 .. txBaud' - 1 /\ (txZero' <=> txCount' = 0) /\ txBusy'
        BY <1>1, <3>2, <3>3
      <4> QED BY <2>2, <3>2, <3>3, <3>4, <3>5, <3>6, <4>1, <4>2 DEF TxOK
    <3>8. Elapsed' = Elapsed + 1
      <4>1. txState * txBaud \in Int /\ (txState + 1) * txBaud = txState * txBaud + txBaud
        BY <1>1, <3>1, NextMultiple
      <4>2. Elapsed = txState * txBaud + (txBaud - 1)
        BY <1>1, <2>4, <3>1, <4>1 DEF Elapsed
      <4>3. CASE txState <= 8
        <5>1. txState' = txState + 1 /\ ~TxIsIdle'
          BY <3>1, <3>2, <4>3 DEF TxIsIdle, TxIdle
        <5>2. Elapsed' = (txState + 1) * txBaud + (txBaud - 1 - (txBaud - 1))
          BY <1>1, <3>3, <5>1 DEF Elapsed
        <5> QED BY <1>1, <4>1, <4>2, <5>2
      <4>4. CASE txState = 9
        <5>1. Elapsed' = 10 * txBaud + 0
          BY <1>1, <3>2, <3>3, <4>4 DEF Elapsed, TxIsIdle
        <5> QED BY <1>1, <4>2, <4>4, <5>1
      <4> QED BY <3>1, <4>3, <4>4
    <3> QED BY <1>1, <1>3, <2>2, <2>4, <3>2, <3>7, <3>8 DEF Shifts
  <2> QED BY <2>3, <2>4
<1> QED BY <1>2, <1>3

-----------------------------------------------------------------------------
(***************************************************************************)
(* The line.                                                               *)
(***************************************************************************)

\* Where a byte's time is while the transmitter is in one of its states.
LEMMA ElapsedBounds ==
    ASSUME Tolerance, TxOK
    PROVE  /\ Elapsed \in Nat /\ Elapsed <= 10 * txBaud + 2
           /\ ~TxIsIdle => /\ txState \in 0 .. 9
                           /\ txState * txBaud \in Nat
                           /\ txState * txBaud <= Elapsed
                           /\ Elapsed < (txState + 1) * txBaud
           /\ TxIsIdle => Elapsed >= 10 * txBaud
           /\ TxIsIdle /\ txZero /\ ~txBusy <=> Elapsed = 10 * txBaud + 2
<1>1. txBaud \in Nat /\ txBaud >= 6
  BY Bounds
<1>2. CASE TxIsIdle
  <2>1. Elapsed = 10 * txBaud + (IF ~txZero THEN 0 ELSE IF txBusy THEN 1 ELSE 2)
    BY <1>2 DEF Elapsed
  <2>2. CASE ~txZero
    BY <1>1, <1>2, <2>1, <2>2
  <2>3. CASE txZero /\ txBusy
    BY <1>1, <1>2, <2>1, <2>3
  <2>4. CASE txZero /\ ~txBusy
    BY <1>1, <1>2, <2>1, <2>4
  <2> QED BY <2>2, <2>3, <2>4
<1>3. CASE ~TxIsIdle
  <2>1. txState \in 0 .. 9 /\ txCount \in 0 .. txBaud - 1
    BY <1>3 DEF TxOK, TxIsIdle
  <2>2. /\ txState * txBaud \in Nat /\ 9 * txBaud \in Nat
        /\ txState * txBaud <= 9 * txBaud
    BY <1>1, <2>1, Multiples
  <2>3. (txState + 1) * txBaud = txState * txBaud + txBaud
    BY <1>1, <2>1, NextMultiple
  <2>4. Elapsed = txState * txBaud + (txBaud - 1 - txCount)
    BY <1>3 DEF Elapsed
  <2> QED BY <1>1, <1>3, <2>1, <2>2, <2>3, <2>4
<1> QED BY <1>2, <1>3

\* A time is in one bit.
LEMMA OneSlot ==
    ASSUME NEW t \in Nat, NEW a \in 0 .. 9, NEW b \in 0 .. 9, NEW x \in Int,
           a * t <= x, x < (a + 1) * t, b * t <= x, x < (b + 1) * t
    PROVE  a = b
<1>1. a * t \in Int /\ b * t \in Int /\ (a + 1) * t \in Int /\ (b + 1) * t \in Int
  BY Multiples
<1>2. ~(a + 1 <= b)
  <2> SUFFICES ASSUME a + 1 <= b PROVE FALSE
    OBVIOUS
  <2>1. (a + 1) * t <= b * t
    BY Multiples
  <2> QED BY <1>1, <2>1
<1>3. ~(b + 1 <= a)
  <2> SUFFICES ASSUME b + 1 <= a PROVE FALSE
    OBVIOUS
  <2>1. (b + 1) * t <= a * t
    BY Multiples
  <2> QED BY <1>1, <2>1
<1> QED BY <1>2, <1>3

\* Before the start bit and from the stop bit on the line is high.
LEMMA CarriesHigh ==
    ASSUME NEW b, NEW t \in Nat, t >= 6, NEW x \in Int, x < 0 \/ 9 * t <= x
    PROVE  Carries(1, b, x, t)
<1>1. ~(0 <= x /\ x < t)
  OBVIOUS
<1>2. ASSUME NEW s \in 1 .. 8, s * t <= x, x < (s + 1) * t
      PROVE  FALSE
  <2>1. s * t \in Nat /\ (s + 1) * t \in Nat /\ (s + 1) * t <= 9 * t /\ 9 * t \in Nat
    BY Multiples
  <2> QED BY <1>2, <2>1
<1> QED BY <1>1, <1>2 DEF Carries

\* The line carries the byte that is being sent.
LEMMA LineCarries ==
    ASSUME Tolerance, TxOK, Transmitting
    PROVE  Carries(txLine, Sent, Elapsed, txBaud)
<1>1. /\ txBaud \in Nat /\ txBaud >= 6 /\ Elapsed \in Nat
      /\ txLine = IF txState = 0 THEN 0 ELSE IF txState <= 8 THEN Sent[txState] ELSE 1
  BY Bounds, ElapsedBounds DEF Transmitting
<1>2. CASE TxIsIdle
  <2>1. 9 * txBaud <= Elapsed
    BY <1>1, <1>2, ElapsedBounds
  <2>2. txLine = 1
    BY <1>2 DEF TxOK
  <2> QED BY <1>1, <2>1, <2>2, CarriesHigh
<1>3. CASE ~TxIsIdle
  <2>1. /\ txState \in 0 .. 9 /\ txState * txBaud <= Elapsed
        /\ Elapsed < (txState + 1) * txBaud
    BY <1>3, ElapsedBounds
  <2>2. CASE txState = 9
    <3>1. 9 * txBaud <= Elapsed /\ txLine = 1
      BY <1>1, <2>1, <2>2
    <3> QED BY <1>1, <3>1, CarriesHigh
  <2>3. CASE txState <= 8
    <3>1. Elapsed < 9 * txBaud
      <4>1. (txState + 1) * txBaud <= 9 * txBaud /\ (txState + 1) * txBaud \in Nat
        BY <1>1, <2>1, <2>3, Multiples
      <4> QED BY <1>1, <2>1, <4>1
    <3>2. ASSUME NEW s \in 1 .. 8, s * txBaud <= Elapsed, Elapsed < (s + 1) * txBaud
          PROVE  txLine = Sent[s]
      <4>1. s = txState
        BY <1>1, <2>1, <3>2, OneSlot
      <4> QED BY <1>1, <2>1, <2>3, <4>1
    <3>3. Elapsed < txBaud => txLine = 0
      <4> SUFFICES ASSUME Elapsed < txBaud PROVE txState = 0
        BY <1>1
      <4>1. 0 * txBaud <= Elapsed /\ Elapsed < (0 + 1) * txBaud
        BY <1>1
      <4> QED BY <1>1, <2>1, <4>1, OneSlot
    <3>4. txLine \in {0, 1}
      BY DEF TxOK
    <3> QED BY <1>1, <3>1, <3>2, <3>3, <3>4 DEF Carries
  <2> QED BY <2>1, <2>2, <2>3
<1> QED BY <1>2, <1>3

-----------------------------------------------------------------------------
(***************************************************************************)
(* The receiver and the wire, in every clock.                              *)
(***************************************************************************)

\* One clock of the two ends and of the wire, without the ports.
Clock == /\ TxClock(Offered) /\ RxClock(txLine)
         /\ flying' = (IF wr /\ flying # <<>> THEN Tail(flying) ELSE flying)
                      \o (IF TxAccepts(Offered) THEN <<txData>> ELSE <<>>)

LEMMA ClockOfNext ==
    ASSUME Tolerance, PortOK, Next
    PROVE  Clock /\ PortOK'
<1>1. PICK written \in SUBSET Bytes, read \in BOOLEAN : Wires(written, read)
  <2>1. CASE Idle
    BY <2>1, Zenon DEF Idle
  <2>2. CASE Write
    <3>1. PICK b \in Bytes : Wires({b}, FALSE)
      BY <2>2 DEF Write
    <3>2. {b} \in SUBSET Bytes
      OBVIOUS
    <3> QED BY <3>1, <3>2, Zenon
  <2>3. CASE Read
    BY <2>3, Zenon DEF Read
  <2> QED BY <2>1, <2>2, <2>3 DEF Next
<1>2. Clock
  BY <1>1 DEF Wires, Clock
<1>3. TxPortClock(written, txBusy)
  BY <1>1 DEF Wires
<1>4. txStb' = (written # {} \/ (txStb /\ txBusy))
  BY <1>3 DEF TxPortClock
<1>5. txStb' \in BOOLEAN
  BY <1>4
<1>6. txStb' => txData' \in Bytes
  <2>1. CASE written = {}
    <3>1. txData' = txData /\ (txStb' => txStb)
      BY <1>3, <1>4, <2>1 DEF TxPortClock
    <3> QED BY <3>1 DEF PortOK
  <2>2. CASE written # {}
    <3>1. txData' \in written
      BY <1>3, <2>2 DEF TxPortClock
    <3> QED BY <3>1
  <2> QED BY <2>1, <2>2
<1> QED BY <1>2, <1>5, <1>6 DEF PortOK

LEMMA RxStep ==
    ASSUME Tolerance, TxOK, RxOK, RxClock(txLine)
    PROVE  /\ RxOK'
           /\ q' = txLine /\ qq' = q /\ ck' = qq
           /\ halfBaud' <=> ck = 0 /\ chg >= HalfBaud
           /\ wr' <=> rxZero /\ rxState = RxStop
<1>1. /\ q' = txLine /\ qq' = q /\ ck' = qq
      /\ chg' = IF qq # ck THEN 0 ELSE IF chg < HalfBaud THEN chg + 1 ELSE chg
      /\ halfBaud' = (ck = 0 /\ chg >= HalfBaud)
  BY DEF RxClock, RxLineClock
<1>2. wr' = (rxZero /\ rxState = RxStop)
  BY DEF RxClock, RxDataClock
<1>3. rxZero' = (rxState # RxIdle /\ rxCount = 1)
  BY DEF RxClock, RxBaudClock
<1>4. (RxIsIdle' => ~rxZero') /\ (rxZero' => rxCount' = 0)
  <2> SUFFICES ASSUME rxZero' PROVE ~RxIsIdle' /\ rxCount' = 0
    OBVIOUS
  <2>1. rxState # RxIdle /\ rxCount = 1
    BY <1>3
  <2>2. ~rxZero
    BY <2>1 DEF RxOK
  <2>3. rxCount' = 0
    BY <2>1, <2>2 DEF RxClock, RxBaudClock
  <2>4. ~RxIsIdle'
    BY <2>1, <2>2 DEF RxClock, RxStateClock, RxIsIdle
  <2> QED BY <2>3, <2>4
<1>5. rxBits' \in [1 .. 8 -> {0, 1}]
  <2>1. rxBits' = IF rxZero THEN ShiftIn(ck, rxBits) ELSE rxBits
    BY DEF RxClock, RxDataClock, ShiftIn
  <2>2. rxBits \in [1 .. 8 -> {0, 1}] /\ ck \in {0, 1}
    BY DEF RxOK
  <2>3. ShiftIn(ck, rxBits) \in [1 .. 8 -> {0, 1}]
    BY <2>2, ShiftValue
  <2> QED BY <2>1, <2>2, <2>3
<1>6. chg' \in Nat
  BY <1>1 DEF RxOK
<1>7. {q', qq', ck'} \subseteq {0, 1}
  BY <1>1 DEF RxOK, TxOK
<1>8. halfBaud' \in BOOLEAN /\ wr' \in BOOLEAN /\ rxZero' \in BOOLEAN
  BY <1>1, <1>2, <1>3
<1>9. RxOK'
  BY <1>4, <1>5, <1>6, <1>7, <1>8 DEF RxOK
<1> QED BY <1>1, <1>2, <1>9

\* The receiver goes on looking for a start bit.
LEMMA RxIdleStep ==
    ASSUME Tolerance, TxOK, RxOK, RxClock(txLine), RxIsIdle, ~(ck = 0 /\ halfBaud)
    PROVE  RxIsIdle' /\ ~wr'
<1>1. RxIsIdle'
  BY DEF RxClock, RxStateClock, RxIsIdle
<1>2. ~wr'
  BY RxStep DEF RxIsIdle, RxIdle, RxStop
<1> QED BY <1>1, <1>2

\* What is on the wire.
LEMMA Wire ==
    ASSUME Clock, flying = <<>> \/ flying = <<Sent>>
    PROVE  /\ TxAccepts(Offered) /\ (wr \/ flying = <<>>) => flying' = <<txData>>
           /\ ~TxAccepts(Offered) /\ ~wr => flying' = flying
           /\ ~TxAccepts(Offered) /\ wr => flying' = <<>>
<1> DEFINE rest == IF wr /\ flying # <<>> THEN Tail(flying) ELSE flying
<1>1. flying' = rest \o (IF TxAccepts(Offered) THEN <<txData>> ELSE <<>>)
  BY DEF Clock
<1>2. wr \/ flying = <<>> => rest = <<>>
  <2>1. flying # <<>> => flying = <<Sent>> /\ Tail(<<Sent>>) = <<>>
    OBVIOUS
  <2> QED BY <2>1
<1>3. ~wr => rest = flying
  OBVIOUS
<1> HIDE DEF rest
<1>4. \A b : <<>> \o <<b>> = <<b>> /\ <<b>> \o <<>> = <<b>> /\ <<>> \o <<>> = <<>>
  OBVIOUS
<1>5. TxAccepts(Offered) /\ (wr \/ flying = <<>>) => flying' = <<txData>>
  BY <1>1, <1>2, <1>4
<1>6. ~TxAccepts(Offered) /\ ~wr => flying' = flying
  <2>1. flying \o <<>> = flying
    BY <1>4
  <2> QED BY <1>1, <1>3, <2>1
<1>7. ~TxAccepts(Offered) /\ wr => flying' = <<>>
  BY <1>1, <1>2, <1>4
<1> QED BY <1>5, <1>6, <1>7

-----------------------------------------------------------------------------
(***************************************************************************)
(* Each part of the invariant, one clock later.                            *)
(***************************************************************************)

\* The transmitter takes a byte: the line has been high for three clocks.
LEMMA NewByte ==
    ASSUME Tolerance, TxOK, PortOK, RxOK, Clock, TxAccepts(Offered),
           RxIsIdle', ~wr', flying' = <<txData>>, q = 1, qq = 1
    PROVE  Busy'
<1>1. /\ txLine = 1 /\ txBaud' = txBaud /\ txData \in [1 .. 8 -> {0, 1}]
      /\ txState' = 0 /\ txBits' = txData /\ txLine' = 0 /\ Elapsed' = 0
  BY TxAcceptStep DEF Clock
<1>2. q' = 1 /\ qq' = 1 /\ ck' = 1
  BY <1>1, RxStep DEF Clock
<1>3. Sent' = txData /\ flying' = <<Sent'>>
  BY DEF Sent
<1>4. txBaud \in Nat /\ txBaud >= 6 /\ Half \in Nat
  BY Bounds
<1>5. \A x \in {-1, -2, -3} : Carries(1, txData, x, txBaud)
  BY <1>4, CarriesHigh
<1>6. /\ Carries(q', Sent', Elapsed' - 1, txBaud')
      /\ Carries(qq', Sent', Elapsed' - 2, txBaud')
      /\ Carries(ck', Sent', Elapsed' - 3, txBaud')
  <2>1. Elapsed' - 1 = -1 /\ Elapsed' - 2 = -2 /\ Elapsed' - 3 = -3
    BY <1>1
  <2> QED BY <1>1, <1>2, <1>3, <1>5, <2>1
<1>7. Transmitting'
  <2>1. \A i \in 1 .. 8 : txState' + i <= 8 => txBits'[i] = Sent'[txState' + i]
    BY <1>1, <1>3
  <2>2. txLine' = IF txState' = 0 THEN 0 ELSE IF txState' <= 8 THEN Sent'[txState'] ELSE 1
    BY <1>1
  <2>3. Sent' \in [1 .. 8 -> {0, 1}]
    BY <1>1, <1>3
  <2> QED BY <1>3, <1>6, <2>1, <2>2, <2>3 DEF Transmitting
<1>8. Listening'
  BY <1>1, <1>4 DEF Listening
<1> QED BY <1>7, <1>8 DEF Busy

\* It goes on with one.
LEMMA TransmittingStep ==
    ASSUME Tolerance, TxOK, RxOK, Clock, Transmitting, ~wr,
           ~TxAccepts(Offered), Elapsed <= 10 * txBaud + 1
    PROVE  /\ Transmitting' /\ Sent' = Sent /\ txBaud' = txBaud
           /\ Elapsed' = Elapsed + 1
<1>1. /\ txBaud \in Nat /\ txBaud >= 6 /\ Elapsed \in Nat
      /\ ~(TxIsIdle /\ txZero /\ ~txBusy)
  BY Bounds, ElapsedBounds
<1>2. /\ txBaud' = txBaud /\ Elapsed' = Elapsed + 1
      /\ TxIsIdle => TxIsIdle' /\ txLine' = 1
      /\ ~TxIsIdle => \/ ~txZero /\ UNCHANGED <<txState, txBits, txLine>>
                      \/ txZero /\ Shifts
  BY <1>1, TxOtherStep DEF Clock
<1>3. flying' = flying /\ Sent' = Sent
  <2>1. flying' = flying
    BY Wire DEF Transmitting
  <2> QED BY <2>1 DEF Sent
<1>4. /\ Carries(q', Sent', Elapsed' - 1, txBaud')
      /\ Carries(qq', Sent', Elapsed' - 2, txBaud')
      /\ Carries(ck', Sent', Elapsed' - 3, txBaud')
  <2>1. /\ Carries(txLine, Sent, Elapsed, txBaud)
        /\ Carries(q, Sent, Elapsed - 1, txBaud)
        /\ Carries(qq, Sent, Elapsed - 2, txBaud)
    BY LineCarries DEF Transmitting
  <2>2. q' = txLine /\ qq' = q /\ ck' = qq
    BY RxStep DEF Clock
  <2>3. Elapsed' - 1 = Elapsed /\ Elapsed' - 2 = Elapsed - 1 /\ Elapsed' - 3 = Elapsed - 2
    BY <1>1, <1>2
  <2> QED BY <1>2, <1>3, <2>1, <2>2, <2>3
<1>5. /\ \A i \in 1 .. 8 : txState' + i <= 8 => txBits'[i] = Sent[txState' + i]
      /\ txLine' = IF txState' = 0 THEN 0 ELSE IF txState' <= 8 THEN Sent[txState'] ELSE 1
  <2>1. CASE TxIsIdle
    <3>1. txState' = 15 /\ txLine' = 1
      BY <1>2, <2>1 DEF TxIsIdle, TxIdle
    <3> QED BY <3>1
  <2>2. CASE UNCHANGED <<txState, txBits, txLine>>
    BY <2>2 DEF Transmitting
  <2>3. CASE ~TxIsIdle /\ Shifts
    <3>1. txState \in 0 .. 9
      BY <2>3 DEF TxOK, TxIsIdle
    <3>2. /\ txState <= 8 => txState' = txState + 1
          /\ txState = 9 => txState' = 15
          /\ txLine' = txBits[1]
          /\ \A i \in 1 .. 7 : txBits'[i] = txBits[i + 1]
      BY <2>3, <3>1 DEF Shifts, TxIdle
    <3>3. /\ \A i \in 1 .. 8 : txState + i <= 8 => txBits[i] = Sent[txState + i]
          /\ \A i \in 1 .. 8 : txState + i > 8 => txBits[i] = 1
      BY DEF Transmitting, TxOK
    <3>4. txLine' = IF txState' = 0 THEN 0 ELSE IF txState' <= 8 THEN Sent[txState'] ELSE 1
      <4>1. CASE txState <= 7
        <5>1. txState' = txState + 1 /\ txState' \in 1 .. 8
          BY <3>1, <3>2, <4>1
        <5>2. txBits[1] = Sent[txState + 1]
          BY <3>1, <3>3, <4>1
        <5> QED BY <3>2, <5>1, <5>2
      <4>2. CASE txState > 7
        <5>1. txState' > 8
          BY <3>1, <3>2, <4>2
        <5>2. txBits[1] = 1
          BY <3>1, <3>3, <4>2
        <5> QED BY <3>1, <3>2, <5>1, <5>2
      <4> QED BY <3>1, <4>1, <4>2
    <3>5. ASSUME NEW i \in 1 .. 8, txState' + i <= 8
          PROVE  txBits'[i] = Sent[txState' + i]
      <4>1. txState <= 7 /\ txState' = txState + 1 /\ i \in 1 .. 7
        BY <3>1, <3>2, <3>5
      <4>2. txBits'[i] = txBits[i + 1]
        BY <3>2, <4>1
      <4>3. txBits[i + 1] = Sent[txState + (i + 1)]
        <5>1. i + 1 \in 1 .. 8 /\ txState + (i + 1) <= 8
          BY <3>1, <3>5, <4>1
        <5> QED BY <3>3, <5>1
      <4>4. txState + (i + 1) = txState' + i
        BY <3>1, <4>1
      <4> QED BY <4>2, <4>3, <4>4
    <3> QED BY <3>4, <3>5
  <2> QED BY <1>2, <2>1, <2>2, <2>3
<1>6. Transmitting'
  <2>1. flying' = <<Sent'>> /\ Sent' \in [1 .. 8 -> {0, 1}]
    BY <1>3 DEF Transmitting
  <2> QED BY <1>3, <1>4, <1>5, <2>1 DEF Transmitting
<1> QED BY <1>2, <1>3, <1>6

\* The line is high and stays so, or a byte begins.
LEMMA HighStep ==
    ASSUME Tolerance, TxOK, PortOK, RxOK, Clock, RxIsIdle, ~(ck = 0 /\ halfBaud),
           flying = <<>> \/ (wr /\ flying = <<Sent>>),
           txLine = 1, q = 1, qq = 1, TxIsIdle \/ txState = 9
    PROVE  Still' \/ Busy'
<1>1. RxIsIdle' /\ ~wr'
  BY RxIdleStep DEF Clock
<1>2. q' = 1 /\ qq' = 1 /\ ck' = 1
  BY RxStep DEF Clock
<1>3. CASE TxAccepts(Offered)
  <2>1. flying' = <<txData>>
    BY <1>3, Wire
  <2> QED BY <1>1, <1>3, <2>1, NewByte
<1>4. CASE ~TxAccepts(Offered)
  <2>1. flying' = <<>>
    BY <1>4, Wire
  <2>2. /\ TxIsIdle => TxIsIdle' /\ txLine' = 1
        /\ ~TxIsIdle => \/ ~txZero /\ UNCHANGED <<txState, txBits, txLine>>
                        \/ txZero /\ Shifts
    BY <1>4, TxOtherStep DEF Clock
  <2>3. (TxIsIdle' \/ txState' = 9) /\ txLine' = 1
    <3>1. CASE TxIsIdle
      BY <2>2, <3>1
    <3>2. CASE ~TxIsIdle /\ UNCHANGED <<txState, txBits, txLine>>
      BY <3>2
    <3>3. CASE ~TxIsIdle /\ Shifts
      <4>1. txState = 9 /\ txState' = TxIdle
        BY <3>3 DEF Shifts
      <4>2. txBits[1] = 1
        BY <4>1 DEF TxOK
      <4> QED BY <3>3, <4>1, <4>2 DEF Shifts, TxIsIdle
    <3> QED BY <2>2, <3>1, <3>2, <3>3
  <2> QED BY <1>1, <1>2, <2>1, <2>3 DEF Still
<1> QED BY <1>3, <1>4

\* The registers fill.
LEMMA SettlingStep ==
    ASSUME Tolerance, TxOK, PortOK, RxOK, Clock, Settling
    PROVE  Settling' \/ Still' \/ Busy'
<1>1. RxIsIdle' /\ ~wr'
  BY RxIdleStep DEF Clock, Settling
<1>2. /\ q' = txLine /\ qq' = q /\ ck' = qq
      /\ halfBaud' <=> ck = 0 /\ chg >= HalfBaud
  BY RxStep DEF Clock
<1>3. HalfBaud \in Nat /\ HalfBaud >= 2 /\ chg \in Nat /\ txLine = 1
  <2>1. HalfBaud \in Nat /\ HalfBaud >= 2
    BY Bounds
  <2>2. chg \in Nat /\ txLine = 1
    BY DEF RxOK, TxOK, Settling
  <2> QED BY <2>1, <2>2
<1>4. CASE ~txZero \/ txBusy
  <2>1. ~TxAccepts(Offered)
    BY <1>4 DEF TxAccepts, TxOK, Settling
  <2>2. /\ TxIsIdle' /\ txZero' /\ (txZero => ~txBusy')
        /\ ~txZero => txBusy'
    BY <2>1, TxOtherStep DEF Clock, Settling
  <2>3. flying' = <<>>
    BY <2>1, Wire DEF Settling
  <2>4. CASE ~txZero
    <3>1. q = 0 /\ qq = 0 /\ ck = 0 /\ chg = 0
      BY <2>4 DEF Settling
    <3>2. chg' <= 1
      BY <3>1, <1>3 DEF Clock, RxClock, RxLineClock
    <3>3. ~halfBaud'
      BY <1>2, <1>3, <3>1
    <3> QED BY <1>1, <1>2, <1>3, <2>2, <2>3, <2>4, <3>1, <3>2, <3>3 DEF Settling
  <2>5. CASE txZero
    <3>1. q = 1 /\ qq = 0 /\ chg <= 1
      BY <1>4, <2>5 DEF Settling
    <3>2. ~halfBaud'
      BY <1>2, <1>3, <3>1
    <3> QED BY <1>1, <1>2, <1>3, <2>2, <2>3, <2>5, <3>1, <3>2 DEF Settling
  <2> QED BY <2>4, <2>5
<1>5. CASE txZero /\ ~txBusy
  BY <1>3, <1>5, HighStep DEF Settling
<1> QED BY <1>4, <1>5 DEF TxOK

\* The start bit is found when it has been low for half a baud.
LEMMA ListeningStep ==
    ASSUME Tolerance, TxOK, PortOK, RxOK, Clock, Transmitting, Listening
    PROVE  Busy'
<1>1. /\ txBaud \in Nat /\ txBaud >= 6 /\ RxBaud \in Nat /\ RxBaud >= 6
      /\ Half \in Nat /\ Half >= 3 /\ 2 * Half <= RxBaud
      /\ HalfBaud = Half - 1
      /\ 9 * RxBaud + Half + 2 <= 10 * txBaud
      /\ Elapsed \in Nat /\ chg \in Nat
  BY Bounds, ElapsedBounds DEF RxOK
<1>2. Elapsed <= Half + 3 /\ Half + 3 <= 10 * txBaud + 1 /\ Half + 1 < txBaud
  BY <1>1 DEF Listening
<1>3. ~TxAccepts(Offered)
  <2>1. TxAccepts(Offered) => TxIsIdle /\ txZero /\ ~txBusy
    BY TxAcceptStep DEF Clock
  <2> QED BY <1>1, <1>2, <2>1, ElapsedBounds
<1>4. /\ Transmitting' /\ Sent' = Sent /\ txBaud' = txBaud
      /\ Elapsed' = Elapsed + 1
  BY <1>1, <1>2, <1>3, TransmittingStep DEF Listening
<1>5. /\ Elapsed < 3 => ck = 1
      /\ Elapsed = 2 => qq = 0
      /\ Elapsed >= 3 => ck = 0 /\ qq = 0
  <2>1. Carries(qq, Sent, Elapsed - 2, txBaud) /\ Carries(ck, Sent, Elapsed - 3, txBaud)
    BY DEF Transmitting
  <2>2. /\ 0 <= Elapsed - 2 /\ Elapsed - 2 < txBaud => qq = 0
        /\ Elapsed - 3 < 0 => ck = 1
        /\ 0 <= Elapsed - 3 /\ Elapsed - 3 < txBaud => ck = 0
    BY <2>1 DEF Carries
  <2> QED BY <1>1, <1>2, <2>2
<1>6. /\ chg' = IF qq # ck THEN 0 ELSE IF chg < HalfBaud THEN chg + 1 ELSE chg
      /\ halfBaud' <=> ck = 0 /\ chg >= HalfBaud
  BY RxStep DEF Clock, RxClock, RxLineClock
<1>7. CASE Elapsed < 3
  <2>1. RxIsIdle' /\ ~wr'
    BY <1>5, <1>7, RxIdleStep DEF Clock, Listening
  <2>2. Elapsed' <= 3 /\ Elapsed' <= Half + 3
    BY <1>1, <1>4, <1>7
  <2>3. Elapsed' = 3 => chg' = 0 /\ ~halfBaud'
    <3> SUFFICES ASSUME Elapsed' = 3 PROVE chg' = 0 /\ ~halfBaud'
      OBVIOUS
    <3>1. Elapsed = 2
      BY <1>1, <1>4
    <3>2. ck = 1 /\ qq = 0
      BY <1>5, <3>1
    <3> QED BY <1>6, <3>2
  <2>4. Listening'
    <3>1. Elapsed' >= 3 => Elapsed' = 3
      BY <1>1, <1>4, <2>2
    <3>2. Elapsed' = 3 => /\ chg' = IF Elapsed' - 3 < HalfBaud THEN Elapsed' - 3 ELSE HalfBaud
                          /\ halfBaud' <=> Elapsed' = Half + 3
      BY <1>1, <2>3
    <3> QED BY <2>1, <2>2, <3>1, <3>2 DEF Listening, HalfBaud
  <2> QED BY <1>4, <2>4 DEF Busy
<1>8. CASE Elapsed >= 3
  <2>1. /\ chg = IF Elapsed - 3 < HalfBaud THEN Elapsed - 3 ELSE HalfBaud
        /\ halfBaud <=> Elapsed = Half + 3
        /\ ck = 0 /\ qq = 0 /\ RxIsIdle
    BY <1>5, <1>8 DEF Listening
  <2>2. CASE Elapsed < Half + 3
    <3>1. RxIsIdle' /\ ~wr'
      <4>1. ~halfBaud
        BY <1>1, <2>1, <2>2
      <4> QED BY <2>1, <4>1, RxIdleStep DEF Clock
    <3>2. chg' = IF Elapsed' - 3 < HalfBaud THEN Elapsed' - 3 ELSE HalfBaud
      BY <1>1, <1>4, <1>6, <1>8, <2>1
    <3>3. halfBaud' <=> chg >= HalfBaud
      BY <1>6, <2>1
    <3>4. chg >= HalfBaud <=> Elapsed' = Half + 3
      BY <1>1, <1>4, <2>1, <2>2
    <3>5. Elapsed' <= Half + 3
      BY <1>1, <1>4, <2>2
    <3>6. Listening'
      BY <3>1, <3>2, <3>3, <3>4, <3>5 DEF Listening, HalfBaud
    <3> QED BY <1>4, <3>6 DEF Busy
  <2>3. CASE Elapsed = Half + 3
    <3>1. rxState' = 0
      BY <2>1, <2>3 DEF Clock, RxClock, RxStateClock, RxIsIdle
    <3>2. ~wr' /\ ~rxZero'
      <4>1. ~wr'
        BY <2>1, RxStep DEF Clock, RxIsIdle, RxIdle, RxStop
      <4>2. rxZero' = (rxState # RxIdle /\ rxCount = 1)
        BY DEF Clock, RxClock, RxBaudClock
      <4> QED BY <2>1, <4>1, <4>2 DEF RxIsIdle
    <3>3. rxCount' = RxBaud - 1
      BY <2>1 DEF Clock, RxClock, RxBaudClock, RxIsIdle
    <3>4. Elapsed' = Half + 4 + 0 * RxBaud + (RxBaud - 1 - (RxBaud - 1))
      BY <1>1, <1>4, <2>3
    <3>5. Receiving'
      <4>1. rxCount' \in 0 .. RxBaud - 1 /\ rxCount' # 0
        BY <1>1, <3>3
      <4>2. \A i \in 1 .. 8 : i <= rxState' => rxBits'[8 - rxState' + i] = Sent'[i]
        BY <3>1
      <4>3. Elapsed' = Half + 4 + rxState' * RxBaud + (RxBaud - 1 - rxCount')
        BY <3>1, <3>3, <3>4
      <4> QED BY <3>1, <3>2, <4>1, <4>2, <4>3 DEF Receiving, Half
    <3> QED BY <1>4, <3>5 DEF Busy
  <2> QED BY <1>1, <1>2, <2>2, <2>3
<1> QED BY <1>1, <1>7, <1>8

\* Each bit is taken inside the bit that is sent.
LEMMA ReceivingStep ==
    ASSUME Tolerance, TxOK, PortOK, RxOK, Clock, Transmitting, Receiving
    PROVE  Busy'
<1>1. /\ txBaud \in Nat /\ txBaud >= 6 /\ RxBaud \in Nat /\ RxBaud >= 6
      /\ Half \in Nat /\ Half >= 3
      /\ 9 * txBaud <= 9 * RxBaud + Half + 1
      /\ 9 * RxBaud + Half + 2 <= 10 * txBaud
      /\ Elapsed \in Nat
  BY Bounds, ElapsedBounds
<1>2. /\ rxState \in 0 .. 8 /\ rxCount \in 0 .. RxBaud - 1
      /\ rxZero <=> rxCount = 0
      /\ Elapsed = Half + 4 + rxState * RxBaud + (RxBaud - 1 - rxCount)
      /\ rxState # RxIdle /\ ~wr
  BY DEF Receiving, RxIdle
<1>3. /\ rxState * RxBaud \in Nat /\ rxState * RxBaud <= 8 * RxBaud
      /\ (rxState + 1) * RxBaud = rxState * RxBaud + RxBaud
  BY <1>1, <1>2, Multiples, NextMultiple
<1>4. Elapsed <= 10 * txBaud + 1
  BY <1>1, <1>2, <1>3
<1>5. ~TxAccepts(Offered)
  <2>1. TxAccepts(Offered) => TxIsIdle /\ txZero /\ ~txBusy
    BY TxAcceptStep DEF Clock
  <2> QED BY <1>1, <1>4, <2>1, ElapsedBounds
<1>6. /\ Transmitting' /\ Sent' = Sent /\ txBaud' = txBaud
      /\ Elapsed' = Elapsed + 1
  BY <1>2, <1>4, <1>5, TransmittingStep
<1>7. rxZero' = (rxState # RxIdle /\ rxCount = 1)
  BY DEF Clock, RxClock, RxBaudClock
<1>8. wr' <=> rxZero /\ rxState = RxStop
  BY RxStep DEF Clock
<1>9. CASE ~rxZero
  <2>1. rxState' = rxState /\ rxCount' = rxCount - 1 /\ rxBits' = rxBits
    BY <1>2, <1>9 DEF Clock, RxClock, RxStateClock, RxBaudClock, RxDataClock
  <2>2. ~wr' /\ (rxZero' <=> rxCount = 1)
    BY <1>2, <1>7, <1>8, <1>9
  <2>3. rxCount' \in 0 .. RxBaud - 1 /\ (rxZero' <=> rxCount' = 0)
    BY <1>1, <1>2, <1>9, <2>1, <2>2
  <2>4. Elapsed' = Half + 4 + rxState * RxBaud + (RxBaud - 1 - rxCount')
    BY <1>1, <1>2, <1>3, <1>6, <2>1
  <2>5. Receiving'
    <3>1. \A i \in 1 .. 8 : i <= rxState' => rxBits'[8 - rxState' + i] = Sent'[i]
      BY <1>6, <2>1 DEF Receiving
    <3> QED BY <1>2, <2>1, <2>2, <2>3, <2>4, <3>1 DEF Receiving, Half
  <2> QED BY <1>6, <2>5 DEF Busy
<1>10. CASE rxZero /\ rxState <= 7
  <2>1. /\ rxState' = rxState + 1 /\ rxCount' = RxBaud - 1
        /\ rxBits' = ShiftIn(ck, rxBits)
    BY <1>2, <1>10 DEF Clock, RxClock, RxStateClock, RxBaudClock, RxDataClock, RxStop, ShiftIn
  <2>2. ~wr' /\ ~rxZero'
    <3>1. rxCount # 1 /\ rxState # RxStop
      BY <1>2, <1>10 DEF RxStop
    <3> QED BY <1>7, <1>8, <3>1
  <2>3. Elapsed - 3 = Half + (rxState + 1) * RxBaud
    BY <1>1, <1>2, <1>3, <1>10
  <2>4. ck = Sent[rxState + 1]
    <3>1. rxState \in 0 .. 7 /\ rxState + 1 \in 1 .. 8 /\ (rxState + 1) + 1 = rxState + 2
      BY <1>2, <1>10
    <3>2. /\ (rxState + 1) * txBaud <= Elapsed - 3
          /\ Elapsed - 3 < ((rxState + 1) + 1) * txBaud
      BY <2>3, <3>1, Sampling
    <3>3. Carries(ck, Sent, Elapsed - 3, txBaud)
      BY DEF Transmitting
    <3> QED BY <3>1, <3>2, <3>3 DEF Carries
  <2>5. /\ \A i \in 1 .. 7 : rxBits'[i] = rxBits[i + 1]
        /\ rxBits'[8] = ck
    BY <2>1, ShiftValue DEF RxOK
  <2>6. ASSUME NEW i \in 1 .. 8, i <= rxState'
        PROVE  rxBits'[8 - rxState' + i] = Sent[i]
    <3>1. CASE i = rxState + 1
      <4>1. 8 - rxState' + i = 8
        BY <1>2, <2>1, <3>1
      <4> QED BY <2>4, <2>5, <3>1, <4>1
    <3>2. CASE i <= rxState
      <4>1. /\ 8 - rxState' + i \in 1 .. 7
            /\ (8 - rxState' + i) + 1 = 8 - rxState + i
        BY <1>2, <1>10, <2>1, <3>2
      <4>2. rxBits[8 - rxState + i] = Sent[i]
        BY <3>2 DEF Receiving
      <4> QED BY <2>5, <4>1, <4>2
    <3> QED BY <1>2, <2>1, <2>6, <3>1, <3>2
  <2>7. Elapsed' = Half + 4 + rxState' * RxBaud + (RxBaud - 1 - rxCount')
    <3>1. Elapsed' = Half + 4 + (rxState + 1) * RxBaud
      BY <1>1, <1>3, <1>6, <2>3
    <3>2. (rxState + 1) * RxBaud \in Int
      BY <1>1, <1>3
    <3>3. RxBaud - 1 - rxCount' = 0
      BY <1>1, <2>1
    <3>4. rxState' * RxBaud = (rxState + 1) * RxBaud
      BY <2>1
    <3> HIDE <2>1
    <3> QED BY <1>1, <3>1, <3>2, <3>3, <3>4
  <2>8. Receiving'
    <3>1. rxState' \in 0 .. 8
      BY <1>2, <1>10, <2>1
    <3>2. rxCount' \in 0 .. RxBaud - 1 /\ rxCount' # 0
      BY <1>1, <2>1
    <3> QED BY <1>6, <2>2, <2>6, <2>7, <3>1, <3>2 DEF Receiving, Half
  <2> QED BY <1>6, <2>8 DEF Busy
<1>11. CASE rxZero /\ rxState = 8
  <2>1. rxState' = RxIdle /\ byte' = rxBits
    BY <1>2, <1>11 DEF Clock, RxClock, RxStateClock, RxDataClock, RxStop
  <2>2. wr'
    BY <1>8, <1>11 DEF RxStop
  <2>3. Elapsed' >= 9 * txBaud + 3
    BY <1>1, <1>2, <1>6, <1>11
  <2>4. rxBits = Sent
    <3>1. \A i \in 1 .. 8 : rxBits[i] = Sent[i]
      BY <1>11 DEF Receiving
    <3> QED BY <3>1 DEF RxOK, Transmitting
  <2>5. Finished'
    BY <1>6, <2>1, <2>2, <2>3, <2>4 DEF Finished, RxIsIdle
  <2> QED BY <1>6, <2>5 DEF Busy
<1> QED BY <1>2, <1>9, <1>10, <1>11

\* The byte is put out in the stop bit.
LEMMA FinishedStep ==
    ASSUME Tolerance, TxOK, PortOK, RxOK, Clock, Transmitting, Finished
    PROVE  Still' \/ Busy'
<1>1. txBaud \in Nat /\ txBaud >= 6 /\ Elapsed \in Nat /\ Elapsed >= 9 * txBaud + 3
  BY Bounds, ElapsedBounds DEF Finished
<1>2. q = 1 /\ qq = 1 /\ ck = 1
  <2>1. /\ 9 * txBaud <= Elapsed - 1 /\ 9 * txBaud <= Elapsed - 2
        /\ 9 * txBaud <= Elapsed - 3
    BY <1>1
  <2> QED BY <2>1 DEF Transmitting, Carries
<1>3. TxIsIdle \/ txState = 9
  <2> SUFFICES ASSUME ~TxIsIdle, txState # 9 PROVE FALSE
    OBVIOUS
  <2>1. txState \in 0 .. 9 /\ txState + 1 <= 9 /\ Elapsed < (txState + 1) * txBaud
    BY ElapsedBounds
  <2>2. (txState + 1) * txBaud <= 9 * txBaud /\ (txState + 1) * txBaud \in Nat
    BY <1>1, <2>1, Multiples
  <2> QED BY <1>1, <2>1, <2>2
<1>4. txLine = 1
  BY <1>3 DEF Transmitting, TxOK
<1> QED BY <1>2, <1>3, <1>4, HighStep DEF Finished, Transmitting

-----------------------------------------------------------------------------
(***************************************************************************)
(* The invariant, and what it says of a byte.                              *)
(***************************************************************************)
LEMMA InvInit ==
    ASSUME Tolerance, Init
    PROVE  Inv
<1>1. TxInit(Bauds) /\ RxInit /\ PortInit(AllZeroes) /\ flying = <<>>
  BY DEF Init
<1>2. TxOK
  BY <1>1 DEF TxInit, TxOK, TxIsIdle, TxIdle, AllOnes
<1>3. PortOK
  BY <1>1 DEF PortInit, PortOK
<1>4. RxOK
  <2>1. AllZeroes \in [1 .. 8 -> {0, 1}]
    BY DEF AllZeroes
  <2> QED BY <1>1, <2>1 DEF RxInit, RxOK, RxIsIdle
<1>5. Settling
  BY <1>1 DEF TxInit, RxInit, Settling, TxIsIdle, RxIsIdle
<1> QED BY <1>2, <1>3, <1>4, <1>5 DEF Inv

LEMMA InvNext ==
    ASSUME Tolerance, Inv, Next
    PROVE  Inv'
<1>1. Clock /\ PortOK' /\ TxOK /\ PortOK /\ RxOK
  BY ClockOfNext DEF Inv
<1>2. RxOK'
  BY <1>1, RxStep DEF Clock
<1>3. TxOK'
  BY <1>1, TxAcceptStep, TxOtherStep DEF Clock
<1>4. Settling' \/ Still' \/ Busy'
  <2>1. CASE Settling
    BY <1>1, <2>1, SettlingStep
  <2>2. CASE Still
    BY <1>1, <2>2, HighStep DEF Still
  <2>3. CASE Transmitting /\ Listening
    BY <1>1, <2>3, ListeningStep
  <2>4. CASE Transmitting /\ Receiving
    BY <1>1, <2>4, ReceivingStep
  <2>5. CASE Transmitting /\ Finished
    BY <1>1, <2>5, FinishedStep
  <2> QED BY <2>1, <2>2, <2>3, <2>4, <2>5 DEF Inv, Busy
<1> QED BY <1>1, <1>2, <1>3, <1>4 DEF Inv

LEMMA InvStutters ==
    ASSUME Inv, UNCHANGED vars
    PROVE  Inv'
<1>1. UNCHANGED <<txVars, rxVars, portVars, flying>>
  BY DEF vars
<1>2. TxOK' /\ PortOK' /\ RxOK'
  BY <1>1 DEF Inv, txVars, rxVars, portVars, TxOK, PortOK, RxOK, TxIsIdle, RxIsIdle
<1>3. Sent' = Sent /\ Elapsed' = Elapsed /\ (TxIsIdle' <=> TxIsIdle) /\ (RxIsIdle' <=> RxIsIdle)
  BY <1>1 DEF Sent, Elapsed, txVars, rxVars, TxIsIdle, RxIsIdle
<1>4. Settling => Settling'
  BY <1>1, <1>3 DEF Settling, txVars, rxVars
<1>5. Still => Still'
  BY <1>1, <1>3 DEF Still, txVars, rxVars
<1>6. Transmitting => Transmitting'
  BY <1>1, <1>3 DEF Transmitting, txVars, rxVars
<1>7. Listening => Listening'
  BY <1>1, <1>3 DEF Listening, rxVars, HalfBaud, Half
<1>8. Receiving => Receiving'
  BY <1>1, <1>3 DEF Receiving, rxVars, Half
<1>9. Finished => Finished'
  BY <1>1, <1>3 DEF Finished, txVars, rxVars
<1> QED BY <1>2, <1>4, <1>5, <1>6, <1>7, <1>8, <1>9 DEF Inv, Busy

\* The line between two boards, with the simulator's end left out: its
\* variables do not change.
BoardInv == far = "board" /\ Inv

LEMMA BoardInvHolds ==
    ASSUME Tolerance
    PROVE  MCSpec /\ far = "board" => []BoardInv
<1>1. MCInit /\ far = "board" => BoardInv
  BY InvInit DEF MCInit, BoardInv
<1>2. BoardInv /\ [MCNext]_<<vars, far, simState>> => BoardInv'
  <2> SUFFICES ASSUME BoardInv, [MCNext]_<<vars, far, simState>>
               PROVE  BoardInv'
    OBVIOUS
  <2>1. CASE MCNext
    <3>1. far' = far /\ Next
      BY <2>1 DEF MCNext, BoardInv
    <3> QED BY <3>1, InvNext DEF BoardInv
  <2>2. CASE UNCHANGED <<vars, far, simState>>
    <3>1. far' = far /\ UNCHANGED vars
      BY <2>2
    <3> QED BY <3>1, InvStutters DEF BoardInv
  <2> QED BY <2>1, <2>2
<1> QED BY <1>1, <1>2, PTL DEF MCSpec

\* While the two ends agree on a baud as far as Tolerance says, what the
\* receiver puts out (rxuartlite.v o_wr) is the byte the transmitter took,
\* whatever the byte, however long the line was idle before it and however
\* close the last one came.
THEOREM BytesGetThrough ==
    ASSUME Tolerance
    PROVE  MCSpec /\ far = "board" => []LineIntact
<1>1. BoardInv => LineIntact
  <2> SUFFICES ASSUME BoardInv, wr
               PROVE  flying # <<>> /\ byte = Head(flying)
    BY DEF LineIntact, BytesIntact, BoardInv
  <2>1. Transmitting /\ Finished
    BY DEF BoardInv, Inv, Settling, Still, Busy, Listening, Receiving
  <2>2. flying = <<Sent>> /\ <<Sent>> # <<>> /\ byte = Sent
    BY <2>1 DEF Transmitting, Finished
  <2> QED BY <2>2 DEF Sent
<1> QED BY <1>1, BoardInvHolds, PTL

\* The receiver is done with a byte before the transmitter can begin the next
\* one (rxuartlite.v leaves the stop bit in its middle): there is never more
\* than one on the wire.
THEOREM ReceiverKeepsUp ==
    ASSUME Tolerance
    PROVE  MCSpec /\ far = "board" => []LineKeepsUp
<1>1. BoardInv => LineKeepsUp
  <2> SUFFICES ASSUME BoardInv PROVE Len(flying) <= 1
    BY DEF LineKeepsUp, KeepsUp, BoardInv
  <2>1. flying = <<>> \/ flying = <<Sent>>
    BY DEF BoardInv, Inv, Settling, Still, Busy, Transmitting
  <2>2. CASE flying = <<>>
    BY <2>2
  <2>3. CASE flying = <<Sent>>
    <3> HIDE <2>1
    <3>1. \E b : flying = <<b>>
      BY <2>3
    <3> QED BY <3>1
  <2> QED BY <2>1, <2>2, <2>3
<1> QED BY <1>1, BoardInvHolds, PTL
=============================================================================
