----------------------------- MODULE TxUartLite -----------------------------
(***************************************************************************)
(* The UART's transmitter (rtl/txuartlite.v), clock by clock.  A byte is   *)
(* the sequence of its bits, the first to be sent first.                   *)
(***************************************************************************)
EXTENDS Integers, Sequences

VARIABLES txBaud,       \* CLOCKS_PER_BAUD
          txCount, txZero,      \* counts down one baud; it is over
          txState, txBits, txLine, txBusy

txVars == <<txBaud, txCount, txZero, txState, txBits, txLine, txBusy>>

TxStop == 8
TxIdle == 15
AllOnes == [i \in 1 .. 8 |-> 1]
ShiftIn(bit, bits) == Append(Tail(bits), bit)

TxInit(bauds) ==
    /\ txBaud \in bauds
    /\ txCount = 5 /\ txZero = FALSE
    /\ txState = TxIdle /\ txBits = AllOnes
    /\ txLine = 1 /\ txBusy = TRUE

\* Offered the bytes wr (none or one), it accepts one when it is not busy.
TxAccepts(wr) == wr # {} /\ ~txBusy

TxStateShort(accepts) ==                \* mutant: no stop bit
    CASE ~txZero                       -> txState' = txState /\ txBusy' = TRUE
      [] txZero /\ txState = TxIdle    -> /\ txState' = IF accepts THEN 0 ELSE TxIdle
                                          /\ txBusy' = accepts
      [] txZero /\ txState < TxIdle    -> /\ txState' = IF txState < TxStop THEN txState + 1
                                                        ELSE TxIdle
                                          /\ txBusy' = TRUE

TxStateClock(accepts) ==
    CASE ~txZero                       -> txState' = txState /\ txBusy' = TRUE
      [] txZero /\ txState = TxIdle    -> /\ txState' = IF accepts THEN 0 ELSE TxIdle
                                          /\ txBusy' = accepts
      [] txZero /\ txState < TxIdle    -> /\ txState' = IF txState <= TxStop THEN txState + 1
                                                        ELSE TxIdle
                                          /\ txBusy' = TRUE

TxDataClock(accepts, wr) ==
    CASE accepts           -> txBits' \in wr /\ txLine' = 0
      [] ~accepts /\ txZero  -> txBits' = ShiftIn(1, txBits) /\ txLine' = Head(txBits)
      [] ~accepts /\ ~txZero -> UNCHANGED <<txBits, txLine>>

TxBaudClock(accepts) ==
    /\ txCount' = CASE accepts \/ (txState # TxIdle /\ txZero) -> txBaud - 1
                    [] ~accepts /\ txState = TxIdle            -> 0
                    [] txState # TxIdle /\ ~txZero             -> txCount - 1
    /\ txZero' = IF txState = TxIdle THEN ~accepts ELSE txCount = 1

TxClock(wr) ==
    /\ TxStateClock(TxAccepts(wr))
    /\ TxDataClock(TxAccepts(wr), wr)
    /\ TxBaudClock(TxAccepts(wr))
    /\ UNCHANGED txBaud
=============================================================================
