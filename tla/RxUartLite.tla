----------------------------- MODULE RxUartLite -----------------------------
(***************************************************************************)
(* The UART's receiver (rtl/rxuartlite.v), clock by clock.                 *)
(***************************************************************************)
EXTENDS Integers, Sequences

CONSTANT RxBaud         \* CLOCKS_PER_BAUD

ASSUME RxBaudAssumption == RxBaud \in Nat /\ RxBaud >= 4

VARIABLES q, qq, ck,            \* the line, registered three times
          chg,                  \* clocks since it changed
          halfBaud,             \* low for half a baud: a start bit
          rxCount, rxZero, rxState, rxBits,
          wr, byte              \* the output: for one clock, a byte

rxVars == <<q, qq, ck, chg, halfBaud, rxCount, rxZero, rxState, rxBits, wr, byte>>

RxStop == 8
RxIdle == 15
AllZeroes == [i \in 1 .. 8 |-> 0]
HalfBaud == (RxBaud \div 2) - 1

RxInit ==
    /\ q = 0 /\ qq = 0 /\ ck = 0 /\ chg = 0 /\ halfBaud = FALSE
    /\ rxCount = 0 /\ rxZero = FALSE /\ rxState = RxIdle /\ rxBits = AllZeroes
    /\ wr = FALSE /\ byte = AllZeroes

\* The change counter is only compared with HalfBaud: it is capped there.
RxLineClock(line) ==
    /\ q' = line /\ qq' = q /\ ck' = qq
    /\ chg' = IF qq # ck THEN 0 ELSE IF chg < HalfBaud THEN chg + 1 ELSE chg
    /\ halfBaud' = (ck = 0 /\ chg >= HalfBaud)

RxStateClock ==
    rxState' = CASE rxState = RxIdle             -> IF ck = 0 /\ halfBaud THEN 0 ELSE RxIdle
                 [] rxState # RxIdle /\ ~rxZero  -> rxState
                 [] rxState # RxIdle /\ rxZero   -> IF rxState < RxStop THEN rxState + 1
                                                    ELSE RxIdle

RxDataClock ==
    /\ rxBits' = IF rxZero THEN Append(Tail(rxBits), ck) ELSE rxBits
    /\ wr' = (rxZero /\ rxState = RxStop)
    /\ byte' = IF rxZero /\ rxState = RxStop THEN rxBits ELSE byte

RxBaudClock ==
    /\ rxCount' = IF rxZero \/ rxState = RxIdle THEN RxBaud - 1 ELSE rxCount - 1
    /\ rxZero' = (rxState # RxIdle /\ rxCount = 1)

RxClock(line) == RxLineClock(line) /\ RxStateClock /\ RxDataClock /\ RxBaudClock
=============================================================================
