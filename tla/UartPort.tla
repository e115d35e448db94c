------------------------------ MODULE UartPort ------------------------------
(***************************************************************************)
(* The UART's register (rtl/busmaster.v): one byte out, held until the     *)
(* transmitter takes it, and one byte in, held until it is read.           *)
(***************************************************************************)

VARIABLES txStb, txData,        \* a byte waits for the transmitter
          rxRdy, rxData         \* a byte waits for the CPU

portVars == <<txStb, txData, rxRdy, rxData>>

PortInit(byte) ==
    /\ txStb = FALSE /\ txData = byte
    /\ rxRdy = FALSE /\ rxData = byte

TxPortPulse(written, busy) ==           \* mutant: does not wait for the transmitter
    /\ txStb' = (written # {})
    /\ IF written = {} THEN txData' = txData ELSE txData' \in written

\* Bytes written in this clock (none or one); is the transmitter busy?
TxPortClock(written, busy) ==
    /\ txStb' = (written # {} \/ (txStb /\ busy))
    /\ IF written = {} THEN txData' = txData ELSE txData' \in written

RxPortReadWins(read, arrived) ==        \* mutant
    /\ rxRdy' = (~read /\ (rxRdy \/ arrived # {}))
    /\ IF arrived = {} THEN rxData' = rxData ELSE rxData' \in arrived

\* Is the register read in this clock?  Bytes that arrive in it (none or one).
RxPortClock(read, arrived) ==
    /\ rxRdy' = (arrived # {} \/ (rxRdy /\ ~read))
    /\ IF arrived = {} THEN rxData' = rxData ELSE rxData' \in arrived
=============================================================================
