----------------------------- MODULE SerialLine -----------------------------
(***************************************************************************)
(* A serial line: a CPU that writes bytes to the UART's port, the          *)
(* transmitter, a wire, and at the other end a receiver of the same design *)
(* and the CPU that reads its port.  The two ends may disagree on how long *)
(* a baud is.  Every action is one clock of the board.                     *)
(***************************************************************************)
EXTENDS TxUartLite, RxUartLite, UartPort

CONSTANTS Bytes,        \* bytes that are sent
          Bauds         \* the transmitter's idea of a baud, in clocks

VARIABLE flying         \* bytes accepted by the transmitter and not yet received

vars == <<txVars, rxVars, portVars, flying>>

Init == /\ TxInit(Bauds) /\ RxInit /\ PortInit(AllZeroes)
        /\ flying = <<>>

-----------------------------------------------------------------------------
Offered == {b \in {txData} : txStb}
Arrives == {b \in {byte} : wr}

Wires(written, read) ==
    /\ TxPortClock(written, txBusy)
    /\ RxPortClock(read, Arrives)
    /\ TxClock(Offered)
    /\ RxClock(txLine)
    /\ flying' = (IF wr /\ flying # <<>> THEN Tail(flying) ELSE flying)
                 \o (IF TxAccepts(Offered) THEN <<txData>> ELSE <<>>)

Idle == Wires({}, FALSE)

\* The kernel writes only when the last byte was taken (UARTTX).
Write == ~txStb /\ \E b \in Bytes : Wires({b}, FALSE)

Read == rxRdy /\ Wires({}, TRUE)

Next == Idle \/ Write \/ Read

\* The clock runs while there is something for it to change; the CPU need not
\* write or read again, nor can it in every clock.
FairSpec == Init /\ [][Next]_vars /\ WF_vars(Idle)

-----------------------------------------------------------------------------
(***************************************************************************)
(* Properties                                                              *)
(***************************************************************************)
\* What the receiver puts out is the oldest byte on the wire, bit by bit,
\* however long the line was idle and however close the bytes follow: the
\* start bit is found in its middle (rxuartlite.v half_baud_time), the stop
\* bit leaves enough time to look for the next one.
BytesIntact == wr => /\ flying # <<>>
                     /\ byte = Head(flying)

\* The receiver is back in time for the next byte: no more than one byte
\* is on the wire besides the one being started.
KeepsUp == Len(flying) <= 1

\* A byte written to the port is held until the transmitter takes it
\* (busmaster.v:514-521), and is received in the end.
BytesArrive == (txStb \/ flying # <<>>) ~> wr
=============================================================================
