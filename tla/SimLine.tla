------------------------------- MODULE SimLine -------------------------------
(***************************************************************************)
(* The serial port of the simulated board's far end, UARTSIM               *)
(* (sim/verilator/uartsim.cpp), one call of nettick() or fdtick() per      *)
(* clock, and the simulated board's port joined to it, as zip_sim.cpp      *)
(* joins them: each clock the simulator's tick sees the board's output of  *)
(* this clock and sets the input the board registers next.  One direction  *)
(* is busy at a time.  Every action is one clock.                          *)
(*                                                                         *)
(* Frames are eight bits, no parity, one stop bit (setup(25)).  A byte is  *)
(* the sequence of its bits, the first to be sent first.                   *)
(***************************************************************************)
EXTENDS TxUartLite, RxUartLite

CONSTANT SimBaud        \* m_baud_counts

VARIABLES simRx,        \* m_rx_*: the receiver; out is the byte it completes
          simTx,        \* m_tx_*: the transmitter and o_rx
          conn          \* "net", "fd"; without a peer "none", with descriptors
                        \* that failed "gone"
simVars == <<simRx, simTx, conn>>

FrameBits == 9                          \* data and stop bits
Quiet == 16 * SimBaud                   \* bound: m_rx_changectr is capped here

SimInit ==
  /\ simRx = [busy |-> FALSE, count |-> 0, bits |-> <<>>, change |-> Quiet,
              last |-> 1, out |-> <<>>]     \* the first clock sees an idle line
  /\ simTx = [count |-> 0, bits |-> <<>>, line |-> 1]
  /\ conn \in {"fd", "none"}

\* mutant: half a baud, as if counted to the middle of the start bit
HalfBaudDelay(change) == (SimBaud \div 2) - 1 - change
FirstBitDelay(change) == SimBaud + (SimBaud \div 2) - 1 - change

(* The receiver.  It finds a start bit by its level, however late, and     *)
(* allows for the clocks since the line fell.                              *)
SimRxClock(line) ==
  LET change == IF line = 0 /\ simRx.last = 1 THEN 0
                ELSE IF simRx.change < Quiet THEN simRx.change + 1 ELSE Quiet
      r == [simRx EXCEPT !.change = change, !.last = line, !.out = <<>>]
  IN  simRx' =
       IF ~r.busy THEN
         IF line = 1 THEN r
         ELSE [r EXCEPT !.busy = TRUE, !.bits = <<>>,
                        !.count = FirstBitDelay(change)]
       ELSE IF r.count > 0 THEN [r EXCEPT !.count = @ - 1]
       ELSE IF Len(r.bits) < FrameBits
       THEN [r EXCEPT !.bits = Append(@, line), !.count = SimBaud - 1]
       ELSE [r EXCEPT !.busy = FALSE, !.out = SubSeq(@ \o r.bits, 1, 8),
                      !.count = SimBaud - 1]

(* The transmitter, offered the bytes its descriptor has (none or one).    *)
SimAccepts(offered) == offered # {} /\ simTx.bits = <<>> /\ conn \in {"net", "fd"}
SimTxClock(offered) ==
  \/ /\ SimAccepts(offered)
     /\ \E b \in offered : simTx' = [count |-> SimBaud - 1, line |-> 0,
                                     bits |-> <<0>> \o b \o <<1>>]
  \/ /\ ~SimAccepts(offered) /\ simTx.bits = <<>>
     /\ simTx' = [simTx EXCEPT !.line = 1]
  \/ /\ simTx.bits # <<>> /\ simTx.count > 0
     /\ simTx' = [simTx EXCEPT !.count = @ - 1, !.line = Head(simTx.bits)]
  \/ /\ simTx.bits # <<>> /\ simTx.count = 0
     /\ simTx' = LET rest == Tail(simTx.bits)
                 IN  [bits |-> rest, count |-> IF rest = <<>> THEN 0 ELSE SimBaud - 1,
                      line |-> IF rest = <<>> THEN 1 ELSE Head(rest)]

(* nettick(): a listener without a peer accepts one, and loses it when a   *)
(* byte cannot be sent.                                                    *)
NetTick(line, offered) ==
  /\ conn \in {"net", "none"} /\ SimRxClock(line) /\ SimTxClock(offered)
  /\ conn' \in (IF simRx'.out # <<>> THEN {conn, "none"} ELSE {conn})
               \cup (IF conn = "none" THEN {"net"} ELSE {})

(* fdtick(): descriptors that fail are given up.                           *)
FdTick(line, offered) ==
  /\ conn = "fd" /\ SimRxClock(line) /\ SimTxClock(offered)
  /\ conn' \in {"fd"} \cup (IF simRx'.out # <<>> \/ (simTx.bits = <<>> /\ ~SimAccepts(offered))
                           THEN {"gone"} ELSE {})
(* Once they are, m_tx_data is shifted, with zeroes, in every clock, and   *)
(* the line goes low for good.                                             *)
GoneTick(line) ==
  /\ conn = "gone" /\ SimRxClock(line) /\ UNCHANGED conn
  /\ IF simTx.bits # <<>> THEN SimTxClock({})
     ELSE \E level \in {simTx.line, 0} : simTx' = [simTx EXCEPT !.line = level]

SimTick(line, offered) == NetTick(line, offered) \/ FdTick(line, offered) \/ GoneTick(line)

-----------------------------------------------------------------------------
(***************************************************************************)
(* The line.                                                               *)
(***************************************************************************)
CONSTANTS Bytes,        \* bytes that are sent
          Bauds         \* the board's idea of a baud, in clocks

VARIABLES dir,          \* "out", board to simulator, or "in"
          offer,        \* the byte to be sent next, none or one
          flying        \* bytes accepted by a sender and not yet received
vars == <<txVars, rxVars, simVars, dir, offer, flying>>

Init == /\ TxInit(Bauds) /\ RxInit /\ SimInit
        /\ dir \in {"out", "in"} /\ offer = {} /\ flying = <<>>

Out == dir = "out"
Accepted == IF Out THEN TxAccepts(offer) ELSE SimAccepts(offer)
Received == IF Out THEN {simRx.out} \ {<<>>} ELSE {b \in {byte} : wr}

Wires(next) ==
  /\ IF Out THEN TxClock(offer) ELSE UNCHANGED txVars
  /\ SimTick(IF Out THEN txLine ELSE 1, IF Out THEN {} ELSE offer)
  /\ IF Out THEN UNCHANGED rxVars ELSE RxClock(simTx'.line)
  /\ flying' = (IF Received # {} /\ flying # <<>> THEN Tail(flying) ELSE flying)
               \o (IF Accepted THEN <<CHOOSE b \in offer : TRUE>> ELSE <<>>)
  /\ offer' = (IF Accepted THEN {} ELSE offer) \cup next
  /\ UNCHANGED dir

Idle == Wires({})
Give == offer = {} /\ \E b \in Bytes : Wires({b})
Next == Idle \/ Give

Spec == Init /\ [][Next]_vars

(* What comes out of either end is the oldest byte on the wire, bit by bit,*)
(* although UARTSIM looks for a start bit half a baud after it began       *)
(* (m_rx_changectr).  Without its input, UARTSIM holds the line low, and   *)
(* the board reads that as bytes.                                          *)
BytesIntact == Received # {} /\ (Out \/ conn # "gone")
                 => flying # <<>> /\ Received = {Head(flying)}

(* Neither receiver falls behind.                                          *)
KeepsUp == Len(flying) <= 2
=============================================================================
