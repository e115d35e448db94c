---------------------------- MODULE MCSerialLine ----------------------------
(***************************************************************************)
(* The board's serial port with, at the other end of the line, another     *)
(* board (SerialLine) or the simulator's UARTSIM (SimLine).                *)
(***************************************************************************)
EXTENDS SerialLine

VARIABLES far, simRx, simTx, conn, dir, offer
simState == <<simRx, simTx, conn, dir, offer>>

TestBytes == {<<0, 0, 0, 0, 0, 0, 0, 0>>, <<1, 1, 1, 1, 1, 1, 1, 1>>,
              <<0, 1, 0, 1, 0, 1, 0, 1>>, <<1, 0, 0, 0, 1, 1, 1, 0>>}

Sim == INSTANCE SimLine WITH SimBaud <- RxBaud, Bauds <- {RxBaud}

MCInit == \/ /\ far = "board" /\ Init
             /\ simRx = 0 /\ simTx = 0 /\ conn = 0 /\ dir = 0 /\ offer = 0
          \/ /\ far = "simulator" /\ Sim!Init /\ PortInit(AllZeroes)

MCNext == /\ UNCHANGED far
          /\ \/ far = "board" /\ Next /\ UNCHANGED simState
             \/ far = "simulator" /\ Sim!Next /\ UNCHANGED portVars

\* The clock of SerialLine runs (FairSpec there).
MCFair == far = "board" /\ Idle /\ UNCHANGED <<far, simState>>
MCSpec == MCInit /\ [][MCNext]_<<vars, far, simState>> /\ WF_<<vars, far, simState>>(MCFair)

-----------------------------------------------------------------------------
\* The properties of the two modules (stated and explained there).
LineIntact  == IF far = "board" THEN BytesIntact ELSE Sim!BytesIntact
LineKeepsUp == IF far = "board" THEN KeepsUp ELSE Sim!KeepsUp
LineArrives == far = "board" /\ (txStb \/ flying # <<>>) ~> wr
=============================================================================
