------------------------------ MODULE PipeFifo ------------------------------
(***************************************************************************)
(* What a ZipOS pipe promises its users (sw/zipos/syspipe.h, syspipe.c):   *)
(* bytes come out in the order in which write() handed them over, none is  *)
(* lost, repeated or invented, and a write() that has returned has left at *)
(* most Capacity of its bytes behind in the pipe.                          *)
(*                                                                         *)
(* Bytes carry the number of their place in the order of the write calls,  *)
(* so the bytes that are still on their way are Len(out) .. accepted - 1.  *)
(***************************************************************************)
EXTENDS Naturals, Sequences

CONSTANTS Capacity,     \* bytes the buffer holds: m_mask
          WriteLens,    \* lengths that write() is called with
          Limit         \* bound: bytes written in all

VARIABLES accepted,     \* bytes handed over by write calls
          out,          \* every byte delivered, in order
          busy          \* a write call is in progress

fifoVars == <<accepted, out, busy>>

Init == accepted = 0 /\ out = <<>> /\ busy = FALSE

\* A write call begins; a pipe has one writer at a time.
Write(n) == /\ ~busy
            /\ accepted + n <= Limit
            /\ accepted' = accepted + n
            /\ busy' = TRUE
            /\ UNCHANGED out

\* The oldest byte that is still on its way is delivered.
Deliver == /\ Len(out) < accepted
           /\ out' = Append(out, Len(out))
           /\ UNCHANGED <<accepted, busy>>

\* The write call returns: whatever is not delivered fits into the buffer.
Return == /\ busy
          /\ accepted - Len(out) <= Capacity
          /\ busy' = FALSE
          /\ UNCHANGED <<accepted, out>>

Next == \/ \E n \in WriteLens \ {0} : Write(n)
        \/ Deliver
        \/ Return

Spec == Init /\ [][Next]_fifoVars

\* Every byte is delivered and every call returns.
FairSpec == Spec /\ WF_fifoVars(Deliver) /\ WF_fifoVars(Return)
=============================================================================
