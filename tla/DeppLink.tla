------------------------------ MODULE DeppLink ------------------------------
(***************************************************************************)
(* Characters on their way from the board to the host over the parallel    *)
(* port: rtl/deppbyte.v and DEPPI (sw/host/deppi.cpp).  The board cannot   *)
(* send by itself.  Every read of register 0 takes the byte in o_depp, and *)
(* in the clock after it the register is filled again: with a character,   *)
(* or with stuffing, the last character and the high bit.  The host weeds  *)
(* repeated stuffing out and queues the rest.                              *)
(***************************************************************************)
EXTENDS Integers, Sequences, SequencesExt

CONSTANTS Chars,        \* characters the board sends, codes and line ends
          RcvBufMask,   \* RCV_BUFMASK, bytes the host's queue can hold
          PktLen,       \* PKTLEN, bytes of one transfer
          First, More,  \* bytes poll() asks for, at first and then again
          Spare,        \* room poll() leaves in the queue
          Lens,         \* lengths asked of read()
          MaxChars      \* bound on characters sent

VARIABLES txq,          \* characters the board has to send
          lastchar,     \* i_tx_data, the last of them
          depp,         \* o_depp
          rbuf,         \* DEPPI's queue, m_rbuf from m_rend to m_rbeg
          op,           \* the call in progress: its kind and what is left
          pkt,          \* m_rxbuf, a transfer in progress
          onway,        \* codes sent and not yet handed to a caller (history)
          nsent         \* characters sent
vars == <<txq, lastchar, depp, rbuf, op, pkt, onway, nsent>>

Stuff(c) == 128 + c
Filler(v) == v >= 128 \/ v < 16     \* stuffing and line ends; the rest are codes

(* The queue q, and behind it the bytes of s in the places of keep.        *)
Sifted(q, s, keep) ==
  LET kept[i \in 0 .. Len(s)] == IF i = 0 THEN q
                                 ELSE IF i \in keep THEN Append(kept[i - 1], s[i])
                                 ELSE kept[i - 1]
  IN  kept[Len(s)]
Codes(s) == Sifted(<<>>, s, {i \in DOMAIN s : ~Filler(s[i])})
Idle == [k |-> "idle", left |-> 0, raw |-> 0]

Init == /\ txq = <<>> /\ lastchar = 0 /\ depp = 255 /\ pkt = <<>>
        /\ rbuf = <<>> /\ onway = <<>> /\ nsent = 0
        /\ op = [k |-> "flush", left |-> 0, raw |-> 0]

(* The board has one more character to send.                               *)
Send(c) == /\ nsent < MaxChars /\ nsent' = nsent + 1
           /\ txq' = Append(txq, c)
           /\ onway' = onway \o Codes(<<c>>)
           /\ UNCHANGED <<lastchar, depp, rbuf, op, pkt>>

----------------------------------------------------------------------------
Free == RcvBufMask - Len(rbuf)
Least2(a, b) == IF a < b THEN a ELSE b

(* raw_read(n): as many bytes as fit into the queue and a transfer.        *)
RawRead(n) == op' = [op EXCEPT !.raw = Least2(n, Least2(Free, PktLen))]

(* One byte of it.                                                         *)
Transfer ==
  /\ op.raw > 0 /\ op' = [op EXCEPT !.raw = @ - 1]
  /\ pkt' = Append(pkt, depp)
  /\ IF txq = <<>> THEN depp' = Stuff(lastchar) /\ UNCHANGED <<txq, lastchar>>
     ELSE depp' = Head(txq) /\ lastchar' = Head(txq) /\ txq' = Tail(txq)
  /\ UNCHANGED <<rbuf, onway, nsent>>

(* The byte before the i-th of bytes, as push_fifo() remembers it.         *)
Before(bytes, i) == IF i > 1 THEN bytes[i - 1] ELSE IF rbuf = <<>> THEN 0 ELSE Last(rbuf)

\* mutant: whatever is repeated is skipped
PushedOnce(bytes) ==
  Sifted(rbuf, bytes, {i \in DOMAIN bytes : bytes[i] \notin {255, Before(bytes, i)}})

(* push_fifo(): what goes into the queue.  A filler byte like the one      *)
(* before it is skipped, and so is the byte that says "nothing yet".       *)
Pushed(bytes) ==
  Sifted(rbuf, bytes, {i \in DOMAIN bytes : /\ bytes[i] # 255
                                            /\ Filler(bytes[i]) => bytes[i] # Before(bytes, i)})

(* pop_fifo(), into the caller's buffer.                                   *)
Pop(q, n) ==
  LET m == Least2(Len(q), n)
  IN  /\ rbuf' = SubSeq(q, m + 1, Len(q))
      /\ onway' = SubSeq(onway, Len(Codes(SubSeq(q, 1, m))) + 1, Len(onway))
      /\ op' = [op EXCEPT !.left = @ - m, !.k = IF m = 0 \/ m = op.left THEN "idle" ELSE @]

(* poll(): whether there is anything for the caller.  The first bytes of   *)
(* the queue are looked at, and when it has none to show, the board is     *)
(* asked, for as long as what comes last is a code and there is room.      *)
Nothing(q) == q = <<>> \/ (Len(q) = 1 /\ Filler(q[1]))
Polled(q, yes) == /\ rbuf' = q
                  /\ op' = [op EXCEPT !.k = IF op.k = "flush" /\ yes THEN "flush"
                                            ELSE IF yes THEN "yes" ELSE "no",
                                      !.left = 0]

(* A transfer is complete, and the call that asked for it goes on.  "again"*)
(* remembers the length of the queue before the transfer.                  *)
Complete ==
  /\ op.raw = 0 /\ pkt # <<>> /\ pkt' = <<>>
  /\ LET q == Pushed(pkt)
     IN  \/ op.k = "read" /\ Pop(q, op.left)
         \/ /\ op.k \in {"poll", "flush"} /\ UNCHANGED onway
            /\ LET more == /\ q # <<>> /\ ~Filler(Last(q)) /\ Len(q) < RcvBufMask - Spare
                           /\ op.left = 0 \/ op.left # Len(q)
               IN  IF more THEN /\ rbuf' = q
                                /\ op' = [op EXCEPT !.left = Len(q),
                                    !.raw = Least2(More, Least2(RcvBufMask - Len(q), PktLen))]
                   ELSE Polled(q, ~Nothing(q))
  /\ UNCHANGED <<txq, lastchar, depp, nsent>>

(* The calls: read(n), which takes what is queued and asks for the rest    *)
(* until nothing comes; poll(); the constructor's flush_read().            *)
Ready == op.raw = 0 /\ pkt = <<>>

Read(n) == /\ Ready /\ op.k \in {"idle", "yes", "no"}
           /\ LET m == Least2(Len(rbuf), n)
              IN  /\ rbuf' = SubSeq(rbuf, m + 1, Len(rbuf))
                  /\ onway' = SubSeq(onway, Len(Codes(SubSeq(rbuf, 1, m))) + 1, Len(onway))
                  /\ op' = IF m = n THEN Idle
                           ELSE [k |-> "read", left |-> n - m,
                                 raw |-> Least2(n - m, Least2(RcvBufMask - Len(rbuf) + m, PktLen))]
           /\ UNCHANGED <<txq, lastchar, depp, pkt, nsent>>

ReadMore == /\ Ready /\ op.k = "read"
            /\ \/ RawRead(op.left)
               \/ op' = Idle              \* its time is up
            /\ UNCHANGED <<txq, lastchar, depp, rbuf, pkt, onway, nsent>>

Poll == /\ Ready /\ op.k \in {"idle", "yes", "no"}
        /\ op' = IF Nothing(rbuf)
                 THEN [k |-> "poll", left |-> 0, raw |-> Least2(First, Least2(Free, PktLen))]
                 ELSE [Idle EXCEPT !.k = "yes"]
        /\ UNCHANGED <<txq, lastchar, depp, rbuf, pkt, onway, nsent>>

Flush == /\ Ready /\ op.k = "flush"
         /\ rbuf' = <<>>
         /\ onway' = SubSeq(onway, Len(Codes(rbuf)) + 1, Len(onway))
         /\ op' = [op EXCEPT !.left = 0, !.raw = Least2(First, Least2(RcvBufMask, PktLen))]
         /\ UNCHANGED <<txq, lastchar, depp, pkt, nsent>>

Next == \/ \E c \in Chars : Send(c)
        \/ Transfer \/ Complete \/ ReadMore \/ Poll \/ Flush
        \/ \E n \in Lens : Read(n)

Spec == Init /\ [][Next]_vars

----------------------------------------------------------------------------
TypeInv == /\ Len(rbuf) <= RcvBufMask /\ Len(pkt) <= PktLen
           /\ op.k \in {"idle", "read", "poll", "flush", "yes", "no"}

(* No code is lost, repeated or overtaken between LfVMD2 and the caller of *)
(* read(): what has not been handed over is in one of the places on the    *)
(* way, in order (deppbyte.v's one clock; push_fifo's skipping).           *)
CodesIntact == onway = Codes(rbuf \o pkt \o <<depp>> \o txq)

(* When poll() says no, no code is waiting in the host's queue, where the  *)
(* caller, who will not read now, would leave it.                          *)
PollHonest == op.k = "no" => Codes(rbuf) = <<>>
=============================================================================
