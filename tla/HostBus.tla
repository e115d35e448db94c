------------------------------- MODULE HostBus -------------------------------
(***************************************************************************)
(* A host program reads and writes the board's bus through TTYBUS          *)
(* (sw/host/ttybus.cpp).  Both ends of the link keep an address and tables *)
(* of the words they have sent, so as to send less; neither end ever sends *)
(* the other a copy of them.  The host is modelled call by call: what a    *)
(* call sends, and each code it takes off the link.  The board             *)
(* (rtl/wbubus.v) decodes, executes and answers the codewords in order.    *)
(***************************************************************************)
EXTENDS HostCode, Sequences, SequencesExt

CONSTANTS Addr,         \* word addresses where a device answers
          Hanging,      \* those where none ever does: the watchdog resets;
                        \* anywhere else the bus answers with an error
          Val,          \* words
          Junk,         \* what the host's table holds before it is written
          Calls,        \* the calls: [k, a, inc, len], vals in a write
          MaxCalls,     \* bound on calls and restarts
          ReadBlock,    \* READBLOCK, words asked for at a time
          MaxWrLen,     \* MAXWRLEN, words sent at a time
          WrReach,      \* how far back a write may refer (255)
          MaxInt        \* bound on interrupts

ASSUME HostAssumption == /\ Addr \cup Hanging \subseteq 0 .. Digit^4 - 1
                         /\ Addr \cap Hanging = {}
                         /\ Junk \notin Val
                         /\ {ReadBlock, MaxWrLen, WrReach} \subseteq Nat \ {0}
                         /\ Val # {} /\ {MaxCalls, MaxInt} \subseteq Nat

\* A call is about a word at least (readv returns without one), at an address of the board.
ASSUME CallsAssumption ==
  Calls \subseteq
    {c \in [k : {"read"}, a : 0 .. Digit^4 - 1, inc : BOOLEAN, len : Nat] \cup
           [k : {"write"}, a : 0 .. Digit^4 - 1, inc : BOOLEAN, len : Nat, vals : Seq(Val)] \cup
           [k : {"wait"}, a : 0 .. Digit^4 - 1, inc : BOOLEAN, len : Nat] :
       /\ c.k \in {"read", "write"} => c.len > 0
       /\ c.k = "write" => c.len = Len(c.vals)}

VARIABLES h,      \* the host's TTYBUS object and the call it is in
          down,   \* codewords on their way to the board
          board,  \* the board's decoder, executor and compressor
          up,     \* codes on their way to the host
          eol,    \* the board's last code was a line end
          mem,    \* the words on the bus
          hist    \* what was asked, done and answered
vars == <<h, down, board, up, eol, mem, hist>>

(* TTYBUS::init(), a program that starts.                                  *)
Fresh == [pc |-> "idle", call |-> <<>>, vals |-> <<>>, n |-> 0, cmdrd |-> 0,
          idles |-> 0, lastaddr |-> 0, addrset |-> FALSE, rdtbl |-> <<>>,
          rdaddr |-> 0, wrtbl |-> <<>>, intr |-> FALSE]

Init == /\ h = Fresh /\ down = <<>> /\ up = <<>> /\ eol = TRUE
        /\ board = [st |-> "idle", addr |-> 0, newaddr |-> TRUE,
                    rdtbl |-> <<>>, wrtbl |-> <<>>, left |-> MaxInt]
        /\ mem = [a \in Addr |-> CHOOSE v \in Val : TRUE]
        /\ hist = [asked |-> <<>>, astray |-> FALSE, served |-> <<>>, last |-> <<>>,
                   failed |-> {}, stale |-> FALSE, calls |-> 0]

----------------------------------------------------------------------------
(* The host's side of the tables.                                          *)

(* The word `back' places before the end of a table; the part of a table   *)
(* of writes that can still be referred to.                                *)
Back(tbl, back) == tbl[Len(tbl) + 1 - back]
Recent(tbl) == IF Len(tbl) <= WrReach THEN tbl ELSE Tail(tbl)

(* A word that goes whole enters the table, at either end.                 *)
Enter(tbl, code) == IF code.k = "wr" THEN Recent(Append(tbl, code.v)) ELSE tbl

(* writev(): a word that the write table holds goes as its distance.       *)
EncodeWord(tbl, v, inc) ==
  LET at == {i \in 1 .. WrReach : i <= Len(tbl) /\ Back(tbl, i) = v}
  IN  IF at = {} THEN [k |-> "wr", v |-> v, inc |-> inc]
      ELSE [k |-> "wt", v |-> Least(at), inc |-> inc]

(* The codewords of a run of words, and the table they leave behind.       *)
Encoded(e, v, inc) ==
  LET code == EncodeWord(e.tbl, v, inc)
  IN  [codes |-> Append(e.codes, code), tbl |-> Enter(e.tbl, code)]
EncodeWords(tbl, words, inc) ==
  LET sent[i \in 0 .. Len(words)] == IF i = 0 THEN [codes |-> <<>>, tbl |-> tbl]
                                     ELSE Encoded(sent[i - 1], words[i], inc)
  IN  sent[Len(words)]

(* readword(): the word a table reference stands for.  The index is taken  *)
(* modulo the table, so that one before its start finds what was left      *)
(* there; m_readtbl is not cleared.                                        *)
TableWord(back) == IF back <= h.rdaddr THEN h.rdtbl[h.rdaddr + 1 - back] ELSE Junk

Smaller(a, b) == IF a < b THEN a ELSE b
Step(inc) == IF inc THEN 1 ELSE 0

(* A call starts: encode_address() and what it leaves in the object.       *)
Address(a) == EncodeAddress(h.addrset, h.lastaddr, a)
Addressed(a) ==
  IF Address(a) = <<>> THEN h ELSE [h EXCEPT !.rdaddr = 0, !.rdtbl = <<>>]

(* The words of a write call still to be sent, as far as one chunk goes.   *)
Chunk(call, vals, n) == SubSeq(vals, n + 1, Smaller(n + MaxWrLen, call.len))

(* writev(), its first chunk or a later one: the words, and a line end     *)
(* after the last.                                                         *)
Written(o, call, vals, n, prefix) ==
  LET words == Chunk(call, vals, n)
      enc   == EncodeWords(o.wrtbl, words, call.inc)
      end   == IF n + Len(words) = call.len THEN <<[k |-> "nl"]>> ELSE <<>>
  IN  /\ down' = down \o prefix \o enc.codes \o end
      /\ h' = [o EXCEPT !.pc = "drain", !.wrtbl = enc.tbl, !.n = n + Len(words),
                        !.idles = IF end = <<>> THEN 1 ELSE 2,
                        !.lastaddr = @ + Len(words) * Step(call.inc)]

WriteCall(call, vals) ==
  /\ Written([Addressed(call.a) EXCEPT !.call = <<call>>, !.vals = vals,
                !.lastaddr = call.a, !.addrset = TRUE],
             call, vals, 0, Address(call.a))
  /\ hist' = [hist EXCEPT
       !.asked = @ \o [i \in 1 .. call.len |->
                         <<call.a + (i - 1) * Step(call.inc), vals[i]>>],
       !.stale = @ \/ Address(call.a) # <<>>, !.calls = @ + 1, !.last = <<>>]

\* mutant: a whole block, whatever is left to read
ReadBlocksOnly(o, prefix) ==
  /\ down' = down \o prefix
             \o <<[k |-> "rd", v |-> ReadBlock, inc |-> o.call[1].inc], [k |-> "nl"]>>
  /\ h' = [o EXCEPT !.pc = "read", !.cmdrd = Smaller(@ + ReadBlock, o.call[1].len)]

(* readv(): one read command at a time, and its words are awaited.         *)
ReadCommand(o, prefix) ==
  LET n == Smaller(o.call[1].len - o.cmdrd, ReadBlock)
  IN  /\ down' = down \o prefix
                 \o <<[k |-> "rd", v |-> n, inc |-> o.call[1].inc], [k |-> "nl"]>>
      /\ h' = [o EXCEPT !.pc = "read", !.cmdrd = @ + n]

ReadCall(call) ==
  /\ ReadCommand([Addressed(call.a) EXCEPT !.call = <<call>>, !.vals = <<>>,
                    !.n = 0, !.cmdrd = 0],
                 Address(call.a))
  /\ hist' = [hist EXCEPT !.last = <<>>, !.calls = @ + 1,
                          !.stale = @ /\ Address(call.a) = <<>>]

(* wait(): until the interrupt flag is up.                                 *)
WaitCall(call) == /\ h' = [h EXCEPT !.pc = "wait", !.call = <<call>>]
                  /\ hist' = [hist EXCEPT !.last = <<>>, !.calls = @ + 1]
                  /\ UNCHANGED down

(* The program makes a call.                                               *)
Call == /\ h.pc = "idle" /\ hist.calls < MaxCalls
        /\ \E call \in Calls :
             \/ call.k = "read" /\ ReadCall(call)
             \/ call.k = "write" /\ WriteCall(call, call.vals)
             \/ call.k = "wait" /\ WaitCall(call)
        /\ UNCHANGED <<board, up, eol, mem>>

NextChunk == /\ h.pc = "drain" /\ h.idles = 0 /\ h.n < h.call[1].len
             /\ Written(h, h.call[1], h.vals, h.n, <<>>)
             /\ UNCHANGED <<board, up, eol, mem, hist>>

NextBlock == /\ h.pc = "read" /\ h.n = h.cmdrd /\ h.n < h.call[1].len
             /\ ReadCommand(h, <<>>)
             /\ UNCHANGED <<board, up, eol, mem, hist>>

----------------------------------------------------------------------------
(* The host takes codes off the link.                                      *)

(* The call ends: the values returned, or the error thrown.                *)
Ends(o, how) ==
  /\ h' = [o EXCEPT !.pc = IF how = "exit" THEN "gone" ELSE "idle",
                    !.call = <<>>, !.vals = <<>>, !.n = 0, !.cmdrd = 0, !.idles = 0]
  /\ hist' = [hist EXCEPT !.last = [call |-> o.call[1], how |-> how,
                                    vals |-> o.vals, served |-> hist.served, stale |-> hist.stale],
                           !.served = <<>>]

Throw(o) == Ends([o EXCEPT !.vals = <<>>], "thrown")

(* Codes that carry data move the address the host expects.                *)
Data(code) == code.k \in {"raw", "tbl"}
Word(code) == IF code.k = "raw" THEN code.v ELSE TableWord(code.v)
\* mutant: a word that came as a reference enters the table again
TookTwice(code) ==
  [h EXCEPT !.lastaddr = @ + Step(code.inc), !.rdaddr = @ + 1,
            !.rdtbl = Append(SubSeq(@, 1, h.rdaddr), Word(code))]

Took(code) ==
  [h EXCEPT !.lastaddr = @ + Step(code.inc),
            !.rdtbl = IF code.k = "raw" THEN Append(SubSeq(@, 1, h.rdaddr), code.v) ELSE @,
            !.rdaddr = IF code.k = "raw" THEN @ + 1 ELSE @]

(* readword().                                                             *)
ReadWord ==
  /\ h.pc = "read" /\ h.n < h.cmdrd /\ up # <<>> /\ up' = Tail(up)
  /\ LET code == Head(up) IN
       \/ /\ code.k \in {"nl", "idle", "ack"}
          /\ UNCHANGED <<h, hist>>
       \/ code.k = "int" /\ h' = [h EXCEPT !.intr = TRUE] /\ UNCHANGED hist
       \/ code.k \in {"err", "reset"} /\ Throw(h)
       \/ /\ code.k = "addr" /\ UNCHANGED hist
          /\ h' = [h EXCEPT !.addrset = TRUE, !.lastaddr = code.v]
       \/ /\ Data(code) /\ UNCHANGED hist
          /\ h' = [Took(code) EXCEPT !.vals = Append(@, Word(code)), !.n = @ + 1]
  /\ UNCHANGED <<down, board, eol, mem>>

(* readv(), its end: the address must be where the read leaves it.         *)
ReadDone ==
  /\ h.pc = "read" /\ h.n = h.call[1].len
  /\ LET call == h.call[1]
     IN  Ends(h, IF h.lastaddr = call.a + call.len * Step(call.inc)
                 THEN "returned" ELSE "exit")
  /\ UNCHANGED <<down, board, up, eol, mem>>

(* readidle(): its loop takes a code in the condition and, when there is   *)
(* one, another in the body, and looks at the last; a line end that the    *)
(* condition takes ends the loop, as does an empty link.                   *)
ReadIdle ==
  /\ h.pc = "drain" /\ h.idles > 0
  /\ LET two  == Len(up) > 1
         code == up[IF two THEN 2 ELSE 1]
         done == [h EXCEPT !.idles = @ - 1]
     IN  \/ up = <<>> /\ h' = done /\ UNCHANGED <<up, hist>>
         \/ /\ up # <<>> /\ Head(up).k = "nl"
            /\ up' = Tail(up) /\ h' = done /\ UNCHANGED hist
         \/ /\ up # <<>> /\ Head(up).k # "nl"
            /\ up' = SubSeq(up, IF two THEN 3 ELSE 2, Len(up))
            /\ \/ code.k \in {"nl", "idle", "ack", "addr"} /\ UNCHANGED <<h, hist>>
               \/ code.k = "int" /\ h' = [h EXCEPT !.intr = TRUE] /\ UNCHANGED hist
               \/ code.k \in {"err", "reset"} /\ Throw(h)
               \/ /\ Data(code) /\ h' = [Took(code) EXCEPT !.idles = @ - 1]
                  /\ UNCHANGED hist
  /\ UNCHANGED <<down, board, eol, mem>>

WriteDone == /\ h.pc = "drain" /\ h.idles = 0 /\ h.n = h.call[1].len
             /\ Ends(h, "returned")
             /\ UNCHANGED <<down, board, up, eol, mem>>

(* usleep(), which wait() repeats: of what has come only an interrupt is   *)
(* looked for; acknowledgements and errors alike are dropped.              *)
Wait ==
  /\ h.pc = "wait"
  /\ \E n \in 0 .. Len(up) :
       LET intr == h.intr \/ [k |-> "int"] \in ToSet(SubSeq(up, 1, n))
       IN  /\ up' = SubSeq(up, n + 1, Len(up))
           /\ IF intr THEN Ends([h EXCEPT !.intr = TRUE], "returned")
              ELSE UNCHANGED <<h, hist>>
  /\ UNCHANGED <<down, board, eol, mem>>

(* The program ends, by itself or in exit(-3), and another one starts: it  *)
(* flushes what has arrived (DEPPI::flush_read).                           *)
Restart == /\ h.pc \in {"idle", "gone"} /\ hist.calls \in 1 .. MaxCalls - 1
           /\ h' = Fresh /\ up' = <<>>
           /\ hist' = [hist EXCEPT !.calls = @ + 1]
           /\ UNCHANGED <<down, board, eol, mem>>

----------------------------------------------------------------------------
(* The board: its decoder, with its own table of the words written to it,  *)
(* and its executor.                                                       *)
WrittenWord(code) == IF code.k = "wr" THEN code.v ELSE Back(board.wrtbl, code.v)
Entered(codes) ==
  LET tbl[i \in 0 .. Len(codes)] == IF i = 0 THEN board.wrtbl ELSE Enter(tbl[i - 1], codes[i])
  IN  tbl[Len(codes)]

Unmapped(a) == a \notin Addr \cup Hanging
Answer(codes) == up' = up \o codes /\ eol' = FALSE
Failed(what) == hist' = [hist EXCEPT !.failed = @ \cup {what}, !.asked = <<>>]

\* mutant: the reset clears its own answer too
ResetSilently ==
  /\ down' = <<>> /\ up' = <<>> /\ eol' = FALSE
  /\ board' = [board EXCEPT !.st = "idle", !.newaddr = TRUE]
  /\ Failed("reset") /\ UNCHANGED mem

(* No acknowledgement comes: the watchdog clears the queue of decoded      *)
(* codewords, as many as have come that far, and what has not left the     *)
(* board.  The table of the decoder stands before that queue.              *)
WatchdogReset ==
  /\ \E n \in 1 .. Len(down) :
       /\ down' = SubSeq(down, n + 1, Len(down))
       /\ board' = [board EXCEPT !.st = "idle", !.newaddr = TRUE,
                      !.wrtbl = Entered(SubSeq(down, 1, n))]
  /\ \E n \in 0 .. Len(up) : up' = SubSeq(up, 1, n) \o <<[k |-> "reset"]>>
  /\ eol' = FALSE /\ Failed("reset") /\ UNCHANGED mem

(* A write: the bus takes it and it is acknowledged, or an error is        *)
(* answered and the writes that follow are dropped.                        *)
BoardWrite(code) ==
  LET word == WrittenWord(code)
      then(st) == board' = [board EXCEPT !.st = st, !.newaddr = FALSE,
                    !.wrtbl = Enter(@, code),
                    !.addr = IF board.st = "err" THEN @ ELSE @ + Step(code.inc)]
  IN  \/ board.st = "err" /\ then("err") /\ UNCHANGED <<up, eol, mem, hist>>
      \/ /\ board.st # "err" /\ Unmapped(board.addr) /\ then("err")
         /\ Answer(<<[k |-> "err"]>>) /\ Failed("write") /\ UNCHANGED mem
      \/ /\ board.st # "err" /\ ~Unmapped(board.addr) /\ then("more")
         /\ Answer(<<[k |-> "ack"]>>)
         /\ mem' = [a \in Addr |-> IF a = board.addr THEN word ELSE mem[a]]
         /\ hist' = [hist EXCEPT !.asked = IF @ = <<>> THEN @ ELSE Tail(@),
              !.astray = @ \/ hist.asked = <<>> \/ Head(hist.asked) # <<board.addr, word>>]

(* The answers to a read: a word the table holds may go as a reference to  *)
(* it, if there is time to find it (small[i]); one that goes whole enters  *)
(* the table.                                                              *)
Compress(e, w, small, inc) ==
  LET at == {d \in 1 .. Len(e.tbl) : Back(e.tbl, d) = w}
  IN  IF small /\ at # {}
      THEN [codes |-> Append(e.codes, [k |-> "tbl", v |-> Least(at), inc |-> inc]), tbl |-> e.tbl]
      ELSE [codes |-> Append(e.codes, [k |-> "raw", v |-> w, inc |-> inc]),
            tbl |-> Append(e.tbl, w)]
Compressed(tbl, words, small, inc) ==
  LET sent[i \in 0 .. Len(words)] == IF i = 0 THEN [codes |-> <<>>, tbl |-> tbl]
                                     ELSE Compress(sent[i - 1], words[i], small[i], inc)
  IN  sent[Len(words)]

(* A burst of reads.  The new address is answered first.  An error ends it *)
(* at once, with the answers of strobes already accepted (all but the      *)
(* first n of them) lost.                                                  *)
ReadAt(code, i) == board.addr + (i - 1) * Step(code.inc)
Missing(code) == {i \in 1 .. code.v : ReadAt(code, i) \notin Addr}
Hangs(code) == /\ Missing(code) # {}
               /\ ReadAt(code, Least(Missing(code))) \in Hanging

BoardRead(code) ==
  LET errs == Missing(code) # {}
      good == IF errs THEN Least(Missing(code)) - 1 ELSE code.v
      new  == IF board.newaddr THEN <<[k |-> "addr", v |-> board.addr]>> ELSE <<>>
  IN  \E small \in [1 .. good -> BOOLEAN], n \in IF errs THEN 0 .. good ELSE {good} :
        LET words == [i \in 1 .. n |-> mem[ReadAt(code, i)]]
            enc   == Compressed(IF board.newaddr THEN <<>> ELSE board.rdtbl,
                                words, small, code.inc)
        IN  /\ Answer(new \o enc.codes \o (IF errs THEN <<[k |-> "err"]>> ELSE <<>>))
            /\ board' = [board EXCEPT !.newaddr = FALSE, !.rdtbl = enc.tbl,
                 !.addr = @ + (good + IF errs THEN 1 ELSE 0) * Step(code.inc)]
            /\ hist' = [hist EXCEPT !.served = @ \o words,
                 !.failed = IF errs THEN @ \cup {"read"} ELSE @]
            /\ UNCHANGED mem

(* The executor.  A run of writes must end with a line end; anything else  *)
(* is dropped there, with an error for an answer.                          *)
Exec ==
  /\ down # <<>>
  /\ LET code == Head(down)
         write == code.k \in {"wr", "wt"}
         stop == ~write /\ code.k # "nl" /\ board.st # "idle"
         hang == IF write THEN board.st # "err" /\ board.addr \in Hanging
                 ELSE code.k = "rd" /\ ~stop /\ Hangs(code)
     IN  \/ hang /\ WatchdogReset
         \/ /\ ~hang /\ down' = Tail(down)
            /\ \/ /\ code.k = "nl" /\ board' = [board EXCEPT !.st = "idle"]
                  /\ UNCHANGED <<up, eol, mem, hist>>
               \/ /\ stop /\ board' = [board EXCEPT !.st = "idle"]
                  /\ Answer(<<[k |-> "err"]>>) /\ Failed("order") /\ UNCHANGED mem
               \/ /\ ~stop /\ code.k \in {"abs", "rel"}
                  /\ board' = [board EXCEPT !.newaddr = TRUE,
                                            !.addr = DecodeAddress(@, code)]
                  /\ UNCHANGED <<up, eol, mem, hist>>
               \/ write /\ BoardWrite(code)
               \/ ~stop /\ code.k = "rd" /\ BoardRead(code)
  /\ UNCHANGED h

(* An interrupt, and the line end that follows when nothing else goes up.  *)
Interrupt == /\ board.left > 0 /\ h.pc \in {"drain", "read", "wait"}
             /\ Answer(<<[k |-> "int"]>>)
             /\ board' = [board EXCEPT !.left = @ - 1]
             /\ UNCHANGED <<h, down, mem, hist>>
LineEnd == /\ ~eol /\ up' = Append(up, [k |-> "nl"]) /\ eol' = TRUE
           /\ UNCHANGED <<h, down, board, mem, hist>>

Host == NextChunk \/ NextBlock \/ ReadWord \/ ReadDone \/ ReadIdle \/ WriteDone \/ Wait
Next == Call \/ Restart \/ Host \/ Exec \/ Interrupt \/ LineEnd

Spec == Init /\ [][Next]_vars

----------------------------------------------------------------------------
TypeInv ==
  /\ h.pc \in {"idle", "drain", "read", "wait", "gone"}
  /\ h.pc = "read" => h.n <= h.cmdrd
  /\ h.rdaddr = Len(h.rdtbl) /\ board.st \in {"idle", "more", "err"}
  /\ {down[i].k : i \in DOMAIN down} \subseteq {"abs", "rel", "wr", "wt", "rd", "nl"}

(* A read returns the words the bus answered (readv, readword), as         *)
(* devbus.h promises of every read.                                        *)
Returned(k) == /\ hist.last # <<>> /\ hist.failed = {}
               /\ hist.last.how = "returned" /\ hist.last.call.k = k

ReadsAreTrue == Returned("read") => hist.last.vals = hist.last.served

(* They do while no address sent for a write is still unanswered: the host *)
(* forgets its table when it sends an address, the board when it answers   *)
(* one, and it answers one only with a read.                               *)
ReadsTrueInStep ==
  Returned("read") /\ ~hist.last.stale => hist.last.vals = hist.last.served

(* The words written reach the addresses they were written to, in order,   *)
(* through both tables and every way to send an address (writev,           *)
(* encode_address).                                                        *)
WritesLand == hist.failed = {} => ~hist.astray

(* Between calls, with all answers in, the host knows where the board's    *)
(* address is, as encode_address relies on.                                *)
AddressInStep ==
  /\ h.pc = "idle" /\ down = <<>> /\ h.addrset /\ hist.failed = {}
  => h.lastaddr = board.addr

(* The check that ends the program (readv's exit(-3)) does not fail by     *)
(* itself.                                                                 *)
NoExit == hist.failed = {} => h.pc # "gone"

(* readidle() finds nothing of more than one character, which it would cut *)
(* in two, unless the error of a write came in the place of a read's       *)
(* answer.                                                                 *)
OneCharacterEach ==
  h.pc = "drain" /\ hist.failed \subseteq {"read"} =>
    \A i \in DOMAIN up : up[i].k \notin {"addr", "raw", "tbl"}

(* The host never waits for a word (readword's blocking read) that nothing *)
(* on the link, and nothing the board still has to do, will bring.         *)
NeverWaitsInVain ==
  h.pc = "read" /\ h.n < h.cmdrd => down # <<>> \/ up # <<>>
=============================================================================
