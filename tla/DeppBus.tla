------------------------------- MODULE DeppBus -------------------------------
(***************************************************************************)
(* The simple way onto the board's bus: the registers of                   *)
(* rtl/wbdeppsimple.v, and DEPPBUS (sw/host/deppbus.cpp), which writes an  *)
(* address, a command and perhaps a word into them and looks at the status *)
(* once.  Host steps and bus answers interleave; a word is read in halves. *)
(***************************************************************************)
EXTENDS Integers, Sequences

CONSTANTS Addrs, Vals,  \* addresses; words are pairs of halves from Vals
          BadAddrs,     \* addresses that answer with an error
          MaxAccess,    \* bound on accesses
          MaxIrq        \* bound on interrupts

VARIABLES reg,      \* the board's registers and flags
          slaves,   \* accesses the devices have taken and not yet answered
          store,    \* the words of the devices
          host,     \* DEPPBUS: its flags and the access in progress
          hist      \* accesses, whether one was overtaken by its status, faults
vars == <<reg, slaves, store, host, hist>>

Word == Vals \X Vals
Blank == <<CHOOSE v \in Vals : TRUE, CHOOSE v \in Vals : TRUE>>
NoAddr == CHOOSE a \in Addrs : TRUE

Init == /\ reg = [addr |-> NoAddr, data |-> Blank, cyc |-> FALSE, stb |-> FALSE,
                  we |-> FALSE, rdata |-> Blank, int |-> FALSE, err |-> FALSE]
        /\ slaves = <<>> /\ store = [a \in Addrs |-> Blank]
        /\ host = [pc |-> "idle", a |-> NoAddr, w |-> FALSE, v |-> Blank,
                   int |-> FALSE, err |-> FALSE]
        /\ hist = [n |-> 0, late |-> FALSE, faulted |-> FALSE, raised |-> FALSE,
                   irqs |-> 0]

(* readio(), writeio(): the address registers, and the data registers.     *)
Start(a, w, v) ==
  /\ host.pc = "idle" /\ hist.n < MaxAccess
  /\ reg' = [reg EXCEPT !.addr = a, !.data = IF w THEN v ELSE @]
  /\ host' = [host EXCEPT !.pc = "command", !.a = a, !.w = w, !.v = v]
  /\ hist' = [hist EXCEPT !.n = @ + 1, !.faulted = FALSE]
  /\ UNCHANGED <<slaves, store>>

\* mutant: the direction of the last write stays
CommandSticks ==
  /\ host.pc = "command"
  /\ reg' = [reg EXCEPT !.cyc = TRUE, !.stb = TRUE, !.we = @ \/ host.w]
  /\ host' = [host EXCEPT !.pc = "status"]
  /\ UNCHANGED <<slaves, store, hist>>

(* The command register: a bus cycle begins, with a strobe of one clock.   *)
Command ==
  /\ host.pc = "command"
  /\ reg' = [reg EXCEPT !.cyc = TRUE, !.stb = TRUE, !.we = host.w]
  /\ host' = [host EXCEPT !.pc = "status"]
  /\ UNCHANGED <<slaves, store, hist>>

(* That clock: no device is there, one takes the access, or it stalls, and *)
(* the strobe, which does not wait for it, is gone.                        *)
Strobe ==
  /\ reg.stb
  /\ \/ /\ reg.addr \in BadAddrs
        /\ reg' = [reg EXCEPT !.stb = FALSE, !.err = TRUE, !.cyc = FALSE]
        /\ hist' = [hist EXCEPT !.faulted = TRUE] /\ UNCHANGED <<slaves, store>>
     \/ /\ reg.addr \notin BadAddrs /\ reg' = [reg EXCEPT !.stb = FALSE]
        /\ slaves' = Append(slaves, [a |-> reg.addr, w |-> reg.we])
        /\ store' = IF reg.we THEN [store EXCEPT ![reg.addr] = reg.data] ELSE store
        /\ UNCHANGED hist
     \/ /\ reg' = [reg EXCEPT !.stb = FALSE] /\ UNCHANGED <<slaves, store, hist>>
  /\ UNCHANGED host

(* A device acknowledges.                                                  *)
Ack ==
  /\ slaves # <<>> /\ ~reg.stb /\ slaves' = Tail(slaves)
  /\ reg' = [reg EXCEPT !.cyc = FALSE,
                        !.rdata = IF reg.cyc /\ ~reg.we THEN store[Head(slaves).a] ELSE @]
  /\ UNCHANGED <<store, host, hist>>

Interrupt == /\ hist.irqs < MaxIrq /\ reg' = [reg EXCEPT !.int = TRUE]
             /\ hist' = [hist EXCEPT !.irqs = @ + 1, !.raised = TRUE]
             /\ UNCHANGED <<slaves, store, host>>

\* mutant: the flag shows the last status only
StatusLast(o) ==
  /\ reg' = [reg EXCEPT !.int = FALSE, !.err = FALSE]
  /\ host' = [o EXCEPT !.int = reg.int, !.err = @ \/ reg.err,
       !.pc = IF o.pc # "status" \/ host.err \/ reg.err \/ o.w THEN "idle" ELSE "high"]

(* The status register is read, which clears it.  The host takes the error *)
(* and the interrupt from it; that the cycle goes on (bit 2) it ignores.   *)
Status(o) == /\ reg' = [reg EXCEPT !.int = FALSE, !.err = FALSE]
             /\ host' = [o EXCEPT !.int = @ \/ reg.int, !.err = @ \/ reg.err,
                  !.pc = IF o.pc # "status" \/ host.err \/ reg.err \/ o.w
                         THEN "idle" ELSE "high"]
AccessStatus ==
  /\ host.pc = "status" /\ ~reg.stb /\ Status(host)
  /\ hist' = [hist EXCEPT !.late = @ \/ reg.cyc]
  /\ UNCHANGED <<slaves, store>>

(* poll(), which wait() and usleep() repeat.                               *)
Poll == /\ host.pc = "idle" /\ ~host.int /\ Status(host)
        /\ UNCHANGED <<slaves, store, hist>>

(* The result, its upper and then its lower half.                          *)
High == /\ host.pc = "high"
        /\ host' = [host EXCEPT !.pc = "low", !.v = <<reg.rdata[1], @[2]>>]
        /\ UNCHANGED <<reg, slaves, store, hist>>
Low  == /\ host.pc = "low"
        /\ host' = [host EXCEPT !.pc = "done", !.v = <<@[1], reg.rdata[2]>>]
        /\ UNCHANGED <<reg, slaves, store, hist>>
Return == /\ host.pc = "done" /\ host' = [host EXCEPT !.pc = "idle"]
          /\ UNCHANGED <<reg, slaves, store, hist>>

(* reset_err() and clear().                                                *)
Clear == /\ host.pc = "idle"
         /\ \/ host' = [host EXCEPT !.err = FALSE] /\ UNCHANGED hist
            \/ /\ host' = [host EXCEPT !.err = FALSE, !.int = FALSE]
               /\ hist' = [hist EXCEPT !.raised = reg.int]
         /\ UNCHANGED <<reg, slaves, store>>

Next == \/ \E a \in Addrs : \/ Start(a, FALSE, host.v)
                            \/ \E v \in Word : Start(a, TRUE, v)
        \/ Command \/ Strobe \/ Ack \/ Interrupt
        \/ AccessStatus \/ Poll \/ High \/ Low \/ Return \/ Clear

Spec == Init /\ [][Next]_vars

----------------------------------------------------------------------------
TypeInv == /\ host.pc \in {"idle", "command", "status", "high", "low", "done"}
           /\ host.v \in Word /\ reg.rdata \in Word

(* A read returns the word the device answered, as long as every access so *)
(* far had ended when its status was read (readio() does not look).        *)
PromptReadsAreTrue ==
  host.pc = "done" /\ ~hist.late => host.v = store[host.a]

(* An access to a bad address does not go on as if it had worked, nor does *)
(* one after an error that was not reset (m_err, r_err).                   *)
ErrorsThrown == host.pc \in {"high", "low", "done"} => ~hist.faulted /\ ~host.err

(* An interrupt stays visible in r_int or m_int until clear(), however the *)
(* status reads of accesses and polls fall (r_int, poll()).                *)
InterruptKept == hist.raised => reg.int \/ host.int
=============================================================================
