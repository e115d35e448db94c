-------------------------------- MODULE Scope --------------------------------
(***************************************************************************)
(* The wishbone scope (rtl/wbscope.v, SYNCHRONOUS and with i_ce at one)    *)
(* clock by clock, the host that dumps it (SCOPE of sw/host/scopecls.cpp), *)
(* and whoever arms it over the same bus.  What is recorded are sample     *)
(* numbers since the last reset, so that a dump shows what was lost,       *)
(* repeated or left over.                                                  *)
(***************************************************************************)
EXTENDS Integers, Sequences

CONSTANTS LgMem,        \* LGMEM
          Holdoffs,     \* holdoffs written by whoever arms the scope
          MaxSample,    \* bound: sample numbers are counted modulo this
          MaxArms       \* bound on writes of the control register

VARIABLES config,       \* br_config: run, manual, disable; and br_holdoff
          triggered, primed, stopped, counter,
          mem, waddr, raddr, nxtMem,
          sample,       \* the sample on i_data; one that is not recorded has no number
          host,         \* the dumping program; clean, started from address zero
          trigAt,       \* the sample of the trigger (history)
          sound,        \* nothing was written to the scope since (history)
          narms
capture == <<triggered, primed, stopped, counter, waddr, mem, sample, trigAt>>
vars == <<config, capture, raddr, nxtMem, host, sound, narms>>

Len2 == 2 ^ LgMem
Slot == 0 .. Len2 - 1
NoHost == [pc |-> "idle", data |-> <<>>, clean |-> TRUE]
None == [k |-> "none"]

Init == /\ config = [run |-> FALSE, manual |-> FALSE, disable |-> FALSE,
                     holdoff |-> Len2 \div 2 - 4]
        /\ triggered = FALSE /\ primed = FALSE /\ stopped = FALSE /\ counter = 0
        /\ mem = [i \in Slot |-> MaxSample] /\ waddr = 0
        /\ raddr = 0 /\ nxtMem = MaxSample     \* reset in the first clock
        /\ sample = 0
        /\ host = NoHost /\ trigAt = MaxSample /\ sound = FALSE /\ narms = 0

(* The registers of a clock in which the bus does op.                      *)
Reset == ~config.run
Ctl(op) == op.k \in {"ctl", "arm"}

ConfigClock(op) ==
  config' = IF op.k = "arm" THEN op.config
            ELSE IF op.k # "ctl" /\ Reset THEN [config EXCEPT !.run = TRUE]
            ELSE config

Triggers(trig) == primed /\ ((trig /\ ~config.disable) \/ config.manual)

\* mutant: one clock later
ElapsedLate == counter > config.holdoff
Elapsed == counter >= config.holdoff

CaptureClock(trig) ==
  /\ triggered' = (~Reset /\ (triggered \/ Triggers(trig)))
  /\ counter' = IF Reset THEN 0
                ELSE IF triggered /\ ~stopped THEN counter + 1 ELSE counter
  /\ stopped' = (triggered /\ ~Reset /\ Elapsed)
  /\ waddr' = IF Reset THEN 0 ELSE IF ~stopped THEN (waddr + 1) % Len2 ELSE waddr
  /\ primed' = (~Reset /\ (primed \/ (~stopped /\ waddr = Len2 - 1)))
  /\ mem' = IF Reset THEN [i \in Slot |-> MaxSample]
            ELSE IF ~stopped THEN [mem EXCEPT ![waddr] = sample] ELSE mem
  /\ sample' = IF Reset THEN 0 ELSE IF ~stopped THEN (sample + 1) % MaxSample ELSE sample
  /\ trigAt' = IF ~triggered /\ Triggers(trig) THEN sample ELSE trigAt

Prefetched(op) == mem[(raddr + waddr + (IF op.k = "data" THEN 1 ELSE 0)) % Len2]

ReadClock(op) ==
  /\ raddr' = IF Reset THEN 0
              ELSE IF op.k = "data" /\ stopped THEN (raddr + 1) % Len2 ELSE raddr
  /\ nxtMem' = Prefetched(op)

(* o_wb_data, the word that answers op.                                    *)
WbData(op) == CASE Ctl(op)             -> [stopped |-> stopped, triggered |-> triggered,
                                           zero |-> raddr = 0, lgmem |-> LgMem]
                [] ~Ctl(op) /\ stopped  -> nxtMem
                [] ~Ctl(op) /\ ~stopped -> sample

Clock(op) == /\ \E trig \in BOOLEAN : CaptureClock(trig)
             /\ ConfigClock(op) /\ ReadClock(op)
             /\ narms' = narms + (IF op.k = "arm" THEN 1 ELSE 0)
             /\ sound' = (op.k # "arm" /\ (sound \/ (~triggered /\ triggered')))

----------------------------------------------------------------------------
(* The bus is somebody else's.                                             *)
Idle == Clock(None) /\ UNCHANGED host

(* The control register is written, with or without WBSCOPE_NO_RESET.      *)
Arm == /\ narms < MaxArms
       /\ \E h \in Holdoffs, run, manual, disable \in BOOLEAN :
            Clock([k |-> "arm", config |-> [run |-> run, manual |-> manual,
                                            disable |-> disable, holdoff |-> h]])
       /\ host' = IF host.pc = "idle" THEN host
                  ELSE [host EXCEPT !.clean = FALSE, !.data = [i \in DOMAIN @ |-> MaxSample]]

(* SCOPE::ready() and scoplen(): stopped and triggered, and long enough to *)
(* be a scope.  The zero bit is there and is not looked at.                *)
Control == [k |-> "ctl"]
Ready == LET v == WbData(Control)
         IN  /\ host.pc = "idle" /\ Clock(Control)
             /\ host' = IF v.stopped /\ v.triggered /\ 2 ^ v.lgmem > 4
                        THEN [host EXCEPT !.pc = "read", !.clean = v.zero /\ sound] ELSE host

(* rawread(): as many words of data as the scope is long.  No property     *)
(* looks at the words of a dump that is not clean.                         *)
Data == [k |-> "data"]
RawRead == /\ host.pc = "read" /\ Clock(Data)
           /\ host' = [host EXCEPT !.data = Append(@, IF host.clean THEN WbData(Data) ELSE MaxSample),
                                   !.pc = IF Len(host.data) = Len2 - 1 THEN "done" ELSE @]

(* It is printed, and the program ends; or it is killed before.            *)
End == host.pc # "idle" /\ host' = NoHost /\ Clock(None)

Next == Idle \/ Arm \/ Ready \/ RawRead \/ End
Spec == Init /\ [][Next]_vars

----------------------------------------------------------------------------
(* A complete dump that nobody disturbed, neither by arming the scope again*)
(* nor by an earlier dump that was broken off, holds consecutive samples,  *)
(* oldest first, up to the moment the scope stopped: the read address, the *)
(* prefetched word and the write address agree.                            *)
Whole == host.pc = "done" /\ sound /\ host.clean
DumpIsRecord == Whole => \A i \in 1 .. Len2 - 1 :
                           host.data[i + 1] = (host.data[i] + 1) % MaxSample

(* The sample of the trigger is in the dump, holdoff + 1 before the last.  *)
TriggerIsInside == Whole /\ config.holdoff <= Len2 - 2
                     => host.data[Len2 - 1 - config.holdoff] = trigAt
=============================================================================
