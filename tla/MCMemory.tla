------------------------------ MODULE MCMemory ------------------------------
(***************************************************************************)
(* The CPU's bus with two words of RAM, two of flash, and nothing between  *)
(* and behind them; interrupts come at any time.                           *)
(***************************************************************************)
EXTENDS CpuBus

LOCAL Op(we, a) == [we |-> we, a |-> a]
MCOps == {Op(FALSE, 0), Op(FALSE, 2), Op(TRUE, 2), Op(FALSE, 5)}

(* A load from the RAM returns what was last written there (spec.tex: "the *)
(* address regions that are made up of RAM or flash act like memory"),     *)
(* whatever the prefetch was doing when the interrupt came.                *)
RamActsLikeMemory ==
    mem.valid /\ ~mem.err /\ mem.addr \in Ram => mem.result = Word(mem.addr)
=============================================================================
