------------------------------- MODULE CpuBus --------------------------------
(***************************************************************************)
(* The CPU's ways to memory, clock by clock: the prefetch with its two     *)
(* words (rtl/cpu/dblfetch.v), memory operations (rtl/cpu/memops.v), the   *)
(* arbiter between them (rtl/cpu/wbdblpriarb.v), the bus (rtl/busmaster.v) *)
(* with block RAM (rtl/memdev.v) and flash (FlashXpress).  The rest of the *)
(* CPU is what it may ask for: it takes instructions or stalls, branches,  *)
(* clears the prefetch before a branch, and starts a memory operation when *)
(* none is under way.                                                      *)
(***************************************************************************)
EXTENDS Integers

CONSTANTS Ram, FlashMem,    \* word addresses with something behind them
          Datum,            \* the word of Ram that is written
          Targets,          \* where the CPU branches to
          Ops,              \* memory operations: [we, a]
          Anytime,          \* interrupts come in the last clocks of a fetch too
          MaxWait, MaxMem   \* clocks an instruction, an operation may take

VARIABLES fetch, mem, bus, flash, pins, chip
vars == <<fetch, mem, bus, flash, pins, chip>>

Qspi == INSTANCE FlashXpress

NoOp == [we |-> FALSE, a |-> 0]
Nothing == {}               \* inputs: no branch, no operation
Junk == <<-1, 0>>
Nowhere(a) == a \notin Ram \cup FlashMem

Init ==
    /\ fetch = [cyc |-> FALSE, stb |-> FALSE, laststb |-> FALSE, lastack |-> FALSE,
                invalid |-> FALSE, addr |-> -1, w |-> 0, r |-> 0, valid |-> {},
                cache |-> [i \in {0, 1} |-> Junk], insn |-> Junk, pc |-> 0,
                illegal |-> FALSE]
    /\ mem = [cyc |-> FALSE, stb |-> FALSE, we |-> FALSE, addr |-> 0, valid |-> FALSE,
              err |-> FALSE, result |-> Junk]
    /\ bus = [aowner |-> TRUE, ack |-> FALSE, out |-> Junk, datum |-> 0, cpu |-> "branch", taken |-> FALSE,
              waited |-> 0, busy |-> 0]
    /\ Qspi!FlashInit

-----------------------------------------------------------------------------
(* The wires.                                                              *)
Master == IF bus.aowner THEN mem ELSE fetch
Stb == Master.stb
Adr == Master.addr
None == Stb /\ Nowhere(Adr)
Stall == Adr \in FlashMem /\ flash.stall
Ack == Master.cyc /\ (bus.ack \/ flash.ack \/ None)
Word(a) == <<a, IF a = Datum THEN bus.datum ELSE 0>>
Data == IF bus.ack THEN bus.out
        ELSE IF \E a \in FlashMem : Qspi!FlashHas(a) THEN <<flash.word.a, 0>> ELSE Junk

Valid == fetch.r \in fetch.valid

-----------------------------------------------------------------------------
\* mutant: the acknowledgements of a cycle that was broken off still count
KeptInvalid(branch, clear) == clear
\* invalid_bus_cycle
Invalid(branch, clear) == branch # Nothing \/ clear \/ (fetch.invalid /\ fetch.cyc)

\* Words that are not valid are forgotten: nothing may depend on them.
Live(f) == [f EXCEPT !.cache = [i \in {0, 1} |-> IF i \in f.valid THEN @[i] ELSE Junk],
                     !.insn = IF f.r \in f.valid THEN @ ELSE Junk]

\* One clock of the prefetch: the branch, if any, a request to clear the
\* cache, whether an instruction is taken.
Fetch(branch, clear, ready) ==
    LET own == ~bus.aowner
        ack == own /\ Ack
        err == own /\ None
        stall == own => Stall
        new == branch # Nothing
        take == Valid /\ ready
        start == fetch.invalid \/ new \/ (take /\ fetch.r = 1)
        over == (ack /\ fetch.lastack) \/ new \/ clear \/ err
    IN  fetch' = Live(
        [cyc |-> IF fetch.cyc THEN ~over ELSE start,
         stb |-> IF ~fetch.cyc THEN start
                 ELSE ~over /\ fetch.stb /\ (stall \/ ~fetch.laststb),
         laststb |-> fetch.stb /\ (fetch.laststb \/ ~stall),
         lastack |-> fetch.cyc /\ (fetch.lastack \/ ack),
         invalid |-> Invalid(branch, clear),
         addr |-> IF new THEN CHOOSE a \in branch : TRUE
                  ELSE IF fetch.stb /\ ~stall /\ ~fetch.invalid THEN fetch.addr + 1
                  ELSE fetch.addr,
         w |-> IF fetch.cyc THEN (IF ack THEN 1 - fetch.w ELSE fetch.w) ELSE 0,
         r |-> IF new \/ fetch.invalid THEN 0
               ELSE IF take THEN 1 - fetch.r ELSE fetch.r,
         valid |-> IF new \/ fetch.invalid THEN {}
                   ELSE (fetch.valid \ (IF take THEN {fetch.r} ELSE {}))
                          \cup (IF fetch.cyc /\ ack THEN {fetch.w} ELSE {}),
         cache |-> IF fetch.cyc /\ ack THEN [fetch.cache EXCEPT ![fetch.w] = Data]
                   ELSE fetch.cache,
         insn |-> IF (ready \/ ~Valid) /\ fetch.cyc /\ ack THEN Data
                  ELSE IF ~Valid THEN fetch.cache[fetch.r]
                  ELSE IF ready THEN fetch.cache[1 - fetch.r] ELSE fetch.insn,
         pc |-> IF new THEN CHOOSE a \in branch : TRUE
                ELSE IF take THEN fetch.pc + 1 ELSE fetch.pc,
         illegal |-> \/ fetch.cyc /\ err
                     \/ fetch.illegal /\ (fetch.cyc \/ ~(new \/ fetch.invalid))])

\* One clock of the memory operations.
Operate(op) ==
    LET ack == bus.aowner /\ Ack
        err == bus.aowner /\ None
        stall == bus.aowner => Stall
    IN  \E o \in (IF op # Nothing THEN op
                 ELSE IF mem.cyc THEN {[we |-> mem.we, a |-> mem.addr]} ELSE {NoOp}) :
          mem' = [cyc |-> IF mem.cyc THEN ~(ack \/ err) ELSE op # Nothing,
                  stb |-> IF mem.cyc THEN mem.stb /\ stall /\ ~err ELSE op # Nothing,
                  we |-> o.we, addr |-> o.a,
                  valid |-> mem.cyc /\ ack /\ ~mem.we,
                  err |-> mem.cyc /\ err,
                  result |-> IF mem.cyc /\ ack THEN Data ELSE Junk]

\* mutant: the memory operations get the bus as soon as they ask for it
TakesAtOnce == IF mem.stb THEN TRUE ELSE IF Master.cyc THEN bus.aowner ELSE ~fetch.stb
\* r_a_owner
Owner == IF Master.cyc THEN bus.aowner ELSE ~fetch.stb

\* The arbiter and the RAM; what the CPU does next; how long it has waited.
Bus(branch, clear, ready) ==
    bus' = [aowner |-> Owner,
            ack |-> Stb /\ Adr \in Ram,
            out |-> IF Stb /\ Adr \in Ram THEN Word(Adr) ELSE Junk,
            datum |-> IF Stb /\ bus.aowner /\ mem.we /\ Adr = Datum THEN 1 - bus.datum
                      ELSE bus.datum,
            cpu |-> CASE clear -> "branch"
                      [] branch # Nothing -> IF mem.cyc THEN "handler" ELSE "run"
                      [] Valid /\ ready /\ fetch.illegal -> "trap"
                      [] bus.cpu = "handler" /\ ~mem.cyc -> "run"
                      [] OTHER -> bus.cpu,
            taken |-> branch = Nothing /\ (bus.taken \/ (Valid /\ ready)),
            waited |-> IF Valid \/ fetch.illegal \/ branch # Nothing \/ clear \/ flash.maint
                       THEN 0 ELSE bus.waited + 1,
            busy |-> IF mem.cyc /\ ~flash.maint THEN bus.busy + 1 ELSE 0]

Clock(branch, clear, ready, op) ==
    /\ Fetch(branch, clear, ready) /\ Operate(op) /\ Bus(branch, clear, ready)
    /\ Qspi!FlashClock(Master.cyc, Stb /\ Adr \in FlashMem, Adr)

\* An operation starts when none is under way (op_stall, mem_ce) and an
\* instruction was taken since the last branch.
MayStart == IF mem.cyc \/ bus.cpu # "run" \/ ~bus.taken THEN {Nothing}
            ELSE {Nothing} \cup {{o} : o \in Ops}

\* new_pc: while an operation is under way only an interrupt sets it, and only
\* the first (w_switch_to_interrupt, gie).  LastClocks: the fetch it breaks off
\* has its word from the flash all but acknowledged, and the operation waits.
LastClocks == mem.cyc /\ fetch.cyc /\ ~bus.aowner /\ flash.n \in {19, 20}
Branch == /\ mem.cyc => bus.cpu # "handler" /\ (Anytime \/ ~LastClocks)
          /\ \E a \in Targets : Clock({a}, FALSE, FALSE, Nothing)
\* w_clear_icache, which new_pc follows.
Clear == /\ ~mem.cyc /\ bus.cpu = "run"
         /\ Clock(Nothing, TRUE, FALSE, Nothing)
\* pf_stalled or not.
Run == /\ bus.cpu \in {"run", "handler"}
       /\ \E op \in MayStart : Clock(Nothing, FALSE, TRUE, op)
Wait == /\ bus.cpu # "branch"
        /\ \E op \in MayStart : Clock(Nothing, FALSE, FALSE, op)

Next == Branch \/ Clear \/ Run \/ Wait
Spec == Init /\ [][Next]_vars

-----------------------------------------------------------------------------
(* The instruction that the prefetch offers is the one at its address,     *)
(* wherever branches broke off a fetch and operations took the bus         *)
(* (dblfetch.v o_insn, o_pc).  It is marked illegal only at the end of     *)
(* some memory: a bus error of the second word marks the first as well.    *)
FetchIsTrue ==
    Valid => IF fetch.illegal THEN Nowhere(fetch.pc) \/ Nowhere(fetch.pc + 1)
             ELSE fetch.insn[1] = fetch.pc /\ ~Nowhere(fetch.pc)

(* A read returns what its address holds, and only addresses with nothing  *)
(* behind them fail (memops.v o_result, o_err).                            *)
OperationIsTrue ==
    /\ mem.err => Nowhere(mem.addr)
    /\ mem.valid /\ ~mem.err => mem.result = Word(mem.addr)

(* The chip is read as it wants to be read.                                *)
ChipIsRead == ~chip.bad

(* Neither of the two keeps the other, or itself, waiting for long         *)
(* (wbdblpriarb.v r_a_owner).                                              *)
NobodyWaits == bus.waited <= MaxWait /\ bus.busy <= MaxMem
=============================================================================
