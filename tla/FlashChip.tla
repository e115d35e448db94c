------------------------------ MODULE FlashChip ------------------------------
(***************************************************************************)
(* The board's flash, as QSPIFLASHSIM (sim/verilator/qspiflashsim.cpp)     *)
(* implements it.  One selection of the chip is a sequence of tokens: a    *)
(* command, then its address, a mode, or words.  The flash is a function   *)
(* of words; a word is a pair of bytes of one bit.                         *)
(***************************************************************************)
EXTENDS Integers, Sequences

CONSTANTS PageW,        \* words of a page
          NPages,       \* pages of a sector
          NSectors

ASSUME ChipAssumption == PageW \in Nat \ {0} /\ NPages \in Nat \ {0} /\ NSectors \in Nat \ {0}

SectorW == PageW * NPages
Cells == 0 .. NSectors * SectorW - 1
Word == {0, 1} \X {0, 1}
Blank == <<1, 1>>
Nil == <<0, 0>>

And(v, w) == <<v[1] * w[1], v[2] * w[2]>>
PageOf(a) == a \div PageW
SectorOf(a) == a \div SectorW

Cmd(k) == [k |-> k, v |-> 0]
Addr(a) == [k |-> "addr", v |-> a]
Mode(xip) == [k |-> "mode", v |-> xip]         \* 0xa0, or anything else
WordOut(w) == [k |-> "word", v |-> w]
WordIn == Cmd("in")

(* The chip: its array, the page to be programmed, the write enable latch, *)
(* busy, deep power down; the last mode byte; in state xip it expects an   *)
(* address and no command.  refused and confused: commands it did not      *)
(* accept, tokens it took for something else (history).                    *)
Chip(mem) == [mem |-> mem, page |-> [i \in 0 .. PageW - 1 |-> Blank], wel |-> FALSE,
              wip |-> FALSE, dp |-> FALSE, state |-> "idle", addr |-> 0, creg |-> TRUE,
              mode |-> FALSE, out |-> <<>>, refused |-> FALSE, confused |-> FALSE]

(* load(), write(): contents put there before the simulation starts.       *)
Loaded(mem, a, words) ==
  [i \in Cells |-> IF i - a + 1 \in DOMAIN words THEN words[i - a + 1] ELSE mem[i]]

Writable(c) == c.wel /\ ~c.wip /\ ~c.dp

(* The first byte.                                                         *)
Command(c, k) ==
  LET to(state) == [c EXCEPT !.state = state]
  IN  CASE k \in {"WRR", "PP", "QPP", "SE", "BE"} ->
             IF Writable(c) THEN to(k) ELSE [to("invalid") EXCEPT !.refused = TRUE]
        [] k = "WREN"  -> [to("idle") EXCEPT !.wel = TRUE]
        [] k = "WRDI"  -> [to("idle") EXCEPT !.wel = FALSE]
        [] k = "RDSR"  -> [to(k) EXCEPT !.out = <<c.wip>>]
        [] k = "RDCR"  -> [to(k) EXCEPT !.out = <<c.creg>>]
        [] k = "RES"   -> [to(k) EXCEPT !.dp = FALSE]
        [] k = "DP"    -> IF c.wip THEN [to("invalid") EXCEPT !.refused = TRUE]
                          ELSE [to("idle") EXCEPT !.dp = TRUE]
        [] k \in {"NULL", "CLSR", "RDID", "FAST", "QUAD"} -> to(k)
        [] OTHER       -> [to("invalid") EXCEPT !.confused = TRUE]

(* The bytes that follow: the answer to a read is zero while it is busy; a *)
(* page that is programmed wraps around in itself.                         *)
Reading(c) == c.state \in {"FAST", "QUAD"}
Programs(c) == c.state \in {"PP", "QPP"}
Data(c, t) ==
  CASE t.k = "addr" /\ (Reading(c) \/ c.state \in {"SE", "RDID"}) -> [c EXCEPT !.addr = t.v]
    [] t.k = "addr" /\ Programs(c) ->
         [c EXCEPT !.addr = t.v, !.page = [i \in DOMAIN @ |-> Blank]]
    [] t.k = "mode" /\ c.state = "QUAD" -> [c EXCEPT !.mode = t.v]
    [] t.k = "in" /\ Reading(c) ->
         [c EXCEPT !.out = Append(@, IF c.wip THEN Nil ELSE c.mem[c.addr]), !.addr = @ + 1]
    [] t.k = "word" /\ Programs(c) ->
         [c EXCEPT !.page[c.addr % PageW] = t.v,
                   !.addr = (PageOf(@) * PageW) + ((@ + 1) % PageW)]
    [] t.k = "creg" /\ c.state = "WRR" -> [c EXCEPT !.creg = t.v]
    [] c.state \in {"NULL", "invalid", "RES", "RDSR", "RDCR", "RDID"} -> c
    [] OTHER -> [c EXCEPT !.confused = TRUE]

(* Deselected, the chip does what it was told.                             *)
Deselect(c) ==
  LET busy(mem) == [c EXCEPT !.mem = mem, !.wip = TRUE, !.wel = FALSE, !.state = "idle"]
  IN  CASE Programs(c) ->
             busy([a \in Cells |-> IF PageOf(a) = PageOf(c.addr)
                                    THEN And(c.mem[a], c.page[a % PageW]) ELSE c.mem[a]])
        [] c.state = "SE" ->
             busy([a \in Cells |-> IF SectorOf(a) = SectorOf(c.addr) THEN Blank ELSE c.mem[a]])
        [] c.state = "BE"  -> busy([a \in Cells |-> Blank])
        [] c.state = "WRR" -> busy(c.mem)
        [] c.state = "QUAD" -> [c EXCEPT !.state = IF c.mode THEN "xip" ELSE "idle"]
        [] OTHER -> [c EXCEPT !.state = IF @ = "xip" THEN @ ELSE "idle"]

(* A token: in xip the first has to be an address.                         *)
Clocked(c, t) ==
  CASE c.state = "xip" /\ t.k = "addr" -> [c EXCEPT !.state = "QUAD", !.addr = t.v]
    [] c.state = "xip" /\ t.k # "addr" -> [c EXCEPT !.confused = TRUE]
    [] c.state = "idle"                -> Command(c, t.k)
    [] OTHER                           -> Data(c, t)

(* The chip after all of them: what it has answered, and once deselected.  *)
Clocks(c, tokens) ==
  LET after[i \in 0 .. Len(tokens)] == IF i = 0 THEN c ELSE Clocked(after[i - 1], tokens[i])
  IN  after[Len(tokens)]
Answer(c, tokens) == Clocks(c, tokens).out
Spi(c, tokens) == [Deselect(Clocks(c, tokens)) EXCEPT !.out = <<>>]

(* m_write_count has run down.                                             *)
Finished(c) == [c EXCEPT !.wip = FALSE, !.wel = FALSE]
=============================================================================
