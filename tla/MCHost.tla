------------------------------- MODULE MCHost -------------------------------
(***************************************************************************)
(* The ways from a host program to the board, one at a time: the bus over  *)
(* TTYBUS (HostBus), its characters over the parallel port (DeppLink), the *)
(* simple bus over the parallel port (DeppBus), and the scope at the end   *)
(* of either (Scope).  They have nothing in common; path says which one a  *)
(* behaviour is about, and the variables of the others stay at 0.          *)
(*                                                                         *)
(* HostBus has digits of four values, so that the addresses used, 0 to 5,  *)
(* 61 and 62, are sent in every way there is up to three digits.           *)
(***************************************************************************)
EXTENDS HostBus

CONSTANTS w1, w2, junk

MCVal  == {w1, w2}
MCJunk == junk
Reads(S, inc, n) ==
  {[k |-> "read", a |-> a, inc |-> inc, len |-> n] : a \in S}
Write(a, inc, vals) ==
  [k |-> "write", a |-> a, inc |-> inc, len |-> Len(vals), vals |-> vals]
MCCalls ==
  Reads({1, 5, 61}, FALSE, 1) \cup Reads({0}, TRUE, 4) \cup Reads({3}, TRUE, 2) \cup
  {Write(4, FALSE, <<w1>>), Write(61, FALSE, <<w1>>), Write(62, FALSE, <<w2>>),
   Write(1, TRUE, <<w2, w2>>), [k |-> "wait", a |-> 0, inc |-> FALSE, len |-> 0]}

CONSTANTS Chars, RcvBufMask, PktLen, First, More, Spare, Lens, MaxChars,  \* of DeppLink
          Addrs, Vals, BadAddrs, MaxAccess, MaxIrq,                       \* of DeppBus
          LgMem, Holdoffs, MaxSample, MaxArms                             \* of Scope

\* The board's devices and their words, and a scope that holds eight samples or more
\* (its first holdoff is four less than half of them).
ASSUME LinkAssumption == /\ Chars \subseteq Nat /\ Lens \subseteq Nat
                         /\ {RcvBufMask, PktLen, First, More, Spare} \subseteq Nat
ASSUME BoardAssumption == Addrs # {} /\ Vals # {} /\ BadAddrs \subseteq Addrs
ASSUME ScopeAssumption == /\ 2 ^ LgMem \in Nat /\ 2 ^ LgMem >= 8
                          /\ Holdoffs \subseteq Nat /\ MaxSample \in Nat \ {0}

VARIABLES path, txq, lastchar, depp, rbuf, op, pkt, onway, nsent,
          reg, slaves, store, port, seen,
          config, triggered, primed, stopped, counter, ring, waddr, raddr, nxtMem,
          sample, dump, trigAt, sound, narms

Link == INSTANCE DeppLink
Simple == INSTANCE DeppBus WITH host <- port, hist <- seen
Scope == INSTANCE Scope WITH mem <- ring, host <- dump

linkVars == <<txq, lastchar, depp, rbuf, op, pkt, onway, nsent>>
simpleVars == <<reg, slaves, store, port, seen>>
scopeVars == <<config, triggered, primed, stopped, counter, ring, waddr, raddr, nxtMem,
               sample, dump, trigAt, sound, narms>>

NoBus == h = 0 /\ down = 0 /\ board = 0 /\ up = 0 /\ eol = 0 /\ mem = 0 /\ hist = 0
NoLink == /\ txq = 0 /\ lastchar = 0 /\ depp = 0 /\ rbuf = 0 /\ op = 0 /\ pkt = 0
          /\ onway = 0 /\ nsent = 0
NoSimple == reg = 0 /\ slaves = 0 /\ store = 0 /\ port = 0 /\ seen = 0
NoScope == /\ config = 0 /\ triggered = 0 /\ primed = 0 /\ stopped = 0 /\ counter = 0
           /\ ring = 0 /\ waddr = 0 /\ raddr = 0 /\ nxtMem = 0 /\ sample = 0
           /\ dump = 0 /\ trigAt = 0 /\ sound = 0 /\ narms = 0

MCInit == \/ path = "bus" /\ Init /\ NoLink /\ NoSimple /\ NoScope
          \/ path = "link" /\ Link!Init /\ NoBus /\ NoSimple /\ NoScope
          \/ path = "simple" /\ Simple!Init /\ NoBus /\ NoLink /\ NoScope
          \/ path = "scope" /\ Scope!Init /\ NoBus /\ NoLink /\ NoSimple

MCNext == /\ UNCHANGED path
          /\ \/ path = "bus" /\ Next /\ UNCHANGED <<linkVars, simpleVars, scopeVars>>
             \/ path = "link" /\ Link!Next /\ UNCHANGED <<vars, simpleVars, scopeVars>>
             \/ path = "simple" /\ Simple!Next /\ UNCHANGED <<vars, linkVars, scopeVars>>
             \/ path = "scope" /\ Scope!Next /\ UNCHANGED <<vars, linkVars, simpleVars>>

MCSpec == MCInit /\ [][MCNext]_<<path, vars, linkVars, simpleVars, scopeVars>>

-----------------------------------------------------------------------------
\* The invariants of the modules (stated and explained there).
ReadsKeepStep      == path = "bus" => ReadsTrueInStep
WritesReach        == path = "bus" => WritesLand /\ AddressInStep /\ NoExit
IdleIsOneCharacter == path = "bus" => OneCharacterEach
AnswersCome        == path = "bus" => NeverWaitsInVain
PortIsTrue ==
  /\ path = "link" => Link!CodesIntact /\ Link!PollHonest
  /\ path = "simple" => Simple!PromptReadsAreTrue /\ Simple!ErrorsThrown /\ Simple!InterruptKept
DumpIsRecord       == path = "scope" => Scope!DumpIsRecord /\ Scope!TriggerIsInside
=============================================================================
