---------------------------- MODULE FlashProofs -----------------------------
(***************************************************************************)
(* Proofs about Flash and FlashChip, for every value of their constants:   *)
(* what write() answers for is in the flash, sectors that nobody wrote to  *)
(* keep their contents, chip and controller understand each other, and a   *)
(* program that zipload has loaded is in its place.                        *)
(***************************************************************************)
EXTENDS Flash, SequenceTheorems, FiniteSetTheorems, WellFoundedInduction, TLAPS

USE ChipAssumption

-----------------------------------------------------------------------------
(***************************************************************************)
(* The inductive invariant.                                                *)
(***************************************************************************)
States == {"idle", "xip", "QUAD", "SE", "QPP", "RDSR", "RDCR", "RDID", "invalid"}
ChipSet == [mem : [Cells -> Word], page : [0 .. PageW - 1 -> Word], wel : BOOLEAN,
            wip : BOOLEAN, dp : BOOLEAN, state : States, addr : Nat, creg : BOOLEAN,
            mode : BOOLEAN, out : Seq(Word \cup BOOLEAN), refused : BOOLEAN, confused : BOOLEAN]

JobSet == {j \in [a : Nat, len : Nat, data : Seq(Word)] :
             j.a + j.len <= FlashLen /\ FlashLen - j.a <= Len(j.data)}

\* Between two commands the chip waits for one, or in continuous read for an address.
ChipRests(c) == c \in ChipSet /\ c.state \in {"idle", "xip"} /\ ~c.dp /\ ~c.confused

\* The controller knows which, and whether the chip is busy, unless the board was
\* restarted meanwhile.  Out of continuous read it does not believe so.
CtlInv == /\ ctl \in [wip : BOOLEAN, wp : BOOLEAN, quad : {TRUE}, xip : BOOLEAN]
          /\ ctl.xip <=> chip.state = "xip"
          /\ ctl.wip => ~ctl.xip
          /\ chip.wip => ctl.wip \/ hist.busy
          /\ chip.refused => hist.busy

HistType == hist \in [orig : [Cells -> Word], sectors : SUBSET Int, busy : BOOLEAN,
                      blind : BOOLEAN, short : BOOLEAN, runs : Nat, resets : Nat]

\* The image that zipload makes of a program, and the job it is.
Image(p) == AllPlaced(Loaded(Loaded([i \in Cells |-> Blank], 0, p.bit), AltA, p.alt),
                      Sections(p.exec))
ExecJob(p) == [a |-> Image(p).start, len |-> Image(p).len,
               data |-> From(Image(p).buf, Image(p).start)]
InFlash(m, j) == \A a \in j.a .. j.a + j.len - 1 : m[a] = j.data[a - j.a + 1]

Places == {"idle", "job", "sector", "unprotect", "erase", "erasing", "erased", "page", "ready",
           "program", "programming", "programmed", "true", "failed", "exit", "aborted"}
HostType == /\ host \in [pc : Places, given : Seq(Programs0), jobs : Seq(JobSet),
                         s : Nat, p : Nat, len : Nat, n : Nat]
            /\ host.pc # "idle" => Len(host.given) = 1

\* The program comes last; when there is nothing left to write, it is in the flash.
JobsInv ==
    host.pc # "idle" /\ Given.exec # <<>> =>
      /\ host.jobs # <<>> => host.jobs[Len(host.jobs)] = ExecJob(Given)
      /\ host.jobs = <<>> /\ host.pc = "job" /\ Sound => InFlash(chip.mem, ExecJob(Given))

Erasing == {"unprotect", "erase", "erasing", "erased"}
Burst == {"ready", "program", "programming", "programmed"}
Paging == {"page"} \cup Burst
Working == {"sector", "true"} \cup Erasing \cup Paging

\* Where write() is: in a sector of its job, and there in a page, at least when it is
\* about to change something.
EndOfPage(p) == (PageOf(p) + 1) * PageW
InSector(s) == s % SectorW = 0 /\ Job.a < s + SectorW
Inside(s, p) == /\ s < End /\ SectorOf(s) \in hist.sectors
                /\ s <= p /\ Job.a <= p /\ p <= s + SectorW
InPage(s, p, len, n, short) ==
    /\ p < s + SectorW /\ p < End /\ p + len <= EndOfPage(p) /\ n <= len
    /\ short \/ End <= p + len \/ EndOfPage(p) <= p + len
WorkInv ==
    /\ host.pc \in Working \cup {"failed"} => host.jobs # <<>>
    /\ host.pc \in Working => /\ InSector(host.s)
                             /\ \A a \in Job.a .. End - 1 : SectorOf(a) \in hist.sectors
    /\ host.pc \in Erasing \cup Paging => Inside(host.s, host.p)
    /\ host.pc \in Erasing => host.p = Base
    /\ host.pc \in Burst => InPage(host.s, host.p, host.len, host.n, hist.short)
    /\ host.pc = "true" => host.s >= End

\* What is behind it is written.
Front == IF host.pc \in Paging THEN host.p ELSE host.s
Written(m, front) == \A a \in Job.a .. End - 1 : a < front => m[a] = Wanted(a)
FrontInv == host.pc \in Working /\ Sound => Written(chip.mem, Front)

BoardInv == ChipRests(chip) /\ chip.out = <<>> /\ CtlInv /\ HistType
FlashInv == BoardInv /\ OthersKept /\ HostType /\ JobsInv /\ WorkInv /\ FrontInv
-----------------------------------------------------------------------------
(***************************************************************************)
(* Induction over numbers, for the set of those that a formula holds of.   *)
(***************************************************************************)
LEMMA NatInduct ==
    ASSUME NEW P \in SUBSET Nat, 0 \in P, \A n \in P : n + 1 \in P
    PROVE  P = Nat
<1>1. SUFFICES ASSUME Nat \ P # {} PROVE FALSE
  OBVIOUS
<1>2. PICK x \in Nat \ P : \A y \in Nat \ P : <<y, x>> \notin OpToRel(<, Nat)
  BY <1>1, NatLessThanWellFounded, WFMin
<1>3. x # 0 /\ x - 1 \in Nat
  OBVIOUS
<1>4. <<x - 1, x>> \in OpToRel(<, Nat)
  BY <1>3 DEF OpToRel
<1>5. x - 1 \in P
  BY <1>2, <1>3, <1>4
<1> QED BY <1>3, <1>5

-----------------------------------------------------------------------------
(***************************************************************************)
(* Pages and sectors.                                                      *)
(***************************************************************************)
LEMMA Division ==
    ASSUME NEW d \in Nat \ {0}, NEW a \in Int
    PROVE  /\ a \div d \in Int /\ a % d \in 0 .. d - 1
           /\ a = (a \div d) * d + (a % d)
OBVIOUS

\* What \div is: the one k whose multiple is the last not above a.
LEMMA Quotient ==
    ASSUME NEW d \in Nat \ {0}, NEW k \in Int, NEW a \in Int, k * d <= a, a < (k + 1) * d
    PROVE  a \div d = k
OBVIOUS

\* A sector is a whole number of pages.
LEMMA SectorWIs == SectorW \in Nat \ {0} /\ SectorW = NPages * PageW
BY DEF SectorW

\* The flash is a whole number of sectors, counted from 0.
LEMMA FlashLenIs == FlashLen = NSectors * SectorW /\ FlashLen \in Nat /\ Cells = 0 .. FlashLen - 1
<1>1. SectorW \in Nat /\ NSectors * SectorW \in Nat
  BY SectorWIs
<1> DEFINE n == NSectors * SectorW
<1>2. Cardinality(0 .. n - 1) = n
  <2>1. n \in Nat
    BY <1>1
  <2> HIDE DEF n
  <2> QED BY <2>1, FS_Interval
<1> QED BY <1>1, <1>2 DEF FlashLen, Cells

\* The numbers of a page.
LEMMA PageRange ==
    ASSUME NEW a \in Int, NEW q \in Int
    PROVE  /\ PageOf(a) \in Int
           /\ PageOf(a) = q <=> q * PageW <= a /\ a < (q + 1) * PageW
<1>1. /\ PageOf(a) \in Int /\ a % PageW \in 0 .. PageW - 1
      /\ a = PageOf(a) * PageW + (a % PageW)
  BY Division DEF PageOf
<1>2. PageOf(a) * PageW <= a /\ a < (PageOf(a) + 1) * PageW
  BY <1>1
<1>3. q * PageW <= a /\ a < (q + 1) * PageW => PageOf(a) = q
  BY Quotient DEF PageOf
<1> QED BY <1>1, <1>2, <1>3

\* The numbers of a sector, and of the one that begins at s.
LEMMA SectorRange ==
    ASSUME NEW a \in Int, NEW q \in Int
    PROVE  /\ SectorOf(a) \in Int
           /\ SectorOf(a) = q <=> q * SectorW <= a /\ a < (q + 1) * SectorW
<1>1. /\ SectorOf(a) \in Int /\ a % SectorW \in 0 .. SectorW - 1
      /\ a = SectorOf(a) * SectorW + (a % SectorW)
  BY Division, SectorWIs DEF SectorOf
<1>2. SectorOf(a) * SectorW <= a /\ a < (SectorOf(a) + 1) * SectorW
  BY <1>1, SectorWIs
<1>3. q * SectorW <= a /\ a < (q + 1) * SectorW => SectorOf(a) = q
  BY Quotient, SectorWIs DEF SectorOf
<1> QED BY <1>1, <1>2, <1>3

\* The cells of the sector that starts at s.
LEMMA SectorAt ==
    ASSUME NEW s \in Int, s % SectorW = 0, NEW a \in Int
    PROVE  /\ s = SectorOf(s) * SectorW
           /\ SectorOf(a) = SectorOf(s) <=> s <= a /\ a < s + SectorW
<1>1. SectorOf(s) \in Int /\ s = SectorOf(s) * SectorW
  <2>1. SectorW \in Nat \ {0}
    BY SectorWIs
  <2>2. s \div SectorW \in Int /\ s = (s \div SectorW) * SectorW + (s % SectorW)
    BY <2>1, Division
  <2>3. (s \div SectorW) * SectorW \in Int
    BY <2>1, <2>2
  <2> QED BY <2>2, <2>3 DEF SectorOf
<1> QED BY <1>1, SectorRange, SectorWIs

\* The start of the sector a is in.
LEMMA SectorStart ==
    ASSUME NEW a \in Nat
    PROVE  /\ SectorOf(a) * SectorW \in Nat /\ (SectorOf(a) * SectorW) % SectorW = 0
           /\ SectorOf(a) * SectorW <= a /\ a < SectorOf(a) * SectorW + SectorW
<1>1. SectorOf(a) \in Int
  BY SectorRange
<1>2. SectorOf(a) * SectorW <= a /\ a < (SectorOf(a) + 1) * SectorW
  BY <1>1, SectorRange
<1>3. SectorOf(a) \in Nat
  BY <1>1, <1>2, SectorWIs
<1>4. (SectorOf(a) * SectorW) % SectorW = 0
  <2>1. ASSUME NEW d \in Nat \ {0}, NEW k \in Int PROVE (k * d) % d = 0
    OBVIOUS
  <2> QED BY <1>1, <2>1, SectorWIs
<1> QED BY <1>2, <1>3, <1>4, SectorWIs

\* A page lies in one sector.
LEMMA PageInSector ==
    ASSUME NEW s \in Int, s % SectorW = 0, NEW p \in Int, s <= p, p < s + SectorW,
           NEW a \in Int, PageOf(a) = PageOf(p)
    PROVE  s <= a /\ a < s + SectorW
<1> DEFINE q == PageOf(p)
           k == SectorOf(s) * NPages
<1>1. /\ q \in Int /\ q * PageW <= p /\ p < (q + 1) * PageW
      /\ q * PageW <= a /\ a < (q + 1) * PageW
  BY PageRange
<1>2. k \in Int /\ s = k * PageW /\ s + SectorW = (k + NPages) * PageW
  <2>1. SectorOf(s) \in Int /\ s = SectorOf(s) * SectorW
    BY SectorAt, SectorRange
  <2>2. ASSUME NEW x \in Int, NEW y \in Int, NEW z \in Int PROVE x * (y * z) = (x * y) * z
    OBVIOUS
  <2>3. SectorOf(s) * (NPages * PageW) = k * PageW
    BY <2>1, <2>2
  <2>4. k \in Int /\ s = k * PageW /\ SectorW = NPages * PageW
    BY <2>1, <2>3, SectorWIs
  <2> HIDE DEF k
  <2> QED BY <2>4
<1> HIDE DEF q, k
<1>3. k <= q /\ q + 1 <= k + NPages
  BY <1>1, <1>2
<1>4. k * PageW <= q * PageW /\ (q + 1) * PageW <= (k + NPages) * PageW
  BY <1>1, <1>2, <1>3
<1> QED BY <1>1, <1>2, <1>4

\* A page does not cross its sector's end.
LEMMA PageEndInSector ==
    ASSUME NEW s \in Int, s % SectorW = 0, NEW p \in Int, s <= p, p < s + SectorW
    PROVE  /\ p < (PageOf(p) + 1) * PageW /\ (PageOf(p) + 1) * PageW <= s + SectorW
           /\ (PageOf(p) + 1) * PageW \in Int
<1> DEFINE e == (PageOf(p) + 1) * PageW
<1>1. PageOf(p) \in Int /\ PageOf(p) * PageW <= p /\ p < e /\ e \in Int
  BY PageRange
<1>2. PageOf(e - 1) = PageOf(p)
  <2>1. e - 1 \in Int /\ PageOf(p) * PageW <= e - 1 /\ e - 1 < e
    BY <1>1
  <2> QED BY <1>1, <2>1, PageRange
<1> HIDE DEF e
<1>3. e - 1 < s + SectorW
  BY <1>1, <1>2, PageInSector
<1> QED BY <1>1, <1>3, SectorWIs DEF e

\* A sector that begins inside the flash ends inside it.
LEMMA SectorFits ==
    ASSUME NEW s \in Int, s % SectorW = 0, s < FlashLen
    PROVE  s + SectorW <= FlashLen
<1>1. SectorOf(s) \in Int /\ s = SectorOf(s) * SectorW
  BY SectorAt, SectorRange
<1>2. SectorOf(s) * SectorW < NSectors * SectorW
  BY <1>1, FlashLenIs
<1>3. SectorOf(s) + 1 <= NSectors
  BY <1>1, <1>2, SectorWIs
<1>4. (SectorOf(s) + 1) * SectorW <= NSectors * SectorW
  BY <1>1, <1>3, SectorWIs
<1> QED BY <1>1, <1>4, FlashLenIs, SectorWIs
-----------------------------------------------------------------------------
(***************************************************************************)
(* Smallest and largest; words.                                            *)
(***************************************************************************)
LEMMA MinTwo ==
    ASSUME NEW a \in Int, NEW b \in Int
    PROVE  Min({a, b}) = IF a <= b THEN a ELSE b
BY DEF Min

\* max() of two.
LEMMA MaxTwo ==
    ASSUME NEW a \in Int, NEW b \in Int
    PROVE  Max({a, b}) = IF a >= b THEN a ELSE b
BY DEF Max

\* The least of some natural numbers is one of them.
LEMMA MinIs ==
    ASSUME NEW S \in SUBSET Nat, S # {}
    PROVE  Min(S) \in S /\ \A y \in S : Min(S) <= y
<1>1. PICK x \in S : \A y \in S : <<y, x>> \notin OpToRel(<, Nat)
  BY NatLessThanWellFounded, WFMin
<1>2. \A y \in S : x <= y
  <2>1. ASSUME NEW y \in S, y < x PROVE <<y, x>> \in OpToRel(<, Nat)
    BY <2>1 DEF OpToRel
  <2>2. \A y \in S : ~(y < x)
    BY <1>1, <2>1
  <2> QED BY <2>2
<1> QED BY <1>2 DEF Min

\* Programming gives a word, and a blank one changes nothing.
LEMMA AndWord ==
    ASSUME NEW v \in Word, NEW w \in Word
    PROVE  And(v, w) \in Word /\ (w = Blank => And(v, w) = v)
<1>1. PICK a \in {0, 1}, b \in {0, 1} : v = <<a, b>>
  BY DEF Word
<1>2. PICK c \in {0, 1}, d \in {0, 1} : w = <<c, d>>
  BY DEF Word
<1>3. And(v, w) = <<a * c, b * d>>
  BY <1>1, <1>2 DEF And
<1>4. a * c \in {0, 1} /\ b * d \in {0, 1} /\ a * 1 = a /\ b * 1 = b
  BY <1>1, <1>2
<1>5. w = Blank => c = 1 /\ d = 1
  BY <1>2 DEF Blank
<1> QED BY <1>1, <1>3, <1>4, <1>5 DEF Word

\* Blank and the answer of a busy chip are words.
LEMMA WordIs == Blank \in Word /\ Nil \in Word
BY DEF Word, Blank, Nil

\* zipload turns round what the host's byte order has turned round.
LEMMA SwappedTwice ==
    ASSUME NEW w \in Word
    PROVE  ByteSwap(InMemory(w)) = w
<1>1. PICK a \in {0, 1}, b \in {0, 1} : w = <<a, b>>
  BY DEF Word
<1> QED BY <1>1 DEF ByteSwap, InMemory
-----------------------------------------------------------------------------
(***************************************************************************)
(* The chip after all tokens of a selection (Clocks).                      *)
(***************************************************************************)
After(c, tokens) ==
    CHOOSE f : f = [i \in 0 .. Len(tokens) |-> IF i = 0 THEN c
                                               ELSE Clocked(f[i - 1], tokens[i])]

IsAfter(f, c, tokens, n) ==
    /\ f = [i \in 0 .. n |-> f[i]]
    /\ f[0] = c
    /\ \A i \in 1 .. n : f[i] = Clocked(f[i - 1], tokens[i])

\* The chip after each of n tokens can be written down ...
LEMMA AfterExists ==
    ASSUME NEW c, NEW tokens, NEW n \in Nat
    PROVE  \E f : IsAfter(f, c, tokens, n)
<1> DEFINE N == {k \in Nat : \E f : IsAfter(f, c, tokens, k)}
<1>1. 0 \in N
  <2> DEFINE g == [i \in 0 .. 0 |-> c]
  <2>1. g = [i \in 0 .. 0 |-> g[i]] /\ g[0] = c /\ 1 .. 0 = {}
    OBVIOUS
  <2>2. IsAfter(g, c, tokens, 0)
    BY <2>1 DEF IsAfter
  <2> QED BY <2>2
<1>2. ASSUME NEW k \in N PROVE k + 1 \in N
  <2>1. k \in Nat
    OBVIOUS
  <2>2. PICK f : IsAfter(f, c, tokens, k)
    OBVIOUS
  <2> DEFINE next == Clocked(f[k], tokens[k + 1])
             g == [i \in 0 .. k + 1 |-> IF i = k + 1 THEN next ELSE f[i]]
  <2>3. g = [i \in 0 .. k + 1 |-> g[i]] /\ g[0] = c /\ g[k + 1] = next /\ g[k] = f[k]
    <3> HIDE DEF next
    <3> QED BY <2>1, <2>2 DEF IsAfter
  <2>4. ASSUME NEW i \in 1 .. k + 1
        PROVE  g[i] = Clocked(g[i - 1], tokens[i])
    <3>1. CASE i = k + 1
      BY <2>1, <2>3, <3>1
    <3>2. CASE i # k + 1
      <4>1. i \in 1 .. k /\ g[i] = f[i] /\ g[i - 1] = f[i - 1]
        BY <2>1, <3>2
      <4> QED BY <2>2, <4>1 DEF IsAfter
    <3> QED BY <3>1, <3>2
  <2>5. IsAfter(g, c, tokens, k + 1)
    <3> HIDE DEF g
    <3> QED BY <2>3, <2>4 DEF IsAfter
  <2> QED BY <2>1, <2>5
<1>3. N = Nat
  <2>1. N \in SUBSET Nat
    OBVIOUS
  <2> HIDE DEF N
  <2> QED BY <1>1, <1>2, <2>1, NatInduct
<1> QED BY <1>3

\* ... so it is what Clocks computes.
LEMMA AfterIs ==
    ASSUME NEW c, NEW tokens, Len(tokens) \in Nat
    PROVE  /\ IsAfter(After(c, tokens), c, tokens, Len(tokens))
           /\ Clocks(c, tokens) = After(c, tokens)[Len(tokens)]
<1> DEFINE E(f) == [i \in 0 .. Len(tokens) |-> IF i = 0 THEN c ELSE Clocked(f[i - 1], tokens[i])]
           K == After(c, tokens)
<1>1. K = E(K)
  <2>1. PICK f : IsAfter(f, c, tokens, Len(tokens))
    BY AfterExists
  <2>2. f = E(f)
    <3>1. f = [i \in 0 .. Len(tokens) |-> f[i]]
      BY <2>1 DEF IsAfter
    <3>2. ASSUME NEW i \in 0 .. Len(tokens) PROVE f[i] = E(f)[i]
      <4>1. CASE i = 0
        BY <2>1, <4>1 DEF IsAfter
      <4>2. CASE i # 0
        <5>1. i \in 1 .. Len(tokens)
          BY <4>2
        <5>2. f[i] = Clocked(f[i - 1], tokens[i])
          BY <2>1, <5>1 DEF IsAfter
        <5> QED BY <4>2, <5>2
      <4> QED BY <4>1, <4>2
    <3> QED BY <3>1, <3>2
  <2>3. K = CHOOSE g : g = E(g)
    BY DEF After
  <2> HIDE DEF E, K
  <2> QED BY <2>2, <2>3
<1>2. Clocks(c, tokens) = K[Len(tokens)]
  BY DEF Clocks, After
<1>3. K = [i \in 0 .. Len(tokens) |-> K[i]] /\ K[0] = c
  <2> HIDE DEF K
  <2>1. K[0] = E(K)[0]
    BY <1>1
  <2>2. E(K)[0] = c
    OBVIOUS
  <2>3. ASSUME NEW f, f = E(f) PROVE f = [i \in 0 .. Len(tokens) |-> f[i]]
    BY <2>3
  <2> HIDE DEF E
  <2> QED BY <1>1, <2>1, <2>2, <2>3
<1>4. ASSUME NEW i \in 1 .. Len(tokens) PROVE K[i] = Clocked(K[i - 1], tokens[i])
  <2> HIDE DEF K
  <2>1. i \in 0 .. Len(tokens) /\ i # 0
    OBVIOUS
  <2>2. K[i] = E(K)[i]
    BY <1>1
  <2> QED BY <2>1, <2>2
<1> QED
  <2> HIDE DEF K, E
  <2>1. IsAfter(K, c, tokens, Len(tokens)) /\ Clocks(c, tokens) = K[Len(tokens)]
    BY <1>2, <1>3, <1>4 DEF IsAfter
  <2> QED BY <2>1 DEF K

\* No tokens change nothing.
LEMMA ClocksEmpty ==
    ASSUME NEW c
    PROVE  Clocks(c, <<>>) = c
<1> DEFINE q == <<>>
<1>1. Len(q) = 0
  OBVIOUS
<1> HIDE DEF q
<1>2. Clocks(c, q) = c
  BY <1>1, AfterIs DEF IsAfter
<1> QED BY <1>2 DEF q

\* One more token is one more step.
LEMMA ClocksAppend ==
    ASSUME NEW c, NEW S, NEW tokens \in Seq(S), NEW t \in S
    PROVE  Clocks(c, Append(tokens, t)) = Clocked(Clocks(c, tokens), t)
<1> DEFINE more == Append(tokens, t)
           n == Len(tokens)
           K == After(c, tokens)
           M == After(c, more)
<1>1. n \in Nat /\ Len(more) = n + 1 /\ more[n + 1] = t /\ \A i \in 1 .. n : more[i] = tokens[i]
  BY LenProperties, AppendProperties
<1> HIDE DEF more, n
<1>2. IsAfter(K, c, tokens, n) /\ Clocks(c, tokens) = K[n]
  BY <1>1, AfterIs DEF n
<1>3. IsAfter(M, c, more, n + 1) /\ Clocks(c, more) = M[n + 1]
  <2>1. Len(more) \in Nat
    BY <1>1
  <2> QED BY <1>1, <2>1, AfterIs
<1> HIDE DEF K, M
<1> DEFINE N == {k \in Nat : k <= n => M[k] = K[k]}
<1>4. 0 \in N
  BY <1>2, <1>3 DEF IsAfter
<1>5. ASSUME NEW k \in N PROVE k + 1 \in N
  <2>1. SUFFICES ASSUME k + 1 <= n PROVE M[k + 1] = K[k + 1]
    OBVIOUS
  <2>2. k + 1 \in 1 .. n /\ k + 1 \in 1 .. n + 1 /\ (k + 1) - 1 = k /\ M[k] = K[k]
    BY <1>1, <2>1
  <2>3. M[k + 1] = Clocked(M[k], more[k + 1]) /\ K[k + 1] = Clocked(K[k], tokens[k + 1])
    BY <1>2, <1>3, <2>2 DEF IsAfter
  <2> QED BY <1>1, <2>2, <2>3
<1>6. N = Nat
  <2>1. N \in SUBSET Nat
    OBVIOUS
  <2> HIDE DEF N
  <2> QED BY <1>4, <1>5, <2>1, NatInduct
<1>7. M[n] = K[n]
  BY <1>1, <1>6
<1>8. M[n + 1] = Clocked(M[n], more[n + 1])
  <2>1. n + 1 \in 1 .. n + 1 /\ (n + 1) - 1 = n
    BY <1>1
  <2> QED BY <1>3, <2>1 DEF IsAfter
<1>9. Clocks(c, more) = Clocked(Clocks(c, tokens), t)
  BY <1>1, <1>2, <1>3, <1>7, <1>8
<1> QED BY <1>9 DEF more

\* One token.
LEMMA ClocksOne ==
    ASSUME NEW c, NEW t
    PROVE  Clocks(c, <<t>>) = Clocked(c, t)
<1> DEFINE q == <<>>
           S == {t}
<1>1. q \in Seq(S) /\ t \in S /\ Append(q, t) = <<t>> /\ Clocks(c, q) = c
  BY ClocksEmpty
<1> HIDE DEF q, S
<1>2. \A w \in Seq(S), v \in S : Clocks(c, Append(w, v)) = Clocked(Clocks(c, w), v)
  BY ClocksAppend
<1>3. Clocks(c, Append(q, t)) = Clocked(Clocks(c, q), t)
  BY <1>1, <1>2
<1> QED BY <1>1, <1>3

\* Two tokens.
LEMMA ClocksTwo ==
    ASSUME NEW c, NEW t, NEW u
    PROVE  Clocks(c, <<t, u>>) = Clocked(Clocked(c, t), u)
<1> DEFINE q == <<t>>
           S == {t, u}
<1>1. q \in Seq(S) /\ u \in S /\ Append(q, u) = <<t, u>>
  <2>1. q \in Seq(S) /\ u \in S
    OBVIOUS
  <2>2. Append(q, u) = <<t, u>>
    <3> DEFINE r == Append(q, u)
    <3>1. r \in Seq(S) /\ Len(r) = 2 /\ r[1] = t /\ r[2] = u
      BY <2>1, AppendProperties
    <3> HIDE DEF r
    <3>2. r = <<t, u>>
      BY <3>1
    <3> QED BY <3>2 DEF r
  <2> QED BY <2>1, <2>2
<1>2. Clocks(c, q) = Clocked(c, t)
  BY ClocksOne
<1> HIDE DEF q, S
<1>3. \A w \in Seq(S), x \in S : Clocks(c, Append(w, x)) = Clocked(Clocks(c, w), x)
  BY ClocksAppend
<1>4. Clocks(c, Append(q, u)) = Clocked(Clocks(c, q), u)
  BY <1>1, <1>3
<1> QED BY <1>1, <1>2, <1>4

\* Three tokens.
LEMMA ClocksThree ==
    ASSUME NEW c, NEW t, NEW u, NEW v
    PROVE  Clocks(c, <<t, u, v>>) = Clocked(Clocked(Clocked(c, t), u), v)
<1> DEFINE q == <<t, u>>
           S == {t, u, v}
<1>1. q \in Seq(S) /\ v \in S /\ Append(q, v) = <<t, u, v>>
  <2>1. q \in Seq(S) /\ v \in S
    OBVIOUS
  <2>2. Append(q, v) = <<t, u, v>>
    <3> DEFINE r == Append(q, v)
    <3>1. r \in Seq(S) /\ Len(r) = 3 /\ r[1] = t /\ r[2] = u /\ r[3] = v
      BY <2>1, AppendProperties
    <3> HIDE DEF r
    <3>2. r = <<t, u, v>>
      BY <3>1
    <3> QED BY <3>2 DEF r
  <2> QED BY <2>1, <2>2
<1>2. Clocks(c, q) = Clocked(Clocked(c, t), u)
  BY ClocksTwo
<1> HIDE DEF q, S
<1>3. \A w \in Seq(S), x \in S : Clocks(c, Append(w, x)) = Clocked(Clocks(c, w), x)
  BY ClocksAppend
<1>4. Clocks(c, Append(q, v)) = Clocked(Clocks(c, q), v)
  BY <1>1, <1>3
<1> QED BY <1>1, <1>2, <1>4

\* Words after it, one more each time.
LEMMA ClocksMore ==
    ASSUME NEW c, NEW S, NEW pre \in Seq(S), NEW n \in Nat, NEW w \in [1 .. n + 1 -> S]
    PROVE  Clocks(c, pre \o w) = Clocked(Clocks(c, pre \o [i \in 1 .. n |-> w[i]]), w[n + 1])
<1> DEFINE u == [i \in 1 .. n |-> w[i]]
           t == pre \o u
<1>1. u \in Seq(S) /\ w \in Seq(S) /\ w[n + 1] \in S /\ Len(u) = n
  OBVIOUS
<1>2. w = Append(u, w[n + 1])
  BY <1>1
<1> HIDE DEF u
<1>3. t \in Seq(S) /\ pre \o w = Append(t, w[n + 1])
  BY <1>1, <1>2, SMTT(40)
<1> HIDE DEF t
<1>4. \A v \in Seq(S), x \in S : Clocks(c, Append(v, x)) = Clocked(Clocks(c, v), x)
  BY ClocksAppend
<1>5. Clocks(c, Append(t, w[n + 1])) = Clocked(Clocks(c, t), w[n + 1])
  BY <1>1, <1>3, <1>4
<1> QED BY <1>3, <1>5 DEF t, u

\* A burst of no words adds nothing.
LEMMA ClocksNone ==
    ASSUME NEW c, NEW S, NEW pre \in Seq(S), NEW w
    PROVE  Clocks(c, pre \o [i \in 1 .. 0 |-> w[i]]) = Clocks(c, pre)
<1>1. [i \in 1 .. 0 |-> w[i]] = <<>>
  OBVIOUS
<1>2. pre \o <<>> = pre
  OBVIOUS
<1> QED BY <1>1, <1>2

-----------------------------------------------------------------------------
(***************************************************************************)
(* What the chip makes of one token.                                       *)
(***************************************************************************)
\* Nothing but a state, an address, a mode or an answer.
Unmoved(c, r) ==
    /\ r \in ChipSet
    /\ r.mem = c.mem /\ r.wel = c.wel /\ r.wip = c.wip /\ r.dp = c.dp
    /\ r.refused = c.refused /\ r.confused = c.confused

\* A command is taken up, or refused.
LEMMA StateType ==
    ASSUME NEW c \in ChipSet
    PROVE  /\ [c EXCEPT !.state = "SE"] \in ChipSet
           /\ [c EXCEPT !.state = "QPP"] \in ChipSet
           /\ LET r == [c EXCEPT !.state = "invalid", !.refused = TRUE]
              IN  /\ r \in ChipSet /\ r.state = "invalid" /\ r.refused
                  /\ r.mem = c.mem /\ r.wip = c.wip /\ r.dp = c.dp /\ r.confused = c.confused
<1>1. [c EXCEPT !.state = "SE"] \in ChipSet
  BY DEF ChipSet, States
<1>2. [c EXCEPT !.state = "QPP"] \in ChipSet
  BY DEF ChipSet, States
<1> DEFINE r == [c EXCEPT !.state = "invalid", !.refused = TRUE]
<1>3. r \in ChipSet
  BY DEF ChipSet, States
<1>4. /\ r.state = "invalid" /\ r.refused /\ r.mem = c.mem /\ r.wip = c.wip /\ r.dp = c.dp
      /\ r.confused = c.confused
  BY DEF ChipSet
<1> QED BY <1>1, <1>2, <1>3, <1>4

\* In continuous read, an address is one.
LEMMA XipAddr ==
    ASSUME NEW c \in ChipSet, c.state = "xip", NEW a \in Nat
    PROVE  LET r == Clocked(c, Addr(a))
           IN  Unmoved(c, r) /\ r.state = "QUAD" /\ r.addr = a /\ r.out = c.out
<1> DEFINE r == [c EXCEPT !.state = "QUAD", !.addr = a]
<1>1. Clocked(c, Addr(a)) = r
  BY DEF Clocked, Addr
<1>2. r \in ChipSet
  BY DEF ChipSet, States
<1>3. Unmoved(c, r) /\ r.state = "QUAD" /\ r.addr = a /\ r.out = c.out
  BY <1>2 DEF ChipSet, States, Unmoved
<1> QED BY <1>1, <1>3

\* Out of it, the read has to be asked for.
LEMMA IdleQuad ==
    ASSUME NEW c \in ChipSet, c.state = "idle"
    PROVE  LET r == Clocked(c, Cmd("QUAD"))
           IN  Unmoved(c, r) /\ r.state = "QUAD" /\ r.out = c.out
<1>1. Clocked(c, Cmd("QUAD")) = Command(c, "QUAD")
  BY DEF Clocked, Cmd
<1>2. Command(c, "QUAD") = [c EXCEPT !.state = "QUAD"]
  BY DEF Command
<1> DEFINE r == [c EXCEPT !.state = "QUAD"]
<1>3. r \in ChipSet
  BY DEF ChipSet, States
<1>4. Unmoved(c, r) /\ r.state = "QUAD" /\ r.out = c.out
  BY <1>3 DEF ChipSet, States, Unmoved
<1> QED BY <1>1, <1>2, <1>4

\* The address of a read.
LEMMA QuadAddr ==
    ASSUME NEW c \in ChipSet, c.state = "QUAD", NEW a \in Nat
    PROVE  LET r == Clocked(c, Addr(a))
           IN  Unmoved(c, r) /\ r.state = "QUAD" /\ r.addr = a /\ r.out = c.out
<1> DEFINE r == [c EXCEPT !.addr = a]
<1>1. Clocked(c, Addr(a)) = r
  BY DEF Clocked, Addr, Data, Reading, Programs, ChipSet, States
<1>2. r \in ChipSet
  BY DEF ChipSet, States
<1>3. Unmoved(c, r) /\ r.state = "QUAD" /\ r.addr = a /\ r.out = c.out
  BY <1>2 DEF ChipSet, States, Unmoved
<1> QED BY <1>1, <1>3

\* Its mode, which says whether the next one needs a command.
LEMMA QuadMode ==
    ASSUME NEW c \in ChipSet, c.state = "QUAD", NEW b \in BOOLEAN
    PROVE  LET r == Clocked(c, Mode(b))
           IN  Unmoved(c, r) /\ r.state = "QUAD" /\ r.addr = c.addr /\ r.mode = b /\ r.out = c.out
<1> DEFINE r == [c EXCEPT !.mode = b]
<1>1. Clocked(c, Mode(b)) = r
  BY DEF Clocked, Mode, Data, Reading, Programs
<1>2. r \in ChipSet
  BY DEF ChipSet, States
<1>3. Unmoved(c, r) /\ r.state = "QUAD" /\ r.addr = c.addr /\ r.mode = b /\ r.out = c.out
  BY <1>2 DEF ChipSet, States, Unmoved
<1> QED BY <1>1, <1>3

\* A word of it: what the cell holds, if the chip is not busy.
LEMMA QuadIn ==
    ASSUME NEW c \in ChipSet, c.state = "QUAD", c.addr \in Cells
    PROVE  LET r == Clocked(c, WordIn)
           IN  /\ Unmoved(c, r) /\ r.state = "QUAD" /\ r.addr = c.addr + 1 /\ r.mode = c.mode
               /\ r.out = Append(c.out, IF c.wip THEN Nil ELSE c.mem[c.addr])
<1> DEFINE w == IF c.wip THEN Nil ELSE c.mem[c.addr]
           o == Append(c.out, w)
           r == [c EXCEPT !.out = o, !.addr = c.addr + 1]
<1>1. Clocked(c, WordIn) = r
  BY DEF Clocked, WordIn, Cmd, Data, Reading, Programs, ChipSet, States
<1>2. w \in Word \cup BOOLEAN /\ c.out \in Seq(Word \cup BOOLEAN) /\ c.addr + 1 \in Nat
  BY WordIs DEF ChipSet, States
<1> HIDE DEF w
<1>3. o \in Seq(Word \cup BOOLEAN)
  BY <1>2, AppendProperties
<1> HIDE DEF o
<1>4. r \in ChipSet
  BY <1>2, <1>3 DEF ChipSet, States
<1>5. Unmoved(c, r) /\ r.state = "QUAD" /\ r.addr = c.addr + 1 /\ r.mode = c.mode /\ r.out = o
  BY <1>4 DEF ChipSet, States, Unmoved
<1> QED BY <1>1, <1>5 DEF o, w

\* Reading a register.
LEMMA IdleRegister ==
    ASSUME NEW c \in ChipSet, c.state = "idle", NEW k \in {"RDID", "RDCR", "RDSR"}
    PROVE  LET r == Clocked(Clocked(c, Cmd(k)), WordIn)
           IN  Unmoved(c, r) /\ r.state = k
<1> DEFINE r == Clocked(c, Cmd(k))
<1>1. r = Command(c, k)
  BY DEF Clocked, Cmd
<1>2. PICK o \in Seq(Word \cup BOOLEAN) : r = [c EXCEPT !.state = k, !.out = o]
  <2>1. <<c.wip>> \in Seq(Word \cup BOOLEAN) /\ <<c.creg>> \in Seq(Word \cup BOOLEAN)
    BY DEF ChipSet, States
  <2>2. CASE k = "RDID"
    <3>1. r = [c EXCEPT !.state = k, !.out = c.out]
      BY <1>1, <2>2 DEF Command, ChipSet, States
    <3> QED BY <3>1 DEF ChipSet, States
  <2>3. CASE k = "RDCR"
    BY <1>1, <2>1, <2>3 DEF Command
  <2>4. CASE k = "RDSR"
    BY <1>1, <2>1, <2>4 DEF Command
  <2> QED BY <2>2, <2>3, <2>4
<1> HIDE DEF r
<1>3. r \in ChipSet
  <2>1. k \in States
    BY DEF States
  <2> QED BY <1>2, <2>1 DEF ChipSet, States
<1>4. Unmoved(c, r) /\ r.state = k
  BY <1>2, <1>3 DEF ChipSet, States, Unmoved
<1>5. Clocked(r, WordIn) = r
  BY <1>4 DEF Clocked, WordIn, Cmd, Data, Reading, Programs
<1> QED BY <1>4, <1>5 DEF r

\* Write enable.
LEMMA IdleEnable ==
    ASSUME NEW c \in ChipSet, c.state = "idle"
    PROVE  LET r == Clocked(c, Cmd("WREN"))
           IN  /\ r \in ChipSet /\ r.state = "idle" /\ r.wel
               /\ r.mem = c.mem /\ r.wip = c.wip /\ r.dp = c.dp
               /\ r.refused = c.refused /\ r.confused = c.confused
<1> DEFINE r == [c EXCEPT !.state = "idle", !.wel = TRUE]
<1>1. Clocked(c, Cmd("WREN")) = r
  BY DEF Clocked, Cmd, Command
<1>2. r \in ChipSet
  BY DEF ChipSet, States
<1> QED BY <1>1, <1>2 DEF ChipSet, States

\* An erase or a program command is refused if the chip is busy.
LEMMA IdleWrite ==
    ASSUME NEW c \in ChipSet, c.state = "idle", c.wel, ~c.dp, NEW k \in {"SE", "QPP"}
    PROVE  LET r == Clocked(c, Cmd(k))
           IN  /\ ~c.wip => Unmoved(c, r) /\ r.state = k
               /\ c.wip => /\ r \in ChipSet /\ r.state = "invalid" /\ r.refused
                           /\ r.mem = c.mem /\ r.wip = c.wip /\ r.dp = c.dp
                           /\ r.confused = c.confused
<1>1. Clocked(c, Cmd(k)) = Command(c, k)
  BY DEF Clocked, Cmd
<1>2. CASE c.wip
  <2> DEFINE r == [c EXCEPT !.state = "invalid", !.refused = TRUE]
  <2>1. Command(c, k) = r
    BY <1>2 DEF Command, Writable
  <2>2. /\ r \in ChipSet /\ r.state = "invalid" /\ r.refused
        /\ r.mem = c.mem /\ r.wip = c.wip /\ r.dp = c.dp /\ r.confused = c.confused
    BY StateType
  <2> HIDE DEF r
  <2> QED BY <1>1, <1>2, <2>1, <2>2
<1>3. CASE ~c.wip
  <2> DEFINE r == [c EXCEPT !.state = k]
  <2>1. Command(c, k) = r
    BY <1>3 DEF Command, Writable
  <2>2. r \in ChipSet
    <3>1. k = "SE" \/ k = "QPP"
      OBVIOUS
    <3> QED BY <3>1, StateType
  <2> QED BY <1>1, <1>3, <2>1, <2>2, ZenonT(40) DEF ChipSet, States, Unmoved
<1> QED BY <1>2, <1>3

\* After a refusal the chip does not listen.
LEMMA InvalidIgnores ==
    ASSUME NEW c \in ChipSet, c.state = "invalid", NEW t, t.k \in {"addr", "word"}
    PROVE  Clocked(c, t) = c
BY DEF Clocked, Data, Reading, Programs

\* The address of an erase.
LEMMA EraseAddr ==
    ASSUME NEW c \in ChipSet, c.state = "SE", NEW a \in Nat
    PROVE  LET r == Clocked(c, Addr(a))
           IN  Unmoved(c, r) /\ r.state = "SE" /\ r.addr = a
<1> DEFINE r == [c EXCEPT !.addr = a]
<1>1. Clocked(c, Addr(a)) = r
  BY DEF Clocked, Addr, Data, Reading, Programs, ChipSet, States
<1>2. r \in ChipSet
  BY DEF ChipSet, States
<1> QED BY <1>1, <1>2 DEF ChipSet, States, Unmoved

\* The address of a program: the page buffer is blank.
LEMMA ProgramAddr ==
    ASSUME NEW c \in ChipSet, c.state = "QPP", NEW a \in Nat
    PROVE  LET r == Clocked(c, Addr(a))
           IN  /\ Unmoved(c, r) /\ r.state = "QPP" /\ r.addr = a
               /\ \A i \in 0 .. PageW - 1 : r.page[i] = Blank
<1> DEFINE g == [i \in DOMAIN c.page |-> Blank]
           r == [c EXCEPT !.addr = a, !.page = g]
<1>1. Clocked(c, Addr(a)) = r
  BY DEF Clocked, Addr, Data, Reading, Programs, ChipSet, States
<1>2. g \in [0 .. PageW - 1 -> Word] /\ \A i \in 0 .. PageW - 1 : g[i] = Blank
  BY WordIs DEF ChipSet, States
<1> HIDE DEF g
<1>3. r \in ChipSet
  BY <1>2 DEF ChipSet, States
<1> QED BY <1>1, <1>2, <1>3 DEF ChipSet, States, Unmoved

\* A word of a program goes to its place in the page, no other.
LEMMA ProgramWord ==
    ASSUME NEW c \in ChipSet, c.state = "QPP", NEW w \in Word
    PROVE  LET r == Clocked(c, WordOut(w))
           IN  /\ Unmoved(c, r) /\ r.state = "QPP"
               /\ r.addr = PageOf(c.addr) * PageW + ((c.addr + 1) % PageW)
               /\ \A i \in 0 .. PageW - 1 : i # c.addr % PageW => r.page[i] = c.page[i]
<1> DEFINE g == [c.page EXCEPT ![c.addr % PageW] = w]
           a == (PageOf(c.addr) * PageW) + ((c.addr + 1) % PageW)
           r == [c EXCEPT !.page = g, !.addr = a]
<1>1. Clocked(c, WordOut(w)) = r
  BY DEF Clocked, WordOut, Data, Reading, Programs, ChipSet, States
<1>2. /\ g \in [0 .. PageW - 1 -> Word]
      /\ \A i \in 0 .. PageW - 1 : i # c.addr % PageW => g[i] = c.page[i]
  BY DEF ChipSet, States
<1>3. a \in Nat
  <2>1. c.addr \in Nat
    BY DEF ChipSet, States
  <2>2. c.addr \div PageW \in Nat /\ (c.addr + 1) % PageW \in Nat
    BY <2>1
  <2>3. (c.addr \div PageW) * PageW \in Nat
    BY <2>2
  <2> QED BY <2>2, <2>3 DEF PageOf
<1> HIDE DEF g, a
<1>4. r \in ChipSet
  BY <1>2, <1>3 DEF ChipSet, States
<1>5. Unmoved(c, r) /\ r.state = "QPP" /\ r.addr = a /\ r.page = g
  BY <1>4 DEF ChipSet, States, Unmoved
<1> QED BY <1>1, <1>2, <1>5 DEF a

-----------------------------------------------------------------------------
(***************************************************************************)
(* What it does when it is deselected.                                     *)
(***************************************************************************)
Ended(c) == [Deselect(c) EXCEPT !.out = <<>>]

\* Answers are taken away.
LEMMA Outless ==
    ASSUME NEW c \in ChipSet
    PROVE  LET r == [c EXCEPT !.out = <<>>]
           IN  /\ Unmoved(c, r) /\ r.state = c.state /\ r.out = <<>>
<1> DEFINE q == <<>>
           r == [c EXCEPT !.out = q]
<1>1. q \in Seq(Word \cup BOOLEAN)
  OBVIOUS
<1> HIDE DEF q
<1>2. r \in ChipSet
  BY <1>1 DEF ChipSet
<1>3. Unmoved(c, r) /\ r.state = c.state /\ r.out = q
  BY <1>2 DEF ChipSet, Unmoved
<1> QED BY <1>3 DEF q

\* The end of a read: continuous or not, as the mode said.
LEMMA EndQuad ==
    ASSUME NEW c \in ChipSet, c.state = "QUAD"
    PROVE  LET r == Ended(c)
           IN  /\ Unmoved(c, r) /\ r.out = <<>>
               /\ r.state = IF c.mode THEN "xip" ELSE "idle"
<1> DEFINE st == IF c.mode THEN "xip" ELSE "idle"
           d == [c EXCEPT !.state = st]
<1>1. Deselect(c) = d
  BY DEF Deselect, Programs
<1>2. st \in States
  BY DEF States
<1> HIDE DEF st
<1>3. d \in ChipSet
  BY <1>2 DEF ChipSet
<1>4. Unmoved(c, d) /\ d.state = st
  BY <1>3 DEF ChipSet, Unmoved
<1> HIDE DEF d
<1>5. LET r == [d EXCEPT !.out = <<>>] IN Unmoved(d, r) /\ r.state = d.state /\ r.out = <<>>
  BY <1>3, Outless
<1> QED BY <1>1, <1>4, <1>5 DEF Ended, Unmoved, st

\* The end of a command that changes nothing.
LEMMA EndNothing ==
    ASSUME NEW c \in ChipSet, c.state \in {"idle", "RDSR", "RDCR", "RDID", "invalid"}
    PROVE  LET r == Ended(c)
           IN  Unmoved(c, r) /\ r.out = <<>> /\ r.state = "idle"
<1> DEFINE d == [c EXCEPT !.state = "idle"]
<1>1. Deselect(c) = d
  BY DEF Deselect, Programs, ChipSet
<1>2. d \in ChipSet
  BY DEF ChipSet, States
<1>3. Unmoved(c, d) /\ d.state = "idle"
  BY <1>2 DEF ChipSet, Unmoved
<1> HIDE DEF d
<1>4. LET r == [d EXCEPT !.out = <<>>] IN Unmoved(d, r) /\ r.state = d.state /\ r.out = <<>>
  BY <1>2, Outless
<1> QED BY <1>1, <1>3, <1>4 DEF Ended, Unmoved

\* Erasing and programming begin: the new contents are m.
Begun(c, r, m) == /\ r \in ChipSet /\ r.mem = m /\ r.wip /\ r.state = "idle" /\ r.out = <<>>
                  /\ r.dp = c.dp /\ r.refused = c.refused /\ r.confused = c.confused

\* The end of one that keeps the chip busy.
LEMMA EndBusy ==
    ASSUME NEW c \in ChipSet, NEW m \in [Cells -> Word],
           Deselect(c) = [c EXCEPT !.mem = m, !.wip = TRUE, !.wel = FALSE, !.state = "idle"]
    PROVE  Begun(c, Ended(c), m)
<1> DEFINE d == [c EXCEPT !.mem = m, !.wip = TRUE, !.wel = FALSE, !.state = "idle"]
<1>1. d \in ChipSet
  BY DEF ChipSet, States
<1>2. /\ d.mem = m /\ d.wip /\ d.state = "idle"
      /\ d.dp = c.dp /\ d.refused = c.refused /\ d.confused = c.confused
  BY DEF ChipSet
<1> HIDE DEF d
<1>3. LET r == [d EXCEPT !.out = <<>>] IN Unmoved(d, r) /\ r.state = d.state /\ r.out = <<>>
  BY <1>1, Outless
<1> QED BY <1>1, <1>2, <1>3 DEF Ended, Unmoved, Begun, d

\* The end of an erase: its sector is blank, no other.
LEMMA EndErase ==
    ASSUME NEW c \in ChipSet, c.state = "SE"
    PROVE  Begun(c, Ended(c), [a \in Cells |-> IF SectorOf(a) = SectorOf(c.addr) THEN Blank
                                               ELSE c.mem[a]])
<1> DEFINE m == [a \in Cells |-> IF SectorOf(a) = SectorOf(c.addr) THEN Blank ELSE c.mem[a]]
<1>1. m \in [Cells -> Word]
  BY WordIs DEF ChipSet
<1>2. Deselect(c) = [c EXCEPT !.mem = m, !.wip = TRUE, !.wel = FALSE, !.state = "idle"]
  BY DEF Deselect, Programs
<1> HIDE DEF m
<1>3. Begun(c, Ended(c), m)
  BY <1>1, <1>2, EndBusy
<1> QED BY <1>3 DEF m

\* The end of a program: only the words given may differ.
LEMMA EndProgram ==
    ASSUME NEW c \in ChipSet, c.state = "QPP"
    PROVE  \E m \in [Cells -> Word] :
             /\ Begun(c, Ended(c), m)
             /\ \A a \in Cells : PageOf(a) # PageOf(c.addr) \/ c.page[a % PageW] = Blank
                                   => m[a] = c.mem[a]
<1> DEFINE m == [a \in Cells |-> IF PageOf(a) = PageOf(c.addr)
                                 THEN And(c.mem[a], c.page[a % PageW]) ELSE c.mem[a]]
<1>1. ASSUME NEW a \in Cells
      PROVE  c.mem[a] \in Word /\ c.page[a % PageW] \in Word
  <2>1. a % PageW \in 0 .. PageW - 1
    BY FlashLenIs
  <2> QED BY <2>1 DEF ChipSet
<1>2. m \in [Cells -> Word]
  BY <1>1, AndWord
<1>3. \A a \in Cells : PageOf(a) # PageOf(c.addr) \/ c.page[a % PageW] = Blank => m[a] = c.mem[a]
  BY <1>1, AndWord
<1>4. Deselect(c) = [c EXCEPT !.mem = m, !.wip = TRUE, !.wel = FALSE, !.state = "idle"]
  BY DEF Deselect, Programs
<1> HIDE DEF m
<1>5. Begun(c, Ended(c), m)
  BY <1>2, <1>4, EndBusy
<1> QED BY <1>2, <1>3, <1>5
-----------------------------------------------------------------------------
(***************************************************************************)
(* Whole selections.                                                       *)
(***************************************************************************)
LEMMA SpiIs ==
    ASSUME NEW c, NEW tokens
    PROVE  Spi(c, tokens) = Ended(Clocks(c, tokens))
BY DEF Spi, Ended

\* Out of continuous read.
LEMMA SpiLeave ==
    ASSUME NEW c \in ChipSet, c.state = "xip"
    PROVE  LET r == Spi(c, <<Addr(0), Mode(FALSE)>>)
           IN  Unmoved(c, r) /\ r.state = "idle" /\ r.out = <<>>
<1> DEFINE t == Mode(FALSE)
           d == Clocked(c, Addr(0))
           e == Clocked(d, t)
<1>0. Spi(c, <<Addr(0), t>>) = Ended(e)
  <2> HIDE DEF t
  <2> QED BY SpiIs, ClocksTwo
<1>1. Unmoved(c, d) /\ d.state = "QUAD"
  BY XipAddr
<1> HIDE DEF d
<1>2. Unmoved(d, e) /\ e.state = "QUAD" /\ e.mode = FALSE
  BY <1>1, QuadMode DEF Unmoved
<1> HIDE DEF e
<1>3. Unmoved(e, Ended(e)) /\ Ended(e).out = <<>> /\ Ended(e).state = "idle"
  BY <1>2, EndQuad DEF Unmoved
<1> QED BY <1>0, <1>1, <1>2, <1>3 DEF Unmoved

\* One of its registers is read.
LEMMA SpiRegister ==
    ASSUME NEW c \in ChipSet, c.state = "idle", NEW k \in {"RDID", "RDCR", "RDSR"}
    PROVE  LET r == Spi(c, <<Cmd(k), WordIn>>)
           IN  Unmoved(c, r) /\ r.state = "idle" /\ r.out = <<>>
<1> DEFINE e == Clocked(Clocked(c, Cmd(k)), WordIn)
<1>1. Unmoved(c, e) /\ e.state = k
  BY IdleRegister
<1>2. Spi(c, <<Cmd(k), WordIn>>) = Ended(e)
  BY SpiIs, ClocksTwo
<1> HIDE DEF e
<1>3. Unmoved(e, Ended(e)) /\ Ended(e).out = <<>> /\ Ended(e).state = "idle"
  BY <1>1, EndNothing DEF Unmoved
<1> QED BY <1>1, <1>2, <1>3 DEF Unmoved

\* Write enable, as a command of its own.
LEMMA SpiEnable ==
    ASSUME NEW c \in ChipSet, c.state = "idle"
    PROVE  LET r == Spi(c, <<Cmd("WREN")>>)
           IN  /\ r \in ChipSet /\ r.state = "idle" /\ r.wel
               /\ r.mem = c.mem /\ r.wip = c.wip /\ r.dp = c.dp
               /\ r.refused = c.refused /\ r.confused = c.confused
<1> DEFINE e == Clocked(c, Cmd("WREN"))
<1>1. /\ e \in ChipSet /\ e.state = "idle" /\ e.wel
      /\ e.mem = c.mem /\ e.wip = c.wip /\ e.dp = c.dp
      /\ e.refused = c.refused /\ e.confused = c.confused
  BY IdleEnable
<1>2. Spi(c, <<Cmd("WREN")>>) = Ended(e)
  BY SpiIs, ClocksOne
<1> HIDE DEF e
<1>3. Unmoved(e, Ended(e)) /\ Ended(e).state = "idle"
  BY <1>1, EndNothing
<1> QED BY <1>1, <1>2, <1>3 DEF Unmoved

\* A chip that is enabled and busy refuses what would change it.
Refuses(c, r) == /\ r \in ChipSet /\ r.state = "idle" /\ r.out = <<>> /\ r.refused
                 /\ r.mem = c.mem /\ r.wip /\ r.dp = c.dp /\ r.confused = c.confused

\* The end of a refused command.
LEMMA EndRefused ==
    ASSUME NEW c \in ChipSet, NEW d \in ChipSet, d.state = "invalid", d.refused, d.wip,
           d.mem = c.mem, d.dp = c.dp, d.confused = c.confused
    PROVE  Refuses(c, Ended(d))
BY EndNothing DEF Refuses, Unmoved

\* An erase, from its command to its end.
LEMMA SpiErase ==
    ASSUME NEW c \in ChipSet, c.state = "idle", c.wel, ~c.dp, NEW a \in Nat
    PROVE  LET r == Spi(c, <<Cmd("SE"), Addr(a)>>)
               m == [b \in Cells |-> IF SectorOf(b) = SectorOf(a) THEN Blank ELSE c.mem[b]]
           IN  (c.wip => Refuses(c, r)) /\ (~c.wip => Begun(c, r, m))
<1> DEFINE d == Clocked(c, Cmd("SE"))
           e == Clocked(d, Addr(a))
<1>1. Spi(c, <<Cmd("SE"), Addr(a)>>) = Ended(e)
  BY SpiIs, ClocksTwo
<1>2. /\ ~c.wip => Unmoved(c, d) /\ d.state = "SE"
      /\ c.wip => /\ d \in ChipSet /\ d.state = "invalid" /\ d.refused
                  /\ d.mem = c.mem /\ d.wip = c.wip /\ d.dp = c.dp
                  /\ d.confused = c.confused
  BY IdleWrite
<1>3. CASE c.wip
  <2>1. e = d
    <3> HIDE DEF d
    <3> QED BY <1>2, <1>3, InvalidIgnores DEF Addr
  <2> HIDE DEF d, e
  <2>2. Refuses(c, Ended(d))
    BY <1>2, <1>3, EndRefused
  <2> QED BY <1>1, <1>3, <2>1, <2>2
<1>4. CASE ~c.wip
  <2> HIDE DEF d
  <2>1. Unmoved(d, e) /\ e.state = "SE" /\ e.addr = a
    BY <1>2, <1>4, EraseAddr, ZenonT(40) DEF Unmoved
  <2> HIDE DEF e
  <2>2. Unmoved(c, d) /\ e \in ChipSet /\ e.mem = c.mem
    BY <1>2, <1>4, <2>1 DEF Unmoved
  <2>3. Begun(e, Ended(e), [b \in Cells |-> IF SectorOf(b) = SectorOf(a) THEN Blank ELSE c.mem[b]])
    BY <2>1, <2>2, EndErase
  <2> QED BY <1>1, <1>4, <2>1, <2>2, <2>3 DEF Begun, Unmoved
<1> QED BY <1>3, <1>4

-----------------------------------------------------------------------------
(***************************************************************************)
(* Bursts: words to be programmed into one page, and words read.           *)
(***************************************************************************)
Ins(n) == [i \in 1 .. n |-> WordIn]
Answered(d, r, n) ==
    /\ Unmoved(d, r) /\ r.state = "QUAD" /\ r.mode /\ Len(r.out) = n
    /\ \A i \in 1 .. n : r.out[i] = IF d.wip THEN Nil ELSE d.mem[d.addr + i - 1]

\* A burst of n words read: those from the address on, in order.
LEMMA WordsIn ==
    ASSUME NEW c, NEW S, NEW pre \in Seq(S), WordIn \in S, NEW n \in Nat, NEW d,
           d = Clocks(c, pre), d \in ChipSet, d.state = "QUAD", d.mode, d.out = <<>>,
           d.addr + n <= FlashLen
    PROVE  Answered(d, Clocks(c, pre \o Ins(n)), n)
<1> DEFINE w(k) == [i \in 1 .. k |-> WordIn]
           r(k) == Clocks(c, pre \o w(k))
           Is(k) == /\ Unmoved(d, r(k)) /\ r(k).state = "QUAD" /\ r(k).mode /\ Len(r(k).out) = k
                    /\ r(k).addr = d.addr + k
                    /\ \A i \in 1 .. k : r(k).out[i] = IF d.wip THEN Nil ELSE d.mem[d.addr + i - 1]
           N == {k \in Nat : k <= n => Is(k)}
<1>1. 0 \in N
  <2>1. r(0) = d
    <3> DEFINE u == [i \in 1 .. 0 |-> WordIn]
    <3>1. Clocks(c, pre \o [i \in 1 .. 0 |-> u[i]]) = Clocks(c, pre)
      BY ClocksNone
    <3>2. [i \in 1 .. 0 |-> u[i]] = w(0)
      OBVIOUS
    <3> QED BY <3>1, <3>2
  <2> HIDE DEF r
  <2>2. Is(0)
    <3>1. Unmoved(d, d) /\ Len(d.out) = 0 /\ d.addr = d.addr + 0 /\ 1 .. 0 = {}
      BY DEF Unmoved, ChipSet
    <3> QED BY <2>1, <3>1
  <2> QED BY <2>2
<1>2. ASSUME NEW k \in N PROVE k + 1 \in N
  <2> HIDE DEF Is
  <2> SUFFICES ASSUME k + 1 <= n PROVE Is(k + 1)
    OBVIOUS
  <2>1. k \in Nat /\ Is(k)
    OBVIOUS
  <2> USE DEF Is
  <2>2. r(k + 1) = Clocked(r(k), WordIn)
    <3> DEFINE u == [i \in 1 .. k + 1 |-> WordIn]
    <3>1. u \in [1 .. k + 1 -> S] /\ u[k + 1] = WordIn
      BY <2>1
    <3>2. [i \in 1 .. k |-> u[i]] = w(k)
      BY <2>1
    <3>3. u = w(k + 1)
      OBVIOUS
    <3> HIDE DEF u, w
    <3>4. Clocks(c, pre \o u) = Clocked(Clocks(c, pre \o [i \in 1 .. k |-> u[i]]), u[k + 1])
      BY <2>1, <3>1, ClocksMore
    <3> QED BY <3>1, <3>2, <3>3, <3>4
  <2> DEFINE b == r(k)
             e == r(k + 1)
  <2>4. e = Clocked(b, WordIn)
    BY <2>2
  <2>5. /\ Unmoved(d, b) /\ b.state = "QUAD" /\ b.mode /\ Len(b.out) = k /\ b.addr = d.addr + k
        /\ \A i \in 1 .. k : b.out[i] = IF d.wip THEN Nil ELSE d.mem[d.addr + i - 1]
    BY <2>1
  <2>3. b \in ChipSet /\ b.state = "QUAD" /\ b.addr \in Cells
    <3> HIDE DEF b, r, Is
    <3>1. d.addr \in Nat /\ b \in ChipSet
      BY <2>5 DEF Unmoved, ChipSet
    <3> QED BY <2>1, <2>5, <3>1, FlashLenIs
  <2>6. /\ Unmoved(d, e) /\ e.state = "QUAD" /\ e.mode /\ Len(e.out) = k + 1
        /\ e.addr = d.addr + (k + 1)
        /\ \A i \in 1 .. k + 1 : e.out[i] = IF d.wip THEN Nil ELSE d.mem[d.addr + i - 1]
    <3> HIDE DEF b, e, Is
    <3> DEFINE x == IF b.wip THEN Nil ELSE b.mem[b.addr]
    <3>1. /\ Unmoved(b, e) /\ e.state = "QUAD" /\ e.addr = b.addr + 1 /\ e.mode = b.mode
          /\ e.out = Append(b.out, x)
      BY <2>3, <2>4, QuadIn
    <3>2. x = IF d.wip THEN Nil ELSE d.mem[d.addr + (k + 1) - 1]
      BY <2>1, <2>5 DEF Unmoved, ChipSet
    <3> HIDE DEF x
    <3>3. b.out \in Seq(Word \cup BOOLEAN \cup {x})
      BY <2>3 DEF ChipSet
    <3>4. Len(e.out) = k + 1 /\ e.out[k + 1] = x /\ \A i \in 1 .. k : e.out[i] = b.out[i]
      BY <2>1, <2>5, <3>1, <3>3, AppendProperties
    <3>5. ASSUME NEW i \in 1 .. k + 1
          PROVE  e.out[i] = IF d.wip THEN Nil ELSE d.mem[d.addr + i - 1]
      <4>1. CASE i = k + 1
        BY <3>2, <3>4, <4>1
      <4>2. CASE i # k + 1
        BY <2>1, <2>5, <3>4, <4>2
      <4> QED BY <4>1, <4>2
    <3>6. e.addr = d.addr + (k + 1)
      BY <2>1, <2>5, <3>1 DEF ChipSet
    <3>7. Unmoved(d, e)
      BY <2>5, <3>1 DEF Unmoved
    <3> QED BY <2>5, <3>1, <3>4, <3>5, <3>6, <3>7
  <2> QED BY <2>6
<1>3. N = Nat
  <2>1. N \in SUBSET Nat
    OBVIOUS
  <2> HIDE DEF N
  <2> QED BY <1>1, <1>2, <2>1, NatInduct
<1>4. Is(n)
  <2> HIDE DEF Is
  <2> QED BY <1>3
<1> QED BY <1>4 DEF Answered, Ins

\* What a word that was sent is, in a set of tokens.
LEMMA WordsTokens ==
    ASSUME NEW a, NEW m \in Nat, NEW w \in [1 .. m -> Word]
    PROVE  LET S == {Cmd("QPP"), Addr(a)} \cup {WordOut(x) : x \in Word}
           IN  /\ <<Cmd("QPP"), Addr(a)>> \in Seq(S)
               /\ [i \in 1 .. m |-> WordOut(w[i])] \in [1 .. m -> S]
OBVIOUS

\* A burst of m words programmed: none before the address, none in another page.
LEMMA WordsOut ==
    ASSUME NEW c \in ChipSet, c.state = "idle", c.wel, ~c.dp, ~c.wip, NEW a \in Nat,
           NEW m \in Nat, NEW w \in [1 .. m -> Word], (a % PageW) + m <= PageW
    PROVE  LET r == Clocks(c, <<Cmd("QPP"), Addr(a)>> \o [i \in 1 .. m |-> WordOut(w[i])])
           IN  /\ Unmoved(c, r) /\ r.state = "QPP" /\ PageOf(r.addr) = PageOf(a)
               /\ \A i \in 0 .. (a % PageW) - 1 : r.page[i] = Blank
<1> DEFINE pre == <<Cmd("QPP"), Addr(a)>>
           v == [i \in 1 .. m |-> WordOut(w[i])]
           r(k) == Clocks(c, pre \o [i \in 1 .. k |-> v[i]])
           Is(k) == /\ Unmoved(c, r(k)) /\ r(k).state = "QPP" /\ PageOf(r(k).addr) = PageOf(a)
                    /\ k < m => r(k).addr = a + k
                    /\ \A i \in 0 .. (a % PageW) - 1 : r(k).page[i] = Blank
           N == {k \in Nat : k <= m => Is(k)}
           S == {Cmd("QPP"), Addr(a)} \cup {WordOut(x) : x \in Word}
<1>0. pre \in Seq(S) /\ v \in [1 .. m -> S]
  BY WordsTokens
<1>1. 0 \in N
  <2> DEFINE d == Clocked(c, Cmd("QPP"))
             e == Clocked(d, Addr(a))
  <2>1. Clocks(c, pre) = e
    BY ClocksTwo
  <2>2. r(0) = e
    <3> HIDE DEF pre, v, d, e, S
    <3>1. Clocks(c, pre \o [i \in 1 .. 0 |-> v[i]]) = Clocks(c, pre)
      BY <1>0, ClocksNone
    <3> QED BY <2>1, <3>1
  <2>3. Unmoved(c, d) /\ d.state = "QPP"
    BY IdleWrite
  <2> HIDE DEF d
  <2>4. /\ Unmoved(d, e) /\ e.state = "QPP" /\ e.addr = a
        /\ \A i \in 0 .. PageW - 1 : e.page[i] = Blank
    BY <2>3, ProgramAddr DEF Unmoved
  <2> HIDE DEF e, r
  <2>5. a % PageW \in 0 .. PageW - 1
    OBVIOUS
  <2>6. \A i \in 0 .. (a % PageW) - 1 : e.page[i] = Blank
    BY <2>4, <2>5
  <2>7. /\ Unmoved(c, e) /\ e.state = "QPP" /\ PageOf(e.addr) = PageOf(a) /\ e.addr = a + 0
        /\ \A i \in 0 .. (a % PageW) - 1 : e.page[i] = Blank
    BY <2>3, <2>4, <2>6 DEF Unmoved
  <2>8. Is(0)
    BY <2>2, <2>7
  <2> HIDE DEF Is
  <2> QED BY <2>8
<1>2. ASSUME NEW k \in N PROVE k + 1 \in N
  <2> HIDE DEF Is
  <2> SUFFICES ASSUME k + 1 <= m PROVE Is(k + 1)
    OBVIOUS
  <2>1. k \in Nat /\ Is(k) /\ k < m
    OBVIOUS
  <2> USE DEF Is
  <2> DEFINE b == r(k)
             e == r(k + 1)
             x == w[k + 1]
  <2>2. e = Clocked(b, WordOut(x))
    <3> DEFINE u == [i \in 1 .. k + 1 |-> v[i]]
    <3>1. u \in [1 .. k + 1 -> S] /\ u[k + 1] = WordOut(x)
      <4>1. u[k + 1] = WordOut(x)
        BY <2>1
      <4> HIDE DEF v, S
      <4>2. u \in [1 .. k + 1 -> S]
        BY <1>0, <2>1
      <4> QED BY <4>1, <4>2
    <3>2. [i \in 1 .. k |-> u[i]] = [i \in 1 .. k |-> v[i]]
      <4> HIDE DEF v
      <4> QED BY <2>1
    <3> HIDE DEF u, v, pre, S
    <3>3. Clocks(c, pre \o u) = Clocked(Clocks(c, pre \o [i \in 1 .. k |-> u[i]]), u[k + 1])
      BY <1>0, <2>1, <3>1, ClocksMore
    <3>4. e = Clocks(c, pre \o u)
      BY DEF u
    <3> QED BY <3>1, <3>2, <3>3, <3>4
  <2>3. /\ Unmoved(c, b) /\ b.state = "QPP" /\ b.addr = a + k
        /\ \A i \in 0 .. (a % PageW) - 1 : b.page[i] = Blank
    BY <2>1
  <2>4. x \in Word
    BY <2>1
  <2> HIDE DEF b, e, x, Is, r, v
  <2>5. /\ Unmoved(b, e) /\ e.state = "QPP"
        /\ e.addr = PageOf(b.addr) * PageW + ((b.addr + 1) % PageW)
        /\ \A i \in 0 .. PageW - 1 : i # b.addr % PageW => e.page[i] = b.page[i]
    BY <2>2, <2>3, <2>4, ProgramWord, ZenonT(60) DEF Unmoved
  <2>6. /\ PageOf(a) \in Int /\ a % PageW \in 0 .. PageW - 1
        /\ a = PageOf(a) * PageW + (a % PageW)
    BY Division DEF PageOf
  <2>7. PageOf(a + k) = PageOf(a)
    <3>1. a + k \in Int /\ PageOf(a) * PageW <= a + k /\ a + k < (PageOf(a) + 1) * PageW
      BY <2>1, <2>6
    <3> QED BY <2>6, <3>1, PageRange
  <2>8. ASSUME NEW y \in Int, PageOf(y) = PageOf(a)
        PROVE  y % PageW = y - PageOf(a) * PageW
    <3>1. y = PageOf(y) * PageW + (y % PageW) /\ y % PageW \in Int /\ PageOf(y) \in Int
      BY Division DEF PageOf
    <3> DEFINE z == PageOf(y) * PageW
    <3>2. z \in Int
      BY <3>1
    <3> HIDE DEF z
    <3>3. y % PageW = y - z
      BY <3>1, <3>2 DEF z
    <3> QED BY <2>8, <3>3 DEF z
  <2>9. (a + k) % PageW = (a % PageW) + k
    <3>1. (a + k) % PageW = (a + k) - PageOf(a) * PageW
      BY <2>1, <2>7, <2>8
    <3> DEFINE z == PageOf(a) * PageW
               q == a % PageW
    <3>2. z \in Int /\ q \in Int /\ a = z + q
      BY <2>6
    <3>3. (a + k) % PageW = (a + k) - z
      BY <3>1
    <3>4. a % PageW = q
      OBVIOUS
    <3> HIDE DEF z, q
    <3> QED BY <2>1, <3>2, <3>3, <3>4
  <2>10. /\ e.addr = PageOf(a) * PageW + ((a + k + 1) % PageW)
         /\ (a + k + 1) % PageW \in 0 .. PageW - 1
    BY <2>1, <2>3, <2>5, <2>7
  <2>11. PageOf(e.addr) = PageOf(a)
    <3>1. e.addr \in Int /\ PageOf(a) * PageW <= e.addr /\ e.addr < (PageOf(a) + 1) * PageW
      BY <2>6, <2>10
    <3> QED BY <2>6, <3>1, PageRange
  <2>12. k + 1 < m => e.addr = a + (k + 1)
    <3> SUFFICES ASSUME k + 1 < m PROVE e.addr = a + (k + 1)
      OBVIOUS
    <3>1. PageOf(a + k + 1) = PageOf(a)
      <4>1. /\ a + k + 1 \in Int /\ PageOf(a) * PageW <= a + k + 1
            /\ a + k + 1 < (PageOf(a) + 1) * PageW
        BY <2>1, <2>6
      <4> QED BY <2>6, <4>1, PageRange
    <3>2. (a + k + 1) % PageW = (a + k + 1) - PageOf(a) * PageW
      BY <2>1, <2>8, <3>1
    <3> DEFINE z == PageOf(a) * PageW
    <3>3. z \in Int
      BY <2>6
    <3> HIDE DEF z
    <3> QED BY <2>1, <2>10, <3>2, <3>3, SMTT(40) DEF z
  <2>13. \A i \in 0 .. (a % PageW) - 1 : e.page[i] = Blank
    <3> TAKE i \in 0 .. (a % PageW) - 1
    <3>1. b.addr % PageW = (a % PageW) + k /\ a % PageW \in 0 .. PageW - 1
      BY <2>3, <2>6, <2>9
    <3> DEFINE q == a % PageW
    <3>2. i \in 0 .. q - 1 /\ q \in 0 .. PageW - 1 /\ b.addr % PageW = q + k
      BY <3>1
    <3> HIDE DEF q
    <3>3. i \in 0 .. PageW - 1 /\ i # q + k
      BY <2>1, <3>2
    <3>4. i # b.addr % PageW
      BY <3>2, <3>3
    <3> QED BY <2>3, <2>5, <3>3, <3>4
  <2>14. Unmoved(c, e)
    BY <2>3, <2>5 DEF Unmoved
  <2> QED BY <2>5, <2>11, <2>12, <2>13, <2>14 DEF Is, e
<1>3. N = Nat
  <2>1. N \in SUBSET Nat
    OBVIOUS
  <2> HIDE DEF N
  <2> QED BY <1>1, <1>2, <2>1, NatInduct
<1>4. Is(m)
  <2> HIDE DEF Is
  <2> QED BY <1>3
<1>5. [i \in 1 .. m |-> v[i]] = v
  OBVIOUS
<1> QED BY <1>4, <1>5

\* A busy chip takes none of them.
LEMMA WordsRefused ==
    ASSUME NEW c \in ChipSet, c.state = "idle", c.wel, ~c.dp, c.wip, NEW a \in Nat,
           NEW m \in Nat, NEW w \in [1 .. m -> Word]
    PROVE  Clocks(c, <<Cmd("QPP"), Addr(a)>> \o [i \in 1 .. m |-> WordOut(w[i])])
             = Clocked(c, Cmd("QPP"))
<1> DEFINE pre == <<Cmd("QPP"), Addr(a)>>
           v == [i \in 1 .. m |-> WordOut(w[i])]
           d == Clocked(c, Cmd("QPP"))
           r(k) == Clocks(c, pre \o [i \in 1 .. k |-> v[i]])
           N == {k \in Nat : k <= m => r(k) = d}
           S == {Cmd("QPP"), Addr(a)} \cup {WordOut(x) : x \in Word}
<1>0. pre \in Seq(S) /\ v \in [1 .. m -> S]
  BY WordsTokens
<1>1. d \in ChipSet /\ d.state = "invalid"
  BY IdleWrite
<1>2. 0 \in N
  <2>1. Clocks(c, pre) = Clocked(d, Addr(a))
    BY ClocksTwo
  <2> HIDE DEF pre, v, d, S
  <2>2. Clocked(d, Addr(a)) = d
    BY <1>1, InvalidIgnores DEF Addr
  <2>3. Clocks(c, pre \o [i \in 1 .. 0 |-> v[i]]) = Clocks(c, pre)
    BY <1>0, ClocksNone
  <2> QED BY <2>1, <2>2, <2>3
<1>3. ASSUME NEW k \in N PROVE k + 1 \in N
  <2> HIDE DEF r
  <2> SUFFICES ASSUME k + 1 <= m PROVE r(k + 1) = d
    OBVIOUS
  <2>1. k \in Nat /\ r(k) = d /\ k + 1 \in 1 .. m
    OBVIOUS
  <2> USE DEF r
  <2> DEFINE u == [i \in 1 .. k + 1 |-> v[i]]
  <2>2. u \in [1 .. k + 1 -> S] /\ u[k + 1] = WordOut(w[k + 1])
    <3>1. u[k + 1] = WordOut(w[k + 1])
      BY <2>1
    <3> HIDE DEF v, S
    <3>2. u \in [1 .. k + 1 -> S]
      BY <1>0, <2>1
    <3> QED BY <3>1, <3>2
  <2>3. [i \in 1 .. k |-> u[i]] = [i \in 1 .. k |-> v[i]]
    <3> HIDE DEF v
    <3> QED BY <2>1
  <2> HIDE DEF u, v, pre, S
  <2>4. Clocks(c, pre \o u) = Clocked(Clocks(c, pre \o [i \in 1 .. k |-> u[i]]), u[k + 1])
    BY <1>0, <2>1, <2>2, ClocksMore
  <2>5. r(k + 1) = Clocks(c, pre \o u)
    BY DEF u
  <2>6. r(k + 1) = Clocked(d, WordOut(w[k + 1]))
    BY <2>1, <2>2, <2>3, <2>4, <2>5
  <2> HIDE DEF d, r
  <2> QED BY <1>1, <2>6, InvalidIgnores DEF WordOut
<1>4. N = Nat
  <2>1. N \in SUBSET Nat
    OBVIOUS
  <2> HIDE DEF N
  <2> QED BY <1>2, <1>3, <2>1, NatInduct
<1>5. r(m) = d
  <2> HIDE DEF r
  <2> QED BY <1>4
<1>6. [i \in 1 .. m |-> v[i]] = v
  OBVIOUS
<1> QED BY <1>5, <1>6

Outs(m, w) == [i \in 1 .. m |-> WordOut(w[i])]
Programmed(c, r, a) ==
    /\ c.wip => Refuses(c, r)
    /\ ~c.wip => \E mem \in [Cells -> Word] :
                   /\ Begun(c, r, mem)
                   /\ \A b \in Cells : PageOf(b) # PageOf(a) \/ b < a => mem[b] = c.mem[b]

\* A program, from its command to its end.
LEMMA SpiProgram ==
    ASSUME NEW c \in ChipSet, c.state = "idle", c.wel, ~c.dp, NEW a \in Nat,
           NEW m \in Nat, NEW w \in [1 .. m -> Word], (a % PageW) + m <= PageW
    PROVE  Programmed(c, Spi(c, <<Cmd("QPP"), Addr(a)>> \o Outs(m, w)), a)
<1> DEFINE tokens == <<Cmd("QPP"), Addr(a)>> \o Outs(m, w)
           d == Clocks(c, tokens)
<1>1. Spi(c, tokens) = Ended(d)
  <2> HIDE DEF tokens
  <2> QED BY SpiIs
<1>2. CASE c.wip
  <2> DEFINE e == Clocked(c, Cmd("QPP"))
  <2>1. d = e
    BY <1>2, WordsRefused DEF Outs
  <2>2. /\ e \in ChipSet /\ e.state = "invalid" /\ e.refused
        /\ e.mem = c.mem /\ e.wip = c.wip /\ e.dp = c.dp /\ e.confused = c.confused
    BY <1>2, IdleWrite
  <2> HIDE DEF tokens, d, e
  <2>3. Refuses(c, Ended(e))
    BY <1>2, <2>2, EndRefused
  <2> QED BY <1>1, <1>2, <2>1, <2>3 DEF tokens, Programmed
<1>3. CASE ~c.wip
  <2>1. /\ Unmoved(c, d) /\ d.state = "QPP" /\ PageOf(d.addr) = PageOf(a)
        /\ \A i \in 0 .. (a % PageW) - 1 : d.page[i] = Blank
    BY <1>3, WordsOut DEF Outs
  <2> HIDE DEF tokens, d
  <2>2. d \in ChipSet
    BY <2>1 DEF Unmoved
  <2>3. PICK mem \in [Cells -> Word] :
             /\ Begun(d, Ended(d), mem)
             /\ \A b \in Cells : PageOf(b) # PageOf(d.addr) \/ d.page[b % PageW] = Blank
                                   => mem[b] = d.mem[b]
    BY <2>1, <2>2, EndProgram
  <2>4. Begun(c, Ended(d), mem)
    BY <2>1, <2>3 DEF Begun, Unmoved
  <2>5. ASSUME NEW b \in Cells, PageOf(b) = PageOf(a), b < a
        PROVE  d.page[b % PageW] = Blank
    <3> DEFINE z == PageOf(a) * PageW
               x == a % PageW
               y == b % PageW
    <3>1. x \in 0 .. PageW - 1 /\ a = z + x /\ y \in 0 .. PageW - 1 /\ b = z + y /\ z \in Int
      <4>1. b \in Int /\ PageOf(a) \in Int /\ PageOf(b) \in Int
        BY FlashLenIs, Division DEF PageOf
      <4>2. x \in 0 .. PageW - 1 /\ a = z + x
        BY Division DEF PageOf
      <4>3. y \in 0 .. PageW - 1 /\ b = PageOf(b) * PageW + y
        BY <4>1, Division DEF PageOf
      <4> QED BY <2>5, <4>1, <4>2, <4>3
    <3> HIDE DEF x, y, z
    <3>2. y \in 0 .. x - 1
      BY <2>5, <3>1
    <3> QED BY <2>1, <3>2 DEF x, y
  <2>6. \A b \in Cells : PageOf(b) # PageOf(a) \/ b < a => mem[b] = c.mem[b]
    BY <2>1, <2>3, <2>5 DEF Unmoved
  <2> QED BY <1>1, <1>3, <2>4, <2>6 DEF tokens, Programmed
<1> QED BY <1>2, <1>3

-----------------------------------------------------------------------------
(***************************************************************************)
(* The controller's operations.                                            *)
(***************************************************************************)
LEMMA LeftIs ==
    ASSUME BoardInv
    PROVE  Unmoved(chip, Left) /\ Left.state = "idle" /\ Left.out = <<>>
<1>1. chip \in ChipSet
  BY DEF BoardInv, ChipRests
<1>2. CASE ctl.xip
  <2>1. chip.state = "xip" /\ Left = Spi(chip, <<Addr(0), Mode(FALSE)>>)
    BY <1>2 DEF BoardInv, CtlInv, Left
  <2>2. LET r == Spi(chip, <<Addr(0), Mode(FALSE)>>)
        IN  Unmoved(chip, r) /\ r.state = "idle" /\ r.out = <<>>
    BY <1>1, <2>1, SpiLeave
  <2> QED BY <2>1, <2>2
<1>3. CASE ~ctl.xip
  <2>1. chip.state = "idle" /\ Left = chip /\ chip.out = <<>>
    BY <1>3 DEF BoardInv, CtlInv, ChipRests, Left
  <2> QED BY <1>1, <2>1 DEF Unmoved
<1> QED BY <1>2, <1>3

\* After a change to the controller's flags.
LEMMA BoardAfter ==
    ASSUME BoardInv, NEW wip \in BOOLEAN, NEW wp \in BOOLEAN, NEW xip \in BOOLEAN,
           ctl' = [ctl EXCEPT !.wip = wip, !.wp = wp, !.xip = xip],
           HistType', hist'.busy = hist.busy,
           chip' \in ChipSet, ~chip'.dp, ~chip'.confused, chip'.out = <<>>,
           chip'.state = IF xip THEN "xip" ELSE "idle",
           wip => ~xip, chip'.wip => wip \/ hist.busy, chip'.refused => hist.busy
    PROVE  BoardInv'
<1>1. /\ ctl' \in [wip : BOOLEAN, wp : BOOLEAN, quad : {TRUE}, xip : BOOLEAN]
      /\ ctl'.wip = wip /\ ctl'.xip = xip
  BY DEF BoardInv, CtlInv
<1>2. ChipRests(chip')
  BY DEF ChipRests
<1>3. CtlInv'
  BY <1>1 DEF CtlInv
<1> QED BY <1>2, <1>3 DEF BoardInv

\* Over the bus: n words read are those of the flash, if it is not busy.
LEMMA ReadBoard ==
    ASSUME BoardInv, NEW a \in Nat, NEW n \in Nat, a + n <= FlashLen, ReadStep(a, n)
    PROVE  /\ BoardInv' /\ chip'.mem = chip.mem
           /\ hist' \in [orig : {hist.orig}, sectors : {hist.sectors}, busy : {hist.busy},
                         blind : BOOLEAN, short : {hist.short}, runs : {hist.runs},
                         resets : {hist.resets}]
           /\ hist'.blind <=> hist.blind \/ chip.wip
           /\ Len(Read(a, n)) = n
           /\ \A i \in 1 .. n : Read(a, n)[i] = IF chip.wip THEN Nil ELSE chip.mem[a + i - 1]
<1> DEFINE t == Mode(TRUE)
           pre == IF ctl.xip THEN <<Addr(a), t>> ELSE <<Cmd("QUAD"), Addr(a), t>>
           S == {Addr(a), t, Cmd("QUAD"), WordIn}
           v == Ins(n)
           d == Clocks(chip, pre)
           r == Clocks(chip, pre \o v)
<1>1. ReadTokens(a, n) = pre \o v
  BY DEF ReadTokens, Ins, BoardInv, CtlInv
<1>2. pre \in Seq(S) /\ WordIn \in S
  <2> HIDE DEF t
  <2>1. <<Addr(a), t>> \in Seq(S) /\ <<Cmd("QUAD"), Addr(a), t>> \in Seq(S)
    OBVIOUS
  <2>2. CASE ctl.xip
    BY <2>1, <2>2
  <2>3. CASE ~ctl.xip
    BY <2>1, <2>3
  <2> QED BY <2>2, <2>3
<1>3. chip \in ChipSet /\ chip.state = (IF ctl.xip THEN "xip" ELSE "idle") /\ chip.out = <<>>
      /\ ctl.xip \in BOOLEAN
  BY DEF BoardInv, CtlInv, ChipRests
<1>4. Unmoved(chip, d) /\ d.state = "QUAD" /\ d.mode /\ d.addr = a /\ d.out = <<>>
  <2>1. CASE ctl.xip
    <3> DEFINE x == Clocked(chip, Addr(a))
               y == Clocked(x, t)
    <3>1. Unmoved(chip, x) /\ x.state = "QUAD" /\ x.addr = a /\ x.out = <<>>
      BY <1>3, <2>1, XipAddr
    <3>2. d = y
      <4>1. pre = <<Addr(a), t>>
        BY <2>1
      <4> HIDE DEF t, pre
      <4> QED BY <4>1, ClocksTwo
    <3> HIDE DEF x, d, pre
    <3>3. Unmoved(x, y) /\ y.state = "QUAD" /\ y.addr = a /\ y.mode = TRUE /\ y.out = <<>>
      BY <3>1, QuadMode DEF Unmoved
    <3> HIDE DEF y, t
    <3> QED BY <3>1, <3>2, <3>3 DEF Unmoved
  <2>2. CASE ~ctl.xip
    <3> DEFINE z == Clocked(chip, Cmd("QUAD"))
               x == Clocked(z, Addr(a))
               y == Clocked(x, t)
    <3>1. Unmoved(chip, z) /\ z.state = "QUAD" /\ z.out = <<>>
      BY <1>3, <2>2, IdleQuad
    <3>2. d = y
      <4>1. pre = <<Cmd("QUAD"), Addr(a), t>>
        BY <2>2
      <4> HIDE DEF t, pre
      <4> QED BY <4>1, ClocksThree
    <3> HIDE DEF z, d, pre
    <3>3. Unmoved(z, x) /\ x.state = "QUAD" /\ x.addr = a /\ x.out = <<>>
      BY <3>1, QuadAddr DEF Unmoved
    <3> HIDE DEF x
    <3>4. Unmoved(x, y) /\ y.state = "QUAD" /\ y.addr = a /\ y.mode = TRUE /\ y.out = <<>>
      BY <3>3, QuadMode DEF Unmoved
    <3> HIDE DEF y, t
    <3> QED BY <3>1, <3>2, <3>3, <3>4 DEF Unmoved
  <2> QED BY <2>1, <2>2
<1> HIDE DEF d, pre, t, S
<1>5. /\ Unmoved(d, r) /\ r.state = "QUAD" /\ r.mode /\ Len(r.out) = n
      /\ \A i \in 1 .. n : r.out[i] = IF d.wip THEN Nil ELSE d.mem[d.addr + i - 1]
  <2>1. d \in ChipSet /\ Clocks(chip, pre) = d /\ d.addr + n <= FlashLen
    BY <1>4 DEF d, Unmoved
  <2>2. Answered(d, r, n)
    BY <1>2, <1>4, <2>1, WordsIn
  <2> HIDE DEF r
  <2> QED BY <2>2 DEF Answered
<1>6. Read(a, n) = r.out
  BY <1>1 DEF Read, Answer
<1>7. chip' = Ended(r)
  BY <1>1, SpiIs DEF ReadStep
<1> HIDE DEF r, v
<1>8. Unmoved(chip, r)
  BY <1>4, <1>5 DEF Unmoved
<1>9. Unmoved(chip, chip') /\ chip'.out = <<>> /\ chip'.state = "xip"
  <2>1. Unmoved(r, Ended(r)) /\ Ended(r).out = <<>> /\ Ended(r).state = "xip"
    BY <1>5, EndQuad DEF Unmoved
  <2> QED BY <1>7, <1>8, <2>1 DEF Unmoved
<1>10. /\ hist' \in [orig : {hist.orig}, sectors : {hist.sectors}, busy : {hist.busy},
                      blind : BOOLEAN, short : {hist.short}, runs : {hist.runs},
                      resets : {hist.resets}]
       /\ hist'.blind <=> hist.blind \/ chip.wip
  <2>1. hist' = [hist EXCEPT !.blind = @ \/ chip.wip]
    BY DEF ReadStep
  <2> QED BY <2>1 DEF BoardInv, HistType
<1>11. BoardInv'
  <2>1. HistType' /\ hist'.busy = hist.busy
    BY <1>10 DEF BoardInv, HistType
  <2>2. ctl' = [ctl EXCEPT !.wip = FALSE, !.wp = ctl.wp, !.xip = TRUE] /\ ctl.wp \in BOOLEAN
    BY DEF ReadStep, BoardInv, CtlInv
  <2>3. /\ chip' \in ChipSet /\ ~chip'.dp /\ ~chip'.confused
        /\ (chip'.wip => hist.busy) /\ (chip'.refused => hist.busy)
    BY <1>9 DEF Unmoved, BoardInv, ChipRests, CtlInv, ReadStep, CanGo
  <2> QED BY <1>9, <2>1, <2>2, <2>3, BoardAfter
<1>12. \A i \in 1 .. n : Read(a, n)[i] = IF chip.wip THEN Nil ELSE chip.mem[a + i - 1]
  BY <1>4, <1>5, <1>6 DEF Unmoved
<1> QED BY <1>5, <1>6, <1>9, <1>10, <1>11, <1>12 DEF Unmoved

\* Over the bus: the erase register is read.
LEMMA EregBoard ==
    ASSUME BoardInv, ReadEreg, UNCHANGED hist
    PROVE  BoardInv' /\ chip'.mem = chip.mem
<1>1. CASE ctl.wip
  <2>1. chip \in ChipSet /\ chip.state = "idle" /\ ctl.xip = FALSE
    BY <1>1 DEF BoardInv, CtlInv, ChipRests
  <2>2. Unmoved(chip, chip') /\ chip'.state = "idle" /\ chip'.out = <<>>
    <3>1. chip' = Spi(chip, <<Cmd("RDSR"), WordIn>>)
      BY <1>1 DEF ReadEreg
    <3> QED BY <2>1, <3>1, SpiRegister
  <2>3. ctl' = [ctl EXCEPT !.wip = chip.wip, !.wp = ctl.wp, !.xip = FALSE]
        /\ ctl.wp \in BOOLEAN /\ chip.wip \in BOOLEAN
    BY <1>1, <2>1 DEF ReadEreg, BoardInv, CtlInv, ChipSet
  <2>4. HistType' /\ hist'.busy = hist.busy
    BY DEF BoardInv, HistType
  <2>5. /\ chip' \in ChipSet /\ ~chip'.dp /\ ~chip'.confused
        /\ (chip'.wip => chip.wip) /\ (chip'.refused => hist.busy)
    BY <2>2 DEF Unmoved, BoardInv, ChipRests, CtlInv
  <2>6. BoardInv'
    BY <2>2, <2>3, <2>4, <2>5, BoardAfter
  <2> QED BY <2>2, <2>6 DEF Unmoved
<1>2. CASE ~ctl.wip
  <2>1. chip' = chip /\ ctl' = ctl /\ hist' = hist
    BY <1>2 DEF ReadEreg
  <2> QED BY <2>1 DEF BoardInv, CtlInv, HistType
<1> QED BY <1>1, <1>2

\* Over the bus: write protection, on or off.
LEMMA ProtectBoard ==
    ASSUME BoardInv, NEW wp \in BOOLEAN, Protect(wp), UNCHANGED hist
    PROVE  BoardInv' /\ chip'.mem = chip.mem
<1>1. Unmoved(chip, chip') /\ chip'.state = "idle" /\ chip'.out = <<>>
  BY LeftIs DEF Protect
<1>2. ctl' = [ctl EXCEPT !.wip = ctl.wip, !.wp = wp, !.xip = FALSE] /\ ctl.wip \in BOOLEAN
  BY DEF Protect, BoardInv, CtlInv
<1>3. HistType' /\ hist'.busy = hist.busy
  BY DEF BoardInv, HistType
<1>4. /\ chip' \in ChipSet /\ ~chip'.dp /\ ~chip'.confused
      /\ (chip'.wip => ctl.wip \/ hist.busy) /\ (chip'.refused => hist.busy)
  BY <1>1 DEF Unmoved, BoardInv, ChipRests, CtlInv
<1>5. BoardInv'
  BY <1>1, <1>2, <1>3, <1>4, BoardAfter
<1> QED BY <1>1, <1>5 DEF Unmoved

\* Over the bus: another register is read.
LEMMA PeekBoard ==
    ASSUME BoardInv, Peek
    PROVE  BoardInv' /\ chip'.mem = chip.mem
<1>1. PICK k \in {"RDID", "RDCR", "RDSR"} : chip' = Spi(Left, <<Cmd(k), WordIn>>)
  BY DEF Peek
<1>2. Unmoved(chip, Left) /\ Left.state = "idle" /\ Left.out = <<>>
  BY LeftIs
<1>3. Unmoved(chip, chip') /\ chip'.state = "idle" /\ chip'.out = <<>>
  BY <1>1, <1>2, SpiRegister DEF Unmoved
<1>4. ctl' = [ctl EXCEPT !.wip = ctl.wip, !.wp = ctl.wp, !.xip = FALSE]
      /\ ctl.wip \in BOOLEAN /\ ctl.wp \in BOOLEAN
  BY DEF Peek, BoardInv, CtlInv
<1>5. HistType' /\ hist'.busy = hist.busy
  BY DEF Peek, BoardInv, HistType
<1>6. /\ chip' \in ChipSet /\ ~chip'.dp /\ ~chip'.confused
      /\ (chip'.wip => ctl.wip \/ hist.busy) /\ (chip'.refused => hist.busy)
  BY <1>3 DEF Unmoved, BoardInv, ChipRests, CtlInv
<1>7. BoardInv'
  BY <1>3, <1>4, <1>5, <1>6, BoardAfter
<1> QED BY <1>3, <1>7 DEF Unmoved

\* Out of continuous read, and enabled.
LEMMA EnabledIs ==
    ASSUME BoardInv
    PROVE  LET r == Spi(Left, <<Cmd("WREN")>>)
           IN  /\ r \in ChipSet /\ r.state = "idle" /\ r.wel /\ r.mem = chip.mem
               /\ r.wip = chip.wip /\ ~r.dp /\ r.refused = chip.refused /\ ~r.confused
<1>1. Unmoved(chip, Left) /\ Left.state = "idle"
  BY LeftIs
<1>2. Left \in ChipSet /\ ~chip.dp /\ ~chip.confused
  BY <1>1 DEF Unmoved, BoardInv, ChipRests
<1>3. LET r == Spi(Left, <<Cmd("WREN")>>)
      IN  /\ r \in ChipSet /\ r.state = "idle" /\ r.wel
          /\ r.mem = Left.mem /\ r.wip = Left.wip /\ r.dp = Left.dp
          /\ r.refused = Left.refused /\ r.confused = Left.confused
  BY <1>1, <1>2, SpiEnable
<1> QED BY <1>1, <1>2, <1>3 DEF Unmoved

\* Over the bus: an erase changes its sector only.
LEMMA EraseBoard ==
    ASSUME BoardInv, NEW a \in Nat, Erase(a), UNCHANGED hist
    PROVE  BoardInv' /\ \A b \in Cells : SectorOf(b) # SectorOf(a) => chip'.mem[b] = chip.mem[b]
<1> DEFINE d == Spi(Left, <<Cmd("WREN")>>)
           r == Spi(d, <<Cmd("SE"), Addr(a)>>)
           m == [b \in Cells |-> IF SectorOf(b) = SectorOf(a) THEN Blank ELSE d.mem[b]]
<1>1. HistType' /\ hist'.busy = hist.busy
  BY DEF BoardInv, HistType
<1>2. chip.wip /\ Erases => hist.busy
  BY DEF BoardInv, CtlInv, Erase, CanGo, Erases
<1>3. chip.wip /\ ~Erases => hist.busy
  BY DEF BoardInv, CtlInv, Erase, CanGo
<1>4. /\ d \in ChipSet /\ d.state = "idle" /\ d.wel /\ d.mem = chip.mem
      /\ d.wip = chip.wip /\ ~d.dp /\ d.refused = chip.refused /\ ~d.confused
  BY EnabledIs
<1>5. ctl' = [ctl EXCEPT !.wip = Erases, !.wp = TRUE, !.xip = FALSE] /\ Erases \in BOOLEAN
  BY DEF Erase, Erases
<1>6. CASE Erases
  <2>1. chip' = r
    BY <1>6 DEF Erase
  <2>2. chip.refused => hist.busy
    BY DEF BoardInv, CtlInv
  <2> HIDE DEF d
  <2>3. (d.wip => Refuses(d, r)) /\ (~d.wip => Begun(d, r, m))
    BY <1>4, SpiErase
  <2> HIDE DEF r
  <2>4. /\ chip' \in ChipSet /\ ~chip'.dp /\ ~chip'.confused /\ chip'.out = <<>>
        /\ chip'.state = "idle" /\ (chip'.refused => hist.busy)
    BY <1>2, <1>4, <1>6, <2>1, <2>2, <2>3 DEF Refuses, Begun
  <2>5. BoardInv'
    BY <1>1, <1>5, <1>6, <2>4, BoardAfter
  <2>6. \A b \in Cells : SectorOf(b) # SectorOf(a) => chip'.mem[b] = chip.mem[b]
    BY <1>4, <2>1, <2>3 DEF Refuses, Begun
  <2> QED BY <2>5, <2>6
<1>7. CASE ~Erases
  <2>1. chip' = chip /\ ctl.xip = FALSE
    BY <1>7 DEF Erase, Erases, BoardInv, CtlInv
  <2>2. /\ chip' \in ChipSet /\ ~chip'.dp /\ ~chip'.confused /\ chip'.out = <<>>
        /\ chip'.state = "idle" /\ (chip'.refused => hist.busy) /\ (chip'.wip => hist.busy)
    BY <1>3, <1>7, <2>1 DEF BoardInv, ChipRests, CtlInv
  <2>3. BoardInv'
    BY <1>1, <1>5, <1>7, <2>2, BoardAfter
  <2> QED BY <2>1, <2>3
<1> QED BY <1>6, <1>7

\* Over the bus: a program changes its page only, from its address on.
LEMMA ProgramBoard ==
    ASSUME BoardInv, NEW a \in Nat, NEW m \in Nat, NEW w \in [1 .. m -> Word],
           (a % PageW) + m <= PageW, Program(a, w), UNCHANGED hist
    PROVE  /\ BoardInv'
           /\ \A b \in Cells : PageOf(b) # PageOf(a) \/ b < a => chip'.mem[b] = chip.mem[b]
<1>1. HistType' /\ hist'.busy = hist.busy
  BY DEF BoardInv, HistType
<1>2. CASE ctl.wp
  <2>1. chip' = Left /\ ctl' = [ctl EXCEPT !.xip = FALSE]
    BY <1>2 DEF Program
  <2>2. Unmoved(chip, chip') /\ chip'.state = "idle" /\ chip'.out = <<>>
    BY <2>1, LeftIs
  <2>3. /\ ctl' = [ctl EXCEPT !.wip = ctl.wip, !.wp = ctl.wp, !.xip = FALSE]
        /\ ctl.wip \in BOOLEAN /\ ctl.wp \in BOOLEAN
    BY <2>1 DEF BoardInv, CtlInv
  <2>4. /\ chip' \in ChipSet /\ ~chip'.dp /\ ~chip'.confused
        /\ (chip'.wip => ctl.wip \/ hist.busy) /\ (chip'.refused => hist.busy)
    BY <2>2 DEF Unmoved, BoardInv, ChipRests, CtlInv
  <2>5. BoardInv'
    BY <1>1, <2>2, <2>3, <2>4, BoardAfter
  <2> QED BY <2>2, <2>5 DEF Unmoved
<1>3. CASE ~ctl.wp
  <2> DEFINE d == Spi(Left, <<Cmd("WREN")>>)
             v == Outs(m, w)
             r == Spi(d, <<Cmd("QPP"), Addr(a)>> \o v)
  <2>1. chip' = r /\ ctl' = [ctl EXCEPT !.wip = TRUE, !.xip = FALSE]
    <3>1. DOMAIN w = 1 .. m /\ ctl.quad
      BY DEF BoardInv, CtlInv
    <3> QED BY <1>3, <3>1 DEF Program, Outs
  <2>2. /\ d \in ChipSet /\ d.state = "idle" /\ d.wel /\ d.mem = chip.mem
        /\ d.wip = chip.wip /\ ~d.dp /\ d.refused = chip.refused /\ ~d.confused
    BY EnabledIs
  <2>3. (chip.wip => hist.busy) /\ (chip.refused => hist.busy)
    BY <1>3 DEF BoardInv, CtlInv, Program, CanGo
  <2>4. /\ ctl' = [ctl EXCEPT !.wip = TRUE, !.wp = ctl.wp, !.xip = FALSE] /\ ctl.wp \in BOOLEAN
    BY <2>1 DEF BoardInv, CtlInv
  <2> HIDE DEF d
  <2>5. Programmed(d, r, a)
    BY <2>2, SpiProgram
  <2> HIDE DEF r
  <2>6. /\ chip' \in ChipSet /\ ~chip'.dp /\ ~chip'.confused /\ chip'.out = <<>>
        /\ chip'.state = "idle" /\ (chip'.refused => hist.busy)
    BY <2>1, <2>2, <2>3, <2>5 DEF Refuses, Begun, Programmed
  <2>7. BoardInv'
    BY <1>1, <2>4, <2>6, BoardAfter
  <2>8. \A b \in Cells : PageOf(b) # PageOf(a) \/ b < a => chip'.mem[b] = chip.mem[b]
    BY <2>1, <2>2, <2>5 DEF Refuses, Begun, Programmed
  <2> QED BY <2>7, <2>8
<1> QED BY <1>2, <1>3

\* The chip is no longer busy.
LEMMA FinishedBoard ==
    ASSUME BoardInv, ChipDone
    PROVE  BoardInv' /\ chip'.mem = chip.mem
<1> DEFINE r == [chip EXCEPT !.wip = FALSE, !.wel = FALSE]
<1>1. chip' = r /\ ctl' = ctl /\ hist' = hist
  BY DEF ChipDone, Finished
<1>2. r \in ChipSet
  BY DEF BoardInv, ChipRests, ChipSet
<1>3. /\ r.mem = chip.mem /\ r.state = chip.state /\ ~r.wip /\ r.dp = chip.dp /\ r.out = chip.out
      /\ r.confused = chip.confused /\ r.refused = chip.refused
  BY DEF BoardInv, ChipRests, ChipSet
<1> HIDE DEF r
<1> QED BY <1>1, <1>2, <1>3 DEF BoardInv, ChipRests, CtlInv, HistType

-----------------------------------------------------------------------------
(***************************************************************************)
(* zipload's image: the sections of a program, placed one after the other. *)
(***************************************************************************)
Empty(buf) == [start |-> ResetA, len |-> 0, buf |-> buf]

Placing(buf, secs) ==
    CHOOSE f : f = [i \in 0 .. Len(secs) |-> IF i = 0 THEN Empty(buf)
                                              ELSE Placed(f[i - 1], secs[i])]

IsPlacing(f, buf, secs, n) ==
    /\ f = [i \in 0 .. n |-> f[i]]
    /\ f[0] = Empty(buf)
    /\ \A i \in 1 .. n : f[i] = Placed(f[i - 1], secs[i])

\* The image after each of n sections can be written down ...
LEMMA PlacingExists ==
    ASSUME NEW buf, NEW secs, NEW n \in Nat
    PROVE  \E f : IsPlacing(f, buf, secs, n)
<1> DEFINE N == {k \in Nat : \E f : IsPlacing(f, buf, secs, k)}
<1>1. 0 \in N
  <2> DEFINE g == [i \in 0 .. 0 |-> Empty(buf)]
  <2>1. g = [i \in 0 .. 0 |-> g[i]] /\ g[0] = Empty(buf) /\ 1 .. 0 = {}
    OBVIOUS
  <2>2. IsPlacing(g, buf, secs, 0)
    BY <2>1 DEF IsPlacing
  <2> QED BY <2>2
<1>2. ASSUME NEW k \in N PROVE k + 1 \in N
  <2>1. k \in Nat
    OBVIOUS
  <2>2. PICK f : IsPlacing(f, buf, secs, k)
    OBVIOUS
  <2> DEFINE next == Placed(f[k], secs[k + 1])
             g == [i \in 0 .. k + 1 |-> IF i = k + 1 THEN next ELSE f[i]]
  <2>3. g = [i \in 0 .. k + 1 |-> g[i]] /\ g[0] = Empty(buf) /\ g[k + 1] = next /\ g[k] = f[k]
    <3> HIDE DEF next
    <3> QED BY <2>1, <2>2 DEF IsPlacing
  <2>4. ASSUME NEW i \in 1 .. k + 1
        PROVE  g[i] = Placed(g[i - 1], secs[i])
    <3>1. CASE i = k + 1
      BY <2>1, <2>3, <3>1
    <3>2. CASE i # k + 1
      <4>1. i \in 1 .. k /\ g[i] = f[i] /\ g[i - 1] = f[i - 1]
        BY <2>1, <3>2
      <4> QED BY <2>2, <4>1 DEF IsPlacing
    <3> QED BY <3>1, <3>2
  <2>5. IsPlacing(g, buf, secs, k + 1)
    <3> HIDE DEF g
    <3> QED BY <2>3, <2>4 DEF IsPlacing
  <2> QED BY <2>1, <2>5
<1>3. N = Nat
  <2>1. N \in SUBSET Nat
    OBVIOUS
  <2> HIDE DEF N
  <2> QED BY <1>1, <1>2, <2>1, NatInduct
<1> QED BY <1>3

\* ... so it is what AllPlaced computes.
LEMMA PlacingIs ==
    ASSUME NEW buf, NEW secs, Len(secs) \in Nat
    PROVE  /\ IsPlacing(Placing(buf, secs), buf, secs, Len(secs))
           /\ AllPlaced(buf, secs) = Placing(buf, secs)[Len(secs)]
<1> DEFINE E(f) == [i \in 0 .. Len(secs) |-> IF i = 0 THEN Empty(buf) ELSE Placed(f[i - 1], secs[i])]
           K == Placing(buf, secs)
<1>1. K = E(K)
  <2>1. PICK f : IsPlacing(f, buf, secs, Len(secs))
    BY PlacingExists
  <2>2. f = E(f)
    <3>1. f = [i \in 0 .. Len(secs) |-> f[i]]
      BY <2>1 DEF IsPlacing
    <3>2. ASSUME NEW i \in 0 .. Len(secs) PROVE f[i] = E(f)[i]
      <4>1. CASE i = 0
        BY <2>1, <4>1 DEF IsPlacing
      <4>2. CASE i # 0
        <5>1. i \in 1 .. Len(secs)
          BY <4>2
        <5>2. f[i] = Placed(f[i - 1], secs[i])
          BY <2>1, <5>1 DEF IsPlacing
        <5> QED BY <4>2, <5>2
      <4> QED BY <4>1, <4>2
    <3> QED BY <3>1, <3>2
  <2>3. K = CHOOSE g : g = E(g)
    BY DEF Placing
  <2> HIDE DEF E, K
  <2> QED BY <2>2, <2>3
<1>2. AllPlaced(buf, secs) = K[Len(secs)]
  BY DEF AllPlaced, Empty, Placing
<1>3. K = [i \in 0 .. Len(secs) |-> K[i]] /\ K[0] = Empty(buf)
  <2> HIDE DEF K
  <2>1. K[0] = E(K)[0]
    BY <1>1
  <2>2. E(K)[0] = Empty(buf)
    OBVIOUS
  <2>3. ASSUME NEW f, f = E(f) PROVE f = [i \in 0 .. Len(secs) |-> f[i]]
    BY <2>3
  <2> HIDE DEF E
  <2> QED BY <1>1, <2>1, <2>2, <2>3
<1>4. ASSUME NEW i \in 1 .. Len(secs) PROVE K[i] = Placed(K[i - 1], secs[i])
  <2> HIDE DEF K
  <2>1. i \in 0 .. Len(secs) /\ i # 0
    OBVIOUS
  <2>2. K[i] = E(K)[i]
    BY <1>1
  <2> QED BY <2>1, <2>2
<1> QED
  <2> HIDE DEF K, E
  <2>1. IsPlacing(K, buf, secs, Len(secs)) /\ AllPlaced(buf, secs) = K[Len(secs)]
    BY <1>2, <1>3, <1>4 DEF IsPlacing
  <2> QED BY <2>1 DEF K

\* What of e is true, when the first n of the sections are in it.
SecsOk(secs) ==
    /\ secs \in Seq([a : Nat, words : Seq(Word)])
    /\ \A i \in 1 .. Len(secs) :
         /\ secs[i].a > FlashLen \/ secs[i].a + Len(secs[i].words) <= FlashLen
         /\ \A j \in 1 .. i - 1 : \/ secs[j].a + Len(secs[j].words) <= secs[i].a
                                  \/ secs[i].a + Len(secs[i].words) <= secs[j].a

ImageOk(e) == /\ e.start \in Nat /\ e.len \in Nat /\ e.start + e.len <= FlashLen
              /\ e.buf \in [Cells -> Word]
Has(e, sec) == /\ e.start <= sec.a /\ sec.a + Len(sec.words) <= e.start + e.len
               /\ \A x \in 1 .. Len(sec.words) : e.buf[sec.a + x - 1] = sec.words[x]

\* Words loaded into a memory are where they were loaded, the others as before.
LEMMA LoadedIs ==
    ASSUME NEW mem \in [Cells -> Word], NEW a \in Nat, NEW words \in Seq(Word)
    PROVE  /\ Loaded(mem, a, words) \in [Cells -> Word]
           /\ \A b \in Cells : Loaded(mem, a, words)[b] =
                 IF a <= b /\ b < a + Len(words) THEN words[b - a + 1] ELSE mem[b]
<1>1. ASSUME NEW b \in Cells
      PROVE  b - a + 1 \in DOMAIN words <=> a <= b /\ b < a + Len(words)
  <2>1. b \in Int /\ DOMAIN words = 1 .. Len(words) /\ Len(words) \in Nat
    BY FlashLenIs
  <2> QED BY <2>1
<1>2. ASSUME NEW b \in Cells
      PROVE  Loaded(mem, a, words)[b] =
                IF a <= b /\ b < a + Len(words) THEN words[b - a + 1] ELSE mem[b]
  BY <1>1 DEF Loaded
<1>3. ASSUME NEW b \in Cells PROVE Loaded(mem, a, words)[b] \in Word
  <2>1. CASE a <= b /\ b < a + Len(words)
    <3>1. b - a + 1 \in DOMAIN words
      BY <1>1, <2>1
    <3> QED BY <1>2, <2>1, <3>1
  <2>2. CASE ~(a <= b /\ b < a + Len(words))
    BY <1>2, <2>2
  <2> QED BY <2>1, <2>2
<1>4. Loaded(mem, a, words) \in [Cells -> Word]
  <2>1. Loaded(mem, a, words) = [b \in Cells |-> Loaded(mem, a, words)[b]]
    BY DEF Loaded
  <2> HIDE DEF Loaded
  <2> QED BY <1>3, <2>1
<1> QED BY <1>2, <1>4

\* One section placed: it is in the image, which has grown, the rest as before.
LEMMA PlacedIs ==
    ASSUME NEW e, ImageOk(e), NEW sec \in [a : Nat, words : Seq(Word)],
           sec.a + Len(sec.words) <= FlashLen
    PROVE  LET r == Placed(e, sec)
           IN  /\ ImageOk(r) /\ Has(r, sec)
               /\ r.start <= e.start /\ e.start + e.len <= r.start + r.len
               /\ \A b \in Cells :
                    ~(sec.a <= b /\ b < sec.a + Len(sec.words)) => r.buf[b] = e.buf[b]
<1> DEFINE n == Len(sec.words)
           a == sec.a
           low == IF a < e.start THEN a ELSE e.start
           code == e.len + (e.start - low)
           buf == Loaded(e.buf, a, sec.words)
           len == IF a + n > low + code THEN a + n - low ELSE code
           r == [start |-> low, buf |-> buf, len |-> len]
<1>1. n \in Nat /\ a \in Nat /\ FlashLen \in Nat /\ a + n <= FlashLen
  BY FlashLenIs
<1>2. Min({n, FlashLen - a}) = n
  <2>1. FlashLen - a \in Int /\ n <= FlashLen - a
    BY <1>1
  <2> HIDE DEF n, a
  <2> QED BY <1>1, <2>1, MinTwo
<1>3. SubSeq(sec.words, 1, n) = sec.words
  BY SubSeqFull
<1>4. Placed(e, sec) = r
  <2>1. ~(sec.a > FlashLen)
    BY <1>1
  <2>2. len = IF a + n > low + code THEN a + Len(sec.words) - low ELSE code
    OBVIOUS
  <2> QED BY <1>2, <1>3, <2>1 DEF Placed
<1>5. /\ low \in Nat /\ len \in Nat /\ low <= e.start /\ low <= a
      /\ low + len <= FlashLen /\ a + n <= low + len /\ e.start + e.len <= low + len
  <2> DEFINE s == e.start
             l == e.len
  <2>1. s \in Nat /\ l \in Nat /\ s + l <= FlashLen
    BY DEF ImageOk
  <2> HIDE DEF n, a, s, l
  <2>2. CASE a < s
    <3>1. low = a /\ code = l + (s - a)
      BY <2>2 DEF s, l
    <3> HIDE DEF low, code
    <3>2. /\ low \in Nat /\ len \in Nat /\ low <= s /\ low <= a
          /\ low + len <= FlashLen /\ a + n <= low + len /\ s + l <= low + len
      BY <1>1, <2>1, <2>2, <3>1
    <3> QED BY <3>2 DEF s, l
  <2>3. CASE ~(a < s)
    <3>1. low = s /\ code = l + (s - s)
      BY <2>3 DEF s, l
    <3> HIDE DEF low, code
    <3>2. /\ low \in Nat /\ len \in Nat /\ low <= s /\ low <= a
          /\ low + len <= FlashLen /\ a + n <= low + len /\ s + l <= low + len
      BY <1>1, <2>1, <2>3, <3>1
    <3> QED BY <3>2 DEF s, l
  <2> QED BY <2>2, <2>3
<1>6. /\ buf \in [Cells -> Word]
      /\ \A b \in Cells : buf[b] = IF a <= b /\ b < a + n THEN sec.words[b - a + 1] ELSE e.buf[b]
  BY LoadedIs DEF ImageOk
<1> HIDE DEF low, len, buf
<1>7. r.start = low /\ r.len = len /\ r.buf = buf
  OBVIOUS
<1>8. \A x \in 1 .. n : buf[a + x - 1] = sec.words[x]
  <2> TAKE x \in 1 .. n
  <2> HIDE DEF a, n
  <2>1. a + x - 1 \in Cells /\ a <= a + x - 1 /\ a + x - 1 < a + n /\ (a + x - 1) - a + 1 = x
    BY <1>1, FlashLenIs
  <2> QED BY <1>6, <2>1
<1>9. \A b \in Cells : ~(a <= b /\ b < a + n) => buf[b] = e.buf[b]
  BY <1>6
<1> HIDE DEF r
<1>10. ImageOk(r) /\ Has(r, sec)
  BY <1>5, <1>6, <1>7, <1>8 DEF ImageOk, Has
<1> QED BY <1>4, <1>5, <1>7, <1>9, <1>10

\* All of them placed, by induction: none has been overwritten by a later one.
LEMMA AllPlacedIs ==
    ASSUME NEW buf \in [Cells -> Word], NEW secs, SecsOk(secs)
    PROVE  /\ ImageOk(AllPlaced(buf, secs))
           /\ \A j \in 1 .. Len(secs) : secs[j].a <= FlashLen => Has(AllPlaced(buf, secs), secs[j])
<1> DEFINE K == Placing(buf, secs)
           n == Len(secs)
           Is(k) == /\ ImageOk(K[k])
                    /\ \A j \in 1 .. k : secs[j].a <= FlashLen => Has(K[k], secs[j])
           N == {k \in Nat : k <= n => Is(k)}
<1>1. /\ n \in Nat /\ IsPlacing(K, buf, secs, n) /\ AllPlaced(buf, secs) = K[n]
  <2>1. n \in Nat
    BY DEF SecsOk
  <2> QED BY <2>1, PlacingIs
<1> HIDE DEF K
<1>2. 0 \in N
  <2>1. K[0] = Empty(buf)
    BY <1>1 DEF IsPlacing
  <2>2. ImageOk(Empty(buf))
    BY FlashAssumption, FlashLenIs DEF Empty, ImageOk
  <2>3. Is(0)
    BY <2>1, <2>2
  <2> HIDE DEF Is
  <2> QED BY <2>3
<1>3. ASSUME NEW k \in N PROVE k + 1 \in N
  <2> HIDE DEF Is
  <2> SUFFICES ASSUME k + 1 <= n PROVE Is(k + 1)
    OBVIOUS
  <2>1. k \in Nat /\ Is(k) /\ k + 1 \in 1 .. n
    BY <1>1
  <2> USE DEF Is
  <2> DEFINE e == K[k]
             r == K[k + 1]
             sec == secs[k + 1]
  <2>2. r = Placed(e, sec)
    <3>1. (k + 1) - 1 = k
      BY <2>1
    <3> QED BY <1>1, <2>1, <3>1 DEF IsPlacing
  <2>3. /\ sec \in [a : Nat, words : Seq(Word)]
        /\ sec.a > FlashLen \/ sec.a + Len(sec.words) <= FlashLen
        /\ \A j \in 1 .. k : \/ secs[j].a + Len(secs[j].words) <= sec.a
                             \/ sec.a + Len(sec.words) <= secs[j].a
    <3>1. (k + 1) - 1 = k
      BY <2>1
    <3>2. secs \in Seq([a : Nat, words : Seq(Word)]) /\ k + 1 \in 1 .. Len(secs)
      BY <2>1 DEF SecsOk
    <3>3. secs[k + 1] \in [a : Nat, words : Seq(Word)]
      <4> DEFINE R == [a : Nat, words : Seq(Word)]
      <4>1. secs \in Seq(R)
        BY <3>2
      <4> HIDE DEF R
      <4>2. secs[k + 1] \in R
        BY <3>2, <4>1
      <4> QED BY <4>2 DEF R
    <3>4. /\ sec.a > FlashLen \/ sec.a + Len(sec.words) <= FlashLen
          /\ \A j \in 1 .. (k + 1) - 1 : \/ secs[j].a + Len(secs[j].words) <= sec.a
                                         \/ sec.a + Len(sec.words) <= secs[j].a
      BY <3>2 DEF SecsOk
    <3> QED BY <3>1, <3>3, <3>4
  <2>4. ImageOk(e) /\ \A j \in 1 .. k : secs[j].a <= FlashLen => Has(e, secs[j])
    BY <2>1
  <2> HIDE DEF e, r, Is
  <2>5. CASE sec.a > FlashLen
    <3>1. r = e
      BY <2>2, <2>5 DEF Placed
    <3>2. \A j \in 1 .. k + 1 : secs[j].a <= FlashLen => Has(e, secs[j])
      <4> TAKE j \in 1 .. k + 1
      <4>1. CASE j = k + 1
        BY <2>3, <2>5, <4>1, FlashLenIs
      <4>2. CASE j # k + 1
        BY <2>1, <2>4, <4>2
      <4> QED BY <4>1, <4>2
    <3> QED BY <2>4, <3>1, <3>2 DEF Is, r
  <2>6. CASE sec.a <= FlashLen
    <3>1. sec.a + Len(sec.words) <= FlashLen
      BY <2>3, <2>6, FlashLenIs
    <3> HIDE DEF sec
    <3>2. /\ ImageOk(r) /\ Has(r, sec)
          /\ r.start <= e.start /\ e.start + e.len <= r.start + r.len
          /\ \A b \in Cells : ~(sec.a <= b /\ b < sec.a + Len(sec.words)) => r.buf[b] = e.buf[b]
      BY <2>2, <2>3, <2>4, <3>1, PlacedIs
    <3>3. ASSUME NEW j \in 1 .. k, secs[j].a <= FlashLen PROVE Has(r, secs[j])
      <4> DEFINE s == secs[j]
      <4>1. Has(e, s) /\ s \in [a : Nat, words : Seq(Word)]
        <5>1. j \in 1 .. n
          BY <2>1
        <5>2. secs \in Seq([a : Nat, words : Seq(Word)]) /\ j \in 1 .. Len(secs)
          BY <5>1 DEF SecsOk
        <5>3. secs[j] \in [a : Nat, words : Seq(Word)]
          <6> DEFINE R == [a : Nat, words : Seq(Word)]
          <6>1. secs \in Seq(R)
            BY <5>2
          <6> HIDE DEF R
          <6>2. secs[j] \in R
            BY <5>2, <6>1
          <6> QED BY <6>2 DEF R
        <5> QED BY <2>4, <3>3, <5>3
      <4>2. \/ s.a + Len(s.words) <= sec.a
            \/ sec.a + Len(sec.words) <= s.a
        BY <2>3 DEF sec
      <4> HIDE DEF s
      <4>3. s.a \in Nat /\ Len(s.words) \in Nat /\ sec.a \in Nat /\ Len(sec.words) \in Nat
        BY <2>3, <4>1 DEF sec
      <4>4. r.start <= s.a /\ s.a + Len(s.words) <= r.start + r.len
        BY <2>4, <3>2, <4>1, <4>3, SMTT(40) DEF Has, ImageOk
      <4>5. ASSUME NEW x \in 1 .. Len(s.words)
            PROVE  r.buf[s.a + x - 1] = s.words[x]
        <5>1. /\ s.a + x - 1 \in Cells
              /\ ~(sec.a <= s.a + x - 1 /\ s.a + x - 1 < sec.a + Len(sec.words))
          <6> DEFINE y == s.a
                     l == Len(s.words)
                     z == sec.a
                     q == Len(sec.words)
          <6>1. e.start <= y /\ y + l <= e.start + e.len
            BY <4>1 DEF Has
          <6>2. e.start \in Nat /\ e.len \in Nat /\ e.start + e.len <= FlashLen
            BY <2>4 DEF ImageOk
          <6>3. x \in 1 .. l /\ y \in Nat /\ l \in Nat /\ z \in Nat /\ q \in Nat
            BY <4>3
          <6>4. y + l <= z \/ z + q <= y
            BY <4>2
          <6> HIDE DEF y, l, z, q
          <6>5. y + x - 1 \in Cells /\ ~(z <= y + x - 1 /\ y + x - 1 < z + q)
            BY <6>1, <6>2, <6>3, <6>4, FlashLenIs
          <6> QED BY <6>5 DEF y, z, q
        <5>2. r.buf[s.a + x - 1] = e.buf[s.a + x - 1]
          BY <3>2, <5>1
        <5> QED BY <4>1, <5>2 DEF Has
      <4>6. Has(r, s)
        BY <4>4, <4>5 DEF Has
      <4> QED BY <4>6 DEF s
    <3>4. \A j \in 1 .. k + 1 : secs[j].a <= FlashLen => Has(r, secs[j])
      <4> TAKE j \in 1 .. k + 1
      <4>1. CASE j = k + 1
        BY <3>2, <4>1 DEF sec
      <4>2. CASE j # k + 1
        BY <2>1, <3>3, <4>2
      <4> QED BY <4>1, <4>2
    <3> QED BY <3>2, <3>4 DEF Is, r
  <2> QED
    <3>1. sec.a \in Nat
      BY <2>3
    <3> HIDE DEF sec
    <3> QED BY <2>5, <2>6, <3>1, FlashLenIs
<1>4. N = Nat
  <2>1. N \in SUBSET Nat
    OBVIOUS
  <2> HIDE DEF N
  <2> QED BY <1>2, <1>3, <2>1, NatInduct
<1>5. Is(n)
  <2> HIDE DEF Is
  <2> QED BY <1>1, <1>4
<1> QED BY <1>1, <1>5

\* The sections taken are the first ones of the program.
LEMMA SectionsAre ==
    ASSUME NEW R, NEW exec \in Seq(R)
    PROVE  LET m == Len(Sections(exec))
           IN  /\ Sections(exec) \in Seq(R) /\ m \in 0 .. Len(exec)
               /\ \A i \in 1 .. m : Sections(exec)[i] = exec[i]
<1> DEFINE S == {i - 1 : i \in {j \in DOMAIN exec : exec[j].words = <<>>}} \cup {Len(exec)}
           m == Min(S)
<1>1. S \in SUBSET Nat /\ Len(exec) \in S
  <2>1. DOMAIN exec = 1 .. Len(exec) /\ Len(exec) \in Nat
    OBVIOUS
  <2> QED BY <2>1
<1>2. Sections(exec) = SubSeq(exec, 1, m)
  BY DEF Sections
<1> HIDE DEF S
<1>3. m \in S /\ m <= Len(exec) /\ m \in Nat
  BY <1>1, MinIs
<1> HIDE DEF m
<1>4. m \in 0 .. Len(exec) /\ Len(exec) \in Nat
  BY <1>3
<1>5. SubSeq(exec, 1, m) \in Seq(R) /\ Len(SubSeq(exec, 1, m)) = m
      /\ \A i \in 1 .. m : SubSeq(exec, 1, m)[i] = exec[i]
  BY <1>4
<1> QED BY <1>2, <1>4, <1>5

\* What FlashAssumption says of a program and of the sections taken.
LEMMA ProgramIs ==
    ASSUME NEW p \in Programs0
    PROVE  /\ p.bit \in Seq(Word) /\ Len(p.bit) <= FlashLen
           /\ p.alt \in Seq(Word) /\ AltA + Len(p.alt) <= FlashLen /\ AltA \in Nat
           /\ p.exec \in Seq([a : Nat, words : Seq(Word)])
           /\ SecsOk(Sections(p.exec))
           /\ \A i \in 1 .. Len(Sections(p.exec)) : Sections(p.exec)[i] = p.exec[i]
<1>1. /\ p.bit \in Seq(Word) /\ Len(p.bit) <= FlashLen
      /\ p.alt \in Seq(Word) /\ AltA + Len(p.alt) <= FlashLen /\ AltA \in Nat
      /\ p.exec \in Seq([a : Nat, words : Seq(Word)])
  BY FlashAssumption
<1> DEFINE R == [a : Nat, words : Seq(Word)]
           exec == p.exec
           secs == Sections(exec)
<1>2. \A i \in 1 .. Len(exec) :
         /\ exec[i].a > FlashLen \/ exec[i].a + Len(exec[i].words) <= FlashLen
         /\ \A j \in 1 .. i - 1 : \/ exec[j].a + Len(exec[j].words) <= exec[i].a
                                  \/ exec[i].a + Len(exec[i].words) <= exec[j].a
  <2>1. DOMAIN exec = 1 .. Len(exec)
    BY <1>1
  <2> QED BY <2>1, FlashAssumption
<1>3. exec \in Seq(R)
  BY <1>1
<1> HIDE DEF R, exec
<1>4. /\ secs \in Seq(R) /\ Len(secs) \in 0 .. Len(exec) /\ Len(exec) \in Nat
      /\ \A i \in 1 .. Len(secs) : secs[i] = exec[i]
  BY <1>3, SectionsAre
<1> HIDE DEF secs
<1>5. \A i \in 1 .. Len(secs) :
         /\ secs[i].a > FlashLen \/ secs[i].a + Len(secs[i].words) <= FlashLen
         /\ \A j \in 1 .. i - 1 : \/ secs[j].a + Len(secs[j].words) <= secs[i].a
                                  \/ secs[i].a + Len(secs[i].words) <= secs[j].a
  <2> TAKE i \in 1 .. Len(secs)
  <2>1. i \in 1 .. Len(exec) /\ secs[i] = exec[i]
    BY <1>4
  <2>2. \A j \in 1 .. i - 1 : secs[j] = exec[j]
    BY <1>4
  <2> QED BY <1>2, <2>1, <2>2
<1>6. SecsOk(secs)
  BY <1>4, <1>5 DEF SecsOk, R
<1> QED BY <1>1, <1>4, <1>6 DEF secs, exec

\* zipload's buffer is a flash.
LEMMA BlankFlash == [i \in Cells |-> Blank] \in [Cells -> Word]
BY WordIs

\* The image of a program holds all its sections.
LEMMA ImageIs ==
    ASSUME NEW p \in Programs0
    PROVE  /\ ImageOk(Image(p))
           /\ \A i \in 1 .. Len(Sections(p.exec)) :
                p.exec[i].a <= FlashLen => Has(Image(p), p.exec[i])
<1> DEFINE blank == [i \in Cells |-> Blank]
           buf1 == Loaded(blank, 0, p.bit)
           buf2 == Loaded(buf1, AltA, p.alt)
           secs == Sections(p.exec)
<1>1. blank \in [Cells -> Word]
  BY BlankFlash
<1> HIDE DEF blank
<1>2. buf1 \in [Cells -> Word]
  BY <1>1, ProgramIs, LoadedIs
<1> HIDE DEF buf1
<1>3. buf2 \in [Cells -> Word]
  BY <1>2, ProgramIs, LoadedIs
<1>4. Image(p) = AllPlaced(buf2, secs)
  BY DEF Image, buf1, blank
<1>5. SecsOk(secs) /\ \A i \in 1 .. Len(secs) : secs[i] = p.exec[i]
  BY ProgramIs
<1> HIDE DEF buf2, secs
<1>6. /\ ImageOk(AllPlaced(buf2, secs))
      /\ \A j \in 1 .. Len(secs) : secs[j].a <= FlashLen => Has(AllPlaced(buf2, secs), secs[j])
  BY <1>3, <1>5, AllPlacedIs
<1>7. \A i \in 1 .. Len(secs) : p.exec[i].a <= FlashLen => Has(Image(p), p.exec[i])
  BY <1>4, <1>5, <1>6
<1> QED BY <1>4, <1>6, <1>7 DEF secs

\* The buffer from a on.
LEMMA FromIs ==
    ASSUME NEW buf \in [Cells -> Word], NEW a \in 0 .. FlashLen
    PROVE  /\ From(buf, a) \in Seq(Word) /\ Len(From(buf, a)) = FlashLen - a
           /\ \A i \in 1 .. FlashLen - a : From(buf, a)[i] = buf[a + i - 1]
<1> DEFINE n == FlashLen - a
<1>1. n \in Nat /\ \A i \in 1 .. n : a + i - 1 \in Cells
  BY FlashLenIs
<1>2. From(buf, a) = [i \in 1 .. n |-> buf[a + i - 1]]
  BY DEF From
<1> HIDE DEF n
<1>3. [i \in 1 .. n |-> buf[a + i - 1]] \in Seq(Word)
  <2>1. \A i \in 1 .. n : buf[a + i - 1] \in Word
    BY <1>1
  <2> QED BY <1>1, <2>1
<1>4. From(buf, a) \in Seq(Word) /\ Len(From(buf, a)) = n
  BY <1>1, <1>2, <1>3
<1>5. \A i \in 1 .. n : From(buf, a)[i] = buf[a + i - 1]
  BY <1>2
<1> QED BY <1>4, <1>5 DEF n

\* A part of the buffer is a job.
LEMMA JobIs ==
    ASSUME NEW a \in Nat, NEW len \in Nat, a + len <= FlashLen, NEW b \in 0 .. a,
           NEW buf \in [Cells -> Word]
    PROVE  [a |-> a, len |-> len, data |-> From(buf, b)] \in JobSet
<1> DEFINE d == From(buf, b)
           j == [a |-> a, len |-> len, data |-> d]
<1>1. d \in Seq(Word) /\ Len(d) = FlashLen - b
  <2>1. b \in 0 .. FlashLen
    BY FlashLenIs
  <2> QED BY <2>1, FromIs
<1> HIDE DEF d
<1>2. j \in [a : Nat, len : Nat, data : Seq(Word)]
  BY <1>1
<1>3. j.a + j.len <= FlashLen /\ FlashLen - j.a <= Len(j.data)
  BY <1>1, FlashLenIs
<1> HIDE DEF j
<1>4. j \in JobSet
  BY <1>2, <1>3 DEF JobSet
<1> QED BY <1>4 DEF j, d

\* zipload's jobs; the program is the last.
LEMMA JobsAre ==
    ASSUME NEW p \in Programs0
    PROVE  /\ Jobs(p) \in Seq(JobSet)
           /\ p.exec # <<>> => Jobs(p) # <<>> /\ Jobs(p)[Len(Jobs(p))] = ExecJob(p)
<1> DEFINE blank == [i \in Cells |-> Blank]
           buf1 == Loaded(blank, 0, p.bit)
           buf2 == Loaded(buf1, AltA, p.alt)
           e == AllPlaced(buf2, Sections(p.exec))
           x == [a |-> 0, len |-> Len(p.bit), data |-> From(buf1, 0)]
           y == [a |-> AltA, len |-> Len(p.alt), data |-> From(buf2, 0)]
           z == [a |-> e.start, len |-> e.len, data |-> From(e.buf, e.start)]
           X == IF p.bit = <<>> THEN <<>> ELSE <<x>>
           Y == IF p.alt = <<>> THEN <<>> ELSE <<y>>
           Z == IF p.exec = <<>> THEN <<>> ELSE <<z>>
<1>1. blank \in [Cells -> Word]
  BY BlankFlash
<1>2. buf1 \in [Cells -> Word]
  <2> HIDE DEF blank
  <2> QED BY <1>1, ProgramIs, LoadedIs
<1>3. buf2 \in [Cells -> Word]
  <2> HIDE DEF buf1
  <2> QED BY <1>2, ProgramIs, LoadedIs
<1>4. e = Image(p) /\ z = ExecJob(p)
  BY DEF Image, ExecJob
<1>5. Jobs(p) = X \o Y \o Z
  BY DEF Jobs
<1> HIDE DEF blank, buf1, buf2, e
<1>6. x \in JobSet
  <2>1. Len(p.bit) \in Nat /\ 0 + Len(p.bit) <= FlashLen
    BY ProgramIs
  <2> QED BY <1>2, <2>1, JobIs
<1>7. y \in JobSet
  <2>1. Len(p.alt) \in Nat /\ AltA + Len(p.alt) <= FlashLen /\ AltA \in Nat /\ 0 \in 0 .. AltA
    BY ProgramIs
  <2> QED BY <1>3, <2>1, JobIs
<1>8. z \in JobSet
  <2>1. e.len \in Nat /\ e.start + e.len <= FlashLen /\ e.start \in Nat /\ e.start \in 0 .. e.start
        /\ e.buf \in [Cells -> Word]
    BY <1>4, ImageIs DEF ImageOk
  <2> QED BY <2>1, JobIs
<1> HIDE DEF x, y, z
<1>9. X \in Seq(JobSet) /\ Y \in Seq(JobSet) /\ Z \in Seq(JobSet)
  <2>1. \A j \in JobSet : <<j>> \in Seq(JobSet)
    OBVIOUS
  <2>2. <<>> \in Seq(JobSet)
    OBVIOUS
  <2> QED BY <1>6, <1>7, <1>8, <2>1, <2>2
<1>10. p.exec # <<>> => Z = <<z>>
  OBVIOUS
<1> DEFINE W == X \o Y
<1> HIDE DEF X, Y, Z
<1>11. W \in Seq(JobSet)
  BY <1>9
<1> HIDE DEF W
<1>12. Jobs(p) = W \o Z
  BY <1>5 DEF W
<1>13. W \o Z \in Seq(JobSet)
  BY <1>9, <1>11
<1>14. ASSUME Z = <<z>> PROVE W \o Z # <<>> /\ (W \o Z)[Len(W \o Z)] = z
  <2> DEFINE q == W \o <<z>>
  <2>1. q \in Seq(JobSet) /\ Len(q) = Len(W) + 1 /\ q[Len(W) + 1] = z /\ Len(W) \in Nat
    BY <1>8, <1>11
  <2> HIDE DEF q
  <2>2. q # <<>>
    BY <2>1
  <2> QED BY <1>14, <2>1, <2>2 DEF q
<1> QED BY <1>4, <1>10, <1>12, <1>13, <1>14

\* Where the program is in the flash when its job is.
LEMMA ExecIsLoaded ==
    ASSUME NEW p \in Programs0, NEW m, InFlash(m, ExecJob(p)), NEW i \in DOMAIN Sections(p.exec),
           p.exec[i].a + Len(p.exec[i].words) <= FlashLen, NEW x \in DOMAIN p.exec[i].words
    PROVE  m[p.exec[i].a + x - 1] = p.exec[i].words[x]
<1> DEFINE sec == p.exec[i]
           e == Image(p)
           b == sec.a + x - 1
<1>1. i \in 1 .. Len(Sections(p.exec)) /\ p.exec[i] = Sections(p.exec)[i]
  <2> DEFINE R == [a : Nat, words : Seq(Word)]
             secs == Sections(p.exec)
  <2>1. secs \in Seq(R) /\ \A k \in 1 .. Len(secs) : secs[k] = p.exec[k]
    BY ProgramIs DEF SecsOk
  <2> HIDE DEF R, secs
  <2>2. i \in 1 .. Len(secs)
    BY <2>1 DEF secs
  <2> QED BY <2>1, <2>2 DEF secs
<1>2. sec \in [a : Nat, words : Seq(Word)]
  <2> DEFINE R == [a : Nat, words : Seq(Word)]
             secs == Sections(p.exec)
  <2>1. secs \in Seq(R) /\ i \in 1 .. Len(secs) /\ secs[i] = p.exec[i]
    BY <1>1, ProgramIs DEF SecsOk
  <2> HIDE DEF R, secs
  <2>2. secs[i] \in R
    BY <2>1
  <2> QED BY <2>1, <2>2 DEF R
<1>3. sec.a \in Nat /\ Len(sec.words) \in Nat /\ x \in 1 .. Len(sec.words)
  BY <1>2
<1>4. ImageOk(e) /\ Has(e, sec)
  <2>1. sec.a <= FlashLen
    BY <1>3, FlashLenIs
  <2> QED BY <1>1, <2>1, ImageIs
<1> HIDE DEF sec, e
<1>5. /\ e.start \in Nat /\ e.len \in Nat /\ e.start + e.len <= FlashLen
      /\ e.start <= b /\ b <= e.start + e.len - 1 /\ b \in Nat
  <2> DEFINE y == sec.a
             n == Len(sec.words)
             s == e.start
             l == e.len
  <2>1. s <= y /\ y + n <= s + l /\ s \in Nat /\ l \in Nat /\ s + l <= FlashLen
    BY <1>4 DEF ImageOk, Has
  <2>2. y \in Nat /\ n \in Nat /\ x \in 1 .. n
    BY <1>3
  <2> HIDE DEF y, n, s, l
  <2>3. s <= y + x - 1 /\ y + x - 1 <= s + l - 1 /\ y + x - 1 \in Nat
    BY <2>1, <2>2
  <2> QED BY <2>1, <2>3 DEF y, s, l
<1>6. e.buf[b] = sec.words[x]
  BY <1>3, <1>4 DEF Has
<1>7. ExecJob(p) = [a |-> e.start, len |-> e.len, data |-> From(e.buf, e.start)]
  BY DEF ExecJob, e
<1> DEFINE k == b - e.start + 1
<1>8. k \in 1 .. FlashLen - e.start /\ e.start + k - 1 = b
  BY <1>5, FlashLenIs, SMTT(40)
<1>9. From(e.buf, e.start)[k] = e.buf[b]
  <2>1. e.start \in 0 .. FlashLen
    BY <1>5, FlashLenIs
  <2> QED BY <1>4, <1>8, <2>1, FromIs DEF ImageOk
<1>10. m[b] = From(e.buf, e.start)[k]
  <2>1. b \in e.start .. e.start + e.len - 1
    BY <1>5
  <2> QED BY <1>7, <2>1 DEF InFlash
<1> QED BY <1>6, <1>9, <1>10 DEF sec

-----------------------------------------------------------------------------
(***************************************************************************)
(* The host: its job, and how it goes on.                                  *)
(***************************************************************************)
LEMMA JobFacts ==
    ASSUME HostType, host.jobs # <<>>
    PROVE  /\ Job \in JobSet /\ Job.a \in Nat /\ Job.len \in Nat /\ End = Job.a + Job.len
           /\ End \in Nat /\ End <= FlashLen /\ FlashLen \in Nat
           /\ \A a \in Job.a .. FlashLen - 1 : Wanted(a) \in Word
<1>1. Job \in JobSet
  <2>1. host.jobs \in Seq(JobSet)
    BY DEF HostType
  <2> QED BY <2>1, HeadTailProperties DEF Job
<1>2. /\ Job.a \in Nat /\ Job.len \in Nat /\ Job.a + Job.len <= FlashLen
      /\ Job.data \in Seq(Word) /\ FlashLen - Job.a <= Len(Job.data)
  BY <1>1 DEF JobSet
<1>3. ASSUME NEW a \in Job.a .. FlashLen - 1 PROVE Wanted(a) \in Word
  <2>1. a - Job.a + 1 \in 1 .. Len(Job.data)
    BY <1>2, FlashLenIs
  <2> QED BY <1>2, <2>1 DEF Wanted
<1> QED BY <1>1, <1>2, <1>3, FlashLenIs DEF End

\* Another step of the same job.
LEMMA SameJob ==
    ASSUME host'.jobs = host.jobs
    PROVE  /\ Job' = Job /\ End' = End
           /\ \A a : Wanted(a)' = Wanted(a)
BY DEF Job, End, Wanted


\* A step that changes sectors it has noted keeps the others.
LEMMA OthersAfter ==
    ASSUME OthersKept, hist.sectors \subseteq hist'.sectors, hist'.orig = hist.orig,
           \A b \in Cells : SectorOf(b) \notin hist'.sectors => chip'.mem[b] = chip.mem[b]
    PROVE  OthersKept'
<1> SUFFICES ASSUME NEW b \in Cells, SectorOf(b) \notin hist'.sectors
             PROVE  chip'.mem[b] = hist'.orig[b]
  BY DEF OthersKept, Cells, SectorOf, SectorW
<1> QED BY DEF OthersKept

\* A step of write(), to another place in it.
LEMMA Goes ==
    ASSUME FlashInv, host.pc \in Working, NEW pc \in Places, pc \notin {"idle", "job"},
           NEW s \in Nat, NEW p \in Nat, NEW len \in Nat, NEW n \in Nat,
           host' = [host EXCEPT !.pc = pc, !.s = s, !.p = p, !.len = len, !.n = n],
           BoardInv', hist'.sectors = hist.sectors, hist'.orig = hist.orig,
           \A b \in Cells : SectorOf(b) \notin hist.sectors => chip'.mem[b] = chip.mem[b],
           pc \in Working => InSector(s),
           pc \in Erasing \cup Paging => Inside(s, p),
           pc \in Erasing => p = Max({Job.a, s}),
           pc \in Burst => InPage(s, p, len, n, hist'.short),
           pc = "true" => s >= End,
           pc \in Working /\ Sound' => Written(chip'.mem, IF pc \in Paging THEN p ELSE s)
    PROVE  FlashInv'
<1>1. /\ host'.pc = pc /\ host'.s = s /\ host'.p = p /\ host'.len = len /\ host'.n = n
      /\ host'.jobs = host.jobs /\ host'.given = host.given
  BY DEF FlashInv, HostType
<1>2. HostType'
  <2>1. host' \in [pc : Places, given : Seq(Programs0), jobs : Seq(JobSet),
                   s : Nat, p : Nat, len : Nat, n : Nat]
    BY DEF FlashInv, HostType
  <2>2. Len(host.given) = 1
    BY DEF FlashInv, HostType, Working, Erasing, Paging, Burst
  <2> QED BY <1>1, <2>1, <2>2 DEF HostType, Places, JobSet
<1>3. /\ Job' = Job /\ End' = End /\ (\A a : Wanted(a)' = Wanted(a)) /\ Given' = Given
  BY <1>1, SameJob DEF Given
<1>4. OthersKept'
  BY OthersAfter DEF FlashInv
<1>5. host.jobs # <<>>
  BY DEF FlashInv, WorkInv
<1>6. JobsInv'
  <2>1. ExecJob(Given)' = ExecJob(Given)
    BY <1>3 DEF ExecJob, Image, From, FlashLen
  <2> QED BY <1>1, <1>3, <1>5, <2>1 DEF FlashInv, JobsInv, Working, Erasing, Paging, Burst
<1>7. WorkInv'
  <2>1. host'.jobs # <<>>
    BY <1>1, <1>5
  <2>2. ASSUME pc \in Working
        PROVE  InSector(s)' /\ (\A a \in Job.a .. End - 1 : SectorOf(a) \in hist.sectors)'
    <3>1. \A a \in Job.a .. End - 1 : SectorOf(a) \in hist.sectors
      BY DEF FlashInv, WorkInv
    <3>2. InSector(s)'
      BY <1>3, <2>2 DEF InSector
    <3> QED BY <1>3, <3>1, <3>2
  <2>3. pc \in Erasing \cup Paging => Inside(s, p)'
    BY <1>3 DEF Inside
  <2>4. pc \in Erasing => (p = Max({Job.a, s}))'
    BY <1>3
  <2>5. pc \in Burst => /\ p < s + SectorW /\ p < End' /\ p + len <= EndOfPage(p) /\ n <= len
                        /\ hist'.short \/ End' <= p + len \/ EndOfPage(p) <= p + len
    BY <1>3 DEF InPage
  <2>6. pc = "true" => (s >= End)'
    BY <1>3
  <2> QED BY <1>1, <1>3, <2>1, <2>2, <2>3, <2>4, <2>5, <2>6
          DEF WorkInv, Base, InSector, Inside, InPage, EndOfPage
<1>8. FrontInv'
  <2> SUFFICES ASSUME pc \in Working, Sound', NEW a \in Job.a .. End - 1, a < Front'
               PROVE  chip'.mem[a] = Wanted(a)
    BY <1>1, <1>3 DEF FrontInv, Written
  <2>1. Front' = IF pc \in Paging THEN p ELSE s
    BY <1>1 DEF Front
  <2>2. Written(chip'.mem, IF pc \in Paging THEN p ELSE s)
    OBVIOUS
  <2> QED BY <2>1, <2>2 DEF Written
<1> QED BY <1>2, <1>4, <1>6, <1>7, <1>8 DEF FlashInv

-----------------------------------------------------------------------------
(***************************************************************************)
(* One step of each kind.                                                  *)
(***************************************************************************)
LEMMA InWork ==
    ASSUME FlashInv, host.pc \in Working
    PROVE  /\ host.jobs # <<>> /\ host.pc \in Places /\ host.s \in Nat /\ host.p \in Nat
           /\ host.len \in Nat /\ host.n \in Nat
           /\ Job.a \in Nat /\ Job.len \in Nat /\ End = Job.a + Job.len /\ End \in Nat
           /\ End <= FlashLen /\ FlashLen \in Nat /\ SectorW \in Nat \ {0}
           /\ \A a \in Job.a .. FlashLen - 1 : Wanted(a) \in Word
           /\ InSector(host.s) /\ \A a \in Job.a .. End - 1 : SectorOf(a) \in hist.sectors
           /\ Sound => Written(chip.mem, Front)
           /\ chip.mem \in [Cells -> Word] /\ chip.wip \in BOOLEAN
<1>1. host.jobs # <<>> /\ HostType
  BY DEF FlashInv, WorkInv
<1>2. /\ Job.a \in Nat /\ Job.len \in Nat /\ End = Job.a + Job.len /\ End \in Nat
      /\ End <= FlashLen /\ FlashLen \in Nat
      /\ \A a \in Job.a .. FlashLen - 1 : Wanted(a) \in Word
  BY <1>1, JobFacts
<1>3. /\ InSector(host.s) /\ \A a \in Job.a .. End - 1 : SectorOf(a) \in hist.sectors
      /\ Sound => Written(chip.mem, Front)
  BY DEF FlashInv, WorkInv, FrontInv
<1>4. chip.mem \in [Cells -> Word] /\ chip.wip \in BOOLEAN
  BY DEF FlashInv, BoardInv, ChipRests, ChipSet
<1>5. /\ host.pc \in Places /\ host.s \in Nat /\ host.p \in Nat
      /\ host.len \in Nat /\ host.n \in Nat
  BY <1>1 DEF HostType
<1> QED BY <1>1, <1>2, <1>3, <1>4, <1>5, SectorWIs

\* Steps that only go on: nothing about the job's place changes, and the flash does not.
LEMMA GoesOn ==
    ASSUME FlashInv, host.pc \in Working, NEW pc \in Places, host' = [host EXCEPT !.pc = pc],
           BoardInv', hist'.sectors = hist.sectors, hist'.orig = hist.orig,
           hist'.short = hist.short, Sound' => Sound, chip'.mem = chip.mem,
           \/ host.pc \in Erasing /\ pc \in Erasing
           \/ host.pc \in Burst /\ pc \in Burst
           \/ pc = "failed"
           \/ host.pc = "sector" /\ pc = "true" /\ host.s >= End
    PROVE  FlashInv'
<1>1. /\ host.s \in Nat /\ host.p \in Nat /\ host.len \in Nat /\ host.n \in Nat
      /\ InSector(host.s) /\ (Sound => Written(chip.mem, Front))
  BY InWork
<1>2. host' = [host EXCEPT !.pc = pc, !.s = host.s, !.p = host.p, !.len = host.len, !.n = host.n]
  BY DEF FlashInv, HostType
<1>3. pc \in Working => (pc \in Paging <=> host.pc \in Paging)
  BY DEF Working, Paging, Erasing, Burst
<1>4. pc \in Working /\ Sound' => Written(chip'.mem, IF pc \in Paging THEN host.p ELSE host.s)
  BY <1>1, <1>3 DEF Front
<1>5. pc \notin {"idle", "job"}
  BY DEF Erasing, Burst
<1>6. pc \in Erasing \cup Paging => Inside(host.s, host.p)
  BY DEF FlashInv, WorkInv, Erasing, Burst, Paging
<1>7. pc \in Erasing => host.p = Max({Job.a, host.s})
  BY DEF FlashInv, WorkInv, Erasing, Burst, Base
<1>8. pc \in Burst => InPage(host.s, host.p, host.len, host.n, hist'.short)
  BY DEF FlashInv, WorkInv, Erasing, Burst
<1>9. pc = "true" => host.s >= End
  BY DEF Erasing, Burst
<1> QED BY <1>1, <1>2, <1>4, <1>5, <1>6, <1>7, <1>8, <1>9, Goes

\* erase_sector() switches the protection off.
LEMMA UnprotectStep ==
    ASSUME FlashInv, Unprotect
    PROVE  FlashInv'
<1>1. BoardInv /\ hist' = hist
  BY DEF FlashInv, Unprotect, SameHist
<1>2. BoardInv' /\ chip'.mem = chip.mem
  BY <1>1, ProtectBoard DEF Unprotect
<1> DEFINE pc == IF host.pc = "unprotect" THEN "erase" ELSE "program"
<1>3. /\ host' = [host EXCEPT !.pc = pc] /\ host.pc \in {"unprotect", "ready"}
      /\ (Sound' => Sound)
  BY <1>1 DEF Unprotect, Goto, Sound
<1>4. /\ pc \in Places /\ host.pc \in Working
      /\ \/ host.pc \in Erasing /\ pc \in Erasing
         \/ host.pc \in Burst /\ pc \in Burst
  BY <1>3 DEF Places, Working, Erasing, Burst, Paging
<1> HIDE DEF pc
<1> QED BY <1>1, <1>2, <1>3, <1>4, GoesOn

\* flwait().
LEMMA WaitStep ==
    ASSUME FlashInv, Wait
    PROVE  FlashInv'
<1>1. BoardInv /\ hist' = hist
  BY DEF FlashInv, Wait, SameHist
<1>2. BoardInv' /\ chip'.mem = chip.mem
  BY <1>1, EregBoard DEF Wait
<1> DEFINE pc == IF ctl.wip /\ chip.wip THEN host.pc
                 ELSE IF host.pc = "erasing" THEN "erased" ELSE "programmed"
<1>3. /\ host' = [host EXCEPT !.pc = pc] /\ host.pc \in {"erasing", "programming"}
      /\ (Sound' => Sound)
  BY <1>1 DEF Wait, Goto, Sound
<1>4. /\ pc \in Places /\ host.pc \in Working
      /\ \/ host.pc \in Erasing /\ pc \in Erasing
         \/ host.pc \in Burst /\ pc \in Burst
  BY <1>3 DEF Places, Working, Erasing, Burst, Paging
<1> HIDE DEF pc
<1> QED BY <1>1, <1>2, <1>3, <1>4, GoesOn

\* write() has no sector left: it protects the flash and returns.
LEMMA ReturnStep ==
    ASSUME FlashInv, Return
    PROVE  FlashInv'
<1>1. BoardInv /\ hist' = hist
  BY DEF FlashInv, Return, SameHist
<1>2. BoardInv' /\ chip'.mem = chip.mem
  BY <1>1, ProtectBoard DEF Return
<1>3. /\ host' = [host EXCEPT !.pc = "true"] /\ host.pc = "sector" /\ host.s >= End
      /\ (Sound' => Sound)
  BY <1>1 DEF Return, Goto, Sound
<1>4. "true" \in Places /\ host.pc \in Working
  BY <1>3 DEF Places, Working
<1> QED BY <1>1, <1>2, <1>3, <1>4, GoesOn

\* erase_sector() starts the erase of the sector that write() is in.
LEMMA EraseStep ==
    ASSUME FlashInv, EraseSector
    PROVE  FlashInv'
<1>1. BoardInv /\ hist' = hist /\ host.pc = "erase" /\ host' = [host EXCEPT !.pc = "erasing"]
      /\ Erase(host.s)
  BY DEF FlashInv, EraseSector, SameHist, Goto
<1>2. host.pc \in Working /\ host.pc \in Erasing /\ host.pc \notin Paging
  BY <1>1 DEF Working, Erasing, Paging, Burst
<1>3. /\ host.s \in Nat /\ host.p \in Nat /\ host.len \in Nat /\ host.n \in Nat
      /\ InSector(host.s) /\ (Sound => Written(chip.mem, host.s)) /\ Job.a \in Nat /\ End <= FlashLen
      /\ End \in Nat /\ SectorW \in Nat \ {0}
  BY <1>2, InWork DEF Front
<1>4. Inside(host.s, host.p) /\ host.p = Max({Job.a, host.s})
  BY <1>2 DEF FlashInv, WorkInv, Base
<1>5. BoardInv' /\ \A b \in Cells : SectorOf(b) # SectorOf(host.s) => chip'.mem[b] = chip.mem[b]
  BY <1>1, <1>3, EraseBoard
<1>6. host' = [host EXCEPT !.pc = "erasing", !.s = host.s, !.p = host.p, !.len = host.len,
                           !.n = host.n]
  BY <1>1 DEF FlashInv, HostType
<1>7. \A b \in Cells : SectorOf(b) \notin hist.sectors => chip'.mem[b] = chip.mem[b]
  BY <1>4, <1>5 DEF Inside
<1>8. Sound' => Written(chip'.mem, host.s)
  <2> SUFFICES ASSUME Sound', NEW a \in Job.a .. End - 1, a < host.s
               PROVE  chip'.mem[a] = Wanted(a)
    BY DEF Written
  <2>1. chip.mem[a] = Wanted(a)
    BY <1>1, <1>3 DEF Written, Sound
  <2>2. a \in Cells /\ SectorOf(a) # SectorOf(host.s)
    BY <1>3, SectorAt, FlashLenIs DEF InSector
  <2> QED BY <1>5, <2>1, <2>2
<1>9. "erasing" \in Places /\ "erasing" \notin {"idle", "job"} /\ "erasing" \notin Paging
      /\ "erasing" \notin Burst
  BY DEF Places, Paging, Burst
<1>10. hist'.sectors = hist.sectors /\ hist'.orig = hist.orig
  BY <1>1
<1> QED BY <1>2, <1>3, <1>4, <1>5, <1>6, <1>7, <1>8, <1>9, <1>10, Goes

\* erase_sector() looks whether the sector is blank.
LEMMA VerifyEraseStep ==
    ASSUME FlashInv, VerifyErase
    PROVE  FlashInv'
<1> DEFINE pc == IF Range(Read(host.s, Cardinality(Checked))) = {Blank} THEN "page" ELSE "failed"
           n == Cardinality(Checked)
<1>1. BoardInv /\ host.pc = "erased" /\ host' = [host EXCEPT !.pc = pc] /\ ReadStep(host.s, n)
  BY DEF FlashInv, VerifyErase, Goto
<1>2. host.pc \in Working /\ host.pc \in Erasing /\ host.pc \notin Paging
  BY <1>1 DEF Working, Erasing, Paging, Burst
<1>3. /\ host.s \in Nat /\ host.p \in Nat /\ host.len \in Nat /\ host.n \in Nat
      /\ InSector(host.s) /\ (Sound => Written(chip.mem, host.s)) /\ Job.a \in Nat /\ End <= FlashLen
      /\ End \in Nat /\ SectorW \in Nat \ {0} /\ FlashLen \in Nat
  BY <1>2, InWork DEF Front
<1>4. Inside(host.s, host.p) /\ host.p = Max({Job.a, host.s})
  BY <1>2 DEF FlashInv, WorkInv, Base
<1>5. n \in Nat /\ host.s + n <= FlashLen
  <2> DEFINE x == (NPages - 1) * PageW
             k == x \div 4 + PageW
  <2>1. x \in Nat /\ x + PageW = SectorW
    <3>1. NPages - 1 \in Nat /\ ((NPages - 1) + 1) * PageW = (NPages - 1) * PageW + 1 * PageW
      OBVIOUS
    <3>2. (NPages - 1) + 1 = NPages
      OBVIOUS
    <3> QED BY <3>1, <3>2, SectorWIs
  <2> HIDE DEF x
  <2>2. x \div 4 \in Nat /\ x \div 4 <= x
    BY <2>1
  <2>3. k \in Nat /\ k <= SectorW
    BY <2>1, <2>2, <1>3
  <2> HIDE DEF k
  <2>4. Checked = host.s .. host.s + k - 1
    <3>1. host.s + x \div 4 + PageW - 1 = host.s + k - 1
      BY <1>3, <2>2 DEF k
    <3> QED BY <3>1 DEF Checked, x
  <2>5. n = k
    <3> DEFINE y == host.s + k - 1
    <3>1. y \in Int /\ host.s \in Int /\ (host.s > y => k = 0) /\ y - host.s + 1 = k
      BY <1>3, <2>3
    <3> HIDE DEF y
    <3>2. Cardinality(host.s .. y) = IF host.s > y THEN 0 ELSE y - host.s + 1
      BY <3>1, FS_Interval
    <3>3. n = Cardinality(host.s .. y)
      BY <2>4 DEF y
    <3> HIDE DEF n
    <3> QED BY <3>1, <3>2, <3>3
  <2>6. host.s + SectorW <= FlashLen
    BY <1>3, <1>4, SectorFits DEF InSector, Inside
  <2> QED BY <1>3, <2>3, <2>5, <2>6
<1> HIDE DEF n, pc
<1>6. /\ BoardInv' /\ chip'.mem = chip.mem
      /\ hist' \in [orig : {hist.orig}, sectors : {hist.sectors}, busy : {hist.busy},
                    blind : BOOLEAN, short : {hist.short}, runs : {hist.runs},
                    resets : {hist.resets}]
      /\ hist'.blind <=> hist.blind \/ chip.wip
  BY <1>1, <1>3, <1>5, ReadBoard
<1>7. /\ hist'.sectors = hist.sectors /\ hist'.orig = hist.orig /\ hist'.short = hist.short
      /\ Sound' => Sound
  BY <1>6 DEF Sound
<1>8. CASE pc = "page"
  <2>1. host' = [host EXCEPT !.pc = "page", !.s = host.s, !.p = host.p, !.len = host.len,
                             !.n = host.n]
    BY <1>1, <1>8 DEF FlashInv, HostType
  <2>2. Sound' => Written(chip'.mem, host.p)
    <3> SUFFICES ASSUME Sound', NEW a \in Job.a .. End - 1, a < host.p
                 PROVE  chip'.mem[a] = Wanted(a)
      BY DEF Written
    <3>1. host.p = IF Job.a >= host.s THEN Job.a ELSE host.s
      BY <1>3, <1>4, MaxTwo
    <3>2. a < host.s
      BY <1>3, <3>1
    <3> QED BY <1>3, <1>6, <1>7, <3>2 DEF Written
  <2>3. "page" \in Places /\ "page" \notin {"idle", "job"} /\ "page" \in Paging
        /\ "page" \notin Burst /\ "page" \notin Erasing
    BY DEF Places, Paging, Burst, Erasing
  <2> QED BY <1>2, <1>3, <1>4, <1>6, <1>7, <2>1, <2>2, <2>3, Goes
<1>9. CASE pc = "failed"
  <2>1. "failed" \in Places
    BY DEF Places
  <2> QED BY <1>1, <1>2, <1>6, <1>7, <1>9, <2>1, GoesOn
<1> QED BY <1>8, <1>9 DEF pc

\* Out of a sector, the next one begins.
LEMMA NextSector ==
    ASSUME NEW s \in Nat, InSector(s), Job.a \in Nat
    PROVE  s + SectorW \in Nat /\ InSector(s + SectorW)
<1>1. SectorOf(s) \in Int /\ s = SectorOf(s) * SectorW /\ SectorW \in Nat \ {0}
  <2>1. s \in Int /\ s % SectorW = 0
    BY DEF InSector
  <2>2. s = SectorOf(s) * SectorW
    BY <2>1, SectorAt
  <2>3. SectorOf(s) \in Int
    BY <2>1, SectorRange
  <2> QED BY <2>2, <2>3, SectorWIs
<1>2. ASSUME NEW d \in Nat \ {0}, NEW k \in Int PROVE (k * d) % d = 0 /\ k * d + d = (k + 1) * d
  OBVIOUS
<1>3. s + SectorW = (SectorOf(s) + 1) * SectorW
  <2> DEFINE k == SectorOf(s)
  <2>1. k \in Int /\ s = k * SectorW /\ SectorW \in Nat \ {0}
    BY <1>1
  <2> HIDE DEF k
  <2>2. k * SectorW + SectorW = (k + 1) * SectorW
    BY <1>2, <2>1
  <2> QED BY <2>1, <2>2 DEF k
<1>4. (s + SectorW) % SectorW = 0
  <2> DEFINE k == SectorOf(s) + 1
  <2>1. k \in Int /\ s + SectorW = k * SectorW /\ SectorW \in Nat \ {0}
    BY <1>1, <1>3
  <2> HIDE DEF k
  <2> QED BY <1>2, <2>1
<1> QED BY <1>1, <1>4 DEF InSector

\* write() looks at a sector: nothing to do, pages to write, or to be erased first.
LEMMA CompareStep ==
    ASSUME FlashInv, Compare
    PROVE  FlashInv'
<1> DEFINE s == host.s
           e == SectorEnd
           n == e - Base
           words == Read(Base, n)
           sbuf(a) == ByteSwap(InMemory(words[a - Base + 1]))
           differ == {a \in Base .. e - 1 : sbuf(a) # Wanted(a)}
           erase == \E a \in differ : And(sbuf(a), Wanted(a)) # Wanted(a)
<1>1. /\ BoardInv /\ host.pc = "sector" /\ s < End /\ ReadStep(Base, n)
      /\ host' = IF differ = {} THEN [host EXCEPT !.s = @ + SectorW]
                 ELSE IF erase THEN [host EXCEPT !.pc = "unprotect", !.p = Base]
                 ELSE [host EXCEPT !.pc = "page", !.p = Min(differ)]
  BY DEF FlashInv, Compare
<1>2. host.pc \in Working /\ host.pc \notin Paging
  BY <1>1 DEF Working, Erasing, Paging, Burst
<1>3. /\ s \in Nat /\ host.p \in Nat /\ host.len \in Nat /\ host.n \in Nat
      /\ InSector(s) /\ (Sound => Written(chip.mem, s)) /\ Job.a \in Nat /\ Job.len \in Nat
      /\ End = Job.a + Job.len /\ End <= FlashLen /\ End \in Nat
      /\ SectorW \in Nat \ {0} /\ FlashLen \in Nat
      /\ \A a \in Job.a .. End - 1 : SectorOf(a) \in hist.sectors
      /\ chip.mem \in [Cells -> Word]
  BY <1>2, InWork DEF Front
<1>4. /\ Base \in Nat /\ Base = IF Job.a >= s THEN Job.a ELSE s
      /\ e \in Nat /\ e = IF End <= s + SectorW THEN End ELSE s + SectorW
  <2>1. Base = IF Job.a >= s THEN Job.a ELSE s
    BY <1>3, MaxTwo DEF Base
  <2>2. e = IF End <= s + SectorW THEN End ELSE s + SectorW
    BY <1>3, MinTwo DEF SectorEnd
  <2> QED BY <1>3, <2>1, <2>2
<1>5. /\ n \in Nat /\ Base + n <= FlashLen /\ Base <= e /\ e <= End /\ e <= s + SectorW
      /\ s <= Base /\ Job.a <= Base /\ Base <= s + SectorW
  <2> HIDE DEF e
  <2> QED BY <1>1, <1>3, <1>4 DEF InSector
<1> HIDE DEF e, s
<1>6. /\ BoardInv' /\ chip'.mem = chip.mem
      /\ hist' \in [orig : {hist.orig}, sectors : {hist.sectors}, busy : {hist.busy},
                    blind : BOOLEAN, short : {hist.short}, runs : {hist.runs},
                    resets : {hist.resets}]
      /\ hist'.blind <=> hist.blind \/ chip.wip
      /\ \A i \in 1 .. n : words[i] = IF chip.wip THEN Nil ELSE chip.mem[Base + i - 1]
  BY <1>1, <1>4, <1>5, ReadBoard
<1>7. /\ hist'.sectors = hist.sectors /\ hist'.orig = hist.orig /\ hist'.short = hist.short
      /\ Sound' => Sound /\ ~chip.wip
  BY <1>6 DEF Sound
<1>8. ASSUME NEW a \in Base .. e - 1, Sound' PROVE sbuf(a) = chip.mem[a]
  <2>1. a - Base + 1 \in 1 .. n /\ Base + (a - Base + 1) - 1 = a /\ a \in Cells
    <3>1. e \in Nat /\ Base \in Nat /\ e <= End
      BY <1>4, <1>5
    <3>2. a \in Base .. e - 1 /\ n = e - Base
      OBVIOUS
    <3> HIDE DEF n
    <3> QED BY <1>3, <3>1, <3>2, FlashLenIs
  <2> HIDE DEF words
  <2>2. words[a - Base + 1] = chip.mem[a]
    BY <1>6, <1>7, <1>8, <2>1
  <2>3. chip.mem[a] \in Word
    BY <1>3, <2>1
  <2> QED BY <2>2, <2>3, SwappedTwice
<1>9. \A b \in Cells : SectorOf(b) \notin hist.sectors => chip'.mem[b] = chip.mem[b]
  BY <1>6
<1>10. ASSUME NEW f \in Nat, f <= e, \A a \in Base .. f - 1 : a \notin differ, Sound'
       PROVE  Written(chip'.mem, f)
  <2> SUFFICES ASSUME NEW a \in Job.a .. End - 1, a < f
               PROVE  chip'.mem[a] = Wanted(a)
    BY DEF Written
  <2>1. CASE a < s
    BY <1>3, <1>6, <1>7, <1>10, <2>1 DEF Written
  <2>2. CASE a >= s
    <3>1. a \in Base .. f - 1 /\ a \in Base .. e - 1
      BY <1>3, <1>4, <1>10, <2>2
    <3>2. sbuf(a) = Wanted(a)
      BY <1>10, <3>1
    <3> HIDE DEF sbuf
    <3> QED BY <1>6, <1>8, <1>10, <3>1, <3>2
  <2> QED BY <1>3, <2>1, <2>2
<1>11. ASSUME differ # {} PROVE SectorOf(s) \in hist.sectors
  <2>1. PICK a : a \in Base .. e - 1
    BY <1>11
  <2>2. a \in Job.a .. End - 1 /\ s <= a /\ a < s + SectorW
    BY <1>3, <1>4, <1>5, <2>1
  <2>3. SectorOf(a) = SectorOf(s)
    BY <1>3, <2>2, SectorAt DEF InSector
  <2> QED BY <1>3, <2>2, <2>3
<1>12. differ \subseteq Base .. e - 1
  OBVIOUS
<1> HIDE DEF erase
<1>13. CASE differ = {}
  <2>1. host' = [host EXCEPT !.pc = "sector", !.s = s + SectorW, !.p = host.p,
                             !.len = host.len, !.n = host.n]
    <3>1. host' = [host EXCEPT !.s = s + SectorW]
      BY <1>1, <1>13 DEF s
    <3> QED BY <1>1, <3>1 DEF FlashInv, HostType
  <2>2. s + SectorW \in Nat /\ InSector(s + SectorW)
    BY <1>3, NextSector
  <2>3. Sound' => Written(chip'.mem, s + SectorW)
    <3>1. Sound' => Written(chip'.mem, e)
      <4> HIDE DEF differ
      <4> QED BY <1>4, <1>10, <1>13
    <3> QED BY <1>3, <1>4, <3>1 DEF Written
  <2>4. "sector" \in Places /\ "sector" \notin {"idle", "job"} /\ "sector" \notin Paging
        /\ "sector" \notin Erasing /\ "sector" \notin Burst
    BY DEF Places, Paging, Burst, Erasing
  <2> QED BY <1>2, <1>3, <1>6, <1>7, <1>9, <2>1, <2>2, <2>3, <2>4, Goes
<1>14. CASE differ # {} /\ erase
  <2>1. host' = [host EXCEPT !.pc = "unprotect", !.s = s, !.p = Base,
                             !.len = host.len, !.n = host.n]
    <3>1. host' = [host EXCEPT !.pc = "unprotect", !.p = Base]
      BY <1>1, <1>14
    <3> QED BY <3>1 DEF FlashInv, HostType, s
  <2>2. Sound' => Written(chip'.mem, s)
    BY <1>3, <1>6, <1>7
  <2>3. Inside(s, Base) /\ Base = Max({Job.a, s})
    BY <1>1, <1>5, <1>11, <1>14 DEF Inside, Base, s
  <2>4. "unprotect" \in Places /\ "unprotect" \notin {"idle", "job"} /\ "unprotect" \notin Paging
        /\ "unprotect" \notin Burst
    BY DEF Places, Paging, Burst
  <2> QED BY <1>2, <1>3, <1>4, <1>6, <1>7, <1>9, <2>1, <2>2, <2>3, <2>4, Goes
<1>15. CASE differ # {} /\ ~erase
  <2> DEFINE f == Min(differ)
  <2>1. f \in differ /\ \A y \in differ : f <= y
    <3>1. differ \in SUBSET Nat
      BY <1>4, <1>12
    <3> HIDE DEF differ
    <3> QED BY <1>15, <3>1, MinIs
  <2>2. host' = [host EXCEPT !.pc = "page", !.s = s, !.p = f,
                             !.len = host.len, !.n = host.n]
    <3>1. host' = [host EXCEPT !.pc = "page", !.p = f]
      BY <1>1, <1>15
    <3> HIDE DEF f
    <3> QED BY <3>1 DEF FlashInv, HostType, s
  <2> HIDE DEF f
  <2>3. f \in Nat /\ f \in Base .. e - 1 /\ \A a \in Base .. f - 1 : a \notin differ
    <3>1. f \in Base .. e - 1
      BY <1>12, <2>1
    <3> HIDE DEF differ
    <3> QED BY <1>4, <2>1, <3>1
  <2>4. Sound' => Written(chip'.mem, f)
    <3> HIDE DEF differ
    <3>1. f <= e
      BY <1>4, <2>3
    <3> QED BY <1>10, <2>3, <3>1
  <2>5. Inside(s, f)
    BY <1>1, <1>3, <1>4, <1>5, <1>11, <1>15, <2>3 DEF Inside, s
  <2>6. "page" \in Places /\ "page" \notin {"idle", "job"} /\ "page" \in Paging
        /\ "page" \notin Burst /\ "page" \notin Erasing
    BY DEF Places, Paging, Burst, Erasing
  <2> QED BY <1>2, <1>3, <1>6, <1>7, <1>9, <2>2, <2>3, <2>4, <2>5, <2>6, Goes
<1> QED BY <1>13, <1>14, <1>15

\* A page of a sector, and where it ends.
LEMMA PageFacts ==
    ASSUME NEW s \in Nat, InSector(s), NEW p \in Nat, s <= p, p < s + SectorW, s < FlashLen
    PROVE  /\ EndOfPage(p) \in Nat /\ p < EndOfPage(p) /\ EndOfPage(p) <= s + SectorW
           /\ EndOfPage(p) <= FlashLen
           /\ \A a \in Int : PageOf(a) = PageOf(p) => SectorOf(a) = SectorOf(s)
<1>1. s \in Int /\ s % SectorW = 0 /\ p \in Int
  BY DEF InSector
<1>2. p < EndOfPage(p) /\ EndOfPage(p) <= s + SectorW /\ EndOfPage(p) \in Int
  BY <1>1, PageEndInSector DEF EndOfPage
<1>3. s + SectorW <= FlashLen
  BY <1>1, SectorFits
<1>4. ASSUME NEW a \in Int, PageOf(a) = PageOf(p) PROVE SectorOf(a) = SectorOf(s)
  <2>1. s <= a /\ a < s + SectorW
    BY <1>1, <1>4, PageInSector
  <2> QED BY <1>1, <2>1, SectorAt
<1> QED BY <1>2, <1>3, <1>4, SectorWIs, FlashLenIs

\* write() looks at a page, or has written the sector's last.
LEMMA PageStep ==
    ASSUME FlashInv, Page
    PROVE  FlashInv'
<1> DEFINE s == host.s
           p == host.p
<1>1. /\ BoardInv /\ host.pc = "page" /\ chip' = chip /\ ctl' = ctl
  BY DEF FlashInv, Page, SameBoard
<1>2. host.pc \in Working /\ host.pc \in Paging
  BY <1>1 DEF Working, Erasing, Paging, Burst
<1>3. /\ s \in Nat /\ p \in Nat /\ host.len \in Nat /\ host.n \in Nat
      /\ InSector(s) /\ (Sound => Written(chip.mem, p)) /\ Job.a \in Nat
      /\ End <= FlashLen /\ End \in Nat /\ SectorW \in Nat \ {0} /\ FlashLen \in Nat
  BY <1>2, InWork DEF Front
<1>4. Inside(s, p)
  BY <1>2 DEF FlashInv, WorkInv
<1>5. MorePages <=> p < s + SectorW /\ p < End
  <2>1. Min({s + SectorW, End}) = IF s + SectorW <= End THEN s + SectorW ELSE End
    <3> HIDE DEF s
    <3> QED BY <1>3, MinTwo
  <2> QED BY <1>3, <2>1 DEF MorePages
<1>6. CASE ~MorePages
  <2>1. hist' = hist /\ host' = [host EXCEPT !.pc = "sector", !.s = s + SectorW]
    BY <1>6 DEF Page, SameHist
  <2>2. BoardInv'
    BY <1>1, <2>1 DEF BoardInv, CtlInv, HistType
  <2>3. host' = [host EXCEPT !.pc = "sector", !.s = s + SectorW, !.p = p, !.len = host.len,
                             !.n = host.n]
    BY <2>1 DEF FlashInv, HostType
  <2> HIDE DEF s, p
  <2>4. s + SectorW \in Nat /\ InSector(s + SectorW)
    BY <1>3, NextSector
  <2>5. Sound' => Written(chip'.mem, s + SectorW)
    <3>1. Sound' => Written(chip.mem, p)
      BY <1>3, <2>1 DEF Sound
    <3> QED BY <1>1, <1>3, <1>5, <1>6, <3>1 DEF Written
  <2>6. "sector" \in Places /\ "sector" \notin {"idle", "job"} /\ "sector" \notin Paging
        /\ "sector" \notin Erasing /\ "sector" \notin Burst
    BY DEF Places, Paging, Burst, Erasing
  <2>7. hist'.sectors = hist.sectors /\ hist'.orig = hist.orig /\ chip'.mem = chip.mem
    BY <1>1, <2>1
  <2> QED BY <1>2, <1>3, <2>2, <2>3, <2>4, <2>5, <2>6, <2>7, Goes
<1>7. CASE MorePages
  <2>1. PICK g \in Garbage :
          LET len == IF PageOf(p + g - 1) # PageOf(p) THEN EndOfPage(p) - p ELSE g
              empty == \A a \in p .. p + len - 1 : Wanted(a) = Blank
          IN  /\ host' = [host EXCEPT !.len = len, !.n = 0,
                   !.pc = IF len = 0 THEN "aborted" ELSE IF empty THEN "programmed" ELSE "ready"]
              /\ hist' = [hist EXCEPT !.short = @ \/ p + len < Min({EndOfPage(p), End})]
    BY <1>1, <1>7 DEF Page, PageEnd, EndOfPage
  <2> DEFINE len == IF PageOf(p + g - 1) # PageOf(p) THEN EndOfPage(p) - p ELSE g
             empty == \A a \in p .. p + len - 1 : Wanted(a) = Blank
             pc == IF len = 0 THEN "aborted" ELSE IF empty THEN "programmed" ELSE "ready"
             short == p + len < Min({EndOfPage(p), End})
  <2>2. /\ host' = [host EXCEPT !.len = len, !.n = 0, !.pc = pc]
        /\ hist' = [hist EXCEPT !.short = hist.short \/ short]
    BY <2>1
  <2>3. g \in Nat
    BY FlashAssumption
  <2>4. s <= p /\ p < s + SectorW /\ s < FlashLen
    BY <1>3, <1>4, <1>5, <1>7 DEF Inside
  <2>5. EndOfPage(p) \in Nat /\ p < EndOfPage(p)
    <3> HIDE DEF s, p
    <3> QED BY <1>3, <2>4, PageFacts
  <2>6. len \in Nat /\ p + len <= EndOfPage(p)
    <3> HIDE DEF p
    <3>1. CASE PageOf(p + g - 1) = PageOf(p)
      <4>1. p + g - 1 < EndOfPage(p)
        <5>1. p + g - 1 \in Int /\ PageOf(p) \in Int
          BY <1>3, <2>3, PageRange
        <5> QED BY <3>1, <5>1, PageRange DEF EndOfPage
      <4>2. len = g
        BY <3>1
      <4> HIDE DEF len
      <4> QED BY <1>3, <2>3, <2>5, <4>1, <4>2
    <3>2. CASE PageOf(p + g - 1) # PageOf(p)
      <4>1. len = EndOfPage(p) - p
        BY <3>2
      <4> HIDE DEF len
      <4> QED BY <1>3, <2>5, <4>1
    <3> QED BY <3>1, <3>2
  <2>7. pc \in {"aborted", "programmed", "ready"}
    <3> HIDE DEF len, empty
    <3> QED OBVIOUS
  <2>8. ~short => End <= p + len \/ EndOfPage(p) <= p + len
    <3> HIDE DEF len, p
    <3>1. Min({EndOfPage(p), End}) = IF EndOfPage(p) <= End THEN EndOfPage(p) ELSE End
      BY <1>3, <2>5, MinTwo
    <3> QED BY <1>3, <2>5, <2>6, <3>1
  <2> HIDE DEF len, empty, pc
  <2>9. host' = [host EXCEPT !.pc = pc, !.s = s, !.p = p, !.len = len, !.n = 0]
    BY <2>2 DEF FlashInv, HostType
  <2>10. short \in BOOLEAN
    OBVIOUS
  <2> HIDE DEF short
  <2>11. /\ hist'.sectors = hist.sectors /\ hist'.orig = hist.orig /\ hist'.busy = hist.busy
         /\ hist'.blind = hist.blind /\ (hist'.short <=> hist.short \/ short) /\ HistType'
    BY <2>2, <2>10 DEF FlashInv, BoardInv, HistType
  <2>12. BoardInv'
    BY <1>1, <2>11 DEF BoardInv, CtlInv
  <2> HIDE DEF s, p
  <2>13. Sound' => Written(chip'.mem, p)
    BY <1>1, <1>3, <2>11 DEF Sound
  <2>14. InPage(s, p, len, 0, hist'.short)
    BY <1>5, <1>7, <2>6, <2>8, <2>11 DEF InPage
  <2>15. /\ pc \in Places /\ pc \notin {"idle", "job"} /\ (pc \in Working => pc \in Paging)
         /\ pc \notin Erasing /\ pc # "true"
    BY <2>7 DEF Places, Paging, Burst, Erasing, Working
  <2>16. \A b \in Cells : SectorOf(b) \notin hist.sectors => chip'.mem[b] = chip.mem[b]
    BY <1>1
  <2>17. 0 \in Nat
    OBVIOUS
  <2> QED BY <1>2, <1>3, <1>4, <2>6, <2>9, <2>11, <2>12, <2>13, <2>14, <2>15, <2>16, <2>17, Goes
<1> QED BY <1>6, <1>7

\* page_program() writes a burst.
LEMMA ProgramStep ==
    ASSUME FlashInv, ProgramPage
    PROVE  FlashInv'
<1> DEFINE s == host.s
           p == host.p
           a == p + host.n
<1>1. PICK m \in 1 .. host.len - host.n :
        /\ Program(a, [i \in 1 .. m |-> BuildWord(Wanted(a + i - 1))])
        /\ host' = [host EXCEPT !.n = @ + m,
                      !.pc = IF host.n + m = host.len THEN "programming" ELSE @]
  BY DEF ProgramPage
<1>2. BoardInv /\ host.pc = "program" /\ hist' = hist
  BY DEF FlashInv, ProgramPage, SameHist
<1>3. host.pc \in Working /\ host.pc \in Paging /\ host.pc \in Burst
  BY <1>2 DEF Working, Erasing, Paging, Burst
<1>4. /\ s \in Nat /\ p \in Nat /\ host.len \in Nat /\ host.n \in Nat
      /\ InSector(s) /\ (Sound => Written(chip.mem, p)) /\ Job.a \in Nat
      /\ End <= FlashLen /\ End \in Nat /\ SectorW \in Nat \ {0} /\ FlashLen \in Nat
      /\ \A x \in Job.a .. FlashLen - 1 : Wanted(x) \in Word
  BY <1>3, InWork DEF Front
<1>5. Inside(s, p) /\ InPage(s, p, host.len, host.n, hist.short)
  BY <1>3 DEF FlashInv, WorkInv
<1> DEFINE w == [i \in 1 .. m |-> BuildWord(Wanted(a + i - 1))]
           pc == IF host.n + m = host.len THEN "programming" ELSE "program"
           n == host.n + m
<1>6. m \in Nat /\ 1 <= m /\ n \in Nat /\ n <= host.len
  BY <1>4
<1>7. Program(a, w) /\ host' = [host EXCEPT !.n = n, !.pc = pc]
  BY <1>1, <1>2
<1>8. host' = [host EXCEPT !.pc = pc, !.s = s, !.p = p, !.len = host.len, !.n = n]
  BY <1>7 DEF FlashInv, HostType
<1>9. pc \in {"program", "programming"}
  OBVIOUS
<1> HIDE DEF s, p, pc
<1>10. /\ EndOfPage(p) \in Nat /\ EndOfPage(p) <= FlashLen
       /\ \A x \in Int : PageOf(x) = PageOf(p) => SectorOf(x) = SectorOf(s)
  <2>1. s <= p /\ p < s + SectorW /\ s < FlashLen
    BY <1>4, <1>5 DEF Inside, InPage
  <2> QED BY <1>4, <2>1, PageFacts
<1>11. a \in Nat /\ p <= a /\ a + m <= EndOfPage(p) /\ Job.a <= p
  BY <1>4, <1>5, <1>6, <1>10 DEF InPage, Inside
<1>12. PageOf(a) = PageOf(p) /\ (a % PageW) + m <= PageW
  <2>1. PageOf(p) \in Int /\ PageOf(p) * PageW <= p
    BY <1>4, PageRange
  <2>2. PageOf(a) = PageOf(p)
    <3>1. a \in Int /\ PageOf(p) * PageW <= a /\ a < (PageOf(p) + 1) * PageW
      <4> DEFINE z == PageOf(p) * PageW
                 y == (PageOf(p) + 1) * PageW
      <4>1. z \in Int /\ y \in Int /\ z <= p /\ a + m <= y
        BY <1>11, <2>1 DEF EndOfPage
      <4> HIDE DEF z, y, a
      <4>2. z <= a /\ a < y
        BY <1>4, <1>6, <1>11, <4>1
      <4> QED BY <1>11, <4>2 DEF z, y
    <3> QED BY <2>1, <3>1, PageRange
  <2>3. a % PageW \in Int /\ a = PageOf(p) * PageW + (a % PageW)
    <3> HIDE DEF a
    <3>1. a = PageOf(a) * PageW + (a % PageW) /\ a % PageW \in Int
      BY <1>11, Division DEF PageOf
    <3> QED BY <2>2, <3>1
  <2>4. (PageOf(p) + 1) * PageW = PageOf(p) * PageW + PageW
    BY <2>1
  <2> DEFINE z == PageOf(p) * PageW
             y == a % PageW
  <2>5. z \in Int /\ a = z + y /\ y \in Int /\ a + m <= z + PageW
    BY <1>11, <2>1, <2>3, <2>4 DEF EndOfPage
  <2> HIDE DEF z, y
  <2>6. y + m <= PageW
    BY <1>6, <1>11, <2>5
  <2> QED BY <2>2, <2>6 DEF y
<1>13. w \in [1 .. m -> Word]
  <2>1. ASSUME NEW i \in 1 .. m PROVE BuildWord(Wanted(a + i - 1)) \in Word
    <3>1. a + i - 1 \in Job.a .. FlashLen - 1
      <4> HIDE DEF a
      <4> QED BY <1>4, <1>10, <1>11
    <3> HIDE DEF a
    <3> QED BY <1>4, <3>1 DEF BuildWord
  <2> QED BY <2>1
<1> HIDE DEF a, w, n
<1>14. /\ BoardInv'
       /\ \A b \in Cells : PageOf(b) # PageOf(p) \/ b < a => chip'.mem[b] = chip.mem[b]
  BY <1>2, <1>6, <1>7, <1>11, <1>12, <1>13, ProgramBoard
<1>15. \A b \in Cells : SectorOf(b) \notin hist.sectors => chip'.mem[b] = chip.mem[b]
  <2> SUFFICES ASSUME NEW b \in Cells, SectorOf(b) \notin hist.sectors
               PROVE  chip'.mem[b] = chip.mem[b]
    OBVIOUS
  <2>1. b \in Int
    BY FlashLenIs
  <2>2. PageOf(b) # PageOf(p)
    BY <1>5, <1>10, <2>1 DEF Inside
  <2> QED BY <1>14, <2>2
<1>16. Sound' => Written(chip'.mem, p)
  <2> SUFFICES ASSUME Sound', NEW x \in Job.a .. End - 1, x < p
               PROVE  chip'.mem[x] = Wanted(x)
    BY DEF Written
  <2>1. chip.mem[x] = Wanted(x)
    BY <1>2, <1>4 DEF Written, Sound
  <2>2. x \in Cells /\ x < a
    BY <1>4, <1>11, FlashLenIs
  <2> QED BY <1>14, <2>1, <2>2
<1>17. /\ pc \in Places /\ pc \notin {"idle", "job"} /\ pc \in Paging /\ pc \in Working
       /\ pc \notin Erasing /\ pc # "true"
  BY <1>9 DEF Places, Paging, Burst, Erasing, Working
<1>18. InPage(s, p, host.len, n, hist'.short)
  BY <1>2, <1>5, <1>6 DEF InPage
<1>19. hist'.sectors = hist.sectors /\ hist'.orig = hist.orig
  BY <1>2
<1> QED BY <1>3, <1>4, <1>5, <1>6, <1>8, <1>14, <1>15, <1>16, <1>17, <1>18, <1>19, Goes

\* page_program() reads back what it has written.
LEMMA VerifyPageStep ==
    ASSUME FlashInv, VerifyPage
    PROVE  FlashInv'
<1> DEFINE s == host.s
           p == host.p
           len == host.len
           good == Read(p, len) = [i \in 1 .. len |-> Wanted(p + i - 1)]
<1>1. /\ BoardInv /\ host.pc = "programmed" /\ ReadStep(p, len)
      /\ host' = IF good THEN [host EXCEPT !.pc = "page", !.p = EndOfPage(p)]
                 ELSE [host EXCEPT !.pc = "failed"]
  BY DEF FlashInv, VerifyPage, PageEnd, EndOfPage
<1>2. host.pc \in Working /\ host.pc \in Paging /\ host.pc \in Burst
  BY <1>1 DEF Working, Erasing, Paging, Burst
<1>3. /\ s \in Nat /\ p \in Nat /\ len \in Nat /\ host.n \in Nat
      /\ InSector(s) /\ (Sound => Written(chip.mem, p)) /\ Job.a \in Nat
      /\ End <= FlashLen /\ End \in Nat /\ SectorW \in Nat \ {0} /\ FlashLen \in Nat
  BY <1>2, InWork DEF Front
<1>4. Inside(s, p) /\ InPage(s, p, len, host.n, hist.short)
  BY <1>2 DEF FlashInv, WorkInv
<1>5. host' = [host EXCEPT !.pc = "page", !.s = s, !.p = EndOfPage(p), !.len = len, !.n = host.n]
      \/ ~good
  BY <1>1 DEF FlashInv, HostType
<1> HIDE DEF s, p, len
<1>6. /\ EndOfPage(p) \in Nat /\ EndOfPage(p) <= FlashLen /\ p < EndOfPage(p)
      /\ EndOfPage(p) <= s + SectorW
  <2>1. s <= p /\ p < s + SectorW /\ s < FlashLen
    BY <1>3, <1>4 DEF Inside, InPage
  <2> QED BY <1>3, <2>1, PageFacts
<1>7. p + len <= EndOfPage(p) /\ p + len <= FlashLen
  BY <1>3, <1>4, <1>6 DEF InPage
<1>8. /\ BoardInv' /\ chip'.mem = chip.mem
      /\ hist' \in [orig : {hist.orig}, sectors : {hist.sectors}, busy : {hist.busy},
                    blind : BOOLEAN, short : {hist.short}, runs : {hist.runs},
                    resets : {hist.resets}]
      /\ hist'.blind <=> hist.blind \/ chip.wip
      /\ \A i \in 1 .. len : Read(p, len)[i] = IF chip.wip THEN Nil ELSE chip.mem[p + i - 1]
  BY <1>1, <1>3, <1>7, ReadBoard
<1>9. /\ hist'.sectors = hist.sectors /\ hist'.orig = hist.orig /\ hist'.short = hist.short
      /\ (Sound' => Sound /\ ~chip.wip /\ ~hist.short)
  BY <1>8 DEF Sound
<1>10. CASE good
  <2>1. Sound' => Written(chip'.mem, EndOfPage(p))
    <3> SUFFICES ASSUME Sound', NEW a \in Job.a .. End - 1, a < EndOfPage(p)
                 PROVE  chip'.mem[a] = Wanted(a)
      BY DEF Written
    <3>1. CASE a < p
      BY <1>3, <1>8, <1>9, <3>1 DEF Written
    <3>2. CASE a >= p
      <4>1. a < p + len
        BY <1>3, <1>4, <1>6, <1>9 DEF InPage
      <4> DEFINE i == a - p + 1
      <4>2. i \in 1 .. len /\ p + i - 1 = a
        BY <1>3, <3>2, <4>1
      <4> HIDE DEF i
      <4>3. Read(p, len)[i] = chip.mem[a]
        BY <1>8, <1>9, <4>2
      <4>4. Read(p, len)[i] = Wanted(a)
        BY <1>10, <4>2
      <4> QED BY <1>8, <4>3, <4>4
    <3> QED BY <1>3, <3>1, <3>2
  <2>2. Inside(s, EndOfPage(p))
    BY <1>3, <1>4, <1>6 DEF Inside
  <2>3. "page" \in Places /\ "page" \notin {"idle", "job"} /\ "page" \in Paging
        /\ "page" \notin Burst /\ "page" \notin Erasing
    BY DEF Places, Paging, Burst, Erasing
  <2>4. host' = [host EXCEPT !.pc = "page", !.s = s, !.p = EndOfPage(p), !.len = len,
                             !.n = host.n]
    BY <1>5, <1>10
  <2>5. \A b \in Cells : SectorOf(b) \notin hist.sectors => chip'.mem[b] = chip.mem[b]
    BY <1>8
  <2> HIDE DEF good
  <2> QED BY <1>2, <1>3, <1>6, <1>8, <1>9, <2>1, <2>2, <2>3, <2>4, <2>5, Goes
<1>11. CASE ~good
  <2>1. host' = [host EXCEPT !.pc = "failed"] /\ "failed" \in Places
    BY <1>1, <1>11 DEF Places
  <2>2. Sound' => Sound
    BY <1>9
  <2> HIDE DEF good
  <2> QED BY <1>2, <1>8, <1>9, <2>1, <2>2, GoesOn
<1> QED BY <1>10, <1>11

\* Steps that leave the host where it is, and the flash as it was.
LEMMA HostStays ==
    ASSUME FlashInv, UNCHANGED <<host, hist>>, BoardInv', chip'.mem = chip.mem
    PROVE  FlashInv'
<1>1. /\ Job' = Job /\ End' = End /\ (\A a : Wanted(a)' = Wanted(a)) /\ Given' = Given
      /\ Front' = Front /\ Base' = Base /\ Sound' = Sound
  BY SameJob DEF Given, Front, Base, Sound, Job
<1>2. HostType' /\ OthersKept'
  <2>1. OthersKept'
    BY OthersAfter DEF FlashInv
  <2> QED BY <2>1 DEF FlashInv, HostType
<1>3. JobsInv'
  <2>1. ExecJob(Given)' = ExecJob(Given)
    BY <1>1 DEF ExecJob, Image, From, FlashLen
  <2>2. ASSUME InFlash(chip.mem, ExecJob(Given)) PROVE InFlash(chip.mem, ExecJob(Given))'
    BY <2>1, <2>2 DEF InFlash
  <2> QED BY <1>1, <2>1, <2>2 DEF FlashInv, JobsInv
<1>4. WorkInv'
  BY <1>1 DEF FlashInv, WorkInv, InSector, Inside, InPage, EndOfPage
<1>5. FrontInv'
  <2>1. Written(chip.mem, Front)' <=> Written(chip.mem, Front)
    BY <1>1 DEF Written
  <2> QED BY <1>1, <2>1 DEF FlashInv, FrontInv
<1> QED BY <1>2, <1>3, <1>4, <1>5 DEF FlashInv

\* Steps after which no program runs.
LEMMA HostGone ==
    ASSUME FlashInv, host' = NoHost, BoardInv', chip'.mem = chip.mem,
           hist'.sectors = hist.sectors, hist'.orig = hist.orig
    PROVE  FlashInv'
<1>1. OthersKept'
  BY OthersAfter DEF FlashInv
<1>2. host'.pc = "idle"
  BY DEF NoHost
<1>3. HostType'
  <2> DEFINE q == <<>>
  <2>1. q \in Seq(Programs0) /\ q \in Seq(JobSet)
    OBVIOUS
  <2>2. host' = [pc |-> "idle", given |-> q, jobs |-> q, s |-> 0, p |-> 0, len |-> 0, n |-> 0]
    BY DEF NoHost
  <2> HIDE DEF q
  <2>3. host' \in [pc : Places, given : Seq(Programs0), jobs : Seq(JobSet),
                   s : Nat, p : Nat, len : Nat, n : Nat]
    BY <2>1, <2>2 DEF Places
  <2> QED BY <1>2, <2>3 DEF HostType, Places, JobSet
<1>4. JobsInv' /\ WorkInv' /\ FrontInv'
  BY <1>2 DEF JobsInv, WorkInv, FrontInv, Working, Erasing, Paging, Burst
<1> QED BY <1>1, <1>3, <1>4 DEF FlashInv

\* zipload starts with its jobs.
LEMMA StartStep ==
    ASSUME FlashInv, Start
    PROVE  FlashInv'
<1>1. PICK p \in Programs0 :
        /\ host' = [NoHost EXCEPT !.pc = "job", !.given = <<p>>, !.jobs = Jobs(p)]
        /\ hist' = [hist EXCEPT !.runs = @ + 1]
  BY DEF Start
<1>2. chip' = chip /\ ctl' = ctl
  BY DEF Start
<1>3. /\ hist'.sectors = hist.sectors /\ hist'.orig = hist.orig /\ hist'.busy = hist.busy
      /\ HistType'
  BY <1>1 DEF FlashInv, BoardInv, HistType
<1>4. BoardInv'
  BY <1>2, <1>3 DEF FlashInv, BoardInv, CtlInv
<1>5. OthersKept'
  BY <1>2, <1>3, OthersAfter DEF FlashInv
<1> DEFINE g == <<p>>
<1>6. g \in Seq(Programs0) /\ Len(g) = 1 /\ Head(g) = p
  OBVIOUS
<1> HIDE DEF g
<1>7. /\ Jobs(p) \in Seq(JobSet)
      /\ p.exec # <<>> => Jobs(p) # <<>> /\ Jobs(p)[Len(Jobs(p))] = ExecJob(p)
  BY JobsAre
<1>8. host' = [pc |-> "job", given |-> g, jobs |-> Jobs(p), s |-> 0, p |-> 0, len |-> 0, n |-> 0]
  BY <1>1 DEF NoHost, g
<1>9. HostType'
  <2>1. host' \in [pc : Places, given : Seq(Programs0), jobs : Seq(JobSet),
                   s : Nat, p : Nat, len : Nat, n : Nat]
    BY <1>6, <1>7, <1>8 DEF Places
  <2>2. Len(host'.given) = 1
    BY <1>6, <1>8
  <2> QED BY <2>1, <2>2 DEF HostType, Places, JobSet
<1>10. Given' = p
  BY <1>6, <1>8 DEF Given
<1>11. JobsInv'
  <2>1. ExecJob(Given)' = ExecJob(p)
    BY <1>10 DEF ExecJob, Image, From, FlashLen
  <2>2. host'.jobs = Jobs(p) /\ Given'.exec = p.exec
    BY <1>8, <1>10
  <2> QED BY <1>7, <2>1, <2>2 DEF JobsInv
<1>12. WorkInv' /\ FrontInv'
  <2>1. host'.pc = "job"
    BY <1>8
  <2> QED BY <2>1 DEF WorkInv, FrontInv, Working, Erasing, Paging, Burst
<1> QED BY <1>4, <1>5, <1>9, <1>11, <1>12 DEF FlashInv

\* write() is called for a job.
LEMMA WriteStep ==
    ASSUME FlashInv, Write
    PROVE  FlashInv'
<1> DEFINE s == SectorOf(Job.a) * SectorW
           more == {SectorOf(a) : a \in Job.a .. End - 1}
<1>1. /\ host.pc = "job" /\ host.jobs # <<>> /\ chip' = chip /\ ctl' = ctl
      /\ host' = [host EXCEPT !.pc = "sector", !.s = s]
      /\ hist' = [hist EXCEPT !.sectors = hist.sectors \cup more]
  BY DEF Write, SameBoard
<1>2. /\ Job.a \in Nat /\ Job.len \in Nat /\ End = Job.a + Job.len /\ End \in Nat
  BY <1>1, JobFacts DEF FlashInv
<1>3. s \in Nat /\ s % SectorW = 0 /\ s <= Job.a /\ Job.a < s + SectorW
  BY <1>2, SectorStart
<1>4. more \subseteq Int
  BY <1>2, SectorRange
<1>5. /\ hist'.sectors = hist.sectors \cup more /\ hist'.orig = hist.orig
      /\ hist'.busy = hist.busy /\ HistType'
  <2> HIDE DEF more
  <2> QED BY <1>1, <1>4 DEF FlashInv, BoardInv, HistType
<1>6. BoardInv'
  BY <1>1, <1>5 DEF FlashInv, BoardInv, CtlInv
<1>7. OthersKept'
  BY <1>1, <1>5, OthersAfter DEF FlashInv
<1> HIDE DEF s
<1>8. /\ host'.pc = "sector" /\ host'.s = s /\ host'.jobs = host.jobs /\ host'.given = host.given
  BY <1>1 DEF FlashInv, HostType
<1>9. HostType'
  <2>1. host' \in [pc : Places, given : Seq(Programs0), jobs : Seq(JobSet),
                   s : Nat, p : Nat, len : Nat, n : Nat]
    BY <1>1, <1>3 DEF FlashInv, HostType, Places
  <2>2. Len(host'.given) = 1
    BY <1>1, <1>8 DEF FlashInv, HostType
  <2> QED BY <2>1, <2>2 DEF HostType, Places, JobSet
<1>10. /\ Job' = Job /\ End' = End /\ Given' = Given
  BY <1>8, SameJob DEF Given
<1>11. JobsInv'
  <2>1. ExecJob(Given)' = ExecJob(Given)
    BY <1>10 DEF ExecJob, Image, From, FlashLen
  <2> QED BY <1>1, <1>8, <1>10, <2>1 DEF FlashInv, JobsInv
<1>12. WorkInv'
  <2>1. \A a \in Job.a .. End - 1 : SectorOf(a) \in hist'.sectors
    BY <1>5
  <2>2. host'.s % SectorW = 0 /\ Job'.a < host'.s + SectorW
    BY <1>3, <1>8, <1>10
  <2>3. "sector" \notin Erasing /\ "sector" \notin Paging /\ "sector" \notin Burst
    BY DEF Erasing, Paging, Burst
  <2> QED BY <1>1, <1>8, <1>10, <2>1, <2>2, <2>3 DEF WorkInv, InSector
<1>13. FrontInv'
  <2>1. Front' = s
    BY <1>8 DEF Front, Paging, Burst
  <2> QED BY <1>2, <1>3, <1>10, <2>1 DEF FrontInv, Written
<1> QED BY <1>6, <1>7, <1>9, <1>11, <1>12, <1>13 DEF FlashInv

\* A job is done; the next, or none.
LEMMA NextJobStep ==
    ASSUME FlashInv, NextJob
    PROVE  FlashInv'
<1> DEFINE pc == IF host.pc = "failed" /\ LastIsExec THEN "exit" ELSE "job"
<1>1. /\ host.pc \in {"true", "failed"} /\ chip' = chip /\ ctl' = ctl /\ hist' = hist
      /\ host' = [host EXCEPT !.jobs = Tail(@), !.pc = pc]
  BY DEF NextJob, SameBoard, SameHist
<1>2. BoardInv' /\ OthersKept'
  BY <1>1 DEF FlashInv, BoardInv, CtlInv, HistType, OthersKept, Cells, SectorOf, SectorW
<1>3. host.jobs # <<>> /\ host.jobs \in Seq(JobSet) /\ Len(host.given) = 1
  BY <1>1 DEF FlashInv, WorkInv, HostType, Working
<1>4. /\ Tail(host.jobs) \in Seq(JobSet) /\ Len(Tail(host.jobs)) = Len(host.jobs) - 1
      /\ \A i \in 1 .. Len(Tail(host.jobs)) : Tail(host.jobs)[i] = host.jobs[i + 1]
      /\ Len(host.jobs) \in Nat \ {0}
  BY <1>3, HeadTailProperties, EmptySeq
<1>5. pc \in {"exit", "job"}
  OBVIOUS
<1> HIDE DEF pc
<1> DEFINE more == Tail(host.jobs)
<1> HIDE DEF more
<1>6. /\ host'.pc = pc /\ host'.jobs = more /\ host'.given = host.given
  BY <1>1 DEF FlashInv, HostType, more
<1>7. HostType'
  <2>1. host' \in [pc : Places, given : Seq(Programs0), jobs : Seq(JobSet),
                   s : Nat, p : Nat, len : Nat, n : Nat]
    BY <1>1, <1>4, <1>5 DEF FlashInv, HostType, Places
  <2> QED BY <1>3, <1>6, <2>1 DEF HostType, Places, JobSet
<1>8. WorkInv' /\ FrontInv'
  BY <1>5, <1>6 DEF WorkInv, FrontInv, Working, Erasing, Paging, Burst
<1>9. JobsInv'
  <2>1. Given' = Given
    BY <1>6 DEF Given
  <2>2. ExecJob(Given)' = ExecJob(Given)
    BY <2>1 DEF ExecJob, Image, From, FlashLen
  <2>3. ASSUME Given.exec # <<>>, more # <<>>
        PROVE  more[Len(more)] = ExecJob(Given)
    <3>1. host.jobs[Len(host.jobs)] = ExecJob(Given)
      BY <1>1, <1>3, <2>3 DEF FlashInv, JobsInv
    <3>2. Len(more) \in 1 .. Len(more) /\ Len(more) + 1 = Len(host.jobs)
      BY <1>4, <2>3, EmptySeq DEF more
    <3> QED BY <1>4, <3>1, <3>2 DEF more
  <2>4. ASSUME Given.exec # <<>>, more = <<>>, pc = "job", Sound
        PROVE  InFlash(chip.mem, ExecJob(Given))
    <3>1. Len(host.jobs) = 1
      <4>1. Len(more) = 0
        BY <2>4
      <4> QED BY <1>4, <4>1 DEF more
    <3>2. host.pc = "true"
      BY <1>1, <2>4, <3>1 DEF pc, LastIsExec
    <3>3. Job = ExecJob(Given)
      <4>1. host.jobs[Len(host.jobs)] = ExecJob(Given)
        BY <1>1, <1>3, <2>4 DEF FlashInv, JobsInv
      <4> QED BY <1>3, <3>1, <4>1 DEF Job
    <3>4. host.s >= End /\ Written(chip.mem, host.s)
      BY <2>4, <3>2 DEF FlashInv, WorkInv, FrontInv, Front, Working, Paging, Burst
    <3>5. /\ End = Job.a + Job.len /\ End \in Nat /\ Job.a \in Nat /\ Job.len \in Nat
          /\ host.s \in Nat
      BY <1>3, JobFacts DEF FlashInv, HostType
    <3>6. InFlash(chip.mem, Job)
      <4> SUFFICES ASSUME NEW a \in Job.a .. Job.a + Job.len - 1
                   PROVE  chip.mem[a] = Job.data[a - Job.a + 1]
        BY DEF InFlash
      <4>1. a \in Job.a .. End - 1 /\ a < host.s
        BY <3>4, <3>5
      <4> QED BY <3>4, <4>1 DEF Written, Wanted
    <3> QED BY <3>3, <3>6
  <2>5. Sound' = Sound
    BY <1>1 DEF Sound
  <2>6. InFlash(chip.mem, ExecJob(Given))' = InFlash(chip.mem, ExecJob(Given))
    BY <1>1, <2>2 DEF InFlash
  <2> QED BY <1>6, <2>1, <2>2, <2>3, <2>4, <2>5, <2>6 DEF JobsInv
<1> QED BY <1>2, <1>7, <1>8, <1>9 DEF FlashInv

\* The board is restarted.
LEMMA ResetStep ==
    ASSUME FlashInv, Reset
    PROVE  FlashInv'
<1>1. /\ host' = NoHost /\ ctl' = CtlReset
      /\ chip' = IF chip.state = "xip" THEN [chip EXCEPT !.state = "idle"] ELSE chip
      /\ hist' = [hist EXCEPT !.resets = @ + 1, !.busy = hist.busy \/ chip.wip]
  BY DEF Reset
<1>2. chip \in ChipSet /\ chip.state \in {"idle", "xip"} /\ chip.wip \in BOOLEAN
      /\ ~chip.dp /\ ~chip.confused /\ chip.out = <<>> /\ (chip.refused => hist.busy)
  BY DEF FlashInv, BoardInv, ChipRests, CtlInv, ChipSet
<1>3. Unmoved(chip, chip') /\ chip'.state = "idle" /\ chip'.out = <<>>
  <2>1. CASE chip.state = "xip"
    <3> DEFINE r == [chip EXCEPT !.state = "idle"]
    <3>1. r \in ChipSet
      BY <1>2 DEF ChipSet, States
    <3>2. Unmoved(chip, r) /\ r.state = "idle" /\ r.out = chip.out
      BY <1>2, <3>1 DEF ChipSet, Unmoved
    <3> HIDE DEF r
    <3> QED BY <1>1, <1>2, <2>1, <3>2 DEF r
  <2>2. CASE chip.state = "idle"
    BY <1>1, <1>2, <2>2 DEF Unmoved
  <2> QED BY <1>2, <2>1, <2>2
<1>4. /\ hist'.sectors = hist.sectors /\ hist'.orig = hist.orig
      /\ (hist'.busy <=> hist.busy \/ chip.wip) /\ HistType'
  <2> DEFINE b == chip.wip
  <2>1. hist' = [hist EXCEPT !.resets = @ + 1, !.busy = hist.busy \/ b] /\ b \in BOOLEAN
    BY <1>1, <1>2
  <2> HIDE DEF b
  <2> DEFINE r == hist.resets + 1
  <2>2. HistType /\ r \in Nat
    BY DEF FlashInv, BoardInv, HistType
  <2>3. hist' = [hist EXCEPT !.resets = r, !.busy = hist.busy \/ b]
    BY <2>1
  <2> HIDE DEF r
  <2>4. hist'.sectors = hist.sectors /\ hist'.orig = hist.orig
    BY <2>2, <2>3 DEF HistType
  <2>5. hist'.busy <=> hist.busy \/ b
    BY <2>1, <2>2, <2>3 DEF HistType
  <2>6. HistType'
    BY <2>1, <2>2, <2>3 DEF HistType
  <2> QED BY <2>4, <2>5, <2>6 DEF b
<1>5. CtlInv'
  <2>1. /\ ctl' \in [wip : BOOLEAN, wp : BOOLEAN, quad : {TRUE}, xip : BOOLEAN]
        /\ ctl'.xip = FALSE /\ ctl'.wip = FALSE
    BY <1>1 DEF CtlReset
  <2>2. (chip'.wip => hist'.busy) /\ (chip'.refused => hist'.busy)
    BY <1>2, <1>3, <1>4 DEF Unmoved
  <2> QED BY <1>3, <2>1, <2>2 DEF CtlInv
<1>6. BoardInv'
  BY <1>2, <1>3, <1>4, <1>5 DEF BoardInv, ChipRests, Unmoved
<1> QED BY <1>1, <1>3, <1>4, <1>6, HostGone DEF Unmoved

-----------------------------------------------------------------------------
(***************************************************************************)
(* The theorems.                                                           *)
(***************************************************************************)
LEMMA InitInv ==
    ASSUME Init
    PROVE  FlashInv
<1>1. PICK mem \in Contents0 : chip = Chip(mem)
  BY DEF Init
<1>2. /\ ctl = CtlReset /\ host = NoHost
      /\ hist = [orig |-> chip.mem, sectors |-> {}, busy |-> FALSE, blind |-> FALSE,
                 short |-> FALSE, runs |-> 0, resets |-> 0]
  BY DEF Init
<1>3. mem \in [Cells -> Word]
  BY FlashAssumption
<1> DEFINE q == <<>>
           g == [i \in 0 .. PageW - 1 |-> Blank]
<1>4. chip = [mem |-> mem, page |-> g, wel |-> FALSE,
              wip |-> FALSE, dp |-> FALSE, state |-> "idle", addr |-> 0, creg |-> TRUE,
              mode |-> FALSE, out |-> q, refused |-> FALSE, confused |-> FALSE]
  BY <1>1 DEF Chip
<1>5. q \in Seq(Word \cup BOOLEAN) /\ q \in Seq(Programs0) /\ q \in Seq(JobSet)
      /\ g \in [0 .. PageW - 1 -> Word]
  BY WordIs
<1>6. host = [pc |-> "idle", given |-> q, jobs |-> q, s |-> 0, p |-> 0, len |-> 0, n |-> 0]
  BY <1>2 DEF NoHost
<1> HIDE DEF g
<1>7. /\ chip.mem = mem /\ chip.state = "idle" /\ ~chip.wip /\ ~chip.dp /\ ~chip.confused
      /\ ~chip.refused /\ chip.out = <<>>
  BY <1>4
<1> HIDE DEF q
<1>8. chip \in ChipSet
  BY <1>3, <1>4, <1>5 DEF ChipSet, States
<1>9. CtlInv
  BY <1>2, <1>7 DEF CtlInv, CtlReset
<1>10. HistType
  BY <1>2, <1>3, <1>7 DEF HistType
<1>11. BoardInv
  BY <1>7, <1>8, <1>9, <1>10 DEF BoardInv, ChipRests
<1>12. OthersKept
  BY <1>2 DEF OthersKept
<1>13. HostType /\ host.pc = "idle"
  <2>1. host \in [pc : Places, given : Seq(Programs0), jobs : Seq(JobSet),
                   s : Nat, p : Nat, len : Nat, n : Nat]
    BY <1>5, <1>6 DEF Places
  <2> QED BY <1>6, <2>1 DEF HostType
<1>14. JobsInv /\ WorkInv /\ FrontInv
  BY <1>13 DEF JobsInv, WorkInv, FrontInv, Working, Erasing, Paging, Burst
<1> QED BY <1>11, <1>12, <1>13, <1>14 DEF FlashInv

\* All of them together.
LEMMA StepKeeps ==
    ASSUME FlashInv, [Next]_vars
    PROVE  FlashInv'
<1>1. CASE UNCHANGED vars
  <2>1. UNCHANGED <<host, hist>> /\ chip' = chip /\ ctl' = ctl
    BY <1>1 DEF vars
  <2>2. BoardInv'
    BY <2>1 DEF FlashInv, BoardInv, CtlInv, HistType
  <2> QED BY <2>1, <2>2, HostStays
<1>2. CASE Start
  BY <1>2, StartStep
<1>3. CASE Driver
  BY <1>3, WriteStep, CompareStep, UnprotectStep, EraseStep, WaitStep, VerifyEraseStep,
     PageStep, ProgramStep, VerifyPageStep, ReturnStep DEF Driver
<1>4. CASE NextJob
  BY <1>4, NextJobStep
<1>5. ASSUME Exit \/ Kill PROVE FlashInv'
  <2>1. host' = NoHost /\ chip' = chip /\ ctl' = ctl /\ hist' = hist
    BY <1>5 DEF Exit, Kill, SameBoard, SameHist
  <2>2. BoardInv'
    BY <2>1 DEF FlashInv, BoardInv, CtlInv, HistType
  <2> QED BY <2>1, <2>2, HostGone
<1>6. CASE Reset
  BY <1>6, ResetStep
<1>7. CASE IdleCheck
  <2>1. BoardInv /\ UNCHANGED <<host, hist>> /\ ReadEreg
    BY <1>7 DEF FlashInv, IdleCheck
  <2>2. BoardInv' /\ chip'.mem = chip.mem
    BY <2>1, EregBoard
  <2> QED BY <2>1, <2>2, HostStays
<1>8. CASE Peek
  <2>1. BoardInv /\ UNCHANGED <<host, hist>>
    BY <1>8 DEF FlashInv, Peek
  <2>2. BoardInv' /\ chip'.mem = chip.mem
    BY <1>8, <2>1, PeekBoard
  <2> QED BY <2>1, <2>2, HostStays
<1>9. CASE ChipDone
  <2>1. BoardInv /\ UNCHANGED <<host, hist>>
    BY <1>9 DEF FlashInv, ChipDone
  <2>2. BoardInv' /\ chip'.mem = chip.mem
    BY <1>9, <2>1, FinishedBoard
  <2> QED BY <2>1, <2>2, HostStays
<1> QED BY <1>1, <1>2, <1>3, <1>4, <1>5, <1>6, <1>7, <1>8, <1>9 DEF Next

\* The invariant holds of every state of the flash and of those who use it.
THEOREM FlashInvHolds == Spec => []FlashInv
<1>1. Init => FlashInv
  BY InitInv
<1>2. FlashInv /\ [Next]_vars => FlashInv'
  BY StepKeeps
<1> QED BY <1>1, <1>2, PTL DEF Spec

\* When FLASHDRVR::write() returns true, the flash holds the image it was given, whatever
\* was killed, restarted or interrupted before.
THEOREM WrittenIsTrue == Spec => []WriteIsTrue
<1>1. FlashInv => WriteIsTrue
  <2> SUFFICES ASSUME FlashInv, host.pc = "true", Sound, NEW a \in Job.a .. End - 1
               PROVE  chip.mem[a] = Wanted(a)
    BY DEF WriteIsTrue
  <2>1. host.pc \in Working /\ Front = host.s
    BY DEF Working, Front, Paging, Burst
  <2>2. Written(chip.mem, host.s) /\ End \in Nat /\ Job.a \in Nat /\ host.s \in Nat
    BY <2>1, InWork
  <2>3. host.s >= End
    BY DEF FlashInv, WorkInv
  <2> QED BY <2>2, <2>3 DEF Written
<1> QED BY <1>1, FlashInvHolds, PTL

\* The chip refuses no command of the controller's, and takes none for something else,
\* unless the board was restarted while it was busy.
THEOREM ChipIsUnderstood == Spec => []ChipUnderstands
<1>1. FlashInv => ChipUnderstands
  BY DEF FlashInv, BoardInv, CtlInv, ChipRests, ChipUnderstands
<1> QED BY <1>1, FlashInvHolds, PTL

\* Erasing and programming change no sector but those that write() was told to write.
THEOREM OthersAreKept == Spec => []OthersKept
<1>1. FlashInv => OthersKept
  BY DEF FlashInv
<1> QED BY <1>1, FlashInvHolds, PTL

\* When zipload ends well, each of the program's sections is in its place in the flash.
THEOREM ProgramIsLoaded == Spec => []ProgramLoaded
<1>1. FlashInv => ProgramLoaded
  <2> SUFFICES ASSUME FlashInv, host.pc = "job", host.jobs = <<>>, Sound,
                      NEW i \in DOMAIN Sections(Given.exec),
                      Given.exec[i].a + Len(Given.exec[i].words) <= FlashLen,
                      NEW x \in DOMAIN Given.exec[i].words
               PROVE  chip.mem[Given.exec[i].a + x - 1] = Given.exec[i].words[x]
    BY DEF ProgramLoaded, EndsWell, Holds
  <2>1. Given \in Programs0
    <3>1. host.given \in Seq(Programs0) /\ Len(host.given) = 1
      BY DEF FlashInv, HostType
    <3> QED BY <3>1 DEF Given
  <2>2. Given.exec # <<>>
    <3> DEFINE R == [a : Nat, words : Seq(Word)]
               exec == Given.exec
    <3>1. exec \in Seq(R)
      BY <2>1, ProgramIs
    <3> HIDE DEF R
    <3>2. Len(Sections(exec)) \in 0 .. Len(exec) /\ Sections(exec) \in Seq(R)
      BY <3>1, SectionsAre
    <3>3. i \in 1 .. Len(Sections(exec))
      BY <3>2
    <3> HIDE DEF exec
    <3>4. exec # <<>>
      BY <3>2, <3>3
    <3> QED BY <3>4 DEF exec
  <2>3. InFlash(chip.mem, ExecJob(Given))
    BY <2>2 DEF FlashInv, JobsInv
  <2> QED BY <2>1, <2>3, ExecIsLoaded
<1> QED BY <1>1, FlashInvHolds, PTL
=============================================================================
