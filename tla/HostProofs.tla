----------------------------- MODULE HostProofs -----------------------------
(***************************************************************************)
(* Proofs about the parts of MCHost, for every value of their constants.   *)
(* A behaviour of MCSpec is about one part, path; each part has an         *)
(* inductive invariant of its own (that of the bus is BusInv, in           *)
(* HostBusProofs), and the steps of the other parts leave its variables    *)
(* alone.                                                                  *)
(***************************************************************************)
EXTENDS MCHost, HostBusProofs

-----------------------------------------------------------------------------
(***************************************************************************)
(* Characters on their way (DeppLink).  What has not been handed over is   *)
(* what is in the queue, the transfer, the register and the board, and     *)
(* push_fifo() takes nothing but filling from it.                          *)
(***************************************************************************)
Kept(q, s, keep) ==
    CHOOSE f : f = [i \in 0 .. Len(s) |-> IF i = 0 THEN q
                                          ELSE IF i \in keep THEN Append(f[i - 1], s[i])
                                          ELSE f[i - 1]]

SoKept(f, q, s, keep) ==
    /\ f[0] = q
    /\ \A i \in 1 .. Len(s) : f[i] = IF i \in keep THEN Append(f[i - 1], s[i]) ELSE f[i - 1]

\* There is a function as Sifted describes.
LEMMA KeptExists ==
    ASSUME NEW S, NEW q \in Seq(S), NEW s \in Seq(S), NEW keep
    PROVE  \E f \in [0 .. Len(s) -> Seq(S)] : SoKept(f, q, s, keep)
<1> DEFINE Upto(n) == \E f \in [0 .. n -> Seq(S)] :
             /\ f[0] = q
             /\ \A i \in 1 .. n : f[i] = IF i \in keep THEN Append(f[i - 1], s[i]) ELSE f[i - 1]
           N == {n \in Nat : n <= Len(s) => Upto(n)}
<1>1. Len(s) \in Nat
  BY LenProperties
<1>2. 0 \in N
  <2>1. /\ [i \in 0 .. 0 |-> q] \in [0 .. 0 -> Seq(S)]
        /\ [i \in 0 .. 0 |-> q][0] = q
        /\ 1 .. 0 = {}
    OBVIOUS
  <2>2. Upto(0)
    BY <2>1
  <2> HIDE DEF Upto
  <2> QED BY <2>2
<1>3. ASSUME NEW n \in N PROVE n + 1 \in N
  <2>1. SUFFICES ASSUME n + 1 <= Len(s) PROVE Upto(n + 1)
    <3> HIDE DEF Upto
    <3> QED BY <1>3
  <2>2. n \in Nat /\ n <= Len(s)
    BY <1>1, <1>3, <2>1
  <2>3. PICK f \in [0 .. n -> Seq(S)] :
          /\ f[0] = q
          /\ \A i \in 1 .. n : f[i] = IF i \in keep THEN Append(f[i - 1], s[i]) ELSE f[i - 1]
    <3>1. Upto(n)
      <4> HIDE DEF Upto
      <4> QED BY <1>3, <2>2
    <3> QED BY <3>1
  <2> DEFINE next == IF n + 1 \in keep THEN Append(f[n], s[n + 1]) ELSE f[n]
             g == [i \in 0 .. n + 1 |-> IF i = n + 1 THEN next ELSE f[i]]
  <2>4. next \in Seq(S)
    <3>1. f[n] \in Seq(S) /\ s[n + 1] \in S
      BY <2>1, <2>2, <2>3, ElementOfSeq
    <3> QED BY <3>1, AppendProperties
  <2>5. g \in [0 .. n + 1 -> Seq(S)] /\ g[0] = q /\ g[n + 1] = next /\ g[n] = f[n]
    <3> HIDE DEF next
    <3> QED BY <2>2, <2>3, <2>4
  <2>6. ASSUME NEW i \in 1 .. n + 1
        PROVE  g[i] = IF i \in keep THEN Append(g[i - 1], s[i]) ELSE g[i - 1]
    <3>1. CASE i = n + 1
      BY <2>2, <2>5, <3>1
    <3>2. CASE i # n + 1
      <4>1. i \in 1 .. n /\ g[i] = f[i] /\ g[i - 1] = f[i - 1]
        BY <2>2, <3>2
      <4> QED BY <2>3, <4>1
    <3> QED BY <3>1, <3>2
  <2> QED BY <2>5, <2>6
<1>4. N = Nat
  <2>1. N \in SUBSET Nat
    <3> HIDE DEF Upto
    <3> QED OBVIOUS
  <2> HIDE DEF N
  <2> QED BY <1>2, <1>3, <2>1, NatInduct
<1>5. Upto(Len(s))
  <2> HIDE DEF Upto
  <2> QED BY <1>1, <1>4
<1> QED BY <1>5 DEF SoKept

\* And Sifted takes its value at the end of s.
LEMMA KeptIs ==
    ASSUME NEW S, NEW q \in Seq(S), NEW s \in Seq(S), NEW keep
    PROVE  /\ Kept(q, s, keep) \in [0 .. Len(s) -> Seq(S)]
           /\ SoKept(Kept(q, s, keep), q, s, keep)
           /\ Link!Sifted(q, s, keep) = Kept(q, s, keep)[Len(s)]
<1> DEFINE E(f) == [i \in 0 .. Len(s) |-> IF i = 0 THEN q
                                          ELSE IF i \in keep THEN Append(f[i - 1], s[i])
                                          ELSE f[i - 1]]
           K == Kept(q, s, keep)
<1>0. Len(s) \in Nat
  BY LenProperties
<1>1. K = E(K)
  <2>1. PICK f \in [0 .. Len(s) -> Seq(S)] : SoKept(f, q, s, keep)
    <3> HIDE DEF E, K
    <3> QED BY KeptExists
  <2>2. f = E(f)
    <3>1. f = [i \in 0 .. Len(s) |-> f[i]]
      BY <2>1
    <3>2. ASSUME NEW i \in 0 .. Len(s)
          PROVE  f[i] = E(f)[i]
      <4>1. CASE i = 0
        BY <2>1, <4>1 DEF SoKept
      <4>2. CASE i # 0
        <5>1. i \in 1 .. Len(s)
          BY <1>0, <4>2
        <5>2. f[i] = IF i \in keep THEN Append(f[i - 1], s[i]) ELSE f[i - 1]
          BY <2>1, <5>1 DEF SoKept
        <5> QED BY <4>2, <5>2
      <4> QED BY <4>1, <4>2
    <3> QED BY <3>1, <3>2
  <2>3. K = CHOOSE g : g = E(g)
    BY DEF Kept
  <2> HIDE DEF E, K
  <2> QED BY <2>2, <2>3
<1>2. K[0] = q
  BY <1>0, <1>1
<1>3. ASSUME NEW i \in 1 .. Len(s)
      PROVE  K[i] = IF i \in keep THEN Append(K[i - 1], s[i]) ELSE K[i - 1]
  <2>1. i \in 0 .. Len(s) /\ i # 0
    BY <1>0
  <2>2. K[i] = E(K)[i]
    BY <1>1
  <2> QED BY <2>1, <2>2
<1>4. K \in [0 .. Len(s) -> Seq(S)]
  <2> HIDE DEF K
  <2> DEFINE N == {n \in Nat : n <= Len(s) => K[n] \in Seq(S)}
  <2>1. 0 \in N
    BY <1>2
  <2>2. ASSUME NEW n \in N PROVE n + 1 \in N
    <3>1. SUFFICES ASSUME n + 1 <= Len(s) PROVE K[n + 1] \in Seq(S)
      OBVIOUS
    <3>2. n + 1 \in 1 .. Len(s) /\ (n + 1) - 1 = n /\ K[n] \in Seq(S)
      BY <1>0, <3>1
    <3>3. s[n + 1] \in S
      BY <3>2, ElementOfSeq
    <3>4. Append(K[n], s[n + 1]) \in Seq(S)
      BY <3>2, <3>3, AppendProperties
    <3> QED BY <1>3, <3>2, <3>4
  <2>3. N = Nat
    <3>1. N \in SUBSET Nat
      OBVIOUS
    <3> HIDE DEF N
    <3> QED BY <2>1, <2>2, <3>1, NatInduct
  <2>4. ASSUME NEW i \in 0 .. Len(s) PROVE K[i] \in Seq(S)
    BY <1>0, <2>3
  <2>5. K = [i \in 0 .. Len(s) |-> K[i]]
    <3>1. \E f : K = E(f)
      BY <1>1
    <3> QED BY <3>1
  <2> QED BY <2>4, <2>5
<1>5. Link!Sifted(q, s, keep) = K[Len(s)]
  BY DEF Link!Sifted, Kept
<1> QED
  <2> HIDE DEF K, E
  <2>1. /\ K \in [0 .. Len(s) -> Seq(S)] /\ SoKept(K, q, s, keep)
        /\ Link!Sifted(q, s, keep) = K[Len(s)]
    BY <1>2, <1>3, <1>4, <1>5 DEF SoKept
  <2> QED BY <2>1 DEF K

LEMMA SiftedType ==
    ASSUME NEW S, NEW q \in Seq(S), NEW s \in Seq(S), NEW keep
    PROVE  Link!Sifted(q, s, keep) \in Seq(S)
<1>1. Len(s) \in 0 .. Len(s)
  BY LenProperties
<1> QED BY <1>1, KeptIs

LEMMA SiftedEmpty ==
    ASSUME NEW S, NEW q \in Seq(S), NEW keep
    PROVE  Link!Sifted(q, <<>>, keep) = q
<1>1. <<>> \in Seq(S) /\ Len(<<>>) = 0
  BY EmptySeq
<1>2. /\ SoKept(Kept(q, <<>>, keep), q, <<>>, keep)
      /\ Link!Sifted(q, <<>>, keep) = Kept(q, <<>>, keep)[0]
  BY <1>1, KeptIs, ZenonT(60)
<1> QED BY <1>2 DEF SoKept

\* One byte more.
LEMMA SiftedAppend ==
    ASSUME NEW q \in Seq(Nat), NEW s \in Seq(Nat), NEW v \in Nat, NEW keep, NEW keep2,
           \A i \in 1 .. Len(s) : i \in keep <=> i \in keep2
    PROVE  Link!Sifted(q, Append(s, v), keep2) =
             IF Len(s) + 1 \in keep2 THEN Append(Link!Sifted(q, s, keep), v)
             ELSE Link!Sifted(q, s, keep)
<1> DEFINE t == Append(s, v)
           K == Kept(q, s, keep)
           K2 == Kept(q, t, keep2)
<1>1. /\ t \in Seq(Nat) /\ Len(s) \in Nat /\ Len(t) = Len(s) + 1 /\ t[Len(s) + 1] = v
      /\ \A i \in 1 .. Len(s) : t[i] = s[i]
  BY AppendProperties, LenProperties
<1>2. SoKept(K, q, s, keep) /\ Link!Sifted(q, s, keep) = K[Len(s)]
  BY KeptIs
<1>3. SoKept(K2, q, t, keep2) /\ Link!Sifted(q, t, keep2) = K2[Len(t)]
  <2> HIDE DEF t
  <2> QED BY <1>1, KeptIs
<1> HIDE DEF t, K, K2
<1> DEFINE N == {n \in Nat : n <= Len(s) => K2[n] = K[n]}
<1>4. 0 \in N
  BY <1>2, <1>3 DEF SoKept
<1>5. ASSUME NEW n \in N PROVE n + 1 \in N
  <2>1. SUFFICES ASSUME n + 1 <= Len(s) PROVE K2[n + 1] = K[n + 1]
    OBVIOUS
  <2>2. /\ n + 1 \in 1 .. Len(s) /\ n + 1 \in 1 .. Len(t) /\ (n + 1) - 1 = n
        /\ K2[n] = K[n]
    <3>1. n \in Nat /\ (n <= Len(s) => K2[n] = K[n])
      OBVIOUS
    <3>2. Len(s) \in Nat /\ Len(t) = Len(s) + 1
      BY <1>1
    <3>3. n <= Len(s)
      BY <2>1, <3>1, <3>2
    <3>4. K2[n] = K[n]
      BY <3>1, <3>3
    <3>5. n + 1 \in 1 .. Len(s) /\ n + 1 \in 1 .. Len(t) /\ (n + 1) - 1 = n
      <4> HIDE DEF N
      <4> QED BY <2>1, <3>1, <3>2
    <3> QED BY <3>4, <3>5
  <2>3. /\ K[n + 1] = IF n + 1 \in keep THEN Append(K[n], s[n + 1]) ELSE K[n]
        /\ K2[n + 1] = IF n + 1 \in keep2 THEN Append(K2[n], t[n + 1]) ELSE K2[n]
    BY <1>2, <1>3, <2>2 DEF SoKept
  <2> QED BY <1>1, <2>2, <2>3
<1>6. N = Nat
  <2>1. N \in SUBSET Nat
    OBVIOUS
  <2> HIDE DEF N
  <2> QED BY <1>4, <1>5, <2>1, NatInduct
<1>7. K2[Len(s)] = K[Len(s)]
  BY <1>1, <1>6
<1>8. Len(s) + 1 \in 1 .. Len(t) /\ (Len(s) + 1) - 1 = Len(s)
  BY <1>1
<1>9. K2[Len(s) + 1] = IF Len(s) + 1 \in keep2 THEN Append(K2[Len(s)], v) ELSE K2[Len(s)]
  BY <1>1, <1>3, <1>8 DEF SoKept
<1> QED BY <1>1, <1>2, <1>3, <1>7, <1>9 DEF t

LEMMA ConcatAppend ==
    ASSUME NEW a \in Seq(Nat), NEW b \in Seq(Nat), NEW v \in Nat
    PROVE  a \o Append(b, v) = Append(a \o b, v)
OBVIOUS

LEMMA CodesType ==
    ASSUME NEW s \in Seq(Nat)
    PROVE  Link!Codes(s) \in Seq(Nat)
BY SiftedType, EmptySeq DEF Link!Codes

LEMMA CodesEmpty == Link!Codes(<<>>) = <<>>
<1>1. <<>> \in Seq(Nat)
  BY EmptySeq
<1> QED BY <1>1, SiftedEmpty DEF Link!Codes

LEMMA CodesAppend ==
    ASSUME NEW s \in Seq(Nat), NEW v \in Nat
    PROVE  Link!Codes(Append(s, v)) = IF Link!Filler(v) THEN Link!Codes(s)
                                      ELSE Append(Link!Codes(s), v)
<1> DEFINE t == Append(s, v)
           A == {i \in DOMAIN s : ~Link!Filler(s[i])}
           B == {i \in DOMAIN t : ~Link!Filler(t[i])}
<1>1. /\ t \in Seq(Nat) /\ Len(s) \in Nat /\ DOMAIN s = 1 .. Len(s)
      /\ DOMAIN t = 1 .. (Len(s) + 1) /\ t[Len(s) + 1] = v
      /\ \A i \in 1 .. Len(s) : t[i] = s[i]
  BY AppendProperties, LenProperties
<1>2. \A i \in 1 .. Len(s) : i \in A <=> i \in B
  <2> HIDE DEF t
  <2> QED BY <1>1
<1>3. Len(s) + 1 \in B <=> ~Link!Filler(v)
  <2> HIDE DEF t
  <2> QED BY <1>1
<1>4. <<>> \in Seq(Nat)
  BY EmptySeq
<1>5. Link!Codes(s) = Link!Sifted(<<>>, s, A) /\ Link!Codes(t) = Link!Sifted(<<>>, t, B)
  BY DEF Link!Codes
<1> HIDE DEF A, B
<1>6. Link!Sifted(<<>>, t, B) = IF Len(s) + 1 \in B THEN Append(Link!Sifted(<<>>, s, A), v)
                                ELSE Link!Sifted(<<>>, s, A)
  <2> DEFINE q == <<>>
  <2>1. q \in Seq(Nat)
    BY <1>4
  <2> HIDE DEF q
  <2>2. Link!Sifted(q, Append(s, v), B) = IF Len(s) + 1 \in B THEN Append(Link!Sifted(q, s, A), v)
                                          ELSE Link!Sifted(q, s, A)
    BY <1>2, <2>1, SiftedAppend
  <2> QED BY <2>2 DEF q
<1> QED BY <1>3, <1>5, <1>6

LEMMA CodesOne ==
    ASSUME NEW v \in Nat
    PROVE  Link!Codes(<<v>>) = IF Link!Filler(v) THEN <<>> ELSE <<v>>
<1>1. <<v>> = Append(<<>>, v) /\ <<>> \in Seq(Nat)
  OBVIOUS
<1> QED BY <1>1, CodesAppend, CodesEmpty

LEMMA CodesConcat ==
    ASSUME NEW s \in Seq(Nat), NEW t \in Seq(Nat)
    PROVE  Link!Codes(s \o t) = Link!Codes(s) \o Link!Codes(t)
<1> DEFINE P == {u \in Seq(Nat) : Link!Codes(s \o u) = Link!Codes(s) \o Link!Codes(u)}
<1>0. Link!Codes(s) \in Seq(Nat)
  BY CodesType
<1>1. <<>> \in P
  <2>1. s \o <<>> = s /\ Link!Codes(s) \o <<>> = Link!Codes(s) /\ <<>> \in Seq(Nat)
    BY <1>0, ConcatEmptySeq
  <2> QED BY <2>1, CodesEmpty
<1>2. ASSUME NEW u \in P, NEW v \in Nat PROVE Append(u, v) \in P
  <2>1. Append(u, v) \in Seq(Nat) /\ s \o u \in Seq(Nat) /\ Link!Codes(u) \in Seq(Nat)
    BY AppendProperties, ConcatProperties, CodesType
  <2>2. s \o Append(u, v) = Append(s \o u, v)
    OBVIOUS
  <2>3. /\ Link!Codes(Append(s \o u, v)) = IF Link!Filler(v) THEN Link!Codes(s \o u)
                                           ELSE Append(Link!Codes(s \o u), v)
        /\ Link!Codes(Append(u, v)) = IF Link!Filler(v) THEN Link!Codes(u)
                                      ELSE Append(Link!Codes(u), v)
    BY <2>1, CodesAppend
  <2>4. Link!Codes(s) \o Append(Link!Codes(u), v) = Append(Link!Codes(s) \o Link!Codes(u), v)
    BY <1>0, <2>1, ConcatAppend
  <2> QED BY <2>1, <2>2, <2>3, <2>4
<1>3. P = Seq(Nat)
  <2>1. P \in SUBSET Seq(Nat)
    OBVIOUS
  <2> HIDE DEF P
  <2> QED BY <1>1, <1>2, <2>1, SeqInduct
<1> QED BY <1>3

\* What goes into the queue adds the codes of the bytes, if no code is passed over.
LEMMA SiftedCodes ==
    ASSUME NEW q \in Seq(Nat), NEW s \in Seq(Nat), NEW keep,
           \A i \in DOMAIN s : ~Link!Filler(s[i]) => i \in keep
    PROVE  Link!Codes(Link!Sifted(q, s, keep)) = Link!Codes(q) \o Link!Codes(s)
<1> DEFINE P == {u \in Seq(Nat) :
                   (\A i \in DOMAIN u : ~Link!Filler(u[i]) => i \in keep)
                   => Link!Codes(Link!Sifted(q, u, keep)) = Link!Codes(q) \o Link!Codes(u)}
<1>0. Link!Codes(q) \in Seq(Nat)
  BY CodesType
<1>1. <<>> \in P
  <2>1. Link!Codes(q) \o <<>> = Link!Codes(q) /\ <<>> \in Seq(Nat)
    BY <1>0, ConcatEmptySeq
  <2> QED BY <2>1, CodesEmpty, SiftedEmpty
<1>2. ASSUME NEW u \in P, NEW v \in Nat PROVE Append(u, v) \in P
  <2> DEFINE t == Append(u, v)
             U == Link!Sifted(q, u, keep)
  <2>1. /\ t \in Seq(Nat) /\ Len(u) \in Nat /\ DOMAIN u = 1 .. Len(u)
        /\ DOMAIN t = 1 .. (Len(u) + 1) /\ t[Len(u) + 1] = v
        /\ \A i \in 1 .. Len(u) : t[i] = u[i]
    BY AppendProperties, LenProperties
  <2>2. U \in Seq(Nat) /\ Link!Codes(u) \in Seq(Nat)
    BY SiftedType, CodesType
  <2>3. SUFFICES ASSUME \A i \in DOMAIN t : ~Link!Filler(t[i]) => i \in keep
                 PROVE  Link!Codes(Link!Sifted(q, t, keep)) = Link!Codes(q) \o Link!Codes(t)
    BY <2>1
  <2>4. Link!Codes(U) = Link!Codes(q) \o Link!Codes(u)
    <3>1. \A i \in DOMAIN u : ~Link!Filler(u[i]) => i \in keep
      <4> HIDE DEF t
      <4> QED BY <2>1, <2>3
    <3> QED BY <3>1
  <2>5. ~Link!Filler(v) => Len(u) + 1 \in keep
    <3> HIDE DEF t
    <3> QED BY <2>1, <2>3
  <2>6. Link!Sifted(q, t, keep) = IF Len(u) + 1 \in keep THEN Append(U, v) ELSE U
    BY SiftedAppend
  <2>7. /\ Link!Codes(Append(U, v)) = IF Link!Filler(v) THEN Link!Codes(U)
                                      ELSE Append(Link!Codes(U), v)
        /\ Link!Codes(t) = IF Link!Filler(v) THEN Link!Codes(u)
                           ELSE Append(Link!Codes(u), v)
    <3> HIDE DEF U
    <3> QED BY <2>2, CodesAppend
  <2>8. Link!Codes(q) \o Append(Link!Codes(u), v) = Append(Link!Codes(q) \o Link!Codes(u), v)
    <3> HIDE DEF t, U
    <3> QED BY <1>0, <2>2, ConcatAppend
  <2> HIDE DEF t, U
  <2> QED BY <2>4, <2>5, <2>6, <2>7, <2>8
<1>3. P = Seq(Nat)
  <2>1. P \in SUBSET Seq(Nat)
    OBVIOUS
  <2> HIDE DEF P
  <2> QED BY <1>1, <1>2, <2>1, SeqInduct
<1> QED BY <1>3

OpType == [k : {"idle", "read", "poll", "flush", "yes", "no"}, left : Nat, raw : Int]

LinkType ==
    /\ txq \in Seq(Nat) /\ lastchar \in Nat /\ depp \in Nat /\ rbuf \in Seq(Nat)
    /\ op \in OpType /\ pkt \in Seq(Nat) /\ onway \in Seq(Nat)

\* The codes behind the queue, from a transfer to the characters not yet sent.
Waiting == Link!Codes(pkt) \o (Link!Codes(<<depp>>) \o Link!Codes(txq))

LinkInv == LinkType /\ onway = Link!Codes(rbuf) \o Waiting /\ Link!PollHonest

LEMMA ConcatAssoc ==
    ASSUME NEW a \in Seq(Nat), NEW b \in Seq(Nat), NEW c \in Seq(Nat)
    PROVE  a \o b \in Seq(Nat) /\ (a \o b) \o c = a \o (b \o c)
OBVIOUS

\* Concatenation by name, for the provers to take it as it is.
Cat(a, b) == a \o b

LEMMA CatAssoc ==
    ASSUME NEW a \in Seq(Nat), NEW b \in Seq(Nat), NEW c \in Seq(Nat)
    PROVE  Cat(a, b) \in Seq(Nat) /\ Cat(Cat(a, b), c) = Cat(a, Cat(b, c))
BY DEF Cat

LEMMA Regroup ==
    ASSUME NEW a \in Seq(Nat), NEW b \in Seq(Nat), NEW c \in Seq(Nat), NEW d \in Seq(Nat),
           NEW e \in Seq(Nat)
    PROVE  Cat(Cat(a, Cat(b, Cat(c, d))), e) = Cat(a, Cat(b, Cat(c, Cat(d, e))))
BY CatAssoc

LEMMA DropFirst ==
    ASSUME NEW a \in Seq(Nat), NEW b \in Seq(Nat)
    PROVE  SubSeq(a \o b, Len(a) + 1, Len(a \o b)) = b
<1>1. /\ Len(a) \in Nat /\ Len(b) \in Nat /\ Len(a \o b) = Len(a) + Len(b)
  BY ConcatProperties, LenProperties
<1>2. Len(a) + 1 \in Len(a) + 1 .. Len(a) + Len(b) + 1 /\ Len(a \o b) \in Nat
  BY <1>1
<1>3. SubSeq(a \o b, Len(a) + 1, Len(a \o b))
        = SubSeq(b, (Len(a) + 1) - Len(a), Len(a \o b) - Len(a))
  BY <1>1, <1>2, SubSeqOfConcat2
<1>4. (Len(a) + 1) - Len(a) = 1 /\ Len(a \o b) - Len(a) = Len(b)
  BY <1>1
<1> QED BY <1>3, <1>4, SubSeqFull

\* Handing the first m bytes of a queue over takes their codes from what is on its way.
LEMMA Handed ==
    ASSUME NEW q \in Seq(Nat), NEW r \in Seq(Nat), NEW m \in Nat, m <= Len(q)
    PROVE  /\ SubSeq(q, 1, m) \in Seq(Nat) /\ SubSeq(q, m + 1, Len(q)) \in Seq(Nat)
           /\ LET w == Link!Codes(q) \o r
              IN  SubSeq(w, Len(Link!Codes(SubSeq(q, 1, m))) + 1, Len(w))
                    = Link!Codes(SubSeq(q, m + 1, Len(q))) \o r
<1> DEFINE a == SubSeq(q, 1, m)
           b == SubSeq(q, m + 1, Len(q))
<1>1. a \in Seq(Nat) /\ b \in Seq(Nat) /\ q = a \o b
  <2>1. Len(q) \in Nat
    BY LenProperties
  <2>2. a \in Seq(Nat)
    <3>1. \A i \in 1 .. m : q[i] \in Nat
      BY <2>1, ElementOfSeq
    <3> QED BY <3>1, SubSeqProperties
  <2>3. b \in Seq(Nat)
    <3>1. \A i \in m + 1 .. Len(q) : q[i] \in Nat
      BY <2>1, ElementOfSeq
    <3> QED BY <2>1, <3>1, SubSeqProperties
  <2>4. a \o b = SubSeq(q, 1, Len(q))
    <3>1. 1 \in 1 .. Len(q) + 1 /\ m \in 1 - 1 .. Len(q) /\ Len(q) \in m .. Len(q)
      BY <2>1
    <3> QED BY <3>1, ConcatAdjacentSubSeq
  <2> QED BY <2>2, <2>3, <2>4, SubSeqFull
<1> HIDE DEF a, b
<1>2. Link!Codes(q) = Link!Codes(a) \o Link!Codes(b)
  BY <1>1, CodesConcat
<1>3. Link!Codes(a) \in Seq(Nat) /\ Link!Codes(b) \in Seq(Nat)
  BY <1>1, CodesType
<1>4. Link!Codes(q) \o r = Link!Codes(a) \o (Link!Codes(b) \o r)
  BY <1>2, <1>3, ConcatAssoc
<1>5. Link!Codes(b) \o r \in Seq(Nat)
  BY <1>3, ConcatAssoc
<1>6. LET w == Link!Codes(q) \o r
      IN  SubSeq(w, Len(Link!Codes(a)) + 1, Len(w)) = Link!Codes(b) \o r
  <2> DEFINE x == Link!Codes(a)
             y == Link!Codes(b) \o r
  <2>1. x \in Seq(Nat) /\ y \in Seq(Nat) /\ Link!Codes(q) \o r = x \o y
    BY <1>3, <1>4, <1>5
  <2>2. SubSeq(x \o y, Len(x) + 1, Len(x \o y)) = y
    <3> HIDE DEF x, y
    <3> QED BY <2>1, DropFirst
  <2> QED BY <2>1, <2>2
<1> QED BY <1>1, <1>6 DEF a, b

LEMMA WaitingType ==
    ASSUME LinkType
    PROVE  Waiting \in Seq(Nat)
<1>1. /\ Link!Codes(pkt) \in Seq(Nat) /\ Link!Codes(<<depp>>) \in Seq(Nat)
      /\ Link!Codes(txq) \in Seq(Nat)
  <2>1. pkt \in Seq(Nat) /\ <<depp>> \in Seq(Nat) /\ txq \in Seq(Nat)
    BY DEF LinkType
  <2> QED BY <2>1, CodesType
<1> QED BY <1>1, ConcatAssoc DEF Waiting

\* The codes behind the transfer in progress.
Rest == Link!Codes(<<depp>>) \o Link!Codes(txq)

LEMMA LinkParts ==
    ASSUME LinkInv
    PROVE  /\ Link!Codes(rbuf) \in Seq(Nat) /\ Link!Codes(pkt) \in Seq(Nat)
           /\ Link!Codes(<<depp>>) \in Seq(Nat) /\ Link!Codes(txq) \in Seq(Nat)
           /\ Rest \in Seq(Nat) /\ Waiting \in Seq(Nat) /\ Waiting = Link!Codes(pkt) \o Rest
<1>1. rbuf \in Seq(Nat) /\ pkt \in Seq(Nat) /\ <<depp>> \in Seq(Nat) /\ txq \in Seq(Nat)
  BY DEF LinkInv, LinkType
<1>2. /\ Link!Codes(rbuf) \in Seq(Nat) /\ Link!Codes(pkt) \in Seq(Nat)
      /\ Link!Codes(<<depp>>) \in Seq(Nat) /\ Link!Codes(txq) \in Seq(Nat)
  BY <1>1, CodesType
<1> QED BY <1>2, WaitingType, ConcatAssoc DEF LinkInv, Waiting, Rest

LEMMA LinkInit ==
    ASSUME Link!Init PROVE LinkInv
<1>1. /\ txq = <<>> /\ lastchar = 0 /\ depp = 255 /\ pkt = <<>> /\ rbuf = <<>> /\ onway = <<>>
      /\ op = [k |-> "flush", left |-> 0, raw |-> 0]
  BY DEF Link!Init
<1>2. LinkType
  BY <1>1 DEF LinkType, OpType
<1>3. Link!Codes(<<depp>>) = <<>>
  BY <1>1, CodesOne DEF Link!Filler
<1>4. Link!Codes(rbuf) = <<>> /\ Link!Codes(pkt) = <<>> /\ Link!Codes(txq) = <<>>
  BY <1>1, CodesEmpty
<1> QED BY <1>1, <1>2, <1>3, <1>4 DEF LinkInv, Waiting, Link!PollHonest

\* The board has one more character to send.
LEMMA LinkSend ==
    ASSUME LinkInv, NEW c \in Chars, Link!Send(c)
    PROVE  LinkInv'
<1>1. /\ txq' = Append(txq, c) /\ onway' = onway \o Link!Codes(<<c>>)
      /\ lastchar' = lastchar /\ depp' = depp /\ rbuf' = rbuf /\ op' = op /\ pkt' = pkt
  BY DEF Link!Send
<1>2. c \in Nat /\ <<c>> \in Seq(Nat) /\ txq \in Seq(Nat) /\ onway \in Seq(Nat)
  BY LinkAssumption DEF LinkInv, LinkType
<1>3. Append(txq, c) = txq \o <<c>> /\ Link!Codes(<<c>>) \in Seq(Nat)
  BY <1>2, AppendIsConcat, CodesType
<1>4. Link!Codes(txq') = Link!Codes(txq) \o Link!Codes(<<c>>)
  BY <1>1, <1>2, <1>3, CodesConcat
<1>5. LinkType'
  <2>1. txq' \in Seq(Nat) /\ onway' \in Seq(Nat)
    BY <1>1, <1>2, <1>3, AppendProperties, ConcatProperties
  <2> QED BY <1>1, <2>1 DEF LinkInv, LinkType
<1>6. onway' = Link!Codes(rbuf) \o (Link!Codes(pkt) \o (Link!Codes(<<depp>>) \o Link!Codes(txq')))
  <2> DEFINE a == Link!Codes(rbuf)
             b == Link!Codes(pkt)
             d == Link!Codes(<<depp>>)
             e == Link!Codes(txq)
             x == Link!Codes(<<c>>)
  <2>1. a \in Seq(Nat) /\ b \in Seq(Nat) /\ d \in Seq(Nat) /\ e \in Seq(Nat) /\ x \in Seq(Nat)
    BY <1>3, LinkParts
  <2>2. onway = a \o (b \o (d \o e))
    BY DEF LinkInv, Waiting
  <2> HIDE DEF a, b, d, e, x
  <2>3. (a \o (b \o (d \o e))) \o x = a \o (b \o (d \o (e \o x)))
    <3>1. Cat(Cat(a, Cat(b, Cat(d, e))), x) = Cat(a, Cat(b, Cat(d, Cat(e, x))))
      BY <2>1, Regroup
    <3> QED BY <3>1 DEF Cat
  <2> QED BY <1>1, <1>4, <2>2, <2>3 DEF a, b, d, e, x
<1>7. Link!PollHonest'
  BY <1>1 DEF LinkInv, Link!PollHonest
<1> QED BY <1>1, <1>5, <1>6, <1>7 DEF LinkInv, Waiting

\* One byte of a transfer: what was in the register is in the transfer, and the
\* register holds a character of the queue, or filling.
LEMMA LinkTransfer ==
    ASSUME LinkInv, Link!Transfer
    PROVE  LinkInv'
<1>1. /\ op.raw > 0 /\ op' = [op EXCEPT !.raw = @ - 1] /\ pkt' = Append(pkt, depp)
      /\ rbuf' = rbuf /\ onway' = onway
  BY DEF Link!Transfer
<1>2. /\ pkt \in Seq(Nat) /\ depp \in Nat /\ txq \in Seq(Nat) /\ <<depp>> \in Seq(Nat)
      /\ lastchar \in Nat
  BY DEF LinkInv, LinkType
<1>3. Link!Codes(pkt') = Link!Codes(pkt) \o Link!Codes(<<depp>>)
  <2>1. Append(pkt, depp) = pkt \o <<depp>>
    BY <1>2, AppendIsConcat
  <2>2. Link!Codes(pkt \o <<depp>>) = Link!Codes(pkt) \o Link!Codes(<<depp>>)
    BY <1>2, CodesConcat
  <2> QED BY <1>1, <2>1, <2>2
<1>4. /\ txq' \in Seq(Nat) /\ depp' \in Nat /\ lastchar' \in Nat
      /\ Rest' = Link!Codes(txq)
  <2>1. CASE txq = <<>>
    <3>1. depp' = 128 + lastchar /\ txq' = txq /\ lastchar' = lastchar
      BY <2>1 DEF Link!Transfer, Link!Stuff
    <3>2. Link!Codes(<<depp'>>) = <<>>
      BY <1>2, <3>1, CodesOne DEF Link!Filler
    <3>3. Link!Codes(txq) = <<>> /\ Link!Codes(txq') = <<>>
      BY <2>1, <3>1, CodesEmpty
    <3> QED BY <1>2, <3>1, <3>2, <3>3 DEF Rest
  <2>2. CASE txq # <<>>
    <3>1. depp' = Head(txq) /\ lastchar' = Head(txq) /\ txq' = Tail(txq)
      BY <2>2 DEF Link!Transfer
    <3>2. /\ Head(txq) \in Nat /\ Tail(txq) \in Seq(Nat) /\ <<Head(txq)>> \in Seq(Nat)
          /\ txq = <<Head(txq)>> \o Tail(txq)
      BY <1>2, <2>2
    <3>3. Link!Codes(txq) = Link!Codes(<<Head(txq)>>) \o Link!Codes(Tail(txq))
      BY <3>2, CodesConcat
    <3> QED BY <3>1, <3>2, <3>3 DEF Rest
  <2> QED BY <2>1, <2>2
<1>5. LinkType'
  <2>1. op \in OpType /\ op' \in OpType
    <3>1. op \in OpType
      BY DEF LinkInv, LinkType
    <3>2. op.raw - 1 \in Int
      BY <3>1 DEF OpType
    <3>3. PICK r \in Int : op' = [op EXCEPT !.raw = r]
      BY <1>1, <3>2
    <3> QED BY <3>1, <3>3 DEF OpType
  <2>2. pkt' \in Seq(Nat)
    BY <1>1, <1>2, AppendProperties
  <2> QED BY <1>1, <1>4, <2>1, <2>2 DEF LinkInv, LinkType
<1>6. Waiting' = Waiting
  <2>1. Waiting' = Link!Codes(pkt') \o Rest'
    BY DEF Waiting, Rest
  <2>2. Waiting = Link!Codes(pkt) \o (Link!Codes(<<depp>>) \o Link!Codes(txq))
    BY DEF Waiting
  <2> DEFINE b == Link!Codes(pkt)
             d == Link!Codes(<<depp>>)
             e == Link!Codes(txq)
  <2>3. b \in Seq(Nat) /\ d \in Seq(Nat) /\ e \in Seq(Nat)
    BY LinkParts
  <2>4. Waiting' = (b \o d) \o e /\ Waiting = b \o (d \o e)
    BY <1>3, <1>4, <2>1, <2>2
  <2> HIDE DEF b, d, e
  <2> QED BY <2>3, <2>4, ConcatAssoc, ZenonT(60)
<1>7. Link!PollHonest'
  BY <1>1 DEF LinkInv, LinkType, OpType, Link!PollHonest
<1> QED BY <1>1, <1>5, <1>6, <1>7 DEF LinkInv

\* The caller takes the first m bytes of q.
LEMMA QueueTaken ==
    ASSUME NEW q \in Seq(Nat), NEW r \in Seq(Nat), NEW m \in Nat, m <= Len(q),
           onway = Link!Codes(q) \o r, rbuf' = SubSeq(q, m + 1, Len(q)),
           onway' = SubSeq(onway, Len(Link!Codes(SubSeq(q, 1, m))) + 1, Len(onway))
    PROVE  /\ rbuf' \in Seq(Nat) /\ onway' \in Seq(Nat)
           /\ onway' = Link!Codes(rbuf') \o r
<1>1. rbuf' \in Seq(Nat) /\ onway' = Link!Codes(rbuf') \o r
  BY Handed
<1>2. Link!Codes(rbuf') \in Seq(Nat)
  BY <1>1, CodesType
<1> QED BY <1>1, <1>2, ConcatProperties, ZenonT(60)

LEMMA Least2Type ==
    ASSUME NEW a \in Int, NEW b \in Int
    PROVE  /\ Link!Least2(a, b) \in Int /\ Link!Least2(a, b) <= a /\ Link!Least2(a, b) <= b
           /\ Link!Least2(a, b) \in {a, b}
BY DEF Link!Least2

\* push_fifo() passes no code over.
LEMMA PushedCodes ==
    ASSUME LinkInv
    PROVE  /\ Link!Pushed(pkt) \in Seq(Nat)
           /\ Link!Codes(Link!Pushed(pkt)) = Link!Codes(rbuf) \o Link!Codes(pkt)
           /\ onway = Link!Codes(Link!Pushed(pkt)) \o Rest
<1> DEFINE keep == {i \in DOMAIN pkt : /\ pkt[i] # 255
                                       /\ Link!Filler(pkt[i]) => pkt[i] # Link!Before(pkt, i)}
<1>1. rbuf \in Seq(Nat) /\ pkt \in Seq(Nat)
  BY DEF LinkInv, LinkType
<1>2. \A i \in DOMAIN pkt : ~Link!Filler(pkt[i]) => i \in keep
  BY <1>1 DEF Link!Filler
<1>3. Link!Pushed(pkt) = Link!Sifted(rbuf, pkt, keep)
  BY DEF Link!Pushed
<1> HIDE DEF keep
<1>4. /\ Link!Pushed(pkt) \in Seq(Nat)
      /\ Link!Codes(Link!Pushed(pkt)) = Link!Codes(rbuf) \o Link!Codes(pkt)
  BY <1>1, <1>2, <1>3, SiftedType, SiftedCodes
<1>5. onway = Link!Codes(rbuf) \o (Link!Codes(pkt) \o Rest)
  BY DEF LinkInv, Waiting, Rest
<1>6. (Link!Codes(rbuf) \o Link!Codes(pkt)) \o Rest = Link!Codes(rbuf) \o (Link!Codes(pkt) \o Rest)
  <2> DEFINE a == Link!Codes(rbuf)
             b == Link!Codes(pkt)
  <2>1. a \in Seq(Nat) /\ b \in Seq(Nat) /\ Rest \in Seq(Nat)
    BY LinkParts
  <2> HIDE DEF a, b
  <2>2. Cat(Cat(a, b), Rest) = Cat(a, Cat(b, Rest))
    BY <2>1, CatAssoc
  <2> QED BY <2>2 DEF Cat, a, b
<1> QED BY <1>4, <1>5, <1>6

\* When there is nothing to show, there is no code.
LEMMA NothingHonest ==
    ASSUME NEW q \in Seq(Nat), Link!Nothing(q)
    PROVE  Link!Codes(q) = <<>>
<1>1. CASE q = <<>>
  BY <1>1, CodesEmpty
<1>2. CASE Len(q) = 1 /\ Link!Filler(q[1])
  <2>1. q[1] \in Nat /\ DOMAIN q = 1 .. 1
    BY <1>2, ElementOfSeq, LenProperties
  <2>2. q = <<q[1]>>
    BY <1>2, <2>1
  <2> QED BY <1>2, <2>1, <2>2, CodesOne
<1> QED BY <1>1, <1>2 DEF Link!Nothing

\* A transfer is complete.
LEMMA LinkComplete ==
    ASSUME LinkInv, Link!Complete
    PROVE  LinkInv'
<1> DEFINE q == Link!Pushed(pkt)
<1>1. /\ q \in Seq(Nat) /\ Rest \in Seq(Nat) /\ onway = Link!Codes(q) \o Rest
  BY PushedCodes, LinkParts
<1>2. /\ pkt' = <<>> /\ txq' = txq /\ lastchar' = lastchar /\ depp' = depp /\ op.raw = 0
  BY DEF Link!Complete
<1>3. op \in OpType /\ Len(q) \in Nat
  BY <1>1, LenProperties DEF LinkInv, LinkType
<1>4. Waiting' = Rest
  <2>1. Waiting' = Link!Codes(<<>>) \o Rest
    BY <1>2 DEF Waiting, Rest
  <2> QED BY <1>1, <2>1, CodesEmpty, ConcatEmptySeq
<1>5. pkt' \in Seq(Nat) /\ txq' \in Seq(Nat) /\ lastchar' \in Nat /\ depp' \in Nat
  BY <1>2, EmptySeq DEF LinkInv, LinkType
<1>6. CASE op.k = "read" /\ Link!Pop(q, op.left)
  <2> DEFINE m == Link!Least2(Len(q), op.left)
  <2>1. m \in Nat /\ m <= Len(q) /\ m <= op.left /\ op.left - m \in Nat
    <3>1. op.left \in Nat
      BY <1>3 DEF OpType
    <3> QED BY <1>3, <3>1 DEF Link!Least2
  <2>2. /\ rbuf' = SubSeq(q, m + 1, Len(q))
        /\ onway' = SubSeq(onway, Len(Link!Codes(SubSeq(q, 1, m))) + 1, Len(onway))
        /\ op' = [op EXCEPT !.left = @ - m, !.k = IF m = 0 \/ m = op.left THEN "idle" ELSE @]
    BY <1>6 DEF Link!Pop
  <2> HIDE DEF q, m
  <2>3. rbuf' \in Seq(Nat) /\ onway' \in Seq(Nat) /\ onway' = Link!Codes(rbuf') \o Rest
    BY <1>1, <2>1, <2>2, QueueTaken
  <2>4. op' \in OpType /\ op'.k # "no"
    <3>1. PICK n \in Nat, k \in {"idle", "read"} : op' = [op EXCEPT !.left = n, !.k = k]
      BY <1>6, <2>1, <2>2
    <3> QED BY <1>3, <3>1 DEF OpType
  <2> QED BY <1>4, <1>5, <2>3, <2>4 DEF LinkInv, LinkType, Link!PollHonest
<1>7. CASE /\ op.k \in {"poll", "flush"} /\ onway' = onway /\ rbuf' = q
           /\ \E n \in Nat, r \in Int : op' = [op EXCEPT !.left = n, !.raw = r]
  <2> HIDE DEF q
  <2>1. op' \in OpType /\ op'.k # "no"
    BY <1>3, <1>7 DEF OpType
  <2>2. rbuf' \in Seq(Nat) /\ onway' \in Seq(Nat) /\ onway' = Link!Codes(rbuf') \o Rest
    BY <1>1, <1>7 DEF LinkInv, LinkType
  <2> QED BY <1>4, <1>5, <2>1, <2>2 DEF LinkInv, LinkType, Link!PollHonest
<1>8. CASE op.k \in {"poll", "flush"} /\ onway' = onway /\ Link!Polled(q, ~Link!Nothing(q))
  <2>1. /\ rbuf' = q /\ op' \in OpType
        /\ op'.k = "no" => Link!Nothing(q)
    <3>1. PICK k \in {"flush", "yes", "no"} :
            op' = [op EXCEPT !.k = k, !.left = 0] /\ (k = "no" => Link!Nothing(q))
      <4>1. CASE Link!Nothing(q)
        BY <1>8, <4>1 DEF Link!Polled
      <4>2. CASE ~Link!Nothing(q)
        BY <1>8, <4>2 DEF Link!Polled
      <4> QED BY <4>1, <4>2
    <3>2. rbuf' = q
      BY <1>8 DEF Link!Polled
    <3> HIDE DEF q
    <3>3. op' \in OpType /\ op'.k = k
      BY <1>3, <3>1 DEF OpType
    <3> QED BY <3>1, <3>2, <3>3
  <2> HIDE DEF q
  <2>2. rbuf' \in Seq(Nat) /\ onway' \in Seq(Nat) /\ onway' = Link!Codes(rbuf') \o Rest
    BY <1>1, <1>8, <2>1 DEF LinkInv, LinkType
  <2>3. op'.k = "no" => Link!Codes(rbuf') = <<>>
    BY <1>1, <2>1, NothingHonest
  <2> QED BY <1>4, <1>5, <2>1, <2>2, <2>3 DEF LinkInv, LinkType, Link!PollHonest
<1>9. CASE /\ op.k \in {"poll", "flush"} /\ onway' = onway /\ rbuf' = q
           /\ op' = [op EXCEPT !.left = Len(q),
                 !.raw = Link!Least2(More, Link!Least2(RcvBufMask - Len(q), PktLen))]
  <2>1. Link!Least2(More, Link!Least2(RcvBufMask - Len(q), PktLen)) \in Int
    <3> HIDE DEF q
    <3>1. More \in Int /\ PktLen \in Int /\ RcvBufMask - Len(q) \in Int
      BY <1>3, LinkAssumption
    <3> QED BY <3>1, Least2Type
  <2>2. \E n \in Nat, r \in Int : op' = [op EXCEPT !.left = n, !.raw = r]
    <3> HIDE DEF q
    <3> QED BY <1>3, <1>9, <2>1
  <2> QED BY <1>7, <1>9, <2>2
<1> QED BY <1>6, <1>8, <1>9 DEF Link!Complete

\* The calls.
LEMMA LinkRead ==
    ASSUME LinkInv, NEW n \in Lens, Link!Read(n)
    PROVE  LinkInv'
<1> DEFINE m == Link!Least2(Len(rbuf), n)
<1>1. /\ rbuf \in Seq(Nat) /\ Len(rbuf) \in Nat /\ n \in Nat /\ Waiting \in Seq(Nat)
      /\ onway = Link!Codes(rbuf) \o Waiting
  BY LinkAssumption, LenProperties, LinkParts DEF LinkInv, LinkType
<1>2. m \in Nat /\ m <= Len(rbuf) /\ m <= n
  BY <1>1 DEF Link!Least2
<1>3. /\ rbuf' = SubSeq(rbuf, m + 1, Len(rbuf))
      /\ onway' = SubSeq(onway, Len(Link!Codes(SubSeq(rbuf, 1, m))) + 1, Len(onway))
      /\ op' = IF m = n THEN Link!Idle
               ELSE [k |-> "read", left |-> n - m,
                     raw |-> Link!Least2(n - m, Link!Least2(RcvBufMask - Len(rbuf) + m, PktLen))]
      /\ txq' = txq /\ lastchar' = lastchar /\ depp' = depp /\ pkt' = pkt
  BY DEF Link!Read
<1> HIDE DEF m
<1>4. rbuf' \in Seq(Nat) /\ onway' \in Seq(Nat) /\ onway' = Link!Codes(rbuf') \o Waiting
  BY <1>1, <1>2, <1>3, QueueTaken
<1>5. op' \in OpType /\ op'.k # "no"
  <2>1. Link!Least2(n - m, Link!Least2(RcvBufMask - Len(rbuf) + m, PktLen)) \in Int
    <3>1. n - m \in Int /\ RcvBufMask - Len(rbuf) + m \in Int /\ PktLen \in Int
      BY <1>1, <1>2, LinkAssumption
    <3> QED BY <3>1, Least2Type
  <2>2. n - m \in Nat
    BY <1>1, <1>2
  <2> QED BY <1>3, <2>1, <2>2 DEF OpType, Link!Idle
<1>6. Waiting' = Waiting
  BY <1>3 DEF Waiting
<1> QED BY <1>3, <1>4, <1>5, <1>6 DEF LinkInv, LinkType, Link!PollHonest

LEMMA LinkAsk ==
    ASSUME LinkInv, Link!ReadMore \/ Link!Poll
    PROVE  LinkInv'
<1>1. /\ txq' = txq /\ lastchar' = lastchar /\ depp' = depp /\ rbuf' = rbuf /\ pkt' = pkt
      /\ onway' = onway
  BY DEF Link!ReadMore, Link!Poll
<1>2. op \in OpType /\ op.left \in Nat /\ Len(rbuf) \in Nat
  BY LenProperties DEF LinkInv, LinkType, OpType
<1>3. op' \in OpType /\ op'.k # "no"
  <2>1. Link!Least2(op.left, Link!Least2(Link!Free, PktLen)) \in Int
    BY <1>2, LinkAssumption DEF Link!Least2, Link!Free
  <2>2. Link!Least2(First, Link!Least2(Link!Free, PktLen)) \in Int
    BY <1>2, LinkAssumption DEF Link!Least2, Link!Free
  <2>3. CASE Link!ReadMore
    <3>1. op.k = "read" /\ (Link!RawRead(op.left) \/ op' = Link!Idle)
      BY <2>3 DEF Link!ReadMore
    <3>2. CASE Link!RawRead(op.left)
      <4>1. PICK r \in Int : op' = [op EXCEPT !.raw = r]
        BY <2>1, <3>2 DEF Link!RawRead
      <4> QED BY <1>2, <3>1, <4>1 DEF OpType
    <3> QED BY <3>1, <3>2 DEF OpType, Link!Idle
  <2>4. CASE Link!Poll
    <3>1. CASE Link!Nothing(rbuf)
      BY <2>2, <2>4, <3>1 DEF OpType, Link!Poll
    <3>2. CASE ~Link!Nothing(rbuf)
      BY <2>4, <3>2 DEF OpType, Link!Poll, Link!Idle
    <3> QED BY <3>1, <3>2
  <2> QED BY <2>3, <2>4
<1>4. Waiting' = Waiting
  BY <1>1 DEF Waiting
<1> QED BY <1>1, <1>3, <1>4 DEF LinkInv, LinkType, Link!PollHonest

LEMMA LinkFlush ==
    ASSUME LinkInv, Link!Flush
    PROVE  LinkInv'
<1>1. /\ op.k = "flush" /\ rbuf' = <<>>
      /\ onway' = SubSeq(onway, Len(Link!Codes(rbuf)) + 1, Len(onway))
      /\ op' = [op EXCEPT !.left = 0,
                          !.raw = Link!Least2(First, Link!Least2(RcvBufMask, PktLen))]
      /\ txq' = txq /\ lastchar' = lastchar /\ depp' = depp /\ pkt' = pkt
  BY DEF Link!Flush
<1>2. Link!Codes(rbuf) \in Seq(Nat) /\ Waiting \in Seq(Nat)
  BY LinkParts
<1>3. onway = Link!Codes(rbuf) \o Waiting
  BY DEF LinkInv
<1>4. onway' = Waiting
  BY <1>1, <1>2, <1>3, DropFirst
<1>5. op' \in OpType /\ op'.k = "flush"
  <2>1. Link!Least2(First, Link!Least2(RcvBufMask, PktLen)) \in Int
    BY LinkAssumption DEF Link!Least2
  <2>2. PICK r \in Int : op' = [op EXCEPT !.left = 0, !.raw = r]
    BY <1>1, <2>1
  <2>3. op \in OpType /\ op.k = "flush"
    BY <1>1 DEF LinkInv, LinkType
  <2> QED BY <2>2, <2>3 DEF OpType
<1>6. Waiting' = Waiting /\ Link!Codes(rbuf') = <<>>
  BY <1>1, CodesEmpty DEF Waiting
<1>7. onway' = Link!Codes(rbuf') \o Waiting' /\ onway' \in Seq(Nat)
  BY <1>2, <1>4, <1>6, ConcatEmptySeq
<1>8. LinkType'
  BY <1>1, <1>5, <1>7, EmptySeq DEF LinkInv, LinkType
<1> QED BY <1>5, <1>6, <1>7, <1>8 DEF LinkInv, Link!PollHonest

LEMMA LinkStep ==
    ASSUME LinkInv, Link!Next
    PROVE  LinkInv'
BY LinkSend, LinkTransfer, LinkComplete, LinkRead, LinkAsk, LinkFlush DEF Link!Next

\* What holds then: no code is lost, repeated or overtaken, and poll() is honest.
LEMMA LinkIsTrue ==
    ASSUME LinkInv
    PROVE  Link!CodesIntact /\ Link!PollHonest
<1>1. rbuf \in Seq(Nat) /\ pkt \in Seq(Nat) /\ <<depp>> \in Seq(Nat) /\ txq \in Seq(Nat)
  BY DEF LinkInv, LinkType
<1>2. rbuf \o pkt \in Seq(Nat) /\ (rbuf \o pkt) \o <<depp>> \in Seq(Nat)
  BY <1>1, ConcatProperties
<1> DEFINE a == Link!Codes(rbuf)
           b == Link!Codes(pkt)
           d == Link!Codes(<<depp>>)
           e == Link!Codes(txq)
<1>3. a \in Seq(Nat) /\ b \in Seq(Nat) /\ d \in Seq(Nat) /\ e \in Seq(Nat)
  BY LinkParts
<1>4. Link!Codes(rbuf \o pkt \o <<depp>> \o txq) = ((a \o b) \o d) \o e
  <2>1. Link!Codes(rbuf \o pkt) = a \o b
    BY <1>1, CodesConcat
  <2>2. Link!Codes((rbuf \o pkt) \o <<depp>>) = (a \o b) \o d
    BY <1>1, <1>2, <2>1, CodesConcat, ZenonT(60)
  <2> QED BY <1>1, <1>2, <2>2, CodesConcat
<1>5. onway = a \o (b \o (d \o e))
  BY DEF LinkInv, Waiting
<1>6. ((a \o b) \o d) \o e = a \o (b \o (d \o e))
  <2> HIDE DEF a, b, d, e
  <2>1. Cat(Cat(Cat(a, b), d), e) = Cat(a, Cat(b, Cat(d, e)))
    BY <1>3, CatAssoc
  <2> QED BY <2>1 DEF Cat
<1> QED BY <1>4, <1>5, <1>6 DEF Link!CodesIntact, LinkInv

-----------------------------------------------------------------------------
(***************************************************************************)
(* The simple way onto the bus (DeppBus).  What a read returns is right    *)
(* because, while every access so far was over when its status was read,   *)
(* at most one access is under way, and it is the one the host waits for.  *)
(***************************************************************************)
SWord == Vals \X Vals

RegType == [addr : Addrs, data : SWord, cyc : BOOLEAN, stb : BOOLEAN, we : BOOLEAN,
            rdata : SWord, int : BOOLEAN, err : BOOLEAN]
AccessType == [a : Addrs, w : BOOLEAN]
PortType == [pc : {"idle", "command", "status", "high", "low", "done"}, a : Addrs,
             w : BOOLEAN, v : SWord, int : BOOLEAN, err : BOOLEAN]
SeenType == [n : Nat, late : BOOLEAN, faulted : BOOLEAN, raised : BOOLEAN, irqs : Nat]

SimpleType ==
    /\ reg \in RegType /\ slaves \in Seq(AccessType) /\ store \in [Addrs -> SWord]
    /\ port \in PortType /\ seen \in SeenType

Taken == [a |-> port.a, w |-> port.w]

\* The access the host waits for, in the strobe's clock, before and after the answer.
OnItsWay == reg.stb /\ reg.cyc /\ slaves = <<>> /\ ~seen.faulted
Unanswered == ~reg.stb /\ reg.cyc /\ (slaves = <<>> \/ slaves = <<Taken>>)
Answered == /\ ~reg.stb /\ ~reg.cyc /\ slaves = <<>>
            /\ seen.faulted \/ port.w \/ reg.rdata = store[port.a]

SimpleBus ==
    /\ reg.stb => port.pc = "status"
    /\ port.pc = "command" => reg.addr = port.a
    /\ ~seen.late =>
         IF port.pc = "status"
         THEN /\ reg.addr = port.a /\ reg.we = port.w
              /\ OnItsWay \/ Unanswered \/ Answered
         ELSE ~reg.stb /\ ~reg.cyc /\ slaves = <<>>

SimpleHost ==
    /\ port.pc = "command" => ~seen.faulted
    /\ port.pc = "status" /\ seen.faulted => reg.err
    /\ port.pc \in {"high", "low", "done"} => ~seen.faulted /\ ~port.err
    /\ ~seen.late =>
         /\ port.pc \in {"high", "low", "done"} => reg.rdata = store[port.a]
         /\ port.pc \in {"low", "done"} => port.v[1] = reg.rdata[1]
         /\ port.pc = "done" => port.v = reg.rdata
    /\ seen.raised => reg.int \/ port.int

SimpleInv == SimpleType /\ SimpleBus /\ SimpleHost


USE DEF RegType, AccessType, PortType, SeenType

\* The words of a read, and the blank one.
LEMMA SimpleWords ==
    /\ Simple!Blank \in SWord /\ Simple!NoAddr \in Addrs
    /\ \A v \in SWord, w \in SWord : <<v[1], w[2]>> \in SWord
    /\ \A v \in SWord : v = <<v[1], v[2]>>
BY BoardAssumption DEF SWord, Simple!Blank, Simple!NoAddr

LEMMA SimpleInit ==
    ASSUME Simple!Init
    PROVE  SimpleInv
BY SimpleWords DEF Simple!Init, SimpleInv, SimpleType, SimpleBus, SimpleHost

\* Steps of the host's calls.
LEMMA SimpleStart ==
    ASSUME SimpleInv, NEW a \in Addrs, NEW w \in BOOLEAN, NEW v \in SWord,
           Simple!Start(a, w, v)
    PROVE  SimpleInv'
<1>1. SimpleType'
  <2>1. reg' \in RegType /\ port' \in PortType
    BY DEF SimpleInv, SimpleType, Simple!Start
  <2>2. PICK n \in Nat : n = seen.n + 1
    BY DEF SimpleInv, SimpleType
  <2>3. seen' = [seen EXCEPT !.n = n, !.faulted = FALSE]
    BY <2>2 DEF Simple!Start
  <2>4. seen' \in SeenType
    BY <2>3 DEF SimpleInv, SimpleType
  <2>5. UNCHANGED <<slaves, store>>
    BY DEF Simple!Start
  <2> QED BY <2>1, <2>4, <2>5 DEF SimpleInv, SimpleType
<1>2. SimpleBus'
  BY DEF SimpleInv, SimpleType, SimpleBus, Simple!Start
<1>3. SimpleHost'
  BY DEF SimpleInv, SimpleType, SimpleHost, Simple!Start
<1> QED BY <1>1, <1>2, <1>3 DEF SimpleInv

LEMMA SimpleCommand ==
    ASSUME SimpleInv, Simple!Command
    PROVE  SimpleInv'
<1>1. SimpleType'
  BY DEF SimpleInv, SimpleType, Simple!Command
<1>2. SimpleBus'
  BY DEF SimpleInv, SimpleType, SimpleBus, SimpleHost, OnItsWay, Simple!Command
<1>3. SimpleHost'
  BY DEF SimpleInv, SimpleType, SimpleHost, Simple!Command
<1> QED BY <1>1, <1>2, <1>3 DEF SimpleInv

\* What becomes of a strobe.
LEMMA SimpleStrobe ==
    ASSUME SimpleInv, Simple!Strobe
    PROVE  SimpleInv'
<1> DEFINE access == [a |-> reg.addr, w |-> reg.we]
<1>1. /\ reg \in RegType /\ slaves \in Seq(AccessType) /\ store \in [Addrs -> SWord]
      /\ port \in PortType /\ seen \in SeenType
  BY DEF SimpleInv, SimpleType
<1>2. reg.stb /\ port.pc = "status" /\ port' = port
  BY DEF SimpleInv, SimpleBus, Simple!Strobe
<1>3. ~seen.late => /\ reg.addr = port.a /\ reg.we = port.w
                    /\ slaves = <<>> /\ reg.cyc /\ access = Taken
  BY <1>2 DEF SimpleInv, SimpleBus, OnItsWay, Unanswered, Answered, Taken
<1>4. access \in AccessType
  BY <1>1
<1>5. CASE /\ reg' = [reg EXCEPT !.stb = FALSE, !.err = TRUE, !.cyc = FALSE]
           /\ seen' = [seen EXCEPT !.faulted = TRUE] /\ UNCHANGED <<slaves, store>>
  <2>1. SimpleType'
    BY <1>1, <1>2, <1>5 DEF SimpleType
  <2>2. SimpleBus'
    BY <1>1, <1>2, <1>3, <1>5 DEF SimpleBus, Answered
  <2>3. SimpleHost'
    BY <1>1, <1>2, <1>5 DEF SimpleInv, SimpleHost
  <2> QED BY <2>1, <2>2, <2>3 DEF SimpleInv
<1>6. CASE /\ reg' = [reg EXCEPT !.stb = FALSE] /\ slaves' = Append(slaves, access)
           /\ store' = IF reg.we THEN [store EXCEPT ![reg.addr] = reg.data] ELSE store
           /\ seen' = seen
  <2>1. SimpleType'
    <3>1. slaves' \in Seq(AccessType)
      BY <1>1, <1>4, <1>6
    <3>2. reg' \in RegType /\ store' \in [Addrs -> SWord]
      BY <1>1, <1>6
    <3> QED BY <1>1, <1>2, <1>6, <3>1, <3>2 DEF SimpleType
  <2>2. SimpleBus'
    <3>1. ~seen.late => slaves' = <<Taken>>
      BY <1>1, <1>3, <1>6
    <3>2. Taken' = Taken
      BY <1>2 DEF Taken
    <3> QED BY <1>1, <1>2, <1>3, <1>6, <3>1, <3>2 DEF SimpleBus, Unanswered
  <2>3. SimpleHost'
    BY <1>1, <1>2, <1>6 DEF SimpleInv, SimpleHost
  <2> QED BY <2>1, <2>2, <2>3 DEF SimpleInv
<1>7. CASE reg' = [reg EXCEPT !.stb = FALSE] /\ UNCHANGED <<slaves, store, seen>>
  <2>1. SimpleType'
    BY <1>1, <1>2, <1>7 DEF SimpleType
  <2>2. SimpleBus'
    BY <1>1, <1>2, <1>3, <1>7 DEF SimpleBus, Unanswered
  <2>3. SimpleHost'
    BY <1>1, <1>2, <1>7 DEF SimpleInv, SimpleHost
  <2> QED BY <2>1, <2>2, <2>3 DEF SimpleInv
<1> QED BY <1>5, <1>6, <1>7 DEF Simple!Strobe

\* A device answers.
LEMMA SimpleAck ==
    ASSUME SimpleInv, Simple!Ack
    PROVE  SimpleInv'
<1>1. /\ reg \in RegType /\ slaves \in Seq(AccessType) /\ store \in [Addrs -> SWord]
      /\ port \in PortType /\ seen \in SeenType
  BY DEF SimpleInv, SimpleType
<1>2. slaves # <<>> /\ ~reg.stb /\ slaves' = Tail(slaves) /\ UNCHANGED <<store, port, seen>>
  BY DEF Simple!Ack
<1>3. Head(slaves) \in AccessType /\ Tail(slaves) \in Seq(AccessType)
  BY <1>1, <1>2, HeadTailProperties
<1>4. PICK word \in SWord :
        /\ word = IF reg.cyc /\ ~reg.we THEN store[Head(slaves).a] ELSE reg.rdata
        /\ reg' = [reg EXCEPT !.cyc = FALSE, !.rdata = word]
  BY <1>1, <1>3 DEF Simple!Ack
<1>5. SimpleType'
  BY <1>1, <1>2, <1>3, <1>4, ZenonT(60) DEF SimpleType
<1>6. ~seen.late => /\ port.pc = "status" /\ reg.addr = port.a /\ reg.we = port.w
                    /\ reg.cyc /\ slaves = <<Taken>>
  BY <1>2 DEF SimpleInv, SimpleBus, OnItsWay, Unanswered, Answered
<1>7. SimpleBus'
  <2>1. ~seen.late => Tail(slaves) = <<>> /\ Head(slaves).a = port.a
    <3>1. Taken \in AccessType
      BY <1>1 DEF Taken
    <3>2. ASSUME ~seen.late PROVE \E b \in AccessType : slaves = <<b>> /\ b.a = port.a
      BY <1>6, <3>1, <3>2 DEF Taken
    <3>3. \A b \in AccessType : Tail(<<b>>) = <<>> /\ Head(<<b>>) = b
      OBVIOUS
    <3> QED BY <3>2, <3>3
  <2>2. ~seen.late => seen.faulted \/ port.w \/ reg'.rdata = store[port.a]
    BY <1>1, <1>4, <1>6, <2>1
  <2> QED BY <1>1, <1>2, <1>4, <1>6, <2>1, <2>2 DEF SimpleInv, SimpleBus, Answered
<1>8. SimpleHost'
  BY <1>1, <1>2, <1>4, <1>6 DEF SimpleInv, SimpleHost
<1> QED BY <1>5, <1>7, <1>8 DEF SimpleInv

\* The status is read, by an access or by poll().
LEMMA SimpleStatus ==
    ASSUME SimpleInv, Simple!AccessStatus \/ Simple!Poll
    PROVE  SimpleInv'
<1>1. /\ reg \in RegType /\ slaves \in Seq(AccessType) /\ store \in [Addrs -> SWord]
      /\ port \in PortType /\ seen \in SeenType
  BY DEF SimpleInv, SimpleType
<1>2. /\ reg' = [reg EXCEPT !.int = FALSE, !.err = FALSE] /\ UNCHANGED <<slaves, store>>
      /\ port' = [port EXCEPT !.int = @ \/ reg.int, !.err = @ \/ reg.err,
                    !.pc = IF port.pc # "status" \/ port.err \/ reg.err \/ port.w
                           THEN "idle" ELSE "high"]
      /\ port.pc \in {"idle", "status"} /\ (port.pc = "status" => ~reg.stb)
      /\ seen' = [seen EXCEPT !.late = @ \/ (port.pc = "status" /\ reg.cyc)]
  BY <1>1 DEF Simple!AccessStatus, Simple!Poll, Simple!Status
<1>3. SimpleType'
  BY <1>1, <1>2, ZenonT(60) DEF SimpleType
<1>4. ~seen'.late =>
        /\ ~seen.late /\ ~reg.stb /\ ~reg.cyc /\ slaves = <<>>
        /\ port.pc = "status" => \/ seen.faulted \/ port.w
                                 \/ reg.rdata = store[port.a]
  BY <1>1, <1>2 DEF SimpleInv, SimpleBus, OnItsWay, Unanswered, Answered
<1>5. SimpleBus'
  BY <1>1, <1>2, <1>4 DEF SimpleInv, SimpleBus
<1>6. SimpleHost'
  BY <1>1, <1>2, <1>4 DEF SimpleInv, SimpleHost
<1> QED BY <1>3, <1>5, <1>6 DEF SimpleInv

\* The halves of a word.
LEMMA SimpleHalves ==
    ASSUME SimpleInv, Simple!High \/ Simple!Low \/ Simple!Return
    PROVE  SimpleInv'
<1>1. /\ reg \in RegType /\ slaves \in Seq(AccessType) /\ store \in [Addrs -> SWord]
      /\ port \in PortType /\ seen \in SeenType /\ UNCHANGED <<reg, slaves, store, seen>>
  BY DEF SimpleInv, SimpleType, Simple!High, Simple!Low, Simple!Return
<1>2. CASE Simple!High
  <2>1. PICK word \in SWord :
          /\ word = <<reg.rdata[1], port.v[2]>>
          /\ port' = [port EXCEPT !.pc = "low", !.v = word]
    BY <1>1, <1>2, SimpleWords DEF Simple!High
  <2>2. port.pc = "high" /\ word[1] = reg.rdata[1]
    BY <1>2, <2>1 DEF Simple!High
  <2>3. SimpleType' /\ SimpleBus' /\ SimpleHost'
    BY <1>1, <2>1, <2>2 DEF SimpleInv, SimpleType, SimpleBus, SimpleHost
  <2> QED BY <2>3 DEF SimpleInv
<1>3. CASE Simple!Low
  <2>1. PICK word \in SWord :
          /\ word = <<port.v[1], reg.rdata[2]>>
          /\ port' = [port EXCEPT !.pc = "done", !.v = word]
    BY <1>1, <1>3, SimpleWords DEF Simple!Low
  <2>2. port.pc = "low" /\ word[1] = port.v[1] /\ (~seen.late => word = reg.rdata)
    BY <1>1, <1>3, <2>1, SimpleWords DEF Simple!Low, SimpleInv, SimpleHost
  <2>3. SimpleType' /\ SimpleBus' /\ SimpleHost'
    BY <1>1, <2>1, <2>2 DEF SimpleInv, SimpleType, SimpleBus, SimpleHost
  <2> QED BY <2>3 DEF SimpleInv
<1>4. CASE Simple!Return
  <2>1. SimpleType' /\ SimpleBus' /\ SimpleHost'
    BY <1>1, <1>4 DEF SimpleInv, SimpleType, SimpleBus, SimpleHost, Simple!Return
  <2> QED BY <2>1 DEF SimpleInv
<1> QED BY <1>2, <1>3, <1>4

\* The flags.
LEMMA SimpleFlags ==
    ASSUME SimpleInv, Simple!Interrupt \/ Simple!Clear
    PROVE  SimpleInv'
<1>1. /\ reg \in RegType /\ slaves \in Seq(AccessType) /\ store \in [Addrs -> SWord]
      /\ port \in PortType /\ seen \in SeenType /\ UNCHANGED <<slaves, store>>
  BY DEF SimpleInv, SimpleType, Simple!Interrupt, Simple!Clear
<1>2. CASE Simple!Interrupt
  <2>1. PICK n \in Nat : n = seen.irqs + 1
    BY <1>1
  <2>2. /\ seen' = [seen EXCEPT !.irqs = n, !.raised = TRUE] /\ port' = port
        /\ reg' = [reg EXCEPT !.int = TRUE]
    BY <1>2, <2>1 DEF Simple!Interrupt
  <2>3. SimpleType'
    BY <1>1, <2>2 DEF SimpleType
  <2>4. SimpleBus'
    BY <1>1, <2>2 DEF SimpleInv, SimpleBus, OnItsWay, Unanswered, Answered, Taken
  <2>5. SimpleHost'
    BY <1>1, <2>2 DEF SimpleInv, SimpleHost
  <2> QED BY <2>3, <2>4, <2>5 DEF SimpleInv
<1>3. CASE Simple!Clear
  <2>1. /\ port.pc = "idle" /\ reg' = reg
        /\ \/ port' = [port EXCEPT !.err = FALSE] /\ seen' = seen
           \/ /\ port' = [port EXCEPT !.err = FALSE, !.int = FALSE]
              /\ seen' = [seen EXCEPT !.raised = reg.int]
    BY <1>3 DEF Simple!Clear
  <2>2. SimpleType'
    BY <1>1, <2>1 DEF SimpleType
  <2>3. SimpleBus'
    BY <1>1, <2>1 DEF SimpleInv, SimpleBus
  <2>4. SimpleHost'
    BY <1>1, <2>1 DEF SimpleInv, SimpleHost
  <2> QED BY <2>2, <2>3, <2>4 DEF SimpleInv
<1> QED BY <1>2, <1>3

LEMMA SimpleStep ==
    ASSUME SimpleInv, Simple!Next
    PROVE  SimpleInv'
<1>1. ASSUME NEW a \in Addrs, Simple!Start(a, FALSE, port.v) PROVE SimpleInv'
  <2>1. port.v \in SWord
    BY DEF SimpleInv, SimpleType
  <2> QED BY <1>1, <2>1, SimpleStart
<1>2. ASSUME NEW a \in Addrs, NEW v \in SWord, Simple!Start(a, TRUE, v) PROVE SimpleInv'
  BY <1>2, SimpleStart
<1> QED BY <1>1, <1>2, SimpleCommand, SimpleStrobe, SimpleAck, SimpleStatus, SimpleHalves,
           SimpleFlags DEF Simple!Next, Simple!Word, SWord

\* What the properties of DeppBus need of it.
LEMMA SimpleIsTrue ==
    ASSUME SimpleInv
    PROVE  Simple!PromptReadsAreTrue /\ Simple!ErrorsThrown /\ Simple!InterruptKept
BY DEF SimpleInv, SimpleHost, Simple!PromptReadsAreTrue, Simple!ErrorsThrown,
       Simple!InterruptKept

-----------------------------------------------------------------------------
(***************************************************************************)
(* The scope (Scope).  The words of the memory hold consecutive samples,   *)
(* except where the write address stands; the read address counts from     *)
(* there; and both stand still once the scope has stopped.                 *)
(***************************************************************************)
Words == Scope!Len2
After(i) == IF i = Words - 1 THEN 0 ELSE i + 1                    \* the next word
Ahead(w, n) == IF w + n < Words THEN w + n ELSE w + n - Words
Behind(w, n) == IF n < w THEN w - 1 - n ELSE w - 1 - n + Words

ConfigType == [run : BOOLEAN, manual : BOOLEAN, disable : BOOLEAN, holdoff : Nat]
DumpType == [pc : {"idle", "read", "done"}, data : Seq(0 .. MaxSample), clean : BOOLEAN]

CaptureType ==
    /\ config \in ConfigType
    /\ triggered \in BOOLEAN /\ primed \in BOOLEAN /\ stopped \in BOOLEAN
    /\ counter \in Nat
    /\ ring \in [0 .. Words - 1 -> 0 .. MaxSample]
    /\ waddr \in 0 .. Words - 1 /\ raddr \in 0 .. Words - 1
    /\ nxtMem \in 0 .. MaxSample /\ sample \in 0 .. MaxSample - 1
    /\ trigAt \in 0 .. MaxSample /\ sound \in BOOLEAN

\* What was recorded: each word holds the sample before the one in the next word.
Recorded(i) == primed \/ i < waddr
ScopeRing ==
    /\ triggered => primed
    /\ stopped => triggered
    /\ ~triggered => counter = 0
    /\ \A i \in 0 .. Words - 1 :
         Recorded(i) => (ring[i] + 1) % MaxSample =
                        IF After(i) = waddr THEN sample ELSE ring[After(i)]

\* Where the trigger is, while nobody has armed the scope.
ScopeTrigger ==
    sound => /\ config.run /\ triggered
             /\ IF stopped THEN counter = config.holdoff + 1 ELSE counter <= config.holdoff
             /\ counter < Words => trigAt = ring[Behind(waddr, counter)]

\* How far a clean dump is.
ScopeDump ==
    /\ dump \in DumpType
    /\ dump.pc = "idle" => dump.data = <<>>
    /\ dump.pc # "idle" /\ dump.clean =>
         /\ sound /\ stopped
         /\ dump.pc = "read" => Len(dump.data) = raddr /\ nxtMem = ring[Ahead(waddr, raddr)]
         /\ dump.pc = "done" => Len(dump.data) = Words
         /\ \A j \in 1 .. Len(dump.data) : dump.data[j] = ring[Ahead(waddr, j - 1)]

ScopeInv == CaptureType /\ ScopeRing /\ ScopeTrigger /\ ScopeDump

LEMMA WordsType ==
    Words \in Nat /\ Words >= 8 /\ Scope!Len2 = Words /\ Scope!Slot = 0 .. Words - 1
BY ScopeAssumption DEF Words, Scope!Len2, Scope!Slot

\* Addresses wrap.
LEMMA Wrapped ==
    ASSUME NEW n \in 0 .. 2 * Words - 1
    PROVE  n % Words = IF n < Words THEN n ELSE n - Words
BY WordsType

LEMMA NextWord ==
    ASSUME NEW i \in 0 .. Words - 1
    PROVE  (i + 1) % Words = After(i) /\ After(i) \in 0 .. Words - 1
<1>1. (i + 1) % Words = IF i + 1 < Words THEN i + 1 ELSE i + 1 - Words
  BY WordsType
<1>2. i + 1 < Words <=> i # Words - 1
  BY WordsType
<1> QED BY <1>1, <1>2, WordsType DEF After

LEMMA ScopeInit ==
    ASSUME Scope!Init
    PROVE  ScopeInv
<1>1. Words \div 2 - 4 \in Nat /\ 0 \in 0 .. Words - 1
  BY WordsType
<1>2. 0 \in 0 .. MaxSample - 1 /\ MaxSample \in 0 .. MaxSample
  BY ScopeAssumption
<1>3. CaptureType
  BY <1>1, <1>2, WordsType DEF Scope!Init, CaptureType, ConfigType
<1>4. ScopeRing /\ ScopeTrigger
  BY WordsType DEF Scope!Init, ScopeRing, Recorded, ScopeTrigger
<1>5. dump = [pc |-> "idle", data |-> <<>>, clean |-> TRUE]
  BY DEF Scope!Init, Scope!NoHost
<1>6. ScopeDump
  BY <1>5 DEF ScopeDump, DumpType
<1> QED BY <1>3, <1>4, <1>6 DEF ScopeInv

\* A clock of the capturing side.
Captured ==
    /\ triggered' \in BOOLEAN /\ primed' \in BOOLEAN /\ stopped' \in BOOLEAN
    /\ counter' \in Nat /\ ring' \in [0 .. Words - 1 -> 0 .. MaxSample]
    /\ waddr' \in 0 .. Words - 1 /\ sample' \in 0 .. MaxSample - 1
    /\ trigAt' \in 0 .. MaxSample
    /\ ScopeRing'

LEMMA CaptureReset ==
    ASSUME CaptureType, NEW trig \in BOOLEAN, Scope!CaptureClock(trig), ~config.run
    PROVE  Captured
<1>1. /\ triggered' = FALSE /\ counter' = 0 /\ stopped' = FALSE /\ waddr' = 0
      /\ primed' = FALSE /\ ring' = [i \in 0 .. Words - 1 |-> MaxSample] /\ sample' = 0
  BY WordsType DEF Scope!CaptureClock, Scope!Reset
<1>2. trigAt' \in 0 .. MaxSample
  BY ScopeAssumption DEF CaptureType, Scope!CaptureClock
<1>3. ScopeRing'
  BY <1>1 DEF ScopeRing, Recorded
<1>4. 0 \in 0 .. Words - 1 /\ 0 \in 0 .. MaxSample - 1 /\ MaxSample \in 0 .. MaxSample
  BY WordsType, ScopeAssumption
<1> QED BY <1>1, <1>2, <1>3, <1>4 DEF Captured

LEMMA CaptureRun ==
    ASSUME CaptureType, ScopeRing, NEW trig \in BOOLEAN, Scope!CaptureClock(trig),
           config.run, ~stopped
    PROVE  /\ Captured
           /\ waddr' = After(waddr) /\ ring' = [ring EXCEPT ![waddr] = sample]
           /\ counter' = IF triggered THEN counter + 1 ELSE counter
<1>1. /\ triggered' = (triggered \/ Scope!Triggers(trig))
      /\ counter' = IF triggered THEN counter + 1 ELSE counter
      /\ stopped' = (triggered /\ Scope!Elapsed)
      /\ waddr' = (waddr + 1) % Words
      /\ primed' = (primed \/ waddr = Words - 1)
      /\ ring' = [ring EXCEPT ![waddr] = sample]
      /\ sample' = (sample + 1) % MaxSample
      /\ trigAt' = IF ~triggered /\ Scope!Triggers(trig) THEN sample ELSE trigAt
  BY WordsType DEF Scope!CaptureClock, Scope!Reset, CaptureType
<1>2. waddr \in 0 .. Words - 1 /\ waddr' = After(waddr)
  BY <1>1, NextWord DEF CaptureType
<1>3. /\ counter' \in Nat /\ ring' \in [0 .. Words - 1 -> 0 .. MaxSample]
      /\ sample' \in 0 .. MaxSample - 1 /\ trigAt' \in 0 .. MaxSample
  BY <1>1, ScopeAssumption DEF CaptureType
<1>4. /\ waddr' \in 0 .. Words - 1
      /\ triggered' \in BOOLEAN /\ primed' \in BOOLEAN /\ stopped' \in BOOLEAN
  BY <1>1, <1>2, WordsType DEF After
<1>5. (triggered' => primed') /\ (stopped' => triggered') /\ (~triggered' => counter' = 0)
  BY <1>1 DEF ScopeRing, Scope!Triggers
<1>6. ASSUME NEW i \in 0 .. Words - 1, primed' \/ i < waddr'
      PROVE  (ring'[i] + 1) % MaxSample =
             IF After(i) = waddr' THEN sample' ELSE ring'[After(i)]
  <2>1. After(i) \in 0 .. Words - 1 /\ ring \in [0 .. Words - 1 -> 0 .. MaxSample]
    BY WordsType DEF After, CaptureType
  <2>2. CASE i = waddr
    BY <1>1, <1>2, <2>1, <2>2
  <2>3. CASE i # waddr
    <3>1. Recorded(i)
      <4>1. CASE primed
        BY <4>1 DEF Recorded
      <4>2. CASE ~primed /\ waddr = Words - 1
        BY <1>2, <2>3, <4>2, WordsType DEF Recorded
      <4>3. CASE ~primed /\ waddr # Words - 1
        <5>1. i < waddr + 1
          BY <1>1, <1>2, <1>6, <4>3 DEF After
        <5> QED BY <1>2, <2>3, <5>1, WordsType DEF Recorded
      <4> QED BY <4>1, <4>2, <4>3
    <3>2. (ring[i] + 1) % MaxSample = IF After(i) = waddr THEN sample ELSE ring[After(i)]
      BY <3>1 DEF ScopeRing
    <3>3. After(i) # waddr'
      BY <1>2, <2>3, WordsType DEF After
    <3>4. ring'[i] = ring[i] /\ ring'[After(i)] = IF After(i) = waddr THEN sample ELSE ring[After(i)]
      BY <1>1, <1>2, <2>1, <2>3
    <3> QED BY <3>2, <3>3, <3>4
  <2> QED BY <2>2, <2>3
<1>7. ScopeRing'
  BY <1>5, <1>6 DEF ScopeRing, Recorded, After
<1> QED BY <1>1, <1>2, <1>3, <1>4, <1>7 DEF Captured

LEMMA CaptureStopped ==
    ASSUME CaptureType, ScopeRing, NEW trig \in BOOLEAN, Scope!CaptureClock(trig),
           config.run, stopped
    PROVE  /\ Captured
           /\ UNCHANGED <<triggered, counter, waddr, ring, trigAt>>
           /\ (stopped' <=> counter >= config.holdoff) /\ stopped' \in BOOLEAN
<1>1. triggered = TRUE /\ primed = TRUE /\ config.run = TRUE /\ stopped = TRUE
  BY DEF CaptureType, ConfigType, ScopeRing
<1>2. /\ triggered' = TRUE /\ counter' = counter /\ waddr' = waddr /\ primed' = TRUE
      /\ ring' = ring /\ sample' = sample /\ trigAt' = trigAt
      /\ (stopped' <=> counter >= config.holdoff) /\ stopped' \in BOOLEAN
  BY <1>1 DEF Scope!CaptureClock, Scope!Reset, Scope!Elapsed
<1>3. stopped' \in BOOLEAN
  BY <1>2
<1>4. ScopeRing'
  BY <1>1, <1>2 DEF ScopeRing, Recorded, After
<1> QED BY <1>1, <1>2, <1>3, <1>4 DEF Captured, CaptureType

\* A clock of the whole scope; does is what the bus does in it.
LEMMA ScopeClock ==
    ASSUME ScopeInv, NEW does, does.k \in {"none", "arm", "ctl", "data"},
           does.k = "arm" => does.config \in ConfigType, Scope!Clock(does)
    PROVE  /\ CaptureType' /\ ScopeRing' /\ ScopeTrigger'
           /\ does.k = "arm" => ~sound'
           /\ does.k # "arm" /\ sound => sound' /\ config' = config
           /\ does.k # "arm" /\ sound /\ stopped =>
                /\ stopped' /\ ring' = ring /\ waddr' = waddr
                /\ raddr' = IF does.k = "data" THEN After(raddr) ELSE raddr
                /\ nxtMem' = ring[Ahead(waddr, IF does.k = "data" THEN raddr + 1 ELSE raddr)]
<1>1. PICK trig \in BOOLEAN : Scope!CaptureClock(trig)
  BY DEF Scope!Clock
<1>2. CaptureType /\ ScopeRing /\ ScopeTrigger
  BY DEF ScopeInv
<1>3. Captured
  BY <1>1, <1>2, CaptureReset, CaptureRun, CaptureStopped DEF CaptureType, ConfigType
<1>4. config' = IF does.k = "arm" THEN does.config
                ELSE IF does.k # "ctl" /\ ~config.run THEN [config EXCEPT !.run = TRUE]
                ELSE config
  BY DEF Scope!Clock, Scope!ConfigClock, Scope!Reset
<1>5. config' \in ConfigType
  BY <1>2, <1>4 DEF CaptureType, ConfigType
<1>6. /\ sound' = (does.k # "arm" /\ (sound \/ (~triggered /\ triggered')))
      /\ raddr' = IF ~config.run THEN 0
                  ELSE IF does.k = "data" /\ stopped THEN (raddr + 1) % Words ELSE raddr
      /\ nxtMem' = ring[(raddr + waddr + (IF does.k = "data" THEN 1 ELSE 0)) % Words]
  BY WordsType DEF Scope!Clock, Scope!ReadClock, Scope!Prefetched, Scope!Reset
<1>7. raddr \in 0 .. Words - 1 /\ waddr \in 0 .. Words - 1
  BY <1>2 DEF CaptureType
<1>8. (raddr + 1) % Words = After(raddr) /\ After(raddr) \in 0 .. Words - 1
  BY <1>7, NextWord
<1>9. /\ (raddr + waddr + (IF does.k = "data" THEN 1 ELSE 0)) % Words
          = Ahead(waddr, IF does.k = "data" THEN raddr + 1 ELSE raddr)
      /\ Ahead(waddr, IF does.k = "data" THEN raddr + 1 ELSE raddr) \in 0 .. Words - 1
  <2> DEFINE n == raddr + waddr + (IF does.k = "data" THEN 1 ELSE 0)
  <2>1. n \in 0 .. 2 * Words - 1 /\ n = waddr + (IF does.k = "data" THEN raddr + 1 ELSE raddr)
    BY <1>7, WordsType
  <2>2. n % Words = IF n < Words THEN n ELSE n - Words
    BY <2>1, Wrapped
  <2> QED BY <1>7, <2>1, <2>2, WordsType DEF Ahead
<1>10. CaptureType'
  <2>1. nxtMem' \in 0 .. MaxSample
    BY <1>2, <1>6, <1>9 DEF CaptureType
  <2>2. raddr' \in 0 .. Words - 1
    BY <1>6, <1>7, <1>8, WordsType
  <2>3. sound' \in BOOLEAN
    BY <1>6
  <2> QED BY <1>3, <1>5, <2>1, <2>2, <2>3, WordsType DEF Captured, CaptureType, Words, Scope!Len2
<1>11. ScopeRing'
  BY <1>3 DEF Captured
<1>12. does.k # "arm" /\ sound => sound' /\ config' = config
  BY <1>2, <1>4, <1>6 DEF ScopeTrigger
<1>13. sound /\ stopped /\ does.k # "arm" =>
         stopped' /\ UNCHANGED <<triggered, counter, ring, waddr, trigAt>>
  <2>1. sound /\ stopped => config.run /\ counter >= config.holdoff
    BY <1>2 DEF ScopeTrigger, CaptureType, ConfigType
  <2> QED BY <1>1, <1>2, <2>1, CaptureStopped
<1>14. ScopeTrigger'
  <2>1. SUFFICES ASSUME sound'
                 PROVE  /\ config'.run /\ triggered'
                        /\ IF stopped' THEN counter' = config'.holdoff + 1
                           ELSE counter' <= config'.holdoff
                        /\ counter' < Words => trigAt' = ring'[Behind(waddr', counter')]
    BY WordsType DEF ScopeTrigger, Words, Scope!Len2
  <2>2. does.k # "arm"
    BY <1>6, <2>1
  <2>3. CASE sound /\ stopped
    <3>1. /\ stopped' /\ UNCHANGED <<triggered, counter, ring, waddr, trigAt>>
          /\ config' = config
      BY <1>12, <1>13, <2>2, <2>3
    <3> QED BY <1>2, <2>3, <3>1, WordsType DEF ScopeTrigger, Behind
  <2>4. CASE sound /\ ~stopped
    <3>1. config' = config /\ config.run /\ triggered /\ counter <= config.holdoff
      BY <1>2, <1>12, <2>2, <2>4 DEF ScopeTrigger
    <3>2. /\ waddr' = After(waddr) /\ ring' = [ring EXCEPT ![waddr] = sample]
          /\ counter' = counter + 1
      BY <1>1, <1>2, <2>4, <3>1, CaptureRun
    <3>3. /\ triggered' /\ trigAt' = trigAt
          /\ stopped' <=> counter >= config.holdoff
      BY <1>1, <3>1 DEF Scope!CaptureClock, Scope!Reset, Scope!Elapsed
    <3>4. counter \in Nat /\ config.holdoff \in Nat
      BY <1>2 DEF CaptureType, ConfigType
    <3>5. ASSUME counter' < Words PROVE trigAt' = ring'[Behind(waddr', counter')]
      <4>1. counter < Words /\ trigAt = ring[Behind(waddr, counter)]
        BY <1>2, <2>4, <3>2, <3>4, <3>5, WordsType DEF ScopeTrigger
      <4>2. Behind(waddr', counter') = Behind(waddr, counter) /\ Behind(waddr, counter) # waddr
        BY <1>7, <3>2, <3>4, <3>5, WordsType DEF Behind, After
      <4> QED BY <1>2, <3>2, <3>3, <4>1, <4>2 DEF CaptureType
    <3> QED BY <3>1, <3>2, <3>3, <3>4, <3>5
  <2>5. CASE ~sound
    <3>1. ~triggered /\ triggered' /\ ~stopped /\ counter = 0
      BY <1>2, <1>6, <2>1, <2>5 DEF ScopeRing
    <3>2. config.run /\ Scope!Triggers(trig)
      BY <1>1, <3>1 DEF Scope!CaptureClock, Scope!Reset
    <3>3. config' = config /\ config.holdoff \in Nat
      BY <1>2, <1>4, <2>2, <3>2 DEF CaptureType, ConfigType
    <3>4. /\ waddr' = After(waddr) /\ ring' = [ring EXCEPT ![waddr] = sample]
          /\ counter' = 0
      BY <1>1, <1>2, <3>1, <3>2, CaptureRun
    <3>5. trigAt' = sample /\ ~stopped'
      BY <1>1, <3>1, <3>2 DEF Scope!CaptureClock
    <3>6. Behind(waddr', counter') = waddr
      BY <1>7, <3>4, WordsType DEF Behind, After
    <3> QED BY <1>2, <1>7, <3>1, <3>2, <3>3, <3>4, <3>5, <3>6 DEF CaptureType
  <2> QED BY <2>3, <2>4, <2>5
<1>15. does.k # "arm" /\ sound /\ stopped =>
         /\ stopped' /\ ring' = ring /\ waddr' = waddr
         /\ raddr' = IF does.k = "data" THEN After(raddr) ELSE raddr
         /\ nxtMem' = ring[Ahead(waddr, IF does.k = "data" THEN raddr + 1 ELSE raddr)]
  BY <1>2, <1>6, <1>8, <1>9, <1>13 DEF ScopeTrigger
<1>16. does.k = "arm" => ~sound'
  BY <1>6
<1> QED BY <1>10, <1>11, <1>12, <1>14, <1>15, <1>16

\* Dumps that are not clean, or have not begun, ask nothing of the scope.
LEMMA ScopeQuiet ==
    ASSUME ScopeInv, NEW does, does.k = "none", Scope!Clock(does),
           dump' = dump \/ dump' = Scope!NoHost
    PROVE  ScopeInv'
<1>1. /\ CaptureType' /\ ScopeRing' /\ ScopeTrigger'
      /\ sound => sound'
      /\ sound /\ stopped => /\ stopped' /\ ring' = ring /\ waddr' = waddr /\ raddr' = raddr
                             /\ nxtMem' = ring[Ahead(waddr, raddr)]
  BY ScopeClock
<1>2. CASE dump' = dump
  BY <1>1, <1>2 DEF ScopeInv, ScopeDump
<1>3. CASE dump' = Scope!NoHost
  <2>1. ScopeDump'
    BY <1>3 DEF Scope!NoHost, ScopeDump, DumpType
  <2> QED BY <1>1, <2>1 DEF ScopeInv
<1> QED BY <1>2, <1>3

LEMMA ScopeArm ==
    ASSUME ScopeInv, Scope!Arm
    PROVE  ScopeInv'
<1>1. PICK holdoff \in Holdoffs, run \in BOOLEAN, manual \in BOOLEAN, disable \in BOOLEAN :
        Scope!Clock([k |-> "arm", config |-> [run |-> run, manual |-> manual,
                                              disable |-> disable, holdoff |-> holdoff]])
  BY DEF Scope!Arm
<1> DEFINE given == [run |-> run, manual |-> manual, disable |-> disable, holdoff |-> holdoff]
           does == [k |-> "arm", config |-> given]
<1>2. given \in ConfigType
  BY ScopeAssumption DEF ConfigType
<1>3. does.k = "arm" /\ does.config = given
  OBVIOUS
<1>4. CaptureType' /\ ScopeRing' /\ ScopeTrigger'
  <2>1. Scope!Clock(does)
    BY <1>1
  <2> HIDE DEF does, given
  <2> QED BY <1>2, <1>3, <2>1, ScopeClock
<1>5. dump \in DumpType /\ (dump.pc = "idle" => dump.data = <<>>)
  BY DEF ScopeInv, ScopeDump
<1>6. CASE dump.pc = "idle"
  <2>1. dump' = dump
    BY <1>6 DEF Scope!Arm
  <2> QED BY <1>4, <1>5, <1>6, <2>1 DEF ScopeInv, ScopeDump
<1>7. CASE dump.pc # "idle"
  <2> DEFINE blank == [i \in DOMAIN dump.data |-> MaxSample]
  <2>1. blank \in Seq(0 .. MaxSample)
    <3>1. dump.data \in Seq(0 .. MaxSample) /\ MaxSample \in 0 .. MaxSample
      BY <1>5, ScopeAssumption DEF DumpType
    <3>2. DOMAIN dump.data = 1 .. Len(dump.data) /\ Len(dump.data) \in Nat
      BY <3>1
    <3> QED BY <3>1, <3>2
  <2>2. dump' = [dump EXCEPT !.clean = FALSE, !.data = blank]
    BY <1>7 DEF Scope!Arm
  <2> HIDE DEF blank
  <2>3. dump' \in DumpType /\ dump'.pc # "idle" /\ ~dump'.clean
    BY <1>5, <1>7, <2>1, <2>2 DEF DumpType
  <2> QED BY <1>4, <2>3 DEF ScopeInv, ScopeDump
<1> QED BY <1>6, <1>7

LEMMA ScopeReady ==
    ASSUME ScopeInv, Scope!Ready
    PROVE  ScopeInv'
<1> DEFINE does == Scope!Control
<1>1. does.k = "ctl" /\ Scope!Clock(does) /\ dump.pc = "idle"
  BY DEF Scope!Control, Scope!Ready
<1>2. \/ dump' = dump
      \/ /\ dump' = [dump EXCEPT !.pc = "read", !.clean = ((raddr = 0) /\ sound)]
         /\ stopped
  BY <1>1 DEF Scope!Ready, Scope!WbData, Scope!Ctl, Scope!Control
<1>3. dump \in DumpType /\ dump.data = <<>>
  BY <1>1 DEF ScopeInv, ScopeDump
<1> HIDE DEF does
<1>4. /\ CaptureType' /\ ScopeRing' /\ ScopeTrigger'
      /\ sound => sound'
      /\ sound /\ stopped => /\ stopped' /\ ring' = ring /\ waddr' = waddr /\ raddr' = raddr
                             /\ nxtMem' = ring[Ahead(waddr, raddr)]
  BY <1>1, ScopeClock
<1>5. ScopeDump'
  <2>1. CASE dump' = dump
    BY <1>1, <1>3, <2>1 DEF ScopeDump
  <2>2. CASE /\ dump' = [dump EXCEPT !.pc = "read", !.clean = ((raddr = 0) /\ sound)]
             /\ stopped
    <3>1. /\ dump' \in DumpType /\ dump'.pc = "read" /\ dump'.data = <<>>
          /\ dump'.clean => raddr = 0 /\ sound
      BY <1>3, <2>2 DEF DumpType
    <3>2. Len(dump'.data) = 0
      BY <3>1
    <3> QED BY <1>4, <2>2, <3>1, <3>2 DEF ScopeDump
  <2> QED BY <1>2, <2>1, <2>2
<1> QED BY <1>4, <1>5 DEF ScopeInv

\* One word more.
LEMMA ScopeRead ==
    ASSUME ScopeInv, Scope!RawRead
    PROVE  ScopeInv'
<1> DEFINE does == Scope!Data
           word == IF dump.clean THEN (IF stopped THEN nxtMem ELSE sample) ELSE MaxSample
<1>1. does.k = "data" /\ Scope!Clock(does) /\ dump.pc = "read"
  BY DEF Scope!Data, Scope!RawRead
<1>2. dump' = [dump EXCEPT !.data = Append(dump.data, word),
                           !.pc = IF Len(dump.data) = Words - 1 THEN "done" ELSE "read"]
  BY <1>1, WordsType DEF Scope!RawRead, Scope!WbData, Scope!Ctl, Scope!Data
<1>3. /\ dump \in DumpType
      /\ dump.clean => /\ sound /\ stopped
                       /\ Len(dump.data) = raddr /\ nxtMem = ring[Ahead(waddr, raddr)]
                       /\ \A j \in 1 .. Len(dump.data) : dump.data[j] = ring[Ahead(waddr, j - 1)]
  BY <1>1 DEF ScopeInv, ScopeDump
<1>4. word \in 0 .. MaxSample
  BY ScopeAssumption DEF ScopeInv, CaptureType
<1>5. dump.data \in Seq(0 .. MaxSample) /\ Len(dump.data) \in Nat
  BY <1>3 DEF DumpType
<1>6. PICK data \in Seq(0 .. MaxSample) :
        /\ data = Append(dump.data, word) /\ Len(data) = Len(dump.data) + 1
        /\ \A j \in 1 .. Len(dump.data) : data[j] = dump.data[j]
        /\ data[Len(dump.data) + 1] = word
  <2>1. /\ Append(dump.data, word) \in Seq(0 .. MaxSample)
        /\ Len(Append(dump.data, word)) = Len(dump.data) + 1
        /\ \A j \in 1 .. Len(dump.data) : Append(dump.data, word)[j] = dump.data[j]
        /\ Append(dump.data, word)[Len(dump.data) + 1] = word
    <3> HIDE DEF word
    <3> QED BY <1>4, <1>5, AppendProperties
  <2> QED BY <2>1
<1> HIDE DEF does
<1>7. /\ CaptureType' /\ ScopeRing' /\ ScopeTrigger'
      /\ sound => sound'
      /\ sound /\ stopped => /\ stopped' /\ ring' = ring /\ waddr' = waddr
                             /\ raddr' = After(raddr)
                             /\ nxtMem' = ring[Ahead(waddr, raddr + 1)]
  BY <1>1, ScopeClock
<1>8. /\ dump' = [dump EXCEPT !.data = data,
                    !.pc = IF Len(dump.data) = Words - 1 THEN "done" ELSE "read"]
      /\ dump' \in DumpType /\ dump'.data = data /\ dump'.clean = dump.clean
      /\ dump'.pc = IF Len(dump.data) = Words - 1 THEN "done" ELSE "read"
  BY <1>2, <1>3, <1>6 DEF DumpType
<1>9. ASSUME dump.clean
      PROVE  /\ sound' /\ stopped'
             /\ dump'.pc = "read" => Len(data) = raddr' /\ nxtMem' = ring[Ahead(waddr, raddr')]
             /\ dump'.pc = "done" => Len(data) = Words
             /\ \A j \in 1 .. Len(data) : data[j] = ring[Ahead(waddr, j - 1)]
  <2>1. word = ring[Ahead(waddr, raddr)] /\ Len(dump.data) = raddr
    BY <1>3, <1>9
  <2>2. \A j \in 1 .. Len(data) : data[j] = ring[Ahead(waddr, j - 1)]
    BY <1>3, <1>5, <1>6, <1>9, <2>1
  <2>3. raddr # Words - 1 => raddr' = raddr + 1
    BY <1>3, <1>7, <1>9 DEF After
  <2> HIDE DEF word
  <2> QED BY <1>3, <1>5, <1>6, <1>7, <1>8, <1>9, <2>1, <2>2, <2>3, WordsType
<1>10. (ring' = ring /\ waddr' = waddr) \/ ~dump.clean
  BY <1>3, <1>7
<1>11. ScopeDump'
  BY <1>7, <1>8, <1>9, <1>10 DEF ScopeDump
<1> QED BY <1>7, <1>11 DEF ScopeInv

LEMMA ScopeStep ==
    ASSUME ScopeInv, Scope!Next
    PROVE  ScopeInv'
<1>1. Scope!None.k = "none"
  BY DEF Scope!None
<1>2. CASE Scope!Idle
  BY <1>1, <1>2, ScopeQuiet DEF Scope!Idle
<1>3. CASE Scope!End
  BY <1>1, <1>3, ScopeQuiet DEF Scope!End
<1> QED BY <1>2, <1>3, ScopeArm, ScopeReady, ScopeRead DEF Scope!Next

\* A whole dump: words that follow one another in the memory, up to the newest.
LEMMA ScopeIsTrue ==
    ASSUME ScopeInv
    PROVE  Scope!DumpIsRecord /\ Scope!TriggerIsInside
<1>1. SUFFICES ASSUME Scope!Whole
               PROVE  /\ \A i \in 1 .. Words - 1 :
                           dump.data[i + 1] = (dump.data[i] + 1) % MaxSample
                      /\ config.holdoff <= Words - 2
                           => dump.data[Words - 1 - config.holdoff] = trigAt
  BY WordsType DEF Scope!DumpIsRecord, Scope!TriggerIsInside
<1>2. /\ sound /\ stopped /\ primed
      /\ \A j \in 1 .. Words : dump.data[j] = ring[Ahead(waddr, j - 1)]
  BY <1>1 DEF Scope!Whole, ScopeInv, ScopeDump, ScopeRing
<1>3. waddr \in 0 .. Words - 1 /\ config.holdoff \in Nat
  BY DEF ScopeInv, CaptureType, ConfigType
<1>4. ASSUME NEW i \in 1 .. Words - 1
      PROVE  dump.data[i + 1] = (dump.data[i] + 1) % MaxSample
  <2>1. /\ dump.data[i] = ring[Ahead(waddr, i - 1)]
        /\ dump.data[i + 1] = ring[Ahead(waddr, (i + 1) - 1)]
    BY <1>2, WordsType
  <2>2. /\ Ahead(waddr, i - 1) \in 0 .. Words - 1
        /\ After(Ahead(waddr, i - 1)) = Ahead(waddr, (i + 1) - 1)
        /\ After(Ahead(waddr, i - 1)) # waddr
    BY <1>3, WordsType DEF Ahead, After
  <2>3. (ring[Ahead(waddr, i - 1)] + 1) % MaxSample = ring[After(Ahead(waddr, i - 1))]
    BY <1>2, <2>2 DEF ScopeInv, ScopeRing, Recorded
  <2> QED BY <2>1, <2>2, <2>3
<1>5. ASSUME config.holdoff <= Words - 2
      PROVE  dump.data[Words - 1 - config.holdoff] = trigAt
  <2>1. counter = config.holdoff + 1 /\ trigAt = ring[Behind(waddr, counter)]
    BY <1>2, <1>3, <1>5, WordsType DEF ScopeInv, ScopeTrigger
  <2> DEFINE j == Words - 1 - config.holdoff
  <2>2. j \in 1 .. Words /\ Ahead(waddr, j - 1) = Behind(waddr, counter)
    <3>1. Behind(waddr, config.holdoff + 1) =
          IF config.holdoff + 1 < waddr THEN waddr - 2 - config.holdoff
          ELSE waddr - 2 - config.holdoff + Words
      BY <1>3 DEF Behind
    <3>2. Ahead(waddr, j - 1) = IF waddr + Words - 2 - config.holdoff < Words
                                THEN waddr + Words - 2 - config.holdoff
                                ELSE waddr + Words - 2 - config.holdoff - Words
      BY <1>3, WordsType DEF Ahead
    <3>3. Ahead(waddr, j - 1) = Behind(waddr, config.holdoff + 1)
      BY <1>3, <3>1, <3>2, WordsType
    <3>4. counter = config.holdoff + 1
      BY <2>1
    <3>5. j \in 1 .. Words
      BY <1>3, <1>5, WordsType
    <3> QED BY <3>3, <3>4, <3>5
  <2>3. dump.data[j] = ring[Ahead(waddr, j - 1)]
    BY <1>2, <2>2
  <2> QED BY <2>1, <2>2, <2>3
<1> QED BY <1>4, <1>5

-----------------------------------------------------------------------------
(***************************************************************************)
(* What holds of MCSpec.                                                   *)
(***************************************************************************)
LinkRight   == path = "link" => LinkInv
SimpleRight == path = "simple" => SimpleInv
ScopeRight  == path = "scope" => ScopeInv
BusRight    == path = "bus" => BusInv

LEMMA LinkAlways == MCSpec => []LinkRight
<1>1. MCInit => LinkRight
  BY LinkInit DEF MCInit, LinkRight
<1>2. ASSUME LinkRight, [MCNext]_<<path, vars, linkVars, simpleVars, scopeVars>>
      PROVE  LinkRight'
  <2>1. CASE UNCHANGED <<path, linkVars>>
    BY <1>2, <2>1 DEF linkVars, LinkRight, LinkInv, LinkType, Waiting, Link!PollHonest
  <2>2. CASE path = "link" /\ Link!Next /\ UNCHANGED path
    BY <1>2, <2>2, LinkStep DEF LinkRight
  <2> QED BY <1>2, <2>1, <2>2 DEF MCNext
<1> QED BY <1>1, <1>2, PTL DEF MCSpec

LEMMA SimpleAlways == MCSpec => []SimpleRight
<1>1. MCInit => SimpleRight
  BY SimpleInit DEF MCInit, SimpleRight
<1>2. ASSUME SimpleRight, [MCNext]_<<path, vars, linkVars, simpleVars, scopeVars>>
      PROVE  SimpleRight'
  <2>1. CASE UNCHANGED <<path, simpleVars>>
    BY <1>2, <2>1 DEF simpleVars, SimpleRight, SimpleInv, SimpleType, SimpleBus, SimpleHost,
                      Taken, OnItsWay, Unanswered, Answered
  <2>2. CASE path = "simple" /\ Simple!Next /\ UNCHANGED path
    BY <1>2, <2>2, SimpleStep DEF SimpleRight
  <2> QED BY <1>2, <2>1, <2>2 DEF MCNext
<1> QED BY <1>1, <1>2, PTL DEF MCSpec

LEMMA ScopeAlways == MCSpec => []ScopeRight
<1>1. MCInit => ScopeRight
  BY ScopeInit DEF MCInit, ScopeRight
<1>2. ASSUME ScopeRight, [MCNext]_<<path, vars, linkVars, simpleVars, scopeVars>>
      PROVE  ScopeRight'
  <2>1. CASE UNCHANGED <<path, scopeVars>>
    BY <1>2, <2>1 DEF scopeVars, ScopeRight, ScopeInv, CaptureType, ScopeRing, Recorded,
                      ScopeTrigger, ScopeDump
  <2>2. CASE path = "scope" /\ Scope!Next /\ UNCHANGED path
    BY <1>2, <2>2, ScopeStep DEF ScopeRight
  <2> QED BY <1>2, <2>1, <2>2 DEF MCNext
<1> QED BY <1>1, <1>2, PTL DEF MCSpec

LEMMA BusAlways == MCSpec => []BusRight
<1>1. MCInit => BusRight
  BY BusInit DEF MCInit, BusRight
<1>2. ASSUME BusRight, [MCNext]_<<path, vars, linkVars, simpleVars, scopeVars>>
      PROVE  BusRight'
  <2>1. CASE UNCHANGED <<path, vars>>
    BY <1>2, <2>1, StandsKeep DEF BusRight
  <2>2. CASE path = "bus" /\ Next /\ UNCHANGED path
    BY <1>2, <2>2, BusStep DEF BusRight
  <2> QED BY <1>2, <2>1, <2>2 DEF MCNext
<1> QED BY <1>1, <1>2, PTL DEF MCSpec

(* A read that returns, when nothing has failed and no address sent for a  *)
(* write was still unanswered, has the words that the board read for it,   *)
(* in order, although the board sends places in its table instead of words *)
(* and the table itself is never sent (TTYBUS::readv, readword; FfVMD2 of  *)
(* wbubus.v).  The condition is needed: encode_address() clears the host's *)
(* table when it sends an address, the board when it answers one.          *)
THEOREM ReadsKeep == MCSpec => []ReadsKeepStep
<1>1. BusRight => ReadsKeepStep
  BY BusTells DEF BusRight, ReadsKeepStep
<1> QED BY <1>1, BusAlways, PTL

(* While nothing has failed, the words written reach the addresses they    *)
(* were written to, in order, through both tables and every way to send an *)
(* address; between calls the host knows the board's address; and the      *)
(* comparison at the end of a read that ends the program holds             *)
(* (TTYBUS::writev, encode_address, readv; veVMD2 of wbubus.v).            *)
THEOREM WritesDo == MCSpec => []WritesReach
<1>1. BusRight => WritesReach
  BY BusTells DEF BusRight, WritesReach
<1> QED BY <1>1, BusAlways, PTL

(* What readidle() finds when a write is over, and throws away character   *)
(* by character, is never an address or a word, of several characters,     *)
(* unless something other than a read has failed (TTYBUS::writev,          *)
(* readidle; the queue of answers in wbubus.v).                            *)
THEOREM IdleIsOne == MCSpec => []IdleIsOneCharacter
<1>1. BusRight => IdleIsOneCharacter
  BY BusTells DEF BusRight, IdleIsOneCharacter
<1> QED BY <1>1, BusAlways, PTL

(* A host that waits for the words of a read never waits with nothing on   *)
(* its way in either direction, whatever has failed before                 *)
(* (TTYBUS::readv, readword; the executor and the watchdog of wbubus.v).   *)
THEOREM AnswersDoCome == MCSpec => []AnswersCome
<1>1. BusRight => AnswersCome
  BY BusTells DEF BusRight, AnswersCome
<1> QED BY <1>1, BusAlways, PTL

(* Over the parallel port no character code is lost, repeated or overtaken *)
(* between the board's transmitter and the caller of DEPPI's read(), and   *)
(* poll() says no only when none is queued (deppbyte.v; push_fifo(),       *)
(* pop_fifo(), poll() of deppi.cpp).  A read over the simple bus returns   *)
(* the word written there last, as long as every access was over when its  *)
(* status was read; a bus error is thrown, and an interrupt is not lost    *)
(* between two calls (deppsimple.v, readio() and writeio() of deppi.cpp).  *)
THEOREM PortTrue == MCSpec => []PortIsTrue
<1>1. LinkRight /\ SimpleRight => PortIsTrue
  BY LinkIsTrue, SimpleIsTrue DEF LinkRight, SimpleRight, PortIsTrue
<1> QED BY <1>1, LinkAlways, SimpleAlways, PTL

(* A complete, undisturbed dump of the scope holds consecutive samples up  *)
(* to the last, with the sample of the trigger in its place (wbscope.v's   *)
(* write address, read address and prefetch; SCOPE::rawread()).            *)
THEOREM ScopeDumps == MCSpec => []DumpIsRecord
<1>1. ScopeRight => DumpIsRecord
  BY ScopeIsTrue DEF ScopeRight, DumpIsRecord
<1> QED BY <1>1, ScopeAlways, PTL
=============================================================================
