---------------------------- MODULE HostBusProofs ----------------------------
(***************************************************************************)
(* Proofs about HostBus, for every set of addresses, of words and of calls *)
(* and every length of the blocks and the tables.  The two ends of the     *)
(* link are written as machines that take the codes on their way one by    *)
(* one; the invariant says what each end will have come to when they have  *)
(* taken them all, and that is what the ends agree on.                     *)
(***************************************************************************)
EXTENDS HostBus, SequenceTheorems, WellFoundedInduction, TLAPS

LEMMA NatInduct ==
    ASSUME NEW P \in SUBSET Nat, 0 \in P, \A n \in P : n + 1 \in P
    PROVE  P = Nat
<1>1. SUFFICES ASSUME Nat \ P # {} PROVE FALSE
  OBVIOUS
<1>2. PICK x \in Nat \ P : \A y \in Nat \ P : <<y, x>> \notin OpToRel(<, Nat)
  BY <1>1, NatLessThanWellFounded, WFMin
<1>3. x # 0 /\ x - 1 \in Nat
  OBVIOUS
<1>4. <<x - 1, x>> \in OpToRel(<, Nat)
  BY <1>3 DEF OpToRel
<1>5. x - 1 \in P
  BY <1>2, <1>3, <1>4
<1> QED BY <1>3, <1>5

-----------------------------------------------------------------------------
(***************************************************************************)
(* A machine that takes the codes of s one by one, from state x: its state *)
(* after each of them, and after the last.                                 *)
(***************************************************************************)
Track(step, x, s) ==
  CHOOSE f : f = [i \in 0 .. Len(s) |-> IF i = 0 THEN x ELSE step[<<f[i - 1], s[i]>>]]
Final(step, x, s) == Track(step, x, s)[Len(s)]

Machine(step, S, C) == step \in [S \X C -> S]
Follows(f, step, x, s) ==
  f = [i \in 0 .. Len(s) |-> IF i = 0 THEN x ELSE step[<<f[i - 1], s[i]>>]]
IsTrack(f, step, x, s) ==
  f[0] = x /\ \A i \in 1 .. Len(s) : f[i] = step[<<f[i - 1], s[i]>>]

LEMMA TrackExists ==
    ASSUME NEW S, NEW C, NEW step, Machine(step, S, C), NEW x \in S, NEW s \in Seq(C)
    PROVE  \E f \in [0 .. Len(s) -> S] : IsTrack(f, step, x, s)
<1> DEFINE Upto(n) == \E f \in [0 .. n -> S] :
             f[0] = x /\ \A i \in 1 .. n : f[i] = step[<<f[i - 1], s[i]>>]
           N == {n \in Nat : n <= Len(s) => Upto(n)}
<1>1. Len(s) \in Nat
  BY LenProperties
<1>2. 0 \in N
  <2>1. /\ [i \in 0 .. 0 |-> x] \in [0 .. 0 -> S]
        /\ [i \in 0 .. 0 |-> x][0] = x
        /\ 1 .. 0 = {}
    OBVIOUS
  <2>2. Upto(0)
    BY <2>1
  <2> HIDE DEF Upto
  <2> QED BY <2>2
<1>3. ASSUME NEW n \in N PROVE n + 1 \in N
  <2>1. SUFFICES ASSUME n + 1 <= Len(s) PROVE Upto(n + 1)
    <3> HIDE DEF Upto
    <3> QED BY <1>3
  <2>2. n \in Nat /\ n <= Len(s)
    BY <1>1, <1>3, <2>1
  <2>3. PICK f \in [0 .. n -> S] :
          f[0] = x /\ \A i \in 1 .. n : f[i] = step[<<f[i - 1], s[i]>>]
    <3>1. Upto(n)
      <4> HIDE DEF Upto
      <4> QED BY <1>3, <2>2
    <3> QED BY <3>1
  <2> DEFINE next == step[<<f[n], s[n + 1]>>]
             g == [i \in 0 .. n + 1 |-> IF i = n + 1 THEN next ELSE f[i]]
  <2>4. next \in S
    <3>1. f[n] \in S /\ s[n + 1] \in C
      BY <2>1, <2>2, <2>3, ElementOfSeq
    <3> QED BY <3>1 DEF Machine
  <2>5. g \in [0 .. n + 1 -> S] /\ g[0] = x /\ g[n + 1] = next /\ g[n] = f[n]
    <3> HIDE DEF next
    <3> QED BY <2>2, <2>3, <2>4
  <2>6. ASSUME NEW i \in 1 .. n + 1
        PROVE  g[i] = step[<<g[i - 1], s[i]>>]
    <3>1. CASE i = n + 1
      <4>1. i - 1 = n
        BY <2>2, <3>1
      <4> QED BY <2>5, <3>1, <4>1
    <3>2. CASE i # n + 1
      <4>1. i \in 1 .. n /\ g[i] = f[i] /\ g[i - 1] = f[i - 1]
        BY <2>2, <3>2
      <4> QED BY <2>3, <4>1
    <3> QED BY <3>1, <3>2
  <2> QED BY <2>5, <2>6
<1>4. N = Nat
  <2>1. N \in SUBSET Nat
    <3> HIDE DEF Upto
    <3> QED OBVIOUS
  <2> HIDE DEF N
  <2> QED BY <1>2, <1>3, <2>1, NatInduct
<1>5. Upto(Len(s))
  <2> HIDE DEF Upto
  <2> QED BY <1>1, <1>4
<1> QED BY <1>5 DEF IsTrack

\* A function with the equation of a track is one.
LEMMA TrackEquation ==
    ASSUME NEW S, NEW C, NEW step, Machine(step, S, C), NEW x \in S, NEW s \in Seq(C), NEW f,
           Follows(f, step, x, s)
    PROVE  f \in [0 .. Len(s) -> S] /\ IsTrack(f, step, x, s)
<1>0. Len(s) \in Nat
  BY LenProperties
<1>2. f[0] = x
  BY <1>0 DEF Follows
<1>3. ASSUME NEW i \in 1 .. Len(s)
      PROVE  f[i] = step[<<f[i - 1], s[i]>>]
  <2>1. i \in 0 .. Len(s) /\ i # 0
    BY <1>0
  <2> QED BY <2>1 DEF Follows
<1>4. f \in [0 .. Len(s) -> S]
  <2> DEFINE N == {n \in Nat : n <= Len(s) => f[n] \in S}
  <2>1. 0 \in N
    BY <1>2
  <2>2. ASSUME NEW n \in N PROVE n + 1 \in N
    <3>1. SUFFICES ASSUME n + 1 <= Len(s) PROVE f[n + 1] \in S
      OBVIOUS
    <3>2. n + 1 \in 1 .. Len(s) /\ (n + 1) - 1 = n /\ f[n] \in S
      BY <1>0, <3>1
    <3>3. s[n + 1] \in C
      BY <3>2, ElementOfSeq
    <3>4. step[<<f[n], s[n + 1]>>] \in S
      BY <3>2, <3>3 DEF Machine
    <3> QED BY <1>3, <3>2, <3>4
  <2>3. N = Nat
    <3>1. N \in SUBSET Nat
      OBVIOUS
    <3> HIDE DEF N
    <3> QED BY <2>1, <2>2, <3>1, NatInduct
  <2>4. ASSUME NEW i \in 0 .. Len(s) PROVE f[i] \in S
    BY <1>0, <2>3
  <2>5. f = [i \in 0 .. Len(s) |-> f[i]]
    BY DEF Follows
  <2> QED BY <2>4, <2>5
<1> QED BY <1>2, <1>3, <1>4 DEF IsTrack

\* There is only one.
LEMMA TrackUnique ==
    ASSUME NEW S, NEW C, NEW step, Machine(step, S, C), NEW x \in S, NEW s \in Seq(C),
           NEW f, NEW g, IsTrack(f, step, x, s), IsTrack(g, step, x, s)
    PROVE  \A i \in 0 .. Len(s) : f[i] = g[i]
<1> DEFINE N == {n \in Nat : n <= Len(s) => f[n] = g[n]}
<1>0. Len(s) \in Nat
  BY LenProperties
<1>1. 0 \in N
  BY DEF IsTrack
<1>2. ASSUME NEW n \in N PROVE n + 1 \in N
  <2>1. SUFFICES ASSUME n + 1 <= Len(s) PROVE f[n + 1] = g[n + 1]
    OBVIOUS
  <2>2. n + 1 \in 1 .. Len(s) /\ (n + 1) - 1 = n /\ f[n] = g[n]
    BY <1>0, <2>1
  <2>3. /\ f[n + 1] = step[<<f[n], s[n + 1]>>]
        /\ g[n + 1] = step[<<g[n], s[n + 1]>>]
    BY <2>2 DEF IsTrack
  <2> QED BY <2>2, <2>3
<1>3. N = Nat
  <2>1. N \in SUBSET Nat
    OBVIOUS
  <2> HIDE DEF N
  <2> QED BY <1>1, <1>2, <2>1, NatInduct
<1> QED BY <1>0, <1>3

LEMMA TrackIs ==
    ASSUME NEW S, NEW C, NEW step, Machine(step, S, C), NEW x \in S, NEW s \in Seq(C)
    PROVE  /\ Track(step, x, s) \in [0 .. Len(s) -> S]
           /\ IsTrack(Track(step, x, s), step, x, s)
<1> DEFINE E(f) == [i \in 0 .. Len(s) |-> IF i = 0 THEN x ELSE step[<<f[i - 1], s[i]>>]]
           T == Track(step, x, s)
<1>0. Len(s) \in Nat
  BY LenProperties
<1>1. T = E(T)
  <2>1. PICK f \in [0 .. Len(s) -> S] : IsTrack(f, step, x, s)
    <3> HIDE DEF E, T
    <3> QED BY TrackExists
  <2>2. f = E(f)
    <3>1. f = [i \in 0 .. Len(s) |-> f[i]]
      BY <2>1
    <3>2. ASSUME NEW i \in 0 .. Len(s)
          PROVE  f[i] = E(f)[i]
      <4>1. CASE i = 0
        BY <2>1, <4>1 DEF IsTrack
      <4>2. CASE i # 0
        <5>1. i \in 1 .. Len(s)
          BY <1>0, <4>2
        <5>2. f[i] = step[<<f[i - 1], s[i]>>]
          BY <2>1, <5>1 DEF IsTrack
        <5> QED BY <4>2, <5>2
      <4> QED BY <4>1, <4>2
    <3> QED BY <3>1, <3>2
  <2>3. T = CHOOSE g : g = E(g)
    BY DEF Track
  <2> HIDE DEF E, T
  <2> QED BY <2>2, <2>3
<1> HIDE DEF T
<1>2. Follows(T, step, x, s)
  BY <1>1 DEF Follows
<1> QED BY <1>2, TrackEquation DEF T

\* What a recursive function with a machine's steps comes to.
LEMMA FinalIs ==
    ASSUME NEW S, NEW C, NEW step, Machine(step, S, C), NEW x \in S, NEW s \in Seq(C), NEW f,
           IsTrack(f, step, x, s)
    PROVE  f[Len(s)] = Final(step, x, s)
<1>1. Len(s) \in 0 .. Len(s)
  BY LenProperties
<1> QED BY <1>1, TrackIs, TrackUnique DEF Final

LEMMA FinalType ==
    ASSUME NEW S, NEW C, NEW step, Machine(step, S, C), NEW x \in S, NEW s \in Seq(C)
    PROVE  Final(step, x, s) \in S
<1>1. Len(s) \in 0 .. Len(s)
  BY LenProperties
<1> QED BY <1>1, TrackIs DEF Final

LEMMA FinalEmpty ==
    ASSUME NEW S, NEW C, NEW step, Machine(step, S, C), NEW x \in S
    PROVE  Final(step, x, <<>>) = x
<1> DEFINE s == <<>>
<1>1. s \in Seq(C) /\ Len(s) = 0
  BY EmptySeq
<1>2. Final(step, x, s) = x
  <2> HIDE DEF s
  <2>1. IsTrack(Track(step, x, s), step, x, s)
    BY <1>1, TrackIs
  <2> QED BY <1>1, <2>1 DEF Final, IsTrack
<1> QED BY <1>2

LEMMA FinalAppend ==
    ASSUME NEW S, NEW C, NEW step, Machine(step, S, C), NEW x \in S, NEW s \in Seq(C), NEW c \in C
    PROVE  Final(step, x, Append(s, c)) = step[<<Final(step, x, s), c>>]
<1> DEFINE t == Append(s, c)
           f == Track(step, x, t)
<1>1. /\ t \in Seq(C) /\ Len(s) \in Nat /\ Len(t) = Len(s) + 1 /\ t[Len(s) + 1] = c
      /\ \A i \in 1 .. Len(s) : t[i] = s[i]
  BY AppendProperties, LenProperties
<1>2. IsTrack(f, step, x, t)
  <2> HIDE DEF t
  <2> QED BY <1>1, TrackIs
<1> HIDE DEF t, f
<1>3. IsTrack(f, step, x, s)
  BY <1>1, <1>2 DEF IsTrack
<1>4. f[Len(s)] = Final(step, x, s)
  BY <1>3, FinalIs
<1>5. Len(t) \in 1 .. Len(t) /\ Len(t) - 1 = Len(s)
  BY <1>1
<1>6. f[Len(t)] = step[<<f[Len(t) - 1], t[Len(t)]>>]
  BY <1>2, <1>5 DEF IsTrack
<1>7. Final(step, x, t) = f[Len(t)]
  BY DEF Final, f
<1> QED BY <1>1, <1>4, <1>5, <1>6, <1>7 DEF t

\* Induction over sequences, for the steps of a machine.
LEMMA SeqInduct ==
    ASSUME NEW S, NEW P \in SUBSET Seq(S), <<>> \in P,
           \A s \in P, e \in S : Append(s, e) \in P
    PROVE  P = Seq(S)
<1> DEFINE N == {n \in Nat : \A s \in Seq(S) : Len(s) = n => s \in P}
<1>1. 0 \in N
  OBVIOUS
<1>2. ASSUME NEW n \in N PROVE n + 1 \in N
  <2>1. ASSUME NEW s \in Seq(S), Len(s) = n + 1 PROVE s \in P
    <3>1. s # <<>>
      BY <1>2, <2>1
    <3>2. PICK t \in Seq(S), e \in S : s = Append(t, e)
      BY <3>1, SequenceEmptyOrAppend
    <3>3. Len(t) = n
      BY <1>2, <2>1, <3>2, AppendProperties
    <3> QED BY <1>2, <3>2, <3>3
  <2> QED BY <1>2, <2>1
<1>3. N = Nat
  <2> HIDE DEF N
  <2> QED BY <1>1, <1>2, NatInduct DEF N
<1>4. ASSUME NEW s \in Seq(S) PROVE s \in P
  BY <1>3, LenProperties
<1> QED BY <1>4

\* One sequence of codes after another.
LEMMA FinalConcat ==
    ASSUME NEW S, NEW C, NEW step, Machine(step, S, C), NEW x \in S, NEW s \in Seq(C),
           NEW r \in Seq(C)
    PROVE  Final(step, x, s \o r) = Final(step, Final(step, x, s), r)
<1> DEFINE P == {q \in Seq(C) : Final(step, x, s \o q) = Final(step, Final(step, x, s), q)}
           y == Final(step, x, s)
<1>0. y \in S
  BY FinalType
<1>1. <<>> \in P
  <2>1. s \o <<>> = s /\ <<>> \in Seq(C)
    BY EmptySeq
  <2> HIDE DEF y
  <2>2. Final(step, y, <<>>) = y
    BY <1>0, FinalEmpty
  <2> QED BY <2>1, <2>2 DEF y
<1>2. ASSUME NEW q \in P, NEW c \in C PROVE Append(q, c) \in P
  <2>1. q \in Seq(C) /\ Append(q, c) \in Seq(C) /\ s \o q \in Seq(C)
    BY AppendProperties, ConcatProperties
  <2>2. s \o Append(q, c) = Append(s \o q, c)
    BY <2>1
  <2>3. Final(step, x, Append(s \o q, c)) = step[<<Final(step, x, s \o q), c>>]
    <3> DEFINE sq == s \o q
    <3>1. sq \in Seq(C)
      BY <2>1
    <3> HIDE DEF sq
    <3>2. Final(step, x, Append(sq, c)) = step[<<Final(step, x, sq), c>>]
      BY <3>1, FinalAppend
    <3> QED BY <3>2 DEF sq
  <2>4. Final(step, y, Append(q, c)) = step[<<Final(step, y, q), c>>]
    <3> HIDE DEF y
    <3> QED BY <1>0, <2>1, FinalAppend
  <2> QED BY <2>1, <2>2, <2>3, <2>4
<1>3. P = Seq(C)
  <2>1. P \in SUBSET Seq(C)
    OBVIOUS
  <2> HIDE DEF P
  <2> QED BY <1>1, <1>2, <2>1, SeqInduct
<1> QED BY <1>3

LEMMA FinalOne ==
    ASSUME NEW S, NEW C, NEW step, Machine(step, S, C), NEW x \in S, NEW c \in C
    PROVE  Final(step, x, <<c>>) = step[<<x, c>>]
<1> DEFINE s == <<>>
<1>1. s \in Seq(C)
  BY EmptySeq
<1>2. Final(step, x, s) = x
  BY FinalEmpty
<1>3. Append(s, c) = <<c>>
  OBVIOUS
<1> HIDE DEF s
<1>4. Final(step, x, Append(s, c)) = step[<<Final(step, x, s), c>>]
  BY <1>1, FinalAppend
<1>5. Final(step, x, Append(s, c)) = step[<<x, c>>]
  BY <1>2, <1>4
<1> QED BY <1>3, <1>5, Zenon

\* The first code, then the others.
LEMMA FinalHead ==
    ASSUME NEW S, NEW C, NEW step, Machine(step, S, C), NEW x \in S, NEW s \in Seq(C), s # <<>>
    PROVE  Final(step, x, s) = Final(step, step[<<x, Head(s)>>], Tail(s))
<1> DEFINE q == <<Head(s)>>
           r == Tail(s)
<1>1. Head(s) \in C /\ r \in Seq(C) /\ q \in Seq(C)
  BY HeadTailProperties
<1>2. s = q \o r
  BY HeadTailProperties
<1>3. Final(step, x, q) = step[<<x, Head(s)>>]
  BY <1>1, FinalOne
<1> HIDE DEF q, r
<1>4. Final(step, x, q \o r) = Final(step, Final(step, x, q), r)
  BY <1>1, FinalConcat
<1>5. Final(step, x, s) = Final(step, x, q \o r)
  BY <1>2, Zenon
<1>6. Final(step, x, s) = Final(step, step[<<x, Head(s)>>], r)
  BY <1>3, <1>4, <1>5
<1> QED BY <1>6 DEF r

-----------------------------------------------------------------------------
(***************************************************************************)
(* Addresses: what encode_address() sends, the decoder understands.        *)
(***************************************************************************)
\* The least of a set of numbers.
LEMMA LeastIs ==
    ASSUME NEW S \in SUBSET Nat, S # {}
    PROVE  Least(S) \in S /\ \A m \in S : Least(S) <= m
<1>1. PICK n \in S : \A m \in S : n <= m
  <2>1. PICK k \in S : \A m \in S : <<m, k>> \notin OpToRel(<, Nat)
    BY NatLessThanWellFounded, WFMin
  <2>2. ASSUME NEW m \in S PROVE k <= m
    <3>1. m \in Nat /\ k \in Nat
      OBVIOUS
    <3>2. m < k => <<m, k>> \in OpToRel(<, Nat)
      BY <3>1 DEF OpToRel
    <3>3. ~(m < k)
      BY <2>1, <3>2, Zenon
    <3> QED BY <3>1, <3>3
  <2> QED BY <2>2
<1> QED BY <1>1 DEF Least

\* What the digits of a difference say, once their sign is extended.
LEMMA DigitsDecode ==
    ASSUME NEW P \in Nat \ {0}, NEW d \in Int, -(P \div 2) <= d, d < P \div 2
    PROVE  d % P \in Nat /\ (IF d % P >= P \div 2 THEN (d % P) - P ELSE d % P) = d
<1>1. CASE d >= 0
  <2>1. d % P = d
    BY <1>1
  <2> QED BY <1>1, <2>1
<1>2. CASE d < 0
  <2>1. d % P = d + P
    BY <1>2
  <2>2. d + P >= P \div 2 /\ d + P \in Nat
    BY <1>2
  <2> QED BY <2>1, <2>2
<1> QED BY <1>1, <1>2

AddressCode == [k : {"abs"}, v : Nat] \cup [k : {"rel"}, n : Short, v : Nat]

\* What encode_address() sends brings the board there, or it is there.
LEMMA AddressDecodes ==
    ASSUME NEW set \in BOOLEAN, NEW last \in Int, NEW a \in 0 .. Digit^4 - 1
    PROVE  \/ EncodeAddress(set, last, a) = <<>> /\ set /\ a = last
           \/ \E c \in AddressCode :
                /\ EncodeAddress(set, last, a) = <<c>>
                /\ \A x \in Int : (set => x = last) => DecodeAddress(x, c) = a
<1> DEFINE rel == IF set THEN RelDigits(a - last) ELSE {}
           n == Least(rel)
           v == (a - last) % Digit^n
<1>0. Digit^4 \in Nat \ {0}
  BY DigitAssumption DEF Short
<1>a. a \in Nat /\ a < Digit^4
  BY <1>0
<1>1. CASE set /\ a = last
  BY <1>1 DEF EncodeAddress
<1>2. CASE ~(set /\ a = last) /\ (rel = {} \/ \E m \in AbsDigits(a) : m <= n)
  <2>1. EncodeAddress(set, last, a) = <<[k |-> "abs", v |-> a]>>
    BY <1>2 DEF EncodeAddress
  <2> DEFINE c == [k |-> "abs", v |-> a]
  <2>2. c \in AddressCode
    BY <1>a DEF AddressCode
  <2>3. \A x \in Int : DecodeAddress(x, c) = a
    BY DEF DecodeAddress
  <2> QED BY <2>1, <2>2, <2>3
<1>3. CASE ~(set /\ a = last) /\ ~(rel = {} \/ \E m \in AbsDigits(a) : m <= n)
  <2>1. set /\ rel = RelDigits(a - last) /\ rel # {}
    BY <1>3
  <2>2. rel \in SUBSET Nat
    BY <2>1 DEF RelDigits, Short
  <2>3. n \in rel
    <3> HIDE DEF rel
    <3> QED BY <2>1, <2>2, LeastIs
  <2>4. n \in Short /\ -(Digit^n \div 2) <= a - last /\ a - last < Digit^n \div 2
    <3> HIDE DEF n
    <3> QED BY <2>1, <2>3 DEF RelDigits
  <2>5. 4 \in AbsDigits(a)
    BY <1>a DEF AbsDigits, Short
  <2>6. n < 4
    <3>1. ~(4 <= n)
      BY <1>3, <2>5
    <3>2. n \in Nat
      <4> HIDE DEF n
      <4> QED BY <2>4 DEF Short
    <3> HIDE DEF n
    <3> QED BY <3>1, <3>2
  <2> DEFINE P == Digit^n
             d == a - last
             c == [k |-> "rel", n |-> n, v |-> v]
  <2>7. P \in Nat \ {0} /\ d \in Int
    <3>1. Digit^n \in Nat \ {0}
      <4> HIDE DEF n
      <4> QED BY <2>4, DigitAssumption
    <3>2. d \in Int
      BY <1>a
    <3> QED BY <3>1, <3>2
  <2>8. v \in Nat /\ (IF v >= P \div 2 THEN v - P ELSE v) = d
    <3>1. -(P \div 2) <= d /\ d < P \div 2 /\ v = d % P
      BY <2>4
    <3> HIDE DEF P, d, v
    <3> QED BY <2>7, <3>1, DigitsDecode
  <2>9. EncodeAddress(set, last, a) = <<c>>
    BY <1>3, <2>6 DEF EncodeAddress
  <2>10. c \in AddressCode
    <3> HIDE DEF n, v
    <3> QED BY <2>4, <2>8 DEF AddressCode
  <2>11. ASSUME NEW x \in Int, x = last PROVE DecodeAddress(x, c) = a
    <3>1. DecodeAddress(x, c) = x + SignExtend(v, n)
      <4> HIDE DEF n, v
      <4> QED BY DEF DecodeAddress
    <3>2. SignExtend(v, n) = d
      <4>1. SignExtend(v, n) = IF v >= P \div 2 THEN v - P ELSE v
        BY DEF SignExtend
      <4> HIDE DEF v, P, d, n
      <4> QED BY <2>8, <4>1
    <3>3. x + d = a
      BY <1>a, <2>11
    <3> HIDE DEF v, n, d
    <3> QED BY <3>1, <3>2, <3>3
  <2> HIDE DEF c
  <2> QED BY <2>1, <2>9, <2>10, <2>11
<1> HIDE DEF rel, n
<1> QED BY <1>1, <1>2, <1>3

-----------------------------------------------------------------------------
(***************************************************************************)
(* The codes, and the two machines: the board executing what is on its way *)
(* down, the host taking what is on its way up.                            *)
(***************************************************************************)
WriteCode == [k : {"wr"}, v : Val, inc : BOOLEAN] \cup [k : {"wt"}, v : Nat \ {0}, inc : BOOLEAN]
ReadCode  == [k : {"rd"}, v : Nat \ {0}, inc : BOOLEAN]
DownCode  == AddressCode \cup WriteCode \cup ReadCode \cup [k : {"nl"}]

DataCode == [k : {"raw"}, v : Val, inc : BOOLEAN] \cup [k : {"tbl"}, v : Nat \ {0}, inc : BOOLEAN]
UpCode   == [k : {"addr"}, v : Int] \cup DataCode \cup [k : {"int", "nl", "ack", "err", "reset"}]

IsWrite(code) == code.k \in {"wr", "wt"}
Quiet(code)   == code.k \in {"nl", "idle", "ack", "int"}

Table == {t \in Seq(Val) : Len(t) <= WrReach}
AsFarBack(a, b) ==
  Len(a) <= Len(b) /\ \A i \in 1 .. Len(a) : Back(a, i) = Back(b, i)

(* The board executing codewords: its address, whether that is new, the    *)
(* writes still to come, its table; whether each reference was to          *)
(* something, and each write the one to come.                              *)
WordOf(code, tbl) == IF code.k = "wr" THEN code.v ELSE Back(tbl, code.v)
Walker == [addr : Int, newaddr : BOOLEAN, left : Seq(Int \X Val), tbl : Table,
           refs : BOOLEAN, fits : BOOLEAN]
Executes(x, code) ==
  IF code.k \in {"abs", "rel"}
  THEN [x EXCEPT !.addr = DecodeAddress(@, code), !.newaddr = TRUE]
  ELSE IF IsWrite(code)
  THEN [addr |-> x.addr + Step(code.inc), newaddr |-> FALSE,
        left |-> IF x.left = <<>> THEN <<>> ELSE Tail(x.left),
        tbl  |-> Enter(x.tbl, code),
        refs |-> x.refs /\ (code.k = "wt" => code.v <= Len(x.tbl)),
        fits |-> x.fits /\ x.left # <<>> /\ Head(x.left) = <<x.addr, WordOf(code, x.tbl)>>]
  ELSE IF code.k = "rd"
  THEN [x EXCEPT !.addr = @ + code.v * Step(code.inc), !.newaddr = FALSE]
  ELSE x
Executor == [p \in Walker \X DownCode |-> Executes(p[1], p[2])]

(* The host taking codes in a read: the address it expects, its table, the *)
(* words it has and their number.                                          *)
Taker == [la : Int, tbl : Seq(Val), vals : Seq(Val \cup {Junk}), n : Nat]
Takes(x, code) ==
  IF code.k = "addr" THEN [x EXCEPT !.la = code.v]
  ELSE IF Data(code)
  THEN [la   |-> x.la + Step(code.inc),
        tbl  |-> IF code.k = "raw" THEN Append(x.tbl, code.v) ELSE x.tbl,
        vals |-> Append(x.vals, IF code.k = "raw" THEN code.v
                                ELSE IF code.v <= Len(x.tbl) THEN Back(x.tbl, code.v)
                                ELSE Junk),
        n    |-> x.n + 1]
  ELSE x
Receiver == [p \in Taker \X UpCode |-> Takes(p[1], p[2])]

LEMMA ReachType == WrReach \in Nat \ {0} /\ ReadBlock \in Nat \ {0} /\ MaxWrLen \in Nat \ {0}
BY HostAssumption

\* A table does not outgrow what can be referred to.
LEMMA EnterType ==
    ASSUME NEW t \in Table, NEW code \in WriteCode
    PROVE  /\ Enter(t, code) \in Table
           /\ code.k = "wt" => Enter(t, code) = t
<1>1. t \in Seq(Val) /\ Len(t) \in Nat /\ Len(t) <= WrReach
  BY LenProperties DEF Table
<1>2. CASE code.k = "wr"
  <2>1. code.v \in Val
    BY <1>2 DEF WriteCode
  <2> DEFINE a == Append(t, code.v)
  <2>2. a \in Seq(Val) /\ Len(a) = Len(t) + 1
    BY <1>1, <2>1, AppendProperties
  <2>3. Enter(t, code) = Recent(a)
    BY <1>2 DEF Enter
  <2> HIDE DEF a
  <2>4. CASE Len(a) <= WrReach
    BY <1>2, <2>2, <2>3, <2>4 DEF Recent, Table
  <2>5. CASE ~(Len(a) <= WrReach)
    <3>1. a # <<>> /\ Recent(a) = Tail(a)
      BY <1>1, <2>2, <2>5 DEF Recent
    <3>2. Tail(a) \in Seq(Val) /\ Len(Tail(a)) = Len(a) - 1
      BY <2>2, <3>1, HeadTailProperties
    <3>3. Tail(a) \in Table
      BY <1>1, <2>2, <3>2, ReachType DEF Table
    <3> QED BY <1>2, <2>3, <3>1, <3>3
  <2> QED BY <2>4, <2>5
<1>3. CASE code.k = "wt"
  BY <1>3 DEF Enter
<1> QED BY <1>2, <1>3 DEF WriteCode

\* Entering the same word keeps one table the end of the other.
LEMMA EnterBoth ==
    ASSUME NEW a \in Table, NEW b \in Table, AsFarBack(a, b), NEW code \in WriteCode
    PROVE  AsFarBack(Enter(a, code), Enter(b, code))
<1>1. /\ a \in Seq(Val) /\ Len(a) \in Nat /\ Len(a) <= WrReach
      /\ b \in Seq(Val) /\ Len(b) \in Nat /\ Len(b) <= WrReach
      /\ Len(a) <= Len(b)
      /\ \A i \in 1 .. Len(a) : a[Len(a) + 1 - i] = b[Len(b) + 1 - i]
  BY LenProperties DEF Table, AsFarBack, Back
<1>2. CASE code.k = "wr"
  <2> DEFINE p == Append(a, code.v)
             q == Append(b, code.v)
             c == Enter(a, code)
             d == Enter(b, code)
  <2>1. code.v \in Val
    BY <1>2 DEF WriteCode
  <2>2. /\ p \in Seq(Val) /\ Len(p) = Len(a) + 1 /\ p[Len(a) + 1] = code.v
        /\ \A i \in 1 .. Len(a) : p[i] = a[i]
        /\ q \in Seq(Val) /\ Len(q) = Len(b) + 1 /\ q[Len(b) + 1] = code.v
        /\ \A i \in 1 .. Len(b) : q[i] = b[i]
    BY <1>1, <2>1, AppendProperties
  <2>3. c = Recent(p) /\ d = Recent(q)
    BY <1>2 DEF Enter
  <2> HIDE DEF p, q, c, d
  <2>4. ASSUME NEW i \in 1 .. Len(p)
        PROVE  p[Len(p) + 1 - i] = q[Len(q) + 1 - i]
    <3>1. CASE i = 1
      <4>1. Len(p) + 1 - i = Len(a) + 1 /\ Len(q) + 1 - i = Len(b) + 1
        BY <1>1, <2>2, <3>1
      <4> QED BY <2>2, <4>1
    <3>2. CASE i # 1
      <4> DEFINE j == i - 1
      <4>1. j \in 1 .. Len(a) /\ Len(p) + 1 - i = Len(a) + 1 - j /\ Len(q) + 1 - i = Len(b) + 1 - j
        BY <1>1, <2>2, <3>2
      <4>2. Len(a) + 1 - j \in 1 .. Len(a) /\ Len(b) + 1 - j \in 1 .. Len(b)
        BY <1>1, <4>1
      <4> HIDE DEF j
      <4>3. a[Len(a) + 1 - j] = b[Len(b) + 1 - j]
        BY <1>1, <4>1
      <4> QED BY <2>2, <4>1, <4>2, <4>3
    <3> QED BY <3>1, <3>2
  \* Recent(t) ends as t does
  <2>5. ASSUME NEW t \in Seq(Val), t # <<>>
        PROVE  LET r == Recent(t)
               IN  /\ \/ r = t /\ Len(t) <= WrReach
                      \/ Len(r) = Len(t) - 1 /\ Len(t) > WrReach
                   /\ Len(r) \in Nat
                   /\ \A i \in 1 .. Len(r) : r[Len(r) + 1 - i] = t[Len(t) + 1 - i]
    <3>1. Len(t) \in Nat
      BY <2>5, LenProperties
    <3>2. CASE Len(t) <= WrReach
      BY <3>1, <3>2 DEF Recent
    <3>3. CASE ~(Len(t) <= WrReach)
      <4> DEFINE r == Tail(t)
      <4>1. Recent(t) = r
        BY <3>3 DEF Recent
      <4>2. r \in Seq(Val) /\ Len(r) = Len(t) - 1 /\ Len(r) \in Nat /\ \A i \in 1 .. Len(r) : r[i] = t[i + 1]
        BY <2>5, <3>1, HeadTailProperties
      <4> HIDE DEF r
      <4>3. ASSUME NEW i \in 1 .. Len(r) PROVE r[Len(r) + 1 - i] = t[Len(t) + 1 - i]
        <5>1. Len(r) + 1 - i \in 1 .. Len(r) /\ (Len(r) + 1 - i) + 1 = Len(t) + 1 - i
          BY <3>1, <4>2
        <5> QED BY <4>2, <5>1
      <4> QED BY <3>1, <3>3, <4>1, <4>2, <4>3, ReachType
    <3> QED BY <3>2, <3>3
  <2>6. p # <<>> /\ q # <<>>
    BY <1>1, <2>2
  <2>7. /\ (c = p /\ Len(p) <= WrReach) \/ (Len(c) = Len(p) - 1 /\ Len(p) > WrReach)
        /\ Len(c) \in Nat
        /\ \A i \in 1 .. Len(c) : c[Len(c) + 1 - i] = p[Len(p) + 1 - i]
    BY <2>2, <2>3, <2>5, <2>6
  <2>8. /\ (d = q /\ Len(q) <= WrReach) \/ (Len(d) = Len(q) - 1 /\ Len(q) > WrReach)
        /\ Len(d) \in Nat
        /\ \A i \in 1 .. Len(d) : d[Len(d) + 1 - i] = q[Len(q) + 1 - i]
    BY <2>2, <2>3, <2>5, <2>6
  <2>9. Len(c) <= Len(d) /\ Len(c) <= Len(p)
    BY <1>1, <2>2, <2>7, <2>8, ReachType
  <2>10. ASSUME NEW i \in 1 .. Len(c) PROVE c[Len(c) + 1 - i] = d[Len(d) + 1 - i]
    <3>1. i \in 1 .. Len(d) /\ i \in 1 .. Len(p)
      BY <1>1, <2>2, <2>7, <2>8, <2>9
    <3> QED BY <2>4, <2>7, <2>8, <3>1
  <2>11. AsFarBack(c, d)
    BY <2>9, <2>10 DEF AsFarBack, Back
  <2> QED BY <2>11 DEF c, d
<1>3. CASE code.k = "wt"
  BY <1>3 DEF Enter
<1> QED BY <1>2, <1>3 DEF WriteCode

-----------------------------------------------------------------------------
(***************************************************************************)
(* What the machines come to.                                              *)
(***************************************************************************)
LEMMA CodeKinds ==
    ASSUME NEW c \in DownCode
    PROVE  /\ c.k \in {"abs", "rel", "wr", "wt", "rd", "nl"}
           /\ c.k \in {"abs", "rel"} <=> c \in AddressCode
           /\ IsWrite(c) <=> c \in WriteCode
           /\ c.k = "rd" <=> c \in ReadCode
BY DEF DownCode, AddressCode, WriteCode, ReadCode, IsWrite

LEMMA DecodeType ==
    ASSUME NEW x \in Int, NEW c \in AddressCode
    PROVE  DecodeAddress(x, c) \in Int
<1>1. CASE c.k = "abs"
  BY <1>1 DEF AddressCode, DecodeAddress
<1>2. CASE c.k = "rel"
  <2>1. c.n \in Short /\ c.v \in Nat
    BY <1>2 DEF AddressCode
  <2>2. Digit^c.n \in Nat
    BY <2>1, DigitAssumption
  <2> DEFINE P == Digit^c.n
  <2>3. SignExtend(c.v, c.n) = IF c.v >= P \div 2 THEN c.v - P ELSE c.v
    BY DEF SignExtend
  <2>4. DecodeAddress(x, c) = x + SignExtend(c.v, c.n)
    BY <1>2 DEF DecodeAddress
  <2> HIDE DEF P
  <2>5. P \in Nat
    BY <2>2 DEF P
  <2>6. SignExtend(c.v, c.n) \in Int
    BY <2>1, <2>3, <2>5
  <2> QED BY <2>4, <2>6
<1> QED BY <1>1, <1>2 DEF AddressCode

LEMMA ExecutesType ==
    ASSUME NEW x \in Walker, NEW c \in DownCode
    PROVE  Executes(x, c) \in Walker
<1>1. CASE c.k \in {"abs", "rel"}
  <2>1. DecodeAddress(x.addr, c) \in Int
    BY <1>1, CodeKinds, DecodeType DEF Walker
  <2> QED BY <1>1, <2>1 DEF Executes, Walker
<1>2. CASE IsWrite(c)
  <2>1. c \in WriteCode
    BY <1>2, CodeKinds
  <2>2. c.inc \in BOOLEAN /\ Step(c.inc) \in Int
    BY <2>1 DEF WriteCode, Step
  <2>3. x.addr + Step(c.inc) \in Int
    BY <2>2 DEF Walker
  <2>4. (IF x.left = <<>> THEN <<>> ELSE Tail(x.left)) \in Seq(Int \X Val)
    <3>1. CASE x.left = <<>>
      BY <3>1 DEF Walker
    <3>2. CASE x.left # <<>>
      <4>1. x.left \in Seq(Int \X Val)
        BY DEF Walker
      <4> QED BY <3>2, <4>1, HeadTailProperties
    <3> QED BY <3>1, <3>2
  <2>5. Enter(x.tbl, c) \in Table
    BY <2>1, EnterType DEF Walker
  <2>6. c.k \notin {"abs", "rel"}
    BY <1>2 DEF IsWrite
  <2> DEFINE l == IF x.left = <<>> THEN <<>> ELSE Tail(x.left)
             t == Enter(x.tbl, c)
             r == x.refs /\ (c.k = "wt" => c.v <= Len(x.tbl))
             f == x.fits /\ x.left # <<>> /\ Head(x.left) = <<x.addr, WordOf(c, x.tbl)>>
  <2>7. r \in BOOLEAN /\ f \in BOOLEAN
    OBVIOUS
  <2>8. Executes(x, c) = [addr |-> x.addr + Step(c.inc), newaddr |-> FALSE, left |-> l,
                          tbl |-> t, refs |-> r, fits |-> f]
    BY <1>2, <2>6 DEF Executes
  <2> HIDE DEF l, t, r, f
  <2>9. l \in Seq(Int \X Val) /\ t \in Table
    BY <2>4, <2>5 DEF l, t
  <2> QED BY <2>3, <2>7, <2>8, <2>9 DEF Walker
<1>3. CASE c.k = "rd"
  <2>1. c.v \in Nat /\ c.inc \in BOOLEAN /\ x.addr \in Int
    BY <1>3, CodeKinds DEF ReadCode, Walker
  <2>2. x.addr + c.v * Step(c.inc) \in Int
    BY <2>1 DEF Step
  <2>3. c.k \notin {"abs", "rel"} /\ ~IsWrite(c)
    BY <1>3 DEF IsWrite
  <2> QED BY <1>3, <2>2, <2>3 DEF Executes, Walker
<1>4. CASE c.k = "nl"
  BY <1>4 DEF Executes, IsWrite
<1> QED BY <1>1, <1>2, <1>3, <1>4, CodeKinds DEF IsWrite

LEMMA ExecutorIs ==
    /\ Machine(Executor, Walker, DownCode)
    /\ \A x \in Walker, c \in DownCode : Executor[<<x, c>>] = Executes(x, c)
BY ExecutesType DEF Executor, Machine

LEMMA UpKinds ==
    ASSUME NEW c \in UpCode
    PROVE  /\ c.k \in {"addr", "raw", "tbl", "int", "nl", "ack", "err", "reset"}
           /\ c.k = "addr" => c.v \in Int
           /\ Data(c) <=> c \in DataCode
           /\ Data(c) <=> c.k \in {"raw", "tbl"}
BY DEF UpCode, DataCode, Data

LEMMA TakesType ==
    ASSUME NEW x \in Taker, NEW c \in UpCode
    PROVE  Takes(x, c) \in Taker
<1>1. CASE c.k = "addr"
  <2>1. c.v \in Int
    BY <1>1, UpKinds
  <2> QED BY <1>1, <2>1 DEF Takes, Taker
<1>2. CASE Data(c)
  <2>1. c \in DataCode /\ c.k # "addr"
    BY <1>2, UpKinds DEF Data
  <2> DEFINE w == IF c.k = "raw" THEN c.v
                  ELSE IF c.v <= Len(x.tbl) THEN Back(x.tbl, c.v) ELSE Junk
             t == IF c.k = "raw" THEN Append(x.tbl, c.v) ELSE x.tbl
  <2>2. x.tbl \in Seq(Val) /\ Len(x.tbl) \in Nat
    BY LenProperties DEF Taker
  <2>3. w \in Val \cup {Junk} /\ t \in Seq(Val)
    <3>1. CASE c.k = "raw"
      <4>1. c.v \in Val
        BY <2>1, <3>1 DEF DataCode
      <4> QED BY <2>2, <3>1, <4>1, AppendProperties
    <3>2. CASE c.k = "tbl" /\ c.v <= Len(x.tbl)
      <4>1. c.v \in 1 .. Len(x.tbl)
        BY <2>1, <2>2, <3>2 DEF DataCode
      <4>2. Len(x.tbl) + 1 - c.v \in 1 .. Len(x.tbl)
        BY <2>2, <4>1
      <4>3. Back(x.tbl, c.v) \in Val
        BY <2>2, <4>2, ElementOfSeq DEF Back
      <4> QED BY <2>2, <3>2, <4>3
    <3>3. CASE c.k = "tbl" /\ ~(c.v <= Len(x.tbl))
      BY <2>2, <3>3
    <3> QED BY <2>1, <3>1, <3>2, <3>3 DEF DataCode
  <2>4. x.la + Step(c.inc) \in Int
    BY <2>1 DEF DataCode, Step, Taker
  <2>5. Append(x.vals, w) \in Seq(Val \cup {Junk})
    <3>1. x.vals \in Seq(Val \cup {Junk})
      BY DEF Taker
    <3> HIDE DEF w
    <3> QED BY <2>3, <3>1, AppendProperties
  <2>6. Takes(x, c) = [la |-> x.la + Step(c.inc), tbl |-> t, vals |-> Append(x.vals, w),
                       n |-> x.n + 1]
    BY <1>2, <2>1 DEF Takes
  <2> HIDE DEF w, t
  <2>7. x.n + 1 \in Nat
    BY DEF Taker
  <2> QED BY <2>3, <2>4, <2>5, <2>6, <2>7 DEF Taker
<1>3. CASE c.k # "addr" /\ ~Data(c)
  BY <1>3 DEF Takes
<1> QED BY <1>1, <1>2, <1>3

LEMMA ReceiverIs ==
    /\ Machine(Receiver, Taker, UpCode)
    /\ \A x \in Taker, c \in UpCode : Receiver[<<x, c>>] = Takes(x, c)
BY TakesType DEF Receiver, Machine

Executed(x, s) == Final(Executor, x, s)
Received(x, s) == Final(Receiver, x, s)

\* What a machine comes to, for the two in use here.
LEMMA ExecutedIs ==
    /\ \A x \in Walker : Executed(x, <<>>) = x
    /\ \A x \in Walker, s \in Seq(DownCode) :
         /\ Executed(x, s) \in Walker
         /\ \A c \in DownCode : Executed(x, Append(s, c)) = Executes(Executed(x, s), c)
         /\ \A r \in Seq(DownCode) : Executed(x, s \o r) = Executed(Executed(x, s), r)
         /\ s # <<>> => Executed(x, s) = Executed(Executes(x, Head(s)), Tail(s))
    /\ \A x \in Walker, c \in DownCode : Executed(x, <<c>>) = Executes(x, c)
<1>1. ASSUME NEW x \in Walker PROVE Executed(x, <<>>) = x
  BY ExecutorIs, FinalEmpty DEF Executed
<1>2. ASSUME NEW x \in Walker, NEW s \in Seq(DownCode)
      PROVE  /\ Executed(x, s) \in Walker
             /\ \A c \in DownCode : Executed(x, Append(s, c)) = Executes(Executed(x, s), c)
             /\ \A r \in Seq(DownCode) : Executed(x, s \o r) = Executed(Executed(x, s), r)
             /\ s # <<>> => Executed(x, s) = Executed(Executes(x, Head(s)), Tail(s))
  <2>1. Executed(x, s) \in Walker
    BY ExecutorIs, FinalType DEF Executed
  <2>2. ASSUME NEW c \in DownCode
        PROVE  Executed(x, Append(s, c)) = Executes(Executed(x, s), c)
    <3>1. Executed(x, Append(s, c)) = Executor[<<Executed(x, s), c>>]
      BY ExecutorIs, FinalAppend DEF Executed
    <3> QED BY <2>1, <3>1, ExecutorIs
  <2>3. ASSUME NEW r \in Seq(DownCode)
        PROVE  Executed(x, s \o r) = Executed(Executed(x, s), r)
    BY ExecutorIs, FinalConcat DEF Executed
  <2>4. ASSUME s # <<>> PROVE Executed(x, s) = Executed(Executes(x, Head(s)), Tail(s))
    <3>1. Executed(x, s) = Executed(Executor[<<x, Head(s)>>], Tail(s))
      BY <2>4, ExecutorIs, FinalHead DEF Executed
    <3>2. Head(s) \in DownCode
      BY <2>4, HeadTailProperties
    <3>3. Executor[<<x, Head(s)>>] = Executes(x, Head(s))
      BY <3>2, ExecutorIs
    <3> QED BY <3>1, <3>3
  <2> QED BY <2>1, <2>2, <2>3, <2>4
<1>3. ASSUME NEW x \in Walker, NEW c \in DownCode PROVE Executed(x, <<c>>) = Executes(x, c)
  <2>1. Executed(x, <<c>>) = Executor[<<x, c>>]
    BY ExecutorIs, FinalOne DEF Executed
  <2> QED BY <2>1, ExecutorIs
<1> QED BY <1>1, <1>2, <1>3

LEMMA ReceivedIs ==
    /\ \A x \in Taker : Received(x, <<>>) = x
    /\ \A x \in Taker, s \in Seq(UpCode) :
         /\ Received(x, s) \in Taker
         /\ \A c \in UpCode : Received(x, Append(s, c)) = Takes(Received(x, s), c)
         /\ \A r \in Seq(UpCode) : Received(x, s \o r) = Received(Received(x, s), r)
         /\ s # <<>> => Received(x, s) = Received(Takes(x, Head(s)), Tail(s))
    /\ \A x \in Taker, c \in UpCode : Received(x, <<c>>) = Takes(x, c)
<1>1. ASSUME NEW x \in Taker PROVE Received(x, <<>>) = x
  BY ReceiverIs, FinalEmpty DEF Received
<1>2. ASSUME NEW x \in Taker, NEW s \in Seq(UpCode)
      PROVE  /\ Received(x, s) \in Taker
             /\ \A c \in UpCode : Received(x, Append(s, c)) = Takes(Received(x, s), c)
             /\ \A r \in Seq(UpCode) : Received(x, s \o r) = Received(Received(x, s), r)
             /\ s # <<>> => Received(x, s) = Received(Takes(x, Head(s)), Tail(s))
  <2>1. Received(x, s) \in Taker
    BY ReceiverIs, FinalType DEF Received
  <2>2. ASSUME NEW c \in UpCode
        PROVE  Received(x, Append(s, c)) = Takes(Received(x, s), c)
    <3>1. Received(x, Append(s, c)) = Receiver[<<Received(x, s), c>>]
      BY ReceiverIs, FinalAppend DEF Received
    <3> QED BY <2>1, <3>1, ReceiverIs
  <2>3. ASSUME NEW r \in Seq(UpCode)
        PROVE  Received(x, s \o r) = Received(Received(x, s), r)
    BY ReceiverIs, FinalConcat DEF Received
  <2>4. ASSUME s # <<>> PROVE Received(x, s) = Received(Takes(x, Head(s)), Tail(s))
    <3>1. Received(x, s) = Received(Receiver[<<x, Head(s)>>], Tail(s))
      BY <2>4, ReceiverIs, FinalHead DEF Received
    <3>2. Head(s) \in UpCode
      BY <2>4, HeadTailProperties
    <3>3. Receiver[<<x, Head(s)>>] = Takes(x, Head(s))
      BY <3>2, ReceiverIs
    <3> QED BY <3>1, <3>3
  <2> QED BY <2>1, <2>2, <2>3, <2>4
<1>3. ASSUME NEW x \in Taker, NEW c \in UpCode PROVE Received(x, <<c>>) = Takes(x, c)
  <2>1. Received(x, <<c>>) = Receiver[<<x, c>>]
    BY ReceiverIs, FinalOne DEF Received
  <2> QED BY <2>1, ReceiverIs
<1> QED BY <1>1, <1>2, <1>3

\* The parts of a step.
LEMMA ExecutesParts ==
    ASSUME NEW x \in Walker, NEW c \in DownCode
    PROVE  LET y == Executes(x, c) IN
           /\ c.k \in {"abs", "rel"} =>
                /\ y.addr = DecodeAddress(x.addr, c) /\ y.newaddr /\ y.left = x.left
                /\ y.tbl = x.tbl /\ y.refs = x.refs /\ y.fits = x.fits
           /\ IsWrite(c) =>
                /\ y.addr = x.addr + Step(c.inc) /\ ~y.newaddr
                /\ y.left = IF x.left = <<>> THEN <<>> ELSE Tail(x.left)
                /\ y.tbl = Enter(x.tbl, c)
                /\ y.refs = (x.refs /\ (c.k = "wt" => c.v <= Len(x.tbl)))
                /\ y.fits = (x.fits /\ x.left # <<>>
                                    /\ Head(x.left) = <<x.addr, WordOf(c, x.tbl)>>)
           /\ c.k = "rd" =>
                /\ y.addr = x.addr + c.v * Step(c.inc) /\ ~y.newaddr /\ y.left = x.left
                /\ y.tbl = x.tbl /\ y.refs = x.refs /\ y.fits = x.fits
           /\ c.k = "nl" => y = x
BY DEF Executes, Walker, IsWrite

\* Once a reference or a write was wrong, it was.
LEMMA ExecutedRight ==
    ASSUME NEW x \in Walker, NEW s \in Seq(DownCode)
    PROVE  (Executed(x, s).refs => x.refs) /\ (Executed(x, s).fits => x.fits)
<1> DEFINE P == {q \in Seq(DownCode) : /\ Executed(x, q).refs => x.refs
                                       /\ Executed(x, q).fits => x.fits}
<1>1. <<>> \in P
  BY ExecutedIs, EmptySeq
<1>2. ASSUME NEW q \in P, NEW c \in DownCode PROVE Append(q, c) \in P
  <2>1. q \in Seq(DownCode) /\ Append(q, c) \in Seq(DownCode)
    BY AppendProperties
  <2>2. Executed(x, q) \in Walker /\ Executed(x, Append(q, c)) = Executes(Executed(x, q), c)
    BY <2>1, ExecutedIs
  <2>3. /\ Executes(Executed(x, q), c).refs => Executed(x, q).refs
        /\ Executes(Executed(x, q), c).fits => Executed(x, q).fits
    BY <2>2, ExecutesParts, CodeKinds DEF IsWrite
  <2> QED BY <2>1, <2>2, <2>3
<1>3. P = Seq(DownCode)
  <2>1. P \in SUBSET Seq(DownCode)
    OBVIOUS
  <2> HIDE DEF P
  <2> QED BY <1>1, <1>2, <2>1, SeqInduct
<1> QED BY <1>3

\* The table does not depend on the addresses.
LEMMA ExecutedTable ==
    ASSUME NEW x \in Walker, NEW y \in Walker, x.tbl = y.tbl, x.refs = y.refs,
           NEW s \in Seq(DownCode)
    PROVE  Executed(x, s).tbl = Executed(y, s).tbl /\ Executed(x, s).refs = Executed(y, s).refs
<1> DEFINE P == {q \in Seq(DownCode) : /\ Executed(x, q).tbl = Executed(y, q).tbl
                                       /\ Executed(x, q).refs = Executed(y, q).refs}
<1>1. <<>> \in P
  BY ExecutedIs, EmptySeq
<1>2. ASSUME NEW q \in P, NEW c \in DownCode PROVE Append(q, c) \in P
  <2>1. q \in Seq(DownCode) /\ Append(q, c) \in Seq(DownCode)
    BY AppendProperties
  <2> DEFINE u == Executed(x, q)
             v == Executed(y, q)
  <2>2. /\ u \in Walker /\ Executed(x, Append(q, c)) = Executes(u, c)
        /\ v \in Walker /\ Executed(y, Append(q, c)) = Executes(v, c)
    BY <2>1, ExecutedIs
  <2>3. u.tbl = v.tbl /\ u.refs = v.refs
    OBVIOUS
  <2> HIDE DEF u, v
  <2>4. /\ Executes(u, c).tbl = Executes(v, c).tbl
        /\ Executes(u, c).refs = Executes(v, c).refs
    <3>1. CASE IsWrite(c)
      <4>1. /\ Executes(u, c).tbl = Enter(u.tbl, c)
            /\ Executes(u, c).refs = (u.refs /\ (c.k = "wt" => c.v <= Len(u.tbl)))
            /\ Executes(v, c).tbl = Enter(v.tbl, c)
            /\ Executes(v, c).refs = (v.refs /\ (c.k = "wt" => c.v <= Len(v.tbl)))
        BY <2>2, <3>1, ExecutesParts
      <4> QED BY <2>3, <4>1
    <3>2. CASE ~IsWrite(c)
      <4>1. /\ Executes(u, c).tbl = u.tbl /\ Executes(u, c).refs = u.refs
            /\ Executes(v, c).tbl = v.tbl /\ Executes(v, c).refs = v.refs
        BY <2>2, <3>2, ExecutesParts, CodeKinds DEF IsWrite
      <4> QED BY <2>3, <4>1
    <3> QED BY <3>1, <3>2
  <2> QED BY <2>1, <2>2, <2>4
<1>3. P = Seq(DownCode)
  <2>1. P \in SUBSET Seq(DownCode)
    OBVIOUS
  <2> HIDE DEF P
  <2> QED BY <1>1, <1>2, <2>1, SeqInduct
<1> QED BY <1>3

\* Writes asked for later do not matter to those on their way.
AlsoAsked(x, new) == [x EXCEPT !.left = @ \o new]

LEMMA AlsoAskedType ==
    ASSUME NEW x \in Walker, NEW new \in Seq(Int \X Val)
    PROVE  /\ AlsoAsked(x, new) \in Walker
           /\ AlsoAsked(x, new).left = x.left \o new /\ AlsoAsked(x, new).addr = x.addr
           /\ AlsoAsked(x, new).newaddr = x.newaddr /\ AlsoAsked(x, new).tbl = x.tbl
           /\ AlsoAsked(x, new).refs = x.refs /\ AlsoAsked(x, new).fits = x.fits
<1>1. x.left \o new \in Seq(Int \X Val)
  BY ConcatProperties DEF Walker
<1> QED BY <1>1 DEF AlsoAsked, Walker

LEMMA ConcatHead ==
    ASSUME NEW S, NEW a \in Seq(S), NEW b \in Seq(S), a # <<>>
    PROVE  a \o b # <<>> /\ Head(a \o b) = Head(a) /\ Tail(a \o b) = Tail(a) \o b
<1>1. /\ Head(a) \in S /\ Tail(a) \in Seq(S) /\ a = <<Head(a)>> \o Tail(a)
  BY HeadTailProperties
<1> DEFINE e == Head(a)
           t == Tail(a)
           r == t \o b
<1>2. e \in S /\ t \in Seq(S) /\ a = <<e>> \o t /\ r \in Seq(S)
  BY <1>1, ConcatProperties
<1>3. a \o b = <<e>> \o r
  <2> HIDE DEF e, t
  <2>1. (<<e>> \o t) \o b = <<e>> \o (t \o b)
    BY <1>2, ConcatAssociative
  <2> QED BY <1>2, <2>1
<1>4. <<e>> \o r # <<>> /\ Head(<<e>> \o r) = e /\ Tail(<<e>> \o r) = r
  <2> HIDE DEF e, r, t
  <2> QED BY <1>2
<1> HIDE DEF r
<1>5. a \o b # <<>> /\ Head(a \o b) = e /\ Tail(a \o b) = r
  BY <1>3, <1>4
<1> QED BY <1>5 DEF r

LEMMA AlsoAskedStep ==
    ASSUME NEW x \in Walker, NEW c \in DownCode, NEW new \in Seq(Int \X Val),
           Executes(x, c).fits
    PROVE  Executes(AlsoAsked(x, new), c) = AlsoAsked(Executes(x, c), new)
<1>1. CASE c.k \in {"abs", "rel"}
  BY <1>1 DEF Executes, AlsoAsked, Walker
<1>2. CASE c.k = "rd"
  BY <1>2 DEF Executes, AlsoAsked, Walker, IsWrite
<1>3. CASE c.k = "nl"
  BY <1>3 DEF Executes, AlsoAsked, Walker, IsWrite
<1>4. CASE IsWrite(c)
  <2> DEFINE y == Executes(x, c)
             l == x.left \o new
  <2>1. /\ x.left # <<>> /\ x.fits /\ y.left = Tail(x.left)
        /\ Head(x.left) = <<x.addr, WordOf(c, x.tbl)>>
    BY <1>4, ExecutesParts
  <2>2. x.left \in Seq(Int \X Val)
    BY DEF Walker
  <2>3. l # <<>> /\ Head(l) = Head(x.left) /\ Tail(l) = Tail(x.left) \o new
    BY <2>1, <2>2, ConcatHead
  <2>4. c.k \notin {"abs", "rel"}
    BY <1>4 DEF IsWrite
  <2> DEFINE m == AlsoAsked(x, new)
             f == m.fits /\ m.left # <<>> /\ Head(m.left) = <<m.addr, WordOf(c, m.tbl)>>
             g == x.fits /\ x.left # <<>> /\ Head(x.left) = <<x.addr, WordOf(c, x.tbl)>>
             r == x.refs /\ (c.k = "wt" => c.v <= Len(x.tbl))
             t == Enter(x.tbl, c)
  <2>5. /\ m.left = l /\ m.addr = x.addr /\ m.tbl = x.tbl /\ m.refs = x.refs /\ m.fits = x.fits
    BY AlsoAskedType
  <2>6. f = TRUE /\ g = TRUE
    BY <2>1, <2>3, <2>5
  <2>7. Executes(m, c) = [addr |-> m.addr + Step(c.inc), newaddr |-> FALSE,
            left |-> IF m.left = <<>> THEN <<>> ELSE Tail(m.left), tbl |-> Enter(m.tbl, c),
            refs |-> m.refs /\ (c.k = "wt" => c.v <= Len(m.tbl)), fits |-> f]
    BY <1>4, <2>4 DEF Executes
  <2>8. y = [addr |-> x.addr + Step(c.inc), newaddr |-> FALSE,
             left |-> IF x.left = <<>> THEN <<>> ELSE Tail(x.left), tbl |-> t,
             refs |-> r, fits |-> g]
    BY <1>4, <2>4 DEF Executes
  <2>9. Executes(m, c) = [addr |-> x.addr + Step(c.inc), newaddr |-> FALSE,
                          left |-> Tail(x.left) \o new, tbl |-> t, refs |-> r, fits |-> TRUE]
    <3> HIDE DEF m, f, l, t
    <3>1. (IF m.left = <<>> THEN <<>> ELSE Tail(m.left)) = Tail(x.left) \o new
      BY <2>3, <2>5
    <3>2. /\ Enter(m.tbl, c) = t
          /\ (m.refs /\ (c.k = "wt" => c.v <= Len(m.tbl))) = r
          /\ m.addr + Step(c.inc) = x.addr + Step(c.inc)
      BY <2>5 DEF t
    <3> HIDE DEF r
    <3> QED BY <2>6, <2>7, <3>1, <3>2
  <2>10. y = [addr |-> x.addr + Step(c.inc), newaddr |-> FALSE, left |-> Tail(x.left), tbl |-> t,
              refs |-> r, fits |-> TRUE]
    <3> HIDE DEF y, r, t, g
    <3> QED BY <2>1, <2>6, <2>8
  <2>11. AlsoAsked(y, new) = [addr |-> x.addr + Step(c.inc), newaddr |-> FALSE,
                         left |-> Tail(x.left) \o new, tbl |-> t, refs |-> r, fits |-> TRUE]
    <3>1. y \in Walker
      BY ExecutesType
    <3> DEFINE z == AlsoAsked(y, new)
    <3>2. /\ z \in Walker /\ z.left = y.left \o new /\ z.addr = y.addr /\ z.newaddr = y.newaddr
          /\ z.tbl = y.tbl /\ z.refs = y.refs /\ z.fits = y.fits
      BY <3>1, AlsoAskedType
    <3>3. /\ y.left = Tail(x.left) /\ y.addr = x.addr + Step(c.inc) /\ y.newaddr = FALSE
          /\ y.tbl = t /\ y.refs = r /\ y.fits = TRUE
      <4> HIDE DEF y, r, t
      <4> QED BY <2>10
    <3> HIDE DEF y, z, r, t
    <3>4. z = [addr |-> z.addr, newaddr |-> z.newaddr, left |-> z.left, tbl |-> z.tbl,
               refs |-> z.refs, fits |-> z.fits]
      BY <3>2 DEF Walker
    <3>5. z = [addr |-> x.addr + Step(c.inc), newaddr |-> FALSE, left |-> Tail(x.left) \o new,
               tbl |-> t, refs |-> r, fits |-> TRUE]
      BY <3>2, <3>3, <3>4
    <3> QED BY <3>5 DEF z
  <2> QED BY <2>9, <2>11
<1> QED BY <1>1, <1>2, <1>3, <1>4, CodeKinds DEF IsWrite

LEMMA ExecutedMore ==
    ASSUME NEW x \in Walker, NEW s \in Seq(DownCode), NEW new \in Seq(Int \X Val),
           Executed(x, s).fits
    PROVE  Executed(AlsoAsked(x, new), s) = AlsoAsked(Executed(x, s), new)
<1> DEFINE P == {q \in Seq(DownCode) : Executed(x, q).fits =>
                                       Executed(AlsoAsked(x, new), q) = AlsoAsked(Executed(x, q), new)}
<1>0. AlsoAsked(x, new) \in Walker
  BY AlsoAskedType
<1>1. <<>> \in P
  BY <1>0, ExecutedIs, EmptySeq
<1>2. ASSUME NEW q \in P, NEW c \in DownCode PROVE Append(q, c) \in P
  <2>1. q \in Seq(DownCode) /\ Append(q, c) \in Seq(DownCode)
    BY AppendProperties
  <2>2. SUFFICES ASSUME Executed(x, Append(q, c)).fits
                 PROVE  Executed(AlsoAsked(x, new), Append(q, c)) = AlsoAsked(Executed(x, Append(q, c)), new)
    BY <2>1
  <2> DEFINE u == Executed(x, q)
  <2>3. u \in Walker /\ Executed(x, Append(q, c)) = Executes(u, c)
    BY <2>1, ExecutedIs
  <2>4. Executed(AlsoAsked(x, new), Append(q, c)) = Executes(Executed(AlsoAsked(x, new), q), c)
    BY <1>0, <2>1, ExecutedIs
  <2>5. u.fits
    <3>1. Executes(u, c).fits => u.fits
      <4> HIDE DEF u
      <4> QED BY <2>3, ExecutesParts, CodeKinds DEF IsWrite
    <3> QED BY <2>2, <2>3, <3>1
  <2>6. Executed(AlsoAsked(x, new), q) = AlsoAsked(u, new)
    BY <2>5
  <2>7. Executes(AlsoAsked(u, new), c) = AlsoAsked(Executes(u, c), new)
    BY <2>2, <2>3, AlsoAskedStep
  <2> QED BY <2>3, <2>4, <2>6, <2>7
<1>3. P = Seq(DownCode)
  <2>1. P \in SUBSET Seq(DownCode)
    OBVIOUS
  <2> HIDE DEF P
  <2> QED BY <1>1, <1>2, <2>1, SeqInduct
<1> QED BY <1>3

-----------------------------------------------------------------------------
(***************************************************************************)
(* The words of a write, through both tables.                              *)
(***************************************************************************)
\* A recursive function that takes a machine's steps comes to what the machine does.
LEMMA FinalOf ==
    ASSUME NEW S, NEW C, NEW step, Machine(step, S, C), NEW x \in S, NEW s \in Seq(C), NEW f,
           f[0] = x,
           \A i \in 1 .. Len(s) : f[i - 1] \in S => f[i] = step[<<f[i - 1], s[i]>>]
    PROVE  f[Len(s)] = Final(step, x, s)
<1> DEFINE T == Track(step, x, s)
           N == {n \in Nat : n <= Len(s) => f[n] = T[n]}
<1>0. Len(s) \in Nat
  BY LenProperties
<1>1. T \in [0 .. Len(s) -> S] /\ IsTrack(T, step, x, s)
  BY TrackIs
<1> HIDE DEF T
<1>2. 0 \in N
  BY <1>1 DEF IsTrack
<1>3. ASSUME NEW n \in N PROVE n + 1 \in N
  <2>1. SUFFICES ASSUME n + 1 <= Len(s) PROVE f[n + 1] = T[n + 1]
    OBVIOUS
  <2>2. n + 1 \in 1 .. Len(s) /\ (n + 1) - 1 = n /\ f[n] = T[n] /\ n \in 0 .. Len(s)
    BY <1>0, <2>1
  <2>3. T[n] \in S /\ T[n + 1] = step[<<T[n], s[n + 1]>>]
    BY <1>1, <2>2 DEF IsTrack
  <2>4. f[n + 1] = step[<<f[n], s[n + 1]>>]
    BY <2>2, <2>3
  <2> QED BY <2>2, <2>3, <2>4
<1>4. N = Nat
  <2>1. N \in SUBSET Nat
    OBVIOUS
  <2> HIDE DEF N
  <2> QED BY <1>2, <1>3, <2>1, NatInduct
<1>5. f[Len(s)] = T[Len(s)]
  BY <1>0, <1>4
<1> QED BY <1>5 DEF Final, T

\* One word of a write: it goes as it is, or as a reference that the board understands.
LEMMA WordEncoded ==
    ASSUME NEW a \in Table, NEW v \in Val, NEW inc \in BOOLEAN
    PROVE  LET code == EncodeWord(a, v, inc)
           IN  /\ code \in WriteCode /\ code.inc = inc
               /\ Enter(a, code) \in Table
               /\ \A b \in Table : AsFarBack(a, b) =>
                    /\ WordOf(code, b) = v
                    /\ code.k = "wt" => code.v <= Len(b)
                    /\ AsFarBack(Enter(a, code), Enter(b, code))
<1> DEFINE at == {i \in 1 .. WrReach : i <= Len(a) /\ Back(a, i) = v}
           code == EncodeWord(a, v, inc)
<1>0. Len(a) \in Nat
  BY LenProperties DEF Table
<1>1. CASE at = {}
  <2>1. code = [k |-> "wr", v |-> v, inc |-> inc]
    BY <1>1 DEF EncodeWord
  <2>2. code \in WriteCode /\ code.inc = inc /\ code.k = "wr" /\ code.v = v
    BY <2>1 DEF WriteCode
  <2> HIDE DEF code, at
  <2>3. \A b \in Table : AsFarBack(a, b) => AsFarBack(Enter(a, code), Enter(b, code))
    BY <2>2, EnterBoth
  <2>4. Enter(a, code) \in Table
    BY <2>2, EnterType
  <2> QED BY <2>2, <2>3, <2>4 DEF WordOf, code
<1>2. CASE at # {}
  <2> DEFINE n == Least(at)
  <2>1. n \in at
    <3>1. at \in SUBSET Nat
      BY ReachType
    <3> HIDE DEF at
    <3> QED BY <1>2, <3>1, LeastIs
  <2>2. n \in 1 .. WrReach /\ n <= Len(a) /\ Back(a, n) = v
    <3> HIDE DEF n
    <3> QED BY <2>1
  <2>3. code = [k |-> "wt", v |-> n, inc |-> inc]
    BY <1>2 DEF EncodeWord
  <2> HIDE DEF n, at
  <2>4. code \in WriteCode /\ code.inc = inc /\ code.k = "wt" /\ code.v = n
    BY <2>2, <2>3, ReachType DEF WriteCode
  <2> HIDE DEF code
  <2>5. ASSUME NEW b \in Table, AsFarBack(a, b)
        PROVE  WordOf(code, b) = v /\ code.v <= Len(b)
    <3>1. Len(a) <= Len(b) /\ Back(a, n) = Back(b, n) /\ Len(b) \in Nat
      <4>1. n \in 1 .. Len(a) /\ Len(b) \in Nat
        BY <1>0, <2>2, LenProperties, ReachType DEF Table
      <4> QED BY <2>5, <4>1 DEF AsFarBack
    <3> QED BY <1>0, <2>2, <2>4, <3>1, ReachType DEF WordOf
  <2>6. Enter(a, code) \in Table
    BY <2>4, EnterType
  <2>7. \A b \in Table : AsFarBack(a, b) => AsFarBack(Enter(a, code), Enter(b, code))
    BY <2>4, EnterBoth
  <2> QED BY <2>4, <2>5, <2>6, <2>7 DEF code
<1> QED BY <1>1, <1>2

Sending == [codes : Seq(WriteCode), tbl : Table]
Encoder(inc) == [p \in Sending \X Val |-> Encoded(p[1], p[2], inc)]

LEMMA EncodedType ==
    ASSUME NEW e \in Sending, NEW v \in Val, NEW inc \in BOOLEAN
    PROVE  Encoded(e, v, inc) \in Sending
<1> DEFINE code == EncodeWord(e.tbl, v, inc)
<1>1. e.tbl \in Table /\ e.codes \in Seq(WriteCode)
  BY DEF Sending
<1>2. code \in WriteCode /\ Enter(e.tbl, code) \in Table
  BY <1>1, WordEncoded
<1>3. Encoded(e, v, inc) = [codes |-> Append(e.codes, code), tbl |-> Enter(e.tbl, code)]
  BY DEF Encoded
<1> HIDE DEF code
<1>4. Append(e.codes, code) \in Seq(WriteCode)
  BY <1>1, <1>2, AppendProperties
<1> QED BY <1>2, <1>3, <1>4 DEF Sending

LEMMA EncoderIs ==
    ASSUME NEW inc \in BOOLEAN
    PROVE  /\ Machine(Encoder(inc), Sending, Val)
           /\ \A e \in Sending, v \in Val : Encoder(inc)[<<e, v>>] = Encoded(e, v, inc)
BY EncodedType DEF Encoder, Machine

LEMMA EncodeWordsIs ==
    ASSUME NEW a \in Table, NEW words \in Seq(Val), NEW inc \in BOOLEAN
    PROVE  EncodeWords(a, words, inc) = Final(Encoder(inc), [codes |-> <<>>, tbl |-> a], words)
<1> DEFINE x == [codes |-> <<>>, tbl |-> a]
           E(f) == [i \in 0 .. Len(words) |-> IF i = 0 THEN x
                                              ELSE Encoded(f[i - 1], words[i], inc)]
           K == CHOOSE f : f = E(f)
           T == Track(Encoder(inc), x, words)
<1>0. x \in Sending /\ Len(words) \in Nat
  BY LenProperties, EmptySeq DEF Sending
<1>1. T \in [0 .. Len(words) -> Sending] /\ IsTrack(T, Encoder(inc), x, words)
  <2> HIDE DEF x
  <2> QED BY <1>0, EncoderIs, TrackIs
<1> HIDE DEF T, x
<1>2. T = E(T)
  <2>1. ASSUME NEW i \in 0 .. Len(words) PROVE T[i] = E(T)[i]
    <3>1. CASE i = 0
      BY <1>1, <3>1 DEF IsTrack
    <3>2. CASE i # 0
      <4>1. i \in 1 .. Len(words) /\ i - 1 \in 0 .. Len(words)
        BY <1>0, <3>2
      <4>2. words[i] \in Val /\ T[i - 1] \in Sending
        BY <1>1, <4>1, ElementOfSeq
      <4>3. T[i] = Encoded(T[i - 1], words[i], inc)
        BY <1>1, <4>1, <4>2, EncoderIs DEF IsTrack
      <4> QED BY <3>2, <4>3
    <3> QED BY <3>1, <3>2
  <2>2. T = [i \in 0 .. Len(words) |-> T[i]]
    BY <1>1
  <2> QED BY <2>1, <2>2
<1>3. K = E(K)
  <2> HIDE DEF E
  <2> QED BY <1>2
<1>4. EncodeWords(a, words, inc) = K[Len(words)]
  BY DEF EncodeWords, x
<1> HIDE DEF K
<1>5. K[0] = x
  BY <1>0, <1>3
<1>6. ASSUME NEW i \in 1 .. Len(words), K[i - 1] \in Sending
      PROVE  K[i] = Encoder(inc)[<<K[i - 1], words[i]>>]
  <2>1. i \in 0 .. Len(words) /\ i # 0
    BY <1>0
  <2>2. K[i] = E(K)[i]
    BY <1>3
  <2>3. K[i] = Encoded(K[i - 1], words[i], inc)
    BY <2>1, <2>2
  <2>4. words[i] \in Val
    BY ElementOfSeq
  <2> HIDE DEF E
  <2> QED BY <1>6, <2>3, <2>4, EncoderIs
<1> HIDE DEF E
<1>7. K[Len(words)] = Final(Encoder(inc), x, words)
  BY <1>0, <1>5, <1>6, EncoderIs, FinalOf
<1> QED BY <1>4, <1>7 DEF x

LEMMA EncodeFacts ==
    ASSUME NEW a \in Table, NEW inc \in BOOLEAN
    PROVE  /\ EncodeWords(a, <<>>, inc) = [codes |-> <<>>, tbl |-> a]
           /\ \A words \in Seq(Val) :
                /\ EncodeWords(a, words, inc) \in Sending
                /\ \A v \in Val : EncodeWords(a, Append(words, v), inc) =
                                    Encoded(EncodeWords(a, words, inc), v, inc)
<1> DEFINE x == [codes |-> <<>>, tbl |-> a]
<1>1. x \in Sending
  BY EmptySeq DEF Sending
<1>2. ASSUME NEW words \in Seq(Val) PROVE EncodeWords(a, words, inc) = Final(Encoder(inc), x, words)
  BY EncodeWordsIs
<1> HIDE DEF x
<1>3. EncodeWords(a, <<>>, inc) = x
  <2>1. <<>> \in Seq(Val)
    BY EmptySeq
  <2>2. Final(Encoder(inc), x, <<>>) = x
    BY <1>1, EncoderIs, FinalEmpty
  <2> QED BY <1>2, <2>1, <2>2, Zenon
<1>4. ASSUME NEW words \in Seq(Val)
      PROVE  /\ EncodeWords(a, words, inc) \in Sending
             /\ \A v \in Val : EncodeWords(a, Append(words, v), inc) =
                                 Encoded(EncodeWords(a, words, inc), v, inc)
  <2>1. EncodeWords(a, words, inc) \in Sending
    BY <1>1, <1>2, EncoderIs, FinalType
  <2>2. ASSUME NEW v \in Val
        PROVE  EncodeWords(a, Append(words, v), inc) = Encoded(EncodeWords(a, words, inc), v, inc)
    <3>1. Append(words, v) \in Seq(Val)
      BY AppendProperties
    <3>2. EncodeWords(a, Append(words, v), inc) = Final(Encoder(inc), x, Append(words, v))
      BY <1>2, <3>1
    <3>3. Final(Encoder(inc), x, Append(words, v)) = Encoder(inc)[<<Final(Encoder(inc), x, words), v>>]
      BY <1>1, EncoderIs, FinalAppend
    <3>4. EncodeWords(a, words, inc) = Final(Encoder(inc), x, words)
      BY <1>2
    <3> QED BY <2>1, <3>2, <3>3, <3>4, EncoderIs
  <2> QED BY <2>1, <2>2
<1> QED BY <1>3, <1>4 DEF x

\* What is left of a sequence, behind its first n.
LEMMA RestOf ==
    ASSUME NEW S, NEW l \in Seq(S), NEW n \in Nat, n + 1 <= Len(l)
    PROVE  LET r == SubSeq(l, n + 1, Len(l))
           IN  r # <<>> /\ Head(r) = l[n + 1] /\ Tail(r) = SubSeq(l, n + 2, Len(l))
<1> DEFINE r == SubSeq(l, n + 1, Len(l))
           t == SubSeq(l, n + 2, Len(l))
<1>0. Len(l) \in Nat
  BY LenProperties
<1>1. /\ r \in Seq(S) /\ Len(r) = Len(l) - n
      /\ \A i \in 1 .. Len(r) : r[i] = l[n + i]
  <2>1. \A i \in 1 .. Len(l) : l[i] \in S
    BY ElementOfSeq
  <2>2. r = [i \in 1 .. Len(l) - n |-> l[n + i]]
    BY <1>0
  <2> HIDE DEF r
  <2> QED BY <1>0, <2>1, <2>2
<1>2. /\ t \in Seq(S) /\ Len(t) = Len(l) - n - 1
      /\ \A i \in 1 .. Len(t) : t[i] = l[n + 1 + i]
  <2>1. \A i \in 1 .. Len(l) : l[i] \in S
    BY ElementOfSeq
  <2>2. t = [i \in 1 .. Len(l) - n - 1 |-> l[n + 1 + i]]
    BY <1>0
  <2> HIDE DEF t
  <2> QED BY <1>0, <2>1, <2>2
<1> HIDE DEF r, t
<1>3. r # <<>> /\ Head(r) = l[n + 1]
  BY <1>0, <1>1
<1>4. /\ Tail(r) \in Seq(S) /\ Len(Tail(r)) = Len(r) - 1
      /\ \A i \in 1 .. Len(Tail(r)) : Tail(r)[i] = r[i + 1]
  BY <1>1, <1>3, HeadTailProperties
<1>5. Tail(r) = t
  <2>1. Len(Tail(r)) = Len(t)
    BY <1>0, <1>1, <1>2, <1>4
  <2>2. ASSUME NEW i \in 1 .. Len(t) PROVE Tail(r)[i] = t[i]
    <3>1. i + 1 \in 1 .. Len(r) /\ n + (i + 1) = n + 1 + i /\ i \in 1 .. Len(Tail(r))
      BY <1>0, <1>1, <1>2, <1>4
    <3> QED BY <1>1, <1>2, <1>4, <3>1
  <2> QED BY <1>2, <1>4, <2>1, <2>2, SeqEqual
<1> QED BY <1>3, <1>5 DEF r, t

\* The words of a write, executed: they reach their places, and the host's table is the end of the board's.
Expected(x, words, inc) ==
  /\ Len(words) <= Len(x.left)
  /\ \A i \in 1 .. Len(words) : x.left[i] = <<x.addr + (i - 1) * Step(inc), words[i]>>

Landed(x, e, words, inc) ==
  LET y == Executed(x, e.codes)
  IN  /\ Len(e.codes) = Len(words)
      /\ \A i \in 1 .. Len(words) : e.codes[i].inc = inc
      /\ AsFarBack(e.tbl, y.tbl)
      /\ y.refs = x.refs
      /\ y.addr = x.addr + Len(words) * Step(inc)
      /\ Len(words) > 0 => ~y.newaddr
      /\ Expected(x, words, inc) => /\ y.fits = x.fits
                                    /\ y.left = SubSeq(x.left, Len(words) + 1, Len(x.left))

LEMMA WordsLand ==
    ASSUME NEW x \in Walker, NEW a \in Table, AsFarBack(a, x.tbl), NEW inc \in BOOLEAN,
           NEW words \in Seq(Val)
    PROVE  Landed(x, EncodeWords(a, words, inc), words, inc)
<1> DEFINE P == {q \in Seq(Val) : Landed(x, EncodeWords(a, q, inc), q, inc)}
<1>1. <<>> \in P
  <2> DEFINE e == EncodeWords(a, <<>>, inc)
  <2>1. e.codes = <<>> /\ e.tbl = a
    BY EncodeFacts
  <2>2. Executed(x, e.codes) = x
    BY <2>1, ExecutedIs
  <2>3. x.addr + 0 * Step(inc) = x.addr /\ x.left \in Seq(Int \X Val)
    BY DEF Step, Walker
  <2>4. SubSeq(x.left, 1, Len(x.left)) = x.left
    BY <2>3
  <2> DEFINE w == <<>>
  <2>5. w \in Seq(Val) /\ Len(w) = 0
    BY EmptySeq
  <2> HIDE DEF w
  <2>6. Landed(x, e, w, inc)
    <3> HIDE DEF e
    <3>1. Len(e.codes) = 0
      BY <2>1
    <3> QED BY <2>1, <2>2, <2>3, <2>4, <2>5, <3>1 DEF Landed
  <2> QED BY <2>5, <2>6 DEF w
<1>2. ASSUME NEW q \in P, NEW v \in Val PROVE Append(q, v) \in P
  <2> DEFINE t == Append(q, v)
             e == EncodeWords(a, q, inc)
             code == EncodeWord(e.tbl, v, inc)
             d == EncodeWords(a, t, inc)
             y == Executed(x, e.codes)
             z == Executed(x, d.codes)
  <2>1. /\ q \in Seq(Val) /\ t \in Seq(Val) /\ Len(q) \in Nat /\ Len(t) = Len(q) + 1
        /\ t[Len(q) + 1] = v /\ \A i \in 1 .. Len(q) : t[i] = q[i]
    BY AppendProperties, LenProperties
  <2>2. Landed(x, e, q, inc)
    OBVIOUS
  <2>3. e \in Sending /\ d = Encoded(e, v, inc)
    BY <2>1, EncodeFacts
  <2> HIDE DEF t, e, d
  <2>4. d.codes = Append(e.codes, code) /\ d.tbl = Enter(e.tbl, code)
    BY <2>3 DEF Encoded
  <2>5. e.tbl \in Table /\ e.codes \in Seq(WriteCode) /\ e.codes \in Seq(DownCode)
    <3>1. WriteCode \subseteq DownCode
      BY DEF DownCode
    <3>2. e.tbl \in Table /\ e.codes \in Seq(WriteCode)
      BY <2>3 DEF Sending
    <3> QED BY <3>1, <3>2, ElementOfSeq
  <2>6. /\ Len(e.codes) = Len(q)
        /\ \A i \in 1 .. Len(q) : e.codes[i].inc = inc
        /\ AsFarBack(e.tbl, y.tbl)
        /\ y.refs = x.refs
        /\ y.addr = x.addr + Len(q) * Step(inc)
        /\ Expected(x, q, inc) => y.fits = x.fits /\ y.left = SubSeq(x.left, Len(q) + 1, Len(x.left))
    BY <2>2 DEF Landed
  <2>7. y \in Walker
    BY <2>5, ExecutedIs
  <2> HIDE DEF y
  <2>8. y.tbl \in Table /\ y.addr \in Int /\ x.addr \in Int /\ Step(inc) \in Int
    BY <2>7 DEF Walker, Step
  <2>9. /\ code \in WriteCode /\ code.inc = inc
        /\ WordOf(code, y.tbl) = v
        /\ code.k = "wt" => code.v <= Len(y.tbl)
        /\ AsFarBack(Enter(e.tbl, code), Enter(y.tbl, code))
    BY <2>5, <2>6, <2>8, WordEncoded
  <2> HIDE DEF code
  <2>10. code \in DownCode /\ IsWrite(code)
    BY <2>9 DEF DownCode, WriteCode, IsWrite
  <2>11. z = Executes(y, code)
    BY <2>4, <2>5, <2>10, ExecutedIs DEF y
  <2> HIDE DEF z
  <2>12. /\ z.addr = y.addr + Step(inc) /\ ~z.newaddr
         /\ z.left = IF y.left = <<>> THEN <<>> ELSE Tail(y.left)
         /\ z.tbl = Enter(y.tbl, code)
         /\ z.refs = (y.refs /\ (code.k = "wt" => code.v <= Len(y.tbl)))
         /\ z.fits = (y.fits /\ y.left # <<>> /\ Head(y.left) = <<y.addr, WordOf(code, y.tbl)>>)
    BY <2>7, <2>9, <2>10, <2>11, ExecutesParts
  <2>13. AsFarBack(d.tbl, z.tbl)
    BY <2>4, <2>9, <2>12
  <2>14. z.refs = x.refs
    BY <2>6, <2>9, <2>12, <2>7 DEF Walker
  <2>15. z.addr = x.addr + Len(t) * Step(inc)
    <3>1. CASE inc
      <4>1. Step(inc) = 1
        BY <3>1 DEF Step
      <4> QED BY <2>1, <2>6, <2>8, <2>12, <4>1
    <3>2. CASE ~inc
      <4>1. Step(inc) = 0
        BY <3>2 DEF Step
      <4> QED BY <2>1, <2>6, <2>8, <2>12, <4>1
    <3> QED BY <3>1, <3>2
  <2>16. Len(d.codes) = Len(t) /\ \A i \in 1 .. Len(t) : d.codes[i].inc = inc
    <3>1. Len(d.codes) = Len(q) + 1 /\ d.codes[Len(q) + 1] = code
          /\ \A i \in 1 .. Len(q) : d.codes[i] = e.codes[i]
      BY <2>4, <2>5, <2>6, <2>9, AppendProperties
    <3> QED BY <2>1, <2>6, <2>9, <3>1
  <2>17. ASSUME Expected(x, t, inc)
         PROVE  z.fits = x.fits /\ z.left = SubSeq(x.left, Len(t) + 1, Len(x.left))
    <3> DEFINE l == x.left
    <3>1. l \in Seq(Int \X Val) /\ Len(l) \in Nat
      BY LenProperties DEF Walker
    <3>2. Len(q) + 1 <= Len(l) /\ l[Len(q) + 1] = <<x.addr + Len(q) * Step(inc), v>>
      <4>1. Len(q) + 1 \in 1 .. Len(t) /\ (Len(q) + 1) - 1 = Len(q)
        BY <2>1
      <4> QED BY <2>1, <2>17, <4>1 DEF Expected
    <3>3. Expected(x, q, inc)
      BY <2>1, <2>17, <3>1 DEF Expected
    <3>4. y.fits = x.fits /\ y.left = SubSeq(l, Len(q) + 1, Len(l))
      BY <2>6, <3>3
    <3> HIDE DEF l
    <3>5. /\ y.left # <<>> /\ Head(y.left) = l[Len(q) + 1]
          /\ Tail(y.left) = SubSeq(l, Len(q) + 2, Len(l))
      BY <2>1, <3>1, <3>2, <3>4, RestOf
    <3>6. Head(y.left) = <<y.addr, WordOf(code, y.tbl)>>
      BY <2>6, <2>9, <3>2, <3>5
    <3>7. z.fits = x.fits
      <4>1. y.left # <<>>
        BY <3>5
      <4>2. z.fits = (y.fits /\ TRUE)
        BY <2>12, <3>6, <4>1
      <4>3. y.fits \in BOOLEAN
        BY <2>7 DEF Walker
      <4> QED BY <3>4, <4>2, <4>3
    <3>8. z.left = SubSeq(l, Len(t) + 1, Len(l))
      BY <2>1, <2>12, <3>5
    <3> QED BY <3>7, <3>8 DEF l
  <2>18. Landed(x, d, t, inc)
    BY <2>12, <2>13, <2>14, <2>15, <2>16, <2>17 DEF Landed, z
  <2> QED BY <2>1, <2>18 DEF t, d
<1>3. P = Seq(Val)
  <2>1. P \in SUBSET Seq(Val)
    OBVIOUS
  <2> HIDE DEF P
  <2> QED BY <1>1, <1>2, <2>1, SeqInduct
<1> QED BY <1>3

-----------------------------------------------------------------------------
(***************************************************************************)
(* The table of the decoder, which stands before the executor.             *)
(***************************************************************************)
\* The table that the decoder has after codes of which the executor knows nothing.
Enterer == [p \in Table \X DownCode |-> Enter(p[1], p[2])]

LEMMA EntererIs ==
    /\ Machine(Enterer, Table, DownCode)
    /\ \A t \in Table, c \in DownCode : Enterer[<<t, c>>] = Enter(t, c)
<1>1. ASSUME NEW t \in Table, NEW c \in DownCode PROVE Enter(t, c) \in Table
  <2>1. CASE c \in WriteCode
    BY <2>1, EnterType
  <2>2. CASE c \notin WriteCode
    <3>1. c.k # "wr"
      BY <2>2, CodeKinds DEF IsWrite
    <3> QED BY <3>1 DEF Enter
  <2> QED BY <2>1, <2>2
<1> QED BY <1>1 DEF Enterer, Machine

LEMMA EnteredIs ==
    ASSUME board.wrtbl \in Table, NEW codes \in Seq(DownCode)
    PROVE  Entered(codes) = Final(Enterer, board.wrtbl, codes)
<1> DEFINE x == board.wrtbl
           E(f) == [i \in 0 .. Len(codes) |-> IF i = 0 THEN x ELSE Enter(f[i - 1], codes[i])]
           K == CHOOSE f : f = E(f)
           T == Track(Enterer, x, codes)
<1>0. x \in Table /\ Len(codes) \in Nat
  BY LenProperties
<1>4. Entered(codes) = K[Len(codes)]
  BY DEF Entered
<1> HIDE DEF x
<1>1. T \in [0 .. Len(codes) -> Table] /\ IsTrack(T, Enterer, x, codes)
  BY <1>0, EntererIs, TrackIs
<1> HIDE DEF T
<1>2. T = E(T)
  <2>1. ASSUME NEW i \in 0 .. Len(codes) PROVE T[i] = E(T)[i]
    <3>1. CASE i = 0
      BY <1>1, <3>1 DEF IsTrack
    <3>2. CASE i # 0
      <4>1. i \in 1 .. Len(codes) /\ i - 1 \in 0 .. Len(codes)
        BY <1>0, <3>2
      <4>2. codes[i] \in DownCode /\ T[i - 1] \in Table
        BY <1>1, <4>1, ElementOfSeq
      <4>3. T[i] = Enter(T[i - 1], codes[i])
        BY <1>1, <4>1, <4>2, EntererIs DEF IsTrack
      <4> QED BY <3>2, <4>3
    <3> QED BY <3>1, <3>2
  <2>2. T = [i \in 0 .. Len(codes) |-> T[i]]
    BY <1>1
  <2> QED BY <2>1, <2>2
<1>3. K = E(K)
  <2> HIDE DEF E
  <2> QED BY <1>2
<1> HIDE DEF K
<1>5. K[0] = x
  BY <1>0, <1>3
<1>6. ASSUME NEW i \in 1 .. Len(codes), K[i - 1] \in Table
      PROVE  K[i] = Enterer[<<K[i - 1], codes[i]>>]
  <2>1. i \in 0 .. Len(codes) /\ i # 0
    BY <1>0
  <2>2. K[i] = E(K)[i]
    BY <1>3
  <2>3. K[i] = Enter(K[i - 1], codes[i])
    BY <2>1, <2>2
  <2>4. codes[i] \in DownCode
    BY ElementOfSeq
  <2> HIDE DEF E
  <2> QED BY <1>6, <2>3, <2>4, EntererIs
<1> HIDE DEF E
<1>7. K[Len(codes)] = Final(Enterer, x, codes)
  BY <1>0, <1>5, <1>6, EntererIs, FinalOf
<1> QED BY <1>4, <1>7 DEF x

LEMMA TableExecuted ==
    ASSUME NEW x \in Walker, NEW s \in Seq(DownCode)
    PROVE  Final(Enterer, x.tbl, s) = Executed(x, s).tbl
<1> DEFINE P == {q \in Seq(DownCode) : Final(Enterer, x.tbl, q) = Executed(x, q).tbl}
<1>0. x.tbl \in Table
  BY DEF Walker
<1>1. <<>> \in P
  <2>1. Executed(x, <<>>) = x /\ Final(Enterer, x.tbl, <<>>) = x.tbl
    BY <1>0, ExecutedIs, EntererIs, FinalEmpty
  <2> QED BY <2>1, EmptySeq
<1>2. ASSUME NEW q \in P, NEW c \in DownCode PROVE Append(q, c) \in P
  <2>1. q \in Seq(DownCode) /\ Append(q, c) \in Seq(DownCode)
    BY AppendProperties
  <2> DEFINE u == Executed(x, q)
  <2>2. u \in Walker /\ Executed(x, Append(q, c)) = Executes(u, c)
    BY <2>1, ExecutedIs
  <2>3. Final(Enterer, x.tbl, Append(q, c)) = Enterer[<<Final(Enterer, x.tbl, q), c>>]
    BY <1>0, <2>1, EntererIs, FinalAppend
  <2>4. Final(Enterer, x.tbl, q) = u.tbl
    OBVIOUS
  <2> HIDE DEF u
  <2>5. u.tbl \in Table
    BY <2>2 DEF Walker
  <2>6. Final(Enterer, x.tbl, Append(q, c)) = Enter(u.tbl, c)
    BY <2>3, <2>4, <2>5, EntererIs
  <2>7. Executes(u, c).tbl = Enter(u.tbl, c)
    <3>1. CASE IsWrite(c)
      BY <2>2, <3>1, ExecutesParts
    <3>2. CASE ~IsWrite(c)
      <4>1. Executes(u, c).tbl = u.tbl
        BY <2>2, <3>2, ExecutesParts, CodeKinds DEF IsWrite
      <4> QED BY <3>2, <4>1 DEF Enter, IsWrite
    <3> QED BY <3>1, <3>2
  <2> QED BY <2>1, <2>2, <2>6, <2>7
<1>3. P = Seq(DownCode)
  <2>1. P \in SUBSET Seq(DownCode)
    OBVIOUS
  <2> HIDE DEF P
  <2> QED BY <1>1, <1>2, <2>1, SeqInduct
<1> QED BY <1>3

-----------------------------------------------------------------------------
\* The parts of a code taken.
LEMMA TakesParts ==
    ASSUME NEW x \in Taker, NEW c \in UpCode
    PROVE  LET y == Takes(x, c) IN
           /\ c.k = "addr" => y.la = c.v /\ y.tbl = x.tbl /\ y.vals = x.vals /\ y.n = x.n
           /\ Data(c) =>
                /\ y.la = x.la + Step(c.inc) /\ y.n = x.n + 1
                /\ y.tbl = IF c.k = "raw" THEN Append(x.tbl, c.v) ELSE x.tbl
                /\ y.vals = Append(x.vals, IF c.k = "raw" THEN c.v
                                           ELSE IF c.v <= Len(x.tbl) THEN Back(x.tbl, c.v)
                                           ELSE Junk)
           /\ c.k \notin {"addr", "raw", "tbl"} => y = x
BY DEF Takes, Taker, Data

LEMMA ReceivedQuiet ==
    ASSUME NEW x \in Taker, NEW s \in Seq(UpCode), \A i \in 1 .. Len(s) : Quiet(s[i])
    PROVE  Received(x, s) = x
<1> DEFINE P == {q \in Seq(UpCode) : (\A i \in 1 .. Len(q) : Quiet(q[i])) => Received(x, q) = x}
<1>1. <<>> \in P
  BY ReceivedIs, EmptySeq
<1>2. ASSUME NEW q \in P, NEW c \in UpCode PROVE Append(q, c) \in P
  <2>1. /\ q \in Seq(UpCode) /\ Append(q, c) \in Seq(UpCode) /\ Len(q) \in Nat
        /\ Len(Append(q, c)) = Len(q) + 1 /\ Append(q, c)[Len(q) + 1] = c
        /\ \A i \in 1 .. Len(q) : Append(q, c)[i] = q[i]
    BY AppendProperties, LenProperties
  <2>2. SUFFICES ASSUME \A i \in 1 .. Len(Append(q, c)) : Quiet(Append(q, c)[i])
                 PROVE  Received(x, Append(q, c)) = x
    BY <2>1
  <2>3. Quiet(c) /\ \A i \in 1 .. Len(q) : Quiet(q[i])
    <3> DEFINE t == Append(q, c)
    <3> HIDE DEF t
    <3>1. /\ Len(t) = Len(q) + 1 /\ t[Len(q) + 1] = c /\ \A i \in 1 .. Len(q) : t[i] = q[i]
          /\ \A i \in 1 .. Len(t) : Quiet(t[i])
      BY <2>1, <2>2 DEF t
    <3> QED BY <2>1, <3>1
  <2>4. Received(x, q) = x
    BY <2>3
  <2>5. Received(x, Append(q, c)) = Takes(x, c)
    BY <2>1, <2>4, ReceivedIs
  <2>6. c.k \notin {"addr", "raw", "tbl"}
    BY <2>3 DEF Quiet
  <2> QED BY <2>5, <2>6, TakesParts
<1>3. P = Seq(UpCode)
  <2>1. P \in SUBSET Seq(UpCode)
    OBVIOUS
  <2> HIDE DEF P
  <2> QED BY <1>1, <1>2, <2>1, SeqInduct
<1> QED BY <1>3

\* As many words as data codes; so none, if the number stays.
LEMMA ReceivedCounts ==
    ASSUME NEW x \in Taker, NEW s \in Seq(UpCode)
    PROVE  /\ Received(x, s).n >= x.n
           /\ Received(x, s).n = x.n => \A i \in 1 .. Len(s) : ~Data(s[i])
<1> DEFINE P == {q \in Seq(UpCode) :
                   /\ Received(x, q).n >= x.n
                   /\ Received(x, q).n = x.n => \A i \in 1 .. Len(q) : ~Data(q[i])}
<1>0. x.n \in Nat
  BY DEF Taker
<1>1. <<>> \in P
  <2>1. Received(x, <<>>) = x
    BY ReceivedIs
  <2>2. <<>> \in Seq(UpCode) /\ Len(<<>>) = 0
    BY EmptySeq
  <2> QED BY <1>0, <2>1, <2>2
<1>2. ASSUME NEW q \in P, NEW c \in UpCode PROVE Append(q, c) \in P
  <2> DEFINE t == Append(q, c)
             u == Received(x, q)
             v == Received(x, t)
  <2>1. /\ q \in Seq(UpCode) /\ t \in Seq(UpCode) /\ Len(q) \in Nat
        /\ Len(t) = Len(q) + 1 /\ t[Len(q) + 1] = c
        /\ \A i \in 1 .. Len(q) : t[i] = q[i]
    BY AppendProperties, LenProperties
  <2>2. u \in Taker /\ v = Takes(u, c)
    BY <2>1, ReceivedIs
  <2>3. u.n >= x.n /\ (u.n = x.n => \A i \in 1 .. Len(q) : ~Data(q[i]))
    OBVIOUS
  <2> HIDE DEF u, v, t
  <2>4. u.n \in Nat
    BY <2>2 DEF Taker
  <2>5. CASE Data(c)
    <3>1. v.n = u.n + 1
      BY <2>2, <2>5, TakesParts
    <3>2. v.n >= x.n /\ v.n # x.n
      BY <1>0, <2>3, <2>4, <3>1
    <3> QED BY <2>1, <3>2 DEF v, t
  <2>6. CASE ~Data(c)
    <3>1. v.n = u.n
      BY <2>2, <2>6, TakesParts, UpKinds DEF Data
    <3>2. v.n >= x.n
      BY <2>3, <3>1
    <3>3. ASSUME v.n = x.n, NEW i \in 1 .. Len(t) PROVE ~Data(t[i])
      <4>1. CASE i = Len(q) + 1
        BY <2>1, <2>6, <4>1
      <4>2. CASE i # Len(q) + 1
        <5>1. i \in 1 .. Len(q)
          BY <2>1, <4>2
        <5> QED BY <2>1, <2>3, <3>1, <3>3, <5>1
      <4> QED BY <4>1, <4>2
    <3> QED BY <2>1, <3>2, <3>3 DEF v, t
  <2> QED BY <2>5, <2>6
<1>3. P = Seq(UpCode)
  <2>1. P \in SUBSET Seq(UpCode)
    OBVIOUS
  <2> HIDE DEF P
  <2> QED BY <1>1, <1>2, <2>1, SeqInduct
<1> QED BY <1>3

-----------------------------------------------------------------------------
(***************************************************************************)
(* The words of a read, through both tables.                               *)
(***************************************************************************)
(* The answers to a read.                                                  *)
Answering == [codes : Seq(DataCode), tbl : Seq(Val)]
Compressor(inc) ==
  [p \in Answering \X (Val \X BOOLEAN) |-> Compress(p[1], p[2][1], p[2][2], inc)]

\* One answer: the host finds the word that the board meant, if their tables are equal.
\* f is e with one code more, and the host that takes it takes w.
CompressedTo(e, w, f, inc) ==
  \E code \in DataCode :
     /\ f.codes = Append(e.codes, code)
     /\ f \in Answering
     /\ code.inc = inc
     /\ \A x \in Taker :
          LET y == Takes(x, code)
          IN  /\ y.n = x.n + 1 /\ y.la = x.la + Step(inc)
              /\ x.tbl = e.tbl => y.tbl = f.tbl /\ y.vals = Append(x.vals, w)

LEMMA WordCompressed ==
    ASSUME NEW e \in Answering, NEW w \in Val, NEW small \in BOOLEAN, NEW inc \in BOOLEAN,
           NEW f, f = Compress(e, w, small, inc)
    PROVE  CompressedTo(e, w, f, inc)
<1> USE DEF CompressedTo
<1> DEFINE at == {d \in 1 .. Len(e.tbl) : Back(e.tbl, d) = w}
<1>0. e.tbl \in Seq(Val) /\ Len(e.tbl) \in Nat /\ e.codes \in Seq(DataCode)
  BY LenProperties DEF Answering
<1>1. CASE small /\ at # {}
  <2> DEFINE n == Least(at)
             code == [k |-> "tbl", v |-> n, inc |-> inc]
  <2>1. n \in at
    <3>1. at \in SUBSET Nat
      BY <1>0
    <3> HIDE DEF at
    <3> QED BY <1>1, <3>1, LeastIs
  <2>2. n \in 1 .. Len(e.tbl) /\ Back(e.tbl, n) = w
    <3> HIDE DEF n
    <3> QED BY <2>1
  <2>3. f = [codes |-> Append(e.codes, code), tbl |-> e.tbl]
    BY <1>1 DEF Compress
  <2> HIDE DEF n, at
  <2>4. code \in DataCode /\ code.k = "tbl" /\ code.v = n /\ code.inc = inc /\ code \in UpCode
        /\ Data(code)
    BY <1>0, <2>2 DEF DataCode, UpCode, Data
  <2> HIDE DEF code
  <2>5. f \in Answering
    <3>1. Append(e.codes, code) \in Seq(DataCode)
      BY <1>0, <2>4, AppendProperties
    <3> QED BY <1>0, <2>3, <3>1 DEF Answering
  <2>6. ASSUME NEW x \in Taker
        PROVE  LET y == Takes(x, code)
               IN  /\ y.n = x.n + 1 /\ y.la = x.la + Step(inc)
                   /\ x.tbl = e.tbl => y.tbl = f.tbl /\ y.vals = Append(x.vals, w)
    <3> DEFINE y == Takes(x, code)
    <3>1. /\ y.la = x.la + Step(code.inc) /\ y.n = x.n + 1
          /\ y.tbl = IF code.k = "raw" THEN Append(x.tbl, code.v) ELSE x.tbl
          /\ y.vals = Append(x.vals, IF code.k = "raw" THEN code.v
                                     ELSE IF code.v <= Len(x.tbl) THEN Back(x.tbl, code.v)
                                     ELSE Junk)
      BY <2>4, TakesParts
    <3> HIDE DEF y
    <3>2. f.tbl = e.tbl
      BY <2>3
    <3>3. ASSUME x.tbl = e.tbl PROVE y.tbl = f.tbl /\ y.vals = Append(x.vals, w)
      <4>1. n <= Len(x.tbl) /\ Back(x.tbl, n) = w
        BY <1>0, <2>2, <3>3
      <4> QED BY <2>4, <3>1, <3>2, <3>3, <4>1
    <3> QED BY <2>4, <3>1, <3>3 DEF y
  <2>7. f.codes = Append(e.codes, code)
    BY <2>3
  <2> QED BY <2>4, <2>5, <2>6, <2>7
<1>2. CASE ~(small /\ at # {})
  <2> DEFINE code == [k |-> "raw", v |-> w, inc |-> inc]
  <2>1. f = [codes |-> Append(e.codes, code), tbl |-> Append(e.tbl, w)]
    BY <1>2 DEF Compress
  <2>2. code \in DataCode /\ code.k = "raw" /\ code.v = w /\ code.inc = inc /\ code \in UpCode
        /\ Data(code)
    BY DEF DataCode, UpCode, Data
  <2> HIDE DEF code, at
  <2>3. f \in Answering
    <3>1. Append(e.codes, code) \in Seq(DataCode) /\ Append(e.tbl, w) \in Seq(Val)
      BY <1>0, <2>2, AppendProperties
    <3> QED BY <2>1, <3>1 DEF Answering
  <2>4. f.tbl = Append(e.tbl, w) /\ f.codes = Append(e.codes, code)
    BY <2>1
  <2>5. ASSUME NEW x \in Taker
        PROVE  LET y == Takes(x, code)
               IN  /\ y.n = x.n + 1 /\ y.la = x.la + Step(inc)
                   /\ x.tbl = e.tbl => y.tbl = f.tbl /\ y.vals = Append(x.vals, w)
    <3> DEFINE y == Takes(x, code)
    <3>1. /\ y.la = x.la + Step(code.inc) /\ y.n = x.n + 1
          /\ y.tbl = IF code.k = "raw" THEN Append(x.tbl, code.v) ELSE x.tbl
          /\ y.vals = Append(x.vals, IF code.k = "raw" THEN code.v
                                     ELSE IF code.v <= Len(x.tbl) THEN Back(x.tbl, code.v)
                                     ELSE Junk)
      BY <2>2, TakesParts
    <3> HIDE DEF y
    <3> QED BY <2>2, <2>4, <3>1 DEF y
  <2> QED BY <2>2, <2>3, <2>4, <2>5
<1> QED BY <1>1, <1>2

LEMMA CompressorIs ==
    ASSUME NEW inc \in BOOLEAN
    PROVE  /\ Machine(Compressor(inc), Answering, Val \X BOOLEAN)
           /\ \A e \in Answering, w \in Val, small \in BOOLEAN :
                Compressor(inc)[<<e, <<w, small>>>>] = Compress(e, w, small, inc)
<1>1. ASSUME NEW e \in Answering, NEW p \in Val \X BOOLEAN
      PROVE  Compress(e, p[1], p[2], inc) \in Answering
  BY WordCompressed DEF CompressedTo
<1> QED BY <1>1 DEF Compressor, Machine

LEMMA ConcatAppendIs ==
    ASSUME NEW S, NEW a \in Seq(S), NEW b \in Seq(S), NEW e \in S
    PROVE  a \o Append(b, e) = Append(a \o b, e)
OBVIOUS

Firsts(s) == [i \in 1 .. Len(s) |-> s[i][1]]

AnswersAre(t, s, inc) ==
  LET e == Final(Compressor(inc), [codes |-> <<>>, tbl |-> t], s)
  IN  /\ e \in Answering
      /\ Len(e.codes) = Len(s)
      /\ \A x \in Taker :
           LET y == Received(x, e.codes)
           IN  /\ y.n = x.n + Len(s) /\ y.la = x.la + Len(s) * Step(inc)
               /\ x.tbl = t => y.tbl = e.tbl /\ y.vals = x.vals \o Firsts(s)

LEMMA PairsAnswered ==
    ASSUME NEW t \in Seq(Val), NEW inc \in BOOLEAN, NEW s \in Seq(Val \X BOOLEAN)
    PROVE  AnswersAre(t, s, inc)
<1> DEFINE B == Val \X BOOLEAN
           x0 == [codes |-> <<>>, tbl |-> t]
           P == {q \in Seq(B) : AnswersAre(t, q, inc)}
<1>0. x0 \in Answering
  BY EmptySeq DEF Answering
<1>1. <<>> \in P
  <2> DEFINE q == <<>>
  <2>1. q \in Seq(B) /\ Len(q) = 0
    BY EmptySeq
  <2>2. Final(Compressor(inc), x0, q) = x0
    <3> HIDE DEF x0
    <3> QED BY <1>0, CompressorIs, FinalEmpty
  <2>3. x0.codes = <<>> /\ x0.tbl = t
    OBVIOUS
  <2> HIDE DEF q
  <2>4. Firsts(q) = <<>>
    BY <2>1 DEF Firsts
  <2>5. Len(x0.codes) = 0
    BY <2>3
  <2> HIDE DEF x0
  <2>6. ASSUME NEW x \in Taker
        PROVE  LET y == Received(x, x0.codes)
               IN  /\ y.n = x.n + 0 /\ y.la = x.la + 0 * Step(inc)
                   /\ x.tbl = t => y.tbl = x0.tbl /\ y.vals = x.vals \o Firsts(q)
    <3>1. Received(x, x0.codes) = x
      BY <2>3, ReceivedIs
    <3>2. x.n + 0 = x.n /\ x.la + 0 * Step(inc) = x.la /\ x.vals \in Seq(Val \cup {Junk})
      BY DEF Taker, Step
    <3>3. x.vals \o Firsts(q) = x.vals
      BY <2>4, <3>2, ConcatEmptySeq
    <3> QED BY <2>3, <3>1, <3>2, <3>3
  <2>7. AnswersAre(t, q, inc)
    BY <1>0, <2>1, <2>2, <2>5, <2>6 DEF AnswersAre, x0
  <2> QED BY <2>1, <2>7 DEF q
<1>2. ASSUME NEW q \in P, NEW c \in B PROVE Append(q, c) \in P
  <2> DEFINE r == Append(q, c)
             e == Final(Compressor(inc), x0, q)
             f == Final(Compressor(inc), x0, r)
  <2>1. /\ q \in Seq(B) /\ r \in Seq(B) /\ Len(q) \in Nat
        /\ Len(r) = Len(q) + 1 /\ r[Len(q) + 1] = c
        /\ \A i \in 1 .. Len(q) : r[i] = q[i]
    BY AppendProperties, LenProperties
  <2>2. c[1] \in Val /\ c[2] \in BOOLEAN /\ c = <<c[1], c[2]>>
    OBVIOUS
  <2>3. /\ e \in Answering /\ Len(e.codes) = Len(q)
        /\ \A x \in Taker :
             LET y == Received(x, e.codes)
             IN  /\ y.n = x.n + Len(q) /\ y.la = x.la + Len(q) * Step(inc)
                 /\ x.tbl = t => y.tbl = e.tbl /\ y.vals = x.vals \o Firsts(q)
    BY DEF AnswersAre
  <2>4. f = Compressor(inc)[<<e, c>>]
    <3> HIDE DEF x0, B
    <3> QED BY <1>0, <2>1, CompressorIs, FinalAppend DEF B
  <2> HIDE DEF e, f
  <2>5. f = Compress(e, c[1], c[2], inc)
    BY <2>2, <2>3, <2>4, CompressorIs
  <2>6. PICK code \in DataCode :
             /\ f.codes = Append(e.codes, code)
             /\ f \in Answering
             /\ code.inc = inc
             /\ \A x \in Taker :
                  LET y == Takes(x, code)
                  IN  /\ y.n = x.n + 1 /\ y.la = x.la + Step(inc)
                      /\ x.tbl = e.tbl => y.tbl = f.tbl /\ y.vals = Append(x.vals, c[1])
    <3> DEFINE w == c[1]
               small == c[2]
    <3>1. w \in Val /\ small \in BOOLEAN /\ f = Compress(e, w, small, inc) /\ e \in Answering
      BY <2>2, <2>3, <2>5
    <3> HIDE DEF w, small
    <3>2. CompressedTo(e, w, f, inc)
      BY <3>1, WordCompressed
    <3> QED BY <3>2 DEF w, CompressedTo
  <2>7. e.codes \in Seq(DataCode) /\ e.codes \in Seq(UpCode) /\ code \in UpCode
    <3>1. DataCode \subseteq UpCode
      BY DEF UpCode
    <3>2. e.codes \in Seq(DataCode)
      BY <2>3 DEF Answering
    <3> QED BY <3>1, <3>2, ElementOfSeq
  <2>8. Len(f.codes) = Len(r)
    BY <2>1, <2>3, <2>6, <2>7, AppendProperties
  <2>9. Firsts(r) = Append(Firsts(q), c[1]) /\ Firsts(q) \in Seq(Val)
    <3> HIDE DEF r
    <3>1. \A i \in 1 .. Len(q) : q[i][1] \in Val
      BY <2>1, ElementOfSeq
    <3>2. Firsts(q) \in Seq(Val) /\ Len(Firsts(q)) = Len(q)
      BY <2>1, <3>1 DEF Firsts
    <3>3. \A i \in 1 .. Len(r) : r[i][1] \in Val
      BY <2>1, ElementOfSeq
    <3>4. Firsts(r) \in Seq(Val) /\ Len(Firsts(r)) = Len(r)
      BY <2>1, <3>3 DEF Firsts
    <3> DEFINE a == Append(Firsts(q), c[1])
    <3>5. /\ a \in Seq(Val) /\ Len(a) = Len(q) + 1 /\ a[Len(q) + 1] = c[1]
          /\ \A i \in 1 .. Len(q) : a[i] = Firsts(q)[i]
      BY <2>2, <3>2, AppendProperties
    <3> HIDE DEF a
    <3>6. ASSUME NEW i \in 1 .. Len(r) PROVE Firsts(r)[i] = a[i]
      <4>1. CASE i = Len(q) + 1
        BY <2>1, <3>5, <4>1 DEF Firsts
      <4>2. CASE i # Len(q) + 1
        <5>1. i \in 1 .. Len(q)
          BY <2>1, <4>2
        <5> QED BY <2>1, <3>5, <5>1 DEF Firsts
      <4> QED BY <4>1, <4>2
    <3>7. Firsts(r) = a
      BY <2>1, <3>4, <3>5, <3>6, SeqEqual
    <3> QED BY <3>2, <3>7 DEF a
  <2>10. ASSUME NEW x \in Taker
         PROVE  LET z == Received(x, f.codes)
                IN  /\ z.n = x.n + Len(r) /\ z.la = x.la + Len(r) * Step(inc)
                    /\ x.tbl = t => z.tbl = f.tbl /\ z.vals = x.vals \o Firsts(r)
    <3> DEFINE y == Received(x, e.codes)
               z == Received(x, f.codes)
    <3>1. y \in Taker /\ z = Takes(y, code)
      BY <2>6, <2>7, ReceivedIs
    <3>2. /\ y.n = x.n + Len(q) /\ y.la = x.la + Len(q) * Step(inc)
          /\ x.tbl = t => y.tbl = e.tbl /\ y.vals = x.vals \o Firsts(q)
      BY <2>3
    <3> HIDE DEF y, z
    <3>3. /\ z.n = y.n + 1 /\ z.la = y.la + Step(inc)
          /\ y.tbl = e.tbl => z.tbl = f.tbl /\ z.vals = Append(y.vals, c[1])
      BY <2>6, <3>1
    <3>4. x.n \in Nat /\ x.la \in Int /\ x.vals \in Seq(Val \cup {Junk})
      BY DEF Taker
    <3>a. Len(q) \in Nat /\ Len(r) = Len(q) + 1
      BY <2>1
    <3>5. z.n = x.n + Len(r)
      <4> HIDE DEF r
      <4> QED BY <3>a, <3>2, <3>3, <3>4
    <3>6. z.la = x.la + Len(r) * Step(inc)
      <4> HIDE DEF r
      <4>1. CASE inc
        <5>1. Step(inc) = 1
          BY <4>1 DEF Step
        <5> QED BY <3>a, <3>2, <3>3, <3>4, <5>1
      <4>2. CASE ~inc
        <5>1. Step(inc) = 0
          BY <4>2 DEF Step
        <5> QED BY <3>a, <3>2, <3>3, <3>4, <5>1
      <4> QED BY <4>1, <4>2
    <3>7. ASSUME x.tbl = t PROVE z.tbl = f.tbl /\ z.vals = x.vals \o Firsts(r)
      <4> DEFINE V == Val \cup {Junk}
                 g == Firsts(q)
      <4>1. g \in Seq(V) /\ c[1] \in V
        BY <2>2, <2>9, ElementOfSeq
      <4>2. z.vals = Append(x.vals \o g, c[1])
        BY <3>2, <3>3, <3>7
      <4>3. x.vals \o Append(g, c[1]) = Append(x.vals \o g, c[1])
        <5> HIDE DEF g, V
        <5> DEFINE w == c[1]
                   v == x.vals
        <5>1. v \in Seq(V) /\ w \in V
          BY <3>4, <4>1 DEF V
        <5> HIDE DEF w, v
        <5>2. v \o Append(g, w) = Append(v \o g, w)
          BY <4>1, <5>1, ConcatAppendIs
        <5> QED BY <5>2 DEF w, v
      <4> QED BY <2>9, <3>2, <3>3, <3>7, <4>2, <4>3
    <3> QED BY <3>5, <3>6, <3>7 DEF z
  <2>11. AnswersAre(t, r, inc)
    <3> HIDE DEF r
    <3> QED BY <2>6, <2>8, <2>10 DEF AnswersAre, f
  <2> QED BY <2>1, <2>11
<1>3. P = Seq(B)
  <2>1. P \in SUBSET Seq(B)
    OBVIOUS
  <2> HIDE DEF P
  <2> QED BY <1>1, <1>2, <2>1, SeqInduct
<1> QED BY <1>3

(* The words of a read, each with whether there was time to compress it.   *)
Pairs(words, small) == [i \in 1 .. Len(words) |-> <<words[i], small[i]>>]

LEMMA CompressedIs ==
    ASSUME NEW t \in Seq(Val), NEW words \in Seq(Val), NEW inc \in BOOLEAN, NEW small,
           \A i \in 1 .. Len(words) : small[i] \in BOOLEAN
    PROVE  /\ Pairs(words, small) \in Seq(Val \X BOOLEAN)
           /\ Len(Pairs(words, small)) = Len(words)
           /\ Firsts(Pairs(words, small)) = words
           /\ Compressed(t, words, small, inc) =
                Final(Compressor(inc), [codes |-> <<>>, tbl |-> t], Pairs(words, small))
<1> DEFINE B == Val \X BOOLEAN
           s == Pairs(words, small)
           x == [codes |-> <<>>, tbl |-> t]
           N == Len(words)
<1>1. N \in Nat /\ \A i \in 1 .. N : words[i] \in Val
  BY LenProperties, ElementOfSeq
<1>2. s \in Seq(B) /\ Len(s) = N /\ \A i \in 1 .. N : s[i] = <<words[i], small[i]>>
  BY <1>1 DEF Pairs
<1>3. Firsts(s) = words
  <2>1. Firsts(s) = [i \in 1 .. N |-> words[i]]
    BY <1>2 DEF Firsts
  <2> QED BY <1>1, <2>1
<1>4. x \in Answering
  BY EmptySeq DEF Answering
<1> DEFINE E(f) == [i \in 0 .. N |-> IF i = 0 THEN x
                                     ELSE Compress(f[i - 1], words[i], small[i], inc)]
           K == CHOOSE f : f = E(f)
           T == Track(Compressor(inc), x, s)
<1> HIDE DEF s, B
<1>5. T \in [0 .. N -> Answering] /\ IsTrack(T, Compressor(inc), x, s)
  <2> HIDE DEF x
  <2> QED BY <1>2, <1>4, CompressorIs, TrackIs DEF B
<1> HIDE DEF T, x
<1>a. ASSUME NEW i \in 1 .. N, NEW e \in Answering
      PROVE  Compressor(inc)[<<e, s[i]>>] = Compress(e, words[i], small[i], inc)
  <2>1. words[i] \in Val /\ small[i] \in BOOLEAN /\ s[i] = <<words[i], small[i]>>
    BY <1>1, <1>2
  <2> QED BY <2>1, CompressorIs
<1>6. T = E(T)
  <2>1. ASSUME NEW i \in 0 .. N PROVE T[i] = E(T)[i]
    <3>1. CASE i = 0
      BY <1>5, <3>1 DEF IsTrack
    <3>2. CASE i # 0
      <4>1. i \in 1 .. N /\ i - 1 \in 0 .. N
        BY <1>1, <3>2
      <4>2. T[i - 1] \in Answering
        BY <1>5, <4>1
      <4>3. T[i] = Compress(T[i - 1], words[i], small[i], inc)
        BY <1>2, <1>5, <1>a, <4>1, <4>2 DEF IsTrack
      <4> QED BY <3>2, <4>3
    <3> QED BY <3>1, <3>2
  <2>2. T = [i \in 0 .. N |-> T[i]]
    BY <1>5
  <2> QED BY <2>1, <2>2
<1>7. K = E(K)
  <2> HIDE DEF E
  <2> QED BY <1>6
<1>8. Compressed(t, words, small, inc) = K[N]
  BY DEF Compressed, x
<1> HIDE DEF K
<1>9. K[0] = x
  BY <1>1, <1>7
<1>10. ASSUME NEW i \in 1 .. N, K[i - 1] \in Answering
       PROVE  K[i] = Compressor(inc)[<<K[i - 1], s[i]>>]
  <2>1. i \in 0 .. N /\ i # 0
    BY <1>1
  <2>2. K[i] = E(K)[i]
    BY <1>7
  <2>3. K[i] = Compress(K[i - 1], words[i], small[i], inc)
    BY <2>1, <2>2
  <2> HIDE DEF E
  <2> QED BY <1>10, <1>a, <2>3
<1> HIDE DEF E, N
<1>11. K[Len(s)] = Final(Compressor(inc), x, s)
  <2> DEFINE step == Compressor(inc)
  <2>1. Machine(step, Answering, B)
    BY CompressorIs DEF B
  <2>2. \A i \in 1 .. Len(s) : K[i - 1] \in Answering => K[i] = step[<<K[i - 1], s[i]>>]
    BY <1>2, <1>10
  <2> HIDE DEF step
  <2> QED BY <1>2, <1>4, <1>9, <2>1, <2>2, FinalOf DEF step
<1> QED BY <1>2, <1>3, <1>8, <1>11 DEF x, s, B, N

\* The answers to a read, taken: a host whose table is the board's has the words that were read.
Read(x, t, e, words, inc) ==
  LET y == Received(x, e.codes)
  IN  /\ y.n = x.n + Len(words) /\ y.la = x.la + Len(words) * Step(inc)
      /\ x.tbl = t => y.tbl = e.tbl /\ y.vals = x.vals \o words

Answers(e, t, words, small, inc) ==
  /\ e = Compressed(t, words, small, inc)
  /\ \A i \in 1 .. Len(words) : small[i] \in BOOLEAN

LEMMA WordsRead ==
    ASSUME NEW t \in Seq(Val), NEW words \in Seq(Val), NEW inc \in BOOLEAN, NEW small,
           NEW e, Answers(e, t, words, small, inc)
    PROVE  /\ e.codes \in Seq(DataCode) /\ e.tbl \in Seq(Val) /\ Len(e.codes) = Len(words)
           /\ \A x \in Taker : Read(x, t, e, words, inc)
<1> DEFINE s == Pairs(words, small)
<1>1. /\ s \in Seq(Val \X BOOLEAN) /\ Len(s) = Len(words) /\ Firsts(s) = words
      /\ e = Final(Compressor(inc), [codes |-> <<>>, tbl |-> t], s)
  BY CompressedIs DEF Answers
<1> HIDE DEF s
<1>2. AnswersAre(t, s, inc)
  BY <1>1, PairsAnswered
<1>3. e \in Answering /\ Len(e.codes) = Len(s)
  BY <1>1, <1>2 DEF AnswersAre
<1>4. \A x \in Taker : Read(x, t, e, words, inc)
  BY <1>1, <1>2 DEF AnswersAre, Read
<1> QED BY <1>1, <1>3, <1>4 DEF Answering

-----------------------------------------------------------------------------
(***************************************************************************)
(* The state of the bus, its parts.                                        *)
(***************************************************************************)
AnyWord  == Val \cup {Junk}
HostType ==
  [pc : {"idle", "drain", "read", "wait", "gone"}, call : {<<>>} \cup {<<c>> : c \in Calls},
   vals : Seq(AnyWord), n : Nat, cmdrd : Nat, idles : 0 .. 2, lastaddr : Int, addrset : BOOLEAN,
   rdtbl : Seq(Val), rdaddr : Nat, wrtbl : Table, intr : BOOLEAN]
BoardType ==
  [st : {"idle", "more", "err"}, addr : Int, newaddr : BOOLEAN, rdtbl : Seq(Val),
   wrtbl : Table, left : Nat]
EndedType ==
  [call : Calls, how : {"returned", "thrown", "exit"}, vals : Seq(AnyWord), served : Seq(Val),
   stale : BOOLEAN]
LastType == {<<>>} \cup EndedType
Failures == {"read", "write", "order", "reset"}
HistType ==
  [asked : Seq(Int \X Val), astray : BOOLEAN, served : Seq(Val), last : LastType,
   failed : SUBSET Failures, stale : BOOLEAN, calls : Nat]

BusType ==
  /\ h \in HostType /\ board \in BoardType /\ hist \in HistType
  /\ down \in Seq(DownCode) /\ up \in Seq(UpCode) /\ eol \in BOOLEAN /\ mem \in [Addr -> Val]

(* A call that is being served, and how far it is.                         *)
InCall ==
  /\ h.pc \in {"drain", "read", "wait"} => h.call \in {<<c>> : c \in Calls}
  /\ h.pc = "drain" => /\ h.call[1].k = "write" /\ h.vals = h.call[1].vals
                       /\ h.n <= h.call[1].len
  /\ h.pc = "read" => /\ h.call[1].k = "read" /\ h.n <= h.cmdrd
                      /\ h.cmdrd <= h.call[1].len
  /\ h.pc = "wait" => h.call[1].k = "wait"
  /\ h.rdaddr = Len(h.rdtbl)
  /\ board.st = "err" => "write" \in hist.failed

(* The board as it is; as it will be, when all that is on its way has come.*)
Now == [addr |-> board.addr, newaddr |-> board.newaddr, left |-> hist.asked,
        tbl |-> board.wrtbl, refs |-> TRUE, fits |-> TRUE]
End == Executed(Now, down)

(* The host, in a read.                                                    *)
HostNow == [la |-> h.lastaddr, tbl |-> h.rdtbl, vals |-> h.vals, n |-> h.n]

(* The host's table of writes is, or is the end of, what the board's will  *)
(* be; every reference on its way is to a word.                            *)
Tables == End.refs /\ AsFarBack(h.wrtbl, End.tbl)

(* The words that a read still waits for are asked for, answered or lost.  *)
Due ==
  h.pc = "read" /\ h.n < h.cmdrd =>
    \/ \E i \in 1 .. Len(down) : down[i].k = "rd" /\ down[i].v >= h.cmdrd - h.n
    \/ \E i \in 1 .. Len(up) : up[i].k \in {"err", "reset"}
    \/ Received(HostNow, up).n >= h.cmdrd

StillCode == DownCode \ ReadCode
QuietCode == [k : {"int", "nl", "ack"}]
CalmCode  == UpCode \ [k : {"err", "reset"}]
Command(v, inc) == <<[k |-> "rd", v |-> v, inc |-> inc], [k |-> "nl"]>>
Commanded(s, pre, v, inc) == s = pre \o Command(v, inc)
ErrCode == [k |-> "err"]

(* A block of a read: the command is on its way, behind pre; or it has     *)
(* failed, after lead; or its words are coming, lead.                      *)
PendingGood(pre) ==
  LET x == Executed(Now, pre)
  IN  /\ ~x.newaddr => h.lastaddr = x.addr
      /\ ~hist.stale => /\ h.vals = hist.served
                        /\ h.rdtbl = IF x.newaddr THEN <<>> ELSE board.rdtbl
Pending(pre) ==
  /\ h.n < h.cmdrd /\ up \in Seq(QuietCode)
  /\ Commanded(down, pre, h.cmdrd - h.n, h.call[1].inc)
  /\ hist.failed = {} => PendingGood(pre)
Failing(lead, rest) ==
  /\ hist.failed # {} /\ down \in Seq(StillCode)
  /\ up = lead \o (<<ErrCode>> \o rest)
  /\ Received(HostNow, lead).n < h.cmdrd
ComingGood ==
  LET y == Received(HostNow, up)
  IN  /\ y.la = End.addr
      /\ ~hist.stale => y.vals = hist.served /\ y.tbl = board.rdtbl
Coming(lead, rest) ==
  /\ down \in Seq(StillCode) /\ up = lead \o rest
  /\ lead # <<>> => Data(lead[Len(lead)])
  /\ Received(HostNow, up).n = h.cmdrd
  /\ hist.failed = {} => ComingGood
Reading ==
  \/ \E pre \in Seq(StillCode) : Pending(pre)
  \/ \E lead \in Seq(CalmCode), rest \in Seq(QuietCode) : Failing(lead, rest)
  \/ \E lead \in Seq(CalmCode), rest \in Seq(QuietCode) : Coming(lead, rest)

InTurn ==
  hist.failed \subseteq {"read"} =>
    /\ h.pc # "read" => down \in Seq(StillCode) /\ up \in Seq(QuietCode)
    /\ h.pc = "read" => Reading

(* While nothing has failed, both ends agree.                              *)
Asked(call) == [i \in 1 .. call.len |-> <<call.a + (i - 1) * Step(call.inc), call.vals[i]>>]
Unsent == IF h.pc = "drain" THEN SubSeq(Asked(h.call[1]), h.n + 1, h.call[1].len) ELSE <<>>
InStep ==
  hist.failed = {} =>
    /\ ~hist.astray /\ End.fits /\ h.pc # "gone" /\ End.left = Unsent
    /\ h.pc # "read" => /\ hist.served = <<>>
                        /\ h.addrset => /\ End.addr = h.lastaddr /\ ~End.newaddr
                                        /\ ~hist.stale => h.rdtbl = board.rdtbl
    /\ h.pc = "drain" => h.addrset /\ h.lastaddr = h.call[1].a + h.n * Step(h.call[1].inc)
    /\ h.pc = "read" => /\ End.addr = h.call[1].a + h.cmdrd * Step(h.call[1].inc)
                        /\ ~End.newaddr

LastTrue == ReadsTrueInStep

BusInv == BusType /\ InCall /\ Tables /\ Due /\ InTurn /\ InStep /\ LastTrue

-----------------------------------------------------------------------------
LEMMA CallIs ==
    ASSUME NEW c \in Calls
    PROVE  /\ c.k \in {"read", "write", "wait"} /\ c.a \in 0 .. Digit^4 - 1 /\ c.a \in Int
           /\ c.inc \in BOOLEAN /\ c.len \in Nat
           /\ c.k \in {"read", "write"} => c.len > 0
           /\ c.k = "write" => c.vals \in Seq(Val) /\ c.len = Len(c.vals)
<1>1. Digit^4 \in Nat
  BY DigitAssumption DEF Short
<1> QED BY <1>1, CallsAssumption

LEMMA CodeSets ==
    /\ StillCode \subseteq DownCode /\ QuietCode \subseteq CalmCode /\ CalmCode \subseteq UpCode
    /\ DataCode \subseteq CalmCode /\ WriteCode \subseteq StillCode
    /\ AddressCode \subseteq StillCode /\ [k |-> "nl"] \in StillCode
    /\ \A c \in QuietCode : Quiet(c) /\ ~Data(c) /\ c.k \notin {"err", "reset", "addr"}
    /\ \A c \in CalmCode : c.k \notin {"err", "reset"}
    /\ \A c \in StillCode : c.k # "rd"
    /\ ErrCode \in UpCode /\ [k |-> "reset"] \in UpCode /\ [k |-> "ack"] \in QuietCode
    /\ [k |-> "nl"] \in QuietCode /\ [k |-> "int"] \in QuietCode
    /\ \A v \in Nat \ {0}, inc \in BOOLEAN : [k |-> "rd", v |-> v, inc |-> inc] \in ReadCode
    /\ ReadCode \subseteq DownCode
    /\ \A a \in Int : [k |-> "addr", v |-> a] \in CalmCode
BY DEF StillCode, QuietCode, CalmCode, DownCode, UpCode, DataCode, WriteCode, ReadCode,
       AddressCode, Quiet, Data, ErrCode

\* Two states of the executor with the same fields are the same.
LEMMA SameWalker ==
    ASSUME NEW x \in Walker, NEW y \in Walker, x.addr = y.addr, x.newaddr = y.newaddr,
           x.left = y.left, x.tbl = y.tbl, x.refs = y.refs, x.fits = y.fits
    PROVE  x = y
BY DEF Walker

LEMMA NowType ==
    ASSUME BusType
    PROVE  Now \in Walker /\ End \in Walker
<1>1. Now \in Walker
  BY DEF BusType, BoardType, HistType, Now, Walker
<1> QED BY <1>1, ExecutedIs DEF End, BusType

LEMMA HostNowType ==
    ASSUME BusType
    PROVE  HostNow \in Taker
BY DEF BusType, HostType, HostNow, Taker, AnyWord

\* What encode_address() sends, executed.
LEMMA AddressReaches ==
    ASSUME NEW set \in BOOLEAN, NEW last \in Int, NEW a \in 0 .. Digit^4 - 1,
           NEW s, s = EncodeAddress(set, last, a)
    PROVE  /\ s \in Seq(AddressCode)
           /\ s = <<>> => set /\ a = last
           /\ \A x \in Walker :
                LET y == Executed(x, s)
                IN  /\ y.tbl = x.tbl /\ y.refs = x.refs /\ y.fits = x.fits /\ y.left = x.left
                    /\ s = <<>> => y = x
                    /\ s # <<>> => y.newaddr
                    /\ (set => x.addr = last) => y.addr = a
<1>1. CASE s = <<>> /\ set /\ a = last
  <2>1. s \in Seq(AddressCode)
    BY <1>1, EmptySeq
  <2>2. \A x \in Walker : Executed(x, s) = x
    BY <1>1, ExecutedIs
  <2> QED BY <1>1, <2>1, <2>2
<1>2. ASSUME NEW c \in AddressCode, s = <<c>>,
             \A x \in Int : (set => x = last) => DecodeAddress(x, c) = a
      PROVE  /\ s \in Seq(AddressCode)
             /\ s # <<>>
             /\ \A x \in Walker :
                  LET y == Executed(x, s)
                  IN  /\ y.tbl = x.tbl /\ y.refs = x.refs /\ y.fits = x.fits /\ y.left = x.left
                      /\ y.newaddr
                      /\ (set => x.addr = last) => y.addr = a
  <2>1. s \in Seq(AddressCode) /\ s # <<>>
    BY <1>2
  <2>2. c \in DownCode /\ c.k \in {"abs", "rel"}
    BY DEF DownCode, AddressCode
  <2>3. ASSUME NEW x \in Walker
        PROVE  LET y == Executed(x, s)
               IN  /\ y.tbl = x.tbl /\ y.refs = x.refs /\ y.fits = x.fits /\ y.left = x.left
                   /\ y.newaddr
                   /\ (set => x.addr = last) => y.addr = a
    <3> DEFINE y == Executed(x, s)
    <3>1. y = Executes(x, c)
      BY <1>2, <2>2, ExecutedIs
    <3>2. x.addr \in Int
      BY DEF Walker
    <3> HIDE DEF y
    <3>3. /\ y.addr = DecodeAddress(x.addr, c) /\ y.newaddr /\ y.left = x.left
          /\ y.tbl = x.tbl /\ y.refs = x.refs /\ y.fits = x.fits
      BY <2>2, <3>1, ExecutesParts
    <3> QED BY <1>2, <3>2, <3>3 DEF y
  <2> QED BY <2>1, <2>3
<1>3. \/ s = <<>> /\ set /\ a = last
      \/ \E c \in AddressCode :
           s = <<c>> /\ \A x \in Int : (set => x = last) => DecodeAddress(x, c) = a
  <2>1. ASSUME NEW e, e = s
        PROVE  \/ e = <<>> /\ set /\ a = last
               \/ \E c \in AddressCode :
                    e = <<c>> /\ \A x \in Int : (set => x = last) => DecodeAddress(x, c) = a
    BY <2>1, AddressDecodes
  <2> QED BY <2>1
<1> QED BY <1>1, <1>2, <1>3

-----------------------------------------------------------------------------
(***************************************************************************)
(* Sequences of codes, by their first and their last.                      *)
(***************************************************************************)
LEMMA SplitHead ==
    ASSUME NEW S, NEW T, S \subseteq T, NEW a \in Seq(S), NEW b \in Seq(T), NEW s, s = a \o b,
           a # <<>>
    PROVE  /\ s \in Seq(T) /\ s # <<>> /\ Head(s) = Head(a) /\ Tail(s) = Tail(a) \o b
           /\ Head(a) \in S /\ Tail(a) \in Seq(S)
<1>1. a \in Seq(T)
  BY SeqMonotonic
<1>2. s # <<>> /\ Head(s) = Head(a) /\ Tail(s) = Tail(a) \o b
  BY <1>1, ConcatHead
<1>3. s \in Seq(T)
  BY <1>1, ConcatProperties
<1> QED BY <1>2, <1>3, HeadTailProperties

LEMMA CommandType ==
    ASSUME NEW v \in Nat \ {0}, NEW inc \in BOOLEAN
    PROVE  /\ Command(v, inc) \in Seq(DownCode) /\ Command(v, inc) # <<>>
           /\ Head(Command(v, inc)) = [k |-> "rd", v |-> v, inc |-> inc]
           /\ Tail(Command(v, inc)) = <<[k |-> "nl"]>>
           /\ Len(Command(v, inc)) = 2
<1> DEFINE c == [k |-> "rd", v |-> v, inc |-> inc]
           d == [k |-> "nl"]
<1>1. c \in DownCode /\ d \in DownCode
  BY CodeSets
<1> HIDE DEF c, d
<1>2. <<c, d>> \in Seq(DownCode) /\ <<c, d>> # <<>> /\ Head(<<c, d>>) = c /\ Tail(<<c, d>>) = <<d>>
      /\ Len(<<c, d>>) = 2
  BY <1>1
<1> QED BY <1>2 DEF Command, c, d

\* The host's command is reached when what is before it has been executed.
LEMMA BeforeCommand ==
    ASSUME NEW pre \in Seq(StillCode), NEW v \in Nat \ {0}, NEW inc \in BOOLEAN,
           NEW s, Commanded(s, pre, v, inc)
    PROVE  /\ s \in Seq(DownCode) /\ s # <<>>
           /\ pre = <<>> => Head(s) = [k |-> "rd", v |-> v, inc |-> inc] /\ Tail(s) = <<[k |-> "nl"]>>
           /\ pre # <<>> =>
                /\ Head(s) = Head(pre) /\ Commanded(Tail(s), Tail(pre), v, inc)
                /\ Head(s) \in StillCode /\ Tail(pre) \in Seq(StillCode)
                /\ \A x \in Walker :
                     Executed(x, pre) = Executed(Executes(x, Head(s)), Tail(pre))
<1> DEFINE c == Command(v, inc)
<1>1. c \in Seq(DownCode)
  BY CommandType
<1>2. pre \in Seq(DownCode)
  BY CodeSets, SeqMonotonic
<1>a. s = pre \o c
  BY DEF Commanded
<1>3. CASE pre = <<>>
  <2>1. s = c
    <3> HIDE DEF c
    <3> QED BY <1>1, <1>3, <1>a, ConcatEmptySeq
  <2> QED BY <1>1, <1>3, <2>1, CommandType
<1>4. CASE pre # <<>>
  <2>1. /\ s \in Seq(DownCode) /\ s # <<>> /\ Head(s) = Head(pre) /\ Tail(s) = Tail(pre) \o c
        /\ Head(pre) \in StillCode /\ Tail(pre) \in Seq(StillCode)
    <3> HIDE DEF c
    <3> QED BY <1>1, <1>4, <1>a, CodeSets, SplitHead
  <2>2. ASSUME NEW x \in Walker
        PROVE  Executed(x, pre) = Executed(Executes(x, Head(s)), Tail(pre))
    BY <1>2, <1>4, <2>1, ExecutedIs
  <2> QED BY <1>4, <2>1, <2>2 DEF Commanded
<1> QED BY <1>3, <1>4

LEMMA QuietReceived ==
    ASSUME NEW x \in Taker, NEW s \in Seq(QuietCode)
    PROVE  Received(x, s) = x
<1>1. s \in Seq(UpCode)
  BY CodeSets, SeqMonotonic
<1>2. \A i \in 1 .. Len(s) : Quiet(s[i])
  BY CodeSets, ElementOfSeq
<1> QED BY <1>1, <1>2, ReceivedQuiet

LEMMA ThenQuiet ==
    ASSUME NEW x \in Taker, NEW r \in Seq(UpCode), NEW s \in Seq(QuietCode)
    PROVE  r \o s \in Seq(UpCode) /\ Received(x, r \o s) = Received(x, r)
<1>1. s \in Seq(UpCode)
  BY CodeSets, SeqMonotonic
<1> QED BY <1>1, QuietReceived, ReceivedIs, ConcatProperties

LEMMA ReceivedMore ==
    ASSUME NEW x \in Taker, NEW r \in Seq(UpCode), NEW s \in Seq(UpCode)
    PROVE  Received(x, r \o s).n >= Received(x, r).n /\ Received(x, r).n >= x.n
           /\ Received(x, r).n \in Nat
<1>1. Received(x, r) \in Taker /\ Received(x, r \o s) = Received(Received(x, r), s)
  BY ReceivedIs
<1>2. Received(x, r).n \in Nat
  BY <1>1 DEF Taker
<1> QED BY <1>1, <1>2, ReceivedCounts

\* The tables stay in step when the board executes, or skips, the first codewords on their way.
LEMMA TablesStay ==
    ASSUME BusType, BusType', Tables, NEW d \in Seq(DownCode), down = d \o down',
           h'.wrtbl = h.wrtbl, board'.wrtbl = Executed(Now, d).tbl
    PROVE  Tables'
<1> DEFINE x == Executed(Now, d)
<1>1. Now \in Walker /\ Now' \in Walker /\ down' \in Seq(DownCode) /\ Now.refs = TRUE
  <2>1. Now \in Walker /\ Now.refs = TRUE
    BY NowType DEF Now
  <2>2. Now' \in Walker
    BY DEF BusType, BoardType, HistType, Now, Walker
  <2> QED BY <2>1, <2>2 DEF BusType
<1>2. x \in Walker /\ End = Executed(x, down')
  BY <1>1, ExecutedIs DEF End
<1>3. Now'.tbl = x.tbl /\ Now'.refs = TRUE
  BY DEF Now
<1>4. x.refs = TRUE
  BY <1>1, <1>2, ExecutedRight DEF Tables, Walker
<1> HIDE DEF x
<1>5. Executed(x, down').tbl = Executed(Now', down').tbl
      /\ Executed(x, down').refs = Executed(Now', down').refs
  BY <1>1, <1>2, <1>3, <1>4, ExecutedTable
<1>6. End' = Executed(Now', down')
  BY DEF End
<1> QED BY <1>2, <1>5, <1>6 DEF Tables

\* Concatenation by name, for the provers to take it as it is.
Joined(a, b) == a \o b

LEMMA JoinedIs ==
    ASSUME NEW S, NEW a \in Seq(S), NEW b \in Seq(S)
    PROVE  Joined(a, b) \in Seq(S)
BY DEF Joined

LEMMA JoinedGroups ==
    ASSUME NEW S, NEW a \in Seq(S), NEW b \in Seq(S), NEW c \in Seq(S)
    PROVE  Joined(Joined(a, b), c) = Joined(a, Joined(b, c))
BY DEF Joined

LEMMA JoinedGroups4 ==
    ASSUME NEW S, NEW a \in Seq(S), NEW b \in Seq(S), NEW c \in Seq(S), NEW d \in Seq(S)
    PROVE  Joined(Joined(a, Joined(b, c)), d) = Joined(a, Joined(b, Joined(c, d)))
<1>1. Joined(Joined(a, Joined(b, c)), d) = Joined(a, Joined(Joined(b, c), d))
  BY JoinedIs, JoinedGroups
<1>2. Joined(Joined(b, c), d) = Joined(b, Joined(c, d))
  BY JoinedGroups
<1> QED BY <1>1, <1>2

-----------------------------------------------------------------------------
(***************************************************************************)
(* Steps of the board that leave nothing to the host but quiet answers.    *)
(***************************************************************************)
\* The first codeword on its way, which is not a read, leaves nothing to the host but quiet answers.
Moves(s) ==
  /\ h' = h
  /\ hist'.failed = hist.failed /\ hist'.served = hist.served /\ hist'.stale = hist.stale
  /\ hist'.last = hist.last
  /\ hist.failed = {} /\ ~hist.astray => ~hist'.astray
  /\ board'.rdtbl = board.rdtbl
  /\ up' = up \o s
  /\ \/ down' = down /\ (hist.failed = {} => Now' = Now)
     \/ /\ down # <<>> /\ Head(down) \in StillCode /\ down' = Tail(down)
        /\ hist.failed = {} => Now' = Executes(Now, Head(down))

LEMMA MovesEnd ==
    ASSUME BusType, NEW s \in Seq(QuietCode), Moves(s), hist.failed = {}
    PROVE  End' = End
<1>1. End' = Executed(Now', down')
  BY DEF End
<1>2. CASE down' = down /\ Now' = Now
  BY <1>1, <1>2 DEF End
<1>3. CASE down # <<>> /\ down' = Tail(down) /\ Now' = Executes(Now, Head(down))
  <2>1. Executed(Now, down) = Executed(Executes(Now, Head(down)), Tail(down))
    BY <1>3, NowType, ExecutedIs DEF BusType
  <2> QED BY <1>1, <1>3, <2>1 DEF End
<1> QED BY <1>2, <1>3 DEF Moves

LEMMA MovesReceived ==
    ASSUME BusType, NEW s \in Seq(QuietCode), Moves(s)
    PROVE  /\ HostNow' = HostNow /\ Received(HostNow', up') = Received(HostNow, up)
           /\ up' \in Seq(UpCode)
<1>1. HostNow' = HostNow
  BY DEF Moves, HostNow
<1>2. up \in Seq(UpCode) /\ up' = up \o s
  BY DEF BusType, Moves
<1> QED BY <1>1, <1>2, HostNowType, ThenQuiet

LEMMA MovesDue ==
    ASSUME BusType, NEW s \in Seq(QuietCode), Moves(s), Due
    PROVE  Due'
<1> SUFFICES ASSUME h.pc = "read", h.n < h.cmdrd
             PROVE  \/ \E i \in 1 .. Len(down') : down'[i].k = "rd" /\ down'[i].v >= h.cmdrd - h.n
                    \/ \E i \in 1 .. Len(up') : up'[i].k \in {"err", "reset"}
                    \/ Received(HostNow', up').n >= h.cmdrd
  BY DEF Due, Moves
<1>1. CASE \E i \in 1 .. Len(down) : down[i].k = "rd" /\ down[i].v >= h.cmdrd - h.n
  <2>1. CASE down' = down
    BY <1>1, <2>1
  <2>2. CASE down # <<>> /\ Head(down) \in StillCode /\ down' = Tail(down)
    <3>1. PICK i \in 1 .. Len(down) : down[i].k = "rd" /\ down[i].v >= h.cmdrd - h.n
      BY <1>1
    <3>2. Head(down) = down[1] /\ Head(down).k # "rd"
      BY <2>2, CodeSets
    <3>3. /\ Len(down) \in Nat /\ Len(Tail(down)) = Len(down) - 1
          /\ \A j \in 1 .. Len(Tail(down)) : Tail(down)[j] = down[j + 1]
      BY <2>2, HeadTailProperties, LenProperties DEF BusType
    <3>4. i - 1 \in 1 .. Len(Tail(down)) /\ (i - 1) + 1 = i
      BY <3>1, <3>2, <3>3
    <3> QED BY <2>2, <3>1, <3>3, <3>4
  <2> QED BY <2>1, <2>2 DEF Moves
<1>2. CASE \E i \in 1 .. Len(up) : up[i].k \in {"err", "reset"}
  <2>1. PICK i \in 1 .. Len(up) : up[i].k \in {"err", "reset"}
    BY <1>2
  <2>2. s \in Seq(UpCode) /\ up \in Seq(UpCode) /\ up' = up \o s
    BY CodeSets, SeqMonotonic DEF Moves, BusType
  <2>3. /\ Len(up') = Len(up) + Len(s) /\ Len(up) \in Nat /\ Len(s) \in Nat
        /\ \A j \in 1 .. Len(up) + Len(s) : up'[j] = IF j <= Len(up) THEN up[j] ELSE s[j - Len(up)]
    BY <2>2, ConcatProperties, LenProperties
  <2>4. i \in 1 .. Len(up') /\ up'[i] = up[i]
    BY <2>1, <2>3
  <2> QED BY <2>1, <2>4
<1>3. CASE Received(HostNow, up).n >= h.cmdrd
  BY <1>3, MovesReceived
<1> QED BY <1>1, <1>2, <1>3 DEF Due

LEMMA MovesPending ==
    ASSUME BusType, InCall, NEW s \in Seq(QuietCode), Moves(s), h.pc = "read",
           NEW pre \in Seq(StillCode), Pending(pre)
    PROVE  \E q \in Seq(StillCode) : Pending(q)'
<1> DEFINE v == h.cmdrd - h.n
           inc == h.call[1].inc
<1>1. v \in Nat \ {0} /\ inc \in BOOLEAN
  <2>1. PICK call \in Calls : h.call = <<call>>
    BY DEF InCall
  <2>2. inc \in BOOLEAN
    BY <2>1, CallIs
  <2>3. h.n \in Nat /\ h.cmdrd \in Nat /\ h.n < h.cmdrd
    BY DEF BusType, HostType, Pending
  <2> QED BY <2>2, <2>3
<1>2. up' \in Seq(QuietCode)
  BY ConcatProperties DEF Pending, Moves
<1>3. h' = h /\ hist'.failed = hist.failed /\ hist'.stale = hist.stale
      /\ hist'.served = hist.served /\ board'.rdtbl = board.rdtbl /\ h.n < h.cmdrd
  BY DEF Moves, Pending
<1>4. Commanded(down, pre, v, inc) /\ (hist.failed = {} => PendingGood(pre))
  BY DEF Pending
<1>5. CASE down' = down /\ (hist.failed = {} => Now' = Now)
  <2>1. hist.failed = {} => PendingGood(pre)'
    BY <1>3, <1>4, <1>5 DEF PendingGood
  <2>2. Pending(pre)'
    <3>1. Commanded(down', pre, h'.cmdrd - h'.n, h'.call[1].inc)
      BY <1>3, <1>4, <1>5
    <3> QED BY <1>2, <1>3, <2>1, <3>1 DEF Pending
  <2> QED BY <2>2
<1>6. CASE /\ down # <<>> /\ Head(down) \in StillCode /\ down' = Tail(down)
           /\ hist.failed = {} => Now' = Executes(Now, Head(down))
  <2> DEFINE q == Tail(pre)
  <2>1. pre # <<>>
    <3> HIDE DEF v, inc
    <3>1. Head(down).k # "rd"
      BY <1>6, CodeSets
    <3> QED BY <1>1, <1>4, <3>1, BeforeCommand
  <2>2. /\ q \in Seq(StillCode) /\ Commanded(down', q, v, inc)
        /\ Executed(Now, pre) = Executed(Executes(Now, Head(down)), q)
    <3> HIDE DEF v, inc
    <3>1. /\ Commanded(Tail(down), Tail(pre), v, inc) /\ Tail(pre) \in Seq(StillCode)
          /\ \A x \in Walker : Executed(x, pre) = Executed(Executes(x, Head(down)), Tail(pre))
      BY <1>1, <1>4, <2>1, BeforeCommand
    <3> QED BY <1>6, <3>1, NowType
  <2> HIDE DEF q
  <2>3. ASSUME hist.failed = {} PROVE PendingGood(q)'
    <3>2. Executed(Now', q) = Executed(Now, pre)
      BY <1>6, <2>2, <2>3
    <3> QED BY <1>3, <1>4, <2>3, <3>2 DEF PendingGood
  <2>4. Pending(q)'
    <3>1. Commanded(down', q, h'.cmdrd - h'.n, h'.call[1].inc)
      BY <1>3, <2>2
    <3> QED BY <1>2, <1>3, <2>3, <3>1 DEF Pending
  <2> QED BY <2>2, <2>4
<1> QED BY <1>5, <1>6 DEF Moves

LEMMA MovesStill ==
    ASSUME NEW s, Moves(s), BusType, down \in Seq(StillCode)
    PROVE  down' \in Seq(StillCode)
<1>1. CASE down' = down
  BY <1>1
<1>2. CASE down # <<>> /\ down' = Tail(down)
  BY <1>2, HeadTailProperties
<1> QED BY <1>1, <1>2 DEF Moves

LEMMA MovesFailing ==
    ASSUME BusType, NEW s \in Seq(QuietCode), Moves(s),
           NEW lead \in Seq(CalmCode), NEW rest \in Seq(QuietCode), Failing(lead, rest)
    PROVE  \E r \in Seq(QuietCode) : Failing(lead, r)'
<1> DEFINE r == rest \o s
           e == <<ErrCode>>
<1>1. r \in Seq(QuietCode)
  BY ConcatProperties
<1>2. up' = lead \o (e \o r)
  <2>1. /\ lead \in Seq(UpCode) /\ rest \in Seq(UpCode) /\ s \in Seq(UpCode)
        /\ e \in Seq(UpCode)
    BY CodeSets, SeqMonotonic
  <2>2. up' = (lead \o (e \o rest)) \o s
    BY DEF Failing, Moves
  <2> HIDE DEF e
  <2>3. Joined(Joined(lead, Joined(e, rest)), s) = Joined(lead, Joined(e, Joined(rest, s)))
    BY <2>1, JoinedGroups4
  <2> QED BY <2>2, <2>3 DEF Joined
<1>3. /\ hist'.failed # {} /\ down' \in Seq(StillCode) /\ h'.cmdrd = h.cmdrd
      /\ HostNow' = HostNow
  BY MovesStill DEF Failing, Moves, HostNow
<1> HIDE DEF r
<1>4. Failing(lead, r)'
  BY <1>2, <1>3 DEF Failing
<1> QED BY <1>1, <1>4

LEMMA MovesComing ==
    ASSUME BusType, NEW s \in Seq(QuietCode), Moves(s),
           NEW lead \in Seq(CalmCode), NEW rest \in Seq(QuietCode), Coming(lead, rest)
    PROVE  \E r \in Seq(QuietCode) : Coming(lead, r)'
<1> DEFINE r == rest \o s
<1>1. r \in Seq(QuietCode)
  BY ConcatProperties
<1>2. up' = lead \o r
  <2>1. lead \in Seq(UpCode) /\ rest \in Seq(UpCode) /\ s \in Seq(UpCode)
    BY CodeSets, SeqMonotonic
  <2>2. up' = (lead \o rest) \o s
    BY DEF Coming, Moves
  <2>3. Joined(Joined(lead, rest), s) = Joined(lead, Joined(rest, s))
    BY <2>1, JoinedGroups
  <2> QED BY <2>2, <2>3 DEF Joined
<1>3. /\ hist'.failed = hist.failed /\ down' \in Seq(StillCode) /\ h'.cmdrd = h.cmdrd
      /\ hist'.stale = hist.stale /\ hist'.served = hist.served /\ board'.rdtbl = board.rdtbl
  BY MovesStill DEF Coming, Moves
<1>4. Received(HostNow', up') = Received(HostNow, up)
  BY MovesReceived
<1>5. hist.failed = {} => End' = End
  BY MovesEnd
<1>6. hist.failed = {} => ComingGood'
  BY <1>3, <1>4, <1>5 DEF ComingGood, Coming
<1> HIDE DEF r
<1>7. Coming(lead, r)'
  BY <1>2, <1>3, <1>4, <1>6 DEF Coming
<1> QED BY <1>1, <1>7

LEMMA MovesInTurn ==
    ASSUME BusType, InCall, NEW s \in Seq(QuietCode), Moves(s), InTurn
    PROVE  InTurn'
<1>1. SUFFICES ASSUME hist.failed \subseteq {"read"}
               PROVE  /\ h.pc # "read" => down' \in Seq(StillCode) /\ up' \in Seq(QuietCode)
                      /\ h.pc = "read" => Reading'
  BY DEF InTurn, Moves
<1>2. ASSUME h.pc # "read" PROVE down' \in Seq(StillCode) /\ up' \in Seq(QuietCode)
  <2>1. down \in Seq(StillCode) /\ up \in Seq(QuietCode)
    BY <1>1, <1>2 DEF InTurn
  <2> QED BY <2>1, MovesStill, ConcatProperties DEF Moves
<1>3. ASSUME h.pc = "read" PROVE Reading'
  <2>1. Reading
    BY <1>1, <1>3 DEF InTurn
  <2>2. CASE \E pre \in Seq(StillCode) : Pending(pre)
    BY <1>3, <2>2, MovesPending DEF Reading
  <2>3. CASE \E lead \in Seq(CalmCode), rest \in Seq(QuietCode) : Failing(lead, rest)
    BY <2>3, MovesFailing DEF Reading
  <2>4. CASE \E lead \in Seq(CalmCode), rest \in Seq(QuietCode) : Coming(lead, rest)
    BY <2>4, MovesComing DEF Reading
  <2> QED BY <2>1, <2>2, <2>3, <2>4 DEF Reading
<1> QED BY <1>2, <1>3

LEMMA MovesInStep ==
    ASSUME BusType, NEW s \in Seq(QuietCode), Moves(s), InStep
    PROVE  InStep'
<1> SUFFICES ASSUME hist.failed = {}
             PROVE  InStep'
  BY DEF InStep, Moves
<1>1. End' = End
  BY MovesEnd
<1>2. /\ h' = h /\ hist'.served = hist.served /\ hist'.stale = hist.stale
      /\ ~hist'.astray /\ board'.rdtbl = board.rdtbl
  BY DEF InStep, Moves
<1>3. Unsent' = Unsent
  BY <1>2 DEF Unsent, Asked
<1> QED BY <1>1, <1>2, <1>3 DEF InStep

LEMMA MovesLast ==
    ASSUME NEW s, Moves(s), LastTrue
    PROVE  LastTrue'
BY DEF LastTrue, ReadsTrueInStep, Returned, Moves

\* So the invariant stays, but for the types and the tables.
LEMMA MovesKeep ==
    ASSUME BusInv, NEW s \in Seq(QuietCode), Moves(s)
    PROVE  Due' /\ InTurn' /\ InStep' /\ LastTrue'
BY MovesDue, MovesInTurn, MovesInStep, MovesLast DEF BusInv

-----------------------------------------------------------------------------
(***************************************************************************)
(* The executor: line ends, addresses, writes, the watchdog.               *)
(***************************************************************************)
\* The tables, when the board executes the first codeword.
LEMMA TablesHead ==
    ASSUME BusType, BusType', Tables, down # <<>>, down' = Tail(down),
           h'.wrtbl = h.wrtbl, board'.wrtbl = Executes(Now, Head(down)).tbl
    PROVE  Tables'
<1> DEFINE c == Head(down)
           d == <<c>>
<1>1. down \in Seq(DownCode) /\ c \in DownCode /\ Tail(down) \in Seq(DownCode)
  BY HeadTailProperties DEF BusType
<1>2. Executed(Now, d) = Executes(Now, c)
  <2> HIDE DEF c
  <2> QED BY <1>1, NowType, ExecutedIs
<1>3. d \in Seq(DownCode) /\ down = d \o down'
  BY <1>1
<1> HIDE DEF d
<1> QED BY <1>2, <1>3, TablesStay

LEMMA TablesSame ==
    ASSUME BusType, BusType', Tables, down' = down, h'.wrtbl = h.wrtbl,
           board'.wrtbl = board.wrtbl
    PROVE  Tables'
<1> DEFINE d == <<>>
<1>1. d \in Seq(DownCode)
  OBVIOUS
<1>2. d \o down' = down' /\ Executed(Now, d) = Now
  BY NowType, ExecutedIs, ConcatEmptySeq DEF BusType
<1>3. Executed(Now, d).tbl = board.wrtbl
  BY <1>2 DEF Now
<1> HIDE DEF d
<1> QED BY <1>1, <1>2, <1>3, TablesStay

\* A write, the wrong order or the watchdog has failed: the last code up says so.
LEMMA Fails ==
    ASSUME BusType, h' = h, hist'.failed \ {"read"} # {},
           NEW sent \in Seq(UpCode), NEW c \in UpCode, up' = Append(sent, c),
           c.k \in {"err", "reset"}
    PROVE  Due' /\ InTurn' /\ InStep' /\ LastTrue'
<1>1. Due'
  <2>1. Len(up') \in 1 .. Len(up') /\ up'[Len(up')] = c
    BY AppendProperties, LenProperties
  <2> QED BY <2>1 DEF Due
<1>2. InTurn'
  BY DEF InTurn
<1>3. InStep' /\ LastTrue'
  BY DEF InStep, LastTrue, ReadsTrueInStep, Returned
<1> QED BY <1>1, <1>2, <1>3

LEMMA FirstCode ==
    ASSUME BusType, down # <<>>
    PROVE  /\ Head(down) \in DownCode /\ Tail(down) \in Seq(DownCode)
           /\ Head(down).k # "rd" => Head(down) \in StillCode
<1>1. Head(down) \in DownCode /\ Tail(down) \in Seq(DownCode)
  BY HeadTailProperties DEF BusType
<1> HIDE DEF BusType
<1> QED BY <1>1, CodeKinds DEF StillCode

LEMMA UpSame == ASSUME BusType, up' = up PROVE <<>> \in Seq(QuietCode) /\ up' = up \o <<>>
BY ConcatEmptySeq DEF BusType

LEMMA ExecNl ==
    ASSUME BusInv, down # <<>>, Head(down).k = "nl", down' = Tail(down),
           board' = [board EXCEPT !.st = "idle"], UNCHANGED <<up, eol, mem, hist, h>>
    PROVE  BusInv'
<1>1. BusType /\ Tables /\ InCall
  BY DEF BusInv
<1>2. Head(down) \in DownCode /\ Tail(down) \in Seq(DownCode) /\ Head(down) \in StillCode
  BY <1>1, FirstCode
<1>3. BusType'
  BY <1>1, <1>2 DEF BusType, BoardType
<1>4. InCall'
  <2>1. board'.st = "idle"
    BY <1>1 DEF BusType, BoardType
  <2> QED BY <1>1, <2>1 DEF InCall
<1>5. Executes(Now, Head(down)) = Now
  BY <1>1, <1>2, NowType, ExecutesParts
<1>6. board'.wrtbl = board.wrtbl /\ Now' = Now /\ board'.rdtbl = board.rdtbl
  BY <1>1 DEF BusType, BoardType, Now
<1>7. Tables'
  <2>1. board'.wrtbl = Executes(Now, Head(down)).tbl
    BY <1>5, <1>6 DEF Now
  <2> QED BY <1>1, <1>3, <2>1, TablesHead
<1>8. Moves(<<>>)
  BY <1>1, <1>2, <1>5, <1>6, UpSame DEF Moves
<1>9. <<>> \in Seq(QuietCode)
  BY EmptySeq
<1>10. Due' /\ InTurn' /\ InStep' /\ LastTrue'
  <2> DEFINE s == <<>>
  <2>1. s \in Seq(QuietCode) /\ Moves(s)
    BY <1>8, <1>9
  <2> HIDE DEF s
  <2> QED BY <2>1, MovesKeep
<1> QED BY <1>3, <1>4, <1>7, <1>10 DEF BusInv

LEMMA ExecAddress ==
    ASSUME BusInv, down # <<>>, Head(down).k \in {"abs", "rel"}, down' = Tail(down),
           board' = [board EXCEPT !.newaddr = TRUE, !.addr = DecodeAddress(@, Head(down))],
           UNCHANGED <<up, eol, mem, hist, h>>
    PROVE  BusInv'
<1> DEFINE code == Head(down)
<1>1. BusType /\ Tables /\ InCall
  BY DEF BusInv
<1>2. code \in DownCode /\ Tail(down) \in Seq(DownCode) /\ code \in StillCode /\ code \in AddressCode
  BY <1>1, FirstCode, CodeKinds
<1>a. board.addr \in Int
  BY <1>1 DEF BusType, BoardType
<1>b. DecodeAddress(board.addr, code) \in Int
  <2> HIDE DEF code
  <2> QED BY <1>2, <1>a, DecodeType
<1>3. BusType'
  <2> HIDE DEF code
  <2>1. board' = [board EXCEPT !.newaddr = TRUE, !.addr = DecodeAddress(@, code)]
    BY DEF code
  <2>2. board' \in BoardType
    BY <1>1, <1>b, <2>1 DEF BusType, BoardType
  <2> QED BY <1>1, <1>2, <2>2 DEF BusType
<1>c. /\ board'.wrtbl = board.wrtbl /\ board'.rdtbl = board.rdtbl /\ board'.st = board.st
      /\ board'.addr = DecodeAddress(board.addr, code) /\ board'.newaddr = TRUE
  BY <1>1 DEF BusType, BoardType
<1>4. InCall'
  BY <1>1, <1>c DEF InCall
<1>d. code.k \in {"abs", "rel"}
  OBVIOUS
<1> HIDE DEF code
<1>5. Executes(Now, code) = Now'
  <2> DEFINE a == DecodeAddress(board.addr, code)
             y == Executes(Now, code)
  <2>1. Now \in Walker /\ Now.addr = board.addr
    BY <1>1, NowType DEF Now
  <2>2. y = [Now EXCEPT !.addr = a, !.newaddr = TRUE]
    BY <1>d, <2>1 DEF Executes
  <2>3. y \in Walker /\ Now' \in Walker
    BY <1>2, <1>3, <2>1, ExecutesType DEF BusType, BoardType, HistType, Now, Walker
  <2>4. board'.addr = a
    BY <1>c
  <2> HIDE DEF a, y
  <2>5. /\ y.addr = a /\ y.newaddr = TRUE /\ y.left = Now.left
        /\ y.tbl = Now.tbl /\ y.refs = Now.refs /\ y.fits = Now.fits
    BY <2>1, <2>2 DEF Walker
  <2>6. /\ Now'.addr = a /\ Now'.newaddr = TRUE /\ Now'.left = Now.left
        /\ Now'.tbl = Now.tbl /\ Now'.refs = Now.refs /\ Now'.fits = Now.fits
    <3>1. /\ Now.left = hist.asked /\ Now.tbl = board.wrtbl /\ Now.refs = TRUE /\ Now.fits = TRUE
          /\ Now'.addr = board'.addr /\ Now'.newaddr = board'.newaddr /\ Now'.left = hist'.asked
          /\ Now'.tbl = board'.wrtbl /\ Now'.refs = TRUE /\ Now'.fits = TRUE
      BY DEF Now
    <3>2. hist'.asked = hist.asked
      OBVIOUS
    <3> QED BY <1>c, <2>4, <3>1, <3>2
  <2>7. y = Now'
    <3> DEFINE z == Now'
    <3>1. /\ y \in Walker /\ z \in Walker /\ y.addr = z.addr /\ y.newaddr = z.newaddr
          /\ y.left = z.left /\ y.tbl = z.tbl /\ y.refs = z.refs /\ y.fits = z.fits
      BY <2>3, <2>5, <2>6
    <3> HIDE DEF z
    <3> QED BY <3>1, SameWalker DEF z
  <2> QED BY <2>7 DEF y
<1>7. Tables'
  <2>1. board'.wrtbl = Executes(Now, Head(down)).tbl
    BY <1>5, <1>c DEF Now, code
  <2> QED BY <1>1, <1>3, <2>1, TablesHead
<1>8. Moves(<<>>)
  BY <1>1, <1>2, <1>5, <1>c, UpSame DEF Moves, code
<1>9. <<>> \in Seq(QuietCode)
  BY EmptySeq
<1>10. Due' /\ InTurn' /\ InStep' /\ LastTrue'
  <2> DEFINE s == <<>>
  <2>1. s \in Seq(QuietCode) /\ Moves(s)
    BY <1>8, <1>9
  <2> HIDE DEF s
  <2> QED BY <2>1, MovesKeep
<1> QED BY <1>3, <1>4, <1>7, <1>10 DEF BusInv

LEMMA ErrAnswered ==
    ASSUME BusType, Answer(<<ErrCode>>)
    PROVE  up' = Append(up, ErrCode) /\ up' \in Seq(UpCode) /\ eol' \in BOOLEAN
<1> DEFINE c == ErrCode
<1>1. up' = up \o <<c>> /\ eol' = FALSE
  BY DEF Answer
<1>2. up \in Seq(UpCode) /\ c \in UpCode
  BY CodeSets DEF BusType
<1> HIDE DEF c
<1>3. up' = Append(up, c) /\ up' \in Seq(UpCode)
  BY <1>1, <1>2, AppendIsConcat, AppendProperties
<1> QED BY <1>1, <1>3 DEF c

LEMMA FailedType ==
    ASSUME BusType, NEW what \in Failures, Failed(what)
    PROVE  /\ hist' \in HistType /\ hist'.failed = hist.failed \cup {what}
           /\ hist'.last = hist.last
<1>1. hist \in HistType /\ hist' = [hist EXCEPT !.failed = @ \cup {what}, !.asked = <<>>]
  BY DEF BusType, Failed
<1>2. hist.failed \cup {what} \in SUBSET Failures
  BY <1>1 DEF HistType
<1>3. <<>> \in Seq(Int \X Val)
  BY EmptySeq
<1> QED BY <1>1, <1>2, <1>3 DEF HistType

LEMMA ExecStop ==
    ASSUME BusInv, down # <<>>, ~IsWrite(Head(down)), Head(down).k # "nl", down' = Tail(down),
           board' = [board EXCEPT !.st = "idle"], Answer(<<ErrCode>>), Failed("order"),
           UNCHANGED <<mem, h>>
    PROVE  BusInv'
<1> DEFINE code == Head(down)
<1>1. BusType /\ Tables /\ InCall
  BY DEF BusInv
<1>2. code \in DownCode /\ Tail(down) \in Seq(DownCode)
  BY <1>1, FirstCode
<1>3. up' = Append(up, ErrCode) /\ up' \in Seq(UpCode) /\ eol' \in BOOLEAN
  BY <1>1, ErrAnswered
<1>4. hist' \in HistType /\ "order" \in hist'.failed /\ hist.failed \subseteq hist'.failed
  BY <1>1, FailedType DEF Failures
<1>5. board' \in BoardType /\ board'.wrtbl = board.wrtbl /\ board'.st = "idle"
  BY <1>1 DEF BusType, BoardType
<1>6. BusType'
  BY <1>1, <1>2, <1>3, <1>4, <1>5 DEF BusType
<1>7. InCall'
  BY <1>1, <1>5 DEF InCall
<1>8. Executes(Now, code).tbl = board.wrtbl
  <2>1. Now.tbl = board.wrtbl
    BY DEF Now
  <2>2. code.k \in {"abs", "rel", "rd"}
    <3> HIDE DEF code
    <3>1. ~IsWrite(code) /\ code.k # "nl"
      BY DEF code
    <3> QED BY <1>2, <3>1, CodeKinds DEF IsWrite
  <2> HIDE DEF code
  <2> QED BY <1>1, <1>2, <2>1, <2>2, NowType, ExecutesParts
<1>9. Tables'
  BY <1>1, <1>5, <1>6, <1>8, TablesHead
<1>10. Due' /\ InTurn' /\ InStep' /\ LastTrue'
  <2> DEFINE c == ErrCode
  <2>1. c \in UpCode /\ c.k \in {"err", "reset"} /\ up' = Append(up, c) /\ up \in Seq(UpCode)
    BY <1>1, <1>3, CodeSets DEF ErrCode, BusType
  <2>2. hist'.failed \ {"read"} # {}
    BY <1>4
  <2> HIDE DEF c
  <2> QED BY <1>1, <2>1, <2>2, Fails
<1> QED BY <1>6, <1>7, <1>9, <1>10 DEF BusInv

\* The word of a write.
LEMMA WriteParts ==
    ASSUME BusType, Tables, down # <<>>, IsWrite(Head(down))
    PROVE  /\ Head(down) \in DownCode /\ Head(down) \in WriteCode /\ Head(down) \in StillCode
           /\ Tail(down) \in Seq(DownCode)
           /\ WrittenWord(Head(down)) = WordOf(Head(down), board.wrtbl)
           /\ WrittenWord(Head(down)) \in Val
           /\ Executes(Now, Head(down)).refs = TRUE
           /\ Executes(Now, Head(down)).tbl = Enter(board.wrtbl, Head(down))
           /\ Enter(board.wrtbl, Head(down)) \in Table
           /\ Step(Head(down).inc) \in Int
<1> DEFINE code == Head(down)
<1>1. code \in DownCode /\ Tail(down) \in Seq(DownCode) /\ IsWrite(code)
  BY FirstCode
<1>2. code \in WriteCode /\ code \in StillCode
  BY <1>1, CodeKinds, CodeSets
<1>3. Now.tbl = board.wrtbl /\ board.wrtbl \in Table /\ Now \in Walker
  BY NowType DEF Now, BusType, BoardType
<1>4. End = Executed(Executes(Now, code), Tail(down))
  BY ExecutedIs, <1>3 DEF End, BusType
<1> HIDE DEF code
<1>5. Executes(Now, code) \in Walker
  BY <1>1, <1>3, ExecutesType
<1>6. Executes(Now, code).refs
  BY <1>1, <1>4, <1>5, ExecutedRight DEF Tables
<1>7. Executes(Now, code).refs = (Now.refs /\ (code.k = "wt" => code.v <= Len(Now.tbl)))
      /\ Executes(Now, code).tbl = Enter(Now.tbl, code)
  BY <1>1, <1>3, ExecutesParts
<1>8. WrittenWord(code) = WordOf(code, board.wrtbl)
  BY DEF WrittenWord, WordOf
<1>9. WordOf(code, board.wrtbl) \in Val
  <2>1. CASE code.k = "wr"
    BY <1>2, <2>1 DEF WordOf, WriteCode
  <2>2. CASE code.k # "wr"
    <3>1. code.k = "wt" /\ code.v \in Nat \ {0}
      BY <1>2, <2>2 DEF WriteCode
    <3>2. code.v <= Len(board.wrtbl) /\ board.wrtbl \in Seq(Val) /\ Len(board.wrtbl) \in Nat
      BY <1>3, <1>6, <1>7, <3>1, LenProperties DEF Table
    <3>3. Len(board.wrtbl) + 1 - code.v \in 1 .. Len(board.wrtbl)
      BY <3>1, <3>2
    <3> QED BY <2>2, <3>2, <3>3, ElementOfSeq DEF WordOf, Back
  <2> QED BY <2>1, <2>2
<1>10. Enter(board.wrtbl, code) \in Table /\ Step(code.inc) \in Int
  BY <1>2, <1>3, EnterType DEF Step
<1>11. Executes(Now, code).refs = TRUE
  BY <1>5, <1>6 DEF Walker
<1> QED BY <1>1, <1>2, <1>3, <1>7, <1>8, <1>9, <1>10, <1>11 DEF code

LEMMA ExecWriteDropped ==
    ASSUME BusInv, down # <<>>, IsWrite(Head(down)), down' = Tail(down), board.st = "err",
           board' = [board EXCEPT !.st = "err", !.newaddr = FALSE,
                       !.wrtbl = Enter(@, Head(down))],
           UNCHANGED <<up, eol, hist, mem, h>>
    PROVE  BusInv'
<1> DEFINE code == Head(down)
<1>1. BusType /\ Tables /\ InCall
  BY DEF BusInv
<1>2. /\ code \in StillCode /\ Tail(down) \in Seq(DownCode)
      /\ Executes(Now, code).tbl = Enter(board.wrtbl, code) /\ Enter(board.wrtbl, code) \in Table
  BY <1>1, WriteParts
<1> HIDE DEF code
<1>3. /\ board' \in BoardType /\ board'.wrtbl = Enter(board.wrtbl, code)
      /\ board'.st = "err" /\ board'.rdtbl = board.rdtbl
  BY <1>1, <1>2 DEF BusType, BoardType, code
<1>4. BusType'
  BY <1>1, <1>2, <1>3 DEF BusType
<1>5. InCall'
  BY <1>1 DEF InCall
<1>6. Tables'
  BY <1>1, <1>2, <1>3, <1>4, TablesHead DEF code
<1>7. Moves(<<>>)
  <2>1. hist.failed # {}
    BY <1>1 DEF InCall
  <2> QED BY <1>1, <1>2, <1>3, <2>1, UpSame DEF Moves, code
<1>8. Due' /\ InTurn' /\ InStep' /\ LastTrue'
  <2> DEFINE s == <<>>
  <2>1. s \in Seq(QuietCode) /\ Moves(s)
    BY <1>7, EmptySeq
  <2> HIDE DEF s
  <2> QED BY <2>1, MovesKeep
<1> QED BY <1>4, <1>5, <1>6, <1>8 DEF BusInv

LEMMA BoardWritten ==
    ASSUME board \in BoardType, NEW st \in {"more", "err"}, NEW t \in Table, NEW d \in Int,
           board' = [board EXCEPT !.st = st, !.newaddr = FALSE, !.wrtbl = t,
                       !.addr = IF board.st = "err" THEN @ ELSE @ + d]
    PROVE  /\ board' \in BoardType /\ board'.wrtbl = t /\ board'.st = st
           /\ board'.rdtbl = board.rdtbl /\ board'.newaddr = FALSE
           /\ board.st # "err" => board'.addr = board.addr + d
<1> DEFINE a == IF board.st = "err" THEN board.addr ELSE board.addr + d
<1>1. a \in Int /\ board' = [board EXCEPT !.st = st, !.newaddr = FALSE, !.wrtbl = t, !.addr = a]
  BY DEF BoardType
<1>2. board.st # "err" => a = board.addr + d
  OBVIOUS
<1> HIDE DEF a
<1> QED BY <1>1, <1>2 DEF BoardType

LEMMA ExecWriteFailed ==
    ASSUME BusInv, down # <<>>, IsWrite(Head(down)), down' = Tail(down),
           board' = [board EXCEPT !.st = "err", !.newaddr = FALSE,
                       !.wrtbl = Enter(@, Head(down)),
                       !.addr = IF board.st = "err" THEN @ ELSE @ + Step(Head(down).inc)],
           Answer(<<ErrCode>>), Failed("write"), UNCHANGED <<mem, h>>
    PROVE  BusInv'
<1> DEFINE code == Head(down)
<1>1. BusType /\ Tables /\ InCall
  BY DEF BusInv
<1>2. /\ code \in DownCode /\ Tail(down) \in Seq(DownCode) /\ Step(code.inc) \in Int
      /\ Executes(Now, code).tbl = Enter(board.wrtbl, code) /\ Enter(board.wrtbl, code) \in Table
  BY <1>1, WriteParts
<1> HIDE DEF code
<1>3. up' = Append(up, ErrCode) /\ up' \in Seq(UpCode) /\ eol' \in BOOLEAN
  BY <1>1, ErrAnswered
<1>4. hist' \in HistType /\ "write" \in hist'.failed
  BY <1>1, FailedType DEF Failures
<1>5. board' \in BoardType /\ board'.wrtbl = Enter(board.wrtbl, code)
  <2> DEFINE t == Enter(board.wrtbl, code)
             d == Step(code.inc)
  <2>1. /\ board' = [board EXCEPT !.st = "err", !.newaddr = FALSE, !.wrtbl = t,
                       !.addr = IF board.st = "err" THEN @ ELSE @ + d]
        /\ t \in Table /\ d \in Int /\ board \in BoardType
    BY <1>1, <1>2 DEF BusType, code
  <2> HIDE DEF t, d
  <2> QED BY <2>1, BoardWritten DEF t
<1>6. BusType'
  BY <1>1, <1>2, <1>3, <1>4, <1>5 DEF BusType
<1>7. InCall'
  BY <1>1, <1>4 DEF InCall
<1>8. Tables'
  BY <1>1, <1>2, <1>5, <1>6, TablesHead DEF code
<1>9. Due' /\ InTurn' /\ InStep' /\ LastTrue'
  <2> DEFINE c == ErrCode
  <2>1. c \in UpCode /\ c.k \in {"err", "reset"} /\ up' = Append(up, c) /\ up \in Seq(UpCode)
    BY <1>1, <1>3, CodeSets DEF ErrCode, BusType
  <2>2. hist'.failed \ {"read"} # {}
    BY <1>4
  <2> HIDE DEF c
  <2> QED BY <1>1, <2>1, <2>2, Fails
<1> QED BY <1>6, <1>7, <1>8, <1>9 DEF BusInv

LEMMA ExecWriteTaken ==
    ASSUME BusInv, down # <<>>, IsWrite(Head(down)), down' = Tail(down), board.st # "err",
           board' = [board EXCEPT !.st = "more", !.newaddr = FALSE,
                       !.wrtbl = Enter(@, Head(down)),
                       !.addr = IF board.st = "err" THEN @ ELSE @ + Step(Head(down).inc)],
           Answer(<<[k |-> "ack"]>>),
           mem' = [a \in Addr |-> IF a = board.addr THEN WrittenWord(Head(down)) ELSE mem[a]],
           hist' = [hist EXCEPT
              !.asked = IF @ = <<>> THEN @ ELSE Tail(@),
              !.astray = @ \/ hist.asked = <<>>
                           \/ Head(hist.asked) # <<board.addr, WrittenWord(Head(down))>>],
           h' = h
    PROVE  BusInv'
<1> DEFINE code == Head(down)
           ack == <<[k |-> "ack"]>>
           word == WrittenWord(code)
<1>1. BusType /\ Tables /\ InCall /\ InStep
  BY DEF BusInv
<1>2. /\ code \in StillCode /\ code \in DownCode /\ Tail(down) \in Seq(DownCode)
      /\ Executes(Now, code).tbl = Enter(board.wrtbl, code) /\ Enter(board.wrtbl, code) \in Table
      /\ Executes(Now, code).refs = TRUE /\ Step(code.inc) \in Int
      /\ word \in Val /\ word = WordOf(code, board.wrtbl)
  BY <1>1, WriteParts
<1>3. ack \in Seq(QuietCode) /\ up' = up \o ack /\ eol' = FALSE
  <2> DEFINE c == [k |-> "ack"]
  <2>1. c \in QuietCode
    BY CodeSets
  <2> HIDE DEF c
  <2>2. <<c>> \in Seq(QuietCode)
    BY <2>1
  <2> QED BY <2>2 DEF c, Answer
<1> HIDE DEF code, ack, word
<1>4. up' \in Seq(UpCode)
  <2>1. ack \in Seq(UpCode)
    BY <1>3, CodeSets, SeqMonotonic
  <2> QED BY <1>1, <1>3, <2>1, ConcatProperties DEF BusType
<1>5. mem' \in [Addr -> Val]
  BY <1>1, <1>2 DEF BusType, word, code
<1>6. /\ board' \in BoardType /\ board'.wrtbl = Enter(board.wrtbl, code)
      /\ board'.st = "more" /\ board'.rdtbl = board.rdtbl /\ board'.newaddr = FALSE
      /\ board'.addr = board.addr + Step(code.inc)
  <2> DEFINE t == Enter(board.wrtbl, code)
             d == Step(code.inc)
  <2>1. /\ board' = [board EXCEPT !.st = "more", !.newaddr = FALSE, !.wrtbl = t,
                       !.addr = IF board.st = "err" THEN @ ELSE @ + d]
        /\ t \in Table /\ d \in Int /\ board \in BoardType
    BY <1>1, <1>2 DEF BusType, code
  <2> HIDE DEF t, d
  <2> QED BY <2>1, BoardWritten DEF t, d
<1>7. /\ hist' \in HistType /\ hist'.failed = hist.failed /\ hist'.served = hist.served
      /\ hist'.stale = hist.stale /\ hist'.last = hist.last
      /\ hist'.asked = IF hist.asked = <<>> THEN <<>> ELSE Tail(hist.asked)
      /\ hist'.astray = (hist.astray \/ hist.asked = <<>> \/ Head(hist.asked) # <<board.addr, word>>)
  <2> DEFINE q == IF hist.asked = <<>> THEN hist.asked ELSE Tail(hist.asked)
             a == hist.astray \/ hist.asked = <<>> \/ Head(hist.asked) # <<board.addr, word>>
  <2>1. hist \in HistType /\ hist' = [hist EXCEPT !.asked = q, !.astray = a]
    BY <1>1 DEF BusType, word, code
  <2>2. q \in Seq(Int \X Val)
    <3>1. hist.asked \in Seq(Int \X Val)
      BY <2>1 DEF HistType
    <3> QED BY <3>1, HeadTailProperties
  <2>3. a \in BOOLEAN
    OBVIOUS
  <2> HIDE DEF q, a
  <2>4. /\ hist' \in HistType /\ hist'.failed = hist.failed /\ hist'.served = hist.served
        /\ hist'.stale = hist.stale /\ hist'.last = hist.last
        /\ hist'.asked = q /\ hist'.astray = a
    BY <2>1, <2>2, <2>3 DEF HistType
  <2> QED BY <2>4 DEF q, a
<1>8. BusType'
  BY <1>1, <1>2, <1>3, <1>4, <1>5, <1>6, <1>7 DEF BusType
<1>9. InCall'
  BY <1>1, <1>6 DEF InCall
<1>10. Tables'
  BY <1>1, <1>2, <1>6, <1>8, TablesHead DEF code
<1>11. ASSUME hist.failed = {}
       PROVE  /\ Now' = Executes(Now, code)
              /\ ~hist'.astray
  <2>1. End = Executed(Executes(Now, code), Tail(down)) /\ Executes(Now, code) \in Walker
    BY <1>1, <1>2, NowType, ExecutedIs, ExecutesType DEF End, BusType, code
  <2>2. Executes(Now, code).fits
    BY <1>1, <1>2, <1>11, <2>1, ExecutedRight DEF InStep
  <2>3. Executes(Now, code).fits = (Now.fits /\ Now.left # <<>>
                                    /\ Head(Now.left) = <<Now.addr, WordOf(code, Now.tbl)>>)
        /\ Executes(Now, code).addr = Now.addr + Step(code.inc)
        /\ ~Executes(Now, code).newaddr
        /\ Executes(Now, code).left = IF Now.left = <<>> THEN <<>> ELSE Tail(Now.left)
    <3>1. IsWrite(code)
      BY DEF code
    <3> QED BY <1>1, <1>2, <3>1, NowType, ExecutesParts
  <2>4. hist.asked # <<>> /\ Head(hist.asked) = <<board.addr, word>>
    BY <1>2, <2>2, <2>3 DEF Now
  <2>5. ~hist'.astray
    BY <1>1, <1>7, <1>11, <2>4 DEF InStep
  <2>6. Now' = Executes(Now, code)
    <3> DEFINE y == Executes(Now, code)
    <3>1. y = [addr |-> y.addr, newaddr |-> y.newaddr, left |-> y.left, tbl |-> y.tbl,
               refs |-> y.refs, fits |-> y.fits]
          /\ y.fits \in BOOLEAN /\ y.newaddr \in BOOLEAN
      <4> HIDE DEF y
      <4>1. y \in Walker
        BY <2>1 DEF y
      <4> QED BY <4>1 DEF Walker
    <3>2. y.fits = TRUE /\ y.newaddr = FALSE /\ y.refs = TRUE
      BY <1>2, <2>2, <2>3, <3>1
    <3>3. y.addr = board'.addr /\ y.tbl = board'.wrtbl /\ y.left = hist'.asked
      BY <1>2, <1>6, <1>7, <2>3 DEF Now
    <3> HIDE DEF y
    <3> QED BY <1>6, <3>1, <3>2, <3>3 DEF Now, y
  <2> QED BY <2>5, <2>6
<1>12. Moves(ack)
  BY <1>2, <1>3, <1>6, <1>7, <1>11 DEF Moves, code
<1>13. Due' /\ InTurn' /\ InStep' /\ LastTrue'
  BY <1>3, <1>12, MovesKeep
<1> QED BY <1>8, <1>9, <1>10, <1>13 DEF BusInv

LEMMA CutAt ==
    ASSUME NEW S, NEW s \in Seq(S), NEW n \in 0 .. Len(s)
    PROVE  /\ SubSeq(s, 1, n) \in Seq(S) /\ SubSeq(s, n + 1, Len(s)) \in Seq(S)
           /\ s = SubSeq(s, 1, n) \o SubSeq(s, n + 1, Len(s))
<1>0. Len(s) \in Nat /\ n \in Nat
  BY LenProperties
<1>1. SubSeq(s, 1, n) \in Seq(S)
  <2>1. \A i \in 1 .. n : s[i] \in S
    BY <1>0, ElementOfSeq
  <2> QED BY <1>0, <2>1, SubSeqProperties
<1>2. SubSeq(s, n + 1, Len(s)) \in Seq(S)
  <2>1. \A i \in n + 1 .. Len(s) : s[i] \in S
    BY <1>0, ElementOfSeq
  <2> QED BY <1>0, <2>1, SubSeqProperties
<1>3. SubSeq(s, 1, n) \o SubSeq(s, n + 1, Len(s)) = SubSeq(s, 1, Len(s))
  <2>1. 1 \in 1 .. Len(s) + 1 /\ n \in 1 - 1 .. Len(s) /\ Len(s) \in n .. Len(s)
    BY <1>0
  <2> QED BY <2>1, ConcatAdjacentSubSeq
<1> QED BY <1>1, <1>2, <1>3, SubSeqFull

LEMMA ExecWatchdog ==
    ASSUME BusInv, down # <<>>, WatchdogReset, h' = h
    PROVE  BusInv'
<1>1. BusType /\ Tables /\ InCall
  BY DEF BusInv
<1>2. PICK n \in 1 .. Len(down) :
          /\ down' = SubSeq(down, n + 1, Len(down))
          /\ board' = [board EXCEPT !.st = "idle", !.newaddr = TRUE,
                         !.wrtbl = Entered(SubSeq(down, 1, n))]
  BY DEF WatchdogReset
<1>3. PICK m \in 0 .. Len(up) : up' = SubSeq(up, 1, m) \o <<[k |-> "reset"]>>
  BY DEF WatchdogReset
<1>4. Failed("reset") /\ UNCHANGED mem /\ eol' = FALSE
  BY DEF WatchdogReset
<1> DEFINE d == SubSeq(down, 1, n)
           r == SubSeq(up, 1, m)
           c == [k |-> "reset"]
<1>5. d \in Seq(DownCode) /\ down' \in Seq(DownCode) /\ down = d \o down'
  <2>1. n \in 0 .. Len(down) /\ down \in Seq(DownCode)
    BY <1>1, LenProperties DEF BusType
  <2> QED BY <1>2, <2>1, CutAt
<1>6. r \in Seq(UpCode) /\ c \in UpCode /\ up' = r \o <<c>>
  BY <1>1, <1>3, CutAt, CodeSets DEF BusType
<1>7. c.k \in {"err", "reset"}
  OBVIOUS
<1>8. board' = [board EXCEPT !.st = "idle", !.newaddr = TRUE, !.wrtbl = Entered(d)]
  BY <1>2
<1> HIDE DEF d, r, c
<1>9. up' = Append(r, c) /\ up' \in Seq(UpCode)
  BY <1>6, AppendIsConcat, AppendProperties
<1>10. Entered(d) = Executed(Now, d).tbl /\ Entered(d) \in Table
  <2>1. board.wrtbl \in Table /\ Now \in Walker /\ Now.tbl = board.wrtbl
    BY <1>1, NowType DEF BusType, BoardType, Now
  <2>2. Entered(d) = Final(Enterer, Now.tbl, d)
    BY <1>5, <2>1, EnteredIs
  <2>3. Entered(d) = Executed(Now, d).tbl
    BY <1>5, <2>1, <2>2, TableExecuted
  <2>4. Executed(Now, d) \in Walker
    BY <1>5, <2>1, ExecutedIs
  <2> QED BY <2>3, <2>4 DEF Walker
<1>11. board' \in BoardType /\ board'.wrtbl = Entered(d) /\ board'.st = "idle"
  BY <1>1, <1>8, <1>10 DEF BusType, BoardType
<1>12. hist' \in HistType /\ "reset" \in hist'.failed
  BY <1>1, <1>4, FailedType DEF Failures
<1>13. BusType'
  BY <1>1, <1>4, <1>5, <1>9, <1>11, <1>12 DEF BusType
<1>14. InCall'
  BY <1>1, <1>11 DEF InCall
<1>15. Tables'
  BY <1>1, <1>5, <1>10, <1>11, <1>13, TablesStay
<1>16. Due' /\ InTurn' /\ InStep' /\ LastTrue'
  <2>1. hist'.failed \ {"read"} # {}
    BY <1>12
  <2> QED BY <1>1, <1>6, <1>7, <1>9, <2>1, Fails
<1> QED BY <1>13, <1>14, <1>15, <1>16 DEF BusInv

\* A code that the host reads over.
LEMMA QuietSent ==
    ASSUME BusInv, NEW c \in QuietCode, up' = up \o <<c>>, eol' \in BOOLEAN,
           NEW left \in Nat, board' = [board EXCEPT !.left = left],
           UNCHANGED <<h, down, mem, hist>>
    PROVE  BusInv'
<1> DEFINE s == <<c>>
<1>1. BusType /\ Tables /\ InCall
  BY DEF BusInv
<1>2. s \in Seq(QuietCode) /\ up' = up \o s
  OBVIOUS
<1> HIDE DEF s
<1>3. up' \in Seq(UpCode)
  <2>1. s \in Seq(UpCode)
    BY <1>2, CodeSets, SeqMonotonic
  <2> QED BY <1>1, <1>2, <2>1, ConcatProperties DEF BusType
<1>4. /\ board' \in BoardType /\ board'.wrtbl = board.wrtbl /\ board'.rdtbl = board.rdtbl
      /\ board'.st = board.st /\ board'.addr = board.addr /\ board'.newaddr = board.newaddr
  BY <1>1 DEF BusType, BoardType
<1>5. BusType'
  BY <1>1, <1>3, <1>4 DEF BusType
<1>6. InCall'
  BY <1>1, <1>4 DEF InCall
<1>7. Tables'
  BY <1>1, <1>4, <1>5, TablesSame
<1>8. Now' = Now
  BY <1>4 DEF Now
<1>9. Moves(s)
  BY <1>2, <1>4, <1>8 DEF Moves
<1>10. Due' /\ InTurn' /\ InStep' /\ LastTrue'
  BY <1>2, <1>9, MovesKeep
<1> QED BY <1>5, <1>6, <1>7, <1>10 DEF BusInv

LEMMA InterruptKeeps ==
    ASSUME BusInv, Interrupt
    PROVE  BusInv'
<1> DEFINE c == [k |-> "int"]
           left == board.left - 1
<1>1. /\ up' = up \o <<c>> /\ eol' \in BOOLEAN /\ board' = [board EXCEPT !.left = left]
      /\ UNCHANGED <<h, down, mem, hist>>
  BY DEF Interrupt, Answer
<1>2. left \in Nat
  BY DEF Interrupt, BusInv, BusType, BoardType
<1>3. c \in QuietCode
  BY CodeSets
<1> HIDE DEF c, left
<1> QED BY <1>1, <1>2, <1>3, QuietSent

LEMMA LineEndKeeps ==
    ASSUME BusInv, LineEnd
    PROVE  BusInv'
<1> DEFINE c == [k |-> "nl"]
           left == board.left
<1>1. eol' \in BOOLEAN /\ UNCHANGED <<h, down, mem, hist>> /\ up' = Append(up, c)
  BY DEF LineEnd
<1>2. board' = [board EXCEPT !.left = left] /\ left \in Nat
  BY DEF LineEnd, BusInv, BusType, BoardType
<1>3. c \in QuietCode /\ up \in Seq(UpCode) /\ c \in UpCode
  BY CodeSets DEF BusInv, BusType
<1> HIDE DEF c, left
<1>4. up' = up \o <<c>>
  BY <1>1, <1>3, AppendIsConcat
<1> QED BY <1>1, <1>2, <1>3, <1>4, QuietSent

-----------------------------------------------------------------------------
(***************************************************************************)
(* The executor: a burst of reads.                                         *)
(***************************************************************************)
(* A burst of reads: n words answered, of those asked for; errs is 1 if it *)
(* ended in an error.                                                      *)
Start == IF board.newaddr THEN <<>> ELSE board.rdtbl
NewAddress == IF board.newaddr THEN <<[k |-> "addr", v |-> board.addr]>> ELSE <<>>
Lead(e) == NewAddress \o e.codes
Burst(code, n, words, e, errs) ==
  /\ words \in Seq(Val) /\ Len(words) = n
  /\ e.codes \in Seq(DataCode) /\ e.tbl \in Seq(Val) /\ Len(e.codes) = n
  /\ \A x \in Taker : Read(x, Start, e, words, code.inc)
  /\ IF errs = 1 THEN n < code.v ELSE n = code.v
  /\ up' = up \o (Lead(e) \o (IF errs = 1 THEN <<ErrCode>> ELSE <<>>))
  /\ \E to \in Int : /\ board' = [board EXCEPT !.newaddr = FALSE, !.rdtbl = e.tbl, !.addr = to]
                     /\ errs # 1 => to = board.addr + n * Step(code.inc)
  /\ hist' = [hist EXCEPT !.served = @ \o words,
                          !.failed = IF errs = 1 THEN @ \cup {"read"} ELSE @]
  /\ eol' = FALSE /\ UNCHANGED mem

LEMMA GoodIs ==
    ASSUME NEW code \in ReadCode, NEW good, BusType,
           good = IF Missing(code) # {} THEN Least(Missing(code)) - 1 ELSE code.v
    PROVE  /\ good \in Nat /\ IF Missing(code) # {} THEN good < code.v ELSE good = code.v
           /\ \A i \in 1 .. good : ReadAt(code, i) \in Addr
<1>1. code.v \in Nat \ {0} /\ Missing(code) \in SUBSET (1 .. code.v)
  BY DEF ReadCode, Missing
<1>2. \A i \in 1 .. code.v : i \notin Missing(code) => ReadAt(code, i) \in Addr
  BY DEF Missing
<1>3. CASE Missing(code) # {}
  <2> DEFINE M == Missing(code)
             l == Least(M)
  <2>1. l \in M /\ \A m \in M : l <= m
    <3>1. M \in SUBSET Nat /\ M # {}
      BY <1>1, <1>3
    <3> HIDE DEF M
    <3> QED BY <3>1, LeastIs
  <2>2. good = l - 1 /\ l \in 1 .. code.v /\ \A i \in 1 .. l - 1 : i \notin M
    <3> HIDE DEF l
    <3>1. good = l - 1
      BY <1>3 DEF l
    <3> QED BY <1>1, <2>1, <3>1
  <2> HIDE DEF l
  <2> QED BY <1>1, <1>2, <1>3, <2>2
<1>4. CASE Missing(code) = {}
  BY <1>1, <1>2, <1>4
<1> QED BY <1>3, <1>4

LEMMA BurstIs ==
    ASSUME BusType, NEW code \in ReadCode, BoardRead(code)
    PROVE  \E n \in Nat, errs \in {0, 1} : \E words, e : Burst(code, n, words, e, errs)
<1> DEFINE errs == Missing(code) # {}
           good == IF errs THEN Least(Missing(code)) - 1 ELSE code.v
<1>0. errs \in BOOLEAN
  OBVIOUS
<1>1. /\ good \in Nat /\ IF errs THEN good < code.v ELSE good = code.v
      /\ \A i \in 1 .. good : ReadAt(code, i) \in Addr
  BY GoodIs
<1>2. PICK small \in [1 .. good -> BOOLEAN], n \in IF errs THEN 0 .. good ELSE {good} :
        LET words == [i \in 1 .. n |-> mem[ReadAt(code, i)]]
            enc   == Compressed(Start, words, small, code.inc)
        IN  /\ Answer(NewAddress \o enc.codes \o (IF errs THEN <<ErrCode>> ELSE <<>>))
            /\ board' = [board EXCEPT !.newaddr = FALSE, !.rdtbl = enc.tbl,
                 !.addr = @ + (good + IF errs THEN 1 ELSE 0) * Step(code.inc)]
            /\ hist' = [hist EXCEPT !.served = @ \o words,
                 !.failed = IF errs THEN @ \cup {"read"} ELSE @]
            /\ UNCHANGED mem
  BY DEF BoardRead, Start, NewAddress, ErrCode
<1> HIDE DEF good
<1>3. n \in Nat /\ n <= good /\ (~errs => n = good)
  BY <1>1, <1>2
<1>4. code.v \in Nat \ {0} /\ code.inc \in BOOLEAN /\ Step(code.inc) \in Int
  BY DEF ReadCode, Step
<1> DEFINE words == [i \in 1 .. n |-> mem[ReadAt(code, i)]]
           e == Compressed(Start, words, small, code.inc)
<1>5. words \in Seq(Val) /\ Len(words) = n
  <2>1. \A i \in 1 .. n : mem[ReadAt(code, i)] \in Val
    BY <1>1, <1>3 DEF BusType
  <2> QED BY <1>3, <2>1
<1>6. Start \in Seq(Val)
  BY EmptySeq DEF BusType, BoardType, Start
<1>7. \A i \in 1 .. Len(words) : small[i] \in BOOLEAN
  BY <1>1, <1>3, <1>5
<1> HIDE DEF words
<1>8. /\ e.codes \in Seq(DataCode) /\ e.tbl \in Seq(Val) /\ Len(e.codes) = n
      /\ \A x \in Taker : Read(x, Start, e, words, code.inc)
  <2> DEFINE inc == code.inc
  <2>1. Answers(e, Start, words, small, inc) /\ inc \in BOOLEAN
    BY <1>4, <1>7 DEF Answers
  <2> HIDE DEF e, inc
  <2>2. /\ e.codes \in Seq(DataCode) /\ e.tbl \in Seq(Val) /\ Len(e.codes) = Len(words)
        /\ \A x \in Taker : Read(x, Start, e, words, inc)
    BY <1>5, <1>6, <2>1, WordsRead
  <2> QED BY <1>5, <2>2 DEF inc
<1>9. /\ Answer(NewAddress \o e.codes \o (IF errs THEN <<ErrCode>> ELSE <<>>))
      /\ board' = [board EXCEPT !.newaddr = FALSE, !.rdtbl = e.tbl,
           !.addr = @ + (good + IF errs THEN 1 ELSE 0) * Step(code.inc)]
      /\ hist' = [hist EXCEPT !.served = @ \o words,
           !.failed = IF errs THEN @ \cup {"read"} ELSE @]
      /\ UNCHANGED mem
  BY <1>2 DEF words
<1> HIDE DEF e, errs
<1> DEFINE to == board.addr + (good + IF errs THEN 1 ELSE 0) * Step(code.inc)
<1>10. /\ to \in Int
       /\ ~errs => to = board.addr + n * Step(code.inc)
  <2>1. board.addr \in Int
    BY DEF BusType, BoardType
  <2>2. CASE code.inc
    BY <1>1, <1>3, <2>1, <2>2 DEF Step
  <2>3. CASE ~code.inc
    BY <1>1, <1>3, <2>1, <2>3 DEF Step
  <2> QED BY <2>2, <2>3
<1>11. board' = [board EXCEPT !.newaddr = FALSE, !.rdtbl = e.tbl, !.addr = to]
  BY <1>9
<1> HIDE DEF to
<1>12. errs \in BOOLEAN /\ IF errs THEN n < code.v ELSE n = code.v
  <2>2. CASE errs
    BY <1>1, <1>3, <1>4, <2>2
  <2>3. CASE ~errs
    <3>1. n = good /\ good = code.v
      BY <1>1, <1>3, <2>3
    <3> QED BY <1>0, <2>3, <3>1
  <2> QED BY <1>0, <2>2, <2>3
<1> DEFINE bit == IF errs THEN 1 ELSE 0
<1>13. bit \in {0, 1} /\ (bit = 1 <=> errs)
  OBVIOUS
<1> HIDE DEF bit
<1>14. Burst(code, n, words, e, bit)
  BY <1>5, <1>8, <1>9, <1>10, <1>11, <1>12, <1>13 DEF Burst, Answer, Lead
<1> QED BY <1>3, <1>13, <1>14

\* What the host makes of the answers to a burst.
LEMMA BurstReceived ==
    ASSUME BusType, NEW code \in ReadCode, NEW n \in Nat, NEW words, NEW e, NEW errs \in {0, 1},
           Burst(code, n, words, e, errs)
    PROVE  /\ Lead(e) \in Seq(CalmCode)
           /\ n > 0 => Lead(e) # <<>> /\ Data(Lead(e)[Len(Lead(e))])
           /\ \A x \in Taker :
                LET z == Received(x, Lead(e))
                IN  /\ z.n = x.n + n
                    /\ z.la = (IF board.newaddr THEN board.addr ELSE x.la) + n * Step(code.inc)
                    /\ x.tbl = Start => z.tbl = e.tbl /\ z.vals = x.vals \o words
<1> DEFINE c == [k |-> "addr", v |-> board.addr]
           a == NewAddress
           b == e.codes
           lead == a \o b
<1>0. board.addr \in Int
  BY DEF BusType, BoardType
<1>1. c \in CalmCode /\ c \in UpCode /\ c.k = "addr" /\ c.v = board.addr
  BY <1>0, CodeSets
<1>2. NewAddress \in Seq(CalmCode) /\ NewAddress \in Seq(UpCode)
      /\ NewAddress = IF board.newaddr THEN <<c>> ELSE <<>>
  <2>1. NewAddress = IF board.newaddr THEN <<c>> ELSE <<>>
    BY DEF NewAddress
  <2> HIDE DEF c
  <2> QED BY <1>1, <2>1
<1> HIDE DEF c
<1>3. e.codes \in Seq(CalmCode) /\ e.codes \in Seq(UpCode) /\ e.codes \in Seq(DataCode)
      /\ Len(e.codes) = n /\ Len(words) = n
  BY CodeSets, SeqMonotonic DEF Burst
<1> HIDE DEF a, b
<1>4. lead \in Seq(CalmCode) /\ lead \in Seq(UpCode)
  BY <1>2, <1>3, ConcatProperties DEF a, b
<1>5. ASSUME n > 0 PROVE lead # <<>> /\ Data(lead[Len(lead)])
  <2>0. a \in Seq(UpCode) /\ b \in Seq(UpCode) /\ Len(b) = n
    BY <1>2, <1>3 DEF a, b
  <2>1. /\ Len(lead) = Len(a) + n /\ Len(a) \in Nat
        /\ \A i \in 1 .. Len(a) + n : lead[i] = IF i <= Len(a) THEN a[i] ELSE b[i - Len(a)]
    BY <2>0, ConcatProperties, LenProperties
  <2>2. lead[Len(lead)] = b[n]
    <3> HIDE DEF lead
    <3>1. Len(lead) \in 1 .. Len(a) + n /\ ~(Len(lead) <= Len(a)) /\ Len(lead) - Len(a) = n
      BY <1>5, <2>1
    <3> QED BY <2>1, <3>1
  <2>3. b[n] \in DataCode
    BY <1>3, <1>5, ElementOfSeq DEF b
  <2>4. lead # <<>>
    <3> HIDE DEF lead
    <3> QED BY <1>5, <2>1, EmptySeq
  <2> QED BY <2>2, <2>3, <2>4 DEF DataCode, Data
<1>6. ASSUME NEW x \in Taker
      PROVE  LET z == Received(x, lead)
             IN  /\ z.n = x.n + n
                 /\ z.la = (IF board.newaddr THEN board.addr ELSE x.la) + n * Step(code.inc)
                 /\ x.tbl = Start => z.tbl = e.tbl /\ z.vals = x.vals \o words
  <2> DEFINE y == Received(x, NewAddress)
             z == Received(x, lead)
  <2>1. y \in Taker /\ z = Received(y, e.codes)
    BY <1>2, <1>3, ReceivedIs DEF a, b
  <2>2. y.n = x.n /\ y.tbl = x.tbl /\ y.vals = x.vals
        /\ y.la = IF board.newaddr THEN board.addr ELSE x.la
    <3>1. CASE board.newaddr
      <4>1. y = Takes(x, c)
        BY <1>1, <1>2, <3>1, ReceivedIs
      <4> HIDE DEF y
      <4> QED BY <1>1, <3>1, <4>1, TakesParts
    <3>2. CASE ~board.newaddr
      <4>1. y = x
        BY <1>2, <3>2, ReceivedIs
      <4> HIDE DEF y
      <4> QED BY <3>2, <4>1
    <3> QED BY <3>1, <3>2
  <2> HIDE DEF y
  <2>3. Read(y, Start, e, words, code.inc)
    BY <2>1 DEF Burst
  <2> QED BY <1>3, <2>1, <2>2, <2>3 DEF Read
<1> QED BY <1>4, <1>5, <1>6 DEF Lead, a, b

LEMMA BurstType ==
    ASSUME BusType, NEW code \in ReadCode, NEW n \in Nat, NEW words, NEW e, NEW errs \in {0, 1},
           Burst(code, n, words, e, errs), down # <<>>, down' = Tail(down), h' = h
    PROVE  /\ BusType'
           /\ board'.wrtbl = board.wrtbl /\ board'.rdtbl = e.tbl /\ board'.st = board.st
           /\ board'.newaddr = FALSE
           /\ errs # 1 => board'.addr = board.addr + n * Step(code.inc)
           /\ hist'.served = hist.served \o words /\ hist'.last = hist.last
           /\ hist'.stale = hist.stale /\ hist'.astray = hist.astray /\ hist'.asked = hist.asked
           /\ hist'.failed = IF errs = 1 THEN hist.failed \cup {"read"} ELSE hist.failed
<1>1. PICK to \in Int :
         /\ board' = [board EXCEPT !.newaddr = FALSE, !.rdtbl = e.tbl, !.addr = to]
         /\ errs # 1 => to = board.addr + n * Step(code.inc)
  BY DEF Burst
<1>2. e.tbl \in Seq(Val)
  BY DEF Burst
<1>3. /\ board' \in BoardType /\ board'.wrtbl = board.wrtbl /\ board'.rdtbl = e.tbl
      /\ board'.st = board.st /\ board'.newaddr = FALSE /\ board'.addr = to
  BY <1>1, <1>2 DEF BusType, BoardType
<1> DEFINE s == hist.served \o words
           f == IF errs = 1 THEN hist.failed \cup {"read"} ELSE hist.failed
<1>4. hist \in HistType /\ hist' = [hist EXCEPT !.served = s, !.failed = f]
  BY DEF Burst, BusType
<1>5. s \in Seq(Val) /\ f \in SUBSET Failures
  <2>1. words \in Seq(Val) /\ hist.served \in Seq(Val) /\ hist.failed \in SUBSET Failures
    BY <1>4 DEF Burst, HistType
  <2> QED BY <2>1, ConcatProperties DEF Failures
<1> HIDE DEF s, f
<1>6. /\ hist' \in HistType /\ hist'.served = s /\ hist'.last = hist.last /\ hist'.failed = f
      /\ hist'.stale = hist.stale /\ hist'.astray = hist.astray /\ hist'.asked = hist.asked
  BY <1>4, <1>5 DEF HistType
<1>7. up' \in Seq(UpCode)
  <2> DEFINE lead == Lead(e)
             last == IF errs = 1 THEN <<ErrCode>> ELSE <<>>
  <2>1. lead \in Seq(CalmCode)
    BY BurstReceived
  <2>2. lead \in Seq(UpCode)
    BY <2>1, CodeSets, SeqMonotonic
  <2>3. last \in Seq(UpCode)
    BY CodeSets
  <2>4. up' = up \o (lead \o last) /\ up \in Seq(UpCode)
    BY DEF Burst, BusType
  <2> HIDE DEF lead, last
  <2> QED BY <2>2, <2>3, <2>4, ConcatProperties
<1>8. Tail(down) \in Seq(DownCode)
  BY FirstCode
<1>9. BusType'
  BY <1>3, <1>6, <1>7, <1>8 DEF BusType, Burst
<1> QED BY <1>1, <1>3, <1>6, <1>9 DEF s, f

(* The board executes a read that is the first codeword on its way.        *)
ReadExecuted(n, words, e, errs) ==
  /\ down # <<>> /\ Head(down).k = "rd" /\ down' = Tail(down) /\ h' = h
  /\ Head(down) \in ReadCode /\ Burst(Head(down), n, words, e, errs)

\* What a read leaves.
ReadLeaves(n, words, e, errs) ==
  /\ BusType'
  /\ board'.wrtbl = board.wrtbl /\ board'.rdtbl = e.tbl /\ board'.st = board.st
  /\ board'.newaddr = FALSE
  /\ errs # 1 => board'.addr = board.addr + n * Step(Head(down).inc)
  /\ hist'.served = hist.served \o words /\ hist'.last = hist.last
  /\ hist'.stale = hist.stale /\ hist'.astray = hist.astray /\ hist'.asked = hist.asked
  /\ hist'.failed = IF errs = 1 THEN hist.failed \cup {"read"} ELSE hist.failed

LEMMA ReadType ==
    ASSUME BusType, NEW n \in Nat, NEW words, NEW e, NEW errs \in {0, 1},
           ReadExecuted(n, words, e, errs)
    PROVE  ReadLeaves(n, words, e, errs)
<1> DEFINE code == Head(down)
<1>1. /\ down # <<>> /\ down' = Tail(down) /\ code \in ReadCode /\ h' = h
      /\ Burst(code, n, words, e, errs)
  BY DEF ReadExecuted
<1> HIDE DEF code
<1>2. /\ BusType'
      /\ board'.wrtbl = board.wrtbl /\ board'.rdtbl = e.tbl /\ board'.st = board.st
      /\ board'.newaddr = FALSE
      /\ errs # 1 => board'.addr = board.addr + n * Step(code.inc)
      /\ hist'.served = hist.served \o words /\ hist'.last = hist.last
      /\ hist'.stale = hist.stale /\ hist'.astray = hist.astray /\ hist'.asked = hist.asked
      /\ hist'.failed = IF errs = 1 THEN hist.failed \cup {"read"} ELSE hist.failed
  BY <1>1, BurstType
<1> QED BY <1>2 DEF ReadLeaves, code

LEMMA ReadDue ==
    ASSUME BusType, NEW n \in Nat, NEW words, NEW e, NEW errs \in {0, 1},
           ReadExecuted(n, words, e, errs), Due
    PROVE  Due'
<1> SUFFICES ASSUME h.pc = "read", h.n < h.cmdrd
             PROVE  \/ \E i \in 1 .. Len(down') : down'[i].k = "rd" /\ down'[i].v >= h.cmdrd - h.n
                    \/ \E i \in 1 .. Len(up') : up'[i].k \in {"err", "reset"}
                    \/ Received(HostNow', up').n >= h.cmdrd
  BY DEF Due, ReadExecuted
<1> DEFINE code == Head(down)
           lead == Lead(e)
           last == IF errs = 1 THEN <<ErrCode>> ELSE <<>>
<1>1. /\ up' = up \o (lead \o last) /\ code \in ReadCode /\ Burst(code, n, words, e, errs)
      /\ down # <<>> /\ down' = Tail(down) /\ h' = h
  BY DEF ReadExecuted, Burst
<1>2. /\ up \in Seq(UpCode) /\ lead \in Seq(UpCode) /\ last \in Seq(UpCode)
      /\ \A x \in Taker : Received(x, lead).n = x.n + n
  <2>1. lead \in Seq(CalmCode) /\ \A x \in Taker : Received(x, lead).n = x.n + n
    BY <1>1, BurstReceived
  <2>2. last \in Seq(UpCode)
    BY CodeSets
  <2> HIDE DEF lead, last
  <2> QED BY <2>1, <2>2, CodeSets, SeqMonotonic DEF BusType
<1>3. HostNow' = HostNow /\ HostNow \in Taker /\ HostNow.n = h.n
  BY <1>1, HostNowType DEF HostNow
<1>a. h.n \in Nat /\ h.cmdrd \in Nat
  BY DEF BusType, HostType
<1>4. CASE errs = 1
  <2> DEFINE c == ErrCode
  <2>1. last = <<c>> /\ c.k = "err" /\ c \in UpCode
    BY <1>4, CodeSets DEF ErrCode
  <2> HIDE DEF last, lead, c
  <2>2. lead \o last \in Seq(UpCode) /\ Len(lead \o last) = Len(lead) + 1
        /\ (lead \o last)[Len(lead) + 1] = c /\ Len(lead) \in Nat
    BY <1>2, <2>1
  <2> DEFINE b == lead \o last
  <2>3. up' = up \o b /\ b \in Seq(UpCode) /\ b[Len(b)] = c /\ Len(b) \in Nat \ {0}
    BY <1>1, <2>2
  <2> HIDE DEF b
  <2>4. /\ Len(up') = Len(up) + Len(b) /\ Len(up) \in Nat
        /\ \A i \in 1 .. Len(up) + Len(b) : up'[i] = IF i <= Len(up) THEN up[i] ELSE b[i - Len(up)]
    BY <1>2, <2>3, ConcatProperties, LenProperties
  <2>5. /\ Len(up') \in 1 .. Len(up') /\ ~(Len(up') <= Len(up)) /\ Len(up') - Len(up) = Len(b)
        /\ Len(up') \in 1 .. Len(up) + Len(b)
    BY <2>3, <2>4
  <2>6. up'[Len(up')] = c
    BY <2>3, <2>4, <2>5
  <2> QED BY <2>1, <2>5, <2>6
<1>5. CASE errs # 1
  <2>1. last = <<>> /\ n = code.v
    BY <1>1, <1>5 DEF Burst
  <2> HIDE DEF last, lead, code
  <2>2. up' = up \o lead
    BY <1>1, <1>2, <2>1, ConcatEmptySeq
  <2>3. /\ Received(HostNow', up') = Received(Received(HostNow, up), lead)
        /\ Received(HostNow, up) \in Taker
    BY <1>2, <1>3, <2>2, ReceivedIs
  <2>4. Received(HostNow', up').n = Received(HostNow, up).n + n
    BY <1>2, <2>3
  <2>5. Received(HostNow, up).n \in Nat /\ Received(HostNow, up).n >= h.n
    BY <1>2, <1>3, ReceivedMore
  <2>6. CASE \E i \in 1 .. Len(down) : down[i].k = "rd" /\ down[i].v >= h.cmdrd - h.n
    <3>1. PICK i \in 1 .. Len(down) : down[i].k = "rd" /\ down[i].v >= h.cmdrd - h.n
      BY <2>6
    <3>2. CASE i = 1
      <4>1. n >= h.cmdrd - h.n
        BY <2>1, <3>1, <3>2 DEF code
      <4> QED BY <1>a, <2>4, <2>5, <4>1
    <3>3. CASE i # 1
      <4>1. /\ Len(down) \in Nat /\ Len(Tail(down)) = Len(down) - 1
            /\ \A j \in 1 .. Len(Tail(down)) : Tail(down)[j] = down[j + 1]
        BY <1>1, HeadTailProperties, LenProperties DEF BusType
      <4>2. i - 1 \in 1 .. Len(Tail(down)) /\ (i - 1) + 1 = i
        BY <3>1, <3>3, <4>1
      <4> QED BY <1>1, <3>1, <4>1, <4>2
    <3> QED BY <3>2, <3>3
  <2>7. CASE \E i \in 1 .. Len(up) : up[i].k \in {"err", "reset"}
    <3>1. PICK i \in 1 .. Len(up) : up[i].k \in {"err", "reset"}
      BY <2>7
    <3>2. /\ Len(up') = Len(up) + Len(lead) /\ Len(up) \in Nat /\ Len(lead) \in Nat
          /\ \A j \in 1 .. Len(up) + Len(lead) :
               up'[j] = IF j <= Len(up) THEN up[j] ELSE lead[j - Len(up)]
      BY <1>2, <2>2, ConcatProperties, LenProperties
    <3>3. i \in 1 .. Len(up') /\ up'[i] = up[i]
      BY <3>1, <3>2
    <3> QED BY <3>1, <3>3
  <2>8. CASE Received(HostNow, up).n >= h.cmdrd
    BY <1>a, <2>4, <2>5, <2>8
  <2> QED BY <2>6, <2>7, <2>8 DEF Due
<1> QED BY <1>4, <1>5

\* In turn, the host waits for exactly this read, and nothing but quiet codes are on their way up.
LEMMA ReadWanted ==
    ASSUME BusType, InCall, InTurn, hist.failed \subseteq {"read"}, down # <<>>,
           Head(down).k = "rd"
    PROVE  /\ h.pc = "read" /\ h.n < h.cmdrd /\ up \in Seq(QuietCode)
           /\ Head(down).v = h.cmdrd - h.n /\ Head(down).inc = h.call[1].inc
           /\ Tail(down) = <<[k |-> "nl"]>>
           /\ hist.failed = {} => PendingGood(<<>>)
<1>1. down \notin Seq(StillCode)
  <2>1. ASSUME down \in Seq(StillCode) PROVE FALSE
    <3>1. Head(down) \in StillCode
      BY <2>1, HeadTailProperties
    <3> QED BY <3>1, CodeSets
  <2> QED BY <2>1
<1>2. h.pc = "read" /\ Reading
  BY <1>1 DEF InTurn
<1>3. PICK pre \in Seq(StillCode) : Pending(pre)
  BY <1>1, <1>2 DEF Reading, Failing, Coming
<1> DEFINE v == h.cmdrd - h.n
           inc == h.call[1].inc
<1>4. v \in Nat \ {0} /\ inc \in BOOLEAN
  <2>1. PICK call \in Calls : h.call = <<call>>
    BY <1>2 DEF InCall
  <2>2. inc \in BOOLEAN
    BY <2>1, CallIs
  <2>3. h.n \in Nat /\ h.cmdrd \in Nat /\ h.n < h.cmdrd
    BY <1>3 DEF BusType, HostType, Pending
  <2> QED BY <2>2, <2>3
<1>5. Commanded(down, pre, v, inc)
  BY <1>3 DEF Pending
<1> HIDE DEF v, inc
<1>6. pre = <<>>
  <2>1. Head(down) \notin StillCode
    BY CodeSets
  <2> QED BY <1>4, <1>5, <2>1, BeforeCommand
<1>7. Head(down) = [k |-> "rd", v |-> v, inc |-> inc] /\ Tail(down) = <<[k |-> "nl"]>>
  BY <1>4, <1>5, <1>6, BeforeCommand
<1>8. hist.failed = {} => PendingGood(<<>>)
  BY <1>3, <1>6 DEF Pending
<1> QED BY <1>2, <1>3, <1>7, <1>8 DEF Pending, v, inc

\* What a read is to the board.
LEMMA ReadEnd ==
    ASSUME BusType, NEW n \in Nat, NEW words, NEW e, NEW errs \in {0, 1}, errs # 1,
           ReadExecuted(n, words, e, errs)
    PROVE  End' = End /\ Now'.addr = board.addr + n * Step(Head(down).inc) /\ Now' \in Walker
<1> DEFINE code == Head(down)
<1>1. /\ down # <<>> /\ down' = Tail(down) /\ code \in ReadCode /\ h' = h
      /\ Burst(code, n, words, e, errs) /\ code.k = "rd" /\ code \in DownCode
  BY CodeSets DEF ReadExecuted
<1>2. /\ BusType' /\ board'.wrtbl = board.wrtbl /\ board'.newaddr = FALSE
      /\ board'.addr = board.addr + n * Step(code.inc) /\ hist'.asked = hist.asked
  BY ReadType DEF ReadLeaves
<1>3. n = code.v
  BY <1>1 DEF Burst
<1> HIDE DEF code
<1>4. Executes(Now, code) = [Now EXCEPT !.addr = @ + code.v * Step(code.inc), !.newaddr = FALSE]
  BY <1>1 DEF Executes, IsWrite
<1>5. Now' = Executes(Now, code)
  BY <1>2, <1>3, <1>4 DEF Now
<1>6. End = Executed(Executes(Now, code), Tail(down))
  BY <1>1, NowType, ExecutedIs DEF End, BusType, code
<1>7. Now' \in Walker
  BY <1>1, <1>5, NowType, ExecutesType
<1> QED BY <1>1, <1>2, <1>5, <1>6, <1>7 DEF End, Now, code

LEMMA NlStill == <<[k |-> "nl"]>> \in Seq(StillCode)
<1> DEFINE c == [k |-> "nl"]
<1>1. c \in StillCode
  BY CodeSets
<1> HIDE DEF c
<1>2. <<c>> \in Seq(StillCode)
  BY <1>1
<1> QED BY <1>2 DEF c

\* The read has failed: its error is on its way up.
LEMMA ReadFails ==
    ASSUME BusType, InCall, InTurn, hist.failed \subseteq {"read"},
           NEW n \in Nat, NEW words, NEW e, NEW errs \in {0, 1}, errs = 1, ReadExecuted(n, words, e, errs)
    PROVE  \E lead \in Seq(CalmCode), rest \in Seq(QuietCode) : Failing(lead, rest)'
<1> DEFINE a == Lead(e)
           c == <<ErrCode>>
           lead == up \o a
           rest == <<>>
<1>1. /\ down # <<>> /\ Head(down).k = "rd" /\ down' = Tail(down) /\ h' = h
      /\ Head(down) \in ReadCode /\ Burst(Head(down), n, words, e, errs)
  BY DEF ReadExecuted
<1>2. /\ h.n < h.cmdrd /\ up \in Seq(QuietCode) /\ Head(down).v = h.cmdrd - h.n
      /\ down' = <<[k |-> "nl"]>>
  BY <1>1, ReadWanted
<1>3. up' = up \o (a \o c) /\ n < Head(down).v
  BY <1>1 DEF Burst
<1>4. /\ a \in Seq(CalmCode) /\ \A x \in Taker : Received(x, a).n = x.n + n
  BY <1>1, BurstReceived
<1>5. hist'.failed # {}
  <2>1. hist'.failed = IF errs = 1 THEN hist.failed \cup {"read"} ELSE hist.failed
    BY ReadType DEF ReadLeaves
  <2> QED BY <2>1
<1>6. c \in Seq(UpCode) /\ c \o rest = c /\ rest \in Seq(QuietCode)
  <2>1. c \in Seq(UpCode)
    BY CodeSets
  <2> HIDE DEF c
  <2> QED BY <2>1, ConcatEmptySeq
<1> HIDE DEF a, c
<1>7. up \in Seq(CalmCode) /\ up \in Seq(UpCode) /\ a \in Seq(UpCode)
  BY <1>2, <1>4, CodeSets, SeqMonotonic
<1>8. lead \in Seq(CalmCode) /\ up' = lead \o (c \o rest)
  <2>1. Joined(up, Joined(a, c)) = Joined(Joined(up, a), c)
    BY <1>6, <1>7, JoinedGroups
  <2> QED BY <1>3, <1>4, <1>6, <1>7, <2>1, ConcatProperties DEF Joined
<1>9. HostNow' = HostNow /\ HostNow \in Taker /\ HostNow.n = h.n
  BY <1>1, HostNowType DEF HostNow
<1>10. Received(HostNow', lead).n < h'.cmdrd
  <2>1. Received(HostNow, lead) = Received(Received(HostNow, up), a)
    BY <1>7, <1>9, ReceivedIs
  <2>2. Received(HostNow, up) = HostNow
    BY <1>2, <1>9, QuietReceived
  <2>3. Received(HostNow, lead).n = h.n + n
    BY <1>4, <1>9, <2>1, <2>2
  <2>4. h.n \in Nat /\ h.cmdrd \in Nat
    BY DEF BusType, HostType
  <2> HIDE DEF lead
  <2> QED BY <1>1, <1>2, <1>3, <1>9, <2>3, <2>4
<1> HIDE DEF lead, rest
<1>11. PICK l \in Seq(CalmCode), r \in Seq(QuietCode) : l = lead /\ r = rest
  BY <1>6, <1>8
<1>12. up' = l \o (<<ErrCode>> \o r) /\ Received(HostNow', l).n < h'.cmdrd
  BY <1>8, <1>10, <1>11 DEF c
<1>13. down' \in Seq(StillCode)
  BY <1>2, NlStill
<1>14. Failing(l, r)'
  BY <1>5, <1>12, <1>13 DEF Failing
<1> QED BY <1>14

\* It has not: its words are.
LEMMA ReadSucceeds ==
    ASSUME BusType, InCall, InTurn, InStep, hist.failed \subseteq {"read"},
           NEW n \in Nat, NEW words, NEW e, NEW errs \in {0, 1}, errs # 1, ReadExecuted(n, words, e, errs)
    PROVE  \E lead \in Seq(CalmCode), rest \in Seq(QuietCode) : Coming(lead, rest)'
<1> DEFINE a == Lead(e)
           lead == up \o a
           rest == <<>>
           code == Head(down)
<1>1. /\ down # <<>> /\ code.k = "rd" /\ down' = Tail(down) /\ h' = h
      /\ code \in ReadCode /\ Burst(code, n, words, e, errs)
  BY DEF ReadExecuted
<1>2. /\ h.n < h.cmdrd /\ up \in Seq(QuietCode) /\ code.v = h.cmdrd - h.n
      /\ down' = <<[k |-> "nl"]>> /\ (hist.failed = {} => PendingGood(<<>>))
  BY <1>1, ReadWanted
<1>3. up' = up \o (a \o <<>>) /\ n = code.v /\ n > 0
  BY <1>1 DEF Burst, ReadCode
<1>4. /\ a \in Seq(CalmCode) /\ a # <<>> /\ Data(a[Len(a)])
      /\ \A x \in Taker :
           LET z == Received(x, a)
           IN  /\ z.n = x.n + n
               /\ z.la = (IF board.newaddr THEN board.addr ELSE x.la) + n * Step(code.inc)
               /\ x.tbl = Start => z.tbl = e.tbl /\ z.vals = x.vals \o words
  BY <1>1, <1>3, BurstReceived
<1>5. /\ BusType' /\ board'.rdtbl = e.tbl /\ hist'.stale = hist.stale
      /\ hist'.served = hist.served \o words /\ hist'.failed = hist.failed
  <2>1. hist'.failed = IF errs = 1 THEN hist.failed \cup {"read"} ELSE hist.failed
    BY ReadType DEF ReadLeaves
  <2>2. /\ BusType' /\ board'.rdtbl = e.tbl /\ hist'.stale = hist.stale
        /\ hist'.served = hist.served \o words
    BY ReadType DEF ReadLeaves
  <2> QED BY <2>1, <2>2
<1> HIDE DEF a, code
<1>7. up \in Seq(CalmCode) /\ up \in Seq(UpCode) /\ a \in Seq(UpCode) /\ a \o <<>> = a
  BY <1>2, <1>4, CodeSets, SeqMonotonic, ConcatEmptySeq
<1>8. lead \in Seq(CalmCode) /\ up' = lead /\ lead \o rest = lead /\ rest \in Seq(QuietCode)
  <2>1. up' = lead /\ lead \in Seq(CalmCode)
    BY <1>3, <1>4, <1>7, ConcatProperties
  <2> HIDE DEF lead
  <2> QED BY <2>1, ConcatEmptySeq
<1>9. HostNow' = HostNow /\ HostNow \in Taker /\ HostNow.n = h.n /\ HostNow.la = h.lastaddr
      /\ HostNow.tbl = h.rdtbl /\ HostNow.vals = h.vals
  BY <1>1, HostNowType DEF HostNow
<1>10. Received(HostNow', up') = Received(HostNow, a)
  <2>1. Received(HostNow, lead) = Received(Received(HostNow, up), a)
    BY <1>7, <1>9, ReceivedIs
  <2>2. Received(HostNow, up) = HostNow
    BY <1>2, <1>9, QuietReceived
  <2> QED BY <1>8, <1>9, <2>1, <2>2
<1> DEFINE z == Received(HostNow, a)
<1>11. /\ z.n = h.n + n
       /\ z.la = (IF board.newaddr THEN board.addr ELSE h.lastaddr) + n * Step(code.inc)
       /\ h.rdtbl = Start => z.tbl = e.tbl /\ z.vals = h.vals \o words
  BY <1>4, <1>9
<1> HIDE DEF z
<1>12. z.n = h'.cmdrd
  <2>1. h.n \in Nat /\ h.cmdrd \in Nat
    BY DEF BusType, HostType
  <2> QED BY <1>1, <1>2, <1>3, <1>11, <2>1
<1>13. ASSUME hist.failed = {} PROVE ComingGood'
  <2>1. Executed(Now, <<>>) = Now
    BY NowType, ExecutedIs
  <2>2. /\ ~board.newaddr => h.lastaddr = board.addr
        /\ ~hist.stale => h.vals = hist.served /\ h.rdtbl = Start
    BY <1>2, <1>13, <2>1 DEF PendingGood, Now, Start
  <2>3. z.la = End'.addr
    <3>1. End' = Executed(Now', <<[k |-> "nl"]>>)
      BY <1>2 DEF End
    <3>2. Now'.addr = board.addr + n * Step(code.inc) /\ Now' \in Walker
      BY ReadEnd DEF code
    <3>3. End'.addr = Now'.addr
      <4> DEFINE c == [k |-> "nl"]
      <4>1. c \in DownCode /\ c.k = "nl"
        BY CodeSets
      <4>2. End' = Executed(Now', <<c>>)
        BY <3>1
      <4> HIDE DEF c
      <4>3. End' = Executes(Now', c)
        BY <3>2, <4>1, <4>2, ExecutedIs
      <4> QED BY <3>2, <4>1, <4>3, ExecutesParts
    <3> QED BY <1>11, <2>2, <3>2, <3>3
  <2>4. ~hist.stale => z.vals = hist'.served /\ z.tbl = board'.rdtbl
    BY <1>5, <1>11, <2>2
  <2> QED BY <1>5, <1>10, <2>3, <2>4 DEF ComingGood, z
<1>14. lead # <<>> /\ Data(lead[Len(lead)])
  <2>1. /\ Len(lead) = Len(up) + Len(a) /\ Len(up) \in Nat /\ Len(a) \in Nat \ {0}
        /\ \A i \in 1 .. Len(up) + Len(a) : lead[i] = IF i <= Len(up) THEN up[i] ELSE a[i - Len(up)]
    BY <1>4, <1>7, ConcatProperties, LenProperties, EmptySeq
  <2>2. lead # <<>>
    <3> HIDE DEF lead
    <3> QED BY <2>1, EmptySeq
  <2>3. lead[Len(lead)] = a[Len(a)]
    <3> HIDE DEF lead
    <3>1. Len(lead) \in 1 .. Len(up) + Len(a) /\ ~(Len(lead) <= Len(up))
          /\ Len(lead) - Len(up) = Len(a)
      BY <2>1
    <3> QED BY <2>1, <3>1
  <2> QED BY <1>4, <2>2, <2>3
<1> HIDE DEF lead, rest
<1>15. PICK l \in Seq(CalmCode), r \in Seq(QuietCode) : l = lead /\ r = rest
  BY <1>8
<1>16. up' = l \o r /\ l # <<>> /\ Data(l[Len(l)])
  BY <1>8, <1>14, <1>15
<1>17. down' \in Seq(StillCode)
  BY <1>2, NlStill
<1>18. Received(HostNow', up').n = h'.cmdrd
  BY <1>10, <1>12 DEF z
<1>19. Coming(l, r)'
  BY <1>5, <1>13, <1>16, <1>17, <1>18 DEF Coming
<1> QED BY <1>19

LEMMA ExecRead ==
    ASSUME BusInv, NEW n \in Nat, NEW words, NEW e, NEW errs \in {0, 1},
           ReadExecuted(n, words, e, errs)
    PROVE  BusInv'
<1> DEFINE code == Head(down)
<1>1. BusType /\ Tables /\ InCall /\ InTurn /\ InStep /\ Due /\ LastTrue
  BY DEF BusInv
<1>2. /\ down # <<>> /\ code.k = "rd" /\ down' = Tail(down) /\ h' = h
      /\ code \in ReadCode /\ Burst(code, n, words, e, errs)
  BY DEF ReadExecuted
<1>3. /\ BusType' /\ board'.wrtbl = board.wrtbl /\ board'.rdtbl = e.tbl /\ board'.st = board.st
      /\ hist'.last = hist.last /\ hist'.stale = hist.stale /\ hist'.astray = hist.astray
      /\ hist'.failed = IF errs = 1 THEN hist.failed \cup {"read"} ELSE hist.failed
  BY <1>1, ReadType DEF ReadLeaves
<1>4. hist.failed \subseteq hist'.failed /\ (hist'.failed \subseteq {"read"} => hist.failed \subseteq {"read"})
      /\ (hist'.failed = {} => hist.failed = {} /\ errs # 1)
  BY <1>3
<1>5. InCall'
  BY <1>1, <1>2, <1>3, <1>4 DEF InCall
<1>6. Tables'
  <2>1. Executes(Now, code).tbl = board.wrtbl
    <3>1. Now.tbl = board.wrtbl /\ code \in DownCode
      BY <1>2, CodeSets DEF Now
    <3> HIDE DEF code
    <3> QED BY <1>1, <1>2, <3>1, NowType, ExecutesParts
  <2> QED BY <1>1, <1>2, <1>3, <2>1, TablesHead
<1>7. Due'
  BY <1>1, ReadDue
<1>8. ASSUME hist'.failed \subseteq {"read"}
      PROVE  h.pc = "read" /\ Reading'
  <2>1. h.pc = "read"
    BY <1>1, <1>2, <1>4, <1>8, ReadWanted
  <2>2. CASE errs = 1
    BY <1>1, <1>4, <1>8, <2>1, <2>2, ReadFails DEF Reading
  <2>3. CASE errs # 1
    BY <1>1, <1>4, <1>8, <2>1, <2>3, ReadSucceeds DEF Reading
  <2> QED BY <2>2, <2>3
<1>9. InTurn'
  BY <1>2, <1>8 DEF InTurn
<1>10. InStep'
  <2> SUFFICES ASSUME hist'.failed = {}
               PROVE  InStep'
    BY DEF InStep
  <2>1. h.pc = "read" /\ errs # 1 /\ hist.failed = {}
    BY <1>4, <1>8
  <2>2. End' = End
    BY <1>1, <2>1, ReadEnd
  <2>3. Unsent' = Unsent
    BY <1>2 DEF Unsent, Asked
  <2> QED BY <1>1, <1>2, <1>3, <2>1, <2>2, <2>3 DEF InStep
<1>11. LastTrue'
  BY <1>1, <1>3, <1>4 DEF LastTrue, ReadsTrueInStep, Returned
<1> QED BY <1>3, <1>5, <1>6, <1>7, <1>9, <1>10, <1>11 DEF BusInv

-----------------------------------------------------------------------------
(***************************************************************************)
(* The executor, and the initial state.                                    *)
(***************************************************************************)
LEMMA ExecKeeps ==
    ASSUME BusInv, Exec
    PROVE  BusInv'
<1> DEFINE code == Head(down)
           write == IsWrite(code)
           stop == ~write /\ code.k # "nl" /\ board.st # "idle"
           hang == IF write THEN board.st # "err" /\ board.addr \in Hanging
                   ELSE code.k = "rd" /\ ~stop /\ Hangs(code)
<1>1. down # <<>> /\ h' = h
  BY DEF Exec
<1>2. \/ hang /\ WatchdogReset
      \/ /\ ~hang /\ down' = Tail(down)
         /\ \/ /\ code.k = "nl" /\ board' = [board EXCEPT !.st = "idle"]
               /\ UNCHANGED <<up, eol, mem, hist>>
            \/ /\ stop /\ board' = [board EXCEPT !.st = "idle"]
               /\ Answer(<<[k |-> "err"]>>) /\ Failed("order") /\ UNCHANGED mem
            \/ /\ ~stop /\ code.k \in {"abs", "rel"}
               /\ board' = [board EXCEPT !.newaddr = TRUE, !.addr = DecodeAddress(@, code)]
               /\ UNCHANGED <<up, eol, mem, hist>>
            \/ write /\ BoardWrite(code)
            \/ ~stop /\ code.k = "rd" /\ BoardRead(code)
  BY DEF Exec, IsWrite
<1>3. BusType
  BY DEF BusInv
<1>4. CASE hang /\ WatchdogReset
  BY <1>1, <1>4, ExecWatchdog
<1>5. CASE /\ down' = Tail(down) /\ code.k = "nl" /\ board' = [board EXCEPT !.st = "idle"]
           /\ UNCHANGED <<up, eol, mem, hist>>
  BY <1>1, <1>5, ExecNl
<1>6. CASE /\ down' = Tail(down) /\ stop /\ board' = [board EXCEPT !.st = "idle"]
           /\ Answer(<<[k |-> "err"]>>) /\ Failed("order") /\ UNCHANGED mem
  BY <1>1, <1>6, ExecStop DEF ErrCode
<1>7. CASE /\ down' = Tail(down) /\ code.k \in {"abs", "rel"}
           /\ board' = [board EXCEPT !.newaddr = TRUE, !.addr = DecodeAddress(@, code)]
           /\ UNCHANGED <<up, eol, mem, hist>>
  BY <1>1, <1>7, ExecAddress
<1>8. CASE down' = Tail(down) /\ write /\ BoardWrite(code)
  <2> DEFINE then(st) == board' = [board EXCEPT !.st = st, !.newaddr = FALSE,
                           !.wrtbl = Enter(@, code),
                           !.addr = IF board.st = "err" THEN @ ELSE @ + Step(code.inc)]
  <2>1. \/ board.st = "err" /\ then("err") /\ UNCHANGED <<up, eol, mem, hist>>
        \/ /\ board.st # "err" /\ then("err")
           /\ Answer(<<[k |-> "err"]>>) /\ Failed("write") /\ UNCHANGED mem
        \/ /\ board.st # "err" /\ then("more")
           /\ Answer(<<[k |-> "ack"]>>)
           /\ mem' = [a \in Addr |-> IF a = board.addr THEN WrittenWord(code) ELSE mem[a]]
           /\ hist' = [hist EXCEPT !.asked = IF @ = <<>> THEN @ ELSE Tail(@),
                !.astray = @ \/ hist.asked = <<>>
                             \/ Head(hist.asked) # <<board.addr, WrittenWord(code)>>]
    BY <1>8 DEF BoardWrite
  <2>2. CASE board.st = "err" /\ then("err") /\ UNCHANGED <<up, eol, mem, hist>>
    <3>1. board' = [board EXCEPT !.st = "err", !.newaddr = FALSE, !.wrtbl = Enter(@, code)]
      <4> DEFINE t == Enter(board.wrtbl, code)
      <4> HIDE DEF t
      <4>1. board' = [board EXCEPT !.st = "err", !.newaddr = FALSE, !.wrtbl = t,
                        !.addr = board.addr]
        BY <2>2 DEF t
      <4>2. board' = [board EXCEPT !.st = "err", !.newaddr = FALSE, !.wrtbl = t]
        BY <1>3, <4>1 DEF BusType, BoardType
      <4> QED BY <4>2 DEF t
    <3> QED BY <1>1, <1>8, <2>2, <3>1, ExecWriteDropped
  <2>3. CASE /\ board.st # "err" /\ then("err")
             /\ Answer(<<[k |-> "err"]>>) /\ Failed("write") /\ UNCHANGED mem
    BY <1>1, <1>8, <2>3, ExecWriteFailed DEF ErrCode
  <2>4. CASE /\ board.st # "err" /\ then("more")
             /\ Answer(<<[k |-> "ack"]>>)
             /\ mem' = [a \in Addr |-> IF a = board.addr THEN WrittenWord(code) ELSE mem[a]]
             /\ hist' = [hist EXCEPT !.asked = IF @ = <<>> THEN @ ELSE Tail(@),
                  !.astray = @ \/ hist.asked = <<>>
                               \/ Head(hist.asked) # <<board.addr, WrittenWord(code)>>]
    BY <1>1, <1>8, <2>4, ExecWriteTaken
  <2> QED BY <2>1, <2>2, <2>3, <2>4
<1>9. CASE down' = Tail(down) /\ code.k = "rd" /\ BoardRead(code)
  <2>1. code \in ReadCode
    <3>1. code \in DownCode
      BY <1>1, <1>3, FirstCode
    <3> HIDE DEF code
    <3> QED BY <1>9, <3>1, CodeKinds
  <2>2. PICK n \in Nat, errs \in {0, 1} : \E words, e : Burst(code, n, words, e, errs)
    <3> HIDE DEF code
    <3> QED BY <1>3, <1>9, <2>1, BurstIs
  <2>3. PICK words, e : Burst(code, n, words, e, errs)
    BY <2>2
  <2>4. ReadExecuted(n, words, e, errs)
    BY <1>1, <1>9, <2>1, <2>3 DEF ReadExecuted
  <2> QED BY <2>4, ExecRead
<1> HIDE DEF code, write, stop, hang
<1> QED BY <1>2, <1>4, <1>5, <1>6, <1>7, <1>8, <1>9

LEMMA BusInit ==
    ASSUME Init
    PROVE  BusInv
<1> USE DEF Init
<1>1. h = Fresh /\ down = <<>> /\ up = <<>> /\ eol = TRUE
  OBVIOUS
<1>2. BusType
  <2>1. h \in HostType
    <3>1. <<>> \in Seq(AnyWord) /\ <<>> \in Seq(Val) /\ <<>> \in Table
      BY ReachType, EmptySeq DEF Table
    <3> QED BY <1>1, <3>1 DEF HostType, Fresh
  <2>2. board \in BoardType
    <3>1. <<>> \in Seq(Val) /\ <<>> \in Table /\ MaxInt \in Nat
      BY ReachType, EmptySeq, HostAssumption DEF Table
    <3> QED BY <3>1 DEF BoardType
  <2>3. mem \in [Addr -> Val]
    BY HostAssumption
  <2>4. hist \in HistType
    BY EmptySeq DEF HistType, LastType
  <2>5. down \in Seq(DownCode) /\ up \in Seq(UpCode) /\ eol \in BOOLEAN
    BY EmptySeq
  <2> QED BY <2>1, <2>2, <2>3, <2>4, <2>5 DEF BusType
<1>3. InCall
  BY EmptySeq DEF InCall, Fresh
<1>4. End = Now
  BY <1>1, <1>2, NowType, ExecutedIs DEF End
<1>5. Tables
  <2>1. Len(h.wrtbl) = 0 /\ Len(board.wrtbl) = 0
    BY EmptySeq DEF Fresh
  <2> QED BY <1>4, <2>1 DEF Tables, AsFarBack, Now
<1>6. Due
  BY DEF Due, Fresh
<1>7. InTurn
  BY EmptySeq DEF InTurn, Fresh
<1>8. InStep
  <2>1. End.fits = TRUE /\ End.left = <<>>
    BY <1>4 DEF Now
  <2> QED BY <2>1 DEF InStep, Unsent, Fresh
<1>9. LastTrue
  BY DEF LastTrue, ReadsTrueInStep, Returned
<1> QED BY <1>2, <1>3, <1>5, <1>6, <1>7, <1>8, <1>9 DEF BusInv

-----------------------------------------------------------------------------
(***************************************************************************)
(* The host: the end of a call.                                            *)
(***************************************************************************)
(* What the host does, while the board stands still.                       *)
LEMMA BoardStands ==
    ASSUME board' = board, down' = down, hist'.asked = hist.asked
    PROVE  Now' = Now /\ End' = End
<1>1. Now' = Now
  BY DEF Now
<1> QED BY <1>1 DEF End

\* Every word of the block has come: nothing is on its way but quiet codes.
LEMMA AllHere ==
    ASSUME BusType, InCall, InTurn, h.pc = "read", h.n = h.cmdrd, hist.failed \subseteq {"read"}
    PROVE  /\ down \in Seq(StillCode) /\ up \in Seq(QuietCode)
           /\ hist.failed = {} =>
                /\ h.lastaddr = End.addr
                /\ ~hist.stale => h.vals = hist.served /\ h.rdtbl = board.rdtbl
<1>1. HostNow \in Taker /\ HostNow.n = h.n /\ up \in Seq(UpCode)
  BY HostNowType DEF HostNow, BusType
<1>2. Reading
  BY DEF InTurn
<1>3. ASSUME NEW pre \in Seq(StillCode), Pending(pre) PROVE FALSE
  BY <1>3 DEF Pending, BusType, HostType
<1>4. ASSUME NEW lead \in Seq(CalmCode), NEW rest \in Seq(QuietCode), Failing(lead, rest)
      PROVE  FALSE
  <2>1. lead \in Seq(UpCode)
    BY CodeSets, SeqMonotonic
  <2>2. Received(HostNow, lead).n >= HostNow.n
    BY <1>1, <2>1, ReceivedCounts
  <2>3. h.n \in Nat /\ h.cmdrd \in Nat /\ Received(HostNow, lead).n \in Nat
    BY <1>1, <2>1, ReceivedIs DEF BusType, HostType, Taker
  <2> QED BY <1>1, <1>4, <2>2, <2>3 DEF Failing
<1>5. ASSUME NEW lead \in Seq(CalmCode), NEW rest \in Seq(QuietCode), Coming(lead, rest)
      PROVE  /\ down \in Seq(StillCode) /\ up \in Seq(QuietCode)
             /\ hist.failed = {} =>
                  /\ h.lastaddr = End.addr
                  /\ ~hist.stale => h.vals = hist.served /\ h.rdtbl = board.rdtbl
  <2>1. Received(HostNow, up).n = HostNow.n
    BY <1>1, <1>5 DEF Coming
  <2>2. \A i \in 1 .. Len(up) : ~Data(up[i])
    BY <1>1, <2>1, ReceivedCounts
  <2>3. lead = <<>>
    <3>1. CASE lead # <<>>
      <4>1. Len(lead) \in 1 .. Len(up) /\ up[Len(lead)] = lead[Len(lead)]
        BY <1>5, <3>1 DEF Coming
      <4> QED BY <1>5, <2>2, <3>1, <4>1 DEF Coming
    <3> QED BY <3>1
  <2>4. up = rest
    BY <1>5, <2>3 DEF Coming
  <2>5. Received(HostNow, up) = HostNow
    BY <1>1, <2>4, QuietReceived
  <2> QED BY <1>5, <2>4, <2>5 DEF Coming, ComingGood, HostNow
<1> QED BY <1>2, <1>3, <1>4, <1>5 DEF Reading

(* What a call must leave when it ends.                                    *)
MayEnd(how, vals) ==
  /\ h.pc \in {"drain", "read", "wait"}
  /\ how \in {"returned", "thrown", "exit"}
  /\ vals \in Seq(AnyWord)
  /\ hist.failed \subseteq {"read"} => down \in Seq(StillCode) /\ up' \in Seq(QuietCode)
  /\ hist.failed = {} =>
       /\ how # "exit" /\ End.left = <<>>
       /\ h.addrset => /\ End.addr = h.lastaddr /\ ~End.newaddr
                       /\ ~hist.stale => h.rdtbl = board.rdtbl
       /\ how = "returned" /\ h.call[1].k = "read" /\ ~hist.stale => vals = hist.served
Same(o) ==
  /\ o \in HostType /\ o.call = h.call /\ o.wrtbl = h.wrtbl /\ o.rdtbl = h.rdtbl
  /\ o.rdaddr = h.rdaddr /\ o.lastaddr = h.lastaddr /\ o.addrset = h.addrset
LEMMA EndsKeep ==
    ASSUME BusInv, NEW o, Same(o), NEW how, MayEnd(how, o.vals), Ends(o, how),
           up' \in Seq(UpCode), UNCHANGED <<down, board, eol, mem>>
    PROVE  BusInv'
<1> DEFINE pc1 == IF how = "exit" THEN "gone" ELSE "idle"
           last1 == [call |-> o.call[1], how |-> how, vals |-> o.vals, served |-> hist.served,
                     stale |-> hist.stale]
<1>1. BusType
  BY DEF BusInv
<1>2. h.call[1] \in Calls /\ o.call[1] = h.call[1]
  <2>1. h.call \in {<<c>> : c \in Calls}
    BY DEF BusInv, InCall, MayEnd
  <2>2. PICK c \in Calls : h.call = <<c>>
    BY <2>1
  <2> QED BY <2>2 DEF Same
<1>3. last1 \in EndedType /\ last1.how = how /\ last1.vals = o.vals /\ last1.stale = hist.stale
      /\ last1.served = hist.served /\ last1.call = h.call[1]
  BY <1>1, <1>2 DEF EndedType, MayEnd, BusType, HistType
<1>4. pc1 \in {"idle", "gone"} /\ (how # "exit" => pc1 = "idle")
  OBVIOUS
<1>5. h' = [o EXCEPT !.pc = pc1, !.call = <<>>, !.vals = <<>>, !.n = 0, !.cmdrd = 0, !.idles = 0]
      /\ hist' = [hist EXCEPT !.last = last1, !.served = <<>>]
  BY DEF Ends
<1> HIDE DEF pc1, last1
<1>6. /\ h' \in HostType /\ h'.pc = pc1 /\ h'.wrtbl = h.wrtbl /\ h'.rdtbl = h.rdtbl
      /\ h'.rdaddr = h.rdaddr /\ h'.lastaddr = h.lastaddr /\ h'.addrset = h.addrset
  <2> DEFINE ct == {<<>>} \cup {<<c>> : c \in Calls}
             ps == {"idle", "drain", "read", "wait", "gone"}
             vs == Seq(AnyWord)
             ts == Seq(Val)
             ns == Nat
             is == 0 .. 2
  <2>1. o \in [pc : ps, call : ct, vals : vs, n : ns, cmdrd : ns, idles : is, lastaddr : Int,
   addrset : BOOLEAN, rdtbl : ts, rdaddr : ns, wrtbl : Table, intr : BOOLEAN]
    BY DEF Same, HostType
  <2>2. <<>> \in ct /\ <<>> \in vs /\ pc1 \in ps /\ 0 \in ns /\ 0 \in is
    BY <1>4, EmptySeq
  <2> HIDE DEF ct, ps, vs, ts, ns, is
  <2>3. h' \in [pc : ps, call : ct, vals : vs, n : ns, cmdrd : ns, idles : is, lastaddr : Int,
   addrset : BOOLEAN, rdtbl : ts, rdaddr : ns, wrtbl : Table, intr : BOOLEAN]
    BY <1>5, <2>1, <2>2
  <2>4. h' \in HostType
    BY <2>3 DEF ct, ps, vs, ts, ns, is, HostType
  <2>5. /\ h'.pc = pc1 /\ h'.wrtbl = o.wrtbl /\ h'.rdtbl = o.rdtbl
        /\ h'.rdaddr = o.rdaddr /\ h'.lastaddr = o.lastaddr /\ h'.addrset = o.addrset
    BY <1>5, <2>1
  <2> QED BY <2>4, <2>5 DEF Same
<1>7. /\ hist' \in HistType /\ hist'.last = last1 /\ hist'.served = <<>>
      /\ hist'.asked = hist.asked /\ hist'.astray = hist.astray
      /\ hist'.failed = hist.failed /\ hist'.stale = hist.stale
  BY <1>1, <1>3, <1>5, EmptySeq DEF HistType, BusType, LastType
<1>8. BusType'
  BY <1>1, <1>6, <1>7 DEF BusType
<1>9. InCall'
  BY <1>4, <1>6, <1>7 DEF InCall, BusInv
<1>10. Now' = Now /\ End' = End
  BY <1>7, BoardStands
<1>11. Tables'
  BY <1>6, <1>10 DEF Tables, BusInv
<1>12. Due'
  BY <1>4, <1>6 DEF Due
<1>13. InTurn'
  BY <1>4, <1>6, <1>7 DEF InTurn, MayEnd
<1>14. InStep'
  BY <1>4, <1>6, <1>7, <1>10 DEF InStep, MayEnd, BusInv, Unsent
<1>15. LastTrue'
  <2>1. hist'.last # <<>> /\ hist'.failed = {} /\ last1.how = "returned" /\ last1.call.k = "read"
        /\ ~last1.stale => last1.vals = last1.served
    BY <1>3, <1>7 DEF MayEnd
  <2> QED BY <1>7, <2>1 DEF LastTrue, ReadsTrueInStep, Returned
<1> QED BY <1>8, <1>9, <1>11, <1>12, <1>13, <1>14, <1>15 DEF BusInv

LEMMA HostSame ==
    ASSUME BusType
    PROVE  Same(h)
BY DEF BusType, Same

LEMMA ReadDoneKeeps ==
    ASSUME BusInv, ReadDone
    PROVE  BusInv'
<1> DEFINE call == h.call[1]
           how == IF h.lastaddr = call.a + call.len * Step(call.inc) THEN "returned" ELSE "exit"
<1>1. BusType /\ InCall /\ h.pc = "read" /\ h.n = call.len
  BY DEF BusInv, ReadDone
<1>2. call \in Calls
  <2>1. PICK c \in Calls : h.call = <<c>>
    BY <1>1 DEF InCall
  <2> QED BY <2>1
<1>3. h.n = h.cmdrd /\ h.cmdrd = call.len
  <2>1. call.len \in Nat /\ h.n \in Nat /\ h.cmdrd \in Nat
    BY <1>1, <1>2, CallIs DEF BusType, HostType
  <2> QED BY <1>1, <2>1 DEF InCall
<1>4. hist.failed \subseteq {"read"} =>
        /\ down \in Seq(StillCode) /\ up \in Seq(QuietCode)
        /\ hist.failed = {} =>
             /\ h.lastaddr = End.addr
             /\ ~hist.stale => h.vals = hist.served /\ h.rdtbl = board.rdtbl
  BY <1>1, <1>3, AllHere DEF BusInv
<1>5. Ends(h, how) /\ up' = up /\ UNCHANGED <<down, board, eol, mem>>
  BY DEF ReadDone
<1>6. hist.failed = {} => /\ End.addr = call.a + call.len * Step(call.inc)
                          /\ ~End.newaddr /\ End.left = <<>>
  BY <1>1, <1>3 DEF BusInv, InStep, Unsent
<1>7. hist.failed = {} => how = "returned"
  BY <1>4, <1>6
<1>8. how \in {"returned", "thrown", "exit"} /\ h.vals \in Seq(AnyWord)
  BY <1>1 DEF BusType, HostType
<1> HIDE DEF how, call
<1>9. MayEnd(how, h.vals)
  BY <1>1, <1>4, <1>5, <1>6, <1>7, <1>8 DEF MayEnd
<1> QED BY <1>1, <1>5, <1>9, HostSame, EndsKeep DEF BusType

LEMMA WriteDoneKeeps ==
    ASSUME BusInv, WriteDone
    PROVE  BusInv'
<1> DEFINE call == h.call[1]
<1>1. BusType /\ InCall /\ h.pc = "drain" /\ h.n = call.len
  BY DEF BusInv, WriteDone
<1>2. call \in Calls /\ call.k = "write"
  <2>1. PICK c \in Calls : h.call = <<c>>
    BY <1>1 DEF InCall
  <2> QED BY <1>1, <2>1 DEF InCall
<1>3. hist.failed = {} => End.left = <<>>
  <2>1. h.n \in Nat
    BY <1>1 DEF BusType, HostType
  <2>2. SubSeq(Asked(call), h.n + 1, call.len) = <<>>
    BY <1>1, <2>1
  <2> QED BY <1>1, <2>2 DEF BusInv, InStep, Unsent
<1>4. Ends(h, "returned") /\ up' = up /\ UNCHANGED <<down, board, eol, mem>>
  BY DEF WriteDone
<1>5. MayEnd("returned", h.vals)
  BY <1>1, <1>2, <1>3, <1>4 DEF MayEnd, BusInv, InTurn, InStep, BusType, HostType
<1> QED BY <1>1, <1>4, <1>5, HostSame, EndsKeep DEF BusType

\* What is left of the quiet codes when the first of them have been dropped.
LEMMA WaitKeeps ==
    ASSUME BusInv, Wait
    PROVE  BusInv'
<1>1. BusType /\ InCall /\ h.pc = "wait"
  BY DEF BusInv, Wait
<1>2. PICK n \in 0 .. Len(up) :
        LET intr == h.intr \/ [k |-> "int"] \in ToSet(SubSeq(up, 1, n))
        IN  /\ up' = SubSeq(up, n + 1, Len(up))
            /\ IF intr THEN Ends([h EXCEPT !.intr = TRUE], "returned")
               ELSE UNCHANGED <<h, hist>>
  BY DEF Wait
<1>3. UNCHANGED <<down, board, eol, mem>>
  BY DEF Wait
<1>4. up' \in Seq(UpCode) /\ (up \in Seq(QuietCode) => up' \in Seq(QuietCode))
  BY <1>1, <1>2, CutAt DEF BusType
<1>5. CASE Ends([h EXCEPT !.intr = TRUE], "returned")
  <2> DEFINE o == [h EXCEPT !.intr = TRUE]
  <2>1. Same(o) /\ o.vals = h.vals
    <3> DEFINE ct == {<<>>} \cup {<<c>> : c \in Calls}
    <3> HIDE DEF ct
    <3>1. h \in [pc : {"idle", "drain", "read", "wait", "gone"}, call : ct,
             vals : Seq(AnyWord), n : Nat, cmdrd : Nat, idles : 0 .. 2, lastaddr : Int,
             addrset : BOOLEAN, rdtbl : Seq(Val), rdaddr : Nat, wrtbl : Table, intr : BOOLEAN]
      BY <1>1 DEF BusType, HostType, ct
    <3>2. /\ o.call = h.call /\ o.wrtbl = h.wrtbl /\ o.rdtbl = h.rdtbl /\ o.rdaddr = h.rdaddr
          /\ o.lastaddr = h.lastaddr /\ o.addrset = h.addrset /\ o.vals = h.vals
      BY <3>1
    <3>3. o \in [pc : {"idle", "drain", "read", "wait", "gone"}, call : ct,
             vals : Seq(AnyWord), n : Nat, cmdrd : Nat, idles : 0 .. 2, lastaddr : Int,
             addrset : BOOLEAN, rdtbl : Seq(Val), rdaddr : Nat, wrtbl : Table, intr : BOOLEAN]
      BY <3>1
    <3>4. o \in HostType
      BY <3>3 DEF HostType, ct
    <3> QED BY <3>2, <3>4 DEF Same
  <2>2. h.call[1].k = "wait"
    BY <1>1 DEF InCall
  <2>3. MayEnd("returned", o.vals)
    BY <1>1, <1>4, <2>1, <2>2 DEF MayEnd, BusInv, InTurn, InStep, BusType, HostType, Unsent
  <2> HIDE DEF o
  <2>4. Ends(o, "returned")
    BY <1>5 DEF o
  <2> QED BY <1>3, <1>4, <2>1, <2>3, <2>4, EndsKeep
<1>6. CASE UNCHANGED <<h, hist>>
  <2>1. BusType'
    BY <1>1, <1>3, <1>4, <1>6 DEF BusType
  <2>2. InCall'
    BY <1>1, <1>3, <1>6 DEF InCall
  <2>3. Now' = Now /\ End' = End
    BY <1>3, <1>6, BoardStands
  <2>4. Tables' /\ Due' /\ LastTrue'
    BY <1>1, <1>6, <2>3 DEF Tables, Due, LastTrue, ReadsTrueInStep, Returned, BusInv
  <2>5. InTurn'
    BY <1>1, <1>3, <1>4, <1>6 DEF InTurn, BusInv
  <2>6. InStep'
    BY <1>1, <1>3, <1>6, <2>3 DEF InStep, Unsent, BusInv
  <2> QED BY <2>1, <2>2, <2>4, <2>5, <2>6 DEF BusInv
<1> QED BY <1>2, <1>5, <1>6

-----------------------------------------------------------------------------
(***************************************************************************)
(* The host: codes taken in a read.                                        *)
(***************************************************************************)
\* The host takes the first code up, in a read, and goes on with it.
HostTakes(code) ==
  /\ h' \in HostType /\ h'.pc = "read" /\ h'.call = h.call /\ h'.cmdrd = h.cmdrd
  /\ h'.wrtbl = h.wrtbl /\ h'.rdaddr = Len(h'.rdtbl) /\ h'.n <= h'.cmdrd
  /\ HostNow' = Takes(HostNow, code)
  /\ code.k \notin {"err", "reset"}
TakesFirst(code) ==
  /\ h.pc = "read" /\ up # <<>> /\ code = Head(up) /\ up' = Tail(up) /\ HostTakes(code)
  /\ UNCHANGED <<down, board, eol, mem, hist>>
LEMMA FirstUp ==
    ASSUME BusType, up # <<>>
    PROVE  Head(up) \in UpCode /\ Tail(up) \in Seq(UpCode)
BY HeadTailProperties DEF BusType

LEMMA TakesReceived ==
    ASSUME BusType, NEW code, TakesFirst(code)
    PROVE  /\ Received(HostNow', up') = Received(HostNow, up)
           /\ HostNow' \in Taker /\ h'.n >= h.n /\ h'.n \in Nat /\ code \in UpCode
<1>1. code \in UpCode
  BY FirstUp DEF TakesFirst
<1>2. HostNow \in Taker
  BY HostNowType
<1>3. Received(HostNow, up) = Received(Takes(HostNow, Head(up)), Tail(up))
  BY <1>2, ReceivedIs DEF TakesFirst, BusType
<1>4. HostNow' \in Taker
  BY <1>1, <1>2, TakesType DEF TakesFirst, HostTakes
<1>5. HostNow'.n >= HostNow.n
  <2> DEFINE x == HostNow
  <2> HIDE DEF x
  <2>1. Received(x, <<code>>).n >= x.n
    <3>1. <<code>> \in Seq(UpCode)
      BY <1>1
    <3> DEFINE s == <<code>>
    <3> HIDE DEF s
    <3>2. Received(x, s).n >= x.n
      BY <1>2, <3>1, ReceivedCounts DEF s, x
    <3> QED BY <3>2 DEF s
  <2>2. Received(x, <<code>>) = Takes(x, code)
    BY <1>1, <1>2, ReceivedIs DEF x
  <2> QED BY <2>1, <2>2 DEF TakesFirst, HostTakes, x
<1>6. HostNow'.n = h'.n /\ HostNow.n = h.n
  BY DEF HostNow
<1> QED BY <1>1, <1>3, <1>4, <1>5, <1>6 DEF TakesFirst, HostTakes, HostType

LEMMA TakesPending ==
    ASSUME BusType, NEW code, TakesFirst(code), NEW pre \in Seq(StillCode), Pending(pre)
    PROVE  Pending(pre)'
<1>1. code \in QuietCode /\ Tail(up) \in Seq(QuietCode)
  BY HeadTailProperties DEF TakesFirst, Pending
<1>2. HostNow' = HostNow
  <2>1. code \in UpCode /\ HostNow \in Taker
    BY TakesReceived, HostNowType
  <2>2. code.k \notin {"addr", "raw", "tbl"}
    BY <1>1 DEF QuietCode
  <2>3. Takes(HostNow, code) = HostNow
    <3> DEFINE x == HostNow
    <3> HIDE DEF x
    <3>1. Takes(x, code) = x
      BY <2>1, <2>2, TakesParts DEF x
    <3> QED BY <3>1 DEF x
  <2> QED BY <2>3 DEF TakesFirst, HostTakes
<1>3. h'.lastaddr = h.lastaddr /\ h'.rdtbl = h.rdtbl /\ h'.vals = h.vals /\ h'.n = h.n
  BY <1>2 DEF HostNow
<1>4. Now' = Now
  BY BoardStands DEF TakesFirst
<1>5. PendingGood(pre) => PendingGood(pre)'
  BY <1>3, <1>4 DEF PendingGood, TakesFirst
<1> QED BY <1>1, <1>3, <1>5 DEF Pending, TakesFirst, HostTakes

LEMMA TakesFailing ==
    ASSUME BusType, NEW code, TakesFirst(code), NEW lead \in Seq(CalmCode),
           NEW rest \in Seq(QuietCode), Failing(lead, rest)
    PROVE  \E l \in Seq(CalmCode) : Failing(l, rest)'
<1>1. lead \in Seq(UpCode) /\ rest \in Seq(UpCode) /\ <<ErrCode>> \in Seq(UpCode)
  BY CodeSets, SeqMonotonic DEF CalmCode
<1>2. lead # <<>>
  <2>1. CASE lead = <<>>
    <3>1. Head(up) = ErrCode
      BY <1>1, <2>1 DEF Failing
    <3> QED BY <3>1 DEF TakesFirst, HostTakes, ErrCode
  <2> QED BY <2>1
<1>3. code = Head(lead) /\ Tail(up) = Tail(lead) \o (<<ErrCode>> \o rest)
  <2> DEFINE r == <<ErrCode>> \o rest
  <2>1. r \in Seq(UpCode)
    BY <1>1, ConcatProperties
  <2> HIDE DEF r
  <2>2. up = lead \o r
    BY DEF Failing, r
  <2>3. Head(up) = Head(lead) /\ Tail(up) = Tail(lead) \o r
    BY <1>1, <1>2, <2>1, <2>2, ConcatHead
  <2> QED BY <2>3 DEF r, TakesFirst
<1>4. Tail(lead) \in Seq(CalmCode)
  BY <1>2
<1>5. Received(HostNow, lead) = Received(HostNow', Tail(lead))
  BY <1>1, <1>2, <1>3, HostNowType, ReceivedIs DEF TakesFirst, HostTakes
<1>6. PICK l \in Seq(CalmCode) : l = Tail(lead)
  BY <1>4
<1>7. Failing(l, rest)'
  BY <1>3, <1>5, <1>6 DEF Failing, TakesFirst, HostTakes
<1> QED BY <1>7

LEMMA TakesComing ==
    ASSUME BusType, NEW code, TakesFirst(code), NEW lead \in Seq(CalmCode),
           NEW rest \in Seq(QuietCode), Coming(lead, rest)
    PROVE  \E l \in Seq(CalmCode), r \in Seq(QuietCode) : Coming(l, r)'
<1>1. lead \in Seq(UpCode) /\ rest \in Seq(UpCode)
  BY CodeSets, SeqMonotonic DEF CalmCode
<1>2. Received(HostNow', up') = Received(HostNow, up)
  BY TakesReceived
<1>3. Now' = Now /\ End' = End
  BY BoardStands DEF TakesFirst
<1>4. ComingGood => ComingGood'
  BY <1>2, <1>3 DEF ComingGood, TakesFirst
<1>5. CASE lead = <<>>
  <2>1. up = rest /\ Tail(up) \in Seq(QuietCode)
    BY <1>5 DEF Coming, TakesFirst
  <2>2. PICK r \in Seq(QuietCode) : r = Tail(up)
    BY <2>1
  <2>3. PICK l \in Seq(CalmCode) : l = <<>>
    BY EmptySeq
  <2>4. Coming(l, r)'
    BY <1>2, <1>4, <2>2, <2>3 DEF Coming, TakesFirst, HostTakes
  <2> QED BY <2>4
<1>6. CASE lead # <<>>
  <2>1. Tail(up) = Tail(lead) \o rest /\ Tail(lead) \in Seq(CalmCode)
    BY <1>1, <1>6, ConcatHead DEF Coming
  <2>2. PICK l \in Seq(CalmCode) : l = Tail(lead)
    BY <2>1
  <2>3. l # <<>> => Data(l[Len(l)])
    <3>1. l # <<>> => Len(l) = Len(lead) - 1 /\ l[Len(l)] = lead[Len(lead)]
      BY <1>6, <2>2
    <3> QED BY <1>6, <3>1 DEF Coming
  <2>4. Coming(l, rest)'
    BY <1>2, <1>4, <2>1, <2>2, <2>3 DEF Coming, TakesFirst, HostTakes
  <2> QED BY <2>4
<1> QED BY <1>5, <1>6

LEMMA TakesDue ==
    ASSUME BusType, Due, NEW code, TakesFirst(code)
    PROVE  Due'
<1>1. /\ Received(HostNow', up') = Received(HostNow, up)
      /\ h'.n >= h.n /\ h'.n \in Nat /\ h.n \in Nat /\ h.cmdrd \in Nat /\ h'.cmdrd = h.cmdrd
  BY TakesReceived DEF BusType, HostType, TakesFirst, HostTakes
<1> SUFFICES ASSUME h'.n < h'.cmdrd
             PROVE  \/ \E i \in 1 .. Len(down') : down'[i].k = "rd" /\ down'[i].v >= h'.cmdrd - h'.n
                    \/ \E i \in 1 .. Len(up') : up'[i].k \in {"err", "reset"}
                    \/ Received(HostNow', up').n >= h'.cmdrd
  BY DEF Due
<1>2. h.pc = "read" /\ h.n < h.cmdrd
  BY <1>1 DEF TakesFirst
<1>3. CASE \E i \in 1 .. Len(down) : down[i].k = "rd" /\ down[i].v >= h.cmdrd - h.n
  <2>1. PICK i \in 1 .. Len(down) : down[i].k = "rd" /\ down[i].v >= h.cmdrd - h.n
    BY <1>3
  <2>2. down[i].v \in Nat
    BY <2>1, CodeKinds DEF BusType, ReadCode
  <2>3. down[i].v >= h'.cmdrd - h'.n
    BY <1>1, <2>1, <2>2
  <2> QED BY <2>1, <2>3 DEF TakesFirst
<1>4. CASE \E i \in 1 .. Len(up) : up[i].k \in {"err", "reset"}
  <2>1. PICK i \in 1 .. Len(up) : up[i].k \in {"err", "reset"}
    BY <1>4
  <2>2. i # 1
    BY <2>1 DEF TakesFirst, HostTakes
  <2>3. i - 1 \in 1 .. Len(up') /\ up'[i - 1] = up[i]
    BY <2>2 DEF TakesFirst, BusType
  <2> QED BY <2>1, <2>3
<1>5. CASE Received(HostNow, up).n >= h.cmdrd
  BY <1>1, <1>5
<1> QED BY <1>2, <1>3, <1>4, <1>5 DEF Due

LEMMA TakesKeep ==
    ASSUME BusInv, NEW code, TakesFirst(code)
    PROVE  BusInv'
<1>1. BusType /\ InCall /\ Due
  BY DEF BusInv
<1>2. BusType'
  BY <1>1, FirstUp DEF BusType, TakesFirst, HostTakes
<1>3. InCall'
  BY <1>1 DEF InCall, TakesFirst, HostTakes
<1>4. Now' = Now /\ End' = End
  BY BoardStands DEF TakesFirst
<1>5. Tables' /\ LastTrue'
  BY <1>1, <1>4 DEF Tables, LastTrue, ReadsTrueInStep, Returned, BusInv, TakesFirst, HostTakes
<1>6. Due'
  BY <1>1, TakesDue
<1>7. InTurn'
  <2> SUFFICES ASSUME hist'.failed \subseteq {"read"} PROVE Reading'
    BY DEF InTurn, TakesFirst, HostTakes
  <2>1. Reading
    BY DEF BusInv, InTurn, TakesFirst
  <2>2. ASSUME NEW pre \in Seq(StillCode), Pending(pre) PROVE Reading'
    BY <1>1, <2>2, TakesPending DEF Reading
  <2>3. ASSUME NEW lead \in Seq(CalmCode), NEW rest \in Seq(QuietCode), Failing(lead, rest)
        PROVE  Reading'
    BY <1>1, <2>3, TakesFailing DEF Reading
  <2>4. ASSUME NEW lead \in Seq(CalmCode), NEW rest \in Seq(QuietCode), Coming(lead, rest)
        PROVE  Reading'
    BY <1>1, <2>4, TakesComing DEF Reading
  <2> QED BY <2>1, <2>2, <2>3, <2>4 DEF Reading
<1>8. InStep'
  BY <1>4 DEF InStep, Unsent, BusInv, TakesFirst, HostTakes
<1> QED BY <1>2, <1>3, <1>5, <1>6, <1>7, <1>8 DEF BusInv

\* The type of the host, its sets by name.
PcSet   == {"idle", "drain", "read", "wait", "gone"}
CallSet == {<<>>} \cup {<<c>> : c \in Calls}
WordSeq == Seq(AnyWord)
ValSeq  == Seq(Val)
IdleSet == 0 .. 2
LEMMA HostTypeIs ==
    HostType = [pc : PcSet, call : CallSet, vals : WordSeq, n : Nat, cmdrd : Nat,
                idles : IdleSet, lastaddr : Int, addrset : BOOLEAN, rdtbl : ValSeq,
                rdaddr : Nat, wrtbl : Table, intr : BOOLEAN]
BY DEF HostType, PcSet, CallSet, WordSeq, ValSeq, IdleSet

\* The host's table and what it takes from the link.
LEMMA TookIs ==
    ASSUME BusType, InCall, NEW code \in UpCode, Data(code)
    PROVE  /\ Word(code) = (IF code.k = "raw" THEN code.v
                            ELSE IF code.v <= Len(h.rdtbl) THEN Back(h.rdtbl, code.v) ELSE Junk)
           /\ Word(code) \in AnyWord
           /\ \E t \in ValSeq :
                /\ t = IF code.k = "raw" THEN Append(h.rdtbl, code.v) ELSE h.rdtbl
                /\ Took(code) = [h EXCEPT !.lastaddr = @ + Step(code.inc), !.rdtbl = t,
                                          !.rdaddr = Len(t)]
           /\ Step(code.inc) \in Int
<1>1. h.rdaddr = Len(h.rdtbl) /\ h.rdtbl \in Seq(Val)
  BY DEF BusType, HostType, InCall
<1>2. code \in DataCode /\ code.k \in {"raw", "tbl"}
  BY UpKinds
<1>3. (code.k = "raw" => code.v \in Val) /\ (code.k = "tbl" => code.v \in Nat \ {0})
  BY <1>2 DEF DataCode
<1>4. Word(code) = (IF code.k = "raw" THEN code.v
                    ELSE IF code.v <= Len(h.rdtbl) THEN Back(h.rdtbl, code.v) ELSE Junk)
  BY <1>1 DEF Word, TableWord, Back
<1>5. Word(code) \in AnyWord
  <2>1. code.k = "tbl" /\ code.v <= Len(h.rdtbl) => Back(h.rdtbl, code.v) \in Val
    BY <1>1, <1>3 DEF Back
  <2> QED BY <1>2, <1>3, <1>4, <2>1 DEF AnyWord
<1>6. Step(code.inc) \in Int
  BY DEF Step
<1>7. CASE code.k = "raw"
  <2>1. SubSeq(h.rdtbl, 1, h.rdaddr) = h.rdtbl
    BY <1>1
  <2>2. PICK t \in ValSeq : t = Append(h.rdtbl, code.v)
    <3>1. Append(h.rdtbl, code.v) \in ValSeq
      BY <1>1, <1>3, <1>7, AppendProperties DEF ValSeq
    <3> QED BY <3>1
  <2>3. Len(t) = h.rdaddr + 1
    BY <1>1, <2>2
  <2>4. Took(code) = [h EXCEPT !.lastaddr = @ + Step(code.inc), !.rdtbl = t, !.rdaddr = Len(t)]
    BY <1>7, <2>1, <2>2, <2>3 DEF Took
  <2> QED BY <1>4, <1>5, <1>6, <1>7, <2>2, <2>4
<1>8. CASE code.k # "raw"
  <2>1. PICK t \in ValSeq : t = h.rdtbl
    BY <1>1 DEF ValSeq
  <2>2. Took(code) = [h EXCEPT !.lastaddr = @ + Step(code.inc), !.rdtbl = t, !.rdaddr = Len(t)]
    BY <1>1, <1>8, <2>1 DEF Took
  <2> QED BY <1>4, <1>5, <1>6, <1>8, <2>1, <2>2
<1> QED BY <1>7, <1>8

LEMMA ThrowKeeps ==
    ASSUME BusInv, h.pc \in {"drain", "read"}, Throw(h), up' \in Seq(UpCode),
           UNCHANGED <<down, board, eol, mem>>,
           hist.failed # {},
           hist.failed \subseteq {"read"} => down \in Seq(StillCode) /\ up' \in Seq(QuietCode)
    PROVE  BusInv'
<1> DEFINE o == [h EXCEPT !.vals = <<>>]
<1>1. BusType
  BY DEF BusInv
<1>2. Same(o) /\ o.vals = <<>>
  <2>1. <<>> \in WordSeq
    BY EmptySeq DEF WordSeq
  <2>2. h \in HostType
    BY <1>1 DEF BusType
  <2>3. o \in HostType
    BY <2>1, <2>2, HostTypeIs
  <2>4. /\ o.call = h.call /\ o.wrtbl = h.wrtbl /\ o.rdtbl = h.rdtbl /\ o.rdaddr = h.rdaddr
        /\ o.lastaddr = h.lastaddr /\ o.addrset = h.addrset /\ o.vals = <<>>
    BY <2>2, HostTypeIs
  <2> QED BY <2>3, <2>4 DEF Same
<1>3. MayEnd("thrown", o.vals)
  BY <1>2, EmptySeq DEF MayEnd
<1>4. Ends(o, "thrown")
  BY DEF Throw
<1> HIDE DEF o
<1> QED BY <1>2, <1>3, <1>4, EndsKeep

LEMMA ReadWordKeeps ==
    ASSUME BusInv, ReadWord
    PROVE  BusInv'
<1>1. BusType /\ InCall
  BY DEF BusInv
<1>2. /\ h.pc = "read" /\ h.n < h.cmdrd /\ up # <<>> /\ up' = Tail(up)
      /\ UNCHANGED <<down, board, eol, mem>>
  BY DEF ReadWord
<1>3. PICK code : code = Head(up)
  OBVIOUS
<1>4. \/ code.k \in {"nl", "idle", "ack"} /\ UNCHANGED <<h, hist>>
      \/ code.k = "int" /\ h' = [h EXCEPT !.intr = TRUE] /\ UNCHANGED hist
      \/ code.k \in {"err", "reset"} /\ Throw(h)
      \/ /\ code.k = "addr" /\ UNCHANGED hist
         /\ h' = [h EXCEPT !.addrset = TRUE, !.lastaddr = code.v]
      \/ /\ Data(code) /\ UNCHANGED hist
         /\ h' = [Took(code) EXCEPT !.vals = Append(@, Word(code)), !.n = @ + 1]
  BY <1>3 DEF ReadWord
<1>5. code \in UpCode /\ Tail(up) \in Seq(UpCode)
  BY <1>1, <1>2, <1>3, FirstUp
<1>6. HostNow \in Taker /\ h \in HostType /\ h.rdaddr = Len(h.rdtbl)
  BY <1>1, HostNowType DEF BusType, InCall
<1>7. /\ h.n \in Nat /\ h.cmdrd \in Nat /\ h.vals \in WordSeq /\ h.lastaddr \in Int
      /\ h.rdtbl \in ValSeq
  BY <1>6, HostTypeIs
<1>8. /\ code.k = "addr" => code.v \in Int
      /\ Data(code) <=> code.k \in {"raw", "tbl"}
  BY <1>5, UpKinds
<1>9. HostTakes(code) /\ UNCHANGED hist => BusInv'
  BY <1>2, <1>3, TakesKeep DEF TakesFirst
<1> DEFINE x == HostNow
<1>10. /\ x.la = h.lastaddr /\ x.tbl = h.rdtbl /\ x.vals = h.vals /\ x.n = h.n
  BY DEF HostNow
<1>11. code.k \notin {"addr", "raw", "tbl"} => Takes(HostNow, code) = HostNow
  <2> HIDE DEF x
  <2>1. code.k \notin {"addr", "raw", "tbl"} => Takes(x, code) = x
    BY <1>5, <1>6, TakesParts DEF x
  <2> QED BY <2>1 DEF x
<1>12. CASE code.k \in {"nl", "idle", "ack"} /\ UNCHANGED <<h, hist>>
  <2>1. HostNow' = Takes(HostNow, code)
    BY <1>11, <1>12 DEF HostNow
  <2>2. HostTakes(code)
    BY <1>2, <1>6, <1>7, <1>12, <2>1 DEF HostTakes
  <2> QED BY <1>9, <1>12, <2>2
<1>13. CASE code.k = "int" /\ h' = [h EXCEPT !.intr = TRUE] /\ UNCHANGED hist
  <2>1. h' \in HostType
    BY <1>6, <1>13, HostTypeIs
  <2>2. /\ h'.pc = h.pc /\ h'.call = h.call /\ h'.cmdrd = h.cmdrd /\ h'.wrtbl = h.wrtbl
        /\ h'.rdaddr = h.rdaddr /\ h'.rdtbl = h.rdtbl /\ h'.n = h.n /\ h'.vals = h.vals
        /\ h'.lastaddr = h.lastaddr
    BY <1>6, <1>13, HostTypeIs
  <2>3. HostNow' = Takes(HostNow, code)
    BY <1>11, <1>13, <2>2 DEF HostNow
  <2>4. HostTakes(code)
    BY <1>2, <1>6, <1>7, <1>13, <2>1, <2>2, <2>3 DEF HostTakes
  <2> QED BY <1>9, <1>13, <2>4
<1>14. CASE code.k \in {"err", "reset"} /\ Throw(h)
  <2>1. /\ hist.failed # {}
        /\ hist.failed \subseteq {"read"} => down \in Seq(StillCode) /\ up' \in Seq(QuietCode)
    <3>1. CASE hist.failed \subseteq {"read"}
      <4>1. Reading
        BY <1>2, <3>1 DEF BusInv, InTurn
      <4>2. ASSUME NEW pre \in Seq(StillCode), Pending(pre) PROVE FALSE
        <5>1. code \in QuietCode
          BY <1>2, <1>3, <4>2, HeadTailProperties DEF Pending
        <5> QED BY <1>14, <5>1 DEF QuietCode
      <4>3. ASSUME NEW lead \in Seq(CalmCode), NEW rest \in Seq(QuietCode),
                   Failing(lead, rest)
            PROVE  hist.failed # {} /\ down \in Seq(StillCode) /\ up' \in Seq(QuietCode)
        <5>1. CASE lead = <<>>
          <6>1. up = <<ErrCode>> \o rest
            BY <4>3, <5>1 DEF Failing
          <6>2. Tail(up) = rest
            <7> HIDE DEF x
            <7>1. <<ErrCode>> \in Seq(UpCode) /\ rest \in Seq(UpCode)
              BY CodeSets, SeqMonotonic DEF CalmCode
            <7>2. Tail(<<ErrCode>> \o rest) = rest
              BY <7>1
            <7> QED BY <6>1, <7>2
          <6> QED BY <1>2, <4>3, <6>2 DEF Failing
        <5>2. CASE lead # <<>>
          <6>1. code = Head(lead)
            <7> DEFINE r == <<ErrCode>> \o rest
            <7>1. lead \in Seq(UpCode) /\ rest \in Seq(UpCode) /\ <<ErrCode>> \in Seq(UpCode)
              BY CodeSets, SeqMonotonic DEF CalmCode
            <7>2. r \in Seq(UpCode)
              BY <7>1, ConcatProperties
            <7>3. up = lead \o r
              BY <4>3 DEF Failing
            <7> HIDE DEF r
            <7> QED BY <1>3, <5>2, <7>1, <7>2, <7>3, ConcatHead
          <6>2. code \in CalmCode
            BY <5>2, <6>1, HeadTailProperties
          <6> QED BY <1>14, <6>2, CodeSets
        <5> QED BY <5>1, <5>2
      <4>4. ASSUME NEW lead \in Seq(CalmCode), NEW rest \in Seq(QuietCode),
                   Coming(lead, rest)
            PROVE  FALSE
        <5>1. rest \in Seq(CalmCode)
          BY CodeSets, SeqMonotonic
        <5>2. up \in Seq(CalmCode)
          BY <4>4, <5>1, ConcatProperties DEF Coming
        <5>3. code \in CalmCode
          BY <1>2, <1>3, <5>2, HeadTailProperties
        <5> QED BY <1>14, <5>3, CodeSets
      <4> QED BY <4>1, <4>2, <4>3, <4>4 DEF Reading
    <3>2. CASE ~(hist.failed \subseteq {"read"})
      BY <3>2
    <3> QED BY <3>1, <3>2
  <2> QED BY <1>2, <1>5, <1>14, <2>1, ThrowKeeps
<1>15. CASE /\ code.k = "addr" /\ UNCHANGED hist
            /\ h' = [h EXCEPT !.addrset = TRUE, !.lastaddr = code.v]
  <2>1. h' \in HostType
    BY <1>6, <1>8, <1>15, HostTypeIs
  <2>2. /\ h'.pc = h.pc /\ h'.call = h.call /\ h'.cmdrd = h.cmdrd /\ h'.wrtbl = h.wrtbl
        /\ h'.rdaddr = h.rdaddr /\ h'.rdtbl = h.rdtbl /\ h'.n = h.n /\ h'.vals = h.vals
        /\ h'.lastaddr = code.v
    BY <1>6, <1>15, HostTypeIs
  <2>3. HostNow' = Takes(HostNow, code)
    BY <1>15, <2>2 DEF HostNow, Takes
  <2>4. HostTakes(code)
    BY <1>2, <1>6, <1>7, <1>15, <2>1, <2>2, <2>3 DEF HostTakes
  <2> QED BY <1>9, <1>15, <2>4
<1>16. CASE /\ Data(code) /\ UNCHANGED hist
            /\ h' = [Took(code) EXCEPT !.vals = Append(@, Word(code)), !.n = @ + 1]
  <2>1. /\ Word(code) = (IF code.k = "raw" THEN code.v
                         ELSE IF code.v <= Len(h.rdtbl) THEN Back(h.rdtbl, code.v) ELSE Junk)
        /\ Word(code) \in AnyWord /\ Step(code.inc) \in Int
    BY <1>1, <1>5, <1>16, TookIs
  <2>2. PICK t \in ValSeq :
          /\ t = IF code.k = "raw" THEN Append(h.rdtbl, code.v) ELSE h.rdtbl
          /\ Took(code) = [h EXCEPT !.lastaddr = @ + Step(code.inc), !.rdtbl = t,
                                    !.rdaddr = Len(t)]
    BY <1>1, <1>5, <1>16, TookIs
  <2> DEFINE w == Word(code)
             d == Step(code.inc)
             vs == Append(h.vals, w)
  <2>3. vs \in WordSeq /\ d \in Int /\ Len(t) \in Nat
    BY <1>7, <2>1 DEF WordSeq, ValSeq
  <2>4. Took(code) = [h EXCEPT !.lastaddr = h.lastaddr + d, !.rdtbl = t, !.rdaddr = Len(t)]
    BY <2>2
  <2>5. h' = [Took(code) EXCEPT !.vals = Append(@, w), !.n = @ + 1]
    BY <1>16
  <2> HIDE DEF d, w
  <2>6. h' = [h EXCEPT !.lastaddr = h.lastaddr + d, !.rdtbl = t, !.rdaddr = Len(t),
                       !.vals = Append(h.vals, w), !.n = h.n + 1]
    BY <1>6, <2>4, <2>5, HostTypeIs
  <2> HIDE DEF vs
  <2>7. h' = [h EXCEPT !.lastaddr = h.lastaddr + d, !.rdtbl = t, !.rdaddr = Len(t),
                       !.vals = vs, !.n = h.n + 1]
    BY <2>6 DEF vs
  <2>8. h.lastaddr + d \in Int /\ h.n + 1 \in Nat
    BY <1>7, <2>3
  <2>9. h' \in HostType
    BY <1>6, <2>3, <2>7, <2>8, HostTypeIs
  <2>10. /\ h'.pc = h.pc /\ h'.call = h.call /\ h'.cmdrd = h.cmdrd /\ h'.wrtbl = h.wrtbl
         /\ h'.rdaddr = Len(t) /\ h'.rdtbl = t /\ h'.n = h.n + 1 /\ h'.vals = vs
         /\ h'.lastaddr = h.lastaddr + d
    BY <1>6, <2>7, HostTypeIs
  <2>11. HostNow' = Takes(HostNow, code)
    <3>1. Takes(HostNow, code) =
            [la   |-> h.lastaddr + Step(code.inc),
             tbl  |-> IF code.k = "raw" THEN Append(h.rdtbl, code.v) ELSE h.rdtbl,
             vals |-> Append(h.vals, IF code.k = "raw" THEN code.v
                                     ELSE IF code.v <= Len(h.rdtbl) THEN Back(h.rdtbl, code.v)
                                     ELSE Junk),
             n    |-> h.n + 1]
      BY <1>8, <1>16 DEF Takes, HostNow
    <3>2. Takes(HostNow, code) = [la |-> h.lastaddr + d, tbl |-> t, vals |-> vs, n |-> h.n + 1]
      BY <2>1, <2>2, <3>1 DEF d, vs, w
    <3> QED BY <2>10, <3>2 DEF HostNow
  <2>12. HostTakes(code)
    BY <1>2, <1>7, <1>8, <1>16, <2>9, <2>10, <2>11 DEF HostTakes
  <2> QED BY <1>9, <1>16, <2>12
<1> QED BY <1>4, <1>12, <1>13, <1>14, <1>15, <1>16

AskedSeq == Seq(Int \X Val)
FailSet  == SUBSET Failures
LEMMA HistTypeIs ==
    HistType = [asked : AskedSeq, astray : BOOLEAN, served : ValSeq, last : LastType,
                failed : FailSet, stale : BOOLEAN, calls : Nat]
BY DEF HistType, AskedSeq, ValSeq, FailSet

-----------------------------------------------------------------------------
(***************************************************************************)
(* The host: codes taken after a write.                                    *)
(***************************************************************************)
\* readidle() takes what it takes; in turn that is nothing but quiet codes.
Idled ==
  /\ h.pc = "drain" /\ up' \in Seq(UpCode)
  /\ h' \in HostType /\ h'.pc = h.pc /\ h'.call = h.call /\ h'.vals = h.vals /\ h'.n = h.n
  /\ h'.wrtbl = h.wrtbl /\ h'.rdaddr = Len(h'.rdtbl)
  /\ UNCHANGED <<hist, down, board, eol, mem>>
  /\ hist.failed \subseteq {"read"} =>
       /\ up' \in Seq(QuietCode) /\ h'.rdtbl = h.rdtbl
       /\ h'.lastaddr = h.lastaddr /\ h'.addrset = h.addrset
LEMMA IdledKeeps ==
    ASSUME BusInv, Idled
    PROVE  BusInv'
<1>1. BusType'
  BY DEF BusInv, BusType, Idled
<1>2. InCall'
  BY DEF BusInv, InCall, Idled
<1>3. Now' = Now /\ End' = End
  BY BoardStands DEF Idled
<1>4. Tables' /\ LastTrue' /\ Due'
  BY <1>3 DEF Tables, LastTrue, ReadsTrueInStep, Returned, Due, BusInv, Idled
<1>5. InTurn'
  BY DEF InTurn, BusInv, Idled
<1>6. InStep'
  BY <1>3 DEF InStep, Unsent, BusInv, Idled
<1> QED BY <1>1, <1>2, <1>4, <1>5, <1>6 DEF BusInv

LEMMA CutFrom ==
    ASSUME NEW S, NEW s \in Seq(S), s # <<>>
    PROVE  /\ Tail(s) \in Seq(S) /\ Head(s) \in S
           /\ SubSeq(s, IF Len(s) > 1 THEN 3 ELSE 2, Len(s)) \in Seq(S)
           /\ s[IF Len(s) > 1 THEN 2 ELSE 1] \in S
<1>1. Len(s) \in Nat \ {0}
  BY EmptySeq
<1>2. CASE Len(s) > 1
  <2>1. SubSeq(s, 3, Len(s)) \in Seq(S)
    BY <1>2, CutAt
  <2> QED BY <1>1, <1>2, <2>1, HeadTailProperties
<1>3. CASE ~(Len(s) > 1)
  <2>1. SubSeq(s, 2, Len(s)) \in Seq(S)
    BY <1>1, <1>3, CutAt
  <2> QED BY <1>1, <1>3, <2>1, HeadTailProperties
<1> QED BY <1>2, <1>3

LEMMA ReadIdleKeeps ==
    ASSUME BusInv, ReadIdle
    PROVE  BusInv'
<1>1. BusType /\ InCall
  BY DEF BusInv
<1> DEFINE at == IF Len(up) > 1 THEN 2 ELSE 1
           code == up[at]
           from == IF Len(up) > 1 THEN 3 ELSE 2
           done == [h EXCEPT !.idles = @ - 1]
<1>2. h.pc = "drain" /\ h.idles > 0 /\ UNCHANGED <<down, board, eol, mem>>
  BY DEF ReadIdle
<1>3. \/ up = <<>> /\ h' = done /\ UNCHANGED <<up, hist>>
      \/ /\ up # <<>> /\ up' = Tail(up) /\ h' = done /\ UNCHANGED hist
      \/ /\ up # <<>> /\ up' = SubSeq(up, from, Len(up))
         /\ \/ UNCHANGED <<h, hist>>
            \/ h' = [h EXCEPT !.intr = TRUE] /\ UNCHANGED hist
            \/ code.k \in {"err", "reset"} /\ Throw(h)
            \/ /\ Data(code) /\ h' = [Took(code) EXCEPT !.idles = @ - 1]
               /\ UNCHANGED hist
  BY DEF ReadIdle
<1>4. /\ up' \in Seq(UpCode)
      /\ up # <<>> => code \in UpCode
      /\ up \in Seq(QuietCode) => up' \in Seq(QuietCode) /\ (up # <<>> => code \in QuietCode)
  <2>1. up \in Seq(UpCode)
    BY <1>1 DEF BusType
  <2>2. ASSUME NEW S, up \in Seq(S) PROVE up' \in Seq(S) /\ (up # <<>> => code \in S)
    <3>1. up # <<>> => /\ Tail(up) \in Seq(S) /\ code \in S
                       /\ SubSeq(up, from, Len(up)) \in Seq(S)
      BY <2>2, CutFrom
    <3> HIDE DEF at, code, from
    <3> QED BY <1>3, <2>2, <3>1
  <2> QED BY <2>1, <2>2
<1>5. hist.failed \subseteq {"read"} => up \in Seq(QuietCode)
  BY <1>2 DEF BusInv, InTurn
<1>6. /\ h \in HostType /\ h.rdaddr = Len(h.rdtbl) /\ h.idles \in IdleSet /\ h.idles - 1 \in IdleSet
      /\ h.lastaddr \in Int
  <2>1. h \in HostType /\ h.rdaddr = Len(h.rdtbl) /\ h.idles \in IdleSet /\ h.lastaddr \in Int
    BY <1>1, HostTypeIs DEF BusType, InCall
  <2> QED BY <1>2, <2>1 DEF IdleSet
<1> HIDE DEF at, code, from
<1>7. CASE h' = done /\ UNCHANGED hist
  <2>1. h' \in HostType
    BY <1>6, <1>7, HostTypeIs
  <2>2. /\ h'.pc = h.pc /\ h'.call = h.call /\ h'.vals = h.vals /\ h'.n = h.n
        /\ h'.wrtbl = h.wrtbl /\ h'.rdaddr = h.rdaddr /\ h'.rdtbl = h.rdtbl
        /\ h'.lastaddr = h.lastaddr /\ h'.addrset = h.addrset
    BY <1>6, <1>7, HostTypeIs
  <2>3. Idled
    BY <1>2, <1>4, <1>5, <1>6, <1>7, <2>1, <2>2 DEF Idled
  <2> QED BY <2>3, IdledKeeps
<1>8. CASE UNCHANGED <<h, hist>>
  <2>1. Idled
    BY <1>2, <1>4, <1>5, <1>6, <1>8 DEF Idled
  <2> QED BY <2>1, IdledKeeps
<1>9. CASE h' = [h EXCEPT !.intr = TRUE] /\ UNCHANGED hist
  <2>1. h' \in HostType
    BY <1>6, <1>9, HostTypeIs
  <2>2. /\ h'.pc = h.pc /\ h'.call = h.call /\ h'.vals = h.vals /\ h'.n = h.n
        /\ h'.wrtbl = h.wrtbl /\ h'.rdaddr = h.rdaddr /\ h'.rdtbl = h.rdtbl
        /\ h'.lastaddr = h.lastaddr /\ h'.addrset = h.addrset
    BY <1>6, <1>9, HostTypeIs
  <2>3. Idled
    BY <1>2, <1>4, <1>5, <1>6, <1>9, <2>1, <2>2 DEF Idled
  <2> QED BY <2>3, IdledKeeps
<1>10. CASE up # <<>> /\ code.k \in {"err", "reset"} /\ Throw(h)
  <2>1. ~(hist.failed \subseteq {"read"})
    BY <1>4, <1>5, <1>10 DEF QuietCode
  <2>2. hist.failed # {}
    BY <2>1
  <2> QED BY <1>2, <1>4, <1>10, <2>1, <2>2, ThrowKeeps
<1>11. CASE up # <<>> /\ Data(code) /\ h' = [Took(code) EXCEPT !.idles = @ - 1] /\ UNCHANGED hist
  <2>1. ~(hist.failed \subseteq {"read"})
    BY <1>4, <1>5, <1>11 DEF QuietCode, Data
  <2>2. PICK t \in ValSeq :
          Took(code) = [h EXCEPT !.lastaddr = @ + Step(code.inc), !.rdtbl = t, !.rdaddr = Len(t)]
    BY <1>1, <1>4, <1>11, TookIs
  <2>3. Step(code.inc) \in Int /\ Len(t) \in Nat
    <3>1. Len(t) \in Nat
      BY <2>2 DEF ValSeq
    <3>2. Step(code.inc) \in Int
      BY DEF Step
    <3> QED BY <3>1, <3>2
  <2> DEFINE l == h.lastaddr + Step(code.inc)
             r == Len(t)
  <2>4. l \in Int /\ r \in Nat
    BY <1>6, <2>3
  <2>5. Took(code) = [h EXCEPT !.lastaddr = l, !.rdtbl = t, !.rdaddr = r]
    BY <2>2
  <2> HIDE DEF l, r
  <2>6. h' = [h EXCEPT !.lastaddr = l, !.rdtbl = t, !.rdaddr = r, !.idles = h.idles - 1]
    BY <1>6, <1>11, <2>5, HostTypeIs
  <2>7. h' \in HostType
    BY <1>6, <2>4, <2>6, HostTypeIs
  <2>8. /\ h'.pc = h.pc /\ h'.call = h.call /\ h'.vals = h.vals /\ h'.n = h.n
        /\ h'.wrtbl = h.wrtbl /\ h'.rdaddr = r /\ h'.rdtbl = t
    BY <1>6, <2>6, HostTypeIs
  <2>9. h'.rdaddr = Len(h'.rdtbl)
    BY <2>8 DEF r
  <2>10. Idled
    BY <1>2, <1>4, <1>11, <2>1, <2>7, <2>8, <2>9 DEF Idled
  <2> QED BY <2>10, IdledKeeps
<1> QED BY <1>3, <1>7, <1>8, <1>9, <1>10, <1>11

-----------------------------------------------------------------------------
\* The host starts anew, or waits.
LEMMA RestartKeeps ==
    ASSUME BusInv, Restart
    PROVE  BusInv'
<1>1. BusType /\ InCall
  BY DEF BusInv
<1>2. /\ h.pc \in {"idle", "gone"} /\ h' = Fresh /\ up' = <<>>
      /\ hist' = [hist EXCEPT !.calls = @ + 1] /\ UNCHANGED <<down, board, eol, mem>>
  BY DEF Restart
<1>3. /\ hist' \in HistType /\ hist'.last = hist.last /\ hist'.served = hist.served
      /\ hist'.asked = hist.asked /\ hist'.astray = hist.astray
      /\ hist'.failed = hist.failed /\ hist'.stale = hist.stale
  <2>1. hist \in HistType
    BY <1>1 DEF BusType
  <2>2. hist.calls + 1 \in Nat
    BY <2>1, HistTypeIs
  <2> QED BY <1>2, <2>1, <2>2, HistTypeIs
<1>4. Fresh \in HostType
  <2>1. <<>> \in Seq(AnyWord) /\ <<>> \in Seq(Val) /\ <<>> \in Table
    BY ReachType, EmptySeq DEF Table
  <2> QED BY <2>1 DEF HostType, Fresh
<1>5. BusType'
  BY <1>1, <1>2, <1>3, <1>4, EmptySeq DEF BusType
<1>6. InCall'
  BY <1>1, <1>2, <1>3, EmptySeq DEF InCall, Fresh
<1>7. Now' = Now /\ End' = End /\ End \in Walker
  BY <1>1, <1>2, <1>3, BoardStands, NowType
<1>8. Tables'
  <2>1. h'.wrtbl = <<>>
    BY <1>2 DEF Fresh
  <2>2. End.tbl \in Seq(Val)
    BY <1>7 DEF Walker, Table
  <2>3. AsFarBack(<<>>, End.tbl)
    BY <2>2, EmptySeq DEF AsFarBack
  <2> QED BY <1>7, <2>1, <2>3 DEF Tables, BusInv
<1>9. Due' /\ LastTrue'
  BY <1>2, <1>3 DEF Due, LastTrue, ReadsTrueInStep, Returned, Fresh, BusInv
<1>10. InTurn'
  BY <1>2, <1>3, EmptySeq DEF InTurn, Fresh, BusInv
<1>11. InStep'
  BY <1>2, <1>3, <1>7 DEF InStep, Unsent, Fresh, BusInv
<1> QED BY <1>5, <1>6, <1>8, <1>9, <1>10, <1>11 DEF BusInv

LEMMA WaitCallKeeps ==
    ASSUME BusInv, NEW call \in Calls, call.k = "wait", h.pc = "idle", WaitCall(call),
           UNCHANGED <<board, up, eol, mem>>
    PROVE  BusInv'
<1>1. BusType /\ InCall
  BY DEF BusInv
<1>2. /\ h' = [h EXCEPT !.pc = "wait", !.call = <<call>>]
      /\ hist' = [hist EXCEPT !.last = <<>>, !.calls = @ + 1] /\ down' = down
  BY DEF WaitCall
<1>3. /\ hist' \in HistType /\ hist'.last = <<>> /\ hist'.served = hist.served
      /\ hist'.asked = hist.asked /\ hist'.astray = hist.astray
      /\ hist'.failed = hist.failed /\ hist'.stale = hist.stale
  <2>1. hist \in HistType /\ <<>> \in LastType
    BY <1>1 DEF BusType, LastType
  <2>2. hist.calls + 1 \in Nat
    BY <2>1, HistTypeIs
  <2> QED BY <1>2, <2>1, <2>2, HistTypeIs
<1>4. h \in HostType /\ <<call>> \in CallSet /\ "wait" \in PcSet
  BY <1>1 DEF BusType, CallSet, PcSet
<1>5. h' \in HostType
  BY <1>2, <1>4, HostTypeIs
<1>6. /\ h'.pc = "wait" /\ h'.call = <<call>> /\ h'.wrtbl = h.wrtbl /\ h'.rdaddr = h.rdaddr
      /\ h'.rdtbl = h.rdtbl /\ h'.lastaddr = h.lastaddr /\ h'.addrset = h.addrset
  BY <1>2, <1>4, HostTypeIs
<1>7. BusType'
  BY <1>1, <1>2, <1>3, <1>5 DEF BusType
<1>8. InCall'
  BY <1>1, <1>3, <1>6 DEF InCall
<1>9. Now' = Now /\ End' = End
  BY <1>2, <1>3, BoardStands
<1>10. Tables' /\ Due' /\ LastTrue'
  BY <1>3, <1>6, <1>9 DEF Tables, Due, LastTrue, ReadsTrueInStep, Returned, BusInv
<1>11. InTurn'
  BY <1>2, <1>3, <1>6 DEF InTurn, BusInv
<1>12. InStep'
  BY <1>3, <1>6, <1>9 DEF InStep, Unsent, BusInv
<1> QED BY <1>7, <1>8, <1>10, <1>11, <1>12 DEF BusInv

LEMMA BehindAll ==
    ASSUME NEW S, NEW a \in Seq(S), NEW b \in Seq(S), Len(b) > 0
    PROVE  Len(a) + 1 \in 1 .. Len(a \o b) /\ (a \o b)[Len(a) + 1] = b[1]
OBVIOUS

-----------------------------------------------------------------------------
(***************************************************************************)
(* The host: read commands.                                                *)
(***************************************************************************)
\* A read command, executed.
LEMMA CommandExecuted ==
    ASSUME NEW x \in Walker, NEW v \in Nat \ {0}, NEW inc \in BOOLEAN
    PROVE  LET y == Executed(x, Command(v, inc))
           IN  /\ y.addr = x.addr + v * Step(inc) /\ ~y.newaddr /\ y.left = x.left
               /\ y.tbl = x.tbl /\ y.refs = x.refs /\ y.fits = x.fits
<1> DEFINE rd == [k |-> "rd", v |-> v, inc |-> inc]
           nl == [k |-> "nl"]
           s == Command(v, inc)
<1>1. rd \in DownCode /\ nl \in DownCode
  BY CodeSets
<1>2. s \in Seq(DownCode) /\ s # <<>> /\ Head(s) = rd /\ Tail(s) = <<nl>>
  BY CommandType
<1>3. rd.k = "rd" /\ rd.v = v /\ rd.inc = inc /\ nl.k = "nl"
  OBVIOUS
<1> HIDE DEF rd, nl, s
<1> DEFINE y == Executes(x, rd)
<1>4. y \in Walker
  BY <1>1, ExecutesType
<1>5. Executed(x, s) = Executed(y, <<nl>>)
  <2>1. Executed(x, s) = Executed(Executes(x, Head(s)), Tail(s))
    BY <1>2, ExecutedIs
  <2> QED BY <1>2, <2>1
<1>6. /\ y.addr = x.addr + v * Step(inc) /\ ~y.newaddr /\ y.left = x.left
      /\ y.tbl = x.tbl /\ y.refs = x.refs /\ y.fits = x.fits
  <2>1. /\ y.addr = x.addr + rd.v * Step(rd.inc) /\ ~y.newaddr /\ y.left = x.left
        /\ y.tbl = x.tbl /\ y.refs = x.refs /\ y.fits = x.fits
    BY <1>1, <1>3, ExecutesParts
  <2>2. rd.v * Step(rd.inc) = v * Step(inc)
    BY <1>3, Zenon
  <2> QED BY <2>1, <2>2
<1> HIDE DEF y
<1>7. Executed(y, <<nl>>) = Executes(y, nl)
  BY <1>1, <1>4, ExecutedIs
<1>8. Executes(y, nl) = y
  BY <1>1, <1>3, <1>4, ExecutesParts
<1> QED BY <1>5, <1>6, <1>7, <1>8 DEF s

\* What is on its way with an address behind it.
LEMMA AddressBehind ==
    ASSUME BusType, NEW prefix \in Seq(AddressCode)
    PROVE  /\ down \o prefix \in Seq(DownCode)
           /\ down \in Seq(StillCode) => down \o prefix \in Seq(StillCode)
           /\ Executed(Now, down \o prefix) = Executed(End, prefix)
           /\ Executed(Now, down \o prefix) \in Walker
<1>1. prefix \in Seq(DownCode) /\ prefix \in Seq(StillCode)
  BY CodeSets, SeqMonotonic DEF StillCode
<1>2. down \in Seq(DownCode) /\ Now \in Walker
  BY NowType DEF BusType
<1> QED BY <1>1, <1>2, ExecutedIs, ConcatProperties DEF End

(* The host sends a read command, behind q.                                *)
ReadSent(q, c, v) ==
  /\ h' \in HostType /\ h'.pc = "read" /\ h'.call = <<c>> /\ h'.cmdrd = h'.n + v
  /\ h'.cmdrd <= c.len /\ h'.wrtbl = h.wrtbl /\ h'.rdaddr = Len(h'.rdtbl)
  /\ hist' \in HistType /\ hist'.failed = hist.failed /\ hist'.asked = hist.asked
  /\ hist'.astray = hist.astray
  /\ Commanded(down', q, v, c.inc)
  /\ UNCHANGED <<board, up, eol, mem>>
\* What the host is to know when nothing has failed, x being the board at the command.
ReadGood(x, c, v) ==
  /\ ~x.newaddr => h'.lastaddr = x.addr
  /\ ~hist'.stale => /\ h'.vals = hist'.served
                     /\ h'.rdtbl = IF x.newaddr THEN <<>> ELSE board.rdtbl
  /\ x.addr + v * Step(c.inc) = c.a + h'.cmdrd * Step(c.inc)
  /\ ~hist.astray /\ End.fits /\ End.left = <<>>
LEMMA ReadSentKeeps ==
    ASSUME BusInv, NEW prefix \in Seq(AddressCode), NEW q, q = down \o prefix,
           NEW c \in Calls, c.k = "read", NEW v \in Nat \ {0}, ReadSent(q, c, v),
           LET y == Executed(End, prefix)
           IN  /\ y.tbl = End.tbl /\ y.refs = End.refs /\ y.fits = End.fits
               /\ y.left = End.left,
           hist.failed \subseteq {"read"} => down \in Seq(StillCode) /\ up \in Seq(QuietCode),
           hist.failed = {} => ReadGood(Executed(Now, q), c, v),
           LastTrue'
    PROVE  BusInv'
<1>1. BusType /\ InCall /\ Tables /\ c.inc \in BOOLEAN
  BY CallIs DEF BusInv
<1> DEFINE x == Executed(Now, q)
           s == Command(v, c.inc)
<1>2. /\ q \in Seq(DownCode) /\ (down \in Seq(StillCode) => q \in Seq(StillCode))
      /\ x = Executed(End, prefix) /\ x \in Walker
  BY <1>1, AddressBehind
<1>3. s \in Seq(DownCode) /\ Len(s) = 2 /\ s[1] = [k |-> "rd", v |-> v, inc |-> c.inc]
  BY <1>1, CommandType DEF Command
<1>4. down' = q \o s
  BY DEF ReadSent, Commanded
<1>5. h'.call[1] = c
  BY DEF ReadSent
<1> HIDE DEF s
<1>6. down' \in Seq(DownCode)
  BY <1>2, <1>3, <1>4, ConcatProperties
<1>7. BusType'
  BY <1>1, <1>6 DEF BusType, ReadSent
<1>8. h'.n \in Nat /\ h'.cmdrd \in Nat
  BY <1>7 DEF BusType, HostType
<1>9. InCall'
  BY <1>1, <1>5, <1>8 DEF InCall, ReadSent
<1>10. Now' = Now
  BY DEF Now, ReadSent
<1>11. End' = Executed(x, s)
  <2>1. End' = Executed(Now, q \o s)
    BY <1>4, <1>10 DEF End
  <2>2. Now \in Walker
    BY <1>1, NowType
  <2> HIDE DEF x
  <2> QED BY <1>2, <1>3, <2>1, <2>2, ExecutedIs DEF x
<1> HIDE DEF x
<1>12. /\ End'.addr = x.addr + v * Step(c.inc) /\ ~End'.newaddr /\ End'.left = x.left
       /\ End'.tbl = x.tbl /\ End'.refs = x.refs /\ End'.fits = x.fits
  BY <1>1, <1>2, <1>11, CommandExecuted DEF s
<1>13. x.tbl = End.tbl /\ x.refs = End.refs /\ x.fits = End.fits /\ x.left = End.left
  BY <1>2
<1>14. Tables'
  BY <1>1, <1>12, <1>13 DEF Tables, ReadSent
<1>15. Due'
  <2>1. Len(q) + 1 \in 1 .. Len(down') /\ down'[Len(q) + 1] = s[1]
    <3>1. Len(s) > 0 /\ s \in Seq(DownCode)
      BY <1>3
    <3>2. q \in Seq(DownCode)
      BY <1>2
    <3>3. Len(q) + 1 \in 1 .. Len(q \o s) /\ (q \o s)[Len(q) + 1] = s[1]
      BY <3>1, <3>2, BehindAll
    <3> QED BY <1>4, <3>3
  <2>2. s[1].k = "rd" /\ s[1].v >= h'.cmdrd - h'.n
    <3>1. s[1].k = "rd" /\ s[1].v = v
      BY <1>3
    <3>2. h'.cmdrd - h'.n = v
      BY <1>8 DEF ReadSent
    <3> QED BY <3>1, <3>2
  <2> QED BY <2>1, <2>2 DEF Due
<1>16. hist'.failed = {} => ReadGood(x, c, v)
  BY DEF x, ReadSent
<1>17. InTurn'
  <2> SUFFICES ASSUME hist'.failed \subseteq {"read"} PROVE Reading'
    BY DEF InTurn, ReadSent
  <2>1. q \in Seq(StillCode) /\ up \in Seq(QuietCode)
    BY <1>2 DEF ReadSent
  <2>2. PICK pre \in Seq(StillCode) : pre = q
    BY <2>1
  <2>3. hist'.failed = {} => PendingGood(pre)'
    BY <1>10, <1>16, <2>2 DEF PendingGood, ReadGood, ReadSent, x
  <2>4. h'.cmdrd - h'.n = v /\ h'.n < h'.cmdrd
    BY <1>8 DEF ReadSent
  <2>5. Pending(pre)'
    BY <1>5, <2>1, <2>2, <2>3, <2>4 DEF Pending, ReadSent
  <2> QED BY <2>5 DEF Reading
<1>18. InStep'
  <2> SUFFICES ASSUME hist'.failed = {}
               PROVE  /\ ~hist'.astray /\ End'.fits /\ End'.left = <<>>
                      /\ End'.addr = c.a + h'.cmdrd * Step(c.inc) /\ ~End'.newaddr
    BY <1>5 DEF InStep, Unsent, ReadSent
  <2> QED BY <1>12, <1>13, <1>16 DEF ReadGood, ReadSent
<1> QED BY <1>7, <1>9, <1>14, <1>15, <1>17, <1>18 DEF BusInv

LEMMA BlockIs ==
    ASSUME NEW left \in Nat, left > 0
    PROVE  /\ Smaller(left, ReadBlock) \in Nat \ {0} /\ Smaller(left, ReadBlock) <= left
           /\ Smaller(left, MaxWrLen) \in Nat \ {0} /\ Smaller(left, MaxWrLen) <= left
BY ReachType DEF Smaller

LEMMA NextBlockKeeps ==
    ASSUME BusInv, NextBlock
    PROVE  BusInv'
<1>1. BusType /\ InCall /\ h.pc = "read" /\ h.n = h.cmdrd /\ h.n < h.call[1].len
  BY DEF BusInv, NextBlock
<1>2. PICK c \in Calls : h.call = <<c>> /\ c.k = "read"
  BY <1>1 DEF InCall
<1> DEFINE v == Smaller(c.len - h.cmdrd, ReadBlock)
<1>3. c.len \in Nat /\ h.cmdrd \in Nat /\ h.n \in Nat /\ c.a \in Int /\ c.inc \in BOOLEAN
  BY <1>1, CallIs DEF BusType, HostType
<1>4. v \in Nat \ {0} /\ h.cmdrd + v <= c.len /\ h.cmdrd + v \in Nat
  <2>1. c.len - h.cmdrd \in Nat /\ c.len - h.cmdrd > 0
    BY <1>1, <1>2, <1>3
  <2>2. v \in Nat \ {0} /\ v <= c.len - h.cmdrd
    BY <2>1, BlockIs
  <2> QED BY <1>3, <2>2
<1>5. /\ down' = down \o <<>> \o <<[k |-> "rd", v |-> v, inc |-> c.inc], [k |-> "nl"]>>
      /\ h' = [h EXCEPT !.pc = "read", !.cmdrd = @ + v]
  BY <1>2 DEF NextBlock, ReadCommand
<1> HIDE DEF v
<1>6. UNCHANGED <<board, up, eol, mem, hist>>
  BY DEF NextBlock
<1>7. h \in HostType /\ "read" \in PcSet
  BY <1>1 DEF BusType, PcSet
<1>8. /\ h' \in HostType /\ h'.pc = "read" /\ h'.call = <<c>> /\ h'.cmdrd = h.cmdrd + v
      /\ h'.n = h.n /\ h'.wrtbl = h.wrtbl /\ h'.rdtbl = h.rdtbl /\ h'.rdaddr = h.rdaddr
      /\ h'.lastaddr = h.lastaddr /\ h'.vals = h.vals
  <2>1. h' = [h EXCEPT !.pc = "read", !.cmdrd = h.cmdrd + v]
    BY <1>5
  <2>2. h' \in HostType
    BY <1>4, <1>7, <2>1, HostTypeIs
  <2> QED BY <1>2, <1>7, <2>1, <2>2, HostTypeIs
<1>9. down \o <<>> = down
  BY <1>1, ConcatEmptySeq DEF BusType
<1>10. Commanded(down', down \o <<>>, v, c.inc)
  BY <1>5 DEF Commanded, Command
<1>11. hist \in HistType /\ h.rdaddr = Len(h.rdtbl)
  BY <1>1 DEF BusType, InCall
<1>12. ReadSent(down \o <<>>, c, v)
  BY <1>1, <1>4, <1>6, <1>8, <1>10, <1>11 DEF ReadSent
<1>13. <<>> \in Seq(AddressCode)
  BY EmptySeq
<1>14. End \in Walker /\ Executed(End, <<>>) = End
  BY <1>1, NowType, ExecutedIs
<1>15. hist.failed \subseteq {"read"} =>
         /\ down \in Seq(StillCode) /\ up \in Seq(QuietCode)
         /\ hist.failed = {} =>
              /\ h.lastaddr = End.addr
              /\ ~hist.stale => h.vals = hist.served /\ h.rdtbl = board.rdtbl
  BY <1>1, AllHere DEF BusInv
<1>16. Executed(Now, down \o <<>>) = End
  BY <1>9 DEF End
<1>17. hist.failed = {} => ReadGood(End, c, v)
  <2> SUFFICES ASSUME hist.failed = {} PROVE ReadGood(End, c, v)
    OBVIOUS
  <2>1. /\ ~hist.astray /\ End.fits /\ End.left = <<>>
        /\ End.addr = c.a + h.cmdrd * Step(c.inc) /\ ~End.newaddr
    BY <1>1, <1>2 DEF BusInv, InStep, Unsent
  <2>2. End.addr + v * Step(c.inc) = c.a + h'.cmdrd * Step(c.inc)
    <3>1. CASE c.inc
      BY <1>3, <1>4, <1>8, <2>1, <3>1 DEF Step
    <3>2. CASE ~c.inc
      BY <1>3, <1>4, <1>8, <2>1, <3>2 DEF Step
    <3> QED BY <3>1, <3>2
  <2> QED BY <1>6, <1>8, <1>15, <2>1, <2>2 DEF ReadGood
<1>18. LastTrue'
  BY <1>6 DEF LastTrue, ReadsTrueInStep, Returned, BusInv
<1> DEFINE q == down \o <<>>
<1> HIDE DEF q
<1>19. q = down \o <<>> /\ ReadSent(q, c, v) /\ (hist.failed = {} => ReadGood(Executed(Now, q), c, v))
  BY <1>12, <1>16, <1>17 DEF q
<1> DEFINE p == <<>>
<1> HIDE DEF p
<1>20. p \in Seq(AddressCode) /\ q = down \o p /\ Executed(End, p) = End
  BY <1>13, <1>14, <1>19 DEF p
<1> QED BY <1>2, <1>4, <1>15, <1>18, <1>19, <1>20, ReadSentKeeps

\* A call's address, sent if need be.
LEMMA CallAddress ==
    ASSUME BusInv, h.pc = "idle", NEW c \in Calls
    PROVE  /\ Address(c.a) \in Seq(AddressCode)
           /\ Address(c.a) = <<>> => h.addrset /\ c.a = h.lastaddr
           /\ LET y == Executed(End, Address(c.a))
              IN  /\ y.tbl = End.tbl /\ y.refs = End.refs /\ y.fits = End.fits
                  /\ y.left = End.left
                  /\ Address(c.a) = <<>> => y = End
                  /\ Address(c.a) # <<>> => y.newaddr
                  /\ hist.failed = {} => y.addr = c.a
           /\ hist.failed \subseteq {"read"} => down \in Seq(StillCode) /\ up \in Seq(QuietCode)
           /\ hist.failed = {} =>
                /\ ~hist.astray /\ End.fits /\ End.left = <<>> /\ hist.served = <<>>
                /\ h.addrset => /\ End.addr = h.lastaddr /\ ~End.newaddr
                                /\ ~hist.stale => h.rdtbl = board.rdtbl
<1>1. BusType
  BY DEF BusInv
<1>2. h.addrset \in BOOLEAN /\ h.lastaddr \in Int /\ End \in Walker
  BY <1>1, NowType DEF BusType, HostType
<1>3. c.a \in 0 .. Digit^4 - 1
  BY CallIs
<1> DEFINE s == Address(c.a)
           set == h.addrset
           last == h.lastaddr
<1>4. s = EncodeAddress(set, last, c.a)
  BY DEF Address
<1> HIDE DEF s, set, last
<1>5. set \in BOOLEAN /\ last \in Int
  BY <1>2 DEF set, last
<1> DEFINE e == EncodeAddress(set, last, c.a)
<1> HIDE DEF e
<1>6. e = EncodeAddress(set, last, c.a) /\ e = s
  BY <1>4 DEF e
<1> DEFINE a == c.a
<1> HIDE DEF a
<1>7. /\ e \in Seq(AddressCode)
      /\ e = <<>> => set /\ c.a = last
      /\ \A x \in Walker :
           LET y == Executed(x, e)
           IN  /\ y.tbl = x.tbl /\ y.refs = x.refs /\ y.fits = x.fits /\ y.left = x.left
               /\ e = <<>> => y = x
               /\ e # <<>> => y.newaddr
               /\ (set => x.addr = last) => y.addr = c.a
  <2>1. a \in 0 .. Digit^4 - 1 /\ e = EncodeAddress(set, last, a)
    BY <1>3, <1>6 DEF a
  <2>2. /\ e \in Seq(AddressCode)
        /\ e = <<>> => set /\ a = last
        /\ \A x \in Walker :
             LET y == Executed(x, e)
             IN  /\ y.tbl = x.tbl /\ y.refs = x.refs /\ y.fits = x.fits /\ y.left = x.left
                 /\ e = <<>> => y = x
                 /\ e # <<>> => y.newaddr
                 /\ (set => x.addr = last) => y.addr = a
    BY <1>5, <2>1, AddressReaches
  <2> QED BY <2>2 DEF a
<1>8. /\ hist.failed \subseteq {"read"} => down \in Seq(StillCode) /\ up \in Seq(QuietCode)
      /\ hist.failed = {} =>
           /\ ~hist.astray /\ End.fits /\ End.left = <<>> /\ hist.served = <<>>
           /\ h.addrset => /\ End.addr = h.lastaddr /\ ~End.newaddr
                           /\ ~hist.stale => h.rdtbl = board.rdtbl
  BY DEF BusInv, InTurn, InStep, Unsent
<1>9. LET y == Executed(End, s)
      IN  /\ y.tbl = End.tbl /\ y.refs = End.refs /\ y.fits = End.fits /\ y.left = End.left
          /\ s = <<>> => y = End
          /\ s # <<>> => y.newaddr
          /\ (set => End.addr = last) => y.addr = c.a
  BY <1>2, <1>6, <1>7
<1>10. hist.failed = {} => (set => End.addr = last)
  BY <1>8 DEF set, last
<1> QED BY <1>6, <1>7, <1>8, <1>9, <1>10 DEF s, set, last

\* The host's table, when an address is sent or not.
LEMMA AddressedIs ==
    ASSUME BusType, InCall, NEW a
    PROVE  \E t \in ValSeq :
             /\ t = IF Address(a) = <<>> THEN h.rdtbl ELSE <<>>
             /\ Addressed(a) = [h EXCEPT !.rdtbl = t, !.rdaddr = Len(t)]
<1>1. h \in HostType /\ h.rdaddr = Len(h.rdtbl) /\ h.rdtbl \in ValSeq
  <2>1. h \in HostType /\ h.rdaddr = Len(h.rdtbl)
    BY DEF BusType, InCall
  <2> QED BY <2>1, HostTypeIs
<1>2. CASE Address(a) = <<>>
  <2>1. Addressed(a) = [h EXCEPT !.rdtbl = h.rdtbl, !.rdaddr = Len(h.rdtbl)]
    BY <1>1, <1>2, HostTypeIs DEF Addressed
  <2> QED BY <1>1, <1>2, <2>1
<1>3. CASE Address(a) # <<>>
  <2>1. <<>> \in ValSeq /\ Len(<<>>) = 0
    BY EmptySeq DEF ValSeq
  <2>2. PICK t \in ValSeq : t = <<>>
    BY <2>1
  <2>3. Len(t) = 0
    BY <2>1, <2>2
  <2>4. Addressed(a) = [h EXCEPT !.rdtbl = t, !.rdaddr = Len(t)]
    <3>1. Addressed(a) = [h EXCEPT !.rdaddr = 0, !.rdtbl = t]
      BY <1>3, <2>2 DEF Addressed
    <3>2. [h EXCEPT !.rdaddr = 0, !.rdtbl = t] = [h EXCEPT !.rdtbl = t, !.rdaddr = 0]
      BY <1>1, HostTypeIs
    <3> QED BY <2>3, <3>1, <3>2
  <2> QED BY <1>3, <2>2, <2>4
<1> QED BY <1>2, <1>3

LEMMA ReadCallKeeps ==
    ASSUME BusInv, h.pc = "idle", NEW c \in Calls, c.k = "read", ReadCall(c),
           UNCHANGED <<board, up, eol, mem>>
    PROVE  BusInv'
<1> DEFINE s == Address(c.a)
           v == Smaller(c.len, ReadBlock)
           q == down \o s
<1>1. BusType /\ InCall
  BY DEF BusInv
<1>2. c.len \in Nat \ {0} /\ c.a \in Int /\ c.inc \in BOOLEAN
  BY CallIs
<1>3. v \in Nat \ {0} /\ v <= c.len
  BY <1>2, BlockIs
<1>4. PICK t \in ValSeq : /\ t = IF s = <<>> THEN h.rdtbl ELSE <<>>
                          /\ Addressed(c.a) = [h EXCEPT !.rdtbl = t, !.rdaddr = Len(t)]
  BY <1>1, AddressedIs
<1> DEFINE r == Len(t)
<1>5. r \in Nat
  BY <1>4 DEF ValSeq
<1>6. h \in HostType /\ <<c>> \in CallSet /\ <<>> \in WordSeq /\ "read" \in PcSet /\ 0 \in Nat
  BY <1>1, EmptySeq DEF BusType, CallSet, WordSeq, PcSet
<1> DEFINE o == [Addressed(c.a) EXCEPT !.call = <<c>>, !.vals = <<>>, !.n = 0, !.cmdrd = 0]
<1>7. o = [h EXCEPT !.rdtbl = t, !.rdaddr = r, !.call = <<c>>, !.vals = <<>>, !.n = 0, !.cmdrd = 0]
  BY <1>4
<1>8. /\ ReadCommand(o, s)
      /\ hist' = [hist EXCEPT !.last = <<>>, !.calls = @ + 1, !.stale = @ /\ s = <<>>]
  BY DEF ReadCall
<1> HIDE DEF o, r, s, v, q
<1>9. o.call = <<c>> /\ o.cmdrd = 0
  BY <1>6, <1>7, HostTypeIs
<1>10. /\ down' = down \o s \o <<[k |-> "rd", v |-> v, inc |-> c.inc], [k |-> "nl"]>>
       /\ h' = [o EXCEPT !.pc = "read", !.cmdrd = v]
  <2>1. o.call[1] = c /\ c.len - 0 = c.len
    BY <1>2, <1>9
  <2>2. Smaller(o.call[1].len - o.cmdrd, ReadBlock) = v
    BY <1>9, <2>1 DEF v
  <2> DEFINE n == Smaller(o.call[1].len - o.cmdrd, ReadBlock)
  <2>3. /\ down' = down \o s
                 \o <<[k |-> "rd", v |-> n, inc |-> o.call[1].inc], [k |-> "nl"]>>
        /\ h' = [o EXCEPT !.pc = "read", !.cmdrd = @ + n]
    BY <1>8 DEF ReadCommand
  <2>4. n = v
    BY <2>2
  <2> HIDE DEF n
  <2>5. o.cmdrd + n = v
    BY <1>3, <1>9, <2>4
  <2> QED BY <2>1, <2>3, <2>4, <2>5
<1>11. h' = [h EXCEPT !.rdtbl = t, !.rdaddr = r, !.call = <<c>>, !.vals = <<>>, !.n = 0,
                      !.cmdrd = v, !.pc = "read"]
  BY <1>6, <1>7, <1>10, HostTypeIs
<1>12. h' \in HostType
  BY <1>3, <1>4, <1>5, <1>6, <1>11, HostTypeIs
<1>13. /\ h'.pc = "read" /\ h'.call = <<c>> /\ h'.cmdrd = v /\ h'.n = 0 /\ h'.wrtbl = h.wrtbl
       /\ h'.rdtbl = t /\ h'.rdaddr = r /\ h'.lastaddr = h.lastaddr /\ h'.vals = <<>>
  BY <1>6, <1>11, HostTypeIs
<1>14. /\ hist' \in HistType /\ hist'.failed = hist.failed /\ hist'.asked = hist.asked
       /\ hist'.astray = hist.astray /\ hist'.served = hist.served /\ hist'.last = <<>>
       /\ hist'.stale <=> (hist.stale /\ s = <<>>)
  <2> DEFINE st == (hist.stale /\ s = <<>>)
  <2>1. hist \in HistType /\ <<>> \in LastType /\ st \in BOOLEAN
    BY <1>1 DEF BusType, LastType, HistType
  <2>2. hist.calls + 1 \in Nat
    BY <2>1, HistTypeIs
  <2>3. hist' = [hist EXCEPT !.last = <<>>, !.calls = hist.calls + 1, !.stale = st]
    BY <1>8
  <2> HIDE DEF st
  <2>4. /\ hist' \in HistType /\ hist'.failed = hist.failed /\ hist'.asked = hist.asked
        /\ hist'.astray = hist.astray /\ hist'.served = hist.served /\ hist'.last = <<>>
        /\ hist'.stale = st
    BY <2>1, <2>2, <2>3, HistTypeIs
  <2> QED BY <2>4 DEF st
<1>15. Commanded(down', q, v, c.inc)
  BY <1>10 DEF Commanded, Command, q
<1>16. ReadSent(q, c, v)
  <2>1. h'.cmdrd = h'.n + v /\ h'.cmdrd <= c.len /\ h'.rdaddr = Len(h'.rdtbl)
    BY <1>3, <1>13 DEF r
  <2> QED BY <1>12, <1>13, <1>14, <1>15, <2>1 DEF ReadSent
<1>17. /\ s \in Seq(AddressCode)
       /\ s = <<>> => h.addrset /\ c.a = h.lastaddr
       /\ LET y == Executed(End, s)
          IN  /\ y.tbl = End.tbl /\ y.refs = End.refs /\ y.fits = End.fits
              /\ y.left = End.left
              /\ s = <<>> => y = End
              /\ s # <<>> => y.newaddr
              /\ hist.failed = {} => y.addr = c.a
       /\ hist.failed \subseteq {"read"} => down \in Seq(StillCode) /\ up \in Seq(QuietCode)
       /\ hist.failed = {} =>
            /\ ~hist.astray /\ End.fits /\ End.left = <<>> /\ hist.served = <<>>
            /\ h.addrset => /\ End.addr = h.lastaddr /\ ~End.newaddr
                            /\ ~hist.stale => h.rdtbl = board.rdtbl
  BY CallAddress DEF s
<1> DEFINE x == Executed(Now, q)
<1>18. x = Executed(End, s) /\ q = down \o s
  BY <1>1, <1>17, AddressBehind DEF q
<1> HIDE DEF x
<1>19. hist.failed = {} => ReadGood(x, c, v)
  <2> SUFFICES ASSUME hist.failed = {} PROVE ReadGood(x, c, v)
    OBVIOUS
  <2>1. x.addr = c.a /\ ~hist.astray /\ End.fits /\ End.left = <<>> /\ hist'.served = <<>>
    BY <1>14, <1>17, <1>18
  <2>2. x.addr + v * Step(c.inc) = c.a + h'.cmdrd * Step(c.inc)
    BY <1>13, <2>1
  <2>3. CASE s = <<>>
    BY <1>4, <1>13, <1>14, <1>17, <1>18, <2>1, <2>2, <2>3 DEF ReadGood
  <2>4. CASE s # <<>>
    BY <1>4, <1>13, <1>14, <1>17, <1>18, <2>1, <2>2, <2>4 DEF ReadGood
  <2> QED BY <2>3, <2>4
<1>20. LastTrue'
  BY <1>14 DEF LastTrue, ReadsTrueInStep, Returned
<1>21. hist.failed = {} => ReadGood(Executed(Now, q), c, v)
  BY <1>19 DEF x
<1> QED BY <1>3, <1>16, <1>17, <1>18, <1>20, <1>21, ReadSentKeeps

-----------------------------------------------------------------------------
(***************************************************************************)
(* The host: the words of a write.                                         *)
(***************************************************************************)
\* The words of a write call, and what the board is to do with them.
LEMMA AskedIs ==
    ASSUME NEW c \in Calls, c.k = "write"
    PROVE  /\ Asked(c) \in Seq(Int \X Val) /\ Len(Asked(c)) = c.len
           /\ \A i \in 1 .. c.len : Asked(c)[i] = <<c.a + (i - 1) * Step(c.inc), c.vals[i]>>
<1>1. c.len \in Nat /\ c.a \in Int /\ c.vals \in Seq(Val) /\ c.len = Len(c.vals)
  BY CallIs
<1>2. ASSUME NEW i \in 1 .. c.len
      PROVE  <<c.a + (i - 1) * Step(c.inc), c.vals[i]>> \in Int \X Val
  <2>1. (i - 1) * Step(c.inc) \in Int
    <3>1. Step(c.inc) \in Int /\ i - 1 \in Int
      BY <1>1 DEF Step
    <3> QED BY <3>1
  <2>2. c.vals[i] \in Val
    BY <1>1
  <2> QED BY <1>1, <2>1, <2>2
<1>3. Asked(c) \in [1 .. c.len -> Int \X Val]
  BY <1>2 DEF Asked
<1>4. ASSUME NEW T, NEW n \in Nat, NEW f \in [1 .. n -> T]
      PROVE  f \in Seq(T) /\ Len(f) = n
  OBVIOUS
<1>5. Asked(c) \in Seq(Int \X Val) /\ Len(Asked(c)) = c.len
  BY <1>1, <1>3, <1>4
<1> QED BY <1>5 DEF Asked

LEMMA ChunkIs ==
    ASSUME NEW c \in Calls, c.k = "write", NEW m \in Nat, m < c.len, NEW words,
           words = Chunk(c, c.vals, m)
    PROVE  /\ words \in Seq(Val) /\ Len(words) \in Nat \ {0} /\ m + Len(words) <= c.len
           /\ \A i \in 1 .. Len(words) : words[i] = c.vals[m + i]
<1>1. c.len \in Nat /\ c.vals \in Seq(Val) /\ c.len = Len(c.vals)
  BY CallIs
<1> DEFINE to == Smaller(m + MaxWrLen, c.len)
<1>2. to \in Nat /\ m < to /\ to <= c.len
  BY <1>1, ReachType DEF Smaller
<1>3. words = SubSeq(c.vals, m + 1, to)
  BY DEF Chunk
<1> DEFINE vs == c.vals
<1> HIDE DEF to, vs
<1>4. vs \in Seq(Val) /\ words = SubSeq(vs, m + 1, to) /\ to <= Len(vs)
  BY <1>1, <1>2, <1>3 DEF vs
<1>5. words \in Seq(Val) /\ Len(words) = to - m /\ \A i \in 1 .. to - m : words[i] = vs[m + i]
  BY <1>2, <1>4
<1> QED BY <1>1, <1>2, <1>5 DEF vs

LEMMA RestOfRest ==
    ASSUME NEW S, NEW s \in Seq(S), NEW m \in Nat, NEW k \in Nat, m + k <= Len(s), NEW r,
           r = SubSeq(s, m + 1, Len(s))
    PROVE  /\ r \in Seq(S) /\ Len(r) = Len(s) - m
           /\ \A i \in 1 .. Len(s) - m : r[i] = s[m + i]
           /\ SubSeq(r, k + 1, Len(r)) = SubSeq(s, m + k + 1, Len(s))
<1>1. r \in Seq(S) /\ Len(r) = Len(s) - m /\ \A i \in 1 .. Len(s) - m : r[i] = s[m + i]
  OBVIOUS
<1> DEFINE a == SubSeq(r, k + 1, Len(r))
           b == SubSeq(s, m + k + 1, Len(s))
<1>2. a \in Seq(S) /\ Len(a) = Len(s) - m - k /\ \A i \in 1 .. Len(s) - m - k : a[i] = r[k + i]
  BY <1>1
<1>3. b \in Seq(S) /\ Len(b) = Len(s) - m - k
      /\ \A i \in 1 .. Len(s) - m - k : b[i] = s[m + k + i]
  <2> DEFINE n == m + k
  <2>1. n \in Nat /\ n <= Len(s) /\ b = SubSeq(s, n + 1, Len(s))
    OBVIOUS
  <2> HIDE DEF n, b
  <2>2. b \in Seq(S) /\ Len(b) = Len(s) - n /\ \A i \in 1 .. Len(s) - n : b[i] = s[n + i]
    BY <2>1
  <2>3. Len(s) - n = Len(s) - m - k
    BY DEF n
  <2> QED BY <2>2, <2>3 DEF n
<1>4. \A i \in 1 .. Len(s) - m - k : k + i \in 1 .. Len(s) - m /\ m + (k + i) = m + k + i
  OBVIOUS
<1>5. \A i \in 1 .. Len(s) - m - k : a[i] = b[i]
  BY <1>1, <1>2, <1>3, <1>4
<1> HIDE DEF a, b
<1>6. a = b
  BY <1>2, <1>3, <1>5
<1> QED BY <1>1, <1>6 DEF a, b

LEMMA ChunkExpected ==
    ASSUME NEW c \in Calls, c.k = "write", NEW m \in Nat, m < c.len, NEW words,
           words = Chunk(c, c.vals, m), NEW x \in Walker,
           x.addr = c.a + m * Step(c.inc), x.left = SubSeq(Asked(c), m + 1, c.len)
    PROVE  /\ Expected(x, words, c.inc)
           /\ SubSeq(x.left, Len(words) + 1, Len(x.left)) =
                SubSeq(Asked(c), m + Len(words) + 1, c.len)
<1> DEFINE s == Asked(c)
           k == Len(words)
           r == x.left
<1>1. /\ s \in Seq(Int \X Val) /\ Len(s) = c.len
      /\ \A i \in 1 .. c.len : s[i] = <<c.a + (i - 1) * Step(c.inc), c.vals[i]>>
  BY AskedIs
<1>2. k \in Nat \ {0} /\ m + k <= c.len /\ \A i \in 1 .. k : words[i] = c.vals[m + i]
  BY ChunkIs
<1>3. c.len \in Nat /\ c.a \in Int
  BY CallIs
<1>4. r = SubSeq(s, m + 1, Len(s))
  BY <1>1
<1> HIDE DEF s, k, r
<1>5. /\ Len(r) = Len(s) - m
      /\ \A i \in 1 .. Len(s) - m : r[i] = s[m + i]
      /\ SubSeq(r, k + 1, Len(r)) = SubSeq(s, m + k + 1, Len(s))
  <2>1. m + k <= Len(s) /\ k \in Nat /\ s \in Seq(Int \X Val)
    BY <1>1, <1>2
  <2> QED BY <1>4, <2>1, RestOfRest
<1>6. ASSUME NEW i \in 1 .. k
      PROVE  r[i] = <<x.addr + (i - 1) * Step(c.inc), words[i]>>
  <2>1. m + i \in 1 .. c.len /\ i \in 1 .. Len(s) - m
    <3> DEFINE l == c.len
    <3>1. l \in Nat /\ m + k <= l /\ Len(s) = l /\ k \in Nat
      BY <1>1, <1>2, <1>3
    <3> HIDE DEF l
    <3> QED BY <3>1 DEF l
  <2>2. r[i] = <<c.a + (m + i - 1) * Step(c.inc), c.vals[m + i]>>
    <3> DEFINE j == m + i
    <3>1. j \in 1 .. c.len /\ r[i] = s[j]
      BY <1>5, <2>1
    <3> HIDE DEF j
    <3>2. s[j] = <<c.a + (j - 1) * Step(c.inc), c.vals[j]>>
      BY <1>1, <3>1
    <3> QED BY <3>1, <3>2 DEF j
  <2>3. c.a + (m + i - 1) * Step(c.inc) = x.addr + (i - 1) * Step(c.inc)
    <3>1. CASE c.inc
      BY <1>3, <3>1 DEF Step
    <3>2. CASE ~c.inc
      BY <1>3, <3>2 DEF Step
    <3> QED BY <3>1, <3>2
  <2> QED BY <1>2, <2>2, <2>3
<1>7. k <= Len(r)
  BY <1>1, <1>2, <1>3, <1>5
<1> QED BY <1>1, <1>5, <1>6, <1>7 DEF Expected, k, r, s

(* The words of a chunk are sent, those of call c behind its first m.      *)
EndOfLine == <<[k |-> "nl"]>>
Chunked(c, m, words, e) ==
  words = Chunk(c, c.vals, m) /\ e = EncodeWords(h.wrtbl, words, c.inc)
WordsSent(c, m, words, e, prefix, tail) ==
  /\ h' \in HostType /\ h'.pc = "drain" /\ h'.call = <<c>> /\ h'.vals = c.vals
  /\ h'.n = m + Len(words) /\ h'.wrtbl = e.tbl /\ h'.rdaddr = Len(h'.rdtbl)
  /\ hist' \in HistType /\ hist'.failed = hist.failed
  /\ down' = ((down \o prefix) \o e.codes) \o tail
  /\ UNCHANGED <<board, up, eol, mem>>
\* What is to be true when nothing has failed, x being the board before the words.
WordsGood(x, c, m, words) ==
  /\ x.addr = c.a + m * Step(c.inc) /\ x.left = SubSeq(Asked(c), m + 1, c.len) /\ x.fits
  /\ ~hist'.astray /\ hist'.served = <<>>
  /\ h'.addrset /\ h'.lastaddr = c.a + (m + Len(words)) * Step(c.inc)
  /\ ~hist'.stale => h'.rdtbl = board.rdtbl

LEMMA StillSent ==
    ASSUME NEW a \in Seq(DownCode), NEW b \in Seq(AddressCode), NEW c \in Seq(WriteCode),
           NEW d, d \in {<<>>, EndOfLine}
    PROVE  /\ ((a \o b) \o c) \o d \in Seq(DownCode)
           /\ a \in Seq(StillCode) => ((a \o b) \o c) \o d \in Seq(StillCode)
           /\ a \o b \in Seq(DownCode) /\ c \in Seq(DownCode) /\ d \in Seq(DownCode)
<1>1. /\ b \in Seq(DownCode) /\ b \in Seq(StillCode) /\ c \in Seq(DownCode) /\ c \in Seq(StillCode)
  BY CodeSets, SeqMonotonic DEF StillCode
<1>2. d \in Seq(StillCode) /\ d \in Seq(DownCode)
  <2>1. <<>> \in Seq(StillCode) /\ <<>> \in Seq(DownCode)
    BY EmptySeq
  <2>2. EndOfLine \in Seq(StillCode)
    BY NlStill DEF EndOfLine
  <2>3. EndOfLine \in Seq(DownCode)
    BY <2>2, CodeSets, SeqMonotonic
  <2> QED BY <2>1, <2>2, <2>3
<1> QED BY <1>1, <1>2, ConcatProperties

LEMMA TailExecuted ==
    ASSUME NEW x \in Walker, NEW d, d \in {<<>>, EndOfLine}
    PROVE  Executed(x, d) = x
<1>1. CASE d = <<>>
  BY <1>1, ExecutedIs
<1>2. CASE d = EndOfLine
  <2> DEFINE nl == [k |-> "nl"]
  <2>1. nl \in DownCode /\ nl.k = "nl"
    BY CodeSets
  <2>2. d = <<nl>>
    BY <1>2 DEF EndOfLine
  <2> HIDE DEF nl
  <2>3. Executed(x, d) = Executes(x, nl)
    BY <2>1, <2>2, ExecutedIs
  <2> QED BY <2>1, <2>3, ExecutesParts
<1> QED BY <1>1, <1>2

LEMMA WordsKeep ==
    ASSUME BusInv, NEW prefix \in Seq(AddressCode), NEW tail, tail \in {<<>>, EndOfLine},
           NEW c \in Calls, c.k = "write", NEW m \in Nat, m < c.len, NEW words, NEW e,
           Chunked(c, m, words, e), WordsSent(c, m, words, e, prefix, tail),
           NEW x \in Walker, Now' \in Walker, x = Executed(Now', down \o prefix),
           x.tbl = End.tbl, x.refs = End.refs,
           hist.failed \subseteq {"read"} => down \in Seq(StillCode) /\ up \in Seq(QuietCode),
           hist.failed = {} => WordsGood(x, c, m, words),
           LastTrue'
    PROVE  BusInv'
<1>1. BusType /\ InCall /\ Tables
  BY DEF BusInv
<1>2. h.wrtbl \in Table /\ c.inc \in BOOLEAN /\ c.len \in Nat /\ c.a \in Int
  BY <1>1, CallIs DEF BusType, HostType
<1>3. words \in Seq(Val) /\ Len(words) \in Nat \ {0} /\ m + Len(words) <= c.len
  BY ChunkIs DEF Chunked
<1>4. e \in Sending
  BY <1>2, <1>3, EncodeFacts DEF Chunked
<1>5. e.codes \in Seq(WriteCode) /\ e.tbl \in Table
  BY <1>4 DEF Sending
<1> DEFINE s == e.codes
<1>6. /\ down' \in Seq(DownCode)
      /\ down \in Seq(StillCode) => down' \in Seq(StillCode)
      /\ down \o prefix \in Seq(DownCode) /\ s \in Seq(DownCode) /\ tail \in Seq(DownCode)
  BY <1>1, <1>5, StillSent DEF BusType, WordsSent
<1>7. BusType'
  BY <1>1, <1>6 DEF BusType, WordsSent
<1>8. h'.call[1] = c
  BY DEF WordsSent
<1>9. InCall'
  BY <1>1, <1>3, <1>8 DEF InCall, WordsSent
<1> DEFINE y == Executed(x, s)
<1>10. y \in Walker
  BY <1>6, ExecutedIs
<1>11. End' = y
  <2> DEFINE q == down \o prefix
             w == Now'
  <2>1. End' = Executed(w, (q \o s) \o tail)
    BY DEF End, WordsSent
  <2> HIDE DEF q, s, w
  <2>2. q \in Seq(DownCode) /\ s \in Seq(DownCode) /\ w \in Walker /\ x = Executed(w, q)
    BY <1>6 DEF q, s, w
  <2>3. q \o s \in Seq(DownCode)
    BY <2>2, ConcatProperties
  <2>4. Executed(w, q \o s) = Executed(x, s)
    BY <2>2, ExecutedIs
  <2> DEFINE qs == q \o s
  <2> HIDE DEF qs
  <2>5. Executed(w, qs \o tail) = Executed(Executed(w, qs), tail)
    BY <1>6, <2>2, <2>3, ExecutedIs DEF qs
  <2>6. Executed(w, qs) = y
    BY <2>4 DEF qs, s
  <2>7. Executed(y, tail) = y
    <3> HIDE DEF y
    <3> QED BY <1>10, TailExecuted
  <2> QED BY <2>1, <2>5, <2>6, <2>7 DEF qs
<1> HIDE DEF y
<1>12. Landed(x, e, words, c.inc)
  <2>1. AsFarBack(h.wrtbl, x.tbl)
    BY <1>1 DEF Tables
  <2>2. Landed(x, EncodeWords(h.wrtbl, words, c.inc), words, c.inc)
    BY <1>2, <1>3, <2>1, WordsLand
  <2> QED BY <2>2 DEF Chunked
<1>13. /\ AsFarBack(e.tbl, y.tbl) /\ y.refs = x.refs
       /\ y.addr = x.addr + Len(words) * Step(c.inc) /\ ~y.newaddr
       /\ Expected(x, words, c.inc) =>
            /\ y.fits = x.fits
            /\ y.left = SubSeq(x.left, Len(words) + 1, Len(x.left))
  BY <1>3, <1>12 DEF Landed, y
<1>14. Tables'
  BY <1>1, <1>11, <1>13 DEF Tables, WordsSent
<1>15. Due'
  BY DEF Due, WordsSent
<1>16. InTurn'
  BY <1>6 DEF InTurn, WordsSent
<1>17. InStep'
  <2> SUFFICES ASSUME hist'.failed = {} PROVE InStep'
    BY DEF InStep
  <2>1. WordsGood(x, c, m, words)
    BY DEF WordsSent
  <2>2. /\ Expected(x, words, c.inc)
        /\ SubSeq(x.left, Len(words) + 1, Len(x.left)) =
             SubSeq(Asked(c), m + Len(words) + 1, c.len)
    BY <2>1, ChunkExpected DEF WordsGood, Chunked
  <2>3. y.fits /\ y.left = Unsent'
    BY <1>8, <1>13, <2>1, <2>2 DEF Unsent, WordsGood, WordsSent
  <2>4. y.addr = c.a + (m + Len(words)) * Step(c.inc)
    <3> DEFINE k == Len(words)
    <3>1. k \in Nat /\ y.addr = x.addr + k * Step(c.inc) /\ x.addr = c.a + m * Step(c.inc)
      BY <1>3, <1>13, <2>1 DEF WordsGood
    <3> HIDE DEF k
    <3>2. y.addr = c.a + (m + k) * Step(c.inc)
      <4>1. CASE c.inc
        BY <1>2, <3>1, <4>1 DEF Step
      <4>2. CASE ~c.inc
        BY <1>2, <3>1, <4>2 DEF Step
      <4> QED BY <4>1, <4>2
    <3> QED BY <3>2 DEF k
  <2>5. h'.lastaddr = y.addr /\ h'.lastaddr = c.a + h'.n * Step(c.inc)
    BY <2>1, <2>4 DEF WordsGood, WordsSent
  <2> QED BY <1>8, <1>11, <1>13, <2>1, <2>3, <2>5 DEF InStep, WordsGood, WordsSent
<1> QED BY <1>7, <1>9, <1>14, <1>15, <1>16, <1>17 DEF BusInv

\* What writev() leaves in the host.
WrittenHost(o, c, m, words, e, prefix, tail) ==
  /\ tail \in {<<>>, EndOfLine}
  /\ down' = ((down \o prefix) \o e.codes) \o tail
  /\ \E i \in IdleSet :
       h' = [o EXCEPT !.pc = "drain", !.wrtbl = e.tbl, !.n = m + Len(words), !.idles = i,
                      !.lastaddr = @ + Len(words) * Step(c.inc)]
LEMMA WrittenIs ==
    ASSUME NEW o, o.wrtbl = h.wrtbl, NEW c, NEW m, NEW prefix, Written(o, c, c.vals, m, prefix)
    PROVE  \E words, e, tail : Chunked(c, m, words, e) /\ WrittenHost(o, c, m, words, e, prefix, tail)
<1> DEFINE words == Chunk(c, c.vals, m)
           e == EncodeWords(o.wrtbl, words, c.inc)
           tail == IF m + Len(words) = c.len THEN <<[k |-> "nl"]>> ELSE <<>>
           i == IF tail = <<>> THEN 1 ELSE 2
<1>1. /\ down' = ((down \o prefix) \o e.codes) \o tail
      /\ h' = [o EXCEPT !.pc = "drain", !.wrtbl = e.tbl, !.n = m + Len(words), !.idles = i,
                        !.lastaddr = @ + Len(words) * Step(c.inc)]
  BY DEF Written
<1>2. tail \in {<<>>, EndOfLine} /\ i \in IdleSet
  BY DEF EndOfLine, IdleSet
<1>3. Chunked(c, m, words, e)
  BY DEF Chunked
<1> HIDE DEF words, e, tail, i
<1>4. WrittenHost(o, c, m, words, e, prefix, tail)
  BY <1>1, <1>2 DEF WrittenHost
<1> QED BY <1>3, <1>4

LEMMA WrittenType ==
    ASSUME NEW o \in HostType, o.wrtbl = h.wrtbl, BusType, NEW c \in Calls, c.k = "write",
           NEW m \in Nat, m < c.len, NEW words, NEW e, NEW prefix, NEW tail,
           Chunked(c, m, words, e), WrittenHost(o, c, m, words, e, prefix, tail)
    PROVE  /\ h' \in HostType /\ h'.pc = "drain" /\ h'.call = o.call /\ h'.vals = o.vals
           /\ h'.n = m + Len(words) /\ h'.wrtbl = e.tbl /\ h'.rdtbl = o.rdtbl
           /\ h'.rdaddr = o.rdaddr /\ h'.addrset = o.addrset
           /\ h'.lastaddr = o.lastaddr + Len(words) * Step(c.inc)
<1>1. h.wrtbl \in Table /\ c.inc \in BOOLEAN /\ o.lastaddr \in Int
  BY CallIs, HostTypeIs DEF BusType
<1>2. words \in Seq(Val) /\ Len(words) \in Nat \ {0}
  BY ChunkIs DEF Chunked
<1>3. e.tbl \in Table
  BY <1>1, <1>2, EncodeFacts DEF Chunked, Sending
<1> DEFINE l == o.lastaddr + Len(words) * Step(c.inc)
           n == m + Len(words)
           t == e.tbl
<1>4. l \in Int /\ n \in Nat /\ t \in Table
  <2>1. Step(c.inc) \in Int
    BY DEF Step
  <2> QED BY <1>1, <1>2, <1>3, <2>1
<1>5. PICK i \in IdleSet : h' = [o EXCEPT !.pc = "drain", !.wrtbl = t, !.n = n, !.idles = i,
                                          !.lastaddr = l]
  BY DEF WrittenHost
<1>6. "drain" \in PcSet
  BY DEF PcSet
<1> HIDE DEF l, n, t
<1>7. h' \in HostType
  BY <1>4, <1>5, <1>6, HostTypeIs
<1>8. /\ h'.pc = "drain" /\ h'.call = o.call /\ h'.vals = o.vals
      /\ h'.n = n /\ h'.wrtbl = t /\ h'.rdtbl = o.rdtbl
      /\ h'.rdaddr = o.rdaddr /\ h'.addrset = o.addrset /\ h'.lastaddr = l
  BY <1>5, HostTypeIs
<1> QED BY <1>7, <1>8 DEF l, n, t

LEMMA NextChunkKeeps ==
    ASSUME BusInv, NextChunk
    PROVE  BusInv'
<1>1. BusType /\ InCall /\ h.pc = "drain" /\ h.n < h.call[1].len
      /\ Written(h, h.call[1], h.vals, h.n, <<>>) /\ UNCHANGED <<board, up, eol, mem, hist>>
  BY DEF BusInv, NextChunk
<1>2. PICK c \in Calls : h.call = <<c>> /\ c.k = "write" /\ h.vals = c.vals
  BY <1>1 DEF InCall
<1>3. PICK m \in Nat : m = h.n
  BY <1>1 DEF BusType, HostType
<1>4. PICK p \in Seq(AddressCode) : p = <<>>
  BY EmptySeq
<1>5. Written(h, c, c.vals, m, p) /\ m < c.len
  BY <1>1, <1>2, <1>3, <1>4
<1>6. PICK words, e, tail : Chunked(c, m, words, e) /\ WrittenHost(h, c, m, words, e, p, tail)
  BY <1>5, WrittenIs
<1>7. h \in HostType /\ hist \in HistType /\ h.rdaddr = Len(h.rdtbl)
  BY <1>1 DEF BusType, InCall
<1>8. /\ h' \in HostType /\ h'.pc = "drain" /\ h'.call = h.call /\ h'.vals = h.vals
      /\ h'.n = m + Len(words) /\ h'.wrtbl = e.tbl /\ h'.rdtbl = h.rdtbl
      /\ h'.rdaddr = h.rdaddr /\ h'.addrset = h.addrset
      /\ h'.lastaddr = h.lastaddr + Len(words) * Step(c.inc)
  BY <1>1, <1>2, <1>5, <1>6, <1>7, WrittenType
<1>9. WordsSent(c, m, words, e, p, tail) /\ tail \in {<<>>, EndOfLine}
  BY <1>1, <1>2, <1>6, <1>7, <1>8 DEF WordsSent, WrittenHost
<1>10. Now' = Now /\ Now \in Walker /\ End \in Walker /\ down \o p = down
  BY <1>1, <1>4, NowType, ConcatEmptySeq DEF Now, BusType
<1>11. PICK x \in Walker : x = End
  BY <1>10
<1>12. x = Executed(Now', down \o p)
  BY <1>10, <1>11 DEF End
<1>13. hist.failed \subseteq {"read"} => down \in Seq(StillCode) /\ up \in Seq(QuietCode)
  BY <1>1 DEF BusInv, InTurn
<1>14. hist.failed = {} => WordsGood(x, c, m, words)
  <2> SUFFICES ASSUME hist.failed = {} PROVE WordsGood(x, c, m, words)
    OBVIOUS
  <2>1. /\ ~hist.astray /\ x.fits /\ x.left = SubSeq(Asked(c), m + 1, c.len)
        /\ hist.served = <<>> /\ h.addrset /\ x.addr = h.lastaddr
        /\ ~hist.stale => h.rdtbl = board.rdtbl
        /\ h.lastaddr = c.a + m * Step(c.inc)
    BY <1>1, <1>2, <1>3, <1>11 DEF BusInv, InStep, Unsent
  <2>2. h'.lastaddr = c.a + (m + Len(words)) * Step(c.inc)
    <3> DEFINE k == Len(words)
    <3>1. k \in Nat /\ h'.lastaddr = h.lastaddr + k * Step(c.inc) /\ c.a \in Int
      BY <1>2, <1>5, <1>6, <1>8, ChunkIs, CallIs DEF Chunked
    <3> HIDE DEF k
    <3>2. h'.lastaddr = c.a + (m + k) * Step(c.inc)
      <4>1. CASE c.inc
        BY <2>1, <3>1, <4>1 DEF Step
      <4>2. CASE ~c.inc
        BY <2>1, <3>1, <4>2 DEF Step
      <4> QED BY <4>1, <4>2
    <3> QED BY <3>2 DEF k
  <2> QED BY <1>1, <1>8, <2>1, <2>2 DEF WordsGood
<1>15. LastTrue'
  BY <1>1 DEF LastTrue, ReadsTrueInStep, Returned, BusInv
<1>16. x.tbl = End.tbl /\ x.refs = End.refs /\ Now' \in Walker
  BY <1>10, <1>11
<1> QED BY <1>2, <1>5, <1>6, <1>9, <1>12, <1>13, <1>14, <1>15, <1>16, WordsKeep

LEMMA WriteCallKeeps ==
    ASSUME BusInv, h.pc = "idle", NEW c \in Calls, c.k = "write", WriteCall(c, c.vals),
           UNCHANGED <<board, up, eol, mem>>
    PROVE  BusInv'
<1> DEFINE s == Address(c.a)
           o == [Addressed(c.a) EXCEPT !.call = <<c>>, !.vals = c.vals, !.lastaddr = c.a,
                                       !.addrset = TRUE]
           asked == hist.asked \o Asked(c)
           st == (hist.stale \/ s # <<>>)
<1>1. BusType /\ InCall
  BY DEF BusInv
<1>2. c.len \in Nat /\ c.len > 0 /\ c.a \in Int /\ c.inc \in BOOLEAN /\ c.vals \in WordSeq
  <2>1. c.vals \in Seq(Val) /\ Val \subseteq AnyWord
    BY CallIs DEF AnyWord
  <2>2. c.vals \in Seq(AnyWord)
    BY <2>1, SeqMonotonic
  <2> QED BY <2>2, CallIs DEF WordSeq
<1>3. PICK t \in ValSeq : /\ t = IF s = <<>> THEN h.rdtbl ELSE <<>>
                          /\ Addressed(c.a) = [h EXCEPT !.rdtbl = t, !.rdaddr = Len(t)]
  BY <1>1, AddressedIs
<1> DEFINE r == Len(t)
<1>4. r \in Nat
  BY <1>3 DEF ValSeq
<1>5. o = [h EXCEPT !.rdtbl = t, !.rdaddr = r, !.call = <<c>>, !.vals = c.vals,
                    !.lastaddr = c.a, !.addrset = TRUE]
  BY <1>3
<1>6. Written(o, c, c.vals, 0, s)
  BY DEF WriteCall
<1>7. hist' = [hist EXCEPT !.asked = asked, !.stale = st, !.calls = @ + 1, !.last = <<>>]
  BY DEF WriteCall, Asked
<1> HIDE DEF o, r, s, asked, st
<1>8. h \in HostType /\ <<c>> \in CallSet
  BY <1>1 DEF BusType, CallSet
<1>9. o \in HostType
  BY <1>2, <1>3, <1>4, <1>5, <1>8, HostTypeIs
<1>10. /\ o.call = <<c>> /\ o.vals = c.vals /\ o.wrtbl = h.wrtbl /\ o.rdtbl = t
       /\ o.rdaddr = r /\ o.addrset = TRUE /\ o.lastaddr = c.a
  BY <1>5, <1>8, HostTypeIs
<1>11. PICK m \in Nat : m = 0
  OBVIOUS
<1>12. PICK words, e, tail : Chunked(c, m, words, e) /\ WrittenHost(o, c, m, words, e, s, tail)
  BY <1>6, <1>10, <1>11, WrittenIs
<1>13. m < c.len
  BY <1>2, <1>11
<1>14. /\ h' \in HostType /\ h'.pc = "drain" /\ h'.call = o.call /\ h'.vals = o.vals
       /\ h'.n = m + Len(words) /\ h'.wrtbl = e.tbl /\ h'.rdtbl = o.rdtbl
       /\ h'.rdaddr = o.rdaddr /\ h'.addrset = o.addrset
       /\ h'.lastaddr = o.lastaddr + Len(words) * Step(c.inc)
  BY <1>1, <1>9, <1>10, <1>12, <1>13, WrittenType
<1>15. /\ hist' \in HistType /\ hist'.failed = hist.failed /\ hist'.asked = asked
       /\ hist'.astray = hist.astray /\ hist'.served = hist.served /\ hist'.last = <<>>
       /\ hist'.stale <=> (hist.stale \/ s # <<>>)
  <2>1. hist \in HistType /\ <<>> \in LastType /\ st \in BOOLEAN
    BY <1>1 DEF BusType, LastType, HistType, st
  <2>2. hist.calls + 1 \in Nat /\ hist.asked \in AskedSeq
    BY <2>1, HistTypeIs
  <2>3. asked \in AskedSeq
    BY <2>2, AskedIs, ConcatProperties DEF AskedSeq, asked
  <2>4. hist' = [hist EXCEPT !.asked = asked, !.stale = st, !.calls = hist.calls + 1,
                             !.last = <<>>]
    BY <1>7
  <2>5. /\ hist' \in HistType /\ hist'.failed = hist.failed /\ hist'.asked = asked
        /\ hist'.astray = hist.astray /\ hist'.served = hist.served /\ hist'.last = <<>>
        /\ hist'.stale = st
    BY <2>1, <2>2, <2>3, <2>4, HistTypeIs
  <2> QED BY <2>5 DEF st
<1>16. WordsSent(c, m, words, e, s, tail) /\ tail \in {<<>>, EndOfLine}
  <2>1. h'.rdaddr = Len(h'.rdtbl)
    BY <1>10, <1>14 DEF r
  <2> QED BY <1>10, <1>12, <1>14, <1>15, <2>1 DEF WordsSent, WrittenHost
<1>17. /\ s \in Seq(AddressCode)
       /\ s = <<>> => h.addrset /\ c.a = h.lastaddr
       /\ LET y == Executed(End, s)
          IN  /\ y.tbl = End.tbl /\ y.refs = End.refs /\ y.fits = End.fits
              /\ y.left = End.left
              /\ s = <<>> => y = End
              /\ s # <<>> => y.newaddr
              /\ hist.failed = {} => y.addr = c.a
       /\ hist.failed \subseteq {"read"} => down \in Seq(StillCode) /\ up \in Seq(QuietCode)
       /\ hist.failed = {} =>
            /\ ~hist.astray /\ End.fits /\ End.left = <<>> /\ hist.served = <<>>
            /\ h.addrset => /\ End.addr = h.lastaddr /\ ~End.newaddr
                            /\ ~hist.stale => h.rdtbl = board.rdtbl
  BY CallAddress DEF s
<1> DEFINE new == Asked(c)
           w == AlsoAsked(Now, new)
           q == down \o s
<1>18. new \in Seq(Int \X Val) /\ Len(new) = c.len
  BY AskedIs
<1> HIDE DEF new
<1>19. Now \in Walker /\ w \in Walker /\ w.tbl = Now.tbl /\ w.refs = Now.refs
  BY <1>1, <1>18, NowType, AlsoAskedType
<1>20. Now' = w
  <2> DEFINE was == hist.asked
  <2> HIDE DEF was
  <2>1. Now' = [addr |-> board.addr, newaddr |-> board.newaddr, left |-> asked,
                tbl |-> board.wrtbl, refs |-> TRUE, fits |-> TRUE]
    BY <1>15 DEF Now
  <2>2. Now = [addr |-> board.addr, newaddr |-> board.newaddr, left |-> was,
               tbl |-> board.wrtbl, refs |-> TRUE, fits |-> TRUE]
    BY DEF Now, was
  <2>3. w = [addr |-> board.addr, newaddr |-> board.newaddr, left |-> was \o new,
             tbl |-> board.wrtbl, refs |-> TRUE, fits |-> TRUE]
    <3> DEFINE n == Now
    <3>1. n = [addr |-> board.addr, newaddr |-> board.newaddr, left |-> was,
               tbl |-> board.wrtbl, refs |-> TRUE, fits |-> TRUE]
      BY <2>2
    <3>2. w = [n EXCEPT !.left = n.left \o new]
      BY DEF w, AlsoAsked
    <3> HIDE DEF n
    <3>3. n.left = was
      BY <3>1
    <3>4. w = [n EXCEPT !.left = was \o new]
      BY <3>2, <3>3
    <3> QED BY <3>1, <3>4
  <2>4. asked = was \o new
    BY DEF asked, new, was
  <2> QED BY <2>1, <2>3, <2>4
<1>21. q \in Seq(DownCode) /\ Executed(Now, q) = Executed(End, s) /\ Executed(Now, q) \in Walker
  BY <1>1, <1>17, AddressBehind
<1> HIDE DEF w, q
<1>22. PICK x \in Walker : x = Executed(w, q)
  BY <1>19, <1>21, ExecutedIs
<1>23. x.tbl = End.tbl /\ x.refs = End.refs
  <2>1. x.tbl = Executed(Now, q).tbl /\ x.refs = Executed(Now, q).refs
    BY <1>19, <1>21, <1>22, ExecutedTable
  <2> QED BY <1>17, <1>21, <2>1
<1>24. hist.failed = {} => WordsGood(x, c, m, words)
  <2> SUFFICES ASSUME hist.failed = {} PROVE WordsGood(x, c, m, words)
    OBVIOUS
  <2> DEFINE y == Executed(Now, q)
  <2>1. y.fits /\ y.left = <<>> /\ y.addr = c.a /\ (s = <<>> => y = End)
    BY <1>17, <1>21
  <2>2. x = AlsoAsked(y, new)
    BY <1>18, <1>19, <1>21, <1>22, <2>1, ExecutedMore DEF w
  <2>3. y \in Walker
    BY <1>21
  <2> HIDE DEF y
  <2>4. x.left = y.left \o new /\ x.addr = c.a /\ x.fits
    BY <1>18, <2>1, <2>2, <2>3, AlsoAskedType
  <2>5. x.left = new
    BY <1>18, <2>1, <2>4, ConcatEmptySeq
  <2>6. x.left = SubSeq(new, m + 1, c.len)
    BY <1>11, <1>18, <2>5
  <2>7. x.addr = c.a + m * Step(c.inc)
    <3>1. Step(c.inc) \in Int
      BY DEF Step
    <3> QED BY <1>2, <1>11, <2>4, <3>1
  <2>8. h'.lastaddr = c.a + (m + Len(words)) * Step(c.inc)
    <3>1. m + Len(words) = Len(words)
      BY <1>11, <1>12, <1>13, ChunkIs DEF Chunked
    <3> QED BY <1>10, <1>14, <3>1
  <2>9. ~hist'.stale => h'.rdtbl = board.rdtbl
    BY <1>3, <1>10, <1>14, <1>15, <1>17
  <2> QED BY <1>10, <1>14, <1>15, <1>17, <2>4, <2>6, <2>7, <2>8, <2>9 DEF WordsGood, new
<1>25. LastTrue'
  BY <1>15 DEF LastTrue, ReadsTrueInStep, Returned
<1>26. x = Executed(Now', down \o s) /\ Now' \in Walker
  BY <1>19, <1>20, <1>22 DEF q
<1> QED BY <1>12, <1>13, <1>16, <1>17, <1>23, <1>24, <1>25, <1>26, WordsKeep

-----------------------------------------------------------------------------
(***************************************************************************)
(* What holds of HostBus.                                                  *)
(***************************************************************************)
LEMMA CallKeeps ==
    ASSUME BusInv, Call
    PROVE  BusInv'
<1>1. h.pc = "idle" /\ UNCHANGED <<board, up, eol, mem>>
  BY DEF Call
<1>2. PICK c \in Calls : \/ c.k = "read" /\ ReadCall(c)
                         \/ c.k = "write" /\ WriteCall(c, c.vals)
                         \/ c.k = "wait" /\ WaitCall(c)
  BY DEF Call
<1> QED BY <1>1, <1>2, ReadCallKeeps, WriteCallKeeps, WaitCallKeeps

LEMMA StandsKeep ==
    ASSUME BusInv, UNCHANGED vars
    PROVE  BusInv'
<1>1. UNCHANGED <<h, down, board, up, eol, mem, hist>>
  BY DEF vars
<1>2. Now' = Now /\ End' = End
  BY <1>1, BoardStands
<1>3. BusType' /\ InCall' /\ Tables' /\ Due' /\ LastTrue'
  <2>1. BusType' /\ InCall' /\ LastTrue'
    BY <1>1 DEF BusInv, BusType, InCall, LastTrue, ReadsTrueInStep, Returned
  <2>2. Tables'
    BY <1>1, <1>2 DEF BusInv, Tables
  <2>3. HostNow' = HostNow
    BY <1>1 DEF HostNow
  <2>4. Due'
    BY <1>1, <2>3 DEF BusInv, Due
  <2> QED BY <2>1, <2>2, <2>4
<1>4. InTurn'
  <2>1. \A pre \in Seq(StillCode) : Pending(pre) => Pending(pre)'
    BY <1>1, <1>2 DEF Pending, PendingGood
  <2>2. \A lead \in Seq(CalmCode), rest \in Seq(QuietCode) :
          (Failing(lead, rest) => Failing(lead, rest)') /\ (Coming(lead, rest) => Coming(lead, rest)')
    BY <1>1, <1>2 DEF Failing, Coming, ComingGood, HostNow
  <2>3. Reading => Reading'
    BY <2>1, <2>2 DEF Reading
  <2> QED BY <1>1, <2>3 DEF BusInv, InTurn
<1>5. InStep'
  BY <1>1, <1>2 DEF BusInv, InStep, Unsent
<1> QED BY <1>3, <1>4, <1>5 DEF BusInv

\* The bus keeps its invariant.
LEMMA BusStep ==
    ASSUME BusInv, [Next]_vars
    PROVE  BusInv'
<1>1. CASE Call
  BY <1>1, CallKeeps
<1>2. CASE Restart
  BY <1>2, RestartKeeps
<1>3. CASE NextChunk
  BY <1>3, NextChunkKeeps
<1>4. CASE NextBlock
  BY <1>4, NextBlockKeeps
<1>5. CASE ReadWord
  BY <1>5, ReadWordKeeps
<1>6. CASE ReadDone
  BY <1>6, ReadDoneKeeps
<1>7. CASE ReadIdle
  BY <1>7, ReadIdleKeeps
<1>8. CASE WriteDone
  BY <1>8, WriteDoneKeeps
<1>9. CASE Wait
  BY <1>9, WaitKeeps
<1>10. CASE Exec
  BY <1>10, ExecKeeps
<1>11. CASE Interrupt
  BY <1>11, InterruptKeeps
<1>12. CASE LineEnd
  BY <1>12, LineEndKeeps
<1>13. CASE UNCHANGED vars
  BY <1>13, StandsKeep
<1> QED BY <1>1, <1>2, <1>3, <1>4, <1>5, <1>6, <1>7, <1>8, <1>9, <1>10, <1>11, <1>12, <1>13
        DEF Next, Host

\* What it says of the properties that the runs check.
LEMMA BusTells ==
    ASSUME BusInv
    PROVE  /\ ReadsTrueInStep /\ WritesLand /\ AddressInStep /\ NoExit
           /\ OneCharacterEach /\ NeverWaitsInVain /\ TypeInv
<1>1. BusType /\ InCall /\ Due /\ InTurn /\ InStep /\ LastTrue
  BY DEF BusInv
<1>2. ReadsTrueInStep /\ WritesLand /\ NoExit
  BY <1>1 DEF LastTrue, InStep, WritesLand, NoExit
<1>3. AddressInStep
  <2> SUFFICES ASSUME h.pc = "idle", down = <<>>, h.addrset, hist.failed = {}
               PROVE  h.lastaddr = board.addr
    BY DEF AddressInStep
  <2>1. End = Now
    BY <1>1, NowType, ExecutedIs DEF End
  <2>2. End.addr = h.lastaddr
    BY <1>1 DEF InStep
  <2> QED BY <2>1, <2>2 DEF Now
<1>4. OneCharacterEach
  <2> SUFFICES ASSUME h.pc = "drain", hist.failed \subseteq {"read"}, NEW i \in DOMAIN up
               PROVE  up[i].k \notin {"addr", "raw", "tbl"}
    BY DEF OneCharacterEach
  <2>1. up \in Seq(QuietCode)
    BY <1>1 DEF InTurn
  <2>2. up[i] \in QuietCode
    BY <2>1
  <2> QED BY <2>2 DEF QuietCode
<1>5. NeverWaitsInVain
  <2> SUFFICES ASSUME h.pc = "read", h.n < h.cmdrd, down = <<>>, up = <<>> PROVE FALSE
    BY DEF NeverWaitsInVain
  <2>1. Received(HostNow, up).n >= h.cmdrd
    BY <1>1 DEF Due
  <2>2. Received(HostNow, up) = HostNow
    BY <1>1, HostNowType, ReceivedIs
  <2> QED BY <1>1, <2>1, <2>2 DEF HostNow, BusType, HostType
<1>6. TypeInv
  <2>1. {down[i].k : i \in DOMAIN down} \subseteq {"abs", "rel", "wr", "wt", "rd", "nl"}
    <3>1. \A i \in DOMAIN down : down[i] \in DownCode
      BY <1>1 DEF BusType
    <3>2. \A i \in DOMAIN down : down[i].k \in {"abs", "rel", "wr", "wt", "rd", "nl"}
      BY <3>1, CodeKinds
    <3> QED BY <3>2
  <2> QED BY <1>1, <2>1 DEF TypeInv, InCall, BusType, HostType, BoardType
<1> QED BY <1>2, <1>3, <1>4, <1>5, <1>6

(* In every behaviour of the two ends, whatever the calls, the devices,    *)
(* the moments of the interrupts and the errors: they agree, while nothing *)
(* has failed, on the next address and on the tables, which are never sent *)
(* (TTYBUS::encode_address, readword, writev; BeVMD2, veVMD2 and FfVMD2    *)
(* of wbubus.v, its decoder, executor and compressor).                     *)
THEOREM BusAgrees == Spec => []BusInv
BY BusInit, BusStep, PTL DEF Spec
=============================================================================
