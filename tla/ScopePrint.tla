----------------------------- MODULE ScopePrint -----------------------------
(***************************************************************************)
(* What is shown of a scope's dump: the lines of SCOPE::print and the      *)
(* trace of SCOPE::writevcd (sw/host/scopecls.cpp), for the words of the   *)
(* plain scope and of the compressing one (rtl/wbscopc.v), and the signals *)
(* of the flash that xpflashscop looks at.                                 *)
(***************************************************************************)
EXTENDS Integers, Sequences, FiniteSets
LOCAL INSTANCE SequencesExt

CONSTANT MaxRun         \* where a run's length saturates (31 bits in the code)

-----------------------------------------------------------------------------
(***************************************************************************)
(* The compressing scope: a word is a sample, or how long the last one has *)
(* stayed.  A register for the word to write and one for the word before   *)
(* it keep two lengths from following one another.                         *)
(***************************************************************************)
Addr(n) == [adr |-> TRUE, val |-> n]
Sample(d) == [adr |-> FALSE, val |-> d]
CompressInit == [ck |-> 0, dat |-> 0, lst |-> Addr(0), imm |-> Addr(0), words |-> <<>>]

CompressAll(c, d) ==                                             \* mutant: nothing suppressed
    LET new == d # c.dat
    IN  [ck |-> IF new THEN 0 ELSE IF c.ck = MaxRun THEN c.ck ELSE c.ck + 1,
         dat |-> d, lst |-> c.imm, imm |-> IF new THEN Sample(d) ELSE Addr(c.ck),
         words |-> Append(c.words, c.lst)]
CompressClock(c, d) ==
    LET new == d # c.dat
    IN  [ck |-> IF new THEN 0 ELSE IF c.ck = MaxRun THEN c.ck ELSE c.ck + 1,
         dat |-> d, lst |-> c.imm, imm |-> IF new THEN Sample(d) ELSE Addr(c.ck),
         words |-> IF c.lst.adr /\ c.imm.adr THEN c.words ELSE Append(c.words, c.lst)]
Compressed(samples) == FoldLeft(CompressClock, CompressInit, samples).words

-----------------------------------------------------------------------------
(***************************************************************************)
(* The lines: a number, and the sample; or a row of stars.                 *)
(***************************************************************************)
Line(n, d) == [at |-> n, val |-> d]
StarLine == -1
PrintCompressed(words) ==
    LET show(p, w) == IF w.adr THEN [p EXCEPT !.at = @ + w.val]
                      ELSE [at |-> p.at + 1, lines |-> Append(p.lines, Line(p.at, w.val))]
    IN  FoldLeft(show, [at |-> 0, lines |-> <<>>], words).lines

\* i counts from 0, as in the code.
At(data, i) == data[i + 1]
SkippedAtEnd(data, i) == i > 0 /\ At(data, i) = At(data, i - 1)  \* mutant: the last line too
Skipped(data, i) == i > 0 /\ At(data, i) = At(data, i - 1) /\ i < Len(data) - 1
Stars(data, i) == i > 2 /\ At(data, i) # At(data, i - 2)
PrintPlain(data) ==
    LET shown(i) == IF ~Skipped(data, i) THEN <<Line(i, At(data, i))>>
                    ELSE IF Stars(data, i) THEN <<Line(i, StarLine)>> ELSE <<>>
    IN  FlattenSeq([k \in 1 .. Len(data) |-> shown(k - 1)])

-----------------------------------------------------------------------------
(***************************************************************************)
(* The trace: the word, and some of its fields, as bits.                   *)
(***************************************************************************)
BinaryTrace(nbits, val) ==
    LET kept == val % 2^nbits
    IN  IF nbits <= 1 THEN <<val % 2>>
        ELSE [i \in 1 .. nbits |-> (kept \div 2^(nbits - i)) % 2]
TraceOf(trace, value) == BinaryTrace(trace.nbits, value \div 2^trace.nshift)

\* The second letter of the key of trace number n, as a character's code.
Key(n) == IF n < 26 THEN 97 + n ELSE IF n < 52 THEN 65 + n - 26 ELSE 48 + n - 52

\* What XPFLASHSCOPE registers, and prints, of a word; what is wired to it in altbusmaster.v,
\* the highest bit first.
Trace(name, nbits, nshift) == [name |-> name, nbits |-> nbits, nshift |-> nshift]
DefineTraces ==
    {Trace("wb_cyc", 1, 31), Trace("wb_stb", 1, 30), Trace("flash_sel", 1, 29),
     Trace("flctl_sel", 1, 28), Trace("flash_ack", 1, 27), Trace("flash_stall", 1, 26),
     Trace("qspi_cs_n", 1, 25), Trace("qspi_sck", 2, 23), Trace("qspi_mod", 2, 21),
     Trace("o_qspi_dat", 4, 16), Trace("i_qspi_dat", 4, 12), Trace("flash_data", 12, 0)}
Decode == [wb_cyc |-> {31}, wb_stb |-> {30}, flash_sel |-> {29}, flctl_sel |-> {28},
           flash_ack |-> {27}, flash_stall |-> {26}, qspi_cs_n |-> {25},
           qspi_sck |-> {24, 23}, qspi_mod |-> 21 .. 22, o_qspi_dat |-> 16 .. 19,
           i_qspi_dat |-> 12 .. 15, flash_data |-> 0 .. 11]
FlashDebug == <<<<"wb_cyc", 1>>, <<"wb_stb", 1>>, <<"flash_sel", 1>>, <<"flctl_sel", 1>>,
                <<"flash_ack", 1>>, <<"flash_stall", 1>>, <<"qspi_cs_n", 1>>, <<"qspi_sck", 2>>,
                <<"qspi_mod", 2>>, <<"zero", 1>>, <<"o_qspi_dat", 4>>, <<"i_qspi_dat", 4>>,
                <<"flash_data", 12>>>>
Wires(k) == LET below == FoldLeft(LAMBDA t, w : t + w[2], 0, SubSeq(FlashDebug, k + 1, Len(FlashDebug)))
            IN  below .. below + FlashDebug[k][2] - 1

-----------------------------------------------------------------------------
\* Every change of the samples is shown, in order and none twice, and not later than it
\* was; two that follow one another at once do so in what is shown.  (Each run of equal
\* samples is shown one clock too short.)
CompressedIsTrue(samples) ==
    LET n == Len(samples)
        last == samples[n]
        before(i) == IF i = 1 THEN 0 ELSE samples[i - 1]
        changes == SelectSeq([i \in 1 .. n |-> Line(i - 1, samples[i])],
                             LAMBDA l : l.val # before(l.at + 1))
        lines == PrintCompressed(Compressed(samples \o <<last, last, last>>))
    IN  /\ Len(lines) = Len(changes)
        /\ \A i \in 1 .. Len(lines) :
             /\ lines[i].val = changes[i].val /\ lines[i].at <= changes[i].at
             /\ i > 1 => /\ lines[i].at > lines[i - 1].at
                         /\ changes[i].at = changes[i - 1].at + 1 => lines[i].at = lines[i - 1].at + 1

\* Every sample can be told from the last line at or before it, the first and the last are
\* shown, and stars stand for samples that were left out.
PlainIsTrue(data) ==
    LET printed == PrintPlain(data)
        lines == {printed[i] : i \in 1 .. Len(printed)}
        real == {l \in lines : l.val # StarLine}
        told(i) == CHOOSE l \in real : l.at <= i /\ \A m \in real : m.at <= i => m.at <= l.at
    IN  /\ \A i \in 0 .. Len(data) - 1 : told(i).val = At(data, i)
        /\ \E l \in real : l.at = Len(data) - 1
        /\ \A l \in lines \ real : \A m \in real : m.at # l.at

\* A trace's bits are its field, whatever else is in the word; no two traces have one key.
TraceIsTrue(nbits, nshift, value) ==
    LET bits == TraceOf([nbits |-> nbits, nshift |-> nshift], value)
    IN  FoldLeft(LAMBDA v, b : 2 * v + b, 0, bits) = (value \div 2^nshift) % 2^nbits
KeysDiffer == \A m, n \in 0 .. 61 : m # n => Key(m) # Key(n)
\* The fields are the wires, in the trace and on the lines.
FieldsAreWires ==
    \A k \in DOMAIN FlashDebug : FlashDebug[k][1] # "zero" =>
        /\ Decode[FlashDebug[k][1]] = Wires(k)
        /\ \E t \in DefineTraces : /\ t.name = FlashDebug[k][1]
                                   /\ t.nshift .. t.nshift + t.nbits - 1 = Wires(k)
=============================================================================
