------------------------------ MODULE Library -------------------------------
(***************************************************************************)
(* The functions that the programs call and that keep nothing: copies of   *)
(* memory and strings (sw/zipos/string.c), 64-bit division (sw/zlib), the  *)
(* numbers and times that are shown, the display's wire (sw/dev), the      *)
(* terminal of sw/zlib, the characters of the bus (sw/host/ttybus.cpp) and *)
(* the files of zipload.                                                   *)
(* Words are shorter than 32 bits where their width only scales.           *)
(***************************************************************************)
EXTENDS Integers, Sequences, FiniteSets, RtClock
LOCAL INSTANCE SequencesExt
LOCAL INSTANCE Functions

-----------------------------------------------------------------------------
(***************************************************************************)
(* memcpy: the accesses it makes, as records of where to, from, how wide.  *)
(***************************************************************************)
Access(d, s, w) == [to |-> d, from |-> s, width |-> w]
Row8(d, s) == [i \in 1 .. 8 |-> Access(d + 4 * (i - 1), s + 4 * (i - 1), 4)]

RECURSIVE ByBytes(_, _, _), ByHalves(_, _, _), ByWords(_, _, _), MemCpy(_, _, _)
ByBytes(d, s, n) == IF n < 1 THEN <<>> ELSE <<Access(d, s, 1)>> \o ByBytes(d + 1, s + 1, n - 1)
ByHalves(d, s, n) ==
    IF n < 4 THEN ByBytes(d, s, n)
    ELSE <<Access(d, s, 2), Access(d + 2, s + 2, 2)>> \o ByHalves(d + 4, s + 4, n - 4)
ByWords(d, s, n) == IF n < 32 THEN ByHalves(d, s, n)
                    ELSE Row8(d, s) \o ByWords(d + 32, s + 32, n - 32)

\* With the source on a word, what the destination allows.
AlignedBlindly(d, s, n) == IF d % 2 = 1 THEN ByBytes(d, s, n) ELSE ByWords(d, s, n)  \* mutant
Aligned(d, s, n) == IF d % 2 = 1 THEN ByBytes(d, s, n)
                    ELSE IF d % 4 = 2 THEN ByHalves(d, s, n) ELSE ByWords(d, s, n)
MemCpy(d, s, n) == IF n = 0 THEN <<>>
                   ELSE IF s % 4 # 0 THEN <<Access(d, s, 1)>> \o MemCpy(d + 1, s + 1, n - 1)
                   ELSE Aligned(d, s, n)

\* Memory holds characters, 0 ends a string.
Copied(mem, accesses) ==
    LET byte(m, t) == [m EXCEPT ![t.to] = mem[t.from]]
    IN  FoldLeft(byte, mem, accesses)
StrLen(mem, s) == CHOOSE n \in 0 .. Cardinality(DOMAIN mem) :
                    mem[s + n] = 0 /\ \A i \in 0 .. n - 1 : mem[s + i] # 0
StrCpy(mem, d, s) == Copied(mem, ByBytes(d, s, StrLen(mem, s) + 1))
StrCat(mem, d, s) == StrCpy(mem, d + StrLen(mem, d), s)

-----------------------------------------------------------------------------
(***************************************************************************)
(* Division of unsigned numbers of two words of four bits each.            *)
(***************************************************************************)
W == 4
Wide == 2 ^ (2 * W)
Hi(a) == a \div 2^W
Lo(a) == a % 2^W
BitRev(a) == FoldLeft(LAMBDA r, i : 2 * r + ((a \div 2^i) % 2), 0, [i \in 1 .. W |-> i - 1])

\* cltz: leading zeros, found as trailing zeros of the word backwards.
Trailing(v) ==
    LET v2 == IF v % 4 = 0 THEN v \div 4 ELSE v
    IN  (IF v % 4 = 0 THEN 2 ELSE 0) + (IF v2 % 2 = 0 THEN 1 ELSE 0)
Cltz(v) == IF Hi(v) = 0 THEN W + Trailing(BitRev(Lo(v))) ELSE Trailing(BitRev(Hi(v)))

RECURSIVE LongDiv(_, _, _)
LongDiv(a, b, m) ==
    IF m = 0 THEN 0
    ELSE IF a >= b THEN m + LongDiv(a - b, b \div 2, m \div 2)
    ELSE LongDiv(a, b \div 2, m \div 2)

UDivNoTest(a, b) ==                                             \* mutant: low word dropped
    LET la == Cltz(a)
    IN  IF a < b THEN 0 ELSE IF Hi(a) = 0 THEN a \div b
        ELSE IF Hi((b * 2^la) % Wide) # 0 THEN Hi((a * 2^la) % Wide) \div Hi((b * 2^la) % Wide)
        ELSE LongDiv((a * 2^la) % Wide, (b * 2^Cltz(b)) % Wide, 2^(Cltz(b) - la))
UDiv(a, b) ==
    LET la == Cltz(a)
        lb == Cltz(b)
        a1 == (a * 2^la) % Wide
        b1 == (b * 2^la) % Wide
    IN  IF a < b THEN 0
        ELSE IF Hi(a) = 0 /\ Hi(b) = 0 THEN a \div b
        ELSE IF lb - la < W /\ Lo(b1) = 0 THEN Hi(a1) \div Hi(b1)
        ELSE LongDiv(a1, (b * 2^lb) % Wide, 2^(lb - la))

\* Signed: -2^7 has no opposite, and stays.
Magnitude(a) == IF a < 0 THEN (-a) % Wide ELSE a
Signed(r) == IF r >= Wide \div 2 THEN r - Wide ELSE r
Div(a, b) == LET r == UDiv(Magnitude(a), Magnitude(b))
             IN  Signed(IF (a < 0) # (b < 0) THEN (-r) % Wide ELSE r)
UMod(a, b) == (a - UDiv(a, b) * b) % Wide

-----------------------------------------------------------------------------
(***************************************************************************)
(* What is shown: characters are their ASCII codes.                        *)
(***************************************************************************)
Zero == 48
Colon == 58
Space == 32

\* txval, txhex and uarthex: digits of val, from a shift that keeps the sign.
HexChar(n) == IF n + Zero > 57 THEN n + 65 - 10 ELSE n + Zero
Hex(val, digits) == [i \in 1 .. digits |-> HexChar((val \div 16^(digits - i)) % 16)]

\* build_dpymsg: the tens of the hours are left blank if they are 0.
Dig(clk, k) == Nibble(clk, k) + Zero
DpyTime(clk) ==
    <<IF Nibble(clk, 5) # 0 THEN Dig(clk, 5) ELSE Space, Dig(clk, 4), Colon, Dig(clk, 3),
      Dig(clk, 2), Colon, Dig(clk, 1), Dig(clk, 0)>>
\* build_uartmsg, which has only two bits for the tens of the hours, and no seconds.
UartTime(clk) == <<(Nibble(clk, 5) % 4) + Zero, Dig(clk, 4), Colon, Dig(clk, 3), Dig(clk, 2)>>

\* entered_menu_str: pos digits have been entered, of which the seconds' tens are shown
\* only with an x after them.
Entered(now, pos) ==
    LET digit(k, c) == IF pos > k THEN Dig(now, 5 - k) ELSE c
        shown == <<digit(0, Space), digit(1, Space), Colon, digit(2, Space), digit(3, Space)>>
    IN  IF pos > 4 THEN shown \o <<Colon, Dig(now, 1), 120>> ELSE shown \o <<Space, Space>>

\* dispchar: what is written to MOSI, SCK and SS, each write setting some pins and
\* clearing some (wbgpio.v).
Pins(on, off) == [on |-> on, off |-> off]
OffAll(bit) == Pins(IF bit = 1 THEN {"MOSI"} ELSE {},
                    IF bit = 1 THEN {"SCK", "SS"} ELSE {"MOSI", "SCK", "SS"})
DispChar(ch) ==
    LET bit(i) == (ch \div 2^(7 - i)) % 2
        pulse(i) == <<OffAll(bit(i)), Pins({"SCK"}, {})>>
    IN  IF ch = 0 THEN <<>>
        ELSE FlattenSeq([i \in 1 .. 8 |-> pulse(i - 1)])
             \o <<Pins({}, {"SCK"}), Pins({"SS"}, {})>>

\* The characters of six bits of the bus, and four of a word from the table.
CharEnc(v) == IF v < 10 THEN Zero + v ELSE IF v < 36 THEN 65 - 10 + v
              ELSE IF v < 62 THEN 97 - 36 + v ELSE IF v = 62 THEN 64 ELSE 37
Invalid == 256
CharDec(b) == IF b \in 48 .. 57 THEN b - Zero ELSE IF b \in 65 .. 90 THEN b - 65 + 10
              ELSE IF b \in 97 .. 122 THEN b - 97 + 36
              ELSE IF b = 64 THEN 62 ELSE IF b = 37 THEN 63 ELSE Invalid

\* encode and decodestr: two bits of the word in the first character, six in each of
\* the other five (here one, for words of eight bits).
Encode(hb, val) == <<CharEnc((4 * hb + val \div 64) % 64), CharEnc(val % 64)>>
DecodeStr(buf) == (CharDec(buf[1]) % 4) * 64 + (CharDec(buf[2]) % 64)

-----------------------------------------------------------------------------
(***************************************************************************)
(* The files of zipload: the memory that elfread lays out for the segments *)
(* (each with its size in the file and in memory), in bytes of a host      *)
(* whose pointers have eight; and the place where a bit file's stream      *)
(* begins.                                                                 *)
(***************************************************************************)
Pointer == 8
Header == 8             \* m_start and m_len; m_data has four bytes more
ElfSection == 12
Total(segs, each) == FoldLeft(LAMBDA t, s : t + s.file + each, 0, segs)
Malloc(segs) == Total(segs, Pointer + ElfSection) + ElfSection + Pointer
SectionAt(segs, i) == (Len(segs) + 1) * Pointer + Total(SubSeq(segs, 1, i - 1), ElfSection)
\* What is read: nothing, if the file has more than the memory is to hold.
ReadLen(seg) == IF seg.file > seg.mem THEN 0 ELSE seg.file

\* skip_bitfile_header; -1 is the exit.
SearchLn == 204
Match == [i \in 0 .. 15 |-> IF i < 12 THEN "ff" ELSE <<"aa", "99", "55", "66">>[i - 11]]
SkipHeader(buf) ==
    LET found == {s \in 0 .. SearchLn - 17 : \A i \in 0 .. 15 : buf[s + i] = Match[i]}
    IN  IF found = {} THEN -1 ELSE CHOOSE s \in found : \A t \in found : s <= t

-----------------------------------------------------------------------------
(***************************************************************************)
(* zipload's arguments: options and files, by kind.  They are moved down   *)
(* in argv while they are looked at.                                       *)
(***************************************************************************)
Options == {"-d", "-v", "-h", "-x"}
RECURSIVE Compact(_, _, _)
\* argv without the options from place argn on, skp of them passed; or what ends it.
Compact(argv, argn, skp) ==
    IF argn > Len(argv) - skp THEN [end |-> "files", files |-> SubSeq(argv, 1, Len(argv) - skp)]
    ELSE CASE argv[argn + skp] = "-h" -> [end |-> "usage", files |-> <<>>]
           [] argv[argn + skp] = "-x" -> [end |-> "fail", files |-> <<>>]
           [] argv[argn + skp] \in {"-d", "-v"} -> Compact(argv, argn, skp + 1)
           [] OTHER -> Compact([argv EXCEPT ![argn] = argv[argn + skp]], argn + 1, skp)

\* The files taken one by one: a program, a bit file and another, none a second time.
Failed == [end |-> "fail", exec |-> 0, bit |-> 0, alt |-> 0]
TakeLast(c, i, file) == [c EXCEPT !.bit = i]                      \* mutant: alternate ignored
Take(c, i, file) ==
    CASE c.end = "fail" \/ file = "unreadable" -> Failed
      [] file = "elf" -> IF c.exec # 0 THEN Failed ELSE [c EXCEPT !.exec = i]
      [] OTHER -> IF c.bit = 0 THEN [c EXCEPT !.bit = i]
                  ELSE IF c.alt = 0 THEN [c EXCEPT !.alt = i] ELSE Failed
ZipLoad(args) ==
    LET got == Compact(<<"zipload">> \o args, 1, 1)
        files == got.files
        start == [end |-> "load", exec |-> 0, bit |-> 0, alt |-> 0]
        chosen == FoldLeft(LAMBDA c, i : Take(c, i, files[i]), start,
                           [i \in 1 .. Len(files) |-> i])
    IN  IF Len(args) = 0 \/ got.end = "usage" THEN [Failed EXCEPT !.end = "usage"]
        ELSE IF got.end = "fail" \/ (chosen.exec = 0 /\ chosen.bit = 0) THEN Failed ELSE chosen

-----------------------------------------------------------------------------
(***************************************************************************)
(* The terminal of the C library: reads echo what they take, and make a    *)
(* line feed of a carriage return, and of one with a line feed after it.   *)
(* polls are what the UART's register gives, one after another.            *)
(***************************************************************************)
OutByte(ch) == IF ch = "nl" THEN <<"cr", "nl">> ELSE <<ch>>
WriteR(buf) == FlattenSeq([i \in 1 .. Len(buf) |-> OutByte(buf[i])])

InByteForgets(t, rv) == [got |-> IF rv = "cr" THEN "nl" ELSE rv, lastcr |-> FALSE,
                         echo |-> t.echo]                        \* mutant
\* _inbyte: got is "nothing" where it returns -1.
InByte(t, rv) ==
    LET ch == CASE rv = "nothing" -> rv
                [] rv = "cr" -> "nl"
                [] rv = "nl" /\ t.lastcr -> "nothing"
                [] OTHER -> rv
    IN  [got |-> ch,
         lastcr |-> IF rv = "nothing" THEN t.lastcr ELSE rv = "cr",
         echo |-> IF ch = "nothing" THEN t.echo ELSE t.echo \o OutByte(ch)]
\* _read_r, until there is nothing to take; a call that has nothing yet waits.
ReadR(t, len, rv) ==
    LET b == InByte(t, rv)
    IN  [echo |-> b.echo, lastcr |-> b.lastcr,
         calls |-> IF b.got = "nothing"
                   THEN IF Last(t.calls) = <<>> THEN t.calls ELSE Append(t.calls, <<>>)
                   ELSE LET now == Append(Last(t.calls), b.got)
                            before == [t.calls EXCEPT ![Len(t.calls)] = now]
                        IN  IF Len(now) = len THEN Append(before, <<>>) ELSE before]
Reads(len, polls) ==
    FoldLeft(LAMBDA t, rv : ReadR(t, len, rv),
             [echo |-> <<>>, lastcr |-> FALSE, calls |-> <<<<>>>>], polls)

-----------------------------------------------------------------------------
(***************************************************************************)
(* What they are for, each said in another way.                            *)
(***************************************************************************)
\* Every byte is copied to its place, once, and no access straddles a word.
CopyIsRight(d, s, n) ==
    LET moves == MemCpy(d, s, n)
        bytes(t) == [i \in 1 .. t.width |-> <<t.to + i - 1, t.from + i - 1>>]
        all == FlattenSeq([i \in 1 .. Len(moves) |-> bytes(moves[i])])
    IN  /\ \A i \in 1 .. Len(moves) : moves[i].to % moves[i].width = 0
                                      /\ moves[i].from % moves[i].width = 0
        /\ Len(all) = n
        /\ {all[i] : i \in 1 .. Len(all)} = {<<d + i, s + i>> : i \in 0 .. n - 1}

\* A string at 0 and one at 4, put after one another; nothing after them changes.
StringIsRight(mem) ==
    LET a == StrLen(mem, 0)
        b == StrLen(mem, 4)
        cat == StrCat(mem, 0, 4)
    IN  a + b <= 3 =>
          /\ \A i \in 0 .. a - 1 : cat[i] = mem[i]
          /\ \A i \in 0 .. b : cat[a + i] = mem[4 + i]
          /\ \A i \in DOMAIN mem \ (a .. a + b) : cat[i] = mem[i]
          /\ StrLen(cat, 0) = a + b
          /\ StrCpy(mem, 0, 4)[b] = 0

QuotientIsRight(a, b) == UDiv(a, b) = a \div b /\ UMod(a, b) = a % b
\* Rounded to zero, as C has it.
Abs(a) == IF a < 0 THEN -a ELSE a
SignedIsRight(a, b) ==
    LET q == Abs(a) \div Abs(b)
    IN  Div(a, b) = Signed((IF (a < 0) # (b < 0) THEN -q ELSE q) % Wide)

HexIsRight(val) ==
    LET value(c) == IF c >= 65 THEN c - 55 ELSE c - 48
        h == Hex(val, 4)
    IN  OfDigits([i \in 1 .. 4 |-> value(h[i])]) = val % 16^4

\* A time of day by its hours, minutes and seconds.
Bcd(n) == 16 * (n \div 10) + (n % 10)
TimeOf(h, m, s) == 16^4 * Bcd(h) + 16^2 * Bcd(m) + Bcd(s)
TimeIsShown(h, m, s) ==
    LET t == TimeOf(h, m, s)
        d(c) == IF c = Space THEN 0 ELSE c - Zero
        shown == DpyTime(t)
        total == 3600 * h + 60 * m + s
        next == (total + 1) % 86400
    IN  /\ <<h, m, s>> = <<10 * d(shown[1]) + d(shown[2]), 10 * d(shown[4]) + d(shown[5]),
                           10 * d(shown[7]) + d(shown[8])>>
        /\ SubSeq(UartTime(t), 2, 5) = SubSeq(shown, 2, 5) /\ d(UartTime(t)[1]) = d(shown[1])
        /\ \A pos \in 0 .. 5 :
             SelectSeq(Entered(t, pos), LAMBDA c : c \in 48 .. 57) =
               SubSeq([i \in 1 .. 6 |-> Dig(t, 6 - i)], 1, pos)
        /\ RtcNext(t) = TimeOf(next \div 3600, (next \div 60) % 60, next % 60)

\* The day after is a date again, in BCD, of this month or of the next year (rtcsim.c:68
\* never comes to the next month).
DateOf(y, m, d) == 16^4 * (16^2 * Bcd(y \div 100) + Bcd(y % 100)) + 16^2 * Bcd(m) + Bcd(d)
DateIsDate(y, m, d) ==
    RtcDateNext(DateOf(y, m, d)) \subseteq
      {DateOf(y, m, 1), DateOf(y, m, d + 1), DateOf(y + 1, 1, 1)}

\* The display takes MOSI when SCK rises while SS is low: the character's bits, the
\* highest first.
BitsAreTaken(ch) ==
    LET wave == DispChar(ch)
        after(pins, i) == (pins \ wave[i].off) \cup wave[i].on
        pins[i \in 0 .. Len(wave)] ==
            IF i = 0 THEN {"SS", "MOSI"} ELSE after(pins[i - 1], i)
        rises == {i \in 1 .. Len(wave) : "SCK" \in pins[i] /\ "SCK" \notin pins[i - 1]
                                         /\ "SS" \notin pins[i]}
        at(k) == CHOOSE i \in rises : Cardinality({j \in rises : j < i}) = k
    IN  ch # 0 =>
          /\ Cardinality(rises) = 8
          /\ \A k \in 0 .. 7 : ("MOSI" \in pins[at(k)]) = ((ch \div 2^(7 - k)) % 2 = 1)
          /\ "SS" \in pins[Len(wave)]

CodesAreRight(v, hb) ==
    /\ CharDec(CharEnc(v % 64)) = v % 64
    /\ DecodeStr(Encode(hb, v)) = v
    /\ \A b \in 0 .. 127 : CharDec(b) # Invalid => CharEnc(CharDec(b)) = b

\* What elfread writes lies inside what it has allocated, nothing over anything else:
\* the table of pointers, each section with its bytes, and the empty section at the end.
LayoutIsRight(segs) ==
    LET n == Len(segs)
        from(i) == IF i = 0 THEN 0 ELSE SectionAt(segs, i)
        to(i) == IF i = 0 THEN (n + 1) * Pointer
                 ELSE SectionAt(segs, i) + Header + IF i > n THEN 0 ELSE ReadLen(segs[i])
    IN  \A i \in 0 .. n + 1 :
          to(i) <= Malloc(segs) /\ (i <= n => to(i) <= from(i + 1))

\* A header of n bytes, k of 0xff, and the word that the stream is known by: what is
\* skipped is the header, and what there is of 0xff above twelve.
HeaderIsSkipped(n, k) ==
    LET buf == [i \in 0 .. SearchLn - 1 |->
                  IF i < n \/ i >= n + k + 4 THEN "any"
                  ELSE IF i < n + k THEN "ff" ELSE Match[12 + i - n - k]]
    IN  SkipHeader(buf) = IF k >= 12 /\ n + k + 4 < SearchLn THEN n + k - 12 ELSE -1

\* The files are those that are no options, in their order, if there are not too many;
\* the first option that stops it does.
ArgumentsAreRight(args) ==
    LET files == SelectSeq(args, LAMBDA a : a \notin Options)
        bits == SelectSeq(args, LAMBDA a : a = "bit")
        elfs == SelectSeq(args, LAMBDA a : a = "elf")
        stops == SelectSeq(args, LAMBDA a : a \in {"-h", "-x"})
        c == ZipLoad(args)
        place(k, n) == IF n > Len(SelectSeq(files, LAMBDA f : f = k)) THEN 0
                       ELSE CHOOSE i \in DOMAIN files :
                              /\ files[i] = k
                              /\ Cardinality({j \in 1 .. i : files[j] = k}) = n
    IN  CASE args = <<>> \/ (stops # <<>> /\ stops[1] = "-h") -> c.end = "usage"
          [] stops # <<>> /\ stops[1] = "-x" -> c.end = "fail"
          [] OTHER ->
               IF Len(files) = Len(bits) + Len(elfs) /\ Len(bits) <= 2 /\ Len(elfs) <= 1 /\ files # <<>>
               THEN c = [end |-> "load", exec |-> place("elf", 1), bit |-> place("bit", 1),
                         alt |-> place("bit", 2)]
               ELSE c.end = "fail"

\* What was typed, with each line's end as a line feed, is read once and in order, in pieces
\* that fit, and is what the screen shows.
TypingIsRead(len, polls) ==
    LET typed == SelectSeq(polls, LAMBDA p : p # "nothing")
        lines == FlattenSeq([i \in 1 .. Len(typed) |->
                   IF typed[i] = "cr" THEN <<"nl">>
                   ELSE IF typed[i] = "nl" /\ i > 1 /\ typed[i - 1] = "cr" THEN <<>>
                   ELSE <<typed[i]>>])
        t == Reads(len, polls)
    IN  /\ FlattenSeq(t.calls) = lines /\ t.echo = WriteR(lines)
        /\ \A i \in DOMAIN t.calls : Len(t.calls[i]) <= len

\* A call of one of the functions: its name, and its arguments.
CallIsRight(c) ==
    LET x == c.x
    IN  CASE c.fn = "memcpy"  -> CopyIsRight(x[1], x[2], x[3])
          [] c.fn = "strings" -> StringIsRight(x)
          [] c.fn = "udiv"    -> QuotientIsRight(x[1], x[2])
          [] c.fn = "div"     -> SignedIsRight(x[1], x[2])
          [] c.fn = "hex"     -> HexIsRight(x[1])
          [] c.fn = "time"    -> TimeIsShown(x[1], x[2], x[3])
          [] c.fn = "date"    -> DateIsDate(x[1], x[2], x[3])
          [] c.fn = "display" -> BitsAreTaken(x[1])
          [] c.fn = "codes"   -> CodesAreRight(x[1], x[2])
          [] c.fn = "elf"     -> LayoutIsRight(x)
          [] c.fn = "bitfile" -> HeaderIsSkipped(x[1], x[2])
          [] c.fn = "zipload" -> ArgumentsAreRight(x)
          [] c.fn = "typing"  -> TypingIsRead(x[1], x[2])
=============================================================================
