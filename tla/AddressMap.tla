----------------------------- MODULE AddressMap -----------------------------
(***************************************************************************)
(* Where the registers are, said five times: the names and addresses of    *)
(* the host's tools (sw/host/regdefs), the structure and the bits that     *)
(* programs use (sw/zipos/board.h), and the wires of the two designs, the  *)
(* CPU's (rtl/busmaster.v) and the host's (rtl/altbusmaster.v).            *)
(***************************************************************************)
EXTENDS Integers, Sequences
LOCAL INSTANCE SequencesExt

-----------------------------------------------------------------------------
(***************************************************************************)
(* The designs.  Only a few of the address lines are looked at.            *)
(***************************************************************************)
BitOf(a, i) == (a \div 2^i) % 2
IoRegisters == <<"ICONTROL", "BUSERR", "ITIMERA", "ITIMERB", "PWM", "SPIO", "GPIO", "UART">>
FlashRegisters == <<"QSPI_EREG", "QSPI_CREG", "QSPI_SREG", "QSPI_IDREG">>

\* The select lines of a word's address.
Selected(design, w) ==
    IF BitOf(w, 22) = 1 THEN "flash"
    ELSE IF BitOf(w, 12) = 1 THEN "ram"
    ELSE IF BitOf(w, 9) = 1
         THEN IF BitOf(w, 8) = 1 /\ design = "host" THEN "flctl" ELSE "scope"
    ELSE IF BitOf(w, 8) = 1 THEN "io" ELSE "none"

AltSelectedAsCpu(w) == Selected("cpu", w)                        \* mutant: flctl_sel missing
AltSelected(w) == Selected("host", w)

\* What answers at an address of bytes.
Reached(design, addr) ==
    LET w == addr \div 4
        sel == IF design = "host" THEN AltSelected(w) ELSE Selected("cpu", w)
    IN  CASE sel = "io" -> IF w % 16 < 8 THEN IoRegisters[(w % 16) + 1] ELSE "VERSION"
          [] sel = "scope" -> IF w % 2 = 0 THEN "SCOPE" ELSE "SCOPED"
          [] sel = "flctl" -> FlashRegisters[(w % 4) + 1]
          [] OTHER -> sel

\* The byte of a memory that an address stands for.
CellOf(design, addr) ==
    LET sel == Selected(design, addr \div 4)
    IN  <<sel, addr % (IF sel = "flash" THEN 2^24 ELSE 2^14)>>

\* Who is on which line of the interrupt controller; some lines are not used.
CpuLines == <<"BUTTON", "BUSERR", "SCOPE", "none", "TIMER", "none", "UARTRX", "UARTTX",
              "KEYPAD", "AUDIO", "GPIO">>
HostLines == <<"BUTTON", "BUSERR", "SCOPE", "none", "TIMER", "TIMERB", "UARTRX", "UARTTX",
               "KEYPAD", "AUDIO", "GPIO", "FLASH">>

-----------------------------------------------------------------------------
(***************************************************************************)
(* The host's names: a table of names, of which a register has several.    *)
(***************************************************************************)
R == [ICONTROL |-> 1024, BUSERR |-> 1028, ITIMERA |-> 1032, ITIMERB |-> 1036,
      PWM |-> 1040, SPIO |-> 1044, GPIO |-> 1048, UART |-> 1052, VERSION |-> 1056,
      SCOPE |-> 2048, SCOPED |-> 2052, QSPI_EREG |-> 3072, QSPI_CREG |-> 3076,
      QSPI_SREG |-> 3080, QSPI_IDREG |-> 3084, ram |-> 2^14, flash |-> 2^24]

Named(reg, names) == [i \in DOMAIN names |-> [reg |-> reg, name |-> names[i]]]
Bregs ==
    Named("VERSION", <<"VERSION">>) \o Named("ICONTROL", <<"ICONTROL", "INT", "PIC", "INTC">>)
    \o Named("BUSERR", <<"BUSERR", "BUS">>) \o Named("ITIMERA", <<"TMRA">>)
    \o Named("ITIMERB", <<"TMRB">>) \o Named("PWM", <<"PWMAUDIO", "PWM", "PWMDATA", "AUDIO">>)
    \o Named("SPIO", <<"SPIO">>) \o Named("GPIO", <<"GPIO">>)
    \o Named("UART", <<"UART", "UART-RX", "UARTRX", "RX", "UART-TX", "UARTTX", "TX">>)
    \o Named("QSPI_EREG", <<"QSPIEREG", "QSPIE">>) \o Named("QSPI_CREG", <<"QSPICONF", "QSPIC">>)
    \o Named("QSPI_SREG", <<"QSPISTAT", "QSPIS">>) \o Named("QSPI_IDREG", <<"QSPIID", "QSPII">>)
    \o Named("SCOPE", <<"SCOPE", "SCOP">>)
    \o Named("SCOPED", <<"SCOPDATA", "SCDATA", "SCOPED", "SCOPD">>)
    \o Named("ram", <<"MEM">>) \o Named("flash", <<"FLASH">>)

\* The first entry of a name, and the first of an address.
AddrDecode(name) == R[Bregs[SelectInSeq(Bregs, LAMBDA e : e.name = name)].reg]
AddrName(addr) == LET i == SelectInSeq(Bregs, LAMBDA e : R[e.reg] = addr)
                  IN  IF i = 0 THEN "no name" ELSE Bregs[i].name

-----------------------------------------------------------------------------
(***************************************************************************)
(* The programs' board: the structures by their words, the interrupts by   *)
(* their bits, and the memory that a pointer and a length are checked for. *)
(***************************************************************************)
IoSpace == [at |-> 1024,
            words |-> <<"ICONTROL", "BUSERR", "ITIMERA", "ITIMERB", "PWM", "SPIO", "GPIO",
                        "UART", "VERSION">>]
WbScope == [at |-> 2048, words |-> <<"SCOPE", "SCOPED">>]
IntBits ==
    [BUTTON |-> 1, BUSERR |-> 2, SCOPE |-> 4, TIMER |-> 16, UARTRX |-> 64, UARTTX |-> 128,
     KEYPAD |-> 256, AUDIO |-> 512, GPIO |-> 1024]
BkRam == 2^14
Flash == 2^24

ValidRegion(at, length, ptr, ln) == ptr >= at /\ ptr + ln < at + length
ValidMem(ptr, ln) == ValidRegion(BkRam, 2^14, ptr, ln) \/ ValidRegion(Flash, 2^24, ptr, ln)

-----------------------------------------------------------------------------
\* A name leads the host to its register, and back to a name of that register.
NameIsRight(i) ==
    LET a == AddrDecode(Bregs[i].name)
    IN  /\ Reached("host", a) = Bregs[i].reg
        /\ \E j \in DOMAIN Bregs : Bregs[j].name = AddrName(a) /\ Bregs[j].reg = Bregs[i].reg
\* The words of a program's structure are the registers, and the host's as well.
WordsAreRight(space) ==
    \A i \in DOMAIN space.words :
        LET a == space.at + 4 * (i - 1)
        IN  Reached("cpu", a) = space.words[i] /\ R[space.words[i]] = a
\* A program's interrupt is one line, in both designs.
LineIsRight(who) ==
    \E i \in DOMAIN CpuLines : /\ CpuLines[i] = who /\ HostLines[i] = who
                               /\ IntBits[who] = 2^(i - 1)
\* What the kernel lets a task read and write is one memory, from its first byte to its
\* last, and no two of them the same.
RegionIsThere(ptr, ln) ==
    ValidMem(ptr, ln) =>
        LET bytes == {ptr, ptr + 1, ptr + ln - 2, ptr + ln - 1} \cap (ptr .. ptr + ln - 1)
            cell(b) == CellOf("cpu", b)
        IN  \A b, c \in bytes : /\ cell(b)[1] = cell(ptr)[1] /\ cell(b)[1] \in {"ram", "flash"}
                                /\ b # c => cell(b) # cell(c)
=============================================================================
