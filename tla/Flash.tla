-------------------------------- MODULE Flash --------------------------------
(***************************************************************************)
(* Programs are put into the board's flash: zipload builds an image and    *)
(* FLASHDRVR (sw/host/flashdrvr.cpp) compares, erases, programs and        *)
(* verifies it over the bus; the controller (rtl/wbqspiflashp.v, as in     *)
(* altbusmaster.v) turns bus accesses into the chip's commands.  The chip  *)
(* takes its time, the program may be killed and the board restarted.      *)
(***************************************************************************)
EXTENDS FlashChip, FiniteSetsExt

CONSTANTS Contents0,    \* what the flash may hold at first
          Programs0,    \* what zipload may be given: [bit, alt, exec]
          AltA, ResetA, \* ALTCONFIG_ADDRESS, RESET_ADDRESS; CONFIG_ADDRESS is 0
          Garbage,      \* what an uninitialised variable may hold
          MaxRuns, MaxResets

FlashLen == Cardinality(Cells)

\* fread() reads no more of an image than there is room for.  A section of the program
\* does not cross the flash's end, and none lies over another one, as the linker makes them.
ASSUME FlashAssumption ==
  /\ Contents0 \subseteq [Cells -> Word]
  /\ AltA \in Nat /\ ResetA \in 0 .. FlashLen /\ Garbage \subseteq Nat
  /\ \A p \in Programs0 :
       /\ p.bit \in Seq(Word) /\ Len(p.bit) <= FlashLen
       /\ p.alt \in Seq(Word) /\ AltA + Len(p.alt) <= FlashLen
       /\ p.exec \in Seq([a : Nat, words : Seq(Word)])
       /\ \A i \in DOMAIN p.exec : LET sec == p.exec[i] IN
            /\ sec.a > FlashLen \/ sec.a + Len(sec.words) <= FlashLen
            /\ \A j \in 1 .. i - 1 :
                 \/ p.exec[j].a + Len(p.exec[j].words) <= sec.a
                 \/ sec.a + Len(sec.words) <= p.exec[j].a

VARIABLES chip,
          ctl,          \* the controller: wip and wp, write_in_progress and
                        \* write_protect; xip, its state is RDIDLE
          host,         \* zipload and FLASHDRVR
          hist          \* first contents, sectors written to, mishaps (history)
vars == <<chip, ctl, host, hist>>

CtlReset == [wip |-> FALSE, wp |-> TRUE, quad |-> TRUE, xip |-> FALSE]
NoHost == [pc |-> "idle", given |-> <<>>, jobs |-> <<>>, s |-> 0, p |-> 0, len |-> 0, n |-> 0]

Init == /\ \E mem \in Contents0 : chip = Chip(mem)
        /\ ctl = CtlReset /\ host = NoHost
        /\ hist = [orig |-> chip.mem, sectors |-> {}, busy |-> FALSE, blind |-> FALSE,
                   short |-> FALSE, runs |-> 0, resets |-> 0]

----------------------------------------------------------------------------
\* mutant: nothing is sent to leave it
StayIn == chip

(* The controller.  WBQSPI_WBDECODE: out of continuous read first.         *)
Left == IF ctl.xip THEN Spi(chip, <<Addr(0), Mode(FALSE)>>) ELSE chip

(* WBQSPI_WAIT_WIP_CLEAR: an access waits until the chip is done.          *)
CanGo == ctl.wip => ~chip.wip

(* A burst of reads; the chip stays in continuous read.                    *)
ReadTokens(a, n) ==
  (IF ctl.xip THEN <<Addr(a), Mode(TRUE)>>
   ELSE IF ctl.quad THEN <<Cmd("QUAD"), Addr(a), Mode(TRUE)>> ELSE <<Cmd("FAST"), Addr(a)>>)
  \o [i \in 1 .. n |-> WordIn]

Read(a, n) == Answer(chip, ReadTokens(a, n))
ReadStep(a, n) == /\ CanGo
                  /\ chip' = Spi(chip, ReadTokens(a, n))
                  /\ ctl' = [ctl EXCEPT !.wip = FALSE, !.xip = ctl.xip \/ ctl.quad]
                  /\ hist' = [hist EXCEPT !.blind = @ \/ chip.wip]

(* The erase register is read; the chip is asked only if it was busy.      *)
ReadEreg == IF ctl.wip THEN /\ chip' = Spi(chip, <<Cmd("RDSR"), WordIn>>)
                            /\ ctl' = [ctl EXCEPT !.wip = chip.wip]
            ELSE UNCHANGED <<chip, ctl>>

(* The erase register is written: write protection, or an erase, which is  *)
(* dropped when the chip was busy, and protects again what follows.  Out   *)
(* of continuous read, write protection is not looked at.                  *)
Protect(wp) == chip' = Left /\ ctl' = [ctl EXCEPT !.wp = wp, !.xip = FALSE]
Erases == ctl.xip \/ (~ctl.wip /\ ~ctl.wp)
Erase(a) == /\ CanGo
            /\ chip' = IF Erases THEN Spi(Spi(Left, <<Cmd("WREN")>>), <<Cmd("SE"), Addr(a)>>) ELSE chip
            /\ ctl' = [ctl EXCEPT !.wip = Erases, !.wp = TRUE, !.xip = FALSE]

(* Words of one page are written, as many as reach the controller without  *)
(* a pause; nothing is under write protection.                             *)
Program(a, words) ==
  /\ CanGo \/ ctl.wp
  /\ IF ctl.wp THEN chip' = Left /\ ctl' = [ctl EXCEPT !.xip = FALSE]
     ELSE /\ chip' = Spi(Spi(Left, <<Cmd("WREN")>>),
                         <<Cmd(IF ctl.quad THEN "QPP" ELSE "PP"), Addr(a)>>
                           \o [i \in DOMAIN words |-> WordOut(words[i])])
          /\ ctl' = [ctl EXCEPT !.wip = TRUE, !.xip = FALSE]

(* WBQSPI_IDLE_CHECK_WIP: the bus is free, and the chip was busy.          *)
IdleCheck == /\ ctl.wip /\ ReadEreg /\ UNCHANGED <<host, hist>>

(* Another program looks at the ID, configuration or status register.      *)
Peek == /\ host.pc = "idle" /\ ctl.xip
        /\ \E k \in {"RDID", "RDCR", "RDSR"} : chip' = Spi(Left, <<Cmd(k), WordIn>>)
        /\ ctl' = [ctl EXCEPT !.xip = FALSE] /\ UNCHANGED <<host, hist>>

ChipDone == /\ chip.wip /\ chip' = Finished(chip) /\ UNCHANGED <<ctl, host, hist>>

----------------------------------------------------------------------------
(* Words in the host's memory have their bytes in the other order.         *)
InMemory(w) == <<w[2], w[1]>>
ByteSwap(w) == <<w[2], w[1]>>
BuildWord(bytes) == bytes

(* zipload's buffer for the whole flash, and the jobs it makes of it.  The *)
(* alternate image goes to its place in the buffer, but what is written    *)
(* there comes from the buffer's start.  Sections of the program count up  *)
(* to the first empty one.                                                 *)
From(buf, a) == [i \in 1 .. FlashLen - a |-> buf[a + i - 1]]

Sections(exec) ==
  SubSeq(exec, 1, Min({i - 1 : i \in {j \in DOMAIN exec : exec[j].words = <<>>}}
                      \cup {Len(exec)}))

\* mutant: the start does not move down to a section below it
PlacedAbove(e, sec) ==
  LET ln == Min({Len(sec.words), FlashLen - sec.a})
  IN  IF sec.a > FlashLen THEN e
      ELSE [e EXCEPT !.buf = Loaded(e.buf, sec.a, SubSeq(sec.words, 1, ln)),
                     !.len = Max({@, sec.a + ln - e.start})]

Placed(e, sec) ==
  LET ln   == Min({Len(sec.words), FlashLen - sec.a})
      low  == IF sec.a < e.start THEN sec.a ELSE e.start
      code == e.len + (e.start - low)
  IN  IF sec.a > FlashLen THEN e
      ELSE [start |-> low, buf |-> Loaded(e.buf, sec.a, SubSeq(sec.words, 1, ln)),
            len |-> IF sec.a + ln > low + code THEN sec.a + Len(sec.words) - low ELSE code]

AllPlaced(buf, secs) ==
  LET placed[i \in 0 .. Len(secs)] ==
        IF i = 0 THEN [start |-> ResetA, len |-> 0, buf |-> buf] ELSE Placed(placed[i - 1], secs[i])
  IN  placed[Len(secs)]

Jobs(p) ==
  LET buf1 == Loaded([i \in Cells |-> Blank], 0, p.bit)
      buf2 == Loaded(buf1, AltA, p.alt)
      e    == AllPlaced(buf2, Sections(p.exec))
  IN  (IF p.bit = <<>> THEN <<>> ELSE <<[a |-> 0, len |-> Len(p.bit), data |-> From(buf1, 0)]>>)
      \o (IF p.alt = <<>> THEN <<>> ELSE <<[a |-> AltA, len |-> Len(p.alt), data |-> From(buf2, 0)]>>)
      \o (IF p.exec = <<>> THEN <<>> ELSE <<[a |-> e.start, len |-> e.len, data |-> From(e.buf, e.start)]>>)

Start == /\ host.pc = "idle" /\ hist.runs < MaxRuns
         /\ \E p \in Programs0 :
              /\ host' = [NoHost EXCEPT !.pc = "job", !.given = <<p>>, !.jobs = Jobs(p)]
              /\ hist' = [hist EXCEPT !.runs = @ + 1]
         /\ UNCHANGED <<chip, ctl>>

----------------------------------------------------------------------------
(* FLASHDRVR::write().                                                     *)
Job == Head(host.jobs)
End == Job.a + Job.len
Base == Max({Job.a, host.s})
\* mutant: the last word is not compared
SectorEndShort == Min({End, host.s + SectorW}) - 1

SectorEnd == Min({End, host.s + SectorW})
Wanted(a) == Job.data[a - Job.a + 1]
Goto(pc) == host' = [host EXCEPT !.pc = pc]
SameHist == UNCHANGED hist
SameBoard == UNCHANGED <<chip, ctl>>

Write == /\ host.pc = "job" /\ host.jobs # <<>>
         /\ host' = [host EXCEPT !.pc = "sector", !.s = SectorOf(Job.a) * SectorW]
         /\ hist' = [hist EXCEPT !.sectors = @ \cup {SectorOf(a) : a \in Job.a .. End - 1}]
         /\ SameBoard

(* A sector is compared: whether it has to be erased, and where the first  *)
(* page to be programmed starts.                                           *)
Compare ==
  /\ host.pc = "sector" /\ host.s < End /\ ReadStep(Base, SectorEnd - Base)
  /\ LET words == Read(Base, SectorEnd - Base)
         sbuf(a) == ByteSwap(InMemory(words[a - Base + 1]))
         differ == {a \in Base .. SectorEnd - 1 : sbuf(a) # Wanted(a)}
         erase == \E a \in differ : And(sbuf(a), Wanted(a)) # Wanted(a)
     IN  host' = IF differ = {} THEN [host EXCEPT !.s = @ + SectorW]
                 ELSE IF erase THEN [host EXCEPT !.pc = "unprotect", !.p = Base]
                 ELSE [host EXCEPT !.pc = "page", !.p = Min(differ)]

(* erase_sector().                                                         *)
Unprotect == /\ host.pc \in {"unprotect", "ready"} /\ Protect(FALSE)
             /\ Goto(IF host.pc = "unprotect" THEN "erase" ELSE "program") /\ SameHist
\* mutant: the sector's number for its address
EraseSectorNumber ==
  /\ host.pc = "erase" /\ Erase(SectorOf(host.s)) /\ Goto("erasing") /\ SameHist

EraseSector == /\ host.pc = "erase" /\ Erase(host.s) /\ Goto("erasing") /\ SameHist

(* flwait().                                                               *)
Wait == /\ host.pc \in {"erasing", "programming"} /\ ReadEreg /\ SameHist
        /\ Goto(IF ctl.wip /\ chip.wip THEN host.pc
                ELSE IF host.pc = "erasing" THEN "erased" ELSE "programmed")

(* The pages of the sector are looked at, but where they would be if an    *)
(* address counted words: the first quarter.                               *)
Checked == host.s .. host.s + ((NPages - 1) * PageW) \div 4 + PageW - 1
VerifyErase ==
  /\ host.pc = "erased" /\ ReadStep(host.s, Cardinality(Checked))
  /\ Goto(IF Range(Read(host.s, Cardinality(Checked))) = {Blank} THEN "page" ELSE "failed")

(* The pages.  The length of a page is computed from itself, before it has *)
(* a value; if the result crosses the page's end, it is cut off there.     *)
PageEnd == (PageOf(host.p) + 1) * PageW
MorePages == host.p < Min({host.s + SectorW, End})
Page ==
  /\ host.pc = "page"
  /\ \/ ~MorePages /\ host' = [host EXCEPT !.pc = "sector", !.s = @ + SectorW] /\ SameHist
     \/ /\ MorePages
        /\ \E g \in Garbage :
             LET len == IF PageOf(host.p + g - 1) # PageOf(host.p) THEN PageEnd - host.p ELSE g
                 empty == \A a \in host.p .. host.p + len - 1 : Wanted(a) = Blank
             IN  /\ host' = [host EXCEPT !.len = len, !.n = 0,
                      !.pc = IF len = 0 THEN "aborted" ELSE IF empty THEN "programmed" ELSE "ready"]
                 /\ hist' = [hist EXCEPT !.short = @ \/ host.p + len < Min({PageEnd, End})]
  /\ SameBoard

(* page_program(): a burst, in which pauses may fall.                      *)
ProgramPage ==
  /\ host.pc = "program" /\ SameHist
  /\ \E m \in 1 .. host.len - host.n :
       /\ Program(host.p + host.n,
                  [i \in 1 .. m |-> BuildWord(Wanted(host.p + host.n + i - 1))])
       /\ host' = [host EXCEPT !.n = @ + m,
                     !.pc = IF host.n + m = host.len THEN "programming" ELSE @]

VerifyPage ==
  /\ host.pc = "programmed" /\ ReadStep(host.p, host.len)
  /\ host' = IF Read(host.p, host.len) = [i \in 1 .. host.len |-> Wanted(host.p + i - 1)]
             THEN [host EXCEPT !.pc = "page", !.p = PageEnd]
             ELSE [host EXCEPT !.pc = "failed"]

Return == /\ host.pc = "sector" /\ host.s >= End /\ Protect(TRUE) /\ Goto("true") /\ SameHist

(* zipload goes on, or, when the program could not be written, gives up;   *)
(* what write() returned for an image it does not look at.  Without a bit  *)
(* file, an assertion looks at a size that was never set.                  *)
Given == Head(host.given)
LastIsExec == Len(host.jobs) = 1 /\ Given.exec # <<>>
NextJob == /\ host.pc \in {"true", "failed"} /\ SameBoard /\ SameHist
           /\ host' = [host EXCEPT !.jobs = Tail(@),
                  !.pc = IF host.pc = "failed" /\ LastIsExec THEN "exit" ELSE "job"]
Exit == /\ \/ host.pc \in {"exit", "aborted"}
           \/ host.pc = "job" /\ (host.jobs = <<>> \/ Given.bit = <<>>)
        /\ host' = NoHost /\ SameBoard /\ SameHist

(* The program is killed, or the board is configured again while the chip  *)
(* keeps its power; the connection breaks and the program ends.            *)
Kill == host.pc # "idle" /\ host' = NoHost /\ SameBoard /\ SameHist
Reset == /\ hist.resets < MaxResets
         /\ ctl' = CtlReset /\ host' = NoHost
         /\ chip' = IF chip.state = "xip" THEN [chip EXCEPT !.state = "idle"] ELSE chip
         /\ hist' = [hist EXCEPT !.resets = @ + 1, !.busy = @ \/ chip.wip]

Driver == \/ Write \/ Compare \/ Unprotect \/ EraseSector \/ Wait \/ VerifyErase \/ Page
          \/ ProgramPage \/ VerifyPage \/ Return
Next == \/ Start \/ Driver \/ NextJob \/ Exit \/ Kill \/ Reset
        \/ IdleCheck \/ Peek \/ ChipDone
Spec == Init /\ [][Next]_vars

----------------------------------------------------------------------------
TypeInv == /\ host.pc \in {"idle", "job", "sector", "unprotect", "erase", "erasing", "erased",
                           "page", "ready", "program", "programming", "programmed",
                           "true", "failed", "exit", "aborted"}
           /\ chip.mem \in [Cells -> Word] /\ chip.state \in {"idle", "xip"}

Sound == ~hist.blind /\ ~hist.short

(* When write() returns true, the flash holds what it was given            *)
(* (page_program's verification, the comparison), whatever was interrupted *)
(* or restarted before and wherever the bursts paused; but not if a board  *)
(* restarted while the chip was busy read from it, or a page's length came *)
(* out short.                                                              *)
WriteIsTrue == host.pc = "true" /\ Sound
                 => \A a \in Job.a .. End - 1 : chip.mem[a] = Wanted(a)

(* Controller and chip understand each other: the chip refuses no command *)
(* (wbqspiflashp.v write_in_progress, WEN before each), unless the board   *)
(* was restarted while it was busy, and they agree on whether the next     *)
(* thing sent is a command (WBQSPI_RDIDLE, WBQSPI_WBDECODE).               *)
ChipUnderstands == /\ chip.refused => hist.busy
                   /\ ~chip.confused /\ (ctl.xip <=> chip.state = "xip")

(* Sectors nobody wrote to keep their contents.                            *)
OthersKept == \A a \in Cells : SectorOf(a) \notin hist.sectors
                                 => chip.mem[a] = hist.orig[a]

(* When zipload ends well, every section of the program it was given, up  *)
(* to an empty one, is in its place in the flash (main's spans).           *)
EndsWell == host.pc = "job" /\ host.jobs = <<>> /\ Sound
Holds(a, words) == \A i \in DOMAIN words : chip.mem[a + i - 1] = words[i]
ProgramLoaded == EndsWell => \A i \in DOMAIN Sections(Given.exec) :
                   LET sec == Given.exec[i]
                   IN  sec.a + Len(sec.words) <= FlashLen => Holds(sec.a, sec.words)

(* The alternate image, zipload says, is loaded too.                       *)
AlternateLoaded == EndsWell => Holds(AltA, Given.alt)
=============================================================================
