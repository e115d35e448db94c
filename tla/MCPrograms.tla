----------------------------- MODULE MCPrograms -----------------------------
(***************************************************************************)
(* The software on the board and what it runs from, part by part: the      *)
(* program that writes all of it into the flash (Flash), the application   *)
(* (Doorbell), the pipe its sound goes through (SysPipe), the keypad       *)
(* (Keypad), the start (Startup), the programs without a kernel (Console), *)
(* the CPU's bus to RAM and flash (CpuBus); and functions without any      *)
(* state, of the board and of the host (Library, AddressMap, ScopePrint).  *)
(* path says which part a behaviour is about.  The flash has variables of  *)
(* its own; the other parts share x1 to x25.                               *)
(***************************************************************************)
EXTENDS Flash

(***************************************************************************)
(* A flash of four sectors of sixteen words: the main image's, the         *)
(* alternate one's, and two for the program; what it may hold at first and *)
(* what zipload is given to write.                                         *)
(***************************************************************************)
wa == <<0, 1>>
wb == <<1, 0>>
wo == <<0, 0>>
Section(at, words) == [a |-> at, words |-> words]
Program1 == <<Section(46, <<wa, Blank, wo, wb, wa>>), Section(30, <<wb>>)>>
Program2 == <<Section(40, <<wa, wb>>), Section(48, <<>>), Section(50, <<wa>>)>>
ToWrite(bit, alt, exec) == [bit |-> bit, alt |-> alt, exec |-> exec]
MCPrograms0 == {ToWrite(<<>>, <<>>, Program1), ToWrite(<<wa, wb, wo>>, <<>>, Program2)}

Old == [i \in Cells |-> IF i % 3 = 0 THEN wa ELSE IF i % 16 < 8 THEN wb ELSE Blank]
MCContents == {[i \in Cells |-> Blank], Old, Loaded(Old, 32, [i \in 1 .. 32 |-> wo])}

(***************************************************************************)
(* The other parts.                                                        *)
(***************************************************************************)
VARIABLES path, x1, x2, x3, x4, x5, x6, x7, x8, x9, x10, x11, x12, x13, x14, x15, x16,
          x17, x18, x19, x20, x21, x22, x23, x24, x25

\* A key and the bell; a time entered and left to run; the bell twice, and its end.
S(keys, presses, secs) == [keys |-> keys, presses |-> presses, seconds |-> secs]
MCScenarios == {S(2, 1, 5), S(7, 0, 9), S(1, 2, 5)}
Bell == INSTANCE Doorbell WITH
  NTasks <- 4, Scenarios <- MCScenarios, KeyCodes <- {1, 10, 12}, TicksPerSecond <- 3,
  DebounceMs <- 1, PollMs <- 1, NoticeMs <- 4, SetMs <- 1, KeypadMask <- 2, HalfHour <- 3,
  MenuTimeout <- 3, Chunks <- 2, SafeChunks <- 1, Ring <- 63, MaxLag <- 1, Apart <- TRUE,
  task <- x1, current <- x2, ticks <- x3, seconds <- x4, timer <- x5, rtcclock <- x6,
  dawn <- x7, dusk <- x8, bell <- x9, lamp <- x10, lcd <- x11, menu <- x12, down <- x13,
  kpbit <- x14, budget <- x15, lag <- x16, hist <- x17

MCText == <<"x", "nl">>
Lens24 == {2, 4}

Audio == INSTANCE SysPipe WITH
  NTasks <- 4, Size <- 8, IntReader <- "audio", IntWriter <- FALSE, Readers <- {},
  Writers <- {0}, ReadLens <- {}, WriteLens <- Lens24, Limit <- 6,
  head <- x1, tail <- x3, buf <- x5, error <- x6, rdtask <- x7,
  wrtask <- x8, nread <- x9, nwritten <- x10, state <- x11, arg <- x12, pc <- x13,
  nleft <- x14, src <- x15, h <- x16, navail <- x17, current <- x2,
  phase <- x4, trap <- x18, gie <- x19, dev <- x20, audiostate <- x21, accepted <- x22,
  out <- x23, asked <- x24, ret <- x25

Bare == INSTANCE Console WITH
  Lines <- {"TIMER", "UARTRX", "UARTTX", "AUDIO"}, Text <- MCText, Samples <- 2,
  MaxTicks <- 2,
  program <- x1, pc <- x2, pic <- x3, sent <- x5, intState <- x6,
  intEnable <- x7, gie <- x8, any <- x9, interrupt <- x10, txStb <- x11,
  txData <- x12, rxRdy <- x13, rxData <- x14, nextValid <- x15, audioInt <- x16,
  txBusy <- x17, played <- x18, unplayed <- x19, fresh <- x20, got <- x21, lost <- x22,
  out <- x23, ticks <- x24, tick <- x25, seconds <- x4

Keys == INSTANCE Keypad WITH
  MaxMoves <- 1,
  down <- x1, low <- x2, look <- x3, row <- x4, col <- x5,
  key <- x6, seen <- x7, moves <- x8

Boot == INSTANCE Startup WITH
  Image <- 2, Cleared <- 4, RamEnd <- 8192, KernelStack <- 1024, MaxResets <- 2,
  pc <- x1, ram <- x2, mem <- x3, heap <- x4, objects <- x5,
  resets <- x6

\* Two words of RAM, two of flash, and nothing between and behind them.
Op(we, a) == [we |-> we, a |-> a]
MCOps == {Op(FALSE, 0), Op(FALSE, 2), Op(TRUE, 2), Op(FALSE, 5)}
Memory == INSTANCE CpuBus WITH
  Ram <- {1, 2}, FlashMem <- {4, 5}, Datum <- 2, Targets <- {1, 2, 4}, Ops <- MCOps,
  Anytime <- FALSE, MaxWait <- 121, MaxMem <- 46,
  fetch <- x1, mem <- x2, bus <- x3, flash <- x4, pins <- x5,
  chip <- x6

Lib == INSTANCE Library
Map == INSTANCE AddressMap
Dump == INSTANCE ScopePrint WITH MaxRun <- 3

\* The calls of library functions.
Calls(fn, args) == [fn : {fn}, x : args]
TwoStrings(chars) ==
  {m \in [0 .. 7 -> chars] : (\E i \in 0 .. 3 : m[i] = 0) /\ (\E i \in 4 .. 7 : m[i] = 0)}
Segments == [file : {0, 1, 6, 20}, mem : {4, 20}]
MCCalls ==
  Calls("memcpy", (0 .. 3) \X (64 .. 67) \X (0 .. 70)) \cup
  Calls("strings", TwoStrings(0 .. 2)) \cup
  Calls("udiv", (0 .. 255) \X (1 .. 255)) \cup
  Calls("div", {-128, -127, -65, -1, 0, 1, 64, 127} \X ((-128 .. 127) \ {0})) \cup
  Calls("hex", {-32768, -171, -1, 0, 9, 10, 2748, 32767} \X {0}) \cup
  Calls("time", (0 .. 23) \X {0, 8, 9, 19, 49, 59} \X {0, 8, 9, 39, 58, 59}) \cup
  Calls("date", {1999, 2009, 2017, 2099, 2999} \X (1 .. 12) \X {1, 8, 9, 19, 28, 29, 30, 31}) \cup
  Calls("display", (0 .. 255) \X {0}) \cup
  Calls("codes", (0 .. 255) \X (0 .. 3)) \cup
  Calls("elf", UNION {[1 .. n -> Segments] : n \in 1 .. 3}) \cup
  Calls("bitfile", {0, 1, 170, 171, 172, 173, 190} \X {0, 11, 12, 13, 17}) \cup
  Calls("zipload", UNION {[1 .. n -> {"-d", "-h", "-x", "elf", "bit", "unreadable"}] : n \in 0 .. 4}) \cup
  Calls("typing", {2} \X UNION {[1 .. n -> {"nothing", "cr", "nl", "x"}] : n \in 1 .. 5}) \cup
  Calls("name", (1 .. Len(Map!Bregs)) \X {0}) \cup
  Calls("words", {Map!IoSpace, Map!WbScope}) \cup
  Calls("line", DOMAIN Map!IntBits) \cup
  Calls("region", UNION {({b - 2, b - 1, b, b + 1, b + 100}) \X {1, 2, 99, 2^14 - 1, 2^14, 2^24 - 1} :
                          b \in {2^14, 2^15 - 100, 2^15, 2^24, 2^25 - 100}}) \cup
  Calls("compressed", UNION {[1 .. n -> 0 .. 2] : n \in 1 .. 7}) \cup
  Calls("plain", UNION {[1 .. n -> 0 .. 2] : n \in 1 .. 6}) \cup
  Calls("trace", {1, 2, 4} \X (0 .. 6) \X (0 .. 255)) \cup
  Calls("fields", {0})

\* What such a call is to return, by the module of its function.
CallIsRight(c) ==
  CASE c.fn = "name"       -> Map!NameIsRight(c.x[1])
    [] c.fn = "words"      -> Map!WordsAreRight(c.x)
    [] c.fn = "line"       -> Map!LineIsRight(c.x)
    [] c.fn = "region"     -> Map!RegionIsThere(c.x[1], c.x[2])
    [] c.fn = "compressed" -> Dump!CompressedIsTrue(c.x)
    [] c.fn = "plain"      -> Dump!PlainIsTrue(c.x)
    [] c.fn = "trace"      -> Dump!TraceIsTrue(c.x[1], c.x[2], c.x[3])
    [] c.fn = "fields"     -> Dump!KeysDiffer /\ Dump!FieldsAreWires
    [] OTHER               -> Lib!CallIsRight(c)

\* What a part does not use.
x9to17 == <<x9, x10, x11, x12, x13, x14, x15, x16, x17>>
x18to25 == <<x18, x19, x20, x21, x22, x23, x24, x25>>
NoneFrom18 == /\ x18 = 0 /\ x19 = 0 /\ x20 = 0 /\ x21 = 0 /\ x22 = 0 /\ x23 = 0 /\ x24 = 0
              /\ x25 = 0
NoneFrom9 == /\ x9 = 0 /\ x10 = 0 /\ x11 = 0 /\ x12 = 0 /\ x13 = 0 /\ x14 = 0 /\ x15 = 0
             /\ x16 = 0 /\ x17 = 0 /\ NoneFrom18
NoneFrom7 == x7 = 0 /\ x8 = 0 /\ NoneFrom9
NoneFrom2 == x2 = 0 /\ x3 = 0 /\ x4 = 0 /\ x5 = 0 /\ x6 = 0 /\ NoneFrom7
Unused7 == UNCHANGED <<x7, x8, x9to17, x18to25>>
\* No flash: of nothing, and all of its sectors written to.
NoFlash == /\ chip = Chip(<<>>) /\ ctl = CtlReset /\ host = NoHost
           /\ hist = [orig |-> <<>>, sectors |-> 0 .. NSectors - 1, busy |-> FALSE, blind |-> FALSE,
                      short |-> FALSE, runs |-> 0, resets |-> 0]

MCInit == \/ path = "flash" /\ Init /\ x1 = 0 /\ NoneFrom2
          \/ /\ NoFlash
             /\ \/ path = "bell" /\ Bell!Init /\ NoneFrom18
                \/ path = "sound" /\ Audio!Init
                \/ path = "bare" /\ Bare!Init
                \/ path = "keypad" /\ Keys!Init /\ NoneFrom9
                \/ path = "boot" /\ Boot!BootInit /\ NoneFrom7
                \/ path = "memory" /\ Memory!Init /\ NoneFrom7
                \/ path = "call" /\ x1 \in MCCalls /\ NoneFrom2

MCNext == /\ UNCHANGED path
          /\ \/ path = "flash" /\ Next /\ UNCHANGED <<x1, x2, x3, x4, x5, x6>> /\ Unused7
             \/ /\ UNCHANGED vars
                /\ \/ path = "bell" /\ Bell!Next /\ UNCHANGED x18to25
                   \/ path = "sound" /\ Audio!Next
                   \/ path = "bare" /\ Bare!Next
                   \/ path = "keypad" /\ Keys!Next /\ UNCHANGED <<x9to17, x18to25>>
                   \/ path = "boot" /\ Boot!BootNext /\ Unused7
                   \/ path = "memory" /\ Memory!Next /\ Unused7

MCSpec == MCInit /\ [][MCNext]_<<path, vars, x1, x2, x3, x4, x5, x6, x7, x8, x9to17, x18to25>>

-----------------------------------------------------------------------------
\* The clock that the application keeps and lets be set (Doorbell).
ClockIsRight == path = "bell" => Bell!TimeIsRight
\* Its light, and its menus (Doorbell).
BellAndMenus == path = "bell" => Bell!LampIsDue /\ Bell!MenusClose
\* Samples are played in order, none lost or repeated (SysPipe).
SoundInOrder == path = "sound" => Audio!InOrder
\* The programs without a kernel lose no character, sample or second (Console).
PollingKeepsUp ==
  path = "bare" => Bare!NothingTypedOver /\ Bare!EchoIsTrue /\ Bare!SecondsAndSamples
\* Every way to the kernel's first task leaves the memory as it should (Startup).
StartsRight == path = "boot" => Boot!ImageLoaded /\ Boot!SetupApart
\* The CPU is given the instructions and data it asks for, and soon (CpuBus).
AccessesAreTrue ==
  path = "memory" => Memory!FetchIsTrue /\ Memory!OperationIsTrue /\ Memory!ChipIsRead
                     /\ Memory!NobodyWaits
\* Functions return what they are for (Library, AddressMap, ScopePrint), and the keypad's
\* keys are those that were pressed (Keypad).
FunctionsAreRight ==
  /\ path = "call" => CallIsRight(x1)
  /\ path = "keypad" => Keys!ReadIsHonest /\ Keys!HeldIsRead
=============================================================================
