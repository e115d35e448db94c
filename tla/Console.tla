------------------------------ MODULE Console -------------------------------
(***************************************************************************)
(* The programs that run without the kernel and poll the interrupt         *)
(* controller instead: txchr (sw/dev/txfns.c), _outbyte (sw/zlib), and the *)
(* loops of helloworld, uartecho, doorbell, doorbell2 and blinky.          *)
(*                                                                         *)
(* Every action is one clock, as in IntPath: the program makes one bus     *)
(* cycle, or is busy with something else.                                  *)
(***************************************************************************)
EXTENDS Integers, Sequences, IControl, UartPort, PwmAudio

CONSTANTS Text,         \* what is printed: "nl" is a line feed
          Samples,      \* how many are played
          MaxTicks

VARIABLES program, pc,
          pic,                  \* its copy of the interrupt controller's register
          sent,                 \* characters written to the port so far
          txBusy, played, unplayed,
          fresh, got, lost,     \* bytes received: as they come, as they are read, and
                                \* those that were never read
          out,                  \* what the transmitter has taken
          ticks, tick, seconds  \* of the timer: strobed, high, counted

hw == <<icontrolVars, portVars, audioVars, txBusy>>
vars == <<program, pc, pic, sent, hw, played, unplayed, fresh, got, lost, out, ticks, tick,
          seconds>>

Programs == [txchr |-> "clear", outbyte |-> "clear", hello |-> "poll", echo |-> "clearrx",
             doorbell |-> "pic", doorbell2 |-> "pic", blinky |-> "timer"]

\* Each of them has cleared and disabled all interrupts (INT_CLEARPIC).
Init == /\ program \in DOMAIN Programs /\ pc = Programs[program]
        /\ IControlInit /\ PortInit("none") /\ AudioInit
        /\ pic = {} /\ sent = 0 /\ txBusy \in BOOLEAN
        /\ played = 0 /\ unplayed = 0
        /\ fresh = 0 /\ got = <<>> /\ lost = {} /\ out = <<>>
        /\ ticks = 0 /\ tick = FALSE /\ seconds = 0

\* _outbyte sends a carriage return before a line feed; nobody else does.
Bytes(ch) == IF ch = "nl" /\ program = "outbyte" THEN <<"cr", "nl">> ELSE <<ch>>
Expected == IF program = "echo" THEN got
            ELSE IF Len(Text) = 2 THEN Bytes(Text[1]) \o Bytes(Text[2]) ELSE Bytes(Text[1])
More == sent < Len(Expected)

-----------------------------------------------------------------------------
(***************************************************************************)
(* The hardware                                                            *)
(***************************************************************************)
Cycle(to, word) == [to |-> to, word |-> word]
NoCycle == Cycle("none", 0)
ClearPic(lines) == Cycle("pic", Word(FALSE, {}, lines))
WordsFor(reg, c) == {w \in {c.word} : c.to = reg}
High == [TIMER |-> tick, UARTRX |-> rxRdy, UARTTX |-> ~txStb, AUDIO |-> audioInt]

\* A second is longer than what a program does between two looks at its timer, and
\* blinky's quarter of one is longer than a byte takes.
Timer == tick' \in IF ticks < MaxTicks /\ "TIMER" \notin intState \cup pic /\ seconds = ticks
                      /\ (program = "blinky" => ~txStb /\ ~txBusy)
                   THEN BOOLEAN ELSE {FALSE}

Receiver(c) ==
    \E new \in {{}} \cup {{n} : n \in {fresh + 1} \cap 1 .. Len(Text)} :
        /\ program = "echo" \/ new = {}
        /\ RxPortClock(c.to = "read", new)
        /\ fresh' = fresh + IF new # {} THEN 1 ELSE 0
        /\ lost' = IF new # {} /\ rxRdy /\ c.to # "read" THEN lost \cup {rxData} ELSE lost

\* One clock.  A sample may be taken by the speaker in any of them.
Clock(c) ==
    /\ IControlClock(WordsFor("pic", c), {l \in Lines : High[l]})
    /\ TxPortClock(WordsFor("uart", c), txBusy)
    /\ txBusy' \in IF txBusy THEN BOOLEAN ELSE {txStb}
    /\ out' = IF txStb /\ ~txBusy THEN Append(out, txData) ELSE out
    /\ Receiver(c)
    /\ \E ztimer \in BOOLEAN :
         LET kept == IF ztimer THEN 0 ELSE unplayed
         IN  /\ AudioClock(c.to = "pwm", ztimer)
             /\ unplayed' = kept + IF c.to = "pwm" THEN 1 ELSE 0
    /\ Timer
    /\ ticks' = ticks + IF tick' THEN 1 ELSE 0

Step(at, cycle, next) == pc = at /\ pc' = next /\ Clock(cycle) /\ UNCHANGED program
Waits(at) == pc = at /\ Clock(NoCycle) /\ UNCHANGED <<program, pc>>
work == <<pic, sent, played, got, seconds>>

-----------------------------------------------------------------------------
(***************************************************************************)
(* The programs                                                            *)
(***************************************************************************)
\* Something that is not on the bus.
Busy == pc # "end" /\ Waits(pc) /\ UNCHANGED work

\* To know whether the transmitter is ready: clear its interrupt, and see
\* whether it comes back.
Clear == /\ More
         /\ Step("clear", ClearPic({"UARTTX"}), "poll") /\ UNCHANGED work
Poll == /\ More
        /\ Step("poll", NoCycle, IF "UARTTX" \in intState THEN "send" ELSE "poll")
        /\ UNCHANGED work

NextTo == [txchr |-> "ack", hello |-> "ack", outbyte |-> "clear", echo |-> "clearrx",
           doorbell |-> "ackall", doorbell2 |-> "ack", blinky |-> "ack"]
Send == /\ More
        /\ Step("send", Cycle("uart", Expected[sent + 1]), NextTo[program])
        /\ sent' = sent + 1 /\ UNCHANGED <<pic, played, got, seconds>>

\* "Give the transmitter a chance to finish, and then to create an interrupt."
AckNothing == {}                                                \* mutant
AckTx == {"UARTTX"}
AfterAck == CASE program = "txchr" -> "clear" [] program = "hello" -> "poll"
              [] program = "doorbell2" -> "sound"
Ack == /\ Step("ack", ClearPic(AckTx), AfterAck) /\ UNCHANGED work

\* uartecho
ClearRx == /\ Step("clearrx", ClearPic({"UARTRX"}), "pollrx") /\ UNCHANGED work
PollRx == /\ Step("pollrx", NoCycle, IF "UARTRX" \in intState THEN "read" ELSE "pollrx")
          /\ UNCHANGED work
Read == /\ Step("read", Cycle("read", 0), "clear")
        /\ got' = Append(got, rxData) /\ UNCHANGED <<pic, sent, played, seconds>>

\* doorbell and doorbell2 play their samples, print, and count seconds in one loop.
ReadPic == /\ Step("pic", NoCycle,
                   IF program = "doorbell2" /\ "TIMER" \in intState THEN "second"
                   ELSE IF "UARTTX" \in intState /\ More THEN "send"
                   ELSE IF program = "doorbell" THEN "ackall" ELSE "sound")
           /\ pic' = intState
           /\ seconds' = IF program = "doorbell" /\ "TIMER" \in intState THEN seconds + 1
                                                                          ELSE seconds
           /\ UNCHANGED <<sent, played, got>>

\* doorbell clears what it has read of the register.
AckEverything == Lines                                          \* mutant: 0x7fff
AckRead == pic
AckAll == /\ Step("ackall", ClearPic(AckRead), "sound")
          /\ UNCHANGED work
\* doorbell2 only the second it has counted.
Second == /\ Step("second", ClearPic({"TIMER"}),
                  IF "UARTTX" \in pic /\ More THEN "send" ELSE "sound")
          /\ seconds' = seconds + 1 /\ UNCHANGED <<pic, sent, played, got>>

Again == "AUDIO" \notin pic
NoSample == /\ pc = "sound" /\ Again
            /\ Step("sound", NoCycle, "pic") /\ pic' = {}
            /\ UNCHANGED <<sent, played, got, seconds>>
Sample == /\ pc = "sound" /\ ~Again /\ played < Samples
          /\ Step("sound", Cycle("pwm", 0), "acksound")
          /\ played' = played + 1 /\ UNCHANGED <<pic, sent, got, seconds>>
AckSound == /\ Step("acksound", ClearPic({"AUDIO"}),
                    IF played < Samples THEN "pic" ELSE "end")
            /\ pic' = {} /\ UNCHANGED <<sent, played, got, seconds>>

\* blinky does not ask whether the transmitter is ready.
WaitTimer == /\ Step("timer", NoCycle, IF "TIMER" \notin intState THEN "timer"
                                       ELSE IF More THEN "send" ELSE "ack")
             /\ seconds' = IF "TIMER" \in intState THEN seconds + 1 ELSE seconds
             /\ pic' = IF "TIMER" \in intState THEN {"TIMER"} ELSE {}
             /\ UNCHANGED <<sent, played, got>>
AckTimer == /\ Step("ack", Cycle("pic", Word(TRUE, {"TIMER"}, {"TIMER"})), "timer")
            /\ pic' = {} /\ UNCHANGED <<sent, played, got, seconds>>

Of(p, A) == program = p /\ A
TxStr == Of("txchr", Clear \/ Poll \/ Send \/ Ack)
OutByte == Of("outbyte", Clear \/ Poll \/ Send)
HelloWorld == Of("hello", Poll \/ Send \/ Ack)
UartEcho == Of("echo", ClearRx \/ PollRx \/ Read \/ Clear \/ Poll \/ Send)
PlayDoorbell == Of("doorbell", ReadPic \/ Send \/ AckAll \/ NoSample \/ Sample \/ AckSound)
PlayDoorbell2 ==
    Of("doorbell2", ReadPic \/ Second \/ Send \/ Ack \/ NoSample \/ Sample \/ AckSound)
Blinky == Of("blinky", WaitTimer \/ Send \/ AckTimer)

Next == \/ Busy \/ TxStr \/ OutByte \/ HelloWorld \/ UartEcho
        \/ PlayDoorbell \/ PlayDoorbell2 \/ Blinky

Spec == Init /\ [][Next]_vars

-----------------------------------------------------------------------------
(***************************************************************************)
(* Properties                                                              *)
(***************************************************************************)
\* No character is written over one that the transmitter has not taken, though it says
\* that it is ready by an interrupt that these programs clear themselves (txfns.c:57):
\* what was taken and what waits is what was written, in order.
NothingTypedOver ==
    out \o (IF txStb THEN <<txData>> ELSE <<>>) = SubSeq(Expected, 1, sent)

\* uartecho sends back what came: each byte once, in order, unless the next one came
\* before it was read.
EchoIsTrue ==
    /\ \A i, j \in 1 .. Len(got) : i < j => got[i] < got[j]
    /\ \A n \in 1 .. fresh : n \in lost \/ (rxRdy /\ rxData = n) \/ \E i \in 1 .. Len(got) : got[i] = n

\* A sample does not replace one that was not played, and every second is counted,
\* though the interrupts that are cleared at once are those of one look (doorbell.c:75).
SecondsAndSamples ==
    /\ unplayed <= 1
    /\ (program \in {"doorbell", "doorbell2", "blinky"} /\ pc # "end") =>
         (seconds < ticks => tick \/ "TIMER" \in intState)
=============================================================================
