----------------------------- MODULE FlashXpress -----------------------------
(***************************************************************************)
(* The flash as the CPU sees it: the controller (rtl/qflashxpress.v), the  *)
(* registers at the pins (rtl/toplevel.v) and the chip in continuous read, *)
(* one action for one edge of the clock.  All shift registers of the       *)
(* controller are loaded together and shift together, so that the clocks   *)
(* since, n, stand for busy_pipe, clk_pipe, mod_pipe and data_pipe.  What   *)
(* a register holds is forgotten when nothing looks at it any more.        *)
(***************************************************************************)
LOCAL INSTANCE Integers

VARIABLES flash,        \* maint: maintenance; n, at (data_pipe's address), last
                        \* (last_addr), pre, pipe, stall, acked (ack_pipe), ack,
                        \* and word: what o_wb_data holds the last nibbles of
          pins,         \* r_qspi_*: the clock, and the nibble driven, if any
          chip          \* edges since it was selected, its address, bad
flashVars == <<flash, pins, chip>>

Shifted == 22           \* all bits of busy_pipe
Pipelined == 14         \* the zeroes of 22'h3fc000
Nibbles == 8            \* of a word
Dummy == 12             \* edges before the chip drives: address, mode, dummies

FlashInit ==
    /\ flash = [maint |-> TRUE, n |-> 0, at |-> -1, last |-> -1, pre |-> FALSE,
                pipe |-> FALSE, stall |-> TRUE, acked |-> FALSE, ack |-> FALSE,
                word |-> [a |-> -1, run |-> 0]]
    /\ pins = [sck |-> "command", nibble |-> <<>>]
    /\ chip = [edges |-> 0, at |-> -1, bad |-> FALSE]

FlashHas(a) == flash.word = [a |-> a, run |-> Nibbles]

-----------------------------------------------------------------------------
\* What the controller puts into the registers at the pins: o_qspi_sck and
\* o_qspi_cs_n are high after 22 clocks; data is driven for the first ten.
Sck == CASE flash.maint     -> "command"
         [] flash.n = 0     -> "selected"
         [] flash.n < Shifted -> "edge"
         [] OTHER           -> "idle"
Driven == IF flash.n < 10 /\ ~flash.maint
          THEN <<flash.at, IF flash.n = 0 THEN 0 ELSE flash.n - 1>> ELSE <<>>

\* The chip takes six nibbles of address and two of mode, and after four more
\* edges sends one nibble after each.
Understands(e) ==
    IF e <= Nibbles THEN pins.nibble # <<>> /\ pins.nibble[2] = e - 1
                         /\ (e > 1 => pins.nibble[1] = chip.at)
    ELSE e >= Dummy => pins.nibble = <<>>
ChipClock ==
    chip' = IF pins.sck # "edge"
            THEN [edges |-> IF pins.sck = "idle" THEN 0 ELSE chip.edges, at |-> -1,
                  bad |-> chip.bad \/ (pins.sck = "selected" /\ chip.edges > 0)]
            ELSE LET e == chip.edges + 1
                 IN  [edges |-> e, bad |-> chip.bad \/ ~Understands(e),
                      at |-> IF e = 1 THEN pins.nibble[1] ELSE chip.at]

\* o_wb_data shifts in the nibble at the pins.
ShiftedIn ==
    LET k == chip.edges - Dummy
        a == chip.at + k \div Nibbles
    IN  IF k < 0 THEN [a |-> -1, run |-> 0]
        ELSE IF k % Nibbles = 0 THEN [a |-> a, run |-> 1]
        ELSE IF flash.word = [a |-> a, run |-> k % Nibbles] THEN [a |-> a, run |-> (k % Nibbles) + 1]
        ELSE [a |-> -1, run |-> 0]

\* w_pipe_condition
Follows(stb, a) == flash.pre /\ stb /\ flash.last + 1 = a

\* mutant: what was broken off is acknowledged all the same
PreAckKept(cyc, taken) ==
    ~flash.maint /\ (taken \/ (flash.pre /\ (flash.ack => flash.pipe)))
PreAck(cyc, taken) ==
    ~flash.maint /\ cyc /\ (taken \/ (flash.pre /\ (flash.ack => flash.pipe)))

\* One clock with these inputs.  Maintenance ends when it ends.
FlashClock(cyc, stb, a) ==
    LET taken == stb /\ ~flash.stall
    IN  /\ \E more \in (IF flash.maint THEN BOOLEAN ELSE {FALSE}) :
             flash' = [maint |-> more,
                       n |-> CASE flash.maint \/ (taken /\ ~flash.pipe) -> 0
                               [] taken /\ flash.pipe -> Pipelined
                               [] flash.n = Shifted   -> Shifted
                               [] OTHER               -> flash.n + 1,
                       at |-> IF taken THEN a ELSE IF flash.n >= 10 THEN -1 ELSE flash.at,
                       last |-> IF taken THEN a ELSE IF flash.pre THEN flash.last ELSE -1,
                       pre |-> PreAck(cyc, taken),
                       pipe |-> Follows(stb, a),
                       stall |-> taken \/ flash.n <= 19 \/ (flash.n <= 20 /\ ~flash.pipe),
                       acked |-> flash.pre /\ flash.n = 20,
                       ack |-> flash.pre /\ flash.acked,
                       word |-> ShiftedIn]
        /\ pins' = [sck |-> Sck, nibble |-> Driven]
        /\ ChipClock
=============================================================================
