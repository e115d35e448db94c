----------------------------- MODULE MCKEvents ------------------------------
(***************************************************************************)
(* Small instances of KEvents for TLC.                                     *)
(***************************************************************************)
EXTENDS KEvents

None == {}
Task0 == {0}
Keypad == {"KEYPAD"}

Call(m, n) == [mask |-> m, timeout |-> n]

\* For ever or for a time, on events or for a time alone.
MixedWaits == {Call({"PPS"}, 1), Call({"PPS", "KEYPAD"}, -1)}
LiveWaits  == {Call({}, 1), Call({"BUTTON"}, -1)}

\* doorbell_task: polls while it writes, then waits for ever.
PollWaits  == {Call({"PPS"}, 0), Call({"PPS"}, -1)}

\* menu_task: waits for a key, then lets it settle.
MenuWaits == {Call({}, 3), Call({"KEYPAD"}, -1)}

\* A wait that an event can end before its time, then a longer one.
StaleWaits == {Call({"PPS"}, 1), Call({}, 3)}

PostPps == {{"PPS"}}
KeyClears == {Call({"KEYPAD"}, 0)}

\* INT_KEYPAD, 0x100, scaled to Half.
Value == [m \in {{"KEYPAD"}} |-> 2]
=============================================================================
