------------------------------- MODULE Keypad -------------------------------
(***************************************************************************)
(* keypadread (sw/dev/keypad.c) against the keypad: sixteen keys, numbered *)
(* row + 4 * column.  The program drives some columns low and sees which   *)
(* rows are pulled low by a key that is down.  A key may go up or down     *)
(* between two of its looks.                                               *)
(***************************************************************************)
EXTENDS Integers, FiniteSets

CONSTANT MaxMoves       \* how often keys go up or down during a read

Lines == 0 .. 3
Keys == 0 .. 15
Row(k) == k % 4
Column(k) == k \div 4

\* The code on each key.
Keymap == <<1, 2, 3, 10, 4, 5, 6, 11, 7, 8, 9, 12, 0, 15, 14, 13>>
Code(k) == Keymap[k + 1]

VARIABLES down,         \* the keys that are down
          low,          \* the columns that are driven low
          look,         \* what keypadread is about to look at
          row, col,     \* its variables
          key,          \* what it returned
          seen,         \* the keys that were down at some time since it began
          moves

vars == <<down, low, look, row, col, key, seen, moves>>

\* The rows that read low.
RowsLow == {Row(k) : k \in {d \in down : Column(d) \in low}}

Init == /\ down \in {S \in SUBSET Keys : Cardinality(S) <= 2} /\ seen = down
        /\ low = Lines /\ look = "rows"
        /\ row = {} /\ col = 0 /\ key = -1 /\ moves = 0

\* A single key goes up or down; two that are down hold still.
Move == /\ look # "done" /\ moves < MaxMoves
        /\ \E k \in Keys : \/ down = {k} /\ down' = {}
                           \/ down = {} /\ down' = {k}
        /\ seen' = seen \cup down'
        /\ moves' = moves + 1
        /\ UNCHANGED <<low, look, row, col, key>>

Ends(k) == look' = "done" /\ key' = k /\ UNCHANGED <<row, col>>

\* Any key at all?  Then try the first two columns.
LookRows == /\ look = "rows"
            /\ IF RowsLow = {} THEN Ends(-1) /\ UNCHANGED low
               ELSE look' = "half" /\ row' = RowsLow /\ low' = {0, 1} /\ UNCHANGED <<col, key>>
            /\ UNCHANGED <<down, seen, moves>>

\* Then the first column, or the last one.
LookHalf == /\ look = "half"
            /\ IF RowsLow # {} THEN look' = "first" /\ low' = {0}
                               ELSE look' = "last" /\ low' = {3}
            /\ UNCHANGED <<down, row, col, key, seen, moves>>

LookOne == /\ look \in {"first", "last"}
           /\ col' = IF look = "first" THEN (IF RowsLow # {} THEN 0 ELSE 1)
                                       ELSE (IF RowsLow # {} THEN 3 ELSE 2)
           /\ look' = "again" /\ low' = Lines
           /\ UNCHANGED <<down, row, key, seen, moves>>

\* Mutant: the rows are not compared with the first look.
UnchangedNever == TRUE
\* The rows once more: a key counts if they are the same, and only one.
Unchanged == row = RowsLow
LookAgain ==
  /\ look = "again"
  /\ IF Unchanged /\ Cardinality(row) = 1
     THEN \E r \in row : Ends(Code(r + 4 * col))
     ELSE Ends(-1)
  /\ UNCHANGED <<down, low, seen, moves>>

Next == Move \/ LookRows \/ LookHalf \/ LookOne \/ LookAgain

Spec == Init /\ [][Next]_vars

\* A key that was never down is never reported (keypad.c:50), though one may come or
\* go, or two be down, while the columns are tried one after another.
ReadIsHonest == key # -1 => \E k \in seen : Code(k) = key

\* And one key held down is reported.
HeldIsRead ==
  (look = "done" /\ moves = 0 /\ Cardinality(down) = 1) => \A k \in down : key = Code(k)
=============================================================================
