------------------------------ MODULE HostCode ------------------------------
(***************************************************************************)
(* The address part of the language the host speaks to the board (TTYBUS,  *)
(* sw/host/ttybus.cpp, against the decoder of rtl/wbubus.v): a word        *)
(* address is sent whole, or as the difference from the last address, in   *)
(* as few characters as will do.  A character carries one of Digit values  *)
(* (64 in the code).                                                       *)
(***************************************************************************)
EXTENDS Integers

CONSTANT Digit
Short == 1 .. 4                     \* digits of a shortened address
ASSUME DigitAssumption == /\ Digit \in Nat /\ Digit > 1 /\ Digit % 2 = 0
                          /\ \A n \in Short : Digit^n \in Nat \ {0}
Least(S) == CHOOSE n \in S : \A m \in S : n <= m

(* The numbers of digits that hold the difference d, or the address a.     *)
RelDigits(d) == {n \in Short : -(Digit^n \div 2) <= d /\ d < Digit^n \div 2}
AbsDigits(a) == {n \in Short : a < Digit^n}

(* encode_address(): nothing when the board is there already; an absolute  *)
(* address when it is not longer than the difference; six characters when  *)
(* neither can be shortened.  A difference of four digits is sent under    *)
(* the code of three (0x0d for 0x0f), so that the board takes the first    *)
(* three of them: that needs an address of five digits, which no device    *)
(* of this board has.                                                      *)
EncodeAddress(set, last, a) ==
  LET rel == IF set THEN RelDigits(a - last) ELSE {}
      n   == Least(rel)
      v   == (a - last) % Digit^n
  IN  IF set /\ a = last THEN <<>>
      ELSE IF rel = {} \/ \E m \in AbsDigits(a) : m <= n
      THEN <<[k |-> "abs", v |-> a]>>
      ELSE IF n < 4 THEN <<[k |-> "rel", n |-> n, v |-> v]>>
      ELSE <<[k |-> "rel", n |-> 3, v |-> v \div Digit],
             [k |-> "stray", v |-> v % Digit]>>

\* mutant: extended as a ones' complement
OnesComplement(v, n) == IF v >= Digit^n \div 2 THEN v - Digit^n + 1 ELSE v

(* The board's decoder: the digits of a difference are sign extended.      *)
SignExtend(v, n) == IF v >= Digit^n \div 2 THEN v - Digit^n ELSE v
DecodeAddress(addr, code) ==
  IF code.k = "abs" THEN code.v ELSE addr + SignExtend(code.v, code.n)
=============================================================================
