------------------------------ MODULE RtClock ------------------------------
(***************************************************************************)
(* The time of day and the date of sw/dev/rtcsim.c, in BCD: 23:59:58 is    *)
(* the number 0x235958, and April 8th, 2017 is 0x20170408.                 *)
(***************************************************************************)
LOCAL INSTANCE Naturals
LOCAL INSTANCE Sequences
LOCAL INSTANCE SequencesExt

\* Digit k of the number n, and the number whose digits, the first one first,
\* are ds.
Nibble(n, k) == (n \div 16^k) % 16
OfDigits(ds) == FoldSeq(LAMBDA d, n : 16 * n + d, 0, Reverse(ds))

\* rtcnext: a carry out of each digit, those of the tens of seconds and
\* minutes at 6, and midnight after 0x235959.
RtcNext(now) ==
  LET carry(n, k, limit) == Nibble(n, k) >= limit
      n0 == now + 1
      n1 == n0 + 6                      \* units of the seconds
      n2 == n1 + 10 * 16                \* tens of the seconds
      n3 == n2 + 6 * 16^2               \* units of the minutes
      n4 == n3 + 10 * 16^3              \* tens of the minutes
      n5 == IF carry(n4, 4, 10) THEN n4 + 6 * 16^4 ELSE n4
  IN  IF ~carry(n0, 0, 10) THEN n0
      ELSE IF ~carry(n1, 1, 6) THEN n1
      ELSE IF ~carry(n2, 2, 10) THEN n2
      ELSE IF ~carry(n3, 3, 6) THEN n3
      ELSE IF n5 >= 2 * 16^5 + 4 * 16^4 THEN 0 ELSE n5

-----------------------------------------------------------------------------
\* rtcdatenext.  days_per_month[] has twelve entries: what is read before the
\* first of them (in months whose units are 0) may be anything.
DaysPerMonth == <<31, 28, 31, 30, 31, 30, 31, 31, 30, 31, 30, 31>>
DaysOf(mo) == IF mo = 0 THEN 0 .. 255 ELSE {DaysPerMonth[mo]}

\* The month as the code computes it: the units, and 10 if they are odd.
MonthRead(today) == Nibble(today, 2) + (IF Nibble(today, 2) % 2 = 1 THEN 10 ELSE 0)
DayRead(today) == Nibble(today, 0) + (Nibble(today, 1) % 4) * 10

\* The number whose lowest bits tell a leap year, its bits 2 and 3 left out.
LeapBits(today) ==
  LET tst == IF Nibble(today, 4) = 0 /\ Nibble(today, 5) = 0
             THEN (today \div 16^6) % 64 ELSE (today \div 16^5) % 256
  IN  (tst % 4) + 16 * ((tst \div 16) % 2)
IsLeap(today) == LeapBits(today) \in {0, 18}

\* January 1st of the next year, with the carries up to the hundreds.
NextYear(today) ==
  LET carry(n, k) == IF Nibble(n, k) >= 10 THEN n + 6 * 16^k ELSE n
      more(n, k) == Nibble(n, k) >= 10
      y0 == (today \div 16^4) * 16^4 + 16^2 + 1 + 16^4
      y1 == carry(y0, 4)
      y2 == IF more(y0, 4) THEN carry(y1, 5) ELSE y1
      y3 == IF more(y0, 4) /\ more(y1, 5) THEN carry(y2, 6) ELSE y2
  IN  y3

\* The possible dates after today.
RtcDateNext(today) ==
  LET mo == MonthRead(today)
      dy == DayRead(today) + 1
      first == (today \div 256) * 256 + 1
      later == IF Nibble(today + 1, 0) >= 10 THEN today + 7 ELSE today + 1
      ends(days) == /\ mo > 12 \/ dy > days \/ dy = 1
                    /\ mo = 2 /\ IsLeap(today) => dy >= 29
      days == IF mo > 12 THEN {0} ELSE DaysOf(mo)
  IN  {IF ~ends(d) THEN later
       ELSE IF mo + 1 > 12 THEN NextYear(today) ELSE first : d \in days}
=============================================================================
