------------------------------ MODULE PwmAudio ------------------------------
(***************************************************************************)
(* The audio port (rtl/wbpwmaudio.v, VARIABLE_RATE = 0): when it takes the *)
(* next sample and when it asks for one.  The samples themselves, and the  *)
(* modulator that turns them into pulses, are left out.                    *)
(***************************************************************************)

VARIABLES nextValid,            \* the next sample was not taken yet
          audioInt              \* asks for one, a clock late

audioVars == <<nextValid, audioInt>>

AudioInit == nextValid = TRUE /\ audioInt = FALSE

\* Is a sample written in this clock, and is it the one in which the sample
\* timer runs out?  If both, the old sample is taken and the new one waits.
AudioClock(written, ztimer) ==
    /\ nextValid' = (written \/ (nextValid /\ ~ztimer))
    /\ audioInt' = ~nextValid
=============================================================================
