------------------------------ MODULE IControl ------------------------------
(***************************************************************************)
(* The interrupt controller (rtl/cpu/icontrol.v): one action, Clock, for   *)
(* one edge of the clock it shares with the other peripherals.             *)
(***************************************************************************)

CONSTANT Lines                  \* the interrupt inputs

VARIABLES intState,             \* pending bits, whether or not enabled
          intEnable,
          gie,                  \* global enable
          any, interrupt        \* each a clock behind what it looks at

icontrolVars == <<intState, intEnable, gie, any, interrupt>>

IControlInit ==
    /\ intState = {} /\ intEnable = {}
    /\ gie = FALSE /\ any = FALSE /\ interrupt = FALSE

\* A word written to the register: bit 31, which makes the enable bits add
\* or remove, those bits, and the pending bits to clear.
Word(on, en, clr) == [gie |-> on, enable |-> en, clear |-> clr]

IControlMasked(words, brd) ==           \* mutant: what is not enabled is not pending
    /\ intState' = (intState \cup (brd \cap intEnable)) \ UNION {w.clear : w \in words}
    /\ intEnable' = (intEnable \cup UNION {w.enable : w \in {x \in words : x.gie}})
                    \ UNION {w.enable : w \in {x \in words : ~x.gie}}
    /\ gie' = IF words = {} THEN gie ELSE \E w \in words : w.gie
    /\ any' = (intState \cap intEnable # {})
    /\ interrupt' = (gie /\ any)

\* One clock: the words written in it (none or one), the inputs that are high.
IControlClock(words, brd) ==
    /\ intState' = (intState \cup brd) \ UNION {w.clear : w \in words}
    /\ intEnable' = (intEnable \cup UNION {w.enable : w \in {x \in words : x.gie}})
                    \ UNION {w.enable : w \in {x \in words : ~x.gie}}
    /\ gie' = IF words = {} THEN gie ELSE \E w \in words : w.gie
    /\ any' = (intState \cap intEnable # {})
    /\ interrupt' = (gie /\ any)

IControlType ==
    /\ intState \subseteq Lines /\ intEnable \subseteq Lines
    /\ {gie, any, interrupt} \subseteq BOOLEAN
=============================================================================
