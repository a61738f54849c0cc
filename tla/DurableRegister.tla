--------------------------- MODULE DurableRegister -------------------------
(***************************************************************************)
(* What a configuration store promises, without saying how: the value its  *)
(* readers see while the device runs, the value the next start brings      *)
(* back, and the answer to the last operation.  An operation answered with *)
(* "ok" is kept.  One answered with "error", or never answered, is seen by *)
(* the readers and may or may not be kept.  A start brings back what was   *)
(* kept, whole, unless the storage had to be erased.                       *)
(***************************************************************************)
CONSTANTS Values, Factory, Nothing

VARIABLES live, kept, answer
vars == <<live, kept, answer>>

Init == live = Nothing /\ kept \in Values /\ answer = "none"

Acknowledge == /\ live # Nothing
               /\ live' \in Values /\ kept' = live' /\ answer' = "ok"

NotAcknowledged == /\ live # Nothing
                   /\ live' \in Values /\ kept' \in {kept, live'}
                   /\ answer' \in {"error", "none"}

PowerOff == live' = Nothing /\ kept' = kept /\ answer' = "none"

Start == /\ live = Nothing /\ kept' = kept
         /\ \/ live' = kept /\ answer' = "ok"
            \/ live' = Nothing /\ answer' = "error"

StartErased == /\ live = Nothing /\ kept' = Factory
               /\ \/ live' = Factory /\ answer' = "ok"
                  \/ live' = Nothing /\ answer' = "error"

Next == Acknowledge \/ NotAcknowledged \/ PowerOff \/ Start \/ StartErased

Spec == Init /\ [][Next]_vars
=============================================================================
