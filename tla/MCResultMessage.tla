--------------------------- MODULE MCResultMessage ---------------------------
(***************************************************************************)
(* Model values for ResultMessage: two presses that may overlap each other *)
(* and finalizeResult's retries.                                           *)
(***************************************************************************)
EXTENDS ResultMessage, TLC

CONSTANTS r1, r2

TwoPresses == {r1, r2}
OnePress == {r1}

==============================================================================
