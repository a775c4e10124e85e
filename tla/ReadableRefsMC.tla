--------------------------- MODULE ReadableRefsMC ---------------------------
(* Model values for the run of ReadableRefs with one creation at a time and *)
(* decimal numbers of one digit instead of four.                           *)
EXTENDS ReadableRefs

CONSTANT clerk1

OneCreator == {clerk1}
=============================================================================
