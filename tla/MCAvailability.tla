--------------------------- MODULE MCAvailability ---------------------------
(* Model values and small bounds for Availability.                          *)
EXTENDS Availability

CONSTANTS a, none

OneNode  == {a}
=============================================================================
