------------------------------ MODULE MCRange -------------------------------
(***************************************************************************)
(* Digits to the base 4 instead of 256, and probabilities in eighths: the  *)
(* ratios of the sizes satisfy what RangeAssumption asks of the real ones. *)
(***************************************************************************)
EXTENDS Range
=============================================================================
