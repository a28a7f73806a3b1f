------------------------------- MODULE Window -------------------------------
(***************************************************************************)
(* What an LZ decoder may do to its output, up to a limit: append a byte   *)
(* of its own, or repeat one it has already written, no further back than  *)
(* the dictionary reaches. Nothing written is ever changed. A byte is      *)
(* named by the place at which it was first written, so that a copy is     *)
(* told from a literal.                                                    *)
(***************************************************************************)
EXTENDS Naturals, Sequences

CONSTANTS Limit, Reach

VARIABLE out

Init == out = <<>>

Literal == Len(out) < Limit /\ out' = Append(out, Len(out) + 1)

Copy ==
  /\ Len(out) < Limit
  /\ \E d \in 1 .. Len(out) :
       /\ d <= Reach
       /\ out' = Append(out, out[Len(out) + 1 - d])

Spec == Init /\ [][Literal \/ Copy]_out

=============================================================================
