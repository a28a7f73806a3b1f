------------------------------- MODULE MCLzma -------------------------------
(***************************************************************************)
(* Up to ten bytes of output. The lengths end a copy  inside, at and past  *)
(* the limit; the distances lie inside the window, at its edge, past it,   *)
(* past the dictionary, and at the end marker.                             *)
(***************************************************************************)
EXTENDS Lzma

EndMarker == 99

MCLength == {0, 1, 3}
MCDistance == (0 .. 5) \cup {EndMarker}

=============================================================================
