----------------------------- MODULE MCArchive ------------------------------
(***************************************************************************)
(* Archives of up to three entries: a file with a padded body, one whose   *)
(* header does not give its size, a directory or empty file, and one the   *)
(* reader passes over. They are cut off at a header, inside one, and at    *)
(* and one byte before the end of a body of each format.                   *)
(***************************************************************************)
EXTENDS Archive

Entry(n, s, d, r, c) == [name |-> n, size |-> s, declared |-> d, regular |-> r, decodes |-> c]

MCEntries ==
  {Entry(3, 5, 5, TRUE, TRUE), Entry(2, 600, 600, TRUE, TRUE), Entry(2, 5, 0, TRUE, TRUE),
   Entry(5, 0, 0, FALSE, TRUE), Entry(4, 512, 512, FALSE, FALSE)}

\* Long names keep the walk over other bytes short.
MCJunk == {Entry(90, 0, 0, TRUE, TRUE), Entry(60, 100, 100, TRUE, TRUE)}

MCCuts == {0, 29, 37, 38, 120, 121, 516, 517}
=============================================================================
