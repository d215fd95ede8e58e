------------------------ MODULE MCRandomPlaybackOrder ------------------------
(***************************************************************************)
(* Values of the constants of RandomPlaybackOrder for TLC.                 *)
(***************************************************************************)
EXTENDS RandomPlaybackOrder

\* No row, a single row, lists of three rounds and a list above the limit of
\* three rows.
UpToFour == 0 .. 4
=============================================================================
