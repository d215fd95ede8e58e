--------------------------- MODULE MCAudioEngine ---------------------------
(***************************************************************************)
(* Values of the constants of AudioEngine for TLC.                         *)
(***************************************************************************)
EXTENDS AudioEngine

AllFades == {"play", "pause", "seek", "stop"}
NoPauseFade == {"play", "seek", "stop"}
PauseFadeOnly == {"pause"}
=============================================================================
