--------------------------- MODULE MCTrackChange ---------------------------
(* Two songs in three rows, so that a row may be taken over by another copy *)
(* of the song or by the other song.                                        *)
EXTENDS TrackChange

AB == {"a", "b"}
ABA == <<"a", "b", "a">>

Session(mode, fade, gap, skip, network, may) ==
    [mode |-> mode, fade |-> fade, gap |-> gap, skip |-> skip,
     network |-> network, may |-> may]

Fades == {"none", "serial", "overlap"}

\* Every way to hand over in the mode that goes round the list, with each kind
\* of interruption (what the network plays is no file to write); the other modes,
\* and a list that stops at a failure.
Sessions ==
    {Session(3, f, g, TRUE, n, {m}) : f \in Fades, g \in BOOLEAN,
        n \in BOOLEAN, m \in {"remove", "save", "close"}}
    \cup {Session(3, f, g, TRUE, FALSE, {"write"}) : f \in Fades, g \in BOOLEAN}
    \cup {Session(m, f, TRUE, FALSE, FALSE, {"remove"}) : m \in 0..2, f \in Fades}
=============================================================================
