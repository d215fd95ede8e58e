-------------------------- MODULE MCHttpCacheTask --------------------------
(* Two consumers of a file of three buffers, where the first and the last   *)
(* are out of each other's reach, or of a live stream that is longer than   *)
(* its window.                                                              *)
EXTENDS HttpCacheTask

Two == {1, 2}

File(playback, validated, stored, may, seeks) ==
    [kind |-> "file", playback |-> playback, validated |-> validated,
     stored |-> stored, may |-> may, seeks |-> seeks, limits |-> {Size}]

Live(may, limits) ==
    [kind |-> "live", playback |-> Two, validated |-> FALSE, stored |-> {},
     may |-> may, seeks |-> 2, limits |-> limits]

\* One server with each kind of trouble.
Servers ==
    {File({1}, TRUE, {}, {}, 2),
     File(Two, TRUE, {}, {"truncate"}, 2),
     File({2}, TRUE, {1}, {"cancel"}, 1),
     File({1}, TRUE, {}, {"change"}, 2),
     File({2}, FALSE, {}, {"change"}, 2),
     File({1}, TRUE, 0..(Size - 1), {"fail"}, 2),
     File(Two, TRUE, {}, {"local"}, 1),
     Live({"cancel"}, {1, Size}), Live({"rewind"}, {Size})}
=============================================================================
