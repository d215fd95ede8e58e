-------------------------- MODULE PlaylistCatalogue --------------------------
(***************************************************************************)
(* What the playlist store promises its user: a catalogue in which each    *)
(* list has one stored version, or none.  A list that was saved, or read   *)
(* at start-up, is promised: from then on it is replaced only by a newer   *)
(* version and disappears only when the user deletes it.  Slots, temporary *)
(* files, compactions and crashes do not exist at this level.              *)
(***************************************************************************)
EXTENDS Integers

CONSTANTS
    Lists,      \* identities of lists
    Versions    \* versions of a list, numbers that grow with each edit

None == -1

VARIABLES
    stored,     \* the version of each list a restart would find, or None
    promised    \* the lists the user can rely on

vars == <<stored, promised>>

Init ==
    /\ stored = [l \in Lists |-> None]
    /\ promised = {}

\* A version that has not been acknowledged yet may already be found.
Write(l, v) ==
    /\ UNCHANGED promised
    /\ v > stored[l]
    /\ stored' = [stored EXCEPT ![l] = v]

\* A version that has never been acknowledged may be given up.
Withdraw(l) ==
    /\ l \notin promised
    /\ UNCHANGED promised
    /\ stored' = [stored EXCEPT ![l] = None]

Commit(l, v) ==
    /\ promised' = promised \cup {l}
    /\ v >= stored[l]
    /\ stored' = [stored EXCEPT ![l] = v]

Delete(l) ==
    /\ promised' = promised \ {l}
    /\ stored' = [stored EXCEPT ![l] = None]

\* A restart relies on all it finds.
Open ==
    /\ promised' = {l \in Lists : stored[l] # None}
    /\ UNCHANGED stored

\* What the user cannot see: a temporary file, a renumbering, a crash.
Unseen == UNCHANGED vars

Next ==
    \/ Unseen \/ Open
    \/ \E l \in Lists :
          \/ Withdraw(l) \/ Delete(l)
          \/ \E v \in Versions : Write(l, v) \/ Commit(l, v)

Spec == Init /\ [][Next]_vars

=============================================================================
