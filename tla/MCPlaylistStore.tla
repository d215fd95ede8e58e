-------------------------- MODULE MCPlaylistStore --------------------------
(* Values of the constants of PlaylistStore for TLC.                        *)
EXTENDS PlaylistStore

FirstList == {1}
CrashFaults == {"crash", "rename"}
RecoverFaults == {"recover", "write"}

=============================================================================
