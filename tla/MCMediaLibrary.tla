--------------------------- MODULE MCMediaLibrary ---------------------------
(* One file is enough: no rule of the library relates two files.  OneHazard  *)
(* lets one thing go wrong in a behaviour.  The last three are environments  *)
(* in which RatingIsKept, ReturnedFileIsShown and IndexingIsOwned fail.      *)
EXTENDS MediaLibrary
CONSTANT f1
File == {f1}
OneHazard == {{"create", "modify"}, {"overflow"}, {"handoff"}, {"partial"},
              {"throw"}, {"cancel"}, {"drop", "unread"},
              {"unloaded"}, {"unsaved"}}
Modify == {{"modify"}}
Recreate == {{"recreate"}}
Cancel == {{"cancel"}}
=============================================================================
