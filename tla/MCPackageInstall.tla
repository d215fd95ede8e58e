------------------------- MODULE MCPackageInstall -------------------------
(* Three files of a package, two of them in one folder or in a folder of it. *)
EXTENDS PackageInstall

Outer == "outer"
Inner == "inner"
TwoFolders == {Outer, Inner}
Nested == [d \in TwoFolders |-> IF d = Inner THEN {Outer} ELSE {}]
Places == [f \in Files |-> IF f = 1 THEN {} ELSE IF f = 2 THEN {Outer}
                           ELSE TwoFolders]
=============================================================================
