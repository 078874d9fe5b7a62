------------------------------- MODULE MCOverlay -------------------------------
(* Small instances of Overlay for TLC. *)
EXTENDS Overlay, TLC

\* Three levels of sandbox directories, two names.
ThePaths == {<<>>, <<"x">>, <<"y">>, <<"x", "y">>, <<"x", "x">>, <<"x", "y", "x">>}
Dirs == {<<>>, <<"x">>, <<"x", "y">>}

\* "full" holds the directory x with the file y in it; "flat" the file y.
TheHost == "full" :> {<<>>, <<"x">>, <<"x", "y">>} @@ "flat" :> {<<>>, <<"y">>}
TheHostDirs == "full" :> {<<>>, <<"x">>} @@ "flat" :> {<<>>}
=============================================================================
