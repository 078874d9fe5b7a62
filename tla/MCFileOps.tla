------------------------------- MODULE MCFileOps -------------------------------
(* Small instances of FileOps for TLC. *)
EXTENDS FileOps, TLC

\* A directory with one file, which can be mapped and hidden as well.
Dir == <<"d">>
File == <<"d", "f">>
ThePaths == {<<>>, Dir, File, <<"d", "f", "f">>}
Points == {Dir, File}

\* "tree" is a directory with the file f, "file" a file.
TheHost == "tree" :> {<<>>, <<"f">>} @@ "file" :> {<<>>}
TheHostDirs == "tree" :> {<<>>} @@ "file" :> {}

EveryName == ByInode \cup ByName \cup ByHandle \cup TwoPaths
=============================================================================
