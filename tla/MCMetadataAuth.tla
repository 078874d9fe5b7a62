----------------------------- MODULE MCMetadataAuth -----------------------------
(* Small instances of MetadataAuth for TLC. *)
EXTENDS MetadataAuth, TLC

CONSTANTS v1, p1, t1, mode, uid

\* One sandbox path, a mapped host file.
X == <<"x">>
ThePaths == {<<>>, X}
MountAt == {X}
TheHost == "file" :> {<<>>}
NoDirs == "file" :> {}

Change(fs) == [path |-> X, fields |-> fs]

\* Changes of one and of two fields, so that replacements overlap in part.
Overlapping == {Change({mode}), Change({mode, uid}), Change({uid})}
ModeOnly == {Change({mode})}
TimesOnly == {Change({"times"})}

\* The fields are alike.
FieldSymmetry == Permutations({mode, uid})

XPattern == {{X}}
TheScope == t1 :> {X}
=============================================================================
