---------------------------- MODULE MCReadWriteAuth ----------------------------
(* Small instances of ReadWriteAuth for TLC. *)
EXTENDS ReadWriteAuth, TLC

CONSTANTS v1, v2, c1, c2, p1, p2, p3

TwoViews == {v1, v2}
ViewSymmetry == Permutations(TwoViews)
ThePaths == {"a", "b"}

\* p3 is a later process that reuses the pid of p1.
ThePids == p1 :> 1 @@ p2 :> 2 @@ p3 :> 1

Op(n, p, t) == [name |-> n, path |-> p, to |-> t]
On(k, s) == [kind |-> k, pattern |-> s]

SingleWrite == {Op("write", "a", "a")}
Renames == {Op("rename", "a", "b")}
WriteRules == {On("write", {"a", "b"})}

\* Operations with several kinds of effect.
MixedOps == {Op("setxattr", "a", "a"), Op("rename", "a", "b"), Op("write", "a", "a")}
MixedRules == {On("write", {"a", "b"}), On("xattr", {"a"})}
XattrRules == {On("xattr", {"a"}), On("write", {"b"})}
=============================================================================
