------------------------------- MODULE MCSession -------------------------------
(* Small instances of Session for TLC. *)
EXTENDS Session, TLC

CONSTANTS c1, c2, c3

\* One client attaches and ends views, the other takes them down.
OneAttacher == c1 :> {"attach", "begin_trusted", "end_trusted"}
               @@ c2 :> {"detach", "shutdown"} @@ c3 :> {"decide"}
TwoAttachers == c1 :> {"attach"} @@ c2 :> {"attach"} @@ c3 :> {}
AttachAndDestroy == c1 :> {"attach"} @@ c2 :> {"shutdown"} @@ c3 :> {"decide"}
Operator == c1 :> {"attach"} @@ c2 :> {} @@ c3 :> {"decide"}
=============================================================================
