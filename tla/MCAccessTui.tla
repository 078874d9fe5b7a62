------------------------------ MODULE MCAccessTui ------------------------------
(* Small instances of AccessTui, and with it of TrustedCommand, for TLC. *)
EXTENDS AccessTui, TLC

CONSTANT edit

Lines(shapes, length) ==
    [command : {"chmod", "chown", "chattr"}, args : UNION {[1..n -> shapes] : n \in 1..length}]

\* Without the three shapes that the rewriting misses.
PlainLines == Lines(Shapes \ {"-r", "--ref", "--rec"}, 4)
=============================================================================
