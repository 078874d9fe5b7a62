--------------------------- MODULE MCTrustedCommand ---------------------------
(* Small instances of TrustedCommand for TLC. *)
EXTENDS TrustedCommand, TLC

CONSTANTS first, second

Lines(shapes, length) ==
    [command : {"chmod", "chown", "chattr"}, args : UNION {[1..n -> shapes] : n \in 1..length}]

\* Without the three shapes that the rewriting misses, and with them.
PlainLines == Lines(Shapes \ {"-r", "--ref", "--rec"}, 3)
AllLines == Lines(Shapes, 3)
=============================================================================
