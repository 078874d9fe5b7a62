------------------------------ MODULE CommandLine ------------------------------
(***************************************************************************)
(* The arguments of gatefs <name> chmod, chown and chattr: which of them   *)
(* rewrite_command_path_args takes for paths, moves into the temporary     *)
(* view and puts into the scope of the trusted operation.                  *)
(*                                                                         *)
(* An argument is one of its shapes:                                       *)
(*   "--"    the end of the options      "-v"      an option               *)
(*   "-R"    the recursive option        "-r"      a mode with a minus     *)
(*   "+i"    flags or a mode with a plus "--reference"  with a file        *)
(*   "--ref" an abbreviation of it       "--rec"   one of --recursive      *)
(*   "/p"    an absolute path            "word"    a mode, owner or number *)
(*   "p"     a relative path             "../p"    a path with ".." in it  *)
(***************************************************************************)
EXTENDS Naturals, Sequences

CONSTANT CommandLines   \* the command lines that are tried

Shapes == {"--", "-v", "-R", "-r", "+i", "--reference", "--ref", "--rec", "word", "/p", "p", "../p"}
Long == {"--reference", "--ref"}
Recursive == {"-R", "--rec"}
Dashed == {"--", "-v", "-r"} \cup Long \cup Recursive

\* A command line: the command and its arguments.
Line == [command : {"chmod", "chown", "chattr"}, args : Seq(Shapes)]

ASSUME CommandLineAssumption == CommandLines \subseteq Line

-----------------------------------------------------------------------------
(* rewrite_command_path_args. *)

\* The places of the arguments before which the mode, owner or flags were seen:
\* for chmod and chown the first argument without a dash is the mode or owner,
\* for chattr the first argument of any shape is taken for the flags.
after_mode(line) ==
    {n \in DOMAIN line.args :
        \E m \in 1..n - 1 : /\ line.args[m] # "--"
                            /\ line.command = "chattr" \/ line.args[m] \notin Dashed}

\* Fault: only the last argument is taken for a path.
rewritten_last_only(line) ==
    {n \in after_mode(line) : line.args[n] # "--" /\ n = Len(line.args)}

\* The places of the arguments that are rewritten.  For chattr no argument with
\* the look of flags is one.
rewritten(line) ==
    {n \in after_mode(line) :
        /\ line.args[n] # "--"
        /\ line.command = "chattr" => line.args[n] \notin Dashed \cup {"+i"}}

\* Too few arguments, --reference, and ".." in a path are refused.
refused(line) ==
    \/ Len(line.args) < 2
    \/ line.command # "chattr" /\ \E n \in DOMAIN line.args : line.args[n] = "--reference"
    \/ \E n \in rewritten(line) : line.args[n] = "../p"

\* chmod_is_recursive, chattr_is_recursive: whether the scope is recursive.  An
\* abbreviation is not recognised.
is_recursive(line) == \E n \in DOMAIN line.args : line.args[n] = "-R"

-----------------------------------------------------------------------------
(* What the command itself makes of its arguments (external: coreutils and     *)
(* e2fsprogs).                                                                 *)

ended(line, n) == \E m \in 1..n - 1 : line.args[m] = "--"
is_option(line, n) ==
    /\ line.args[n] \in Dashed
    /\ ~ended(line, n)
    /\ line.command = "chmod" => line.args[n] # "-r"

from_file(line) == \E n \in DOMAIN line.args : line.args[n] \in Long /\ is_option(line, n)
words(line) == {n \in DOMAIN line.args : ~is_option(line, n) /\ (line.args[n] = "--" => ended(line, n))}
first_word(line) == CHOOSE n \in words(line) : \A m \in words(line) : n <= m

\* The command rejects its arguments: an option it does not have, no mode, no
\* owner, no flags.
rejected(line) ==
    \/ line.command = "chmod" /\ ~from_file(line)
          /\ line.args[first_word(line)] \notin {"word", "-r", "+i"}
    \/ line.command = "chown"
          /\ \/ ~from_file(line) /\ line.args[first_word(line)] # "word"
             \/ \E n \in DOMAIN line.args : line.args[n] = "-r" /\ is_option(line, n)
    \/ line.command = "chattr"
          /\ \/ line.args[1] \notin {"+i", "-r", "-R"}
             \/ \E n \in DOMAIN line.args : line.args[n] \in Long \cup {"--", "--rec"}

\* The places of the paths.  chmod and chown take options anywhere; the first
\* other argument is the mode or owner unless a file gives it.  chattr takes
\* options and flags in front.
operands(line) ==
    IF (line.command # "chattr" /\ words(line) = {}) \/ rejected(line)
    THEN {}
    ELSE IF line.command = "chattr"
    THEN {n \in DOMAIN line.args : \E m \in 1..n : line.args[m] \notin Dashed \cup {"+i"}}
    ELSE words(line) \ (IF from_file(line) THEN {} ELSE {first_word(line)})

\* A line goes astray when the command would change a path of the host (one
\* that is absolute or leaves the directory it runs in, and was not moved into
\* the view), or descend below a path that is in the scope alone.
goes_astray(line) ==
    /\ ~refused(line)
    /\ \/ \E n \in operands(line) : line.args[n] \in {"/p", "../p"} /\ n \notin rewritten(line)
       \/ /\ ~is_recursive(line)
          /\ operands(line) # {}
          /\ \E n \in DOMAIN line.args : line.args[n] \in Recursive /\ is_option(line, n)

\* What can become of a command line.
fate(line) ==
    CASE refused(line) -> "refused"
      [] goes_astray(line) -> "astray"
      [] OTHER -> "in view"
Fates == {fate(line) : line \in CommandLines}
=============================================================================
