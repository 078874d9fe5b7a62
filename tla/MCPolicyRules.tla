----------------------------- MODULE MCPolicyRules -----------------------------
(* Small instances of PolicyRules, and with it of Overlay, for TLC. *)
EXTENDS PolicyRules, TLC

\* Three levels of sandbox directories, two names, and a name that is a glob.
ThePaths == {<<>>, <<"x">>, <<"y">>, <<"x", "y">>, <<"x", "x">>, <<"x", "y", "x">>}
Dirs == {<<>>, <<"x">>, <<"x", "y">>}

\* "full" holds the directory x with the file y in it; "flat" the file y.
TheHost == "full" :> {<<>>, <<"x">>, <<"x", "y">>} @@ "flat" :> {<<>>, <<"y">>}
TheHostDirs == "full" :> {<<>>, <<"x">>} @@ "flat" :> {<<>>}

\* "[x]" reads as the name "x"; "[" is no glob.
TheReads == "x" :> {"x"} @@ "y" :> {"y"} @@ "[x]" :> {"x"}
            @@ "*" :> {"x", "y", "[x]", ""} @@ "**" :> {}

\* Texts of up to two parts, and some of three.
Typed(S) == [parts : S, slash : BOOLEAN]
TheTexts ==
    Typed(UNION {[1..n -> {"x", "*", "**", ".", ".."}] : n \in 0..2}
          \cup {<<"[x]">>, <<"[">>, <<"[", "..", "y">>, <<"x", "**", "x">>,
                <<"**", "y", "**">>, <<"*", "**", "**">>, <<"x", "*", "*">>})

\* A host directory with the names "x" and "[x]".
GlobPaths == {<<>>, <<"x">>, <<"[x]">>}
RootOnly == {<<>>}
GlobHost == "full" :> GlobPaths
GlobHostDirs == "full" :> {<<>>}
=============================================================================
