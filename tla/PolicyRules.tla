------------------------------ MODULE PolicyRules ------------------------------
(***************************************************************************)
(* Protection and bypass rules: how the text an operator types becomes a   *)
(* PolicyPattern, which paths of the namespace it matches, and the         *)
(* commands that add, remove and list rules while mappings come and go.    *)
(*                                                                         *)
(* A text is its parts between slashes and whether it ends in a slash (a   *)
(* leading slash makes no difference).  A part is a value: Reads gives the *)
(* file names it stands for when it is read as a glob.  "**" stands for    *)
(* any number of names.  The characters of a name are not modelled.        *)
(***************************************************************************)
EXTENDS Overlay

CONSTANTS
    Texts,      \* what the operator types
    Reads,      \* the names each part matches; "" is the name of the root
    Malformed,  \* the parts that are no glob, such as "["
    Kinds,      \* the kinds of effect rules are about
    MaxRules,   \* bound: rules in force
    MaxOrderWithRules   \* bound: overlay entries ever made while a rule is in force

ASSUME PolicyRulesAssumption ==
    /\ Texts \subseteq [parts : Seq(STRING), slash : BOOLEAN]
    /\ \A text \in Texts : \A n \in DOMAIN text.parts :
          text.parts[n] \in DOMAIN Reads \cup Malformed \cup {".", ".."}
    /\ \A p \in Paths : \A n \in DOMAIN p : p[n] \in DOMAIN Reads \cup Malformed
    /\ MaxRules \in Nat /\ MaxOrderWithRules \in Nat

VARIABLES
    protection_rules,   \* Sandbox.protection_rules
    bypass_rules        \* Sandbox.bypass_rules

ruleVars == <<protection_rules, bypass_rules>>

-----------------------------------------------------------------------------
(* From a text to a pattern. *)

\* The directory after one more part: "." stays, ".." leaves the last directory,
\* and the root is its own parent.
after(dir, part) ==
    IF part = "." THEN dir
    ELSE IF part # ".." THEN join(dir, part)
    ELSE IF dir = <<>> THEN <<>> ELSE parent(dir)

\* normalize_sandbox_path, part by part.
normalize_sandbox_path(parts) ==
    LET out[n \in 0..Len(parts)] == IF n = 0 THEN <<>> ELSE after(out[n - 1], parts[n])
    IN  out[Len(parts)]

IsGlob(raw) == \A n \in DOMAIN raw : raw[n] \notin Malformed

\* PolicyPattern::new accepts a text that is not empty and is a glob once it is
\* normalized.  The root never asks for a directory.
accepted(text) ==
    /\ text.parts # <<>> \/ text.slash
    /\ IsGlob(normalize_sandbox_path(text.parts))
new(text) ==
    [raw |-> normalize_sandbox_path(text.parts),
     directory_only |-> text.slash /\ normalize_sandbox_path(text.parts) # <<>>]

\* Fault: the text of a pattern loses its trailing slash.
as_str_trimmed(p) == [parts |-> p.raw, slash |-> p.raw = <<>>]

\* PolicyPattern::as_str, the text that lists show and that messages carry.
as_str(p) == [parts |-> p.raw, slash |-> p.directory_only \/ p.raw = <<>>]

\* The path of a request taken as a pattern, which nothing checks.
from_path(path) == [raw |-> path, directory_only |-> FALSE]

-----------------------------------------------------------------------------
(* Matching. *)

\* A pattern or a path as the glob library sees it: what stands after each
\* slash.  After the slash of the root stands nothing.
slots(s) == IF s = <<>> THEN <<"">> ELSE s
reads(part) == IF part = "" THEN {""} ELSE Reads[part]

\* The names from which on slot i of the pattern and what follows it match, given
\* those from which on the slots after it do.  Only "**" passes a slash: it takes
\* any number of names, but at least one when it is the last slot.
before(pat, names, i, rest) ==
    IF pat[i] # "**" THEN {j \in DOMAIN names : names[j] \in reads(pat[i]) /\ j + 1 \in rest}
    ELSE IF i = Len(pat) THEN DOMAIN names
    ELSE {j \in 1..Len(names) + 1 : \E k \in rest : j <= k}

\* glob::Pattern::matches_path_with: from[i] has the names from which on the
\* pattern matches from slot i on; past its end, only the end of the path does.
glob_matches(pattern, path) ==
    LET pat == slots(pattern)
        names == slots(path)
        from[i \in 1..Len(pat) + 1] ==
            IF i > Len(pat) THEN {Len(names) + 1} ELSE before(pat, names, i, from[i + 1])
    IN  1 \in from[1]

\* Fault: a pattern for directories also matches files.
matches_any_target(p, path, target_is_dir) ==
    /\ p.directory_only => path # <<>>
    /\ IsGlob(p.raw)
    /\ glob_matches(p.raw, path)

\* PolicyPattern::matches.
matches(p, path, target_is_dir) ==
    /\ p.directory_only => target_is_dir /\ path # <<>>
    /\ IsGlob(p.raw)
    /\ glob_matches(p.raw, path)

grant_pattern_matches(pattern, path) == matches(from_path(pattern), path, FALSE)

-----------------------------------------------------------------------------
(* The rules of a sandbox. *)

path_is_directory(p) ==
    LET r == resolve_overlay(p)
    IN  r.tag = "virtual" \/ (r.tag = "real" /\ r.rest \in HostDirs[r.local])

covers(rule_list, kind, p) ==
    \E rule \in rule_list : rule.kind = kind /\ matches(rule.pattern, p, path_is_directory(p))
is_protected(kind, p) == covers(protection_rules, kind, p)
is_bypass(kind, p) == covers(bypass_rules, kind, p)

\* list-protection and list-bypass: no filter stands for all of them.
listed(rule_list, kinds) == {rule \in rule_list : rule.kind \in kinds \/ kinds = {}}

rule_of(kind, text) == [kind |-> kind, pattern |-> new(text)]

rules == protection_rules \cup bypass_rules

\* A text that is no pattern is refused before it is sent.  Adding a rule that
\* is there, or removing one that is not, leaves the rules as they are.
protect(kind, text) ==
    /\ accepted(text)
    /\ Cardinality(rules) < MaxRules
    /\ next_overlay_order <= MaxOrderWithRules + 1
    /\ protection_rules' = protection_rules \cup {rule_of(kind, text)}
    /\ UNCHANGED <<overlayVars, bypass_rules>>

unprotect(kind, text) ==
    /\ accepted(text)
    /\ rule_of(kind, text) \in protection_rules
    /\ protection_rules' = protection_rules \ {rule_of(kind, text)}
    /\ UNCHANGED <<overlayVars, bypass_rules>>

add_bypass(kind, text) ==
    /\ accepted(text)
    /\ Cardinality(rules) < MaxRules
    /\ next_overlay_order <= MaxOrderWithRules + 1
    /\ bypass_rules' = bypass_rules \cup {rule_of(kind, text)}
    /\ UNCHANGED <<overlayVars, protection_rules>>

remove_bypass(kind, text) ==
    /\ accepted(text)
    /\ rule_of(kind, text) \in bypass_rules
    /\ bypass_rules' = bypass_rules \ {rule_of(kind, text)}
    /\ UNCHANGED <<overlayVars, protection_rules>>

PolicyInit ==
    /\ OverlayInit
    /\ protection_rules = {}
    /\ bypass_rules = {}

PolicyNext ==
    \/ /\ OverlayNext
       /\ UNCHANGED ruleVars
       /\ rules # {} => next_layer_id' <= MaxOrderWithRules + 1
    \/ \E kind \in Kinds, text \in Texts :
          \/ protect(kind, text)
          \/ unprotect(kind, text)
          \/ add_bypass(kind, text)
          \/ remove_bypass(kind, text)

PolicySpec == PolicyInit /\ [][PolicyNext]_<<overlayVars, ruleVars>>

-----------------------------------------------------------------------------
(* Properties. *)

\* Each name is given a part, in order, such that each part but "**" has exactly
\* one name, which it reads; "**" may have none unless it is the last.
aligned(pat, names, f) ==
    /\ \A i, j \in DOMAIN names : i < j => f[i] <= f[j]
    /\ \A i \in DOMAIN names : pat[f[i]] = "**" \/ names[i] \in reads(pat[f[i]])
    /\ \A k \in DOMAIN pat :
          \/ Cardinality({i \in DOMAIN names : f[i] = k}) = 1
          \/ pat[k] = "**" /\ (k < Len(pat) \/ \E i \in DOMAIN names : f[i] = k)

\* policy.md: "`/a/**` matches a recursive subtree below `/a`; it does not match
\* `/a` itself", "`/**/` matches non-root directories recursively, but not regular
\* files and not `/` itself".  A rule in force covers the paths whose names can be
\* aligned with its parts and, if it asks for directories, those that are
\* directories of the namespace at that moment.
RulesCoverAligned ==
    \A kind \in Kinds, p \in Paths :
        is_protected(kind, p) <=>
            \E rule \in protection_rules :
                LET pat == slots(rule.pattern.raw)
                    names == slots(p)
                IN  /\ rule.kind = kind
                    /\ rule.pattern.directory_only => p # <<>> /\ path_is_directory(p)
                    /\ \E f \in [DOMAIN names -> DOMAIN pat] : aligned(pat, names, f)

\* The text that list-protection shows for a rule, typed or sent back, names that
\* rule: unprotect compares patterns, not the paths they match.
ListedTextNamesRule ==
    \A rule_list \in {protection_rules, bypass_rules} :
        \A rule \in rule_list :
            \E shown \in listed(rule_list, {}) :
                /\ accepted(as_str(shown.pattern))
                /\ rule_of(shown.kind, as_str(shown.pattern)) = rule

\* Without --path a grant is for the path of the selected request
\* (allow_read_write_grant), and should cover that path and no other.
DefaultGrantExact ==
    \A p, other \in {q \in Paths : attr_for_path(q)} :
        grant_pattern_matches(p, other) <=> p = other

\* No name of the namespace reads as anything but itself.
PlainPaths ==
    \A p \in Paths : \A n \in DOMAIN p :
        /\ p[n] \notin Malformed /\ p[n] # "**" /\ p[n] # ""
        /\ Reads[p[n]] = {p[n]}

-----------------------------------------------------------------------------
(* The inductive invariant. *)

\* Every rule in force is the rule of a text that was accepted.
RulesFromTexts ==
    \A rule \in rules : \E kind \in Kinds, text \in Texts :
        accepted(text) /\ rule = rule_of(kind, text)

PolicyIndInv == OverlayIndInv /\ RulesFromTexts
=============================================================================
