--------------------------- MODULE PolicyRulesProofs ---------------------------
(***************************************************************************)
(* Proofs about PolicyRules, for any texts, paths and globs: the text a    *)
(* list shows for a rule names that rule, and a rule covers the paths      *)
(* whose names can be aligned with its parts.                              *)
(*                                                                         *)
(* Both rest on what a recursive function computes.  Each is shown in two  *)
(* steps: some function satisfies the recursive equation, and the set of   *)
(* arguments at which such a function has the value claimed is closed      *)
(* under the recursion, so it holds them all.                              *)
(***************************************************************************)
EXTENDS PolicyRules, OverlayProofs, FiniteSetTheorems

-----------------------------------------------------------------------------
(* Ranges. *)

\* A set with 0 that goes on from each number below N has every number up to N.
LEMMA UpFrom ==
  ASSUME NEW N \in Nat, NEW S, 0 \in S, \A n \in 1..N : n - 1 \in S => n \in S
  PROVE  0..N \subseteq S
<1>1. SUFFICES ASSUME (0..N) \ S # {} PROVE FALSE
  OBVIOUS
<1>2. (0..N) \ S \subseteq Nat
  OBVIOUS
<1>3. PICK b \in (0..N) \ S : \A m \in (0..N) \ S : b <= m
  BY <1>1, <1>2, LeastOf
<1>4. b \in 1..N /\ b - 1 \in 0..N /\ ~(b <= b - 1)
  BY <1>3
<1>5. b - 1 \in S
  BY <1>3, <1>4
<1> QED BY <1>3, <1>4, <1>5

\* A set with N + 1 that goes on downwards to 1 has every number in between.
LEMMA DownTo ==
  ASSUME NEW N \in Nat, NEW S, N + 1 \in S, \A n \in 1..N : n + 1 \in S => n \in S
  PROVE  1..N + 1 \subseteq S
<1>1. SUFFICES ASSUME (1..N + 1) \ S # {} PROVE FALSE
  OBVIOUS
<1>2. (1..N + 1) \ S \in SUBSET (0..N + 1) /\ N + 1 \in Nat
  OBVIOUS
<1>3. PICK b \in (1..N + 1) \ S : \A m \in (1..N + 1) \ S : m <= b
  BY <1>1, <1>2, GreatestOf
<1>4. b \in 1..N /\ b + 1 \in 1..N + 1 /\ ~(b + 1 <= b)
  BY <1>3
<1>5. b + 1 \in S
  BY <1>3, <1>4
<1> QED BY <1>3, <1>4, <1>5

-----------------------------------------------------------------------------
(* Normalization. *)

\* A function for the recursive equation of normalize_sandbox_path exists.
LEMMA OutExists ==
  ASSUME NEW parts, NEW N \in Nat
  PROVE  \E out : out = [n \in 0..N |-> IF n = 0 THEN <<>> ELSE after(out[n - 1], parts[n])]
<1> DEFINE S == {m \in 0..N : \E out :
                    out = [n \in 0..m |-> IF n = 0 THEN <<>> ELSE after(out[n - 1], parts[n])]}
<1>1. 0 \in S
  <2> DEFINE g == [n \in 0..0 |-> <<>>]
  <2>1. g = [n \in 0..0 |-> IF n = 0 THEN <<>> ELSE after(g[n - 1], parts[n])]
    OBVIOUS
  <2> HIDE DEF g
  <2>2. \E h : h = [n \in 0..0 |-> IF n = 0 THEN <<>> ELSE after(h[n - 1], parts[n])]
    BY <2>1
  <2> QED BY <2>2
<1>2. ASSUME NEW m \in 1..N, m - 1 \in S PROVE m \in S
  <2>1. PICK out : out = [n \in 0..m - 1 |->
                            IF n = 0 THEN <<>> ELSE after(out[n - 1], parts[n])]
    BY <1>2
  <2>2. \A n \in 0..m - 1 : out[n] = IF n = 0 THEN <<>> ELSE after(out[n - 1], parts[n])
    BY <2>1
  <2> DEFINE g == [n \in 0..m |-> IF n = m THEN after(out[m - 1], parts[m]) ELSE out[n]]
  <2>3. g = [n \in 0..m |-> IF n = 0 THEN <<>> ELSE after(g[n - 1], parts[n])]
    <3>1. ASSUME NEW n \in 0..m
          PROVE  g[n] = IF n = 0 THEN <<>> ELSE after(g[n - 1], parts[n])
      <4>1. CASE n = m
        <5>1. n # 0 /\ n - 1 \in 0..m /\ n - 1 # m
          BY <4>1
        <5>2. g[n] = after(out[m - 1], parts[m]) /\ g[n - 1] = out[n - 1]
          BY <4>1, <5>1
        <5> QED BY <4>1, <5>1, <5>2
      <4>2. CASE n # m /\ n # 0
        <5>1. n \in 0..m - 1 /\ n - 1 \in 0..m /\ n - 1 # m
          BY <4>2
        <5>2. g[n] = out[n] /\ g[n - 1] = out[n - 1]
          BY <4>2, <5>1
        <5> QED BY <2>2, <4>2, <5>1, <5>2
      <4>3. CASE n # m /\ n = 0
        <5>1. n \in 0..m - 1
          BY <4>3
        <5>2. g[n] = out[n]
          BY <4>3
        <5> QED BY <2>2, <4>3, <5>1, <5>2
      <4> QED BY <4>1, <4>2, <4>3
    <3>2. DOMAIN g = 0..m
      OBVIOUS
    <3> HIDE DEF g
    <3>3. g = [n \in 0..m |-> g[n]]
      BY <3>2 DEF g
    <3> QED BY <3>1, <3>3
  <2> HIDE DEF g
  <2>4. \E h : h = [n \in 0..m |-> IF n = 0 THEN <<>> ELSE after(h[n - 1], parts[n])]
    BY <2>3
  <2>5. m \in 0..N
    OBVIOUS
  <2> QED BY <2>4, <2>5
<1> HIDE DEF S
<1>3. 0..N \subseteq S
  BY <1>1, <1>2, UpFrom
<1>4. N \in S
  BY <1>3
<1> QED BY <1>4 DEF S

\* normalize_sandbox_path, step by step.
LEMMA NormalizeSteps ==
  ASSUME NEW parts \in Seq(STRING)
  PROVE  \E out : /\ out[0] = <<>>
                  /\ \A n \in 1..Len(parts) : out[n] = after(out[n - 1], parts[n])
                  /\ normalize_sandbox_path(parts) = out[Len(parts)]
<1>1. PICK N \in Nat : N = Len(parts)
  OBVIOUS
<1>2. PICK o : o = CHOOSE out :
          out = [n \in 0..N |-> IF n = 0 THEN <<>> ELSE after(out[n - 1], parts[n])]
  OBVIOUS
<1>3. \E out : out = [n \in 0..N |-> IF n = 0 THEN <<>> ELSE after(out[n - 1], parts[n])]
  BY OutExists
<1>4. o = [n \in 0..N |-> IF n = 0 THEN <<>> ELSE after(o[n - 1], parts[n])]
  BY <1>2, <1>3
<1>5. normalize_sandbox_path(parts) = o[N]
  BY <1>1, <1>2 DEF normalize_sandbox_path
<1>6. \A n \in 0..N : o[n] = IF n = 0 THEN <<>> ELSE after(o[n - 1], parts[n])
  BY <1>4
<1>7. 0 \in 0..N /\ \A n \in 1..N : n \in 0..N /\ n # 0
  OBVIOUS
<1>8. o[0] = <<>> /\ \A n \in 1..N : o[n] = after(o[n - 1], parts[n])
  BY <1>6, <1>7
<1> QED BY <1>1, <1>5, <1>8

\* The parts of a path that is normal: names, and neither "." nor "..".
PlainNames == STRING \ {".", ".."}

\* What normalize_sandbox_path returns is normal.
LEMMA NormalizeIsPlain ==
  ASSUME NEW parts \in Seq(STRING)
  PROVE  normalize_sandbox_path(parts) \in Seq(PlainNames)
<1>1. PICK N \in Nat : N = Len(parts)
  OBVIOUS
<1>2. PICK out : /\ out[0] = <<>>
                 /\ \A n \in 1..N : out[n] = after(out[n - 1], parts[n])
                 /\ normalize_sandbox_path(parts) = out[N]
  BY <1>1, NormalizeSteps
<1> DEFINE S == {n \in 0..N : out[n] \in Seq(PlainNames)}
<1>3. 0 \in S
  <2>1. <<>> \in Seq(PlainNames) /\ 0 \in 0..N
    OBVIOUS
  <2> QED BY <1>2, <2>1
<1>4. ASSUME NEW n \in 1..N, n - 1 \in S PROVE n \in S
  <2>1. PICK dir \in Seq(PlainNames) : dir = out[n - 1]
    BY <1>4
  <2>2. parts[n] \in STRING /\ out[n] = after(dir, parts[n])
    BY <1>1, <1>2, <2>1
  <2>3. dir # <<>> => parent(dir) \in Seq(PlainNames)
    <3>1. SUFFICES ASSUME dir # <<>> PROVE parent(dir) \in Seq(PlainNames)
      OBVIOUS
    <3>2. Len(dir) \in Nat /\ \A i \in 1..Len(dir) : dir[i] \in PlainNames
      OBVIOUS
    <3>3. \A i \in 1..Len(dir) - 1 : dir[i] \in PlainNames
      BY <3>2
    <3>4. 1 \in Int /\ Len(dir) - 1 \in Int
      BY <3>2
    <3> QED BY <3>3, <3>4, SubSeqProperties DEF parent
  <2>4. parts[n] \notin {".", ".."} => join(dir, parts[n]) \in Seq(PlainNames)
    <3>1. parts[n] \notin {".", ".."} => parts[n] \in PlainNames
      BY <2>2 DEF PlainNames
    <3> QED BY <3>1 DEF join
  <2>5. <<>> \in Seq(PlainNames)
    OBVIOUS
  <2>6. out[n] \in Seq(PlainNames)
    BY <2>2, <2>3, <2>4, <2>5 DEF after
  <2>7. n \in 0..N
    OBVIOUS
  <2> QED BY <2>6, <2>7
<1> HIDE DEF S
<1>5. 0..N \subseteq S
  BY <1>3, <1>4, UpFrom
<1>6. N \in S
  BY <1>5
<1> QED BY <1>2, <1>6 DEF S

\* A normal path is what it is normalized to.
LEMMA NormalizePlain ==
  ASSUME NEW raw \in Seq(PlainNames)
  PROVE  normalize_sandbox_path(raw) = raw
<1>1. PICK N \in Nat : N = Len(raw)
  OBVIOUS
<1>2. raw \in Seq(STRING) /\ \A n \in 1..N : raw[n] \in STRING /\ raw[n] # "." /\ raw[n] # ".."
  <2>1. PlainNames \subseteq STRING /\ \A s \in PlainNames : s # "." /\ s # ".."
    BY DEF PlainNames
  <2>2. \A n \in 1..N : raw[n] \in PlainNames
    BY <1>1
  <2>3. raw \in Seq(STRING)
    BY <2>1, SeqMonotonic
  <2> QED BY <2>1, <2>2, <2>3
<1>3. PICK out : /\ out[0] = <<>>
                 /\ \A n \in 1..N : out[n] = after(out[n - 1], raw[n])
                 /\ normalize_sandbox_path(raw) = out[N]
  BY <1>1, <1>2, NormalizeSteps
<1> DEFINE S == {n \in 0..N : /\ out[n] \in Seq(STRING) /\ Len(out[n]) = n
                              /\ \A i \in 1..n : out[n][i] = raw[i]}
<1>4. 0 \in S
  <2>1. <<>> \in Seq(STRING) /\ Len(<<>>) = 0 /\ 0 \in 0..N
    OBVIOUS
  <2>2. \A i \in 1..0 : FALSE
    OBVIOUS
  <2> QED BY <1>3, <2>1, <2>2
<1>5. ASSUME NEW n \in 1..N, n - 1 \in S PROVE n \in S
  <2>1. PICK dir \in Seq(STRING) : dir = out[n - 1]
    BY <1>5
  <2>2. Len(dir) = n - 1 /\ \A i \in 1..n - 1 : dir[i] = raw[i]
    BY <1>5, <2>1
  <2>3. PICK longer : longer = Append(dir, raw[n])
    OBVIOUS
  <2>4. out[n] = longer
    BY <1>2, <1>3, <2>1, <2>3 DEF after, join
  <2>5. /\ longer \in Seq(STRING) /\ Len(longer) = n /\ longer[n] = raw[n]
        /\ \A i \in 1..n - 1 : longer[i] = dir[i]
    BY <1>2, <2>2, <2>3
  <2>6. \A i \in 1..n : longer[i] = raw[i]
    <3> TAKE i \in 1..n
    <3>1. i = n \/ i \in 1..n - 1
      OBVIOUS
    <3> QED BY <2>2, <2>5, <3>1
  <2>7. n \in 0..N
    OBVIOUS
  <2> QED BY <2>4, <2>5, <2>6, <2>7
<1> HIDE DEF S
<1>6. 0..N \subseteq S
  BY <1>4, <1>5, UpFrom
<1>7. N \in S
  BY <1>6
<1>8. out[N] \in Seq(STRING) /\ Len(out[N]) = N /\ \A i \in 1..N : out[N][i] = raw[i]
  BY <1>7 DEF S
<1>9. out[N] = raw
  BY <1>1, <1>2, <1>8, SeqEqual
<1> QED BY <1>3, <1>9

\* Normalizing twice is normalizing once: a text that was stored and comes back
\* through PolicyPattern::new names the same path.
THEOREM NormalizeIdempotent ==
  ASSUME NEW parts \in Seq(STRING)
  PROVE  normalize_sandbox_path(normalize_sandbox_path(parts)) = normalize_sandbox_path(parts)
BY NormalizeIsPlain, NormalizePlain

-----------------------------------------------------------------------------
(* The commands. *)

\* The text of the pattern of an accepted text is accepted, and is that pattern's.
LEMMA ShownTextIsRule ==
  ASSUME NEW text \in Texts, accepted(text), NEW kind
  PROVE  accepted(as_str(new(text))) /\ rule_of(kind, as_str(new(text))) = rule_of(kind, text)
<1>1. text.parts \in Seq(STRING) /\ text.slash \in BOOLEAN
  BY PolicyRulesAssumption
<1>2. PICK raw : raw = normalize_sandbox_path(text.parts)
  OBVIOUS
<1>3. normalize_sandbox_path(raw) = raw
  BY <1>1, <1>2, NormalizeIsPlain, NormalizePlain
<1>4. IsGlob(raw)
  BY <1>2 DEF accepted
<1>5. PICK shown : shown = as_str(new(text))
  OBVIOUS
<1>6. shown.parts = raw /\ shown.slash = ((text.slash /\ raw # <<>>) \/ raw = <<>>)
  BY <1>2, <1>5 DEF as_str, new
<1>7. accepted(shown)
  BY <1>3, <1>4, <1>6 DEF accepted
<1>8. (shown.slash /\ raw # <<>>) = (text.slash /\ raw # <<>>)
  BY <1>1, <1>6
<1>9. new(shown) = new(text)
  BY <1>2, <1>3, <1>6, <1>8 DEF new
<1> QED BY <1>5, <1>7, <1>9 DEF rule_of

\* The commands about rules, and every step of the overlay, keep the rules those of
\* accepted texts.
LEMMA PolicyNextPreserves ==
  ASSUME PolicyIndInv, [PolicyNext]_<<overlayVars, ruleVars>>
  PROVE  PolicyIndInv'
<1>1. OverlayIndInv /\ RulesFromTexts
  BY DEF PolicyIndInv
<1>2. [OverlayNext]_overlayVars
  BY DEF PolicyNext, protect, unprotect, add_bypass, remove_bypass
<1>3. OverlayIndInv'
  BY <1>1, <1>2, OverlayNextPreserves
<1>4. ASSUME NEW rule \in rules'
      PROVE  \E kind \in Kinds, text \in Texts : accepted(text) /\ rule = rule_of(kind, text)
  <2>1. CASE rule \in rules
    BY <1>1, <2>1 DEF RulesFromTexts
  <2>2. CASE rule \notin rules
    BY <1>4, <2>2 DEF rules, PolicyNext, protect, unprotect, add_bypass, remove_bypass, ruleVars
  <2> QED BY <2>1, <2>2
<1>5. RulesFromTexts'
  BY <1>4 DEF RulesFromTexts, accepted, rule_of, new, IsGlob
<1> QED BY <1>3, <1>5 DEF PolicyIndInv

\* Every rule in force is the rule of a text that was accepted, and the namespace is
\* that of the mounts and hides (Sandbox::protect, unprotect, bypass in state.rs).
THEOREM PolicyInvariance == PolicySpec => []PolicyIndInv
<1>1. PolicyInit => PolicyIndInv
  <2>1. PolicyInit => OverlayIndInv
    BY OverlayInitHolds DEF PolicyInit
  <2>2. PolicyInit => RulesFromTexts
    BY DEF PolicyInit, RulesFromTexts, rules
  <2> QED BY <2>1, <2>2 DEF PolicyIndInv
<1>2. PolicyIndInv /\ [PolicyNext]_<<overlayVars, ruleVars>> => PolicyIndInv'
  BY PolicyNextPreserves
<1> QED BY <1>1, <1>2, PTL DEF PolicySpec

\* The text that list-protection or list-bypass shows for a rule names that rule when
\* it is typed or sent back (PolicyPattern::as_str and new).
THEOREM ListedTextCorrect == PolicySpec => []ListedTextNamesRule
<1>1. ASSUME RulesFromTexts PROVE ListedTextNamesRule
  <2> SUFFICES ASSUME NEW rule_list \in {protection_rules, bypass_rules},
                      NEW rule \in rule_list
               PROVE  \E shown \in listed(rule_list, {}) :
                        /\ accepted(as_str(shown.pattern))
                        /\ rule_of(shown.kind, as_str(shown.pattern)) = rule
    BY DEF ListedTextNamesRule
  <2>1. rule \in rules /\ rule \in listed(rule_list, {})
    BY DEF rules, listed
  <2>2. PICK kind \in Kinds, text \in Texts : accepted(text) /\ rule = rule_of(kind, text)
    BY <1>1, <2>1 DEF RulesFromTexts
  <2>3. rule.kind = kind /\ rule.pattern = new(text)
    BY <2>2 DEF rule_of
  <2>4. accepted(as_str(rule.pattern)) /\ rule_of(rule.kind, as_str(rule.pattern)) = rule
    BY <2>2, <2>3, ShownTextIsRule
  <2> QED BY <2>1, <2>4
<1>2. PolicyIndInv => ListedTextNamesRule
  BY <1>1 DEF PolicyIndInv
<1> QED BY <1>2, PolicyInvariance, PTL

-----------------------------------------------------------------------------
(* Matching. *)

\* pat and names are sequences.  (Of what does not matter: the root's empty name is
\* no string to the provers.)
Slots(pat, names) ==
    /\ Len(pat) \in Nat /\ DOMAIN pat = 1..Len(pat)
    /\ Len(names) \in Nat /\ DOMAIN names = 1..Len(names)

\* f aligns the names from j on with the parts from i on, as aligned does for all.
Fits(pat, names, i, j, f) ==
    /\ f \in [j..Len(names) -> i..Len(pat)]
    /\ \A a, b \in j..Len(names) : a < b => f[a] <= f[b]
    /\ \A a \in j..Len(names) : pat[f[a]] = "**" \/ names[a] \in reads(pat[f[a]])
    /\ \A k \in i..Len(pat) :
          \/ \E a \in j..Len(names) : f[a] = k /\ \A b \in j..Len(names) : f[b] = k => b = a
          \/ pat[k] = "**" /\ (k < Len(pat) \/ \E a \in j..Len(names) : f[a] = k)

Starts(pat, names, i) == {j \in 1..Len(names) + 1 : \E f : Fits(pat, names, i, j, f)}

\* When exactly the names before k have part i, the others fit the parts after it.
LEMMA FitsAfter ==
  ASSUME NEW pat, NEW names, Slots(pat, names), NEW i \in 1..Len(pat),
         NEW j \in 1..Len(names) + 1, NEW k \in j..Len(names) + 1, NEW f,
         Fits(pat, names, i, j, f),
         \A a \in j..k - 1 : f[a] = i, \A a \in k..Len(names) : f[a] # i
  PROVE  k \in Starts(pat, names, i + 1)
<1>1. PICK P \in Nat, N \in Nat : P = Len(pat) /\ N = Len(names)
  BY Zenon DEF Slots
<1>2. \A a \in k..N : a \in j..N
  BY <1>1
<1>3. ASSUME NEW a \in j..N, f[a] # i PROVE a \in k..N
  BY <1>1, <1>3
<1>4. \A a \in k..N : f[a] \in i + 1..P
  <2> TAKE a \in k..N
  <2>1. f[a] \in i..P /\ f[a] # i
    BY <1>1, <1>2 DEF Fits
  <2> QED BY <1>1, <2>1
<1>5. PICK g : g = [a \in k..N |-> f[a]]
  OBVIOUS
<1>6. g \in [k..N -> i + 1..P] /\ \A a \in k..N : g[a] = f[a]
  BY <1>4, <1>5
<1>7. \A a, b \in k..N : a < b => g[a] <= g[b]
  BY <1>1, <1>2, <1>6 DEF Fits
<1>8. \A a \in k..N : pat[g[a]] = "**" \/ names[a] \in reads(pat[g[a]])
  BY <1>1, <1>2, <1>6 DEF Fits
<1>9. ASSUME NEW m \in i + 1..P
      PROVE  \/ \E a \in k..N : g[a] = m /\ \A b \in k..N : g[b] = m => b = a
             \/ pat[m] = "**" /\ (m < P \/ \E a \in k..N : g[a] = m)
  <2>1. m \in i..P /\ m # i
    BY <1>1
  <2>2. \/ \E a \in j..N : f[a] = m /\ \A b \in j..N : f[b] = m => b = a
        \/ pat[m] = "**" /\ (m < P \/ \E a \in j..N : f[a] = m)
    BY <1>1, <2>1 DEF Fits
  <2>3. \A a \in j..N : f[a] = m => a \in k..N /\ g[a] = m
    BY <1>3, <1>6, <2>1
  <2>4. CASE \E a \in j..N : f[a] = m /\ \A b \in j..N : f[b] = m => b = a
    <3>1. PICK a \in j..N : f[a] = m /\ \A b \in j..N : f[b] = m => b = a
      BY <2>4
    <3>2. a \in k..N /\ g[a] = m
      BY <2>3, <3>1
    <3>3. \A b \in k..N : g[b] = m => b = a
      BY <1>2, <1>6, <3>1
    <3> QED BY <3>2, <3>3
  <2>5. CASE pat[m] = "**" /\ (m < P \/ \E a \in j..N : f[a] = m)
    BY <2>3, <2>5
  <2> QED BY <2>2, <2>4, <2>5
<1>10. Fits(pat, names, i + 1, k, g)
  BY <1>1, <1>6, <1>7, <1>8, <1>9 DEF Fits
<1>11. k \in 1..N + 1
  BY <1>1
<1> QED BY <1>1, <1>10, <1>11 DEF Starts

\* Giving the names from j up to k to part i goes in front of what fits after it.
LEMMA FitsBefore ==
  ASSUME NEW pat, NEW names, Slots(pat, names), NEW i \in 1..Len(pat),
         NEW j \in 1..Len(names) + 1, NEW k \in j..Len(names) + 1,
         k \in Starts(pat, names, i + 1),
         \A a \in j..k - 1 : pat[i] = "**" \/ names[a] \in reads(pat[i]),
         k = j + 1 \/ (pat[i] = "**" /\ (i < Len(pat) \/ j < k))
  PROVE  j \in Starts(pat, names, i)
<1>1. PICK P \in Nat, N \in Nat : P = Len(pat) /\ N = Len(names)
  BY Zenon DEF Slots
<1>2. PICK g : Fits(pat, names, i + 1, k, g)
  BY DEF Starts
<1>3. g \in [k..N -> i + 1..P] /\ \A a \in k..N : g[a] \in i + 1..P
  <2>1. g \in [k..N -> i + 1..P]
    BY <1>1, <1>2 DEF Fits
  <2> QED BY <2>1
<1>4. PICK f : f = [a \in j..N |-> IF a < k THEN i ELSE g[a]]
  OBVIOUS
<1>5. \A a \in j..N : (a < k /\ f[a] = i) \/ (a \in k..N /\ f[a] = g[a] /\ f[a] # i)
  <2> TAKE a \in j..N
  <2>1. f[a] = IF a < k THEN i ELSE g[a]
    BY <1>4
  <2>2. CASE a < k
    BY <2>1, <2>2
  <2>3. CASE ~(a < k)
    <3>1. a \in k..N
      BY <1>1, <2>3
    <3>2. g[a] # i
      BY <1>1, <1>3, <3>1
    <3> QED BY <2>1, <2>3, <3>1, <3>2
  <2> QED BY <2>2, <2>3
<1>6. f \in [j..N -> i..P]
  <2>1. \A a \in j..N : (IF a < k THEN i ELSE g[a]) \in i..P
    BY <1>1, <1>3
  <2> QED BY <1>4, <2>1
<1>7. ASSUME NEW a \in j..N, NEW b \in j..N, a < b PROVE f[a] <= f[b]
  <2>1. f[a] \in i..P /\ f[b] \in i..P
    BY <1>6
  <2>2. CASE a < k
    <3>1. f[a] = i
      BY <1>1, <1>5, <2>2
    <3> QED BY <1>1, <2>1, <3>1
  <2>3. CASE ~(a < k)
    <3>1. a \in k..N /\ b \in k..N /\ f[a] = g[a] /\ f[b] = g[b]
      BY <1>1, <1>4, <1>7, <2>3
    <3> QED BY <1>1, <1>2, <1>7, <3>1 DEF Fits
  <2> QED BY <2>2, <2>3
<1>8. ASSUME NEW a \in j..N PROVE pat[f[a]] = "**" \/ names[a] \in reads(pat[f[a]])
  <2>1. CASE a < k
    <3>1. f[a] = i /\ a \in j..k - 1
      BY <1>1, <1>5, <2>1
    <3> QED BY <3>1
  <2>2. CASE ~(a < k)
    <3>1. a \in k..N /\ f[a] = g[a]
      BY <1>5, <2>2
    <3> QED BY <1>1, <1>2, <3>1 DEF Fits
  <2> QED BY <2>1, <2>2
<1>9. \/ \E a \in j..N : f[a] = i /\ \A b \in j..N : f[b] = i => b = a
      \/ pat[i] = "**" /\ (i < P \/ \E a \in j..N : f[a] = i)
  <2>1. CASE k = j + 1
    <3>1. j \in j..N /\ j < k
      BY <1>1, <2>1
    <3>2. f[j] = i
      BY <1>4, <3>1
    <3>3. \A b \in j..N : f[b] = i => b < k
      BY <1>5
    <3>4. \A b \in j..N : b < k => b = j
      BY <1>1, <2>1
    <3> QED BY <3>1, <3>2, <3>3, <3>4
  <2>2. CASE pat[i] = "**" /\ i < P
    BY <2>2
  <2>3. CASE pat[i] = "**" /\ j < k
    <3>1. j \in j..N
      BY <1>1, <2>3
    <3>2. f[j] = i
      BY <1>4, <2>3, <3>1
    <3> QED BY <2>3, <3>1, <3>2
  <2> QED BY <1>1, <2>1, <2>2, <2>3
<1>10. ASSUME NEW m \in i + 1..P
       PROVE  \/ \E a \in j..N : f[a] = m /\ \A b \in j..N : f[b] = m => b = a
              \/ pat[m] = "**" /\ (m < P \/ \E a \in j..N : f[a] = m)
  <2>1. m # i /\ \A a \in k..N : a \in j..N
    BY <1>1
  <2>2. \A a \in k..N : f[a] = g[a]
    BY <1>1, <1>4, <2>1
  <2>3. \A a \in j..N : f[a] = m => a \in k..N
    BY <1>5, <2>1
  <2>4. \/ \E a \in k..N : g[a] = m /\ \A b \in k..N : g[b] = m => b = a
        \/ pat[m] = "**" /\ (m < P \/ \E a \in k..N : g[a] = m)
    BY <1>1, <1>2 DEF Fits
  <2> QED BY <2>1, <2>2, <2>3, <2>4
<1>11. \A m \in i..P : m = i \/ m \in i + 1..P
  BY <1>1
<1>12. Fits(pat, names, i, j, f)
  BY <1>1, <1>6, <1>7, <1>8, <1>9, <1>10, <1>11 DEF Fits
<1> QED BY <1>12 DEF Starts

\* Past the last part, only the end of the path is left.
LEMMA StartsAtEnd ==
  ASSUME NEW pat, NEW names, Slots(pat, names)
  PROVE  Starts(pat, names, Len(pat) + 1) = {Len(names) + 1}
<1>1. PICK P \in Nat, N \in Nat : P = Len(pat) /\ N = Len(names)
  BY Zenon DEF Slots
<1>2. ASSUME NEW j \in Starts(pat, names, P + 1) PROVE j = N + 1
  <2>1. j \in 1..N + 1
    BY <1>1 DEF Starts
  <2>2. PICK f : f \in [j..N -> P + 1..P]
    BY <1>1 DEF Starts, Fits
  <2>3. \A a \in P + 1..P : FALSE
    OBVIOUS
  <2>4. \A a \in j..N : f[a] \in P + 1..P
    BY <2>2
  <2>5. ~(j <= N)
    BY <2>1, <2>3, <2>4
  <2> QED BY <2>1, <2>5
<1>3. N + 1 \in Starts(pat, names, P + 1)
  <2>1. PICK f : f = [a \in N + 1..N |-> 0]
    OBVIOUS
  <2>2. (\A a \in N + 1..N : FALSE) /\ (\A m \in P + 1..P : FALSE) /\ N + 1 \in 1..N + 1
    OBVIOUS
  <2>3. f \in [N + 1..N -> P + 1..P]
    BY <2>1, <2>2
  <2>4. Fits(pat, names, P + 1, N + 1, f)
    BY <1>1, <2>2, <2>3 DEF Fits
  <2> QED BY <1>1, <2>2, <2>4 DEF Starts
<1> QED BY <1>1, <1>2, <1>3

\* The alignments satisfy the recursive equation of glob_matches.
LEMMA StartsStep ==
  ASSUME NEW pat, NEW names, Slots(pat, names), NEW i \in 1..Len(pat)
  PROVE  Starts(pat, names, i) = before(pat, names, i, Starts(pat, names, i + 1))
<1>1. PICK P \in Nat, N \in Nat : P = Len(pat) /\ N = Len(names)
  BY Zenon DEF Slots
<1>2. PICK rest : rest = Starts(pat, names, i + 1)
  OBVIOUS
<1>3. DOMAIN names = 1..N /\ rest \subseteq 1..N + 1 /\ Starts(pat, names, i) \subseteq 1..N + 1
  BY <1>1, <1>2 DEF Starts, Slots
<1>4. CASE pat[i] # "**"
  <2>1. ASSUME NEW j \in Starts(pat, names, i)
        PROVE  j \in 1..N /\ names[j] \in reads(pat[i]) /\ j + 1 \in rest
    <3>1. PICK f : Fits(pat, names, i, j, f)
      BY DEF Starts
    <3>2. j \in 1..N + 1 /\ i \in i..P
      BY <1>1, <1>3
    <3>3. PICK a \in j..N : f[a] = i /\ \A b \in j..N : f[b] = i => b = a
      BY <1>1, <1>4, <3>1, <3>2 DEF Fits
    <3>4. j \in j..N /\ j \in 1..N
      BY <3>2
    <3>5. f[j] \in i..P /\ (j < a => f[j] <= f[a])
      BY <1>1, <3>1, <3>4 DEF Fits
    <3>6. f[j] = i
      BY <1>1, <3>2, <3>3, <3>5
    <3>7. a = j
      BY <3>3, <3>4, <3>6
    <3>8. names[j] \in reads(pat[i])
      BY <1>1, <1>4, <3>1, <3>4, <3>6 DEF Fits
    <3>9. (\A b \in j..(j + 1) - 1 : f[b] = i) /\ \A b \in j + 1..N : f[b] # i
      <4>1. \A b \in j..(j + 1) - 1 : b = j
        BY <3>2
      <4>2. \A b \in j + 1..N : b \in j..N /\ b # j
        BY <3>2
      <4> QED BY <3>3, <3>6, <3>7, <4>1, <4>2
    <3>10. j + 1 \in j..N + 1
      BY <3>4
    <3>11. j + 1 \in rest
      BY <1>1, <1>2, <3>1, <3>2, <3>9, <3>10, FitsAfter
    <3> QED BY <3>4, <3>8, <3>11
  <2>2. ASSUME NEW j \in 1..N, names[j] \in reads(pat[i]), j + 1 \in rest
        PROVE  j \in Starts(pat, names, i)
    <3>1. PICK k : k = j + 1
      OBVIOUS
    <3>2. j \in 1..N + 1 /\ k \in j..N + 1 /\ \A b \in j..k - 1 : b = j
      BY <3>1
    <3> QED BY <1>1, <1>2, <2>2, <3>1, <3>2, FitsBefore
  <2> QED BY <1>2, <1>3, <1>4, <2>1, <2>2 DEF before
<1>5. CASE pat[i] = "**" /\ i = P
  <2>1. rest = {N + 1}
    BY <1>1, <1>2, <1>5, StartsAtEnd
  <2>2. ASSUME NEW j \in Starts(pat, names, i) PROVE j \in 1..N
    <3>1. PICK f : Fits(pat, names, i, j, f)
      BY DEF Starts
    <3>2. i \in i..P /\ ~(i < P) /\ j \in 1..N + 1
      BY <1>1, <1>3, <1>5
    <3>3. PICK a \in j..N : f[a] = i
      BY <1>1, <3>1, <3>2 DEF Fits
    <3> QED BY <3>2, <3>3
  <2>3. ASSUME NEW j \in 1..N PROVE j \in Starts(pat, names, i)
    <3>1. PICK k : k = N + 1
      OBVIOUS
    <3>2. j \in 1..N + 1 /\ k \in j..N + 1 /\ j < k /\ k \in rest
      BY <2>1, <3>1
    <3> QED BY <1>1, <1>2, <1>5, <3>2, FitsBefore
  <2> QED BY <1>1, <1>3, <1>5, <2>2, <2>3 DEF before
<1>6. CASE pat[i] = "**" /\ i # P
  <2>1. ASSUME NEW j \in Starts(pat, names, i) PROVE \E k \in rest : j <= k
    <3>1. PICK f : Fits(pat, names, i, j, f)
      BY DEF Starts
    <3>2. j \in 1..N + 1 /\ j \in Nat
      BY <1>3
    <3> DEFINE T == {a \in j..N : f[a] # i}
    <3>3. CASE T = {}
      <4>1. PICK k : k = N + 1
        OBVIOUS
      <4>2. k \in j..N + 1 /\ j <= k
        BY <3>2, <4>1
      <4>3. (\A a \in j..k - 1 : f[a] = i) /\ \A a \in k..N : f[a] # i
        <5>1. \A a \in j..k - 1 : a \in j..N
          BY <3>2, <4>1
        <5>2. \A a \in k..N : FALSE
          BY <4>1
        <5> QED BY <3>3, <5>1, <5>2
      <4>4. k \in rest
        BY <1>1, <1>2, <3>1, <3>2, <4>2, <4>3, FitsAfter
      <4> QED BY <4>2, <4>4
    <3>4. CASE T # {}
      <4>1. T \subseteq Nat
        BY <3>2
      <4>2. PICK k \in T : \A a \in T : k <= a
        BY <3>4, <4>1, LeastOf
      <4>3. k \in j..N /\ f[k] # i /\ k \in j..N + 1 /\ j <= k
        BY <3>2, <4>2
      <4>4. \A a \in j..k - 1 : f[a] = i
        <5> TAKE a \in j..k - 1
        <5>1. a \in j..N /\ ~(k <= a)
          BY <3>2, <4>3
        <5> QED BY <4>2, <5>1
      <4>5. \A a \in k..N : f[a] # i
        <5> TAKE a \in k..N
        <5>1. a \in j..N /\ (k < a \/ k = a)
          BY <3>2, <4>3
        <5>2. f[k] \in i..P /\ f[a] \in i..P /\ (k < a => f[k] <= f[a])
          BY <1>1, <3>1, <4>3, <5>1 DEF Fits
        <5> QED BY <1>1, <4>3, <5>1, <5>2
      <4>6. k \in rest
        BY <1>1, <1>2, <3>1, <3>2, <4>3, <4>4, <4>5, FitsAfter
      <4> QED BY <4>3, <4>6
    <3> QED BY <3>3, <3>4
  <2>2. ASSUME NEW j \in 1..N + 1, NEW k \in rest, j <= k
        PROVE  j \in Starts(pat, names, i)
    <3>1. k \in j..N + 1 /\ i < P
      BY <1>1, <1>3, <1>6, <2>2
    <3> QED BY <1>1, <1>2, <1>6, <3>1, FitsBefore
  <2> QED BY <1>1, <1>2, <1>3, <1>6, <2>1, <2>2 DEF before
<1> QED BY <1>4, <1>5, <1>6

\* The recursive function of glob_matches has the alignments as its values.
LEMMA GlobIsStarts ==
  ASSUME NEW pattern, NEW path, Slots(slots(pattern), slots(path))
  PROVE  glob_matches(pattern, path) <=> 1 \in Starts(slots(pattern), slots(path), 1)
<1>1. PICK pat, names : pat = slots(pattern) /\ names = slots(path) /\ Slots(pat, names)
  OBVIOUS
<1>2. PICK P \in Nat, N \in Nat : P = Len(pat) /\ N = Len(names)
  BY <1>1, Zenon DEF Slots
<1>3. PICK c : c = CHOOSE from : from = [i \in 1..P + 1 |->
          IF i > P THEN {N + 1} ELSE before(pat, names, i, from[i + 1])]
  OBVIOUS
<1>4. PICK g : g = [i \in 1..P + 1 |-> Starts(pat, names, i)]
  OBVIOUS
<1>5. g = [i \in 1..P + 1 |-> IF i > P THEN {N + 1} ELSE before(pat, names, i, g[i + 1])]
  <2>1. ASSUME NEW i \in 1..P + 1
        PROVE  g[i] = IF i > P THEN {N + 1} ELSE before(pat, names, i, g[i + 1])
    <3>1. CASE i > P
      <4>1. i = P + 1
        BY <3>1
      <4> QED BY <1>1, <1>2, <1>4, <3>1, <4>1, StartsAtEnd
    <3>2. CASE ~(i > P)
      <4>1. i \in 1..P /\ i + 1 \in 1..P + 1
        BY <3>2
      <4>2. g[i + 1] = Starts(pat, names, i + 1) /\ g[i] = Starts(pat, names, i)
        BY <1>4, <4>1
      <4> QED BY <1>1, <1>2, <3>2, <4>1, <4>2, StartsStep
    <3> QED BY <3>1, <3>2
  <2>2. g = [i \in 1..P + 1 |-> g[i]]
    BY <1>4
  <2> QED BY <2>1, <2>2
<1>6. c = [i \in 1..P + 1 |-> IF i > P THEN {N + 1} ELSE before(pat, names, i, c[i + 1])]
  <2>1. \E from : from = [i \in 1..P + 1 |->
                            IF i > P THEN {N + 1} ELSE before(pat, names, i, from[i + 1])]
    BY <1>5
  <2> QED BY <1>3, <2>1
<1>7. \A i \in 1..P + 1 : c[i] = IF i > P THEN {N + 1} ELSE before(pat, names, i, c[i + 1])
  BY <1>6
<1> DEFINE S == {i \in 1..P + 1 : c[i] = Starts(pat, names, i)}
<1>8. P + 1 \in S
  <2>1. P + 1 \in 1..P + 1 /\ P + 1 > P
    OBVIOUS
  <2> QED BY <1>1, <1>2, <1>7, <2>1, StartsAtEnd
<1>9. ASSUME NEW i \in 1..P, i + 1 \in S PROVE i \in S
  <2>1. i \in 1..P + 1 /\ ~(i > P) /\ i \in 1..Len(pat)
    BY <1>2
  <2>2. c[i] = before(pat, names, i, Starts(pat, names, i + 1))
    BY <1>7, <1>9, <2>1
  <2>3. c[i] = Starts(pat, names, i)
    BY <1>1, <2>1, <2>2, StartsStep
  <2> QED BY <2>1, <2>3
<1> HIDE DEF S
<1>10. 1..P + 1 \subseteq S
  BY <1>8, <1>9, DownTo
<1>11. 1 \in 1..P + 1
  OBVIOUS
<1>12. c[1] = Starts(pat, names, 1)
  BY <1>10, <1>11 DEF S
<1>13. glob_matches(pattern, path) <=> 1 \in c[1]
  BY <1>1, <1>2, <1>3 DEF glob_matches
<1> QED BY <1>1, <1>12, <1>13

\* Exactly one name has the part.
LEMMA OneName ==
  ASSUME NEW N \in Nat, NEW f, NEW k
  PROVE  Cardinality({a \in 1..N : f[a] = k}) = 1 <=>
           \E a \in 1..N : f[a] = k /\ \A b \in 1..N : f[b] = k => b = a
<1> DEFINE S == {a \in 1..N : f[a] = k}
<1>1. IsFiniteSet(S)
  <2>1. IsFiniteSet(1..N)
    BY FS_Interval
  <2>2. S \subseteq 1..N
    OBVIOUS
  <2> QED BY <2>1, <2>2, FS_Subset
<1>2. Cardinality(S) = 1 <=> \E a : S = {a}
  BY <1>1, FS_Singleton
<1>3. (\E a : S = {a}) <=> \E a \in 1..N : f[a] = k /\ \A b \in 1..N : f[b] = k => b = a
  OBVIOUS
<1> QED BY <1>2, <1>3

\* The alignments from the first part and the first name on are those of aligned.
LEMMA AlignedIsFits ==
  ASSUME NEW pat, NEW names, Slots(pat, names)
  PROVE  1 \in Starts(pat, names, 1) <=>
           \E f \in [DOMAIN names -> DOMAIN pat] : aligned(pat, names, f)
<1>1. PICK P \in Nat, N \in Nat : P = Len(pat) /\ N = Len(names)
  BY Zenon DEF Slots
<1>2. DOMAIN names = 1..N /\ DOMAIN pat = 1..P
  BY <1>1 DEF Slots
<1>3. ASSUME NEW f \in [1..N -> 1..P]
      PROVE  aligned(pat, names, f) <=> Fits(pat, names, 1, 1, f)
  <2>1. ASSUME NEW k \in 1..P
        PROVE  Cardinality({a \in 1..N : f[a] = k}) = 1 <=>
                 \E a \in 1..N : f[a] = k /\ \A b \in 1..N : f[b] = k => b = a
    BY OneName
  <2>2. aligned(pat, names, f) <=>
          /\ \A a, b \in 1..N : a < b => f[a] <= f[b]
          /\ \A a \in 1..N : pat[f[a]] = "**" \/ names[a] \in reads(pat[f[a]])
          /\ \A k \in 1..P :
                \/ Cardinality({a \in 1..N : f[a] = k}) = 1
                \/ pat[k] = "**" /\ (k < P \/ \E a \in 1..N : f[a] = k)
    BY <1>1, <1>2, Zenon DEF aligned
  <2>3. Fits(pat, names, 1, 1, f) <=>
          /\ \A a, b \in 1..N : a < b => f[a] <= f[b]
          /\ \A a \in 1..N : pat[f[a]] = "**" \/ names[a] \in reads(pat[f[a]])
          /\ \A k \in 1..P :
                \/ \E a \in 1..N : f[a] = k /\ \A b \in 1..N : f[b] = k => b = a
                \/ pat[k] = "**" /\ (k < P \/ \E a \in 1..N : f[a] = k)
    BY <1>1, Zenon DEF Fits
  <2> QED BY <2>1, <2>2, <2>3, Zenon
<1>4. \A f : Fits(pat, names, 1, 1, f) => f \in [1..N -> 1..P]
  BY <1>1 DEF Fits
<1>5. 1 \in 1..N + 1
  OBVIOUS
<1> QED BY <1>1, <1>2, <1>3, <1>4, <1>5 DEF Starts

\* What stands after the slashes of a path is a sequence.
LEMMA SlotsOfPaths ==
  ASSUME NEW pattern \in Seq(STRING), NEW path \in Seq(STRING)
  PROVE  Slots(slots(pattern), slots(path))
<1>1. PICK root : root = ""
  BY Zenon
<1>2. Len(<<root>>) = 1 /\ DOMAIN <<root>> = 1..1
  OBVIOUS
<1>3. ASSUME NEW s \in Seq(STRING) PROVE Len(slots(s)) \in Nat /\ DOMAIN slots(s) = 1..Len(slots(s))
  <2>1. Len(s) \in Nat /\ DOMAIN s = 1..Len(s)
    OBVIOUS
  <2> QED BY <1>1, <1>2, <2>1, Zenon DEF slots
<1> QED BY <1>3 DEF Slots

\* glob_matches finds a match exactly when there is an alignment, however many
\* "**" the pattern has (glob::Pattern::matches_path_with).
THEOREM GlobMatchesAligned ==
  ASSUME NEW pattern \in Seq(STRING), NEW path \in Seq(STRING)
  PROVE  glob_matches(pattern, path) <=>
           \E f \in [DOMAIN slots(path) -> DOMAIN slots(pattern)] :
              aligned(slots(pattern), slots(path), f)
BY SlotsOfPaths, GlobIsStarts, AlignedIsFits

\* Whatever the rules, the mounts and the hides, a protection rule covers the paths
\* whose names can be aligned with its parts and, if it ends in a slash, those that
\* are directories of the namespace then (PolicyPattern::matches, is_protected).
THEOREM RulesCoverCorrect == PolicySpec => []RulesCoverAligned
<1>1. ASSUME RulesFromTexts PROVE RulesCoverAligned
  <2> SUFFICES ASSUME NEW kind \in Kinds, NEW p \in Paths, NEW rule \in protection_rules
               PROVE  matches(rule.pattern, p, path_is_directory(p)) <=>
                        LET pat == slots(rule.pattern.raw)
                            names == slots(p)
                        IN  /\ rule.pattern.directory_only => p # <<>> /\ path_is_directory(p)
                            /\ \E f \in [DOMAIN names -> DOMAIN pat] : aligned(pat, names, f)
    BY DEF RulesCoverAligned, is_protected, covers
  <2>1. rule \in rules
    BY DEF rules
  <2>2. PICK k \in Kinds, text \in Texts : accepted(text) /\ rule = rule_of(k, text)
    BY <1>1, <2>1 DEF RulesFromTexts
  <2>3. PICK raw : raw = rule.pattern.raw
    OBVIOUS
  <2>4. raw = normalize_sandbox_path(text.parts) /\ text.parts \in Seq(STRING)
    BY <2>2, <2>3, PolicyRulesAssumption DEF rule_of, new
  <2>5. raw \in Seq(STRING)
    <3>1. raw \in Seq(PlainNames) /\ PlainNames \subseteq STRING
      BY <2>4, NormalizeIsPlain DEF PlainNames
    <3> QED BY <3>1, SeqMonotonic
  <2>6. IsGlob(raw)
    BY <2>2, <2>4 DEF accepted
  <2>7. p \in Seq(STRING)
    BY OverlayAssumption
  <2>8. glob_matches(raw, p) <=>
          \E f \in [DOMAIN slots(p) -> DOMAIN slots(raw)] : aligned(slots(raw), slots(p), f)
    BY <2>5, <2>7, GlobMatchesAligned
  <2> QED BY <2>3, <2>6, <2>8 DEF matches
<1>2. PolicyIndInv => RulesCoverAligned
  BY <1>1 DEF PolicyIndInv
<1> QED BY <1>2, PolicyInvariance, PTL

-----------------------------------------------------------------------------
(* Grants for the path of a request. *)

\* A pattern of parts that read only themselves matches the path with its parts.
LEMMA LiteralStarts ==
  ASSUME NEW pat, NEW names, Slots(pat, names),
         \A n \in 1..Len(pat) : pat[n] # "**" /\ reads(pat[n]) = {pat[n]}
  PROVE  1 \in Starts(pat, names, 1) <=>
           Len(pat) = Len(names) /\ \A n \in 1..Len(pat) : names[n] = pat[n]
<1>1. PICK P \in Nat, N \in Nat : P = Len(pat) /\ N = Len(names)
  BY Zenon DEF Slots
<1>2. PICK d \in Int : d = N - P
  OBVIOUS
<1> DEFINE S == {i \in 1..P + 1 : \A j \in 1..N + 1 :
                    j \in Starts(pat, names, i) <=>
                      j = i + d /\ \A n \in i..P : names[n + d] = pat[n]}
<1>3. P + 1 \in S
  <2>1. \A j \in 1..N + 1 : j \in Starts(pat, names, P + 1) <=> j = (P + 1) + d
    <3>1. Starts(pat, names, P + 1) = {N + 1}
      BY <1>1, StartsAtEnd
    <3> QED BY <1>2, <3>1
  <2>2. \A n \in P + 1..P : FALSE
    OBVIOUS
  <2>3. P + 1 \in 1..P + 1
    OBVIOUS
  <2> QED BY <2>1, <2>2, <2>3
<1>4. ASSUME NEW i \in 1..P, i + 1 \in S PROVE i \in S
  <2>1. ASSUME NEW j \in 1..N + 1
        PROVE  j \in Starts(pat, names, i) <=> j = i + d /\ \A n \in i..P : names[n + d] = pat[n]
    <3>1. j \in Starts(pat, names, i) <=>
            j \in 1..N /\ names[j] = pat[i] /\ j + 1 \in Starts(pat, names, i + 1)
      <4>1. Starts(pat, names, i) = before(pat, names, i, Starts(pat, names, i + 1))
        BY <1>1, StartsStep
      <4>2. pat[i] # "**" /\ reads(pat[i]) = {pat[i]} /\ DOMAIN names = 1..N
        BY <1>1 DEF Slots
      <4> QED BY <4>1, <4>2 DEF before
    <3>2. j \in 1..N => (j + 1 \in Starts(pat, names, i + 1) <=>
            j + 1 = (i + 1) + d /\ \A n \in i + 1..P : names[n + d] = pat[n])
      <4>1. j \in 1..N => j + 1 \in 1..N + 1
        OBVIOUS
      <4> QED BY <1>4, <4>1
    <3>3. j + 1 = (i + 1) + d <=> j = i + d
      BY <1>2
    <3>4. j = i + d => j \in 1..N
      BY <1>2
    <3>5. (\A n \in i..P : names[n + d] = pat[n]) <=>
            names[i + d] = pat[i] /\ \A n \in i + 1..P : names[n + d] = pat[n]
      <4>1. i \in i..P /\ \A n \in i..P : n = i \/ n \in i + 1..P
        OBVIOUS
      <4>2. \A n \in i + 1..P : n \in i..P
        OBVIOUS
      <4> QED BY <4>1, <4>2, Zenon
    <3> QED BY <3>1, <3>2, <3>3, <3>4, <3>5
  <2>2. i \in 1..P + 1
    OBVIOUS
  <2> QED BY <2>1, <2>2
<1> HIDE DEF S
<1>5. 1..P + 1 \subseteq S
  BY <1>3, <1>4, DownTo
<1>6. 1 \in 1..P + 1 /\ 1 \in 1..N + 1
  OBVIOUS
<1>7. 1 \in Starts(pat, names, 1) <=> 1 = 1 + d /\ \A n \in 1..P : names[n + d] = pat[n]
  BY <1>5, <1>6 DEF S
<1>8. 1 = 1 + d <=> P = N
  BY <1>2
<1>9. P = N => \A n \in 1..P : n + d = n
  BY <1>2
<1> QED BY <1>1, <1>7, <1>8, <1>9

\* Where no name reads as a glob, a pattern that is a path matches that path only.
LEMMA PlainMatchesItself ==
  ASSUME PlainPaths, NEW p \in Paths, NEW q \in Paths
  PROVE  glob_matches(p, q) <=> p = q
<1>1. p \in Seq(STRING) /\ q \in Seq(STRING)
  BY OverlayAssumption
<1>2. PICK pat, names : pat = slots(p) /\ names = slots(q) /\ Slots(pat, names)
  BY <1>1, SlotsOfPaths
<1>3. PICK root : root = ""
  BY Zenon
<1>4. pat = (IF p = <<>> THEN <<root>> ELSE p) /\ names = IF q = <<>> THEN <<root>> ELSE q
  BY <1>2, <1>3, Zenon DEF slots
<1>5. ASSUME NEW s \in Seq(STRING), s \in Paths
      PROVE  /\ DOMAIN s = 1..Len(s)
             /\ \A n \in 1..Len(s) : s[n] # root /\ s[n] # "**" /\ reads(s[n]) = {s[n]}
  <2>1. DOMAIN s = 1..Len(s)
    OBVIOUS
  <2>2. \A n \in DOMAIN s : s[n] # root /\ s[n] # "**" /\ reads(s[n]) = {s[n]}
    BY <1>3, <1>5, Zenon DEF PlainPaths, reads
  <2> QED BY <2>1, <2>2
<1>6. root # "**" /\ reads(root) = {root}
  BY <1>3 DEF reads
<1>7. \A n \in 1..Len(pat) : pat[n] # "**" /\ reads(pat[n]) = {pat[n]}
  <2>1. CASE p = <<>>
    <3>1. Len(pat) = 1 /\ pat[1] = root /\ \A n \in 1..1 : n = 1
      BY <1>4, <2>1
    <3> QED BY <1>6, <3>1
  <2>2. CASE p # <<>>
    BY <1>1, <1>4, <1>5, <2>2
  <2> QED BY <2>1, <2>2
<1>8. glob_matches(p, q) <=> Len(pat) = Len(names) /\ \A n \in 1..Len(pat) : names[n] = pat[n]
  <2>1. glob_matches(p, q) <=> 1 \in Starts(slots(p), slots(q), 1)
    BY <1>2, GlobIsStarts, Zenon
  <2>2. 1 \in Starts(pat, names, 1) <=>
          Len(pat) = Len(names) /\ \A n \in 1..Len(pat) : names[n] = pat[n]
    <3>1. Slots(pat, names)
      BY <1>2
    <3> QED BY <1>7, <3>1, LiteralStarts
  <2> QED BY <1>2, <2>1, <2>2, Zenon
<1>9. ASSUME Len(pat) = Len(names), \A n \in 1..Len(pat) : names[n] = pat[n]
      PROVE  p = q
  <2>1. ASSUME NEW s \in Seq(STRING), s # <<>> PROVE 1 \in 1..Len(s) /\ Len(s) \in Nat
    BY <2>1, EmptySeq
  <2>2. CASE p = <<>> /\ q # <<>>
    <3>1. names = q /\ 1 \in 1..Len(q) /\ pat[1] = root /\ Len(pat) = 1
      BY <1>1, <1>4, <2>1, <2>2
    <3>2. q[1] # root
      BY <1>1, <1>5, <3>1
    <3>3. q[1] = root
      BY <1>9, <3>1
    <3> QED BY <3>2, <3>3
  <2>3. CASE p # <<>> /\ q = <<>>
    <3>1. pat = p /\ 1 \in 1..Len(p) /\ names[1] = root
      BY <1>1, <1>4, <2>1, <2>3
    <3>2. p[1] # root
      BY <1>1, <1>5, <3>1
    <3>3. p[1] = root
      BY <1>9, <3>1
    <3> QED BY <3>2, <3>3
  <2>4. CASE p # <<>> /\ q # <<>>
    <3>1. pat = p /\ names = q
      BY <1>4, <2>4
    <3> QED BY <1>1, <1>9, <3>1, SeqEqual
  <2> QED BY <2>2, <2>3, <2>4
<1>10. p = q => pat = names
  BY <1>4
<1> QED BY <1>8, <1>9, <1>10

\* Where no name of the namespace reads as a glob, the grant for the path of a
\* request covers that path and no other (allow_read_write_grant, From<&SandboxPath>
\* for PolicyPattern in state.rs).
THEOREM PlainGrantsAreExact == PolicySpec => [](PlainPaths => DefaultGrantExact)
<1>1. ASSUME PlainPaths, NEW p \in Paths, NEW q \in Paths
      PROVE  grant_pattern_matches(p, q) <=> p = q
  <2>1. glob_matches(p, q) <=> p = q
    BY <1>1, PlainMatchesItself
  <2>2. IsGlob(p)
    BY <1>1 DEF IsGlob, PlainPaths
  <2>3. from_path(p).raw = p /\ from_path(p).directory_only = FALSE
    BY DEF from_path
  <2> QED BY <2>1, <2>2, <2>3 DEF grant_pattern_matches, matches
<1>2. PlainPaths => DefaultGrantExact
  BY <1>1 DEF DefaultGrantExact
<1> QED BY <1>2, PTL

-----------------------------------------------------------------------------
(* The namespace under the commands. *)

\* Rules come and go without touching the namespace: with them, the sandbox still
\* does what Overlay says.
THEOREM PolicyKeepsOverlay == PolicySpec => OverlaySpec
<1>1. PolicyInit => OverlayInit
  BY DEF PolicyInit
<1>2. [PolicyNext]_<<overlayVars, ruleVars>> => [OverlayNext]_overlayVars
  BY DEF PolicyNext, protect, unprotect, add_bypass, remove_bypass
<1> QED BY <1>1, <1>2, PTL DEF PolicySpec, OverlaySpec

\* So resolution and listing are right under the commands of PolicyRules too.
THEOREM NamespaceUnderRules == PolicySpec => [](ResolutionFollowsStack /\ ListingAgrees)
BY PolicyKeepsOverlay, ResolutionCorrect, ListingCorrect, PTL
=============================================================================
