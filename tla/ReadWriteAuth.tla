----------------------------- MODULE ReadWriteAuth -----------------------------
(***************************************************************************)
(* Read/write authorization of one sandbox: the gate every FUSE operation  *)
(* passes before it touches the host (SandboxFs::authorize_read_write),    *)
(* the pending queue and the grants of the SandboxRegistry, and the        *)
(* control commands that decide pending requests (SessionState::allow,     *)
(* allow_read_write_grant, deny, cancel, cancel_all, and the cancellation  *)
(* of one attached view).                                                  *)
(*                                                                         *)
(* Actors: every attached view runs one FUSE event loop, so one operation  *)
(* of a view is in authorization at a time; every control connection has a *)
(* thread of its own.  They share the registry under one mutex.  A thread  *)
(* that waits for decisions holds no lock, and the cancel and grant        *)
(* commands take requests out of the registry under the lock but wake      *)
(* their waiters after releasing it.                                       *)
(*                                                                         *)
(* Abstractions: a glob pattern is the set of paths it matches; a process  *)
(* identity (pid, start time) is a value of Procs; the operation counter   *)
(* numbers requests and grants only (the ids the code spends on log lines  *)
(* leave gaps that nothing observes); time is a natural number.            *)
(***************************************************************************)
EXTENDS Naturals, Sequences, FiniteSets

CONSTANTS
    Views,          \* attached views, one FUSE event loop each
    Controllers,    \* control-connection threads
    Paths,          \* sandbox paths
    Procs,          \* process identities
    PidOf,          \* the pid of each identity (a pid can be reused)
    None,           \* "no value": Option::None
    Operations,     \* the read/write operations that processes may issue
    ProtectRules,   \* protection rules the operator may add or remove
    BypassRules,    \* bypass rules the operator may add or remove
    GrantPatterns,  \* values of allow --path, as sets of paths
    Trees,          \* process-tree snapshots, {} when none is available
    Durations,      \* values of allow --duration, in clock units
    MaxId,          \* bound: ids the operation counter hands out
    MaxNow,         \* bound: latest time
    LookupFails,    \* may a process identity be unavailable?
    LogFails        \* may appending the pending event to the log fail?

Kinds == {"read", "write", "metadata", "xattr"}
OpNames == {"read", "getxattr", "write", "setxattr", "truncate", "link", "rename"}
Decisions == {"apply", "do_nothing", "deny", "cancel"}
Ids == 1..MaxId
Effect == [kind : Kinds, path : Paths]
Rule == [kind : Kinds, pattern : SUBSET Paths]

ASSUME ConstantsAssumption ==
    /\ Operations \subseteq [name : OpNames, path : Paths, to : Paths]
    /\ ProtectRules \subseteq Rule
    /\ BypassRules \subseteq Rule
    /\ GrantPatterns \subseteq SUBSET Paths
    /\ Trees \subseteq SUBSET Procs
    /\ Durations \subseteq Nat \ {0}
    /\ MaxId \in Nat
    /\ MaxNow \in Nat
    /\ LookupFails \in BOOLEAN
    /\ LogFails \in BOOLEAN
    /\ None \notin Procs \cup Decisions /\ None \notin Ids

VARIABLES
    next_operation_id,  \* SandboxRegistry.next_operation_id, next value
    now,                \* SystemTime::now()
    protection_rules,   \* Sandbox.protection_rules
    bypass_rules,       \* Sandbox.bypass_rules
    read_write_grants,  \* SandboxRegistry.read_write_grants
    pending_read_write, \* ids in SandboxRegistry.pending_read_write
    pending_waiters,    \* ids in SandboxRegistry.pending_waiters
    request,            \* the PendingReadWriteRequest issued under each id
    cell,               \* the Option<PendingDecision> in each waiter
    phase,              \* per view: where its event loop is
    op,                 \* per view: the operation being authorized
    caller,             \* per view: the process that issued it
    identity,           \* per view: its identity as looked up, or None
    todo,               \* per view: effects not examined yet
    mine,               \* per view: ids queued for this operation
    left,               \* per view: the queued ids not yet seen decided
    held,               \* per controller: removed requests not yet notified
    verdict,            \* per controller: the decision they will receive
    approvals           \* history: the operator's approvals and their scope

registryVars == <<next_operation_id, read_write_grants, pending_read_write,
                  pending_waiters, request>>
policyVars == <<protection_rules, bypass_rules>>
viewVars == <<phase, op, caller, identity, todo, mine, left>>
controllerVars == <<held, verdict>>
vars == <<registryVars, policyVars, viewVars, controllerVars, now, cell, approvals>>

Released == {"apply", "do_nothing"}
Replies == {"proceed", "denied", "canceled", "eio"}
Phases == {"idle", "scan", "wait", "denying", "canceling"} \cup Replies

Request == [view : Views, caller : Procs, ident : Procs \cup {None},
            kind : Kinds, path : Paths]
Grant == [id : Ids, kind : Kinds, pattern : SUBSET Paths, who : SUBSET Procs,
          once : BOOLEAN, expires : Nat]
Approval == [id : Ids, kind : Kinds, pattern : SUBSET Paths, who : SUBSET Procs,
             once : BOOLEAN, grant : Ids \cup {None}]

\* The types of the registry, the rules, the event loops and the commands: a
\* request and a grant always carry a known process, or None where the code has it.
TypeOK ==
    /\ next_operation_id \in Nat \ {0}
    /\ now \in Nat
    /\ protection_rules \subseteq ProtectRules
    /\ bypass_rules \subseteq BypassRules
    /\ read_write_grants \subseteq Grant
    /\ pending_read_write \subseteq Ids
    /\ pending_waiters \subseteq Ids
    /\ request \in [Ids -> Request \cup {None}]
    /\ cell \in [Ids -> Decisions \cup {None}]
    /\ phase \in [Views -> Phases]
    /\ op \in [Views -> Operations \cup {None}]
    /\ caller \in [Views -> Procs \cup {None}]
    /\ identity \in [Views -> Procs \cup {None}]
    /\ todo \in [Views -> Seq(Effect)]
    /\ mine \in [Views -> SUBSET Ids]
    /\ left \in [Views -> SUBSET Ids]
    /\ held \in [Controllers -> SUBSET Ids]
    /\ verdict \in [Controllers -> Decisions \cup {None}]
    /\ approvals \subseteq Approval

-----------------------------------------------------------------------------
(* What an operation does, and what the policy says of it. *)

\* ReadWriteOperation::effects, with operations of equal effects merged:
\* "read" is ReadFile and ReadDirectory, "getxattr" also ListXattr,
\* "write" is OpenWrite, WriteFile, Create, Mkdir, Mknod, Symlink, Unlink
\* and Rmdir, "setxattr" also RemoveXattr.
effects(o) ==
    LET on(k, p) == [kind |-> k, path |-> p]
    IN  CASE o.name = "read"     -> <<on("read", o.path)>>
          [] o.name = "getxattr" -> <<on("read", o.path), on("xattr", o.path)>>
          [] o.name = "write"    -> <<on("write", o.path)>>
          [] o.name = "setxattr" -> <<on("write", o.path), on("metadata", o.path),
                                      on("xattr", o.path)>>
          [] o.name = "truncate" -> <<on("write", o.path), on("metadata", o.path)>>
          [] o.name = "link"     -> <<on("metadata", o.path), on("write", o.to)>>
          [] o.name = "rename"   -> <<on("write", o.path), on("write", o.to)>>

xattr_operation(o) == o.name \in {"getxattr", "setxattr"}

is_protected(k, p) == \E r \in protection_rules : r.kind = k /\ p \in r.pattern
is_bypass(k, p) == \E r \in bypass_rules : r.kind = k /\ p \in r.pattern

\* The effect of operation o needs an authorization under the current policy.
needs_authorization(o, e) ==
    /\ ~(xattr_operation(o) /\ is_bypass("xattr", e.path))
    /\ ~is_bypass(e.kind, e.path)
    /\ is_protected(e.kind, e.path)

(* Grants. *)

is_expired(g) == ~g.once /\ now >= g.expires

\* ReadWriteGrantSubject::matches: an unknown identity matches no grant.
matches_subject(g, ident) == ident \in g.who

\* Fault: the subject of the grant is not compared.
matches_intent_any_subject(g, k, p, ident) ==
    /\ g.kind = k
    /\ ~is_expired(g)
    /\ p \in g.pattern
    /\ ident \in Procs

matches_intent(g, k, p, ident) ==
    /\ g.kind = k
    /\ ~is_expired(g)
    /\ p \in g.pattern
    /\ matches_subject(g, ident)

matches_request(g, r) == matches_intent(g, r.kind, r.path, r.ident)

\* The grants an intent can use, and the one match_read_write_grant_for_intent
\* takes: the BTreeMap is searched in id order.
usable_grants(k, p, ident) ==
    {g \in read_write_grants : matches_intent(g, k, p, ident)}
first_grant(gs) == CHOOSE g \in gs : \A h \in gs : g.id <= h.id

matching_pending_read_write_ids_for_grant(g, ids, req) ==
    {i \in ids : matches_request(g, req[i])}

\* No event loop is inside the critical section of authorize_read_write.
Unlocked == \A v \in Views : phase[v] # "scan"

-----------------------------------------------------------------------------
Init ==
    /\ next_operation_id = 1
    /\ now = 0
    /\ protection_rules = {}
    /\ bypass_rules = {}
    /\ read_write_grants = {}
    /\ pending_read_write = {}
    /\ pending_waiters = {}
    /\ request = [i \in Ids |-> None]
    /\ cell = [i \in Ids |-> None]
    /\ phase = [v \in Views |-> "idle"]
    /\ op = [v \in Views |-> None]
    /\ caller = [v \in Views |-> None]
    /\ identity = [v \in Views |-> None]
    /\ todo = [v \in Views |-> <<>>]
    /\ mine = [v \in Views |-> {}]
    /\ left = [v \in Views |-> {}]
    /\ held = [c \in Controllers |-> {}]
    /\ verdict = [c \in Controllers |-> None]
    /\ approvals = {}

-----------------------------------------------------------------------------
(* The event loop of a view. *)

\* A process issues an operation: take the registry lock, look the caller up,
\* drop the expired grants of the sandbox.
authorize_read_write(v, o, p) ==
    /\ phase[v] = "idle"
    /\ Unlocked
    /\ next_operation_id + Len(effects(o)) <= MaxId + 1  \* bound: ids for every effect
    /\ phase' = [phase EXCEPT ![v] = "scan"]
    /\ op' = [op EXCEPT ![v] = o]
    /\ caller' = [caller EXCEPT ![v] = p]
    /\ \E i \in {p} \cup (IF LookupFails THEN {None} ELSE {}) :
          identity' = [identity EXCEPT ![v] = i]
    /\ todo' = [todo EXCEPT ![v] = effects(o)]
    /\ read_write_grants' = {g \in read_write_grants : ~is_expired(g)}
    /\ UNCHANGED <<next_operation_id, pending_read_write, pending_waiters, request,
                   policyVars, mine, left, controllerVars, now, cell, approvals>>

\* Fault: a bypass-xattr rule exempts the effects of every operation.
skip_effect_xattr_for_all(v) ==
    /\ phase[v] = "scan"
    /\ todo[v] # <<>>
    /\ LET e == Head(todo[v])
       IN  \/ is_bypass("xattr", e.path)
           \/ is_bypass(e.kind, e.path)
           \/ ~is_protected(e.kind, e.path)
    /\ todo' = [todo EXCEPT ![v] = Tail(@)]
    /\ UNCHANGED <<registryVars, policyVars, phase, op, caller, identity, mine, left,
                   controllerVars, now, cell, approvals>>

\* The next effect needs no authorization, or a stored grant covers it (and
\* is used up by it when it is a one-shot grant).
skip_effect(v) ==
    /\ phase[v] = "scan"
    /\ todo[v] # <<>>
    /\ LET e == Head(todo[v])
           gs == usable_grants(e.kind, e.path, identity[v])
       IN  \/ /\ ~needs_authorization(op[v], e)
              /\ UNCHANGED read_write_grants
           \/ /\ needs_authorization(op[v], e)
              /\ gs # {}
              /\ read_write_grants' = IF first_grant(gs).once
                                      THEN read_write_grants \ {first_grant(gs)}
                                      ELSE read_write_grants
    /\ todo' = [todo EXCEPT ![v] = Tail(@)]
    /\ UNCHANGED <<next_operation_id, pending_read_write, pending_waiters, request,
                   policyVars, phase, op, caller, identity, mine, left,
                   controllerVars, now, cell, approvals>>

\* The next effect is protected and ungranted.
must_queue(v) ==
    /\ phase[v] = "scan"
    /\ todo[v] # <<>>
    /\ needs_authorization(op[v], Head(todo[v]))
    /\ usable_grants(Head(todo[v]).kind, Head(todo[v]).path, identity[v]) = {}

\* It is logged, then queued under a fresh id with a waiter of its own.
queue_effect(v) ==
    /\ must_queue(v)
    /\ next_operation_id \in Ids
    /\ LET id == next_operation_id
           e == Head(todo[v])
       IN  /\ request' = [request EXCEPT ![id] =
                            [view |-> v, caller |-> caller[v], ident |-> identity[v],
                             kind |-> e.kind, path |-> e.path]]
           /\ pending_read_write' = pending_read_write \cup {id}
           /\ pending_waiters' = pending_waiters \cup {id}
           /\ mine' = [mine EXCEPT ![v] = @ \cup {id}]
           /\ left' = [left EXCEPT ![v] = @ \cup {id}]
           /\ next_operation_id' = id + 1
    /\ todo' = [todo EXCEPT ![v] = Tail(@)]
    /\ UNCHANGED <<read_write_grants, policyVars, phase, op, caller, identity,
                   controllerVars, now, cell, approvals>>

\* The log append fails: the operation returns EIO at once.  The id is spent
\* and the effects queued before this one stay in the registry.
queue_effect_log_error(v) ==
    /\ LogFails
    /\ must_queue(v)
    /\ next_operation_id \in Ids
    /\ next_operation_id' = next_operation_id + 1
    /\ phase' = [phase EXCEPT ![v] = "eio"]
    /\ todo' = [todo EXCEPT ![v] = <<>>]
    /\ UNCHANGED <<read_write_grants, pending_read_write, pending_waiters, request,
                   policyVars, op, caller, identity, mine, left, controllerVars,
                   now, cell, approvals>>

\* Every effect has been examined: drop(registry).
drop_registry(v) ==
    /\ phase[v] = "scan"
    /\ todo[v] = <<>>
    /\ phase' = [phase EXCEPT ![v] = "wait"]
    /\ UNCHANGED <<registryVars, policyVars, op, caller, identity, todo, mine, left,
                   controllerVars, now, cell, approvals>>

\* wait_for_decision on the waiters in the order they were queued (ids grow);
\* the first Deny or Cancel ends the wait.
wait_for_decision(v, i) ==
    /\ phase[v] = "wait"
    /\ i \in left[v]
    /\ \A j \in left[v] : i <= j
    /\ cell[i] # None
    /\ \/ /\ cell[i] \in Released
          /\ left' = [left EXCEPT ![v] = @ \ {i}]
          /\ UNCHANGED phase
       \/ /\ cell[i] = "deny"
          /\ phase' = [phase EXCEPT ![v] = "denying"]
          /\ UNCHANGED left
       \/ /\ cell[i] = "cancel"
          /\ phase' = [phase EXCEPT ![v] = "canceling"]
          /\ UNCHANGED left
    /\ UNCHANGED <<registryVars, policyVars, op, caller, identity, todo, mine,
                   controllerVars, now, cell, approvals>>

\* Every waiter released the operation: ReadWriteDecision::Proceed.
proceed(v) ==
    /\ phase[v] = "wait"
    /\ left[v] = {}
    /\ phase' = [phase EXCEPT ![v] = "proceed"]
    /\ UNCHANGED <<registryVars, policyVars, op, caller, identity, todo, mine, left,
                   controllerVars, now, cell, approvals>>

\* Fault: the other effects of a failed operation are left in the registry.
forget_unresolved_effects(v) ==
    /\ phase[v] \in {"denying", "canceling"}
    /\ Unlocked
    /\ phase' = [phase EXCEPT ![v] = IF @ = "denying" THEN "denied" ELSE "canceled"]
    /\ UNCHANGED <<registryVars, policyVars, op, caller, identity, todo, mine, left,
                   controllerVars, now, cell, approvals>>

\* After a Deny or Cancel the other effects of the operation that are still in
\* the registry are withdrawn and their waiters told Cancel.
cancel_unresolved_read_write_effects(v) ==
    /\ phase[v] \in {"denying", "canceling"}
    /\ Unlocked
    /\ LET gone == mine[v] \cap pending_read_write
       IN  /\ pending_read_write' = pending_read_write \ gone
           /\ pending_waiters' = pending_waiters \ gone
           /\ cell' = [i \in Ids |-> IF i \in gone THEN "cancel" ELSE cell[i]]
    /\ phase' = [phase EXCEPT ![v] = IF @ = "denying" THEN "denied" ELSE "canceled"]
    /\ UNCHANGED <<next_operation_id, read_write_grants, request, policyVars, op, caller,
                   identity, todo, mine, left, controllerVars, now, approvals>>

\* The handler answers the kernel (after the host call when it may proceed)
\* and the loop takes the next request.
reply(v) ==
    /\ phase[v] \in Replies
    /\ phase' = [phase EXCEPT ![v] = "idle"]
    /\ op' = [op EXCEPT ![v] = None]
    /\ caller' = [caller EXCEPT ![v] = None]
    /\ identity' = [identity EXCEPT ![v] = None]
    /\ mine' = [mine EXCEPT ![v] = {}]
    /\ left' = [left EXCEPT ![v] = {}]
    /\ UNCHANGED <<registryVars, policyVars, todo, controllerVars, now, cell, approvals>>

-----------------------------------------------------------------------------
(* The control commands. *)

\* remove_any_pending_request and pending_waiters.remove for the ids in S.
Remove(S) ==
    /\ pending_read_write' = pending_read_write \ S
    /\ pending_waiters' = pending_waiters \ S

\* A decision taken and notified under the lock (allow and deny).
decide(i, d) ==
    /\ Unlocked
    /\ i \in pending_read_write
    /\ Remove({i})
    /\ cell' = [cell EXCEPT ![i] = d]
    /\ UNCHANGED <<next_operation_id, read_write_grants, request, policyVars, viewVars,
                   controllerVars, now>>

\* The scope of an approval that reaches one request only.
approval_of(i, r) ==
    [id |-> i, kind |-> r.kind, pattern |-> {r.path}, who |-> {}, once |-> TRUE,
     grant |-> None]

\* allow without grant options.
allow(i, do_nothing) ==
    /\ decide(i, IF do_nothing THEN "do_nothing" ELSE "apply")
    /\ approvals' = approvals \cup {approval_of(i, request[i])}

deny(i) ==
    /\ decide(i, "deny")
    /\ UNCHANGED approvals

\* Controller c takes the requests in S out of the registry; it will tell
\* their waiters d after releasing the lock.
take(c, S, d) ==
    /\ held' = [held EXCEPT ![c] = S]
    /\ verdict' = [verdict EXCEPT ![c] = IF S = {} THEN None ELSE d]

\* Fault: the requests stay in the registry until their waiters are told.
cancel_scope_without_removal(c, S) ==
    /\ Unlocked
    /\ held[c] = {}
    /\ take(c, S, "cancel")
    /\ UNCHANGED <<registryVars, policyVars, viewVars, now, cell, approvals>>

cancel_scope(c, S) ==
    /\ Unlocked
    /\ held[c] = {}
    /\ Remove(S)
    /\ take(c, S, "cancel")
    /\ UNCHANGED <<next_operation_id, read_write_grants, request, policyVars, viewVars,
                   now, cell, approvals>>

cancel(c, i) == i \in pending_read_write /\ cancel_scope(c, {i})

cancel_all(c) == cancel_scope(c, pending_read_write)

\* cancel_all --mountpoint, and the first step of detach.
cancel_attached_view(c, v) ==
    cancel_scope(c, {i \in pending_read_write : request[i].view = v})

\* Fault: the snapshot is used without asking whether it has the requester.
grant_subject_unchecked_tree(r, tree, lookup) ==
    LET requester == IF r.ident # None THEN r.ident ELSE lookup
    IN  [ident |-> requester,
         who |-> IF requester = None THEN {}
                 ELSE IF tree # {} THEN tree ELSE {requester}]

\* Fault: a grant is made even when no identity is available.
grant_subject_without_downgrade(r, tree, lookup) ==
    LET requester == IF r.ident # None THEN r.ident ELSE lookup
    IN  [ident |-> requester,
         who |-> IF requester \in tree THEN tree ELSE {requester}]

\* The subject of a grant for request r: the identity recorded with the
\* request, or one looked up now by pid (in the tree snapshot, then alone);
\* the whole snapshot when it was asked for and contains the requester.
\* {} stands for "no identity available".
grant_subject(r, tree, lookup) ==
    LET inTree == {q \in tree : PidOf[q] = PidOf[r.caller]}
        requester == IF r.ident # None THEN r.ident
                     ELSE IF inTree # {} THEN CHOOSE q \in inTree : TRUE
                     ELSE lookup
    IN  [ident |-> requester,
         who |-> IF requester = None THEN {}
                 ELSE IF requester \in tree THEN tree ELSE {requester}]

\* What SysinfoProcessInfoProvider may answer for a pid.
identity_for_pid(pid) ==
    {q \in Procs : PidOf[q] = pid} \cup (IF LookupFails THEN {None} ELSE {})

\* No requester identity: the request is released alone and no grant is made.
grantless_allow(c, i) ==
    /\ Remove({i})
    /\ take(c, {i}, "apply")
    /\ approvals' = approvals \cup {approval_of(i, request[i])}
    /\ UNCHANGED <<next_operation_id, read_write_grants, request>>

\* A grant g is made from request i, whose identity is known by now; the
\* requests in released leave the queue, those in gone leave the registry.
grant_step(c, i, selected, g, released, gone, stored) ==
    /\ request' = [request EXCEPT ![i] = selected]
    /\ Remove(gone)
    /\ take(c, released, "apply")
    /\ read_write_grants' = IF stored THEN read_write_grants \cup {g} ELSE read_write_grants
    /\ next_operation_id' = next_operation_id + 1
    /\ approvals' = approvals \cup
          {[id |-> i, kind |-> g.kind, pattern |-> g.pattern, who |-> g.who,
            once |-> g.once, grant |-> g.id]}

Earliest(S) == {j \in S : \A k \in S : j <= k}

\* The pending requests grant g matches: the others, and the selected one.
others_matching(i, g) ==
    matching_pending_read_write_ids_for_grant(g, pending_read_write \ {i}, request)
all_matching(i, selected, g) ==
    others_matching(i, g) \cup (IF matches_request(g, selected) THEN {i} ELSE {})

\* Fault: the selected request is not put back when another one is released.
broadcast_grant_drops_selected(c, i, ident, g) ==
    LET selected == [request[i] EXCEPT !.ident = ident]
        matching == all_matching(i, selected, g)
        released == IF g.once THEN Earliest(matching) ELSE matching
    IN  grant_step(c, i, selected, g, released, released \cup {i}, ~g.once)

\* Fault: the selected request is not counted among the matches.
broadcast_grant_forgets_selected(c, i, ident, g) ==
    LET selected == [request[i] EXCEPT !.ident = ident]
        matching == others_matching(i, g)
        released == IF g.once THEN Earliest(matching) ELSE matching
    IN  grant_step(c, i, selected, g, released, released, ~g.once \/ matching = {})

\* Fault: a duration grant releases the selected request only.
broadcast_grant_selected_only(c, i, ident, g) ==
    LET selected == [request[i] EXCEPT !.ident = ident]
        released == IF g.once THEN Earliest(all_matching(i, selected, g)) ELSE {i}
    IN  grant_step(c, i, selected, g, released, released, ~g.once)

\* Fault: a one-shot grant releases every match.
broadcast_grant_releases_all(c, i, ident, g) ==
    LET selected == [request[i] EXCEPT !.ident = ident]
        matching == all_matching(i, selected, g)
    IN  grant_step(c, i, selected, g, matching, matching, ~g.once)

\* A one-shot grant releases the earliest pending request it matches and is
\* stored only if there is none; a duration grant releases all of them and is
\* stored.  A selected request that is not released goes back.
broadcast_grant(c, i, ident, g) ==
    LET selected == [request[i] EXCEPT !.ident = ident]
        matching == all_matching(i, selected, g)
        released == IF g.once THEN Earliest(matching) ELSE matching
    IN  grant_step(c, i, selected, g, released, released, ~g.once \/ matching = {})

\* allow with grant options: a pattern that matches the request, one-shot
\* (duration 0) or a duration, the exact requester or its tree.
allow_read_write_grant(c, i, pattern, duration, tree) ==
    /\ Unlocked
    /\ held[c] = {}
    /\ i \in pending_read_write
    /\ request[i].path \in pattern
    /\ next_operation_id \in Ids
    /\ \E lookup \in identity_for_pid(PidOf[request[i].caller]) :
         LET s == grant_subject(request[i], tree, lookup)
         IN  IF s.who = {}
             THEN grantless_allow(c, i)
             ELSE broadcast_grant(c, i, s.ident,
                    [id |-> next_operation_id, kind |-> request[i].kind,
                     pattern |-> pattern, who |-> s.who, once |-> duration = 0,
                     expires |-> now + duration])
    /\ UNCHANGED <<policyVars, viewVars, now, cell>>

\* Fault: the command ends after its first notification.
notify_first_waiter_only(c, i) ==
    /\ i \in held[c]
    /\ cell' = [cell EXCEPT ![i] = verdict[c]]
    /\ take(c, {}, verdict[c])
    /\ UNCHANGED <<registryVars, policyVars, viewVars, now, approvals>>

\* finish_cancel_scope, finish_read_write_grant_allow: the waiters are told
\* one by one (in an order no waiter can observe).
notify_pending_waiter(c, i) ==
    /\ i \in held[c]
    /\ cell' = [cell EXCEPT ![i] = verdict[c]]
    /\ take(c, held[c] \ {i}, verdict[c])
    /\ UNCHANGED <<registryVars, policyVars, viewVars, now, approvals>>

\* protect, unprotect, bypass, unbypass: the rule lists hold no duplicates,
\* and adding a present or removing an absent rule changes nothing.
protect(r) ==
    /\ Unlocked
    /\ protection_rules' = protection_rules \cup {r}
    /\ UNCHANGED <<bypass_rules, registryVars, viewVars, controllerVars, now, cell, approvals>>

unprotect(r) ==
    /\ Unlocked
    /\ protection_rules' = protection_rules \ {r}
    /\ UNCHANGED <<bypass_rules, registryVars, viewVars, controllerVars, now, cell, approvals>>

bypass(r) ==
    /\ Unlocked
    /\ bypass_rules' = bypass_rules \cup {r}
    /\ UNCHANGED <<protection_rules, registryVars, viewVars, controllerVars, now, cell, approvals>>

unbypass(r) ==
    /\ Unlocked
    /\ bypass_rules' = bypass_rules \ {r}
    /\ UNCHANGED <<protection_rules, registryVars, viewVars, controllerVars, now, cell, approvals>>

\* The clock.  A critical section reads it once and uses that reading
\* throughout, so it stands still while the lock is held.
tick ==
    /\ Unlocked
    /\ now < MaxNow
    /\ now' = now + 1
    /\ UNCHANGED <<registryVars, policyVars, viewVars, controllerVars, cell, approvals>>

-----------------------------------------------------------------------------
ViewStep(v) ==
    \/ skip_effect(v)
    \/ queue_effect(v)
    \/ queue_effect_log_error(v)
    \/ drop_registry(v)
    \/ \E i \in Ids : wait_for_decision(v, i)
    \/ proceed(v)
    \/ cancel_unresolved_read_write_effects(v)
    \/ reply(v)

Command ==
    \/ \E i \in Ids, b \in BOOLEAN : allow(i, b)
    \/ \E i \in Ids : deny(i)
    \/ \E c \in Controllers, i \in Ids : cancel(c, i)
    \/ \E c \in Controllers : cancel_all(c)
    \/ \E c \in Controllers, v \in Views : cancel_attached_view(c, v)
    \/ \E c \in Controllers, i \in Ids, pattern \in GrantPatterns,
          duration \in Durations \cup {0}, tree \in Trees \cup {{}} :
          allow_read_write_grant(c, i, pattern, duration, tree)
    \/ \E r \in ProtectRules : protect(r) \/ unprotect(r)
    \/ \E r \in BypassRules : bypass(r) \/ unbypass(r)

Next ==
    \/ \E v \in Views, o \in Operations, p \in Procs : authorize_read_write(v, o, p)
    \/ \E v \in Views : ViewStep(v)
    \/ Command
    \/ \E c \in Controllers, i \in Ids : notify_pending_waiter(c, i)
    \/ tick

Spec == Init /\ [][Next]_vars

\* The threads of the session run: an event loop that can go on does, a
\* command that has left the lock finishes notifying, and a thread waiting for
\* the registry mutex gets it in the end.  Nothing is assumed of the operator,
\* of the processes or of the clock.
Fairness ==
    /\ \A v \in Views : WF_vars(ViewStep(v))
    /\ \A v \in Views : SF_vars(cancel_unresolved_read_write_effects(v))
    /\ \A c \in Controllers : WF_vars(\E i \in Ids : notify_pending_waiter(c, i))

FairSpec == Spec /\ Fairness

-----------------------------------------------------------------------------
(* Properties. *)

\* A request that an event loop still has to see decided is in the registry
\* with its waiter, or was taken out by exactly one command that has yet to
\* notify it: no interleaving of allow, deny, cancel, cancel_all, grants and
\* sibling cancellation loses a wakeup.
NoLostWaiter ==
    \A v \in Views : \A i \in left[v] :
        phase[v] \in {"scan", "wait"} /\ cell[i] = None =>
            \/ /\ i \in pending_read_write \cap pending_waiters
               /\ \A c \in Controllers : i \notin held[c]
            \/ /\ i \notin pending_read_write \cup pending_waiters
               /\ \E c \in Controllers :
                     i \in held[c] /\ \A d \in Controllers \ {c} : i \notin held[d]

\* The operator approved request i itself, or a scope that contains it.
Approved(i) ==
    \E a \in approvals :
        \/ a.id = i
        \/ /\ a.kind = request[i].kind
           /\ request[i].path \in a.pattern
           /\ request[i].ident \in a.who

\* policy.md: "The operation may execute only when all of its effects are
\* allowed": an event loop that proceeds to the host call had each of its
\* queued effects approved.
ProceedOnlyApproved ==
    \A v \in Views : phase[v] = "proceed" => \A i \in mine[v] : Approved(i)

\* Grant g covers an effect of ident, and its time is not over: from the millisecond at
\* which it expires on, it is good for nothing.
in_force(g, k, p, ident) == g.kind = k /\ p \in g.pattern /\ ident \in g.who /\ now < g.expires

\* The gate is complete: when the critical section of authorize_read_write
\* ends without error, each effect of the operation is exempt under the policy
\* of that moment, covered by an unexpired grant to the caller, or queued.
GateComplete ==
    [][\A v \in Views : phase[v] = "scan" /\ phase'[v] = "wait" =>
          \A n \in DOMAIN effects(op[v]) :
             LET e == effects(op[v])[n]
             IN  \/ ~needs_authorization(op[v], e)
                 \/ \E g \in read_write_grants : in_force(g, e.kind, e.path, identity[v])
                 \/ \E i \in mine[v] : request[i].kind = e.kind /\ request[i].path = e.path
      ]_vars

\* A one-shot approval (allow, or allow with grant options and no duration)
\* releases one request: the released requests that no duration grant covers
\* are no more than the one-shot approvals.
OneApprovalOneRelease ==
    LET released == {i \in Ids : \/ cell[i] \in Released
                                 \/ \E c \in Controllers : i \in held[c] /\ verdict[c] = "apply"}
        standing == {a \in approvals : ~a.once}
        covered(i) == \E a \in standing : a.id = i \/ ( /\ a.kind = request[i].kind
                                                       /\ request[i].path \in a.pattern
                                                       /\ request[i].ident \in a.who)
    IN  Cardinality({i \in released : ~covered(i)}) <= Cardinality(approvals \ standing)

\* A one-shot allow never leaves a standing grant behind: it always finds the
\* selected request, at least, to be used up by.
OneShotNeverStored == \A g \in read_write_grants : ~g.once

\* CONTEXT.md, Requester PID Grant: the subject is "the exact process that
\* raised the pending request"; a tree grant includes it.  A grant never goes
\* to a later process that reuses the pid.
GrantReachesRequester ==
    \A a \in approvals : a.grant # None => request[a.id].caller \in a.who

\* The identity under which request i is queued is the one its caller was
\* looked up with when it was issued.
IdentifiedAtIssue(i) == \E v \in Views : i \in mine[v] /\ request[i].ident = identity[v]

\* No process stays blocked on a request that a live grant already covers
\* (grants made before and after the request alike).
NoneBlockedUnderGrant ==
    \A i \in pending_read_write, g \in read_write_grants :
        IdentifiedAtIssue(i) =>
            ~in_force(g, request[i].kind, request[i].path, request[i].ident)

\* Every queued request is the effect of an operation that an event loop is
\* still authorizing: a failed operation takes its other effects with it.
PendingHasRequester ==
    \A i \in pending_read_write :
        \E v \in Views : /\ i \in mine[v]
                         /\ phase[v] \in {"scan", "wait", "denying", "canceling"}

\* The registry, the waiters and the commands in flight implement the
\* life cycle of a request: one decision each, from the one that took it.
StatusOf(i) ==
    IF cell[i] # None THEN cell[i]
    ELSE IF \E c \in Controllers : i \in held[c] /\ verdict[c] = "apply" THEN "taken_apply"
    ELSE IF \E c \in Controllers : i \in held[c] THEN "taken_cancel"
    ELSE IF i \in pending_read_write THEN "pending"
    ELSE "free"

Lifecycle == INSTANCE RequestLifecycle WITH status <- [i \in Ids |-> StatusOf(i)]
LifecycleSpec == Lifecycle!Spec

\* Once no effect of a waiting operation is in the queue, the operation
\* returns to the kernel without any further command.
DecidedOperationReturns ==
    \A v \in Views :
        (phase[v] = "wait" /\ left[v] \cap pending_read_write = {}) ~> (phase[v] = "idle")

-----------------------------------------------------------------------------
(* The inductive invariant behind the safety properties. *)

\* Registry: waiters and pending requests go together, and a pending request
\* was issued and is undecided.
RegistryCoherent ==
    /\ pending_waiters = pending_read_write
    /\ \A i \in pending_read_write :
          i < next_operation_id /\ cell[i] = None /\ request[i] \in Request

\* Commands in flight: what a command holds is out of the registry, held by
\* nobody else and undecided.
HeldCoherent ==
    \A c \in Controllers :
        /\ held[c] # {} => verdict[c] \in {"apply", "cancel"}
        /\ \A i \in held[c] :
              /\ i < next_operation_id
              /\ cell[i] = None
              /\ i \notin pending_read_write
              /\ request[i] \in Request
              /\ \A d \in Controllers : d # c => i \notin held[d]

DecidedWasIssued ==
    \A i \in Ids : cell[i] # None => i < next_operation_id /\ request[i] \in Request

\* Event loops: at most one is in the critical section, with ids reserved; what
\* an operation queued is in the registry, held by a command or decided, and
\* what it stopped waiting for was released.
OneScanner ==
    \A v, w \in Views : phase[v] = "scan" /\ phase[w] = "scan" => v = w

ViewOK(v) ==
    /\ left[v] \subseteq mine[v]
    /\ phase[v] = "idle" => mine[v] = {}
    /\ phase[v] = "proceed" => left[v] = {}
    /\ phase[v] = "scan" =>
          /\ op[v] \in Operations
          /\ caller[v] \in Procs
          /\ next_operation_id + Len(todo[v]) <= MaxId + 1
    /\ \A i \in mine[v] :
          /\ i < next_operation_id
          /\ request[i] \in Request
          /\ cell[i] = None =>
                i \in pending_read_write \/ \E c \in Controllers : i \in held[c]
          /\ phase[v] \in {"scan", "wait", "proceed"} /\ i \notin left[v] =>
                cell[i] \in Released

ViewCoherent == \A v \in Views : ViewOK(v)

\* Whatever was released, or is about to be, was approved.
ReleasedApproved ==
    /\ \A i \in Ids : cell[i] \in Released => Approved(i)
    /\ \A c \in Controllers : verdict[c] = "apply" => \A i \in held[c] : Approved(i)

IndInv ==
    /\ TypeOK
    /\ RegistryCoherent
    /\ HeldCoherent
    /\ DecidedWasIssued
    /\ OneScanner
    /\ ViewCoherent
    /\ ReleasedApproved
    /\ OneShotNeverStored

-----------------------------------------------------------------------------
(* The inductive invariant of the gate and of the approvals, on top of IndInv. *)

\* Effect e of the operation of v is exempt, granted or queued.
Gated(v, e) ==
    \/ ~needs_authorization(op[v], e)
    \/ usable_grants(e.kind, e.path, identity[v]) # {}
    \/ \E i \in mine[v] : request[i].kind = e.kind /\ request[i].path = e.path

\* Inside the critical section an effect has been dealt with or is still to be.
ScanOf(v) ==
    \A n \in DOMAIN effects(op[v]) :
        \/ Gated(v, effects(op[v])[n])
        \/ \E m \in DOMAIN todo[v] : todo[v][m] = effects(op[v])[n]
ScanOK == \A v \in Views : phase[v] = "scan" => ScanOf(v)

\* A request keeps the identity its caller had at issue, if it had one.
IdentityKept ==
    \A v \in Views : \A i \in mine[v] : identity[v] \in {None, request[i].ident}

\* Where look-ups work, that identity is the caller.
CallerKnown ==
    /\ \A v \in Views : phase[v] = "scan" => identity[v] = caller[v]
    /\ \A i \in pending_read_write : request[i].ident = request[i].caller

\* An approval is of an issued request; one without a grant has settled it.
ApprovalsOK ==
    /\ IsFiniteSet(approvals)
    /\ \A a \in approvals :
          /\ a.id < next_operation_id /\ request[a.id] \in Request
          /\ a.grant = None => a.once /\ a.id \notin pending_read_write
          /\ a.grant # None => a.grant < next_operation_id

\* What the scan and the broadcast leave queued no stored grant matches.
NoneMatched ==
    \A i \in pending_read_write, g \in read_write_grants :
        IdentifiedAtIssue(i) => ~matches_request(g, request[i])

GateIndInv ==
    /\ IndInv
    /\ ScanOK
    /\ IdentityKept
    /\ NoneMatched
    /\ ApprovalsOK
    /\ OneApprovalOneRelease
    /\ ~LookupFails => CallerKnown /\ GrantReachesRequester
    /\ ~LogFails => PendingHasRequester
=============================================================================
