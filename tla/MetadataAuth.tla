------------------------------ MODULE MetadataAuth ------------------------------
(***************************************************************************)
(* Metadata changes (chmod, chown, chattr, utimens) on the objects of a    *)
(* sandbox: SandboxFs::setattr, ioctl and begin_metadata_request, the      *)
(* pending queue with its index by object and field, the threads that wait *)
(* for a decision and then apply the change, trusted commands, and the     *)
(* control commands, over the namespace of Overlay.                        *)
(*                                                                         *)
(* A change never touches the host: it is recorded as an override of the   *)
(* object, which is a place in one layer, that the path resolved to when   *)
(* the change was requested.  Requests are decided under the registry lock *)
(* but applied by threads that wake up later; several may be pending on    *)
(* one view, for they do not block its event loop.                         *)
(*                                                                         *)
(* Abstractions: a change is the set of fields it sets, and the value of a *)
(* field in force is the request that it came from (None when the change   *)
(* was applied at once);                                                   *)
(* requests that only read are stuttering steps; the operation counter     *)
(* numbers requests only.                                                  *)
(***************************************************************************)
EXTENDS Overlay

CONSTANTS
    Views,          \* attached views
    Procs,          \* the processes that change metadata, as (pid, uid) pairs
    None,           \* "no value": Option::None
    Fields,         \* the kinds of PendingOperationKind in use
    Changes,        \* the metadata changes processes ask for
    ProtectPatterns, \* patterns of protect-metadata
    BypassPatterns, \* patterns of bypass-metadata
    Tokens,         \* trusted commands
    ScopeOf,        \* the paths each trusted command names
    MaxId,          \* bound: requests
    LogFails        \* may appending to the log fail?

Ids == 1..MaxId
Decisions == {"apply", "do_nothing", "deny", "cancel"}
Outcomes == {"waiting", "applied", "ok", "unchanged", "eperm", "ecanceled", "enotsup",
             "enoent"}
Rests == {strip_prefix(p, m) : p \in Paths, m \in MountPoints}
Object == [layer : 1..MaxOrder, rest : Rests]
PendingMetadataRequest == [view : Views, object : Object, path : Paths,
                           fields : SUBSET Fields]
Handling == [proc : Procs, change : Changes, at : {"attr", "section"}]

ASSUME MetadataAssumption ==
    /\ \A c \in Changes : c.path \in Paths /\ c.fields \subseteq Fields /\ c.fields # {}
    /\ ProtectPatterns \subseteq SUBSET Paths
    /\ BypassPatterns \subseteq SUBSET Paths
    /\ \A t \in Tokens : ScopeOf[t] \subseteq Paths
    /\ MaxId \in Nat
    /\ LogFails \in BOOLEAN
    /\ None \notin Decisions \cup Outcomes \cup Procs \cup Handling

VARIABLES
    next_operation_id,  \* SandboxRegistry.next_operation_id, next value
    metadata_rules,     \* patterns of the metadata protection rules
    metadata_bypass,    \* patterns of the metadata bypass rules
    metadata,           \* Sandbox.metadata: (object, field, origin) in force
    pending,            \* ids in SandboxRegistry.pending
    pending_index,      \* SandboxRegistry.pending_index: (object, field, id)
    pending_waiters,    \* ids in SandboxRegistry.pending_waiters
    request,            \* the PendingMetadataRequest issued under each id
    cell,               \* the Option<PendingDecision> in each waiter
    canceling,          \* requests removed by a cancel command, not yet notified
    outcome,            \* per id: what its waiter thread answers, or None
    trusted,            \* per token: absent, None, or the registered process
    allowed,            \* history: the requests allowed, in the order they were
    handler             \* per view: the change its event loop is at work on, or None

queueVars == <<next_operation_id, pending, pending_index, pending_waiters, request,
               cell, canceling, outcome>>
rulesVars == <<metadata_rules, metadata_bypass, trusted>>
valueVars == <<metadata, allowed>>
vars == <<overlayVars, queueVars, rulesVars, valueVars, handler>>

-----------------------------------------------------------------------------
(* Objects and overrides. *)

is_protected(p) == \E s \in metadata_rules : p \in s
is_bypass(p) == \E s \in metadata_bypass : p \in s

\* metadata_object_key: only a path below a mapping in force has one.
has_object(p) == resolve_overlay(p).tag = "real"

metadata_object_key(p) ==
    LET r == resolve_overlay(p) IN [layer |-> r.layer, rest |-> r.rest]

layer_exists(obj) == \E l \in layers : l.id = obj.layer

\* apply_metadata_override_to_object: the overrides after setting fields of
\* obj on behalf of by.
with_change(obj, fields, by) ==
    {m \in metadata : m.object # obj \/ m.field \notin fields}
    \cup {[object |-> obj, field |-> f, by |-> by] : f \in fields}

is_trusted_operation(p, path) ==
    \E t \in Tokens : trusted[t] = p /\ path \in ScopeOf[t]

-----------------------------------------------------------------------------
Init ==
    /\ OverlayInit
    /\ next_operation_id = 1
    /\ metadata_rules = {}
    /\ metadata_bypass = {}
    /\ metadata = {}
    /\ pending = {}
    /\ pending_index = {}
    /\ pending_waiters = {}
    /\ request = [i \in Ids |-> None]
    /\ cell = [i \in Ids |-> None]
    /\ canceling = {}
    /\ outcome = [i \in Ids |-> None]
    /\ trusted = [t \in Tokens |-> "absent"]
    /\ allowed = <<>>
    /\ handler = [v \in Views |-> None]

-----------------------------------------------------------------------------
(* setattr, ioctl and begin_metadata_request: one change at a time on the event *)
(* loop of a view.  It takes the registry lock for the bypass rules, for the    *)
(* attributes and for the section that decides what becomes of the change.      *)

handled(p, c, at) == [proc |-> p, change |-> c, at |-> at]

\* A change of times alone goes to the host when its path is bypassed.
setattr(v, p, c) ==
    /\ handler[v] = None
    /\ c.fields = {"times"}
    /\ ~is_bypass(c.path)
    /\ handler' = [handler EXCEPT ![v] = handled(p, c, "attr")]
    /\ UNCHANGED <<overlayVars, queueVars, rulesVars, valueVars>>

\* unchanged_attr: the path has attributes.
find_attr(v, p, c) ==
    /\ IF c.fields = {"times"}
       THEN handler[v] = handled(p, c, "attr")
       ELSE handler[v] = None
    /\ attr_for_path(c.path)
    /\ handler' = [handler EXCEPT ![v] = handled(p, c, "section")]
    /\ UNCHANGED <<overlayVars, queueVars, rulesVars, valueVars>>

\* ENOENT or ENOTSUP: the path has no attributes, or no object any more.
reject(v, p, c) ==
    /\ \/ handler[v] = handled(p, c, "attr") /\ ~attr_for_path(c.path)
       \/ handler[v] = handled(p, c, "section") /\ ~has_object(c.path)
    /\ handler' = [handler EXCEPT ![v] = None]
    /\ UNCHANGED <<overlayVars, queueVars, rulesVars, valueVars>>

\* The section is reached, and finds an object.
reaches(v, p, c) ==
    /\ handler[v] = handled(p, c, "section")
    /\ has_object(c.path)
    /\ handler' = [handler EXCEPT ![v] = None]

\* A trusted command's process, or no protection: applied at once.  (A failing
\* log stops a trusted change before it is applied; nothing has changed then.)
apply_at_once(v, p, c) ==
    /\ reaches(v, p, c)
    /\ is_trusted_operation(p, c.path) \/ ~is_protected(c.path)
    /\ metadata' = with_change(metadata_object_key(c.path), c.fields, None)
    /\ UNCHANGED <<overlayVars, queueVars, rulesVars, allowed>>

\* The pending requests a change to obj replaces: those the index has under
\* one of its fields.
replaced(obj, c) ==
    {e.id : e \in {e \in pending_index : e.object = obj /\ e.field \in c.fields}} \cap pending

\* Fault: a replaced request keeps its index entries under its other fields.
index_after_same_fields(S, obj, c) ==
    {e \in pending_index : e.object # obj \/ e.field \notin c.fields}

\* remove_pending_request takes all index entries of the replaced requests.
index_after(S, obj, c) == {e \in pending_index : e.id \notin S}

\* Fault: the waiters of replaced requests are not told.
cell_after_silent(S) == cell

\* Replaced requests are denied under the lock.
cell_after(S) == [i \in Ids |-> IF i \in S THEN "deny" ELSE cell[i]]

needs_decision(v, p, c) ==
    /\ reaches(v, p, c)
    /\ ~is_trusted_operation(p, c.path)
    /\ is_protected(c.path)
    /\ next_operation_id \in Ids

\* The requests the change replaces are denied and the change is queued.
queue_change(v, p, c) ==
    /\ needs_decision(v, p, c)
    /\ LET id == next_operation_id
           obj == metadata_object_key(c.path)
           S == replaced(obj, c)
       IN  /\ pending' = (pending \ S) \cup {id}
           /\ pending_index' = index_after(S, obj, c)
                 \cup {[object |-> obj, field |-> f, id |-> id] : f \in c.fields}
           /\ pending_waiters' = (pending_waiters \ S) \cup {id}
           /\ cell' = cell_after(S)
           /\ request' = [request EXCEPT ![id] =
                 [view |-> v, object |-> obj, path |-> c.path, fields |-> c.fields]]
           /\ outcome' = [outcome EXCEPT ![id] = "waiting"]
           /\ next_operation_id' = id + 1
    /\ UNCHANGED <<overlayVars, canceling, rulesVars, valueVars>>

\* One of the log appends fails: the replaced requests are denied all the
\* same, the change is not queued and the process gets EIO.
queue_change_log_error(v, p, c) ==
    /\ LogFails
    /\ needs_decision(v, p, c)
    /\ LET obj == metadata_object_key(c.path)
           S == replaced(obj, c)
       IN  /\ pending' = pending \ S
           /\ pending_index' = index_after(S, obj, c)
           /\ pending_waiters' = pending_waiters \ S
           /\ cell' = cell_after(S)
    /\ next_operation_id' = next_operation_id + 1
    /\ UNCHANGED <<overlayVars, request, canceling, outcome, rulesVars, valueVars>>

-----------------------------------------------------------------------------
(* The waiter threads: finish_pending_attr and spawn_ioctl_waiter. *)

Answer(i) == [outcome EXCEPT ![i] =
                CASE cell[i] = "apply" -> IF layer_exists(request[i].object) THEN "applied"
                                          ELSE "enotsup"
                  [] cell[i] = "do_nothing" -> "unchanged"
                  [] cell[i] = "deny" -> "eperm"
                  [] cell[i] = "cancel" -> "ecanceled"]

\* Fault: the change goes to what the path resolves to when it is applied.
finish_pending_at_path(i) ==
    /\ outcome[i] = "waiting"
    /\ cell[i] # None
    /\ outcome' = Answer(i)
    /\ metadata' = IF cell[i] = "apply" /\ has_object(request[i].path)
                   THEN with_change(metadata_object_key(request[i].path), request[i].fields, i)
                   ELSE metadata
    /\ UNCHANGED <<overlayVars, next_operation_id, pending, pending_index, pending_waiters,
                   request, cell, canceling, rulesVars, allowed, handler>>

\* The thread wakes up and applies an allowed change to the object of the request
\* if its layer is still mounted.  Otherwise it answers the kernel.
finish_pending(i) ==
    /\ outcome[i] = "waiting"
    /\ cell[i] # None
    /\ outcome' = Answer(i)
    /\ metadata' = IF cell[i] = "apply" /\ layer_exists(request[i].object)
                   THEN with_change(request[i].object, request[i].fields, i)
                   ELSE metadata
    /\ UNCHANGED <<overlayVars, next_operation_id, pending, pending_index, pending_waiters,
                   request, cell, canceling, rulesVars, allowed, handler>>

\* What the kernel is told of a change that was applied: the attributes that the path
\* has by now, unless the change came by ioctl.
reply(i) ==
    /\ outcome[i] = "applied"
    /\ outcome' = [outcome EXCEPT ![i] =
          IF request[i].fields = {"flags"} \/ attr_for_path(request[i].path)
          THEN "ok"
          ELSE "enoent"]
    /\ UNCHANGED <<overlayVars, next_operation_id, pending, pending_index, pending_waiters,
                   request, cell, canceling, rulesVars, valueVars, handler>>

-----------------------------------------------------------------------------
(* The control commands. *)

\* Fault: a decided request keeps its index entries.
remove_pending_request_only(S) ==
    /\ pending' = pending \ S
    /\ pending_waiters' = pending_waiters \ S
    /\ UNCHANGED pending_index

remove_pending_request(S) ==
    /\ pending' = pending \ S
    /\ pending_waiters' = pending_waiters \ S
    /\ pending_index' = {e \in pending_index : e.id \notin S}

\* A waiter exists for every pending request, so allow leaves the change to
\* its thread; do_nothing changes nothing.
allow(i, do_nothing) ==
    /\ i \in pending
    /\ remove_pending_request({i})
    /\ cell' = [cell EXCEPT ![i] = IF do_nothing THEN "do_nothing" ELSE "apply"]
    /\ allowed' = IF do_nothing THEN allowed ELSE Append(allowed, i)
    /\ UNCHANGED <<overlayVars, next_operation_id, request, canceling, outcome, rulesVars,
                   metadata>>

deny(i) ==
    /\ i \in pending
    /\ remove_pending_request({i})
    /\ cell' = [cell EXCEPT ![i] = "deny"]
    /\ UNCHANGED <<overlayVars, next_operation_id, request, canceling, outcome, rulesVars,
                   valueVars>>

\* Fault: canceled requests stay in the queue until they are told.
cancel_scope_without_removal(S) ==
    /\ canceling' = canceling \cup S
    /\ UNCHANGED <<overlayVars, next_operation_id, pending, pending_index, pending_waiters,
                   request, cell, outcome, rulesVars, valueVars>>

\* cancel, cancel_all, cancel_attached_view: removed under the lock, told after.
cancel_scope(S) ==
    /\ remove_pending_request(S)
    /\ canceling' = canceling \cup S
    /\ UNCHANGED <<overlayVars, next_operation_id, request, cell, outcome, rulesVars,
                   valueVars>>

cancel(i) == i \in pending /\ cancel_scope({i})
cancel_all == cancel_scope(pending)
cancel_attached_view(v) == cancel_scope({i \in pending : request[i].view = v})

notify_pending_waiter(i) ==
    /\ i \in canceling
    /\ canceling' = canceling \ {i}
    /\ cell' = [cell EXCEPT ![i] = "cancel"]
    /\ UNCHANGED <<overlayVars, next_operation_id, pending, pending_index, pending_waiters,
                   request, outcome, rulesVars, valueVars, handler>>

protect(s) ==
    /\ metadata_rules' = metadata_rules \cup {s}
    /\ UNCHANGED <<overlayVars, queueVars, metadata_bypass, trusted, valueVars>>
unprotect(s) ==
    /\ metadata_rules' = metadata_rules \ {s}
    /\ UNCHANGED <<overlayVars, queueVars, metadata_bypass, trusted, valueVars>>
bypass(s) ==
    /\ metadata_bypass' = metadata_bypass \cup {s}
    /\ UNCHANGED <<overlayVars, queueVars, metadata_rules, trusted, valueVars>>
unbypass(s) ==
    /\ metadata_bypass' = metadata_bypass \ {s}
    /\ UNCHANGED <<overlayVars, queueVars, metadata_rules, trusted, valueVars>>

\* A trusted command: its token is made, its process registered, and the token
\* withdrawn at the end (the view it runs in is attached before the first and
\* detached after the last of these).
begin_trusted(t) ==
    /\ trusted[t] = "absent"
    /\ trusted' = [trusted EXCEPT ![t] = None]
    /\ UNCHANGED <<overlayVars, queueVars, metadata_rules, metadata_bypass, valueVars>>
register_trusted_pid(t, p) ==
    /\ trusted[t] # "absent"
    /\ trusted' = [trusted EXCEPT ![t] = p]
    /\ UNCHANGED <<overlayVars, queueVars, metadata_rules, metadata_bypass, valueVars>>
end_trusted(t) ==
    /\ trusted[t] # "absent"
    /\ trusted' = [trusted EXCEPT ![t] = "absent"]
    /\ UNCHANGED <<overlayVars, queueVars, metadata_rules, metadata_bypass, valueVars>>

-----------------------------------------------------------------------------
Requests ==
    \E v \in Views, p \in Procs, c \in Changes :
        \/ setattr(v, p, c)
        \/ find_attr(v, p, c)
        \/ reject(v, p, c)
        \/ apply_at_once(v, p, c)
        \/ queue_change(v, p, c)
        \/ queue_change_log_error(v, p, c)

Command ==
    \/ \E i \in Ids, b \in BOOLEAN : allow(i, b)
    \/ \E i \in Ids : deny(i)
    \/ \E i \in Ids : cancel(i)
    \/ cancel_all
    \/ \E v \in Views : cancel_attached_view(v)
    \/ \E s \in ProtectPatterns : protect(s) \/ unprotect(s)
    \/ \E s \in BypassPatterns : bypass(s) \/ unbypass(s)
    \/ \E t \in Tokens : begin_trusted(t) \/ end_trusted(t)
    \/ \E t \in Tokens, p \in Procs : register_trusted_pid(t, p)
    \/ OverlayNext /\ UNCHANGED <<queueVars, rulesVars, valueVars>>

Threads ==
    \/ \E i \in Ids : finish_pending(i)
    \/ \E i \in Ids : reply(i)
    \/ \E i \in Ids : notify_pending_waiter(i)

Next ==
    \/ Requests
    \/ Command /\ UNCHANGED handler
    \/ Threads

Spec == Init /\ [][Next]_vars

\* A waiter thread that has its decision runs, and a cancel command finishes
\* notifying.
FairSpec ==
    /\ Spec
    /\ \A i \in Ids :
          WF_vars(finish_pending(i)) /\ WF_vars(reply(i)) /\ WF_vars(notify_pending_waiter(i))

-----------------------------------------------------------------------------
(* Properties. *)

\* The types of the queue, the rules and the overrides: objects belong to a layer
\* and are never keyed by path alone.
TypeOK ==
    /\ next_operation_id \in 1..(MaxId + 1)
    /\ metadata_rules \subseteq ProtectPatterns
    /\ metadata_bypass \subseteq BypassPatterns
    /\ metadata \subseteq [object : Object, field : Fields, by : Ids \cup {None}]
    /\ pending \subseteq Ids
    /\ pending_index \subseteq [object : Object, field : Fields, id : Ids]
    /\ request \in [Ids -> {None} \cup PendingMetadataRequest]
    /\ cell \in [Ids -> Decisions \cup {None}]
    /\ canceling \subseteq Ids
    /\ outcome \in [Ids -> Outcomes \cup {None}]
    /\ trusted \in [Tokens -> Procs \cup {"absent", None}]
    /\ allowed \in Seq(Ids)
    /\ handler \in [Views -> Handling \cup {None}]

\* The index is exact: it has the fields of the pending requests on their
\* objects and nothing else, no two pending requests share a field of an
\* object, and each has its waiter.  Replacement by a change that shares only
\* some fields must leave neither a dangling nor a missing entry.
IndexExact ==
    /\ pending_index = UNION {{[object |-> request[i].object, field |-> f, id |-> i] :
                                  f \in request[i].fields} : i \in pending}
    /\ \A e, g \in pending_index : e.object = g.object /\ e.field = g.field => e.id = g.id
    /\ pending_waiters = pending

\* ADR 0005: "metadata pending decisions must apply to the object that was
\* resolved for that pending request, not whatever object happens to occupy the
\* path when the user later allows it": an override that came from a request
\* is in force on that request's object, and only if the operator allowed it.
OverridesAuthorized ==
    \A m \in metadata : m.by # None =>
        /\ cell[m.by] = "apply"
        /\ outcome[m.by] \in {"applied", "ok", "enoent"}
        /\ m.object = request[m.by].object
        /\ m.field \in request[m.by].fields

\* A thread that waits for a decision is in the queue, about to be told Cancel,
\* or has its decision: replacement, commands and log failures lose no waiter.
NoLostWaiter ==
    \A i \in Ids : outcome[i] = "waiting" =>
        \/ i \in pending /\ i \notin canceling /\ cell[i] = None
        \/ i \notin pending /\ i \in canceling /\ cell[i] = None
        \/ i \notin pending \cup canceling /\ cell[i] # None

\* ADR 0005: a later layer "does not inherit layer A's metadata override": a
\* mapping that has just been made shows no override at any path.
FreshLayerHasNoOverride ==
    [][\A p \in Paths :
          LET r == resolve_overlay(p)'
          IN  r.tag = "real" /\ ~(\E l \in layers : l.id = r.layer)
              => ~\E m \in metadata' : m.object = [layer |-> r.layer, rest |-> r.rest]
      ]_vars

\* Each request is issued once and decided once, a replaced one by Deny.
StatusOf(i) ==
    IF cell[i] # None THEN cell[i]
    ELSE IF i \in canceling THEN "taken_cancel"
    ELSE IF i \in pending THEN "pending"
    ELSE "free"

Lifecycle == INSTANCE RequestLifecycle WITH status <- [i \in Ids |-> StatusOf(i)]
LifecycleSpec == Lifecycle!Spec

\* A process whose change has left the queue, for whatever reason, gets its
\* answer without any further command.
DecidedChangeReturns ==
    \A i \in Ids :
        (outcome[i] = "waiting" /\ i \notin pending) ~> (outcome[i] \notin {"waiting", "applied"})

\* CONTEXT.md: "new opens observe allowed metadata overrides": of two allowed
\* changes of a field, the one allowed later ends up in force, because changes
\* are applied in the order they were allowed.
AppliedInOrder ==
    [][\A m, n \in DOMAIN allowed :
          LET i == allowed[m]
              j == allowed[n]
          IN  /\ m < n
              /\ request[i].object = request[j].object
              /\ request[i].fields \cap request[j].fields # {}
              /\ outcome[i] = "waiting"
              => ~(outcome[j] = "waiting" /\ outcome'[j] = "applied")
      ]_vars

\* metadata.md: "Use `bypass-metadata` when matching metadata effects should be
\* automatically allowed without pending authorization".
BypassedNeverPending ==
    [][\A i \in pending' \ pending : ~is_bypass(request'[i].path)]_vars

-----------------------------------------------------------------------------
(* The inductive invariant. *)

\* The ids not handed out yet have left no trace.
UnissuedAreFree ==
    \A i \in Ids : i >= next_operation_id =>
        /\ i \notin pending \cup canceling
        /\ cell[i] = None
        /\ outcome[i] = None

\* Whatever is queued, taken out by a cancel, decided or waited for was requested,
\* and what is queued or taken out has a thread that waits for its decision.
RequestsCoherent ==
    /\ \A i \in Ids : \/ i \in pending \cup canceling
                      \/ outcome[i] = "waiting"
                      => request[i] \in PendingMetadataRequest
    /\ pending \cap canceling = {}
    /\ \A i \in pending \cup canceling : outcome[i] = "waiting" /\ cell[i] = None

\* Overrides belong to layers made so far.
OverridesOfLayers == \A m \in metadata : m.object.layer < next_layer_id

MetadataIndInv ==
    /\ OverlayIndInv
    /\ TypeOK
    /\ UnissuedAreFree
    /\ RequestsCoherent
    /\ IndexExact
    /\ NoLostWaiter
    /\ OverridesAuthorized
    /\ OverridesOfLayers
=============================================================================
