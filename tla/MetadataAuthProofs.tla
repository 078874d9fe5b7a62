--------------------------- MODULE MetadataAuthProofs ---------------------------
(***************************************************************************)
(* Proofs about MetadataAuth, for any number of views, processes, paths,   *)
(* mappings, fields and requests: the index of the pending queue is exact, *)
(* no waiter is lost, an override is in force only where and because the   *)
(* operator allowed it, a new mapping starts without overrides, and the    *)
(* queue implements RequestLifecycle.                                      *)
(***************************************************************************)
EXTENDS MetadataAuth, OverlayProofs

USE OverlayAssumption, MetadataAssumption DEF overlayVars

-----------------------------------------------------------------------------
(* Objects. *)

\* A path with a host object resolves to a layer in force.
LEMMA RealIsLayer ==
  ASSUME OverlayIndInv, NEW p, resolve_overlay(p).tag = "real"
  PROVE  \E l \in layers : resolve_overlay(p) = Real(p, l)
<1>1. covering_layers(p) # {} /\ resolve_overlay(p) = Real(p, newest(covering_layers(p)))
  BY DEF resolve_overlay, VirtualDir, Hidden, Missing
<1>2. \A l \in covering_layers(p) : l \in layers /\ l.id \in 1..MaxOrder
  BY IndFacts DEF covering_layers
<1>3. newest(covering_layers(p)) \in covering_layers(p)
  BY <1>1, <1>2, NewestIsNewest
<1> QED BY <1>1, <1>2, <1>3

\* The key of such a path names a layer made so far and a place in it.
LEMMA ObjectKey ==
  ASSUME OverlayIndInv, NEW p \in Paths, has_object(p)
  PROVE  metadata_object_key(p) \in Object /\ metadata_object_key(p).layer < next_layer_id
<1>1. PICK l \in layers : resolve_overlay(p) = Real(p, l)
  BY RealIsLayer DEF has_object
<1>2. metadata_object_key(p) = [layer |-> l.id, rest |-> strip_prefix(p, l.on_fs)]
  BY <1>1 DEF metadata_object_key, Real
<1>3. l.id \in 1..MaxOrder /\ l.id < next_layer_id /\ l.on_fs \in MountPoints
  BY IndFacts
<1>4. strip_prefix(p, l.on_fs) \in Rests
  BY <1>3 DEF Rests
<1> QED BY <1>2, <1>3, <1>4 DEF Object

-----------------------------------------------------------------------------
(* The index of the queue. *)

entry(o, f, i) == [object |-> o, field |-> f, id |-> i]

\* The index is exact, entry by entry.
Exact ==
    /\ \A i \in pending : \A f \in request[i].fields : entry(request[i].object, f, i) \in pending_index
    /\ \A e \in pending_index : \E i \in pending : \E f \in request[i].fields :
          e = entry(request[i].object, f, i)

\* IndexExact in terms of single entries.
LEMMA ExactIndex ==
  pending_index = UNION {{[object |-> request[i].object, field |-> f, id |-> i] :
                              f \in request[i].fields} : i \in pending}
  <=> Exact
BY DEF Exact, entry

\* The same for the next state.
LEMMA ExactIndexNext ==
  (pending_index = UNION {{[object |-> request[i].object, field |-> f, id |-> i] :
                               f \in request[i].fields} : i \in pending})'
  <=> Exact'
BY DEF Exact, entry

\* What is removed from the queue is removed from the index.
LEMMA RemovalKeepsIndex ==
  ASSUME IndexExact, NEW S, pending' = pending \ S, pending_waiters' = pending_waiters \ S,
         pending_index' = {e \in pending_index : e.id \notin S}, request' = request
  PROVE  IndexExact'
<1>1. Exact
  BY ExactIndex DEF IndexExact
<1>2. \A i \in pending' : \A f \in request'[i].fields :
          entry(request'[i].object, f, i) \in pending_index'
  BY <1>1 DEF Exact, entry
<1>3. ASSUME NEW e \in pending_index'
      PROVE  \E i \in pending' : \E f \in request'[i].fields : e = entry(request'[i].object, f, i)
  <2>1. PICK i \in pending : \E f \in request[i].fields : e = entry(request[i].object, f, i)
    BY <1>1 DEF Exact
  <2>2. e.id = i /\ e.id \notin S
    BY <2>1 DEF entry
  <2> QED BY <2>1, <2>2
<1>4. Exact'
  BY <1>2, <1>3 DEF Exact, entry
<1>5. \A e, g \in pending_index' : e.object = g.object /\ e.field = g.field => e.id = g.id
  BY DEF IndexExact
<1>6. pending_waiters' = pending'
  BY DEF IndexExact
<1> QED BY <1>4, <1>5, <1>6, ExactIndexNext DEF IndexExact

\* A new request replaces those with which it shares a field of its object.
LEMMA QueueKeepsIndex ==
  ASSUME MetadataIndInv, NEW v \in Views, NEW p \in Procs, NEW c \in Changes, queue_change(v, p, c)
  PROVE  IndexExact'
<1> DEFINE id == next_operation_id
           obj == metadata_object_key(c.path)
           S == replaced(obj, c)
<1>1. /\ id \in Ids /\ id \notin pending
      /\ pending' = (pending \ S) \cup {id}
      /\ pending_index' = {e \in pending_index : e.id \notin S} \cup {entry(obj, f, id) : f \in c.fields}
      /\ pending_waiters' = (pending_waiters \ S) \cup {id}
      /\ request'[id].object = obj /\ request'[id].fields = c.fields
      /\ \A i \in pending : request'[i] = request[i]
  <2>1. id \in Ids /\ id \notin pending
    BY DEF queue_change, needs_decision, MetadataIndInv, UnissuedAreFree, Ids
  <2>2. request \in [Ids -> {None} \cup PendingMetadataRequest] /\ pending \subseteq Ids
    BY DEF MetadataIndInv, TypeOK
  <2>3. request' = [request EXCEPT ![id] =
                 [view |-> v, object |-> obj, path |-> c.path, fields |-> c.fields]]
    BY DEF queue_change
  <2>4. /\ pending' = (pending \ S) \cup {id}
        /\ pending_index' = {e \in pending_index : e.id \notin S} \cup {entry(obj, f, id) : f \in c.fields}
        /\ pending_waiters' = (pending_waiters \ S) \cup {id}
    BY DEF queue_change, index_after, entry
  <2> HIDE DEF S, obj
  <2>5. request'[id].object = obj /\ request'[id].fields = c.fields
    BY <2>1, <2>2, <2>3
  <2>6. \A i \in pending : request'[i] = request[i]
    BY <2>1, <2>2, <2>3
  <2> QED BY <2>1, <2>4, <2>5, <2>6
<1>2. IndexExact /\ Exact
  BY ExactIndex DEF MetadataIndInv, IndexExact
<1>3. ASSUME NEW e \in pending_index
      PROVE  e.id \in pending /\ (e.object = obj /\ e.field \in c.fields => e.id \in S)
  <2>1. e.id \in pending
    BY <1>2 DEF Exact, entry
  <2> QED BY <2>1 DEF replaced
<1>4. \A f \in c.fields : entry(obj, f, id).object = obj /\ entry(obj, f, id).field = f
                          /\ entry(obj, f, id).id = id
  BY DEF entry
<1> HIDE DEF S, obj, id
<1>5. \A i \in pending' : \A f \in request'[i].fields :
          entry(request'[i].object, f, i) \in pending_index'
  <2>1. ASSUME NEW i \in pending \ S, NEW f \in request'[i].fields
        PROVE  entry(request'[i].object, f, i) \in pending_index'
    BY <1>1, <1>2 DEF Exact, entry
  <2>2. ASSUME NEW f \in request'[id].fields
        PROVE  entry(request'[id].object, f, id) \in pending_index'
    BY <1>1
  <2> QED BY <1>1, <2>1, <2>2
<1>6. ASSUME NEW e \in pending_index'
      PROVE  \E i \in pending' : \E f \in request'[i].fields : e = entry(request'[i].object, f, i)
  <2>1. CASE e \in pending_index /\ e.id \notin S
    <3>1. PICK i \in pending : \E f \in request[i].fields : e = entry(request[i].object, f, i)
      BY <1>2, <2>1 DEF Exact
    <3>2. i \in pending' /\ request'[i] = request[i]
      BY <1>1, <2>1, <3>1 DEF entry
    <3> QED BY <3>1, <3>2
  <2>2. CASE \E f \in c.fields : e = entry(obj, f, id)
    BY <1>1, <2>2
  <2> QED BY <1>1, <2>1, <2>2
<1>7. Exact'
  BY <1>5, <1>6 DEF Exact, entry
<1>8. ASSUME NEW e \in pending_index', NEW g \in pending_index',
             e.object = g.object, e.field = g.field
      PROVE  e.id = g.id
  BY <1>1, <1>2, <1>3, <1>4, <1>8 DEF IndexExact
<1>9. pending_waiters' = pending'
  BY <1>1, <1>2 DEF IndexExact
<1> QED BY <1>7, <1>8, <1>9, ExactIndexNext DEF IndexExact

-----------------------------------------------------------------------------
(* The steps keep the invariant. *)

\* The types that most steps need.
LEMMA Types ==
  ASSUME MetadataIndInv
  PROVE  /\ OverlayIndInv
         /\ next_operation_id \in 1..(MaxId + 1)
         /\ metadata \subseteq [object : Object, field : Fields, by : Ids \cup {None}]
         /\ pending \subseteq Ids /\ canceling \subseteq Ids
         /\ request \in [Ids -> {None} \cup PendingMetadataRequest]
         /\ cell \in [Ids -> Decisions \cup {None}]
         /\ outcome \in [Ids -> Outcomes \cup {None}]
         /\ None \notin Decisions /\ None # "waiting"
BY DEF MetadataIndInv, TypeOK, Outcomes

\* What an event loop is at work on is a change that a process asked for.
LEMMA HandlerTyped ==
  ASSUME MetadataIndInv, [Next]_vars
  PROVE  handler' \in [Views -> Handling \cup {None}]
<1>1. handler \in [Views -> Handling \cup {None}]
  BY DEF MetadataIndInv, TypeOK
<1>2. ASSUME NEW v \in Views, NEW p \in Procs, NEW c \in Changes, NEW at \in {"attr", "section"},
             handler' = [handler EXCEPT ![v] = handled(p, c, at)]
      PROVE  handler' \in [Views -> Handling \cup {None}]
  <2>1. handled(p, c, at) \in Handling
    BY DEF handled, Handling
  <2> QED BY <1>1, <1>2, <2>1
<1>3. ASSUME NEW v \in Views, handler' = [handler EXCEPT ![v] = None]
      PROVE  handler' \in [Views -> Handling \cup {None}]
  BY <1>1, <1>3
<1>4. CASE Requests
  <2>1. ASSUME NEW v \in Views, NEW p \in Procs, NEW c \in Changes,
               setattr(v, p, c) \/ find_attr(v, p, c)
        PROVE  handler' \in [Views -> Handling \cup {None}]
    BY <1>2, <2>1 DEF setattr, find_attr
  <2>2. ASSUME NEW v \in Views, NEW p \in Procs, NEW c \in Changes,
               \/ reject(v, p, c) \/ apply_at_once(v, p, c) \/ queue_change(v, p, c)
               \/ queue_change_log_error(v, p, c)
        PROVE  handler' \in [Views -> Handling \cup {None}]
    BY <1>3, <2>2 DEF reject, apply_at_once, queue_change, queue_change_log_error,
       needs_decision, reaches
  <2> QED BY <1>4, <2>1, <2>2 DEF Requests
<1>5. CASE UNCHANGED handler
  BY <1>1, <1>5
<1>6. CASE Threads
  BY <1>5, <1>6 DEF Threads, finish_pending, reply, notify_pending_waiter
<1> QED BY <1>4, <1>5, <1>6 DEF Next, vars

\* Only mount, umount and hide change the namespace, and they change nothing else.
LEMMA NamespaceSteps ==
  ASSUME [Next]_vars
  PROVE  UNCHANGED overlayVars \/ (OverlayNext /\ UNCHANGED valueVars)
<1>1. CASE Requests
  BY <1>1 DEF Requests, setattr, find_attr, reject, apply_at_once, queue_change,
     queue_change_log_error
<1>2. CASE Command
  <2>1. CASE (\E i \in Ids, b \in BOOLEAN : allow(i, b)) \/ (\E i \in Ids : deny(i) \/ cancel(i))
             \/ cancel_all \/ (\E v \in Views : cancel_attached_view(v))
    BY <2>1 DEF allow, deny, cancel, cancel_all, cancel_attached_view, cancel_scope
  <2>2. CASE (\E s \in ProtectPatterns : protect(s) \/ unprotect(s))
             \/ (\E s \in BypassPatterns : bypass(s) \/ unbypass(s))
             \/ (\E t \in Tokens : begin_trusted(t) \/ end_trusted(t))
             \/ (\E t \in Tokens, p \in Procs : register_trusted_pid(t, p))
    BY <2>2 DEF protect, unprotect, bypass, unbypass, begin_trusted, end_trusted,
       register_trusted_pid
  <2> QED BY <1>2, <2>1, <2>2 DEF Command
<1>3. CASE Threads
  BY <1>3 DEF Threads, finish_pending, reply, notify_pending_waiter
<1> QED BY <1>1, <1>2, <1>3 DEF Next, vars

\* Commands on the rules and on trusted commands leave queue and overrides alone.
LEMMA RulesPreserve ==
  ASSUME MetadataIndInv, UNCHANGED <<overlayVars, queueVars, valueVars>>,
         metadata_rules' \subseteq ProtectPatterns, metadata_bypass' \subseteq BypassPatterns,
         trusted' \in [Tokens -> Procs \cup {"absent", None}],
         handler' \in [Views -> Handling \cup {None}]
  PROVE  MetadataIndInv'
<1>1. OverlayIndInv'
  BY OverlayNextPreserves DEF MetadataIndInv
<1>2. UNCHANGED <<layers, hides, next_layer_id, next_operation_id, pending, pending_index,
                  pending_waiters, request, cell, canceling, outcome, metadata, allowed>>
  BY DEF queueVars, valueVars
<1>3. TypeOK'
  BY <1>2 DEF MetadataIndInv, TypeOK
<1>4. UnissuedAreFree' /\ RequestsCoherent'
  BY <1>2 DEF MetadataIndInv, UnissuedAreFree, RequestsCoherent
<1>5. IndexExact' /\ NoLostWaiter'
  BY <1>2 DEF MetadataIndInv, IndexExact, NoLostWaiter
<1>6. OverridesAuthorized' /\ OverridesOfLayers'
  BY <1>2 DEF MetadataIndInv, OverridesAuthorized, OverridesOfLayers
<1> QED BY <1>1, <1>3, <1>4, <1>5, <1>6 DEF MetadataIndInv

\* mount, umount and hide leave the overrides and the requests as they are.
LEMMA NamespacePreserves ==
  ASSUME MetadataIndInv, OverlayNext, UNCHANGED <<queueVars, rulesVars, valueVars>>,
         handler' \in [Views -> Handling \cup {None}]
  PROVE  MetadataIndInv'
<1>1. OverlayIndInv'
  BY OverlayNextPreserves DEF MetadataIndInv
<1>2. UNCHANGED <<next_operation_id, pending, pending_index, pending_waiters, request, cell,
                  canceling, outcome, metadata, allowed, metadata_rules, metadata_bypass, trusted>>
  BY DEF queueVars, rulesVars, valueVars
<1>3. TypeOK'
  BY <1>2 DEF MetadataIndInv, TypeOK
<1>4. UnissuedAreFree' /\ RequestsCoherent'
  BY <1>2 DEF MetadataIndInv, UnissuedAreFree, RequestsCoherent
<1>5. IndexExact' /\ NoLostWaiter' /\ OverridesAuthorized'
  BY <1>2 DEF MetadataIndInv, IndexExact, NoLostWaiter, OverridesAuthorized
<1>6. next_layer_id' \in Nat /\ next_layer_id \in Nat /\ next_layer_id <= next_layer_id'
  <2>1. next_layer_id \in Nat /\ next_overlay_order = next_layer_id
    BY Types, IndFacts
  <2>2. next_layer_id' = next_layer_id \/ next_layer_id' = next_overlay_order + 1
    BY DEF OverlayNext, mount_layer, umount_layer, hide
  <2> QED BY <2>1, <2>2
<1>7. OverridesOfLayers'
  <2>1. SUFFICES ASSUME NEW m \in metadata PROVE m.object.layer < next_layer_id'
    BY <1>2 DEF OverridesOfLayers
  <2>2. m.object.layer < next_layer_id /\ m.object.layer \in Nat
    BY Types DEF MetadataIndInv, OverridesOfLayers, Object
  <2> QED BY <1>6, <2>2
<1> QED BY <1>1, <1>3, <1>4, <1>5, <1>7 DEF MetadataIndInv

\* Overrides after a change of an object that exists.
LEMMA WithChange ==
  ASSUME MetadataIndInv, NEW obj \in Object, obj.layer < next_layer_id,
         NEW fields \in SUBSET Fields, NEW by \in Ids \cup {None}
  PROVE  /\ with_change(obj, fields, by) \subseteq [object : Object, field : Fields, by : Ids \cup {None}]
         /\ \A m \in with_change(obj, fields, by) :
              /\ m.object.layer < next_layer_id
              /\ m \in metadata \/ (m.object = obj /\ m.field \in fields /\ m.by = by)
<1>1. ASSUME NEW m \in with_change(obj, fields, by)
      PROVE  m \in metadata \/ \E f \in fields : m = [object |-> obj, field |-> f, by |-> by]
  BY DEF with_change
<1>2. \A m \in metadata : m \in [object : Object, field : Fields, by : Ids \cup {None}]
                          /\ m.object.layer < next_layer_id
  BY Types DEF MetadataIndInv, OverridesOfLayers
<1>3. ASSUME NEW f \in fields
      PROVE  /\ [object |-> obj, field |-> f, by |-> by] \in [object : Object, field : Fields, by : Ids \cup {None}]
             /\ [object |-> obj, field |-> f, by |-> by].object = obj
             /\ [object |-> obj, field |-> f, by |-> by].field = f
             /\ [object |-> obj, field |-> f, by |-> by].by = by
  OBVIOUS
<1> QED BY <1>1, <1>2, <1>3

\* A change that is applied at once comes from no request.
LEMMA ApplyAtOncePreserves ==
  ASSUME MetadataIndInv, NEW v \in Views, NEW p \in Procs, NEW c \in Changes,
         apply_at_once(v, p, c), handler' \in [Views -> Handling \cup {None}]
  PROVE  MetadataIndInv'
<1> DEFINE obj == metadata_object_key(c.path)
<1>1. OverlayIndInv' /\ UNCHANGED <<layers, hides, next_layer_id>>
  BY OverlayNextPreserves DEF MetadataIndInv, apply_at_once
<1>2. UNCHANGED <<next_operation_id, pending, pending_index, pending_waiters, request, cell,
                  canceling, outcome, allowed, metadata_rules, metadata_bypass, trusted>>
  BY DEF apply_at_once, queueVars, rulesVars
<1>3. obj \in Object /\ obj.layer < next_layer_id /\ c.fields \in SUBSET Fields
  BY Types, ObjectKey DEF apply_at_once, reaches
<1>4. /\ metadata' \subseteq [object : Object, field : Fields, by : Ids \cup {None}]
      /\ \A m \in metadata' : m.object.layer < next_layer_id /\ (m \in metadata \/ m.by = None)
  <2>1. metadata' = with_change(obj, c.fields, None)
    BY DEF apply_at_once
  <2> HIDE DEF obj
  <2> QED BY <1>3, <2>1, WithChange
<1>5. TypeOK'
  BY <1>2, <1>4 DEF MetadataIndInv, TypeOK
<1>6. UnissuedAreFree' /\ RequestsCoherent'
  BY <1>2 DEF MetadataIndInv, UnissuedAreFree, RequestsCoherent
<1>7. IndexExact' /\ NoLostWaiter'
  BY <1>2 DEF MetadataIndInv, IndexExact, NoLostWaiter
<1>8. OverridesAuthorized' /\ OverridesOfLayers'
  BY <1>1, <1>2, <1>4 DEF MetadataIndInv, OverridesAuthorized, OverridesOfLayers
<1> QED BY <1>1, <1>5, <1>6, <1>7, <1>8 DEF MetadataIndInv

\* A thread answers: an allowed change is recorded on the object of its request.
LEMMA FinishPreserves ==
  ASSUME MetadataIndInv, NEW i \in Ids, finish_pending(i),
         handler' \in [Views -> Handling \cup {None}]
  PROVE  MetadataIndInv'
<1>1. OverlayIndInv' /\ UNCHANGED <<layers, hides, next_layer_id>>
  BY OverlayNextPreserves DEF MetadataIndInv, finish_pending
<1>2. UNCHANGED <<next_operation_id, pending, pending_index, pending_waiters, request, cell,
                  canceling, allowed, metadata_rules, metadata_bypass, trusted>>
  BY DEF finish_pending, rulesVars
<1>3. /\ outcome[i] = "waiting" /\ cell[i] \in Decisions
      /\ request[i] \in PendingMetadataRequest
      /\ i \notin pending \cup canceling
  BY Types DEF finish_pending, MetadataIndInv, RequestsCoherent
<1>4. PICK answer \in Outcomes \ {"waiting"} :
         /\ outcome' = [outcome EXCEPT ![i] = answer]
         /\ cell[i] = "apply" /\ layer_exists(request[i].object) => answer = "applied"
  <2> DEFINE a == CASE cell[i] = "apply" -> IF layer_exists(request[i].object) THEN "applied"
                                            ELSE "enotsup"
                    [] cell[i] = "do_nothing" -> "unchanged"
                    [] cell[i] = "deny" -> "eperm"
                    [] cell[i] = "cancel" -> "ecanceled"
  <2>1. outcome' = [outcome EXCEPT ![i] = a]
    BY DEF finish_pending, Answer
  <2>2. a \in Outcomes \ {"waiting"} /\ (cell[i] = "apply" /\ layer_exists(request[i].object) => a = "applied")
    BY <1>3 DEF Decisions, Outcomes
  <2> QED BY <2>1, <2>2
<1>5. \A j \in Ids : j # i => outcome'[j] = outcome[j]
  BY <1>4, Types
<1>6. outcome'[i] = answer /\ outcome' \in [Ids -> Outcomes \cup {None}]
  BY <1>4, Types
<1>7. /\ metadata' \subseteq [object : Object, field : Fields, by : Ids \cup {None}]
      /\ \A m \in metadata' :
           /\ m.object.layer < next_layer_id
           /\ \/ m \in metadata
              \/ /\ m.object = request[i].object /\ m.field \in request[i].fields /\ m.by = i
                 /\ cell[i] = "apply" /\ answer = "applied"
  <2>1. CASE cell[i] = "apply" /\ layer_exists(request[i].object)
    <3>1. metadata' = with_change(request[i].object, request[i].fields, i)
      BY <2>1 DEF finish_pending
    <3>2. request[i].object \in Object /\ request[i].fields \in SUBSET Fields
      BY <1>3 DEF PendingMetadataRequest
    <3>3. request[i].object.layer < next_layer_id
      BY <2>1, Types, IndFacts DEF layer_exists
    <3> QED BY <1>4, <2>1, <3>1, <3>2, <3>3, WithChange
  <2>2. CASE ~(cell[i] = "apply" /\ layer_exists(request[i].object))
    BY <2>2, Types DEF finish_pending, MetadataIndInv, OverridesOfLayers
  <2> QED BY <2>1, <2>2
<1>8. TypeOK'
  BY <1>2, <1>6, <1>7 DEF MetadataIndInv, TypeOK
<1>9. UnissuedAreFree'
  BY <1>2, <1>3, <1>5, Types DEF MetadataIndInv, UnissuedAreFree
<1>10. RequestsCoherent'
  BY <1>2, <1>3, <1>5, Types DEF MetadataIndInv, RequestsCoherent
<1>11. IndexExact'
  BY <1>2 DEF MetadataIndInv, IndexExact
<1>12. NoLostWaiter'
  BY <1>2, <1>4, <1>5, <1>6 DEF MetadataIndInv, NoLostWaiter
<1>13. OverridesAuthorized'
  <2>1. SUFFICES ASSUME NEW m \in metadata', m.by # None
                 PROVE  cell[m.by] = "apply" /\ outcome'[m.by] \in {"applied", "ok", "enoent"}
                        /\ m.object = request[m.by].object /\ m.field \in request[m.by].fields
    BY <1>2 DEF OverridesAuthorized
  <2>2. CASE m \in metadata
    <3>1. cell[m.by] = "apply" /\ outcome[m.by] \in {"applied", "ok", "enoent"}
          /\ m.object = request[m.by].object /\ m.field \in request[m.by].fields
      BY <2>1, <2>2 DEF MetadataIndInv, OverridesAuthorized
    <3>2. m.by \in Ids /\ m.by # i
      BY <1>3, <1>7, <2>1, <3>1
    <3> QED BY <1>5, <3>1, <3>2
  <2>3. CASE m \notin metadata
    BY <1>6, <1>7, <2>1, <2>3
  <2> QED BY <2>2, <2>3
<1>14. OverridesOfLayers'
  BY <1>1, <1>7 DEF OverridesOfLayers
<1> QED BY <1>1, <1>8, <1>9, <1>10, <1>11, <1>12, <1>13, <1>14 DEF MetadataIndInv

\* The process is told of a change that is in force.
LEMMA ReplyPreserves ==
  ASSUME MetadataIndInv, NEW i \in Ids, reply(i),
         handler' \in [Views -> Handling \cup {None}]
  PROVE  MetadataIndInv'
<1>1. OverlayIndInv' /\ UNCHANGED <<layers, hides, next_layer_id>>
  BY OverlayNextPreserves DEF MetadataIndInv, reply
<1>2. UNCHANGED <<next_operation_id, pending, pending_index, pending_waiters, request, cell,
                  canceling, metadata, allowed, metadata_rules, metadata_bypass, trusted>>
  BY DEF reply, rulesVars, valueVars
<1>3. outcome[i] = "applied"
  BY DEF reply
<1>4. PICK answer \in {"ok", "enoent"} : outcome' = [outcome EXCEPT ![i] = answer]
  BY DEF reply
<1>5. outcome'[i] = answer /\ outcome' \in [Ids -> Outcomes \cup {None}]
  BY <1>4, Types DEF Outcomes
<1>6. \A j \in Ids : j # i => outcome'[j] = outcome[j]
  BY <1>4, Types
<1>7. TypeOK'
  BY <1>2, <1>5 DEF MetadataIndInv, TypeOK
<1>8. UnissuedAreFree'
  <2>1. \A j \in Ids : j >= next_operation_id => j # i
    BY <1>3 DEF MetadataIndInv, UnissuedAreFree, Outcomes
  <2> QED BY <1>2, <1>6, <2>1 DEF MetadataIndInv, UnissuedAreFree
<1>9. RequestsCoherent'
  <2>1. i \notin pending \cup canceling /\ outcome'[i] # "waiting"
    BY <1>3, <1>5 DEF MetadataIndInv, RequestsCoherent
  <2> QED BY <1>2, <1>6, <2>1, Types DEF MetadataIndInv, RequestsCoherent
<1>10. IndexExact'
  BY <1>2 DEF MetadataIndInv, IndexExact
<1>11. NoLostWaiter'
  BY <1>2, <1>5, <1>6 DEF MetadataIndInv, NoLostWaiter
<1>12. OverridesAuthorized'
  <2>1. SUFFICES ASSUME NEW m \in metadata, m.by # None
                 PROVE  outcome'[m.by] \in {"applied", "ok", "enoent"}
    BY <1>2 DEF MetadataIndInv, OverridesAuthorized
  <2>2. m.by \in Ids /\ outcome[m.by] \in {"applied", "ok", "enoent"}
    BY <2>1, Types DEF MetadataIndInv, OverridesAuthorized
  <2> QED BY <1>5, <1>6, <2>2
<1>13. OverridesOfLayers'
  BY <1>1, <1>2 DEF MetadataIndInv, OverridesOfLayers
<1> QED BY <1>1, <1>7, <1>8, <1>9, <1>10, <1>11, <1>12, <1>13 DEF MetadataIndInv

\* Pending requests are decided where they are queued (allow, deny, and a change
\* that replaces others but cannot be logged).
LEMMA DecidePreserves ==
  ASSUME MetadataIndInv, NEW S \in SUBSET pending, NEW d \in Decisions,
         remove_pending_request(S), cell' = [j \in Ids |-> IF j \in S THEN d ELSE cell[j]],
         next_operation_id' \in {next_operation_id, next_operation_id + 1},
         next_operation_id' \in 1..(MaxId + 1), allowed' \in Seq(Ids),
         UNCHANGED <<overlayVars, request, canceling, outcome, rulesVars, metadata>>,
         handler' \in [Views -> Handling \cup {None}]
  PROVE  MetadataIndInv'
<1>1. OverlayIndInv' /\ UNCHANGED <<layers, hides, next_layer_id>>
  BY OverlayNextPreserves DEF MetadataIndInv
<1>2. UNCHANGED <<request, canceling, outcome, metadata, metadata_rules, metadata_bypass, trusted>>
  BY DEF rulesVars
<1>3. /\ pending' = pending \ S /\ pending_waiters' = pending_waiters \ S
      /\ pending_index' = {e \in pending_index : e.id \notin S}
  BY DEF remove_pending_request
<1>4. \A j \in Ids : cell'[j] = IF j \in S THEN d ELSE cell[j]
  OBVIOUS
<1>5. TypeOK'
  <2>1. cell' \in [Ids -> Decisions \cup {None}]
    BY Types
  <2> QED BY <1>2, <1>3, <2>1 DEF MetadataIndInv, TypeOK
<1>6. UnissuedAreFree'
  <2>1. SUFFICES ASSUME NEW j \in Ids, j >= next_operation_id'
                 PROVE  j \notin pending \cup canceling /\ cell'[j] = None /\ outcome[j] = None
    BY <1>2, <1>3 DEF UnissuedAreFree
  <2>2. j >= next_operation_id
    BY <2>1, Types DEF Ids
  <2>3. j \notin pending \cup canceling /\ cell[j] = None /\ outcome[j] = None
    BY <2>2 DEF MetadataIndInv, UnissuedAreFree
  <2> QED BY <1>4, <2>3
<1>7. RequestsCoherent'
  BY <1>2, <1>3, <1>4, Types DEF MetadataIndInv, RequestsCoherent
<1>8. IndexExact'
  BY <1>2, <1>3, RemovalKeepsIndex DEF MetadataIndInv
<1>9. NoLostWaiter'
  <2>1. SUFFICES ASSUME NEW j \in Ids, outcome[j] = "waiting"
                 PROVE  \/ j \in pending' /\ j \notin canceling /\ cell'[j] = None
                        \/ j \notin pending' /\ j \in canceling /\ cell'[j] = None
                        \/ j \notin pending' \cup canceling /\ cell'[j] # None
    BY <1>2 DEF NoLostWaiter
  <2>2. CASE j \in S
    <3>1. j \notin canceling /\ j \notin pending' /\ cell'[j] # None
      BY <1>3, <1>4, <2>2, Types DEF MetadataIndInv, RequestsCoherent
    <3> QED BY <3>1
  <2>3. CASE j \notin S
    BY <1>3, <1>4, <2>1, <2>3 DEF MetadataIndInv, NoLostWaiter
  <2> QED BY <2>2, <2>3
<1>10. OverridesAuthorized'
  <2>1. SUFFICES ASSUME NEW m \in metadata, m.by # None
                 PROVE  cell'[m.by] = "apply" /\ outcome[m.by] \in {"applied", "ok", "enoent"}
                        /\ m.object = request[m.by].object /\ m.field \in request[m.by].fields
    BY <1>2 DEF OverridesAuthorized
  <2>2. cell[m.by] = "apply" /\ outcome[m.by] \in {"applied", "ok", "enoent"}
        /\ m.object = request[m.by].object /\ m.field \in request[m.by].fields
    BY <2>1 DEF MetadataIndInv, OverridesAuthorized
  <2>3. m.by \in Ids /\ m.by \notin S
    BY <2>1, <2>2, Types DEF MetadataIndInv, RequestsCoherent
  <2> QED BY <1>4, <2>2, <2>3
<1>11. OverridesOfLayers'
  BY <1>1, <1>2 DEF MetadataIndInv, OverridesOfLayers
<1> QED BY <1>1, <1>5, <1>6, <1>7, <1>8, <1>9, <1>10, <1>11 DEF MetadataIndInv

\* allow, deny and a change that cannot be logged decide in this way.
LEMMA AllowDenyPreserve ==
  ASSUME MetadataIndInv, handler' \in [Views -> Handling \cup {None}]
  PROVE  /\ \A i \in Ids, b \in BOOLEAN : allow(i, b) => MetadataIndInv'
         /\ \A i \in Ids : deny(i) => MetadataIndInv'
         /\ \A v \in Views, p \in Procs, c \in Changes :
               queue_change_log_error(v, p, c) => MetadataIndInv'
<1>1. ASSUME NEW i \in Ids, NEW b \in BOOLEAN, allow(i, b) PROVE MetadataIndInv'
  <2> DEFINE d == IF b THEN "do_nothing" ELSE "apply"
  <2>1. d \in Decisions /\ {i} \in SUBSET pending /\ remove_pending_request({i})
    BY <1>1 DEF allow, Decisions
  <2>2. cell' = [j \in Ids |-> IF j \in {i} THEN d ELSE cell[j]]
    BY <1>1, Types DEF allow
  <2>3. allowed' \in Seq(Ids)
    BY <1>1 DEF allow, MetadataIndInv, TypeOK
  <2>4. UNCHANGED <<overlayVars, next_operation_id, request, canceling, outcome, rulesVars, metadata>>
    BY <1>1 DEF allow
  <2> QED BY <2>1, <2>2, <2>3, <2>4, Types, DecidePreserves
<1>2. ASSUME NEW i \in Ids, deny(i) PROVE MetadataIndInv'
  <2>1. "deny" \in Decisions /\ {i} \in SUBSET pending /\ remove_pending_request({i})
    BY <1>2 DEF deny, Decisions
  <2>2. cell' = [j \in Ids |-> IF j \in {i} THEN "deny" ELSE cell[j]]
    BY <1>2, Types DEF deny
  <2>3. allowed' \in Seq(Ids)
    BY <1>2 DEF deny, valueVars, MetadataIndInv, TypeOK
  <2>4. UNCHANGED <<overlayVars, next_operation_id, request, canceling, outcome, rulesVars, metadata>>
    BY <1>2 DEF deny, valueVars
  <2> QED BY <2>1, <2>2, <2>3, <2>4, Types, DecidePreserves
<1>3. ASSUME NEW v \in Views, NEW p \in Procs, NEW c \in Changes, queue_change_log_error(v, p, c)
      PROVE  MetadataIndInv'
  <2> DEFINE S == replaced(metadata_object_key(c.path), c)
  <2>1. "deny" \in Decisions /\ S \in SUBSET pending /\ remove_pending_request(S)
    BY <1>3 DEF queue_change_log_error, remove_pending_request, index_after, replaced, Decisions
  <2>2. cell' = [j \in Ids |-> IF j \in S THEN "deny" ELSE cell[j]]
    BY <1>3 DEF queue_change_log_error, cell_after
  <2>3. allowed' \in Seq(Ids)
    BY <1>3 DEF queue_change_log_error, valueVars, MetadataIndInv, TypeOK
  <2>4. UNCHANGED <<overlayVars, request, canceling, outcome, rulesVars, metadata>>
    BY <1>3 DEF queue_change_log_error, valueVars
  <2>5. next_operation_id' = next_operation_id + 1 /\ next_operation_id' \in 1..(MaxId + 1)
    BY <1>3 DEF queue_change_log_error, needs_decision, Ids
  <2> HIDE DEF S
  <2> QED BY <2>1, <2>2, <2>3, <2>4, <2>5, DecidePreserves
<1> QED BY <1>1, <1>2, <1>3

\* A cancel command takes requests out of the queue; nobody is told yet.
LEMMA CancelPreserves ==
  ASSUME MetadataIndInv, NEW S \in SUBSET pending, cancel_scope(S),
         handler' \in [Views -> Handling \cup {None}]
  PROVE  MetadataIndInv'
<1>1. OverlayIndInv' /\ UNCHANGED <<layers, hides, next_layer_id>>
  BY OverlayNextPreserves DEF MetadataIndInv, cancel_scope
<1>2. UNCHANGED <<next_operation_id, request, cell, outcome, metadata, allowed, metadata_rules,
                  metadata_bypass, trusted>>
  BY DEF cancel_scope, rulesVars, valueVars
<1>3. /\ pending' = pending \ S /\ pending_waiters' = pending_waiters \ S
      /\ pending_index' = {e \in pending_index : e.id \notin S}
      /\ canceling' = canceling \cup S
  BY DEF cancel_scope, remove_pending_request
<1>4. TypeOK'
  BY <1>2, <1>3 DEF MetadataIndInv, TypeOK
<1>5. UnissuedAreFree'
  BY <1>2, <1>3 DEF MetadataIndInv, UnissuedAreFree
<1>6. RequestsCoherent'
  BY <1>2, <1>3, Types DEF MetadataIndInv, RequestsCoherent
<1>7. IndexExact'
  BY <1>2, <1>3, RemovalKeepsIndex DEF MetadataIndInv
<1>8. NoLostWaiter'
  BY <1>2, <1>3 DEF MetadataIndInv, NoLostWaiter
<1>9. OverridesAuthorized' /\ OverridesOfLayers'
  BY <1>1, <1>2 DEF MetadataIndInv, OverridesAuthorized, OverridesOfLayers
<1> QED BY <1>1, <1>4, <1>5, <1>6, <1>7, <1>8, <1>9 DEF MetadataIndInv

\* The cancel command tells the thread of a request that it took out.
LEMMA NotifyPreserves ==
  ASSUME MetadataIndInv, NEW i \in Ids, notify_pending_waiter(i),
         handler' \in [Views -> Handling \cup {None}]
  PROVE  MetadataIndInv'
<1>1. OverlayIndInv' /\ UNCHANGED <<layers, hides, next_layer_id>>
  BY OverlayNextPreserves DEF MetadataIndInv, notify_pending_waiter
<1>2. UNCHANGED <<next_operation_id, pending, pending_index, pending_waiters, request, outcome,
                  metadata, allowed, metadata_rules, metadata_bypass, trusted>>
  BY DEF notify_pending_waiter, rulesVars, valueVars
<1>3. /\ i \in canceling /\ i \notin pending /\ outcome[i] = "waiting"
      /\ canceling' = canceling \ {i}
      /\ cell' = [cell EXCEPT ![i] = "cancel"]
  BY DEF notify_pending_waiter, MetadataIndInv, RequestsCoherent
<1>4. cell'[i] = "cancel" /\ "cancel" \in Decisions /\ \A j \in Ids : j # i => cell'[j] = cell[j]
  BY <1>3, Types DEF Decisions
<1>5. TypeOK'
  <2>1. cell' \in [Ids -> Decisions \cup {None}]
    BY <1>3, <1>4, Types
  <2> QED BY <1>2, <1>3, <2>1 DEF MetadataIndInv, TypeOK
<1>6. UnissuedAreFree'
  BY <1>2, <1>3, <1>4 DEF MetadataIndInv, UnissuedAreFree
<1>7. RequestsCoherent'
  BY <1>2, <1>3, <1>4, Types DEF MetadataIndInv, RequestsCoherent
<1>8. IndexExact'
  BY <1>2 DEF MetadataIndInv, IndexExact
<1>9. NoLostWaiter'
  BY <1>2, <1>3, <1>4, Types DEF MetadataIndInv, NoLostWaiter
<1>10. OverridesAuthorized'
  <2>1. SUFFICES ASSUME NEW m \in metadata, m.by # None
                 PROVE  cell'[m.by] = "apply" /\ outcome[m.by] \in {"applied", "ok", "enoent"}
                        /\ m.object = request[m.by].object /\ m.field \in request[m.by].fields
    BY <1>2 DEF OverridesAuthorized
  <2>2. cell[m.by] = "apply" /\ outcome[m.by] \in {"applied", "ok", "enoent"}
        /\ m.object = request[m.by].object /\ m.field \in request[m.by].fields
    BY <2>1 DEF MetadataIndInv, OverridesAuthorized
  <2>3. m.by \in Ids /\ m.by # i
    BY <1>3, <2>1, <2>2, Types
  <2> QED BY <1>4, <2>2, <2>3
<1>11. OverridesOfLayers'
  BY <1>1, <1>2 DEF MetadataIndInv, OverridesOfLayers
<1> QED BY <1>1, <1>5, <1>6, <1>7, <1>8, <1>9, <1>10, <1>11 DEF MetadataIndInv

\* A change is queued under a new id, and those it replaces are denied.
LEMMA QueuePreserves ==
  ASSUME MetadataIndInv, NEW v \in Views, NEW p \in Procs, NEW c \in Changes, queue_change(v, p, c),
         handler' \in [Views -> Handling \cup {None}]
  PROVE  MetadataIndInv'
<1> DEFINE id == next_operation_id
           obj == metadata_object_key(c.path)
           S == replaced(obj, c)
           r == [view |-> v, object |-> obj, path |-> c.path, fields |-> c.fields]
<1>1. OverlayIndInv' /\ UNCHANGED <<layers, hides, next_layer_id>>
  BY OverlayNextPreserves DEF MetadataIndInv, queue_change
<1>2. UNCHANGED <<canceling, metadata, allowed, metadata_rules, metadata_bypass, trusted>>
  BY DEF queue_change, rulesVars, valueVars
<1>3. /\ id \in Ids /\ id \notin pending \cup canceling /\ cell[id] = None /\ outcome[id] = None
      /\ S \subseteq pending
  BY DEF queue_change, needs_decision, MetadataIndInv, UnissuedAreFree, Ids, replaced
<1>4. /\ pending' = (pending \ S) \cup {id}
      /\ cell' = [j \in Ids |-> IF j \in S THEN "deny" ELSE cell[j]]
      /\ request' = [request EXCEPT ![id] = r]
      /\ outcome' = [outcome EXCEPT ![id] = "waiting"]
      /\ next_operation_id' = id + 1
      /\ pending_index' = {e \in pending_index : e.id \notin S}
                            \cup {[object |-> obj, field |-> f, id |-> id] : f \in c.fields}
  BY DEF queue_change, cell_after, index_after
<1>5. obj \in Object /\ r \in PendingMetadataRequest /\ c.fields \subseteq Fields
  <2>1. obj \in Object
    BY Types, ObjectKey DEF queue_change, needs_decision, reaches
  <2> HIDE DEF obj
  <2> QED BY <2>1 DEF PendingMetadataRequest
<1> HIDE DEF S, obj, r
<1>6. /\ request'[id] = r /\ \A j \in Ids : j # id => request'[j] = request[j]
      /\ outcome'[id] = "waiting" /\ \A j \in Ids : j # id => outcome'[j] = outcome[j]
      /\ \A j \in Ids : cell'[j] = IF j \in S THEN "deny" ELSE cell[j]
      /\ "deny" \in Decisions
  BY <1>3, <1>4, Types DEF Decisions
<1>7. TypeOK'
  <2>1. request' \in [Ids -> {None} \cup PendingMetadataRequest]
    BY <1>3, <1>4, <1>5, Types
  <2>2. cell' \in [Ids -> Decisions \cup {None}]
    BY <1>4, <1>6, Types
  <2>3. outcome' \in [Ids -> Outcomes \cup {None}]
    BY <1>3, <1>4, Types DEF Outcomes
  <2>4. pending_index' \subseteq [object : Object, field : Fields, id : Ids]
    <3>1. pending_index \subseteq [object : Object, field : Fields, id : Ids]
      BY DEF MetadataIndInv, TypeOK
    <3>2. \A f \in c.fields : [object |-> obj, field |-> f, id |-> id] \in [object : Object, field : Fields, id : Ids]
      BY <1>3, <1>5
    <3> HIDE DEF id
    <3> QED BY <1>4, <3>1, <3>2
  <2>5. next_operation_id' \in 1..(MaxId + 1) /\ pending' \subseteq Ids
    BY <1>3, <1>4, Types DEF Ids
  <2> QED BY <1>2, <2>1, <2>2, <2>3, <2>4, <2>5 DEF MetadataIndInv, TypeOK
<1>8. UnissuedAreFree'
  <2>1. SUFFICES ASSUME NEW j \in Ids, j >= id + 1
                 PROVE  j \notin pending' \cup canceling /\ cell'[j] = None /\ outcome'[j] = None
    BY <1>2, <1>4 DEF UnissuedAreFree
  <2>2. j # id /\ j >= id
    BY <1>3, <2>1 DEF Ids
  <2>3. j \notin pending \cup canceling /\ cell[j] = None /\ outcome[j] = None
    BY <2>2 DEF MetadataIndInv, UnissuedAreFree
  <2> QED BY <1>3, <1>4, <1>6, <2>2, <2>3
<1>9. RequestsCoherent'
  <2>1. ASSUME NEW j \in Ids, j \in pending' \cup canceling' \/ outcome'[j] = "waiting"
        PROVE  request'[j] \in PendingMetadataRequest
    BY <1>2, <1>4, <1>5, <1>6, <2>1 DEF MetadataIndInv, RequestsCoherent
  <2>2. pending' \cap canceling' = {}
    BY <1>2, <1>3, <1>4 DEF MetadataIndInv, RequestsCoherent
  <2>3. ASSUME NEW j \in pending' \cup canceling'
        PROVE  outcome'[j] = "waiting" /\ cell'[j] = None
    <3>1. CASE j = id
      BY <1>3, <1>6, <3>1
    <3>2. CASE j # id
      <4>1. j \in (pending \ S) \cup canceling /\ j \in Ids /\ j \notin S
        BY <1>2, <1>3, <1>4, <3>2, Types DEF MetadataIndInv, RequestsCoherent
      <4> QED BY <1>6, <3>2, <4>1 DEF MetadataIndInv, RequestsCoherent
    <3> QED BY <3>1, <3>2
  <2> QED BY <2>1, <2>2, <2>3 DEF RequestsCoherent
<1>10. IndexExact'
  BY QueueKeepsIndex
<1>11. NoLostWaiter'
  <2>1. SUFFICES ASSUME NEW j \in Ids, outcome'[j] = "waiting"
                 PROVE  \/ j \in pending' /\ j \notin canceling /\ cell'[j] = None
                        \/ j \notin pending' /\ j \in canceling /\ cell'[j] = None
                        \/ j \notin pending' \cup canceling /\ cell'[j] # None
    BY <1>2 DEF NoLostWaiter
  <2>2. CASE j = id
    BY <1>3, <1>4, <1>6, <2>2
  <2>3. CASE j # id /\ j \in S
    BY <1>3, <1>4, <1>6, <2>3, Types DEF MetadataIndInv, RequestsCoherent
  <2>4. CASE j # id /\ j \notin S
    BY <1>4, <1>6, <2>1, <2>4 DEF MetadataIndInv, NoLostWaiter
  <2> QED BY <2>2, <2>3, <2>4
<1>12. OverridesAuthorized'
  <2>1. SUFFICES ASSUME NEW m \in metadata, m.by # None
                 PROVE  cell'[m.by] = "apply" /\ outcome'[m.by] \in {"applied", "ok", "enoent"}
                        /\ m.object = request'[m.by].object /\ m.field \in request'[m.by].fields
    BY <1>2 DEF OverridesAuthorized
  <2>2. cell[m.by] = "apply" /\ outcome[m.by] \in {"applied", "ok", "enoent"}
        /\ m.object = request[m.by].object /\ m.field \in request[m.by].fields
    BY <2>1 DEF MetadataIndInv, OverridesAuthorized
  <2>3. m.by \in Ids /\ "apply" # None
    BY <2>1, Types DEF Decisions
  <2>4. m.by # id /\ m.by \notin S
    BY <1>3, <2>2, <2>3 DEF MetadataIndInv, RequestsCoherent
  <2> QED BY <1>6, <2>2, <2>3, <2>4
<1>13. OverridesOfLayers'
  BY <1>1, <1>2 DEF MetadataIndInv, OverridesOfLayers
<1> QED BY <1>1, <1>7, <1>8, <1>9, <1>10, <1>11, <1>12, <1>13 DEF MetadataIndInv

\* At the start nothing was requested and nothing is in force.
LEMMA MetadataInitHolds ==
  ASSUME Init
  PROVE  MetadataIndInv
<1>1. OverlayIndInv
  BY OverlayInitHolds DEF Init
<1>2. TypeOK
  BY DEF Init, TypeOK
<1>3. UnissuedAreFree /\ RequestsCoherent /\ IndexExact
  BY DEF Init, UnissuedAreFree, RequestsCoherent, IndexExact, Outcomes
<1>4. NoLostWaiter /\ OverridesAuthorized /\ OverridesOfLayers
  BY DEF Init, NoLostWaiter, OverridesAuthorized, OverridesOfLayers, Outcomes
<1> QED BY <1>1, <1>2, <1>3, <1>4 DEF MetadataIndInv

\* Every command, request and thread keeps the invariant.
LEMMA MetadataNextPreserves ==
  ASSUME MetadataIndInv, [Next]_vars
  PROVE  MetadataIndInv'
<1>1. handler' \in [Views -> Handling \cup {None}]
  BY HandlerTyped
<1>2. CASE Requests
  <2>1. ASSUME NEW v \in Views, NEW p \in Procs, NEW c \in Changes,
               setattr(v, p, c) \/ find_attr(v, p, c) \/ reject(v, p, c)
        PROVE  MetadataIndInv'
    <3>1. UNCHANGED <<overlayVars, queueVars, rulesVars, valueVars>>
      BY <2>1 DEF setattr, find_attr, reject
    <3> QED BY <1>1, <3>1, RulesPreserve DEF rulesVars, MetadataIndInv, TypeOK
  <2> QED BY <1>1, <1>2, <2>1, ApplyAtOncePreserves, QueuePreserves, AllowDenyPreserve DEF Requests
<1>3. CASE Command /\ UNCHANGED handler
  <2>1. CASE (\E i \in Ids, b \in BOOLEAN : allow(i, b)) \/ \E i \in Ids : deny(i)
    BY <1>1, <2>1, AllowDenyPreserve
  <2>2. CASE (\E i \in Ids : cancel(i)) \/ cancel_all \/ \E v \in Views : cancel_attached_view(v)
    BY <1>1, <2>2, CancelPreserves DEF cancel, cancel_all, cancel_attached_view
  <2>3. CASE (\E s \in ProtectPatterns : protect(s) \/ unprotect(s))
             \/ \E s \in BypassPatterns : bypass(s) \/ unbypass(s)
    BY <1>1, <2>3, RulesPreserve DEF protect, unprotect, bypass, unbypass, MetadataIndInv, TypeOK
  <2>4. CASE (\E t \in Tokens : begin_trusted(t) \/ end_trusted(t))
             \/ \E t \in Tokens, p \in Procs : register_trusted_pid(t, p)
    BY <1>1, <2>4, RulesPreserve
       DEF begin_trusted, end_trusted, register_trusted_pid, MetadataIndInv, TypeOK
  <2>5. CASE OverlayNext /\ UNCHANGED <<queueVars, rulesVars, valueVars>>
    BY <1>1, <2>5, NamespacePreserves
  <2> QED BY <1>3, <2>1, <2>2, <2>3, <2>4, <2>5 DEF Command
<1>4. CASE Threads
  BY <1>1, <1>4, FinishPreserves, ReplyPreserves, NotifyPreserves DEF Threads
<1>5. CASE UNCHANGED vars
  BY <1>1, <1>5, RulesPreserve DEF vars, rulesVars, MetadataIndInv, TypeOK
<1> QED BY <1>2, <1>3, <1>4, <1>5 DEF Next

-----------------------------------------------------------------------------
(* The theorems. *)

\* The queue, its index, the waiting threads and the overrides stay coherent
\* whatever the processes and the operator do.
THEOREM MetadataInvariance == Spec => []MetadataIndInv
<1>1. Init => MetadataIndInv
  BY MetadataInitHolds
<1>2. MetadataIndInv /\ [Next]_vars => MetadataIndInv'
  BY MetadataNextPreserves
<1> QED BY <1>1, <1>2, PTL DEF Spec

\* pending_index has the fields of the pending requests and nothing else.
THEOREM IndexIsExact == Spec => []IndexExact
<1>1. MetadataIndInv => IndexExact
  BY DEF MetadataIndInv
<1> QED BY <1>1, MetadataInvariance, PTL

\* No thread waits for a decision that nobody can take any more.
THEOREM NoChangeIsLost == Spec => []NoLostWaiter
<1>1. MetadataIndInv => NoLostWaiter
  BY DEF MetadataIndInv
<1> QED BY <1>1, MetadataInvariance, PTL

\* Overrides are in force on the object that was resolved for an allowed request,
\* whatever was mounted or hidden since (finish_pending_attr,
\* apply_metadata_override_to_object).
THEOREM OnlyAllowedInForce == Spec => []OverridesAuthorized
<1>1. MetadataIndInv => OverridesAuthorized
  BY DEF MetadataIndInv
<1> QED BY <1>1, MetadataInvariance, PTL

\* Ids of layers are never given twice, so a new mapping has no override.
THEOREM NewMappingIsClean == Spec => FreshLayerHasNoOverride
<1> DEFINE Clean == \A p \in Paths :
              LET r == resolve_overlay(p)'
              IN  r.tag = "real" /\ ~(\E l \in layers : l.id = r.layer)
                  => ~\E m \in metadata' : m.object = [layer |-> r.layer, rest |-> r.rest]
<1>1. MetadataIndInv => \A p \in Paths : resolve_overlay(p).tag = "real" =>
                            \E l \in layers : resolve_overlay(p).layer = l.id
  <2>1. \A p, l : Real(p, l).layer = l.id
    BY DEF Real
  <2> QED BY <2>1, RealIsLayer DEF MetadataIndInv
<1>2. MetadataIndInv' => (\A p \in Paths : resolve_overlay(p).tag = "real" =>
                            \E l \in layers : resolve_overlay(p).layer = l.id)'
  BY <1>1, PTL
<1>3. ASSUME MetadataIndInv, MetadataIndInv', [Next]_vars PROVE Clean
  <2>1. SUFFICES ASSUME NEW p \in Paths, resolve_overlay(p)'.tag = "real",
                        NEW l \in layers', resolve_overlay(p)'.layer = l.id,
                        ~(\E k \in layers : k.id = l.id),
                        NEW m \in metadata', m.object.layer = l.id
                 PROVE  FALSE
    BY <1>2, <1>3
  <2>2. l \notin layers
    BY <2>1
  <2>3. PICK local \in Locals, on_fs \in MountPoints : mount_layer(local, on_fs) /\ UNCHANGED metadata
    <3>1. UNCHANGED layers \/ (OverlayNext /\ UNCHANGED metadata)
      BY <1>3, NamespaceSteps DEF valueVars
    <3>2. OverlayNext /\ UNCHANGED metadata
      BY <2>2, <3>1
    <3>3. ASSUME NEW on_fs, umount_layer(on_fs) \/ hide(on_fs) PROVE layers' \subseteq layers
      BY <3>3 DEF umount_layer, hide
    <3> QED BY <2>2, <3>2, <3>3 DEF OverlayNext
  <2>4. l.id = next_layer_id
    <3>1. next_overlay_order = next_layer_id
      BY <1>3, Types, IndFacts
    <3> QED BY <2>2, <2>3, <3>1 DEF mount_layer
  <2>5. m.object.layer < next_layer_id /\ next_layer_id \in Nat
    BY <1>3, <2>3, Types, IndFacts DEF MetadataIndInv, OverridesOfLayers
  <2> QED BY <2>1, <2>4, <2>5
<1>4. MetadataIndInv /\ MetadataIndInv' /\ [Next]_vars => [Clean]_vars
  BY <1>3
<1> QED BY <1>4, MetadataInvariance, PTL DEF Spec, FreshLayerHasNoOverride

-----------------------------------------------------------------------------
(* The queue implements RequestLifecycle. *)

\* The status of the requests, in this and in the next state.
status == [i \in Ids |-> StatusOf(i)]

\* The status of a pending request, and of one taken out by a cancel.
LEMMA StatusFacts ==
  ASSUME MetadataIndInv
  PROVE  /\ \A i \in pending : StatusOf(i) = "pending" /\ i \notin canceling /\ cell[i] = None
         /\ \A i \in canceling : StatusOf(i) = "taken_cancel" /\ i \notin pending /\ cell[i] = None
         /\ \A i \in Ids : i >= next_operation_id => StatusOf(i) = "free"
BY DEF StatusOf, MetadataIndInv, RequestsCoherent, UnissuedAreFree

\* allow and deny decide a pending request, a failing log denies those replaced.
LEMMA DecideImplements ==
  ASSUME MetadataIndInv, NEW S \in SUBSET pending, NEW d \in Decisions,
         remove_pending_request(S), cell' = [j \in Ids |-> IF j \in S THEN d ELSE cell[j]],
         canceling' = canceling
  PROVE  Lifecycle!Decide(S, d)
<1>1. \A j \in Ids : cell'[j] = IF j \in S THEN d ELSE cell[j]
  OBVIOUS
<1>2. pending' = pending \ S
  BY DEF remove_pending_request
<1>3. \A i \in S : status[i] = "pending"
  BY Types, StatusFacts DEF status
<1>4. ASSUME NEW i \in Ids
      PROVE  StatusOf(i)' = IF i \in S THEN d ELSE status[i]
  BY <1>1, <1>2, Types DEF StatusOf, status
<1>5. status' = [i \in Ids |-> IF i \in S THEN d ELSE status[i]]
  BY <1>4 DEF status
<1> QED BY <1>3, <1>5 DEF Lifecycle!Decide, Lifecycle!Ids, Ids, status

\* cancel takes pending requests out of the queue.
LEMMA CancelImplements ==
  ASSUME MetadataIndInv, NEW S \in SUBSET pending, cancel_scope(S)
  PROVE  Lifecycle!Take(S, "taken_cancel")
<1>1. cell' = cell /\ pending' = pending \ S /\ canceling' = canceling \cup S
  BY DEF cancel_scope, remove_pending_request
<1>2. \A i \in S : status[i] = "pending" /\ cell[i] = None
  BY Types, StatusFacts DEF status
<1>3. ASSUME NEW i \in Ids
      PROVE  StatusOf(i)' = IF i \in S THEN "taken_cancel" ELSE status[i]
  BY <1>1, <1>2 DEF StatusOf, status
<1>4. status' = [i \in Ids |-> IF i \in S THEN "taken_cancel" ELSE status[i]]
  BY <1>3 DEF status
<1> QED BY <1>2, <1>4 DEF Lifecycle!Take, Lifecycle!Ids, Ids, status

\* The cancel command tells what it promised.
LEMMA NotifyImplements ==
  ASSUME MetadataIndInv, NEW i \in Ids, notify_pending_waiter(i)
  PROVE  Lifecycle!Tell(i)
<1>1. /\ i \in canceling /\ canceling' = canceling \ {i} /\ pending' = pending
      /\ cell' = [cell EXCEPT ![i] = "cancel"]
  BY DEF notify_pending_waiter
<1>2. status[i] = "taken_cancel"
  BY <1>1, StatusFacts DEF status
<1>3. ASSUME NEW j \in Ids
      PROVE  StatusOf(j)' = IF j = i THEN "cancel" ELSE status[j]
  BY <1>1, Types DEF StatusOf, status, Decisions
<1>4. status' = [status EXCEPT ![i] = "cancel"]
  BY <1>3 DEF status
<1> QED BY <1>2, <1>4 DEF Lifecycle!Tell, Lifecycle!Taken, Lifecycle!Promised, status

\* A change is issued under an id above all earlier ones and denies those it replaces.
LEMMA QueueImplements ==
  ASSUME MetadataIndInv, NEW v \in Views, NEW p \in Procs, NEW c \in Changes, queue_change(v, p, c)
  PROVE  \E i \in Ids, S \in SUBSET Ids : Lifecycle!Issue(i, S)
<1> DEFINE id == next_operation_id
           S == replaced(metadata_object_key(c.path), c)
<1>1. /\ id \in Ids /\ S \in SUBSET pending /\ pending' = (pending \ S) \cup {id}
      /\ cell' = [j \in Ids |-> IF j \in S THEN "deny" ELSE cell[j]]
      /\ canceling' = canceling
  BY DEF queue_change, needs_decision, replaced, cell_after
<1> HIDE DEF S
<1>2. id \notin pending /\ id \notin canceling /\ cell[id] = None /\ "deny" # None
  BY <1>1, Types DEF MetadataIndInv, UnissuedAreFree, Ids, Decisions
<1>3. \A j \in S : status[j] = "pending"
  BY <1>1, Types, StatusFacts DEF status
<1>4. \A j \in Ids : j >= id => status[j] = "free"
  BY StatusFacts DEF status
<1>5. ASSUME NEW j \in Ids
      PROVE  StatusOf(j)' = IF j = id THEN "pending" ELSE IF j \in S THEN "deny" ELSE status[j]
  BY <1>1, <1>2 DEF StatusOf, status
<1>6. status' = [j \in Ids |-> IF j = id THEN "pending" ELSE IF j \in S THEN "deny" ELSE status[j]]
  BY <1>5 DEF status
<1>7. Lifecycle!Issue(id, S)
  BY <1>3, <1>4, <1>6 DEF Lifecycle!Issue, Lifecycle!Ids, Ids, status
<1> QED BY <1>1, <1>7, Types

\* A step that leaves the queue and the decisions alone is no step of a request.
LEMMA StutterImplements ==
  ASSUME UNCHANGED <<cell, pending, canceling>>
  PROVE  status' = status
BY DEF status, StatusOf

\* Every step of MetadataAuth is a step of the life cycle or none.
LEMMA StepImplements ==
  ASSUME MetadataIndInv, [Next]_vars
  PROVE  [Lifecycle!Next]_status
<1> DEFINE Decides == \E S \in SUBSET Ids, d \in Lifecycle!Final : Lifecycle!Decide(S, d)
           Takes == \E S \in SUBSET Ids, t \in Lifecycle!Taken : Lifecycle!Take(S, t)
           Tells == \E i \in Ids : Lifecycle!Tell(i)
           Issues == \E i \in Ids, S \in SUBSET Ids : Lifecycle!Issue(i, S)
<1> SUFFICES Decides \/ Takes \/ Tells \/ Issues \/ status' = status
  BY DEF Lifecycle!Next, Lifecycle!Ids, Ids
<1>1. ASSUME NEW S \in SUBSET pending, NEW d \in Decisions, Lifecycle!Decide(S, d) PROVE Decides
  BY <1>1, Types DEF Decisions, Lifecycle!Final
<1>2. ASSUME NEW S \in SUBSET pending, cancel_scope(S) PROVE Takes
  <2>1. Lifecycle!Take(S, "taken_cancel")
    BY <1>2, CancelImplements
  <2> QED BY <2>1, Types DEF Lifecycle!Taken
<1> HIDE DEF Decides, Takes
<1>3. CASE \E v \in Views, p \in Procs, c \in Changes :
               \/ setattr(v, p, c) \/ find_attr(v, p, c) \/ reject(v, p, c)
               \/ apply_at_once(v, p, c)
  BY <1>3, StutterImplements DEF setattr, find_attr, reject, apply_at_once, queueVars
<1>4. CASE \E v \in Views, p \in Procs, c \in Changes : queue_change(v, p, c)
  BY <1>4, QueueImplements
<1>5. ASSUME NEW v \in Views, NEW p \in Procs, NEW c \in Changes,
             queue_change_log_error(v, p, c)
      PROVE  Decides
  <2> DEFINE S == replaced(metadata_object_key(c.path), c)
  <2>1. S \in SUBSET pending /\ remove_pending_request(S) /\ "deny" \in Decisions
    BY <1>5 DEF queue_change_log_error, remove_pending_request, index_after, replaced, Decisions
  <2>2. cell' = [j \in Ids |-> IF j \in S THEN "deny" ELSE cell[j]] /\ canceling' = canceling
    BY <1>5 DEF queue_change_log_error, cell_after
  <2> HIDE DEF S
  <2> QED BY <1>1, <2>1, <2>2, DecideImplements
<1>6. ASSUME NEW i \in Ids, NEW b \in BOOLEAN, allow(i, b) PROVE Decides
  <2> DEFINE d == IF b THEN "do_nothing" ELSE "apply"
  <2>1. {i} \in SUBSET pending /\ remove_pending_request({i}) /\ d \in Decisions
    BY <1>6 DEF allow, Decisions
  <2>2. cell' = [j \in Ids |-> IF j \in {i} THEN d ELSE cell[j]] /\ canceling' = canceling
    BY <1>6, Types DEF allow
  <2> HIDE DEF d
  <2> QED BY <1>1, <2>1, <2>2, DecideImplements
<1>7. ASSUME NEW i \in Ids, deny(i) PROVE Decides
  <2>1. {i} \in SUBSET pending /\ remove_pending_request({i}) /\ "deny" \in Decisions
    BY <1>7 DEF deny, Decisions
  <2>2. cell' = [j \in Ids |-> IF j \in {i} THEN "deny" ELSE cell[j]] /\ canceling' = canceling
    BY <1>7, Types DEF deny
  <2> QED BY <1>1, <2>1, <2>2, DecideImplements
<1>8. CASE (\E i \in Ids : cancel(i)) \/ cancel_all \/ \E v \in Views : cancel_attached_view(v)
  BY <1>2, <1>8 DEF cancel, cancel_all, cancel_attached_view
<1>9. CASE (\E s \in ProtectPatterns : protect(s) \/ unprotect(s))
           \/ \E s \in BypassPatterns : bypass(s) \/ unbypass(s)
  BY <1>9, StutterImplements DEF protect, unprotect, bypass, unbypass, queueVars
<1>10. CASE (\E t \in Tokens : begin_trusted(t) \/ end_trusted(t))
            \/ \E t \in Tokens, p \in Procs : register_trusted_pid(t, p)
  BY <1>10, StutterImplements DEF begin_trusted, end_trusted, register_trusted_pid, queueVars
<1>11. CASE UNCHANGED queueVars
  BY <1>11, StutterImplements DEF queueVars
<1>12. CASE \E i \in Ids : finish_pending(i) \/ reply(i)
  BY <1>12, StutterImplements DEF finish_pending, reply
<1>13. CASE \E i \in Ids : notify_pending_waiter(i)
  BY <1>13, NotifyImplements
<1>14. CASE UNCHANGED vars
  BY <1>11, <1>14 DEF vars
<1> QED
  BY <1>3, <1>4, <1>5, <1>6, <1>7, <1>8, <1>9, <1>10, <1>11, <1>12, <1>13, <1>14
     DEF Next, Requests, Command, Threads

\* The queue of metadata changes implements the life cycle of a request: issued
\* once and in order, decided once, a replaced one by Deny, a canceled one by the
\* command that took it.
THEOREM QueueImplementsLifecycle == Spec => LifecycleSpec
<1>1. Init => Lifecycle!Init
  BY DEF Init, Lifecycle!Init, Lifecycle!Ids, Ids, StatusOf
<1>2. MetadataIndInv /\ [Next]_vars => [Lifecycle!Next]_([i \in Ids |-> StatusOf(i)])
  BY StepImplements DEF status
<1> QED BY <1>1, <1>2, MetadataInvariance, PTL DEF Spec, LifecycleSpec, Lifecycle!Spec

-----------------------------------------------------------------------------
(* The namespace. *)

\* Requests, decisions and rules leave the namespace to mount, umount and hide: the
\* sandbox whose metadata is authorized does what Overlay says.
THEOREM MetadataRefinesOverlay == Spec => OverlaySpec
<1>1. Init => OverlayInit
  BY DEF Init
<1>2. [Next]_vars => [OverlayNext]_overlayVars
  BY NamespaceSteps
<1> QED BY <1>1, <1>2, PTL DEF Spec, OverlaySpec
=============================================================================
