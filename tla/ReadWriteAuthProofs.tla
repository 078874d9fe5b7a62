-------------------------- MODULE ReadWriteAuthProofs --------------------------
(***************************************************************************)
(* Proofs about ReadWriteAuth, for every set of views, commands, processes *)
(* and operations: IndInv is inductive, which gives type correctness and   *)
(* the safety properties, and every step maps to a step of                 *)
(* RequestLifecycle.                                                       *)
(***************************************************************************)
EXTENDS ReadWriteAuth, FiniteSetTheorems, SequenceTheorems, TLAPS

\* The effects of an operation are effects.
LEMMA EffectsType ==
    ASSUME NEW o \in Operations
    PROVE  effects(o) \in Seq(Effect)
  <1>1. o \in [name : OpNames, path : Paths, to : Paths]
    BY ConstantsAssumption
  <1>2. \A k \in Kinds, p \in Paths : [kind |-> k, path |-> p] \in Effect
    BY DEF Effect
  <1>3. o.path \in Paths /\ o.to \in Paths /\ o.name \in OpNames
    BY <1>1
  <1>4. CASE o.name = "read"
    BY <1>2, <1>3, <1>4 DEF effects, Kinds
  <1>5. CASE o.name = "getxattr"
    BY <1>2, <1>3, <1>5 DEF effects, Kinds
  <1>6. CASE o.name = "write"
    BY <1>2, <1>3, <1>6 DEF effects, Kinds
  <1>7. CASE o.name = "setxattr"
    BY <1>2, <1>3, <1>7 DEF effects, Kinds
  <1>8. CASE o.name = "truncate"
    BY <1>2, <1>3, <1>8 DEF effects, Kinds
  <1>9. CASE o.name = "link"
    BY <1>2, <1>3, <1>9 DEF effects, Kinds
  <1>10. CASE o.name = "rename"
    BY <1>2, <1>3, <1>10 DEF effects, Kinds
  <1>11. QED
    BY <1>3, <1>4, <1>5, <1>6, <1>7, <1>8, <1>9, <1>10 DEF OpNames

\* The empty registry, with no waiter and no command in flight, satisfies it.
LEMMA InitIndInv == Init => IndInv
  <1> SUFFICES ASSUME Init PROVE IndInv
    OBVIOUS
  <1>1. TypeOK
    BY DEF Init, TypeOK, Phases
  <1>2. RegistryCoherent /\ HeldCoherent /\ DecidedWasIssued /\ OneScanner
    BY DEF Init, RegistryCoherent, HeldCoherent, DecidedWasIssued, OneScanner
  <1>3. ViewCoherent
    BY DEF Init, ViewCoherent, ViewOK
  <1>4. ReleasedApproved
    BY ConstantsAssumption DEF Init, ReleasedApproved, Released, Decisions
  <1>5. OneShotNeverStored
    BY DEF Init, OneShotNeverStored
  <1>6. QED
    BY <1>1, <1>2, <1>3, <1>4, <1>5 DEF IndInv

-----------------------------------------------------------------------------
(* Every action preserves the invariant, one lemma per action. *)

\* An approval is never withdrawn, and covers a request as long as the request
\* keeps its identity.
LEMMA ApprovedStable ==
    ASSUME NEW i \in Ids, Approved(i), request'[i] = request[i],
           approvals \subseteq approvals'
    PROVE  Approved(i)'
  BY DEF Approved

\* Entering the critical section: no other event loop is in it, and ids are
\* left for every effect.
LEMMA AuthorizePreserves ==
    ASSUME IndInv, NEW v \in Views, NEW o \in Operations, NEW p \in Procs,
           authorize_read_write(v, o, p)
    PROVE  IndInv'
  <1> USE DEF policyVars, controllerVars
  <1>0. effects(o) \in Seq(Effect)
    BY EffectsType
  <1>1. TypeOK'
    BY <1>0 DEF IndInv, TypeOK, authorize_read_write, Phases
  <1>2. RegistryCoherent' /\ HeldCoherent' /\ DecidedWasIssued'
    BY DEF IndInv, authorize_read_write, RegistryCoherent, HeldCoherent, DecidedWasIssued
  <1>3. OneScanner'
    BY DEF IndInv, TypeOK, authorize_read_write, Unlocked, OneScanner
  <1>4. ViewCoherent'
    BY <1>0, <1>3 DEF IndInv, TypeOK, authorize_read_write, ViewCoherent, ViewOK, Unlocked
  <1>5. ReleasedApproved'
    BY DEF IndInv, authorize_read_write, ReleasedApproved, Approved
  <1>6. OneShotNeverStored'
    BY DEF IndInv, authorize_read_write, OneShotNeverStored
  <1>7. QED
    BY <1>1, <1>2, <1>3, <1>4, <1>5, <1>6 DEF IndInv

\* An exempt or granted effect: grants may only disappear.
LEMMA SkipEffectPreserves ==
    ASSUME IndInv, NEW v \in Views, skip_effect(v)
    PROVE  IndInv'
  <1> USE DEF policyVars, controllerVars
  <1>0. /\ read_write_grants' \subseteq read_write_grants
        /\ todo' = [todo EXCEPT ![v] = Tail(todo[v])]
        /\ todo[v] \in Seq(Effect) /\ todo[v] # <<>>
    BY DEF IndInv, TypeOK, skip_effect
  <1>1. TypeOK'
    BY <1>0 DEF IndInv, TypeOK, skip_effect
  <1>2. RegistryCoherent' /\ HeldCoherent' /\ DecidedWasIssued' /\ OneScanner'
    BY DEF IndInv, skip_effect, RegistryCoherent, HeldCoherent, DecidedWasIssued, OneScanner
  <1>3. /\ UNCHANGED <<next_operation_id, pending_read_write, request, phase, op, caller,
                       mine, left, held, cell>>
        /\ \A w \in Views : w # v => todo'[w] = todo[w]
        /\ todo'[v] = Tail(todo[v])
        /\ Len(Tail(todo[v])) = Len(todo[v]) - 1 /\ Len(todo[v]) \in Nat
    BY <1>0 DEF IndInv, TypeOK, skip_effect
  <1>4. ViewCoherent'
    <2> SUFFICES ASSUME NEW w \in Views PROVE ViewOK(w)'
      BY DEF ViewCoherent
    <2>1. CASE w = v
      <3>1. ViewOK(v) /\ next_operation_id \in Nat /\ MaxId \in Nat
        BY ConstantsAssumption DEF IndInv, TypeOK, ViewCoherent
      <3>2. next_operation_id + Len(todo[v]) <= MaxId + 1 =>
               next_operation_id' + Len(todo'[v]) <= MaxId + 1
        BY <1>3, <3>1
      <3>3. QED
        BY <1>3, <2>1, <3>1, <3>2 DEF ViewOK
    <2>2. CASE w # v
      BY <1>3, <2>2 DEF IndInv, ViewCoherent, ViewOK
    <2>3. QED
      BY <2>1, <2>2
  <1>5. ReleasedApproved'
    BY DEF IndInv, skip_effect, ReleasedApproved, Approved
  <1>6. OneShotNeverStored'
    BY <1>0 DEF IndInv, OneShotNeverStored
  <1>7. QED
    BY <1>1, <1>2, <1>4, <1>5, <1>6 DEF IndInv

\* A queued effect: its id is fresh, so nobody holds or has decided it.
LEMMA QueueEffectPreserves ==
    ASSUME IndInv, NEW v \in Views, queue_effect(v)
    PROVE  IndInv'
  <1> USE DEF policyVars, controllerVars
  <1> DEFINE id == next_operation_id
             e == Head(todo[v])
             r == [view |-> v, caller |-> caller[v], ident |-> identity[v],
                   kind |-> e.kind, path |-> e.path]
  <1>0. /\ phase[v] = "scan"
        /\ todo[v] \in Seq(Effect) /\ todo[v] # <<>> /\ e \in Effect
        /\ id \in Ids /\ id \in Nat
    BY DEF IndInv, TypeOK, queue_effect, must_queue, Ids
  <1>1. r \in Request
    BY <1>0 DEF IndInv, TypeOK, ViewCoherent, ViewOK, Request, Effect
  <1>2. /\ request' = [request EXCEPT ![id] = r]
        /\ pending_read_write' = pending_read_write \cup {id}
        /\ pending_waiters' = pending_waiters \cup {id}
        /\ mine' = [mine EXCEPT ![v] = mine[v] \cup {id}]
        /\ left' = [left EXCEPT ![v] = left[v] \cup {id}]
        /\ next_operation_id' = id + 1
        /\ todo' = [todo EXCEPT ![v] = Tail(todo[v])]
        /\ UNCHANGED <<read_write_grants, policyVars, phase, op, caller, identity,
                       controllerVars, now, cell, approvals>>
    BY DEF queue_effect
  <1>3. /\ id \notin pending_read_write
        /\ cell[id] = None
        /\ \A c \in Controllers : id \notin held[c]
        /\ \A w \in Views : id \notin mine[w]
    BY <1>0 DEF IndInv, RegistryCoherent, HeldCoherent, DecidedWasIssued, ViewCoherent, ViewOK, Ids
  <1> HIDE DEF r, e
  <1>4. TypeOK'
    BY <1>0, <1>1, <1>2 DEF IndInv, TypeOK
  <1>5. RegistryCoherent'
    BY <1>0, <1>1, <1>2, <1>3 DEF IndInv, TypeOK, RegistryCoherent, Ids
  <1>6. HeldCoherent' /\ DecidedWasIssued'
    BY <1>0, <1>2, <1>3 DEF IndInv, TypeOK, HeldCoherent, DecidedWasIssued, Ids
  <1>7. OneScanner'
    BY <1>2 DEF IndInv, OneScanner
  <1>8. Len(Tail(todo[v])) = Len(todo[v]) - 1 /\ Len(todo[v]) \in Nat
    BY <1>0
  <1>9. ViewCoherent'
    <2> SUFFICES ASSUME NEW w \in Views PROVE ViewOK(w)'
      BY DEF ViewCoherent
    <2>1. CASE w = v
      BY <1>0, <1>1, <1>2, <1>3, <1>8, <2>1, ConstantsAssumption DEF IndInv, TypeOK, ViewCoherent, ViewOK, Ids
    <2>2. CASE w # v
      BY <1>0, <1>2, <1>3, <2>2 DEF IndInv, TypeOK, ViewCoherent, ViewOK, OneScanner, Ids
    <2>3. QED
      BY <2>1, <2>2
  <1>10. ReleasedApproved'
    <2>1. \A i \in Ids : i # id /\ Approved(i) => Approved(i)'
      BY <1>0, <1>2, ApprovedStable DEF IndInv, TypeOK
    <2>2. QED
      BY <1>2, <1>3, <2>1, ConstantsAssumption DEF IndInv, TypeOK, ReleasedApproved, Released, Decisions
  <1>11. OneShotNeverStored'
    BY <1>2 DEF IndInv, OneShotNeverStored
  <1>12. QED
    BY <1>4, <1>5, <1>6, <1>7, <1>9, <1>10, <1>11 DEF IndInv

\* The failed log append: the id is spent and the critical section is left.
LEMMA LogErrorPreserves ==
    ASSUME IndInv, NEW v \in Views, queue_effect_log_error(v)
    PROVE  IndInv'
  <1> USE DEF policyVars, controllerVars
  <1>1. TypeOK'
    BY DEF IndInv, TypeOK, queue_effect_log_error, Phases, Replies, Ids
  <1>2. RegistryCoherent' /\ HeldCoherent' /\ DecidedWasIssued'
    BY DEF IndInv, TypeOK, queue_effect_log_error, RegistryCoherent, HeldCoherent,
           DecidedWasIssued, Ids
  <1>3. OneScanner'
    BY DEF IndInv, TypeOK, queue_effect_log_error, OneScanner
  <1>4. ViewCoherent'
    <2> SUFFICES ASSUME NEW w \in Views PROVE ViewOK(w)'
      BY DEF ViewCoherent
    <2>1. CASE w = v
      BY <2>1 DEF IndInv, TypeOK, queue_effect_log_error, must_queue, ViewCoherent, ViewOK, Ids
    <2>2. CASE w # v
      BY <2>2 DEF IndInv, TypeOK, queue_effect_log_error, must_queue, OneScanner, ViewCoherent,
                  ViewOK, Ids
    <2>3. QED
      BY <2>1, <2>2
  <1>5. ReleasedApproved'
    BY DEF IndInv, queue_effect_log_error, ReleasedApproved, Approved
  <1>6. OneShotNeverStored'
    BY DEF IndInv, queue_effect_log_error, OneShotNeverStored
  <1>7. QED
    BY <1>1, <1>2, <1>3, <1>4, <1>5, <1>6 DEF IndInv

\* drop_registry, proceed and reply touch only the view's own state.
LEMMA LocalStepPreserves ==
    ASSUME IndInv, NEW v \in Views, drop_registry(v) \/ proceed(v) \/ reply(v)
    PROVE  IndInv'
  <1> USE DEF registryVars, policyVars, controllerVars
  <1>1. TypeOK'
    BY DEF IndInv, TypeOK, drop_registry, proceed, reply, Phases, Replies
  <1>2. RegistryCoherent' /\ HeldCoherent' /\ DecidedWasIssued'
    BY DEF IndInv, drop_registry, proceed, reply, RegistryCoherent, HeldCoherent,
           DecidedWasIssued
  <1>3. OneScanner'
    <2>1. \A w \in Views : phase'[w] = "scan" => phase[w] = "scan"
      BY DEF IndInv, TypeOK, drop_registry, proceed, reply
    <2>2. QED
      BY <2>1 DEF IndInv, OneScanner
  <1>4. ViewCoherent'
    <2> SUFFICES ASSUME NEW w \in Views PROVE ViewOK(w)'
      BY DEF ViewCoherent
    <2>1. CASE w = v
      BY <2>1 DEF IndInv, TypeOK, drop_registry, proceed, reply, ViewCoherent, ViewOK
    <2>2. CASE w # v
      BY <2>2 DEF IndInv, TypeOK, drop_registry, proceed, reply, ViewCoherent, ViewOK
    <2>3. QED
      BY <2>1, <2>2
  <1>5. ReleasedApproved'
    BY DEF IndInv, drop_registry, proceed, reply, ReleasedApproved, Approved
  <1>6. OneShotNeverStored'
    BY DEF IndInv, drop_registry, proceed, reply, OneShotNeverStored
  <1>7. QED
    BY <1>1, <1>2, <1>3, <1>4, <1>5, <1>6 DEF IndInv

\* Taking note of a decision: what is no longer waited for was released.
LEMMA WaitPreserves ==
    ASSUME IndInv, NEW v \in Views, NEW i \in Ids, wait_for_decision(v, i)
    PROVE  IndInv'
  <1> USE DEF registryVars, policyVars, controllerVars
  <1>1. TypeOK'
    BY ZenonT(60) DEF IndInv, TypeOK, wait_for_decision, Phases
  <1>2. RegistryCoherent' /\ HeldCoherent' /\ DecidedWasIssued'
    BY DEF IndInv, wait_for_decision, RegistryCoherent, HeldCoherent, DecidedWasIssued
  <1>3. OneScanner'
    BY DEF IndInv, TypeOK, wait_for_decision, OneScanner
  <1>4. ViewCoherent'
    <2> SUFFICES ASSUME NEW w \in Views PROVE ViewOK(w)'
      BY DEF ViewCoherent
    <2>1. CASE w = v
      BY <2>1 DEF IndInv, TypeOK, wait_for_decision, ViewCoherent, ViewOK
    <2>2. CASE w # v
      BY <2>2 DEF IndInv, TypeOK, wait_for_decision, ViewCoherent, ViewOK
    <2>3. QED
      BY <2>1, <2>2
  <1>5. ReleasedApproved'
    BY DEF IndInv, wait_for_decision, ReleasedApproved, Approved
  <1>6. OneShotNeverStored'
    BY DEF IndInv, wait_for_decision, OneShotNeverStored
  <1>7. QED
    BY <1>1, <1>2, <1>3, <1>4, <1>5, <1>6 DEF IndInv

\* The effects withdrawn after a Deny or Cancel are pending, so no command
\* holds them.
LEMMA CancelUnresolvedPreserves ==
    ASSUME IndInv, NEW v \in Views, cancel_unresolved_read_write_effects(v)
    PROVE  IndInv'
  <1> USE DEF policyVars, controllerVars
  <1> DEFINE gone == mine[v] \cap pending_read_write
  <1>0. /\ phase[v] \in {"denying", "canceling"}
        /\ pending_read_write' = pending_read_write \ gone
        /\ pending_waiters' = pending_waiters \ gone
        /\ cell' = [i \in Ids |-> IF i \in gone THEN "cancel" ELSE cell[i]]
        /\ phase' = [phase EXCEPT ![v] = IF phase[v] = "denying" THEN "denied" ELSE "canceled"]
        /\ UNCHANGED <<next_operation_id, read_write_grants, request, policyVars, op, caller,
                       identity, todo, mine, left, controllerVars, now, approvals>>
    BY DEF cancel_unresolved_read_write_effects
  <1>1. /\ gone \subseteq Ids
        /\ \A i \in gone : i \in pending_read_write
        /\ \A i \in gone : \A c \in Controllers : i \notin held[c]
    BY DEF IndInv, TypeOK, HeldCoherent
  <1> HIDE DEF gone
  <1>2. TypeOK'
    BY <1>0, <1>1 DEF IndInv, TypeOK, Phases, Replies, Decisions
  <1>3. RegistryCoherent' /\ HeldCoherent' /\ DecidedWasIssued'
    BY <1>0, <1>1 DEF IndInv, TypeOK, RegistryCoherent, HeldCoherent, DecidedWasIssued
  <1>4. OneScanner'
    BY <1>0 DEF IndInv, TypeOK, OneScanner
  <1>5. ViewCoherent'
    <2> SUFFICES ASSUME NEW w \in Views PROVE ViewOK(w)'
      BY DEF ViewCoherent
    <2>0. \A i \in Ids : i \in gone => cell[i] = None /\ cell'[i] # None
      BY <1>0, <1>1, ConstantsAssumption DEF IndInv, RegistryCoherent, Decisions
    <2>00. \A i \in Ids : cell[i] \in Released => cell'[i] = cell[i]
      BY <1>0, <2>0, ConstantsAssumption DEF Released, Decisions
    <2>1. CASE w = v
      BY <1>0, <1>1, <2>0, <2>1 DEF IndInv, TypeOK, ViewCoherent, ViewOK
    <2>2. CASE w # v
      BY <1>0, <1>1, <2>0, <2>00, <2>2 DEF IndInv, TypeOK, ViewCoherent, ViewOK
    <2>3. QED
      BY <2>1, <2>2
  <1>6. ReleasedApproved'
    BY <1>0 DEF IndInv, ReleasedApproved, Released, Approved
  <1>7. OneShotNeverStored'
    BY <1>0 DEF IndInv, OneShotNeverStored
  <1>8. QED
    BY <1>2, <1>3, <1>4, <1>5, <1>6, <1>7 DEF IndInv

\* allow and deny: one request leaves the registry and is decided at once.
LEMMA DecidePreserves ==
    ASSUME IndInv, NEW i \in Ids, NEW d \in Decisions, decide(i, d),
           approvals \subseteq approvals', approvals' \subseteq Approval,
           d \in Released => Approved(i)'
    PROVE  IndInv'
  <1> USE DEF policyVars, controllerVars, viewVars
  <1>0. /\ i \in pending_read_write
        /\ pending_read_write' = pending_read_write \ {i}
        /\ pending_waiters' = pending_waiters \ {i}
        /\ cell' = [cell EXCEPT ![i] = d]
        /\ d # None
        /\ UNCHANGED <<next_operation_id, read_write_grants, request, policyVars, viewVars,
                       controllerVars, now>>
    BY ConstantsAssumption DEF decide, Remove
  <1>1. \A c \in Controllers : i \notin held[c]
    BY <1>0 DEF IndInv, HeldCoherent
  <1>2. TypeOK'
    BY <1>0 DEF IndInv, TypeOK
  <1>3. RegistryCoherent' /\ HeldCoherent' /\ DecidedWasIssued'
    BY <1>0, <1>1 DEF IndInv, TypeOK, RegistryCoherent, HeldCoherent, DecidedWasIssued
  <1>4. OneScanner'
    BY <1>0 DEF IndInv, OneScanner
  <1>5. ViewCoherent'
    <2> SUFFICES ASSUME NEW w \in Views PROVE ViewOK(w)'
      BY DEF ViewCoherent
    <2>1. \A j \in mine[w] : j = i => cell[j] = None /\ cell[j] \notin Released
      BY <1>0, ConstantsAssumption DEF IndInv, RegistryCoherent, Released, Decisions
    <2>2. QED
      BY <1>0, <1>1, <2>1 DEF IndInv, TypeOK, ViewCoherent, ViewOK
  <1>6. ReleasedApproved'
    <2>1. \A j \in Ids : Approved(j) => Approved(j)'
      BY <1>0, ApprovedStable
    <2>2. QED
      BY <1>0, <2>1 DEF IndInv, TypeOK, ReleasedApproved
  <1>7. OneShotNeverStored'
    BY <1>0 DEF IndInv, OneShotNeverStored
  <1>8. QED
    BY <1>2, <1>3, <1>4, <1>5, <1>6, <1>7 DEF IndInv

\* The single-request approval recorded by allow.
LEMMA ApprovalOfType ==
    ASSUME IndInv, NEW i \in pending_read_write
    PROVE  approval_of(i, request[i]) \in Approval /\ approval_of(i, request[i]).id = i
  BY DEF IndInv, TypeOK, RegistryCoherent, approval_of, Approval, Request

\* allow without grant options: the released request is approved by name.
LEMMA AllowPreserves ==
    ASSUME IndInv, NEW i \in Ids, NEW b \in BOOLEAN, allow(i, b)
    PROVE  IndInv'
  <1> DEFINE d == IF b THEN "do_nothing" ELSE "apply"
             a == approval_of(i, request[i])
  <1>1. decide(i, d) /\ approvals' = approvals \cup {a} /\ i \in pending_read_write
    BY DEF allow, decide
  <1>2. a \in Approval /\ a.id = i
    BY <1>1, ApprovalOfType
  <1> HIDE DEF a
  <1>3. Approved(i)'
    BY <1>1, <1>2 DEF Approved
  <1>4. d \in Decisions
    BY DEF Decisions
  <1>5. QED
    BY <1>1, <1>2, <1>3, <1>4, DecidePreserves DEF IndInv, TypeOK

\* deny: nothing is released.
LEMMA DenyPreserves ==
    ASSUME IndInv, NEW i \in Ids, deny(i)
    PROVE  IndInv'
  <1>1. "deny" \in Decisions /\ "deny" \notin Released
    BY DEF Decisions, Released
  <1>2. QED
    BY <1>1, DecidePreserves DEF deny, IndInv, TypeOK

\* cancel, cancel_all and the cancellation of a view: a set of pending requests
\* moves from the registry to the command.
LEMMA CancelScopePreserves ==
    ASSUME IndInv, NEW c \in Controllers, NEW S \in SUBSET pending_read_write,
           cancel_scope(c, S)
    PROVE  IndInv'
  <1> USE DEF policyVars, viewVars
  <1>0. /\ held[c] = {}
        /\ pending_read_write' = pending_read_write \ S
        /\ pending_waiters' = pending_waiters \ S
        /\ held' = [held EXCEPT ![c] = S]
        /\ verdict' = [verdict EXCEPT ![c] = IF S = {} THEN None ELSE "cancel"]
        /\ UNCHANGED <<next_operation_id, read_write_grants, request, policyVars, viewVars,
                       now, cell, approvals>>
    BY DEF cancel_scope, Remove, take
  <1>1. S \subseteq Ids /\ \A e \in Controllers : \A i \in held[e] : i \notin S
    BY DEF IndInv, TypeOK, HeldCoherent
  <1>2. TypeOK'
    BY <1>0, <1>1 DEF IndInv, TypeOK, Decisions
  <1>3. RegistryCoherent' /\ DecidedWasIssued'
    BY <1>0 DEF IndInv, RegistryCoherent, DecidedWasIssued
  <1>4. HeldCoherent'
    BY <1>0, <1>1 DEF IndInv, TypeOK, RegistryCoherent, HeldCoherent
  <1>5. OneScanner'
    BY <1>0 DEF IndInv, OneScanner
  <1>6. ViewCoherent'
    BY <1>0, <1>1 DEF IndInv, TypeOK, ViewCoherent, ViewOK
  <1>7. ReleasedApproved'
    BY <1>0, ConstantsAssumption DEF IndInv, TypeOK, ReleasedApproved, Approved, Decisions
  <1>8. OneShotNeverStored'
    BY <1>0 DEF IndInv, OneShotNeverStored
  <1>9. QED
    BY <1>2, <1>3, <1>4, <1>5, <1>6, <1>7, <1>8 DEF IndInv

\* notify_pending_waiter: the decision told is the one the command took the
\* request for.
LEMMA NotifyPreserves ==
    ASSUME IndInv, NEW c \in Controllers, NEW i \in Ids, notify_pending_waiter(c, i)
    PROVE  IndInv'
  <1> USE DEF registryVars, policyVars, viewVars
  <1> DEFINE rest == held[c] \ {i}
  <1>0. /\ i \in held[c]
        /\ cell' = [cell EXCEPT ![i] = verdict[c]]
        /\ held' = [held EXCEPT ![c] = rest]
        /\ verdict' = [verdict EXCEPT ![c] = IF rest = {} THEN None ELSE verdict[c]]
        /\ UNCHANGED <<registryVars, policyVars, viewVars, now, approvals>>
    BY DEF notify_pending_waiter, take
  <1>1. /\ verdict[c] \in {"apply", "cancel"} /\ verdict[c] \in Decisions /\ verdict[c] # None
        /\ cell[i] = None /\ i \notin pending_read_write
        /\ i < next_operation_id /\ request[i] \in Request
        /\ \A e \in Controllers : e # c => i \notin held[e]
    BY <1>0, ConstantsAssumption DEF IndInv, HeldCoherent, Decisions
  <1>2. TypeOK'
    BY <1>0, <1>1 DEF IndInv, TypeOK
  <1>3. RegistryCoherent' /\ DecidedWasIssued'
    BY <1>0, <1>1 DEF IndInv, TypeOK, RegistryCoherent, DecidedWasIssued
  <1>4. HeldCoherent'
    BY <1>0, <1>1 DEF IndInv, TypeOK, HeldCoherent
  <1>5. OneScanner'
    BY <1>0 DEF IndInv, OneScanner
  <1>6. ViewCoherent'
    <2> SUFFICES ASSUME NEW w \in Views PROVE ViewOK(w)'
      BY DEF ViewCoherent
    <2>1. \A j \in mine[w] : j = i => cell[j] = None /\ cell[j] \notin Released
      BY <1>1, ConstantsAssumption DEF Released, Decisions
    <2>2. \A j \in mine[w] : cell'[j] = None => j # i /\ cell[j] = None
      BY <1>0, <1>1 DEF IndInv, TypeOK
    <2>3. \A j \in mine[w] : j # i /\ (\E e \in Controllers : j \in held[e]) =>
              \E e \in Controllers : j \in held'[e]
      BY <1>0 DEF IndInv, TypeOK
    <2>4. \A j \in mine[w] : cell[j] \in Released => cell'[j] \in Released
      BY <1>0, <2>1 DEF IndInv, TypeOK
    <2>5. QED
      BY <1>0, <2>2, <2>3, <2>4 DEF IndInv, TypeOK, ViewCoherent, ViewOK
  <1>7. ReleasedApproved'
    <2>1. \A j \in Ids : Approved(j) => Approved(j)'
      BY <1>0, ApprovedStable
    <2>2. verdict[c] \in Released => Approved(i)'
      BY <1>0, <1>1, <2>1 DEF IndInv, ReleasedApproved, Released
    <2>3. QED
      BY <1>0, <2>1, <2>2, ConstantsAssumption DEF IndInv, TypeOK, ReleasedApproved, Decisions
  <1>8. OneShotNeverStored'
    BY <1>0 DEF IndInv, OneShotNeverStored
  <1>9. QED
    BY <1>2, <1>3, <1>4, <1>5, <1>6, <1>7, <1>8 DEF IndInv

\* allow with grant options, in general: the command takes the requests in S,
\* each of which it has approved, out of the registry; it may complete the
\* identity of the selected request i and may store a duration grant.
LEMMA ReleasePreserves ==
    ASSUME IndInv, NEW c \in Controllers, NEW i \in pending_read_write,
           NEW S \in SUBSET pending_read_write, NEW r \in Request,
           Unlocked, held[c] = {}, Remove(S), take(c, S, "apply"),
           request' = [request EXCEPT ![i] = r],
           next_operation_id' \in {next_operation_id, next_operation_id + 1},
           read_write_grants' \subseteq Grant,
           \A g \in read_write_grants' : ~g.once,
           approvals \subseteq approvals', approvals' \subseteq Approval,
           \A j \in S : Approved(j)',
           UNCHANGED <<policyVars, viewVars, now, cell>>
    PROVE  IndInv'
  <1> USE DEF policyVars, viewVars
  <1>0. /\ pending_read_write' = pending_read_write \ S
        /\ pending_waiters' = pending_waiters \ S
        /\ held' = [held EXCEPT ![c] = S]
        /\ verdict' = [verdict EXCEPT ![c] = IF S = {} THEN None ELSE "apply"]
    BY DEF Remove, take
  <1>1. /\ S \subseteq Ids /\ i \in Ids
        /\ \A e \in Controllers : \A j \in held[e] : j \notin S /\ j # i
    BY DEF IndInv, TypeOK, HeldCoherent
  <1>2. TypeOK'
    BY <1>0, <1>1 DEF IndInv, TypeOK, Decisions
  <1>3. RegistryCoherent' /\ DecidedWasIssued'
    BY <1>0, <1>1 DEF IndInv, TypeOK, RegistryCoherent, DecidedWasIssued, Ids
  <1>4. HeldCoherent'
    <2>0. next_operation_id \in Nat /\ MaxId \in Nat
      BY ConstantsAssumption DEF IndInv, TypeOK
    <2>1. \A j \in Ids : /\ j < next_operation_id => j < next_operation_id'
                        /\ request[j] \in Request => request'[j] \in Request
      BY <1>1 DEF IndInv, TypeOK, Ids
    <2>2. \A j \in S : j < next_operation_id /\ cell[j] = None /\ request[j] \in Request
      BY DEF IndInv, RegistryCoherent
    <2> SUFFICES ASSUME NEW e \in Controllers
                 PROVE  /\ held'[e] # {} => verdict'[e] \in {"apply", "cancel"}
                        /\ \A j \in held'[e] :
                              /\ j < next_operation_id'
                              /\ cell[j] = None
                              /\ j \notin pending_read_write'
                              /\ request'[j] \in Request
                              /\ \A d \in Controllers : d # e => j \notin held'[d]
      BY DEF HeldCoherent
    <2>3. /\ held'[c] = S
          /\ S # {} => verdict'[c] = "apply"
          /\ \A d \in Controllers : d # c => held'[d] = held[d] /\ verdict'[d] = verdict[d]
      BY <1>0 DEF IndInv, TypeOK
    <2>4. CASE e = c
      <3>1. held'[e] = S /\ (S # {} => verdict'[e] \in {"apply", "cancel"})
        BY <2>3, <2>4
      <3>2. \A j \in S : /\ j < next_operation_id' /\ cell[j] = None /\ request'[j] \in Request
        BY <1>1, <2>0, <2>1, <2>2 DEF Ids
      <3>3. \A j \in S : j \notin pending_read_write'
        BY <1>0
      <3>4. \A j \in S : \A d \in Controllers : d # c => j \notin held'[d]
        BY <1>1, <2>3
      <3>5. QED
        BY <2>4, <3>1, <3>2, <3>3, <3>4
    <2>5. CASE e # c
      <3>1. \A j \in held[e] : /\ j \in Ids /\ j < next_operation_id /\ cell[j] = None
                              /\ j \notin pending_read_write /\ request[j] \in Request
                              /\ \A d \in Controllers : d # e => j \notin held[d]
        BY DEF IndInv, TypeOK, HeldCoherent
      <3>2. held[e] # {} => verdict[e] \in {"apply", "cancel"}
        BY DEF IndInv, HeldCoherent
      <3>3. QED
        BY <1>0, <1>1, <2>0, <2>1, <2>3, <2>5, <3>1, <3>2 DEF Ids
    <2>6. QED
      BY <2>4, <2>5
  <1>5. OneScanner'
    BY DEF IndInv, OneScanner
  <1>6. ViewCoherent'
    <2> SUFFICES ASSUME NEW w \in Views PROVE ViewOK(w)'
      BY DEF ViewCoherent
    <2>1. phase[w] # "scan" /\ mine[w] \subseteq Ids
      BY DEF Unlocked, IndInv, TypeOK
    <2>2. \A j \in mine[w] : j < next_operation_id' /\ request'[j] \in Request
      BY <1>1, <2>1 DEF IndInv, TypeOK, ViewCoherent, ViewOK, Ids
    <2>3. \A j \in mine[w] : cell[j] = None =>
             j \in pending_read_write' \/ \E e \in Controllers : j \in held'[e]
      BY <1>0 DEF IndInv, TypeOK, ViewCoherent, ViewOK
    <2>4. QED
      BY <2>1, <2>2, <2>3 DEF IndInv, ViewCoherent, ViewOK
  <1>7. ReleasedApproved'
    <2>1. \A j \in Ids : j # i /\ Approved(j) => Approved(j)'
      BY ApprovedStable DEF IndInv, TypeOK
    <2>2. cell[i] \notin Released
      BY ConstantsAssumption DEF IndInv, RegistryCoherent, Released, Decisions
    <2>3. QED
      BY <1>0, <1>1, <2>1, <2>2, ConstantsAssumption
         DEF IndInv, TypeOK, ReleasedApproved, Decisions
  <1>8. OneShotNeverStored'
    BY DEF OneShotNeverStored
  <1>9. QED
    BY <1>2, <1>3, <1>4, <1>5, <1>6, <1>7, <1>8 DEF IndInv

\* The subject of a grant is a set of processes that has the requester's
\* identity in it, unless no identity is available.
LEMMA GrantSubjectType ==
    ASSUME NEW r \in Request, NEW tree \in SUBSET Procs, NEW lookup \in Procs \cup {None}
    PROVE  LET s == grant_subject(r, tree, lookup)
           IN  /\ s.who \subseteq Procs
               /\ s.who # {} => s.ident \in s.who
  <1> DEFINE inTree == {q \in tree : PidOf[q] = PidOf[r.caller]}
             requester == IF r.ident # None THEN r.ident
                          ELSE IF inTree # {} THEN CHOOSE q \in inTree : TRUE
                          ELSE lookup
  <1>1. inTree # {} => (CHOOSE q \in inTree : TRUE) \in inTree
    OBVIOUS
  <1>2. inTree \subseteq Procs /\ r.ident \in Procs \cup {None}
    BY DEF Request
  <1>3. requester \in Procs \cup {None}
    BY <1>1, <1>2
  <1>4. grant_subject(r, tree, lookup) =
           [ident |-> requester,
            who |-> IF requester = None THEN {}
                    ELSE IF requester \in tree THEN tree ELSE {requester}]
    BY DEF grant_subject
  <1> HIDE DEF requester
  <1>5. QED
    BY <1>3, <1>4

\* allow with grant options: a grant matches the request it was made from, so
\* a one-shot grant is used up at once, and what the broadcast releases is in
\* the scope of the grant.
LEMMA GrantPreserves ==
    ASSUME IndInv, NEW c \in Controllers, NEW i \in Ids, NEW pattern \in GrantPatterns,
           NEW duration \in Durations \cup {0}, NEW tree \in Trees \cup {{}},
           allow_read_write_grant(c, i, pattern, duration, tree)
    PROVE  IndInv'
  <1>0. /\ Unlocked /\ held[c] = {} /\ i \in pending_read_write
        /\ request[i].path \in pattern
        /\ next_operation_id \in Ids
        /\ UNCHANGED <<policyVars, viewVars, now, cell>>
    BY DEF allow_read_write_grant
  <1>1. PICK lookup \in identity_for_pid(PidOf[request[i].caller]) :
           LET s == grant_subject(request[i], tree, lookup)
           IN  IF s.who = {}
               THEN grantless_allow(c, i)
               ELSE broadcast_grant(c, i, s.ident,
                      [id |-> next_operation_id, kind |-> request[i].kind,
                       pattern |-> pattern, who |-> s.who, once |-> duration = 0,
                       expires |-> now + duration])
    BY DEF allow_read_write_grant
  <1>2. /\ request[i] \in Request
        /\ tree \in SUBSET Procs
        /\ lookup \in Procs \cup {None}
        /\ pattern \in SUBSET Paths
        /\ duration \in Nat /\ now \in Nat
    <2>1. request[i] \in Request /\ now \in Nat
      BY <1>0 DEF IndInv, TypeOK, RegistryCoherent
    <2>2. lookup \in Procs \cup {None}
      BY <1>1 DEF identity_for_pid
    <2>3. tree \in SUBSET Procs
      BY ConstantsAssumption
    <2>4. pattern \in SUBSET Paths
      BY ConstantsAssumption
    <2>5. duration \in Nat
      BY ConstantsAssumption
    <2>6. QED
      BY <2>1, <2>2, <2>3, <2>4, <2>5
  <1> DEFINE s == grant_subject(request[i], tree, lookup)
             g == [id |-> next_operation_id, kind |-> request[i].kind,
                   pattern |-> pattern, who |-> s.who, once |-> duration = 0,
                   expires |-> now + duration]
  <1>3. s.who \subseteq Procs /\ (s.who # {} => s.ident \in s.who)
    BY <1>2, GrantSubjectType
  <1>4. CASE s.who = {}
    <2>1. grantless_allow(c, i)
      BY <1>1, <1>4
    <2>2. /\ Remove({i}) /\ take(c, {i}, "apply")
          /\ approvals' = approvals \cup {approval_of(i, request[i])}
          /\ UNCHANGED <<next_operation_id, read_write_grants, request>>
      BY <2>1 DEF grantless_allow
    <2>3. approval_of(i, request[i]) \in Approval /\ approval_of(i, request[i]).id = i
      BY <1>0, ApprovalOfType
    <2>4. Approved(i)'
      BY <2>2, <2>3 DEF Approved
    <2>5. request' = [request EXCEPT ![i] = request[i]]
      BY <2>2 DEF IndInv, TypeOK
    <2>6. /\ read_write_grants' \subseteq Grant
          /\ \A h \in read_write_grants' : ~h.once
          /\ approvals \subseteq approvals' /\ approvals' \subseteq Approval
      BY <2>2, <2>3 DEF IndInv, TypeOK, OneShotNeverStored
    <2>7. QED
      BY <1>0, <1>2, <2>2, <2>4, <2>5, <2>6, ReleasePreserves
  <1>5. CASE s.who # {}
    <2> DEFINE selected == [request[i] EXCEPT !.ident = s.ident]
               matching == all_matching(i, selected, g)
               released == IF g.once THEN Earliest(matching) ELSE matching
               a == [id |-> i, kind |-> g.kind, pattern |-> g.pattern, who |-> g.who,
                     once |-> g.once, grant |-> g.id]
    <2>1. broadcast_grant(c, i, s.ident, g)
      BY <1>1, <1>5
    <2>2. /\ request' = [request EXCEPT ![i] = selected]
          /\ Remove(released) /\ take(c, released, "apply")
          /\ read_write_grants' = IF ~g.once \/ matching = {}
                                  THEN read_write_grants \cup {g} ELSE read_write_grants
          /\ next_operation_id' = next_operation_id + 1
          /\ approvals' = approvals \cup {a}
      BY <2>1 DEF broadcast_grant, grant_step
    <2>3. /\ selected \in Request /\ selected.kind = request[i].kind
          /\ selected.path = request[i].path /\ selected.ident = s.ident
      BY <1>2, <1>3, <1>5 DEF Request
    <2>4. /\ g \in Grant /\ a \in Approval
          /\ a.id = i /\ a.kind = g.kind /\ a.pattern = g.pattern /\ a.who = g.who
      BY <1>0, <1>2, <1>3, <2>3 DEF Grant, Approval, Request
    <2>5. matches_request(g, selected)
      <3>1. ~is_expired(g)
        <4>1. g.once = (duration = 0) /\ g.expires = now + duration
          OBVIOUS
        <4>2. CASE duration = 0
          BY <4>1, <4>2 DEF is_expired
        <4>3. CASE duration # 0
          <5>1. ~(now >= now + duration)
            BY <1>2, <4>3
          <5>2. QED
            BY <4>1, <5>1 DEF is_expired
        <4>4. QED
          BY <4>2, <4>3
      <3>2. QED
        BY <1>0, <1>3, <1>5, <2>3, <3>1 DEF matches_request, matches_intent, matches_subject
    <2>6. i \in matching
      BY <2>5 DEF all_matching
    <2> HIDE DEF selected, g, a, s
    <2>7. /\ matching \subseteq pending_read_write
          /\ \A j \in matching : j # i => matches_request(g, request[j])
      BY <1>0 DEF all_matching, others_matching, matching_pending_read_write_ids_for_grant
    <2>8. released \subseteq matching
      BY DEF Earliest
    <2>9. \A j \in released : Approved(j)'
      <3> SUFFICES ASSUME NEW j \in released PROVE Approved(j)'
        OBVIOUS
      <3>1. a \in approvals'
        BY <2>2
      <3>2. CASE j = i
        BY <2>4, <3>1, <3>2 DEF Approved
      <3>3. CASE j # i
        <4>1. j \in Ids /\ matches_request(g, request[j]) /\ request'[j] = request[j]
          BY <2>2, <2>7, <2>8, <3>3 DEF IndInv, TypeOK
        <4>2. /\ a.kind = request'[j].kind
              /\ request'[j].path \in a.pattern
              /\ request'[j].ident \in a.who
          BY <2>4, <4>1 DEF matches_request, matches_intent, matches_subject
        <4>3. QED
          BY <3>1, <4>2 DEF Approved
      <3>4. QED
        BY <3>2, <3>3
    <2>10. /\ read_write_grants' \subseteq Grant
           /\ \A h \in read_write_grants' : ~h.once
           /\ approvals \subseteq approvals' /\ approvals' \subseteq Approval
      BY <2>2, <2>4, <2>6 DEF IndInv, TypeOK, OneShotNeverStored
    <2>11. QED
      BY <1>0, <2>2, <2>3, <2>7, <2>8, <2>9, <2>10, ReleasePreserves
  <1>6. QED
    BY <1>4, <1>5

\* Policy commands and the clock leave everything the invariant relates alone.
LEMMA PolicyPreserves ==
    ASSUME IndInv,
           \/ \E r \in ProtectRules : protect(r) \/ unprotect(r)
           \/ \E r \in BypassRules : bypass(r) \/ unbypass(r)
           \/ tick
    PROVE  IndInv'
  <1> USE DEF registryVars, viewVars, controllerVars, policyVars
  <1>1. UNCHANGED <<registryVars, viewVars, controllerVars, cell, approvals>>
    BY DEF protect, unprotect, bypass, unbypass, tick
  <1>2. /\ protection_rules' \subseteq ProtectRules
        /\ bypass_rules' \subseteq BypassRules
    BY DEF protect, unprotect, bypass, unbypass, tick, IndInv, TypeOK
  <1>3. now' \in Nat
    BY DEF protect, unprotect, bypass, unbypass, tick, IndInv, TypeOK
  <1>4. TypeOK'
    BY <1>1, <1>2, <1>3 DEF IndInv, TypeOK
  <1>5. RegistryCoherent' /\ HeldCoherent' /\ DecidedWasIssued' /\ OneScanner'
    BY <1>1 DEF IndInv, RegistryCoherent, HeldCoherent, DecidedWasIssued, OneScanner
  <1>6. ViewCoherent' /\ ReleasedApproved' /\ OneShotNeverStored'
    BY <1>1 DEF IndInv, ViewCoherent, ViewOK, ReleasedApproved, Approved, OneShotNeverStored
  <1>7. QED
    BY <1>4, <1>5, <1>6 DEF IndInv

\* A stuttering step preserves it.
LEMMA StutterPreserves ==
    ASSUME IndInv, UNCHANGED vars
    PROVE  IndInv'
  <1> USE DEF vars, registryVars, viewVars, controllerVars, policyVars
  <1>1. TypeOK'
    BY DEF IndInv, TypeOK
  <1>2. RegistryCoherent' /\ HeldCoherent' /\ DecidedWasIssued' /\ OneScanner'
    BY DEF IndInv, RegistryCoherent, HeldCoherent, DecidedWasIssued, OneScanner
  <1>3. ViewCoherent' /\ ReleasedApproved' /\ OneShotNeverStored'
    BY DEF IndInv, ViewCoherent, ViewOK, ReleasedApproved, Approved, OneShotNeverStored
  <1>4. QED
    BY <1>1, <1>2, <1>3 DEF IndInv

\* The invariant is inductive.
LEMMA NextPreserves ==
    ASSUME IndInv, [Next]_vars
    PROVE  IndInv'
  <1>1. CASE \E v \in Views, o \in Operations, p \in Procs : authorize_read_write(v, o, p)
    BY <1>1, AuthorizePreserves
  <1>2. CASE \E v \in Views : ViewStep(v)
    <2>1. PICK v \in Views : ViewStep(v)
      BY <1>2
    <2>2. QED
      BY <2>1, SkipEffectPreserves, QueueEffectPreserves, LogErrorPreserves,
         LocalStepPreserves, WaitPreserves, CancelUnresolvedPreserves DEF ViewStep
  <1>3. CASE Command
    <2>1. CASE \E i \in Ids, b \in BOOLEAN : allow(i, b)
      BY <2>1, AllowPreserves
    <2>2. CASE \E i \in Ids : deny(i)
      BY <2>2, DenyPreserves
    <2>3. CASE \E c \in Controllers, i \in Ids : cancel(c, i)
      <3>1. PICK c \in Controllers, i \in Ids : cancel(c, i)
        BY <2>3
      <3>2. {i} \in SUBSET pending_read_write /\ cancel_scope(c, {i})
        BY <3>1 DEF cancel
      <3>3. QED
        BY <3>2, CancelScopePreserves
    <2>4. CASE \E c \in Controllers : cancel_all(c)
      BY <2>4, CancelScopePreserves DEF cancel_all
    <2>5. CASE \E c \in Controllers, v \in Views : cancel_attached_view(c, v)
      <3>1. PICK c \in Controllers, v \in Views : cancel_attached_view(c, v)
        BY <2>5
      <3>2. {i \in pending_read_write : request[i].view = v} \in SUBSET pending_read_write
        OBVIOUS
      <3>3. QED
        BY <3>1, <3>2, CancelScopePreserves DEF cancel_attached_view
    <2>6. CASE \E c \in Controllers, i \in Ids, pattern \in GrantPatterns,
                  duration \in Durations \cup {0}, tree \in Trees \cup {{}} :
                  allow_read_write_grant(c, i, pattern, duration, tree)
      BY <2>6, GrantPreserves
    <2>7. CASE \/ \E r \in ProtectRules : protect(r) \/ unprotect(r)
               \/ \E r \in BypassRules : bypass(r) \/ unbypass(r)
      BY <2>7, PolicyPreserves
    <2>8. QED
      BY <1>3, <2>1, <2>2, <2>3, <2>4, <2>5, <2>6, <2>7 DEF Command
  <1>4. CASE \E c \in Controllers, i \in Ids : notify_pending_waiter(c, i)
    BY <1>4, NotifyPreserves
  <1>5. CASE tick
    BY <1>5, PolicyPreserves
  <1>6. CASE UNCHANGED vars
    BY <1>6, StutterPreserves
  <1>7. QED
    BY <1>1, <1>2, <1>3, <1>4, <1>5, <1>6 DEF Next

-----------------------------------------------------------------------------
(* The theorems. *)

\* The invariant holds in every reachable state of the gate, the queue and the
\* commands.
THEOREM Invariance == Spec => []IndInv
  <1>1. Init => IndInv
    BY InitIndInv
  <1>2. IndInv /\ [Next]_vars => IndInv'
    BY NextPreserves
  <1>3. QED
    BY <1>1, <1>2, PTL DEF Spec

\* Type correctness of the registry, the waiters, the event loops and the
\* commands; with it, that ids never run past the operation counter.
THEOREM TypeCorrect == Spec => []TypeOK
  <1>1. IndInv => TypeOK
    BY DEF IndInv
  <1>2. QED
    BY <1>1, Invariance, PTL

\* No wakeup is lost: an undecided request that an event loop still waits for
\* is in the registry with its waiter or in the hands of exactly one command.
THEOREM NoWaiterIsLost == Spec => []NoLostWaiter
  <1>1. ASSUME IndInv PROVE NoLostWaiter
    <2> SUFFICES ASSUME NEW v \in Views, NEW i \in left[v], cell[i] = None
                 PROVE  \/ /\ i \in pending_read_write \cap pending_waiters
                           /\ \A c \in Controllers : i \notin held[c]
                        \/ /\ i \notin pending_read_write \cup pending_waiters
                           /\ \E c \in Controllers :
                                 i \in held[c] /\ \A d \in Controllers \ {c} : i \notin held[d]
      BY DEF NoLostWaiter
    <2>1. i \in mine[v]
      BY <1>1 DEF IndInv, ViewCoherent, ViewOK
    <2>2. i \in pending_read_write \/ \E c \in Controllers : i \in held[c]
      BY <1>1, <2>1 DEF IndInv, ViewCoherent, ViewOK
    <2>3. CASE i \in pending_read_write
      BY <1>1, <2>3 DEF IndInv, RegistryCoherent, HeldCoherent
    <2>4. CASE \E c \in Controllers : i \in held[c]
      BY <1>1, <2>4 DEF IndInv, RegistryCoherent, HeldCoherent
    <2>5. QED
      BY <2>2, <2>3, <2>4
  <1>2. QED
    BY <1>1, Invariance, PTL

\* An event loop proceeds to the host call only when each effect it queued was
\* approved by the operator, by itself or through the scope of a grant.
THEOREM OnlyApprovedProceeds == Spec => []ProceedOnlyApproved
  <1>1. ASSUME IndInv PROVE ProceedOnlyApproved
    <2> SUFFICES ASSUME NEW v \in Views, phase[v] = "proceed", NEW i \in mine[v]
                 PROVE  Approved(i)
      BY DEF ProceedOnlyApproved
    <2>1. cell[i] \in Released /\ i \in Ids
      BY <1>1 DEF IndInv, TypeOK, ViewCoherent, ViewOK
    <2>2. QED
      BY <1>1, <2>1 DEF IndInv, ReleasedApproved
  <1>2. QED
    BY <1>1, Invariance, PTL

\* A one-shot allow never leaves a standing grant in the registry.
THEOREM OneShotIsUsedUp == Spec => []OneShotNeverStored
  <1>1. IndInv => OneShotNeverStored
    BY DEF IndInv
  <1>2. QED
    BY <1>1, Invariance, PTL

-----------------------------------------------------------------------------
(* The registry, the waiters and the commands implement RequestLifecycle. *)

\* Where a step leaves the decision, the queue and the commands alone, it
\* leaves the status of every request alone.
LEMMA StatusStable ==
    ASSUME UNCHANGED <<cell, held, verdict, pending_read_write>>
    PROVE  \A i \in Ids : StatusOf(i)' = StatusOf(i)
  BY DEF StatusOf

\* The status of a queued request is "pending".
LEMMA PendingStatus ==
    ASSUME IndInv, NEW i \in pending_read_write
    PROVE  StatusOf(i) = "pending"
  BY DEF IndInv, RegistryCoherent, HeldCoherent, StatusOf

\* Ids the counter has not handed out are free.
LEMMA FreshStatus ==
    ASSUME IndInv, NEW i \in Ids, i >= next_operation_id
    PROVE  StatusOf(i) = "free"
  <1>1. ~(i < next_operation_id)
    BY DEF IndInv, TypeOK, Ids
  <1>2. QED
    BY <1>1 DEF IndInv, RegistryCoherent, HeldCoherent, DecidedWasIssued, StatusOf

\* queue_effect issues a request.
LEMMA QueueEffectIssues ==
    ASSUME IndInv, NEW v \in Views, queue_effect(v)
    PROVE  \E i \in Ids, S \in SUBSET Ids : Lifecycle!Issue(i, S)
  <1> DEFINE id == next_operation_id
  <1>1. /\ id \in Ids
        /\ pending_read_write' = pending_read_write \cup {id}
        /\ UNCHANGED <<held, verdict, cell>>
    BY DEF queue_effect, controllerVars
  <1>2. \A j \in Ids : j >= id => StatusOf(j) = "free"
    BY FreshStatus
  <1>3. cell[id] = None /\ \A c \in Controllers : id \notin held[c]
    BY <1>1 DEF IndInv, TypeOK, HeldCoherent, DecidedWasIssued, Ids
  <1>4. \A j \in Ids : StatusOf(j)' = IF j = id THEN "pending" ELSE StatusOf(j)
    BY <1>1, <1>3 DEF StatusOf
  <1>5. Lifecycle!Issue(id, {})
    BY <1>1, <1>2, <1>4 DEF Lifecycle!Issue, Lifecycle!Ids, Ids
  <1>6. QED
    BY <1>1, <1>5

\* allow, deny and the withdrawal of sibling effects decide queued requests.
LEMMA DecideDecides ==
    ASSUME IndInv, NEW S \in SUBSET pending_read_write, NEW d \in Decisions,
           pending_read_write' = pending_read_write \ S,
           cell' = [i \in Ids |-> IF i \in S THEN d ELSE cell[i]],
           UNCHANGED <<held, verdict>>
    PROVE  \E T \in SUBSET Ids, f \in Lifecycle!Final : Lifecycle!Decide(T, f)
  <1>1. S \subseteq Ids /\ d # None
    BY ConstantsAssumption DEF IndInv, TypeOK
  <1>2. \A j \in Ids : StatusOf(j)' = IF j \in S THEN d ELSE StatusOf(j)
    BY <1>1 DEF StatusOf
  <1>3. \A j \in S : StatusOf(j) = "pending"
    BY PendingStatus
  <1>4. Lifecycle!Decide(S, d)
    BY <1>1, <1>2, <1>3 DEF Lifecycle!Decide, Lifecycle!Ids, Ids
  <1>5. QED
    BY <1>1, <1>4 DEF Decisions, Lifecycle!Final

\* The cancel and grant commands take queued requests.
LEMMA TakeTakes ==
    ASSUME IndInv, NEW c \in Controllers, NEW S \in SUBSET pending_read_write,
           NEW d \in {"apply", "cancel"}, held[c] = {}, Remove(S), take(c, S, d),
           UNCHANGED cell
    PROVE  \E T \in SUBSET Ids, t \in Lifecycle!Taken : Lifecycle!Take(T, t)
  <1> DEFINE t == IF d = "apply" THEN "taken_apply" ELSE "taken_cancel"
  <1>1. /\ pending_read_write' = pending_read_write \ S
        /\ held'[c] = S
        /\ S # {} => verdict'[c] = d
        /\ \A e \in Controllers : e # c => held'[e] = held[e] /\ verdict'[e] = verdict[e]
    BY DEF Remove, take, IndInv, TypeOK
  <1>2. S \subseteq Ids /\ \A j \in S : cell[j] = None /\ \A e \in Controllers : j \notin held[e]
    BY DEF IndInv, TypeOK, RegistryCoherent, HeldCoherent
  <1>3. \A j \in Ids : StatusOf(j)' = IF j \in S THEN t ELSE StatusOf(j)
    <2> SUFFICES ASSUME NEW j \in Ids PROVE StatusOf(j)' = IF j \in S THEN t ELSE StatusOf(j)
      OBVIOUS
    <2>1. CASE j \in S
      <3>1. \A e \in Controllers : j \in held'[e] <=> e = c
        BY <1>1, <1>2, <2>1
      <3>2. verdict'[c] = d
        BY <1>1, <2>1
      <3>3. QED
        BY <1>2, <2>1, <3>1, <3>2 DEF StatusOf
    <2>2. CASE j \notin S
      BY <1>1, <2>2 DEF StatusOf
    <2>3. QED
      BY <2>1, <2>2
  <1>4. \A j \in S : StatusOf(j) = "pending"
    BY PendingStatus
  <1>5. Lifecycle!Take(S, t)
    BY <1>2, <1>3, <1>4 DEF Lifecycle!Take, Lifecycle!Ids, Ids
  <1>6. QED
    BY <1>2, <1>5 DEF Lifecycle!Taken

\* notify_pending_waiter tells the decision its command promised.
LEMMA NotifyTells ==
    ASSUME IndInv, NEW c \in Controllers, NEW i \in Ids, notify_pending_waiter(c, i)
    PROVE  Lifecycle!Tell(i)
  <1> DEFINE t == IF verdict[c] = "apply" THEN "taken_apply" ELSE "taken_cancel"
  <1>1. /\ i \in held[c]
        /\ cell' = [cell EXCEPT ![i] = verdict[c]]
        /\ held'[c] = held[c] \ {i}
        /\ held[c] \ {i} # {} => verdict'[c] = verdict[c]
        /\ \A e \in Controllers : e # c => held'[e] = held[e] /\ verdict'[e] = verdict[e]
        /\ UNCHANGED pending_read_write
    BY DEF notify_pending_waiter, take, registryVars, IndInv, TypeOK
  <1>2. /\ verdict[c] \in {"apply", "cancel"} /\ verdict[c] # None
        /\ cell[i] = None
        /\ \A e \in Controllers : i \in held[e] <=> e = c
    BY <1>1, ConstantsAssumption DEF IndInv, HeldCoherent, Decisions
  <1>3. StatusOf(i) = t
    BY <1>2 DEF StatusOf
  <1>4. \A j \in Ids : StatusOf(j)' = IF j = i THEN verdict[c] ELSE StatusOf(j)
    <2> SUFFICES ASSUME NEW j \in Ids
                 PROVE  StatusOf(j)' = IF j = i THEN verdict[c] ELSE StatusOf(j)
      OBVIOUS
    <2>1. CASE j = i
      BY <1>1, <1>2, <2>1 DEF StatusOf, IndInv, TypeOK
    <2>2. CASE j # i
      <3>1. cell'[j] = cell[j]
        BY <1>1, <2>2 DEF IndInv, TypeOK
      <3>2. \A e \in Controllers : /\ j \in held'[e] <=> j \in held[e]
                                   /\ j \in held[e] => verdict'[e] = verdict[e]
        BY <1>1, <2>2
      <3>3. QED
        BY <1>1, <2>2, <3>1, <3>2 DEF StatusOf
    <2>3. QED
      BY <2>1, <2>2
  <1>5. Lifecycle!Promised(t) = verdict[c] /\ t \in Lifecycle!Taken
    BY <1>2 DEF Lifecycle!Promised, Lifecycle!Taken
  <1>6. QED
    BY <1>3, <1>4, <1>5 DEF Lifecycle!Tell, Lifecycle!Ids, Ids

\* allow with grant options takes queued requests, or (in its log and its
\* grant only) nothing.
LEMMA GrantTakes ==
    ASSUME IndInv, NEW c \in Controllers, NEW i \in Ids, NEW pattern, NEW duration, NEW tree,
           allow_read_write_grant(c, i, pattern, duration, tree)
    PROVE  \E S \in SUBSET pending_read_write :
              held[c] = {} /\ Remove(S) /\ take(c, S, "apply") /\ UNCHANGED cell
  <1>1. i \in pending_read_write /\ held[c] = {} /\ UNCHANGED cell
    BY DEF allow_read_write_grant
  <1>2. \/ grantless_allow(c, i)
        \/ \E ident, g : broadcast_grant(c, i, ident, g)
    BY DEF allow_read_write_grant
  <1>3. CASE grantless_allow(c, i)
    BY <1>1, <1>3 DEF grantless_allow
  <1>4. CASE \E ident, g : broadcast_grant(c, i, ident, g)
    <2>1. PICK ident, g : broadcast_grant(c, i, ident, g)
      BY <1>4
    <2> DEFINE selected == [request[i] EXCEPT !.ident = ident]
               matching == all_matching(i, selected, g)
               released == IF g.once THEN Earliest(matching) ELSE matching
    <2>2. Remove(released) /\ take(c, released, "apply")
      BY <2>1 DEF broadcast_grant, grant_step
    <2>3. matching \subseteq pending_read_write
      BY <1>1 DEF all_matching, others_matching, matching_pending_read_write_ids_for_grant
    <2>4. released \subseteq matching
      BY DEF Earliest
    <2>5. QED
      BY <1>1, <2>2, <2>3, <2>4
  <1>5. QED
    BY <1>2, <1>3, <1>4

\* Every step of the gate and the commands is a step of the life cycle.
LEMMA StepSimulates ==
    ASSUME IndInv, [Next]_vars
    PROVE  [Lifecycle!Next]_([i \in Ids |-> StatusOf(i)])
  <1> DEFINE Stutters == \A i \in Ids : StatusOf(i)' = StatusOf(i)
             Decides == \E T \in SUBSET Ids, f \in Lifecycle!Final : Lifecycle!Decide(T, f)
             Takes == \E T \in SUBSET Ids, t \in Lifecycle!Taken : Lifecycle!Take(T, t)
             Tells == \E i \in Ids : Lifecycle!Tell(i)
             Issues == \E i \in Ids, S \in SUBSET Ids : Lifecycle!Issue(i, S)
  <1> SUFFICES Stutters \/ Decides \/ Takes \/ Tells \/ Issues
    <2>1. CASE Stutters
      BY <2>1
    <2>2. CASE Decides \/ Takes \/ Tells \/ Issues
      BY <2>2 DEF Lifecycle!Next, Lifecycle!Ids, Ids
    <2>3. QED
      BY <2>1, <2>2
  <1> HIDE DEF Stutters, Decides, Takes, Tells, Issues
  <1>1. CASE \E v \in Views, o \in Operations, p \in Procs : authorize_read_write(v, o, p)
    BY <1>1, StatusStable DEF authorize_read_write, controllerVars, Stutters
  <1>2. CASE \E v \in Views : ViewStep(v)
    <2>1. PICK v \in Views : ViewStep(v)
      BY <1>2
    <2>2. CASE skip_effect(v) \/ queue_effect_log_error(v)
      BY <2>2, StatusStable DEF skip_effect, queue_effect_log_error, controllerVars, Stutters
    <2>3. CASE drop_registry(v) \/ proceed(v) \/ reply(v) \/ \E i \in Ids : wait_for_decision(v, i)
      BY <2>3, StatusStable DEF drop_registry, proceed, reply, wait_for_decision,
                                registryVars, controllerVars, Stutters
    <2>4. CASE queue_effect(v)
      BY <2>4, QueueEffectIssues DEF Issues
    <2>5. CASE cancel_unresolved_read_write_effects(v)
      <3> DEFINE gone == mine[v] \cap pending_read_write
      <3>1. /\ gone \in SUBSET pending_read_write
            /\ pending_read_write' = pending_read_write \ gone
            /\ cell' = [i \in Ids |-> IF i \in gone THEN "cancel" ELSE cell[i]]
            /\ UNCHANGED <<held, verdict>>
        BY <2>5 DEF cancel_unresolved_read_write_effects, controllerVars
      <3>2. "cancel" \in Decisions
        BY DEF Decisions
      <3>3. QED
        BY <3>1, <3>2, DecideDecides DEF Decides
    <2>6. QED
      BY <2>1, <2>2, <2>3, <2>4, <2>5 DEF ViewStep
  <1>3. CASE Command
    <2>1. ASSUME NEW i \in Ids, NEW d \in Decisions, decide(i, d) PROVE Decides
      <3>1. /\ {i} \in SUBSET pending_read_write
            /\ pending_read_write' = pending_read_write \ {i}
            /\ cell' = [j \in Ids |-> IF j \in {i} THEN d ELSE cell[j]]
            /\ UNCHANGED <<held, verdict>>
        BY <2>1 DEF decide, Remove, controllerVars, IndInv, TypeOK
      <3>2. QED
        BY <3>1, DecideDecides DEF Decides
    <2>2. CASE \E i \in Ids, b \in BOOLEAN : allow(i, b)
      BY <2>1, <2>2 DEF allow, Decisions
    <2>3. CASE \E i \in Ids : deny(i)
      BY <2>1, <2>3 DEF deny, Decisions
    <2>4. ASSUME NEW c \in Controllers, NEW S \in SUBSET pending_read_write, cancel_scope(c, S)
          PROVE  Takes
      BY <2>4, TakeTakes DEF cancel_scope, Takes
    <2>5. CASE \E c \in Controllers, i \in Ids : cancel(c, i)
      <3>1. PICK c \in Controllers, i \in Ids : cancel(c, i)
        BY <2>5
      <3>2. {i} \in SUBSET pending_read_write /\ cancel_scope(c, {i})
        BY <3>1 DEF cancel
      <3>3. QED
        BY <2>4, <3>2
    <2>6. CASE \E c \in Controllers : cancel_all(c)
      BY <2>4, <2>6 DEF cancel_all
    <2>7. CASE \E c \in Controllers, v \in Views : cancel_attached_view(c, v)
      <3>1. PICK c \in Controllers, v \in Views : cancel_attached_view(c, v)
        BY <2>7
      <3>2. {i \in pending_read_write : request[i].view = v} \in SUBSET pending_read_write
        OBVIOUS
      <3>3. QED
        BY <2>4, <3>1, <3>2 DEF cancel_attached_view
    <2>8. CASE \E c \in Controllers, i \in Ids, pattern \in GrantPatterns,
                  duration \in Durations \cup {0}, tree \in Trees \cup {{}} :
                  allow_read_write_grant(c, i, pattern, duration, tree)
      <3>1. PICK c \in Controllers : \E S \in SUBSET pending_read_write :
               held[c] = {} /\ Remove(S) /\ take(c, S, "apply") /\ UNCHANGED cell
        BY <2>8, GrantTakes
      <3>2. QED
        BY <3>1, TakeTakes DEF Takes
    <2>9. CASE \/ \E r \in ProtectRules : protect(r) \/ unprotect(r)
               \/ \E r \in BypassRules : bypass(r) \/ unbypass(r)
      BY <2>9, StatusStable DEF protect, unprotect, bypass, unbypass, registryVars,
                                controllerVars, Stutters
    <2>10. QED
      BY <1>3, <2>2, <2>3, <2>5, <2>6, <2>7, <2>8, <2>9 DEF Command
  <1>4. CASE \E c \in Controllers, i \in Ids : notify_pending_waiter(c, i)
    BY <1>4, NotifyTells DEF Tells
  <1>5. CASE tick \/ UNCHANGED vars
    BY <1>5, StatusStable DEF tick, vars, registryVars, controllerVars, Stutters
  <1>6. QED
    BY <1>1, <1>2, <1>3, <1>4, <1>5 DEF Next

\* The gate, the queue and the commands implement the life cycle of a request:
\* each id is issued once and in order, decided at most once, and decided by
\* the command that took it the way that command said.
THEOREM ImplementsLifecycle == Spec => LifecycleSpec
  <1>1. Init => Lifecycle!Init
    BY DEF Init, Lifecycle!Init, Lifecycle!Ids, Ids, StatusOf
  <1>2. IndInv /\ [Next]_vars => [Lifecycle!Next]_([i \in Ids |-> StatusOf(i)])
    BY StepSimulates
  <1>3. QED
    BY <1>1, <1>2, Invariance, PTL DEF Spec, LifecycleSpec, Lifecycle!Spec
-----------------------------------------------------------------------------
(* The gate and the approvals: GateIndInv. *)

\* A step that queues, grants, allows and returns nothing.
QuietStep ==
    /\ UNCHANGED <<request, mine, op, caller, identity, approvals>>
    /\ read_write_grants' \subseteq read_write_grants
    /\ pending_read_write' \subseteq pending_read_write
    /\ next_operation_id' \in {next_operation_id, next_operation_id + 1}
    /\ now' \in {now, now + 1}
    /\ \A v \in Views : phase'[v] = "scan" => phase[v] = "scan"

\* allow with grant options, where no identity is available.
GrantlessStep(c, i) ==
    /\ Remove({i}) /\ take(c, {i}, "apply")
    /\ approvals' = approvals \cup {approval_of(i, request[i])}
    /\ UNCHANGED <<next_operation_id, read_write_grants, request>>

\* allow with grant options: grant g is made, request i becomes r, the requests in S
\* are released.
GrantedStep(c, i, g, r, S) ==
    /\ g.id = next_operation_id /\ next_operation_id \in Ids
    /\ r.caller = request[i].caller /\ r.kind = request[i].kind /\ r.path = request[i].path
    /\ r.ident \in g.who
    /\ request[i].ident # None => r.ident = request[i].ident
    /\ request' = [request EXCEPT ![i] = r]
    /\ Remove(S) /\ take(c, S, "apply")
    /\ \A j \in S : matches_request(g, request'[j])
    /\ g.once => \A j, k \in S : j = k
    /\ ~g.once => \A j \in pending_read_write \ S : ~matches_request(g, request'[j])
    /\ read_write_grants' = IF g.once THEN read_write_grants ELSE read_write_grants \cup {g}
    /\ next_operation_id' = next_operation_id + 1
    /\ approvals' = approvals \cup
          {[id |-> i, kind |-> g.kind, pattern |-> g.pattern, who |-> g.who,
            once |-> g.once, grant |-> g.id]}

\* The recorded identity of the requester is the one a grant is made for.
LEMMA GrantSubjectKeeps ==
    ASSUME NEW r \in Request, NEW tree, NEW lookup, r.ident # None
    PROVE  grant_subject(r, tree, lookup).ident = r.ident
  BY DEF grant_subject

\* What allow with grant options does.
LEMMA GrantStep ==
    ASSUME IndInv, NEW c \in Controllers, NEW i \in Ids, NEW pattern \in GrantPatterns,
           NEW duration \in Durations \cup {0}, NEW tree \in Trees \cup {{}},
           allow_read_write_grant(c, i, pattern, duration, tree)
    PROVE  /\ Unlocked /\ held[c] = {} /\ i \in pending_read_write /\ request[i] \in Request
           /\ UNCHANGED <<policyVars, viewVars, now, cell>>
           /\ \/ GrantlessStep(c, i)
              \/ \E g \in Grant, r \in Request, S \in SUBSET pending_read_write :
                    GrantedStep(c, i, g, r, S)
  <1>0. /\ Unlocked /\ held[c] = {} /\ i \in pending_read_write
        /\ request[i].path \in pattern /\ request[i] \in Request
        /\ next_operation_id \in Ids
        /\ UNCHANGED <<policyVars, viewVars, now, cell>>
    BY DEF allow_read_write_grant, IndInv, RegistryCoherent
  <1>1. PICK lookup \in identity_for_pid(PidOf[request[i].caller]) :
           LET s == grant_subject(request[i], tree, lookup)
           IN  IF s.who = {}
               THEN grantless_allow(c, i)
               ELSE broadcast_grant(c, i, s.ident,
                      [id |-> next_operation_id, kind |-> request[i].kind,
                       pattern |-> pattern, who |-> s.who, once |-> duration = 0,
                       expires |-> now + duration])
    BY DEF allow_read_write_grant
  <1>2. tree \in SUBSET Procs /\ pattern \in SUBSET Paths
    BY ConstantsAssumption
  <1>3. lookup \in Procs \cup {None}
    BY <1>1 DEF identity_for_pid
  <1>4. duration \in Nat /\ now \in Nat
    <2>1. now \in Nat
      BY DEF IndInv, TypeOK
    <2>2. Durations \subseteq Nat \ {0}
      BY ConstantsAssumption
    <2>3. QED
      BY <2>1, <2>2
  <1> DEFINE s == grant_subject(request[i], tree, lookup)
             g == [id |-> next_operation_id, kind |-> request[i].kind,
                   pattern |-> pattern, who |-> s.who, once |-> duration = 0,
                   expires |-> now + duration]
  <1>5. s.who \subseteq Procs /\ (s.who # {} => s.ident \in s.who)
    BY <1>0, <1>2, <1>3, GrantSubjectType
  <1>6. request[i].ident # None => s.ident = request[i].ident
    BY <1>0, GrantSubjectKeeps
  <1>7. CASE s.who = {}
    <2>1. grantless_allow(c, i)
      BY <1>1, <1>7
    <2>2. QED
      BY <1>0, <2>1 DEF grantless_allow, GrantlessStep
  <1>8. CASE s.who # {}
    <2> DEFINE selected == [request[i] EXCEPT !.ident = s.ident]
               matching == all_matching(i, selected, g)
               released == IF g.once THEN Earliest(matching) ELSE matching
    <2>1. broadcast_grant(c, i, s.ident, g)
      BY <1>1, <1>8
    <2>2. /\ request' = [request EXCEPT ![i] = selected]
          /\ Remove(released) /\ take(c, released, "apply")
          /\ read_write_grants' = IF ~g.once \/ matching = {}
                                  THEN read_write_grants \cup {g} ELSE read_write_grants
          /\ next_operation_id' = next_operation_id + 1
          /\ approvals' = approvals \cup
                {[id |-> i, kind |-> g.kind, pattern |-> g.pattern, who |-> g.who,
                  once |-> g.once, grant |-> g.id]}
      BY <2>1 DEF broadcast_grant, grant_step
    <2>3. /\ selected \in Request /\ selected.kind = request[i].kind
          /\ selected.path = request[i].path /\ selected.ident = s.ident
          /\ selected.caller = request[i].caller
      BY <1>0, <1>5, <1>8 DEF Request
    <2>4. /\ g \in Grant /\ g.id = next_operation_id /\ g.who = s.who
          /\ g.once \in BOOLEAN
      BY <1>0, <1>2, <1>4, <1>5 DEF Grant, Request
    <2>5. matches_request(g, selected)
      <3>1. ~is_expired(g)
        <4>1. g.once = (duration = 0) /\ g.expires = now + duration
          OBVIOUS
        <4>2. CASE duration = 0
          BY <4>1, <4>2 DEF is_expired
        <4>3. CASE duration # 0
          <5>1. ~(now >= now + duration)
            BY <1>4, <4>3
          <5>2. QED
            BY <4>1, <5>1 DEF is_expired
        <4>4. QED
          BY <4>2, <4>3
      <3>2. g.kind = selected.kind /\ selected.path \in g.pattern /\ selected.ident \in g.who
        BY <1>0, <1>5, <1>8, <2>3
      <3>3. QED
        BY <3>1, <3>2 DEF matches_request, matches_intent, matches_subject
    <2> HIDE DEF selected, g, s
    <2>6. /\ i \in matching /\ matching \subseteq pending_read_write
          /\ \A j \in pending_read_write : j # i => (j \in matching <=> matches_request(g, request[j]))
      BY <1>0, <2>5 DEF all_matching, others_matching, matching_pending_read_write_ids_for_grant
    <2>7. request'[i] = selected /\ \A j \in pending_read_write : j # i => request'[j] = request[j]
      BY <1>0, <2>2 DEF IndInv, TypeOK
    <2>8. \A j \in pending_read_write : j \in matching <=> matches_request(g, request'[j])
      BY <2>5, <2>6, <2>7
    <2>9. released \subseteq matching
      BY DEF Earliest
    <2>10. g.once => \A j, k \in released : j = k
      <3> SUFFICES ASSUME g.once, NEW j \in released, NEW k \in released PROVE j = k
        OBVIOUS
      <3>1. j <= k /\ k <= j
        BY DEF Earliest
      <3>2. j \in Nat /\ k \in Nat
        <4>1. j \in Ids /\ k \in Ids
          BY <2>6, <2>9 DEF IndInv, TypeOK
        <4>2. QED
          BY <4>1, ConstantsAssumption DEF Ids
      <3>3. QED
        BY <3>1, <3>2
    <2>11. ~g.once => \A j \in pending_read_write \ released : ~matches_request(g, request'[j])
      BY <2>8
    <2>12. read_write_grants' = IF g.once THEN read_write_grants ELSE read_write_grants \cup {g}
      BY <2>2, <2>6
    <2>13. selected.ident \in g.who /\ (request[i].ident # None => selected.ident = request[i].ident)
      BY <1>5, <1>6, <1>8, <2>3, <2>4
    <2> HIDE DEF matching, released
    <2>14. \A j \in released : matches_request(g, request'[j])
      BY <2>6, <2>8, <2>9
    <2>15. GrantedStep(c, i, g, selected, released)
      BY <1>0, <2>2, <2>3, <2>4, <2>10, <2>11, <2>12, <2>13, <2>14 DEF GrantedStep
    <2>16. released \in SUBSET pending_read_write
      BY <2>6, <2>9
    <2>17. QED
      BY <1>0, <2>3, <2>4, <2>15, <2>16
  <1>9. QED
    BY <1>7, <1>8

\* The steps, by what they do to requests, approvals and operations.
LEMMA StepKinds ==
    ASSUME IndInv, [Next]_vars
    PROVE  \/ QuietStep
           \/ \E v \in Views, o \in Operations, p \in Procs : authorize_read_write(v, o, p)
           \/ \E v \in Views : queue_effect(v) \/ reply(v)
           \/ \E i \in Ids, b \in BOOLEAN : allow(i, b)
           \/ \E c \in Controllers, i \in Ids, pattern \in GrantPatterns,
                 duration \in Durations \cup {0}, tree \in Trees \cup {{}} :
                 allow_read_write_grant(c, i, pattern, duration, tree)
  <1> USE DEF registryVars, policyVars, viewVars, controllerVars
  <1>0. phase \in [Views -> Phases]
    BY DEF IndInv, TypeOK
  <1>1. CASE UNCHANGED vars
    BY <1>1 DEF QuietStep, vars
  <1>2. ASSUME NEW v \in Views,
               skip_effect(v) \/ drop_registry(v) \/ proceed(v) \/ queue_effect_log_error(v)
                 \/ cancel_unresolved_read_write_effects(v) \/ \E i \in Ids : wait_for_decision(v, i)
        PROVE  QuietStep
    <2>1. /\ UNCHANGED <<request, mine, op, caller, identity, approvals, now>>
          /\ read_write_grants' \subseteq read_write_grants
          /\ pending_read_write' \subseteq pending_read_write
          /\ next_operation_id' \in {next_operation_id, next_operation_id + 1}
      BY <1>2 DEF skip_effect, drop_registry, proceed, queue_effect_log_error,
         cancel_unresolved_read_write_effects, wait_for_decision
    <2>2. phase' = phase \/ \E f \in {"wait", "proceed", "eio", "denied", "canceled", "denying", "canceling"} :
                               phase' = [phase EXCEPT ![v] = f]
      BY <1>2 DEF skip_effect, drop_registry, proceed, queue_effect_log_error,
         cancel_unresolved_read_write_effects, wait_for_decision
    <2>3. \A w \in Views : phase'[w] = "scan" => phase[w] = "scan"
      BY <1>0, <2>2
    <2>4. QED
      BY <2>1, <2>3 DEF QuietStep
  <1>3. ASSUME NEW c \in Controllers, NEW S, cancel_scope(c, S) PROVE QuietStep
    BY <1>3 DEF cancel_scope, Remove, take, QuietStep
  <1>4. ASSUME NEW i \in Ids, deny(i) PROVE QuietStep
    BY <1>4 DEF deny, decide, Remove, QuietStep
  <1>5. ASSUME NEW c \in Controllers, NEW i \in Ids, notify_pending_waiter(c, i) PROVE QuietStep
    BY <1>5 DEF notify_pending_waiter, take, QuietStep
  <1>6. ASSUME \/ \E r \in ProtectRules : protect(r) \/ unprotect(r)
               \/ \E r \in BypassRules : bypass(r) \/ unbypass(r)
               \/ tick
        PROVE  QuietStep
    BY <1>6 DEF protect, unprotect, bypass, unbypass, tick, QuietStep
  <1>7. CASE Command
    BY <1>3, <1>4, <1>6, <1>7 DEF Command, cancel, cancel_all, cancel_attached_view
  <1>8. CASE \E v \in Views : ViewStep(v)
    BY <1>2, <1>8 DEF ViewStep
  <1>9. QED
    BY <1>1, <1>5, <1>6, <1>7, <1>8 DEF Next

\* What enters and what leaves an operation.
LEMMA AuthorizeFacts ==
    ASSUME IndInv, NEW v \in Views, NEW o \in Operations, NEW p \in Procs,
           authorize_read_write(v, o, p)
    PROVE  /\ mine[v] = {} /\ Unlocked
           /\ UNCHANGED <<request, mine, approvals, pending_read_write, next_operation_id, now>>
           /\ read_write_grants' \subseteq read_write_grants
           /\ op' = [op EXCEPT ![v] = o] /\ caller' = [caller EXCEPT ![v] = p]
           /\ identity'[v] \in {p, None} /\ (~LookupFails => identity'[v] = p)
           /\ \A w \in Views : w # v => identity'[w] = identity[w]
           /\ todo' = [todo EXCEPT ![v] = effects(o)]
           /\ phase' = [phase EXCEPT ![v] = "scan"]
  BY DEF authorize_read_write, IndInv, TypeOK, ViewCoherent, ViewOK, policyVars, controllerVars

\* A reply touches the operation of its own view only.
LEMMA ReplyFacts ==
    ASSUME IndInv, NEW v \in Views, reply(v)
    PROVE  /\ UNCHANGED <<registryVars, policyVars, now, approvals, cell, held, verdict, todo>>
           /\ mine'[v] = {} /\ phase'[v] = "idle" /\ phase[v] \in Replies
           /\ \A w \in Views : w # v =>
                 /\ mine'[w] = mine[w] /\ phase'[w] = phase[w] /\ op'[w] = op[w]
                 /\ identity'[w] = identity[w] /\ caller'[w] = caller[w]
  BY DEF reply, IndInv, TypeOK, controllerVars

\* A queued effect gets a request under a fresh id.
LEMMA QueueFacts ==
    ASSUME IndInv, NEW v \in Views, queue_effect(v)
    PROVE  LET id == next_operation_id
               e == Head(todo[v])
           IN  /\ phase[v] = "scan" /\ todo[v] # <<>> /\ must_queue(v)
               /\ id \in Ids /\ id \in Nat
               /\ request'[id].caller = caller[v] /\ request'[id].ident = identity[v]
               /\ request'[id].kind = e.kind /\ request'[id].path = e.path
               /\ \A i \in Ids : i # id => request'[i] = request[i]
               /\ pending_read_write' = pending_read_write \cup {id}
               /\ mine'[v] = mine[v] \cup {id}
               /\ \A w \in Views : w # v => mine'[w] = mine[w] /\ todo'[w] = todo[w]
               /\ \A w \in Views : \A i \in mine[w] : i \in Ids /\ i # id
               /\ todo'[v] = Tail(todo[v])
               /\ next_operation_id' = id + 1
               /\ UNCHANGED <<read_write_grants, policyVars, phase, op, caller, identity,
                              controllerVars, now, cell, approvals>>
  <1> DEFINE id == next_operation_id
  <1>1. id \in Ids /\ id \in Nat /\ must_queue(v) /\ phase[v] = "scan" /\ todo[v] # <<>>
    BY DEF queue_effect, must_queue, IndInv, TypeOK
  <1>2. \A w \in Views : \A i \in mine[w] : i \in Ids /\ i # id
    <2>1. \A w \in Views : \A i \in mine[w] : i < id /\ i \in Ids
      BY DEF IndInv, ViewCoherent, ViewOK, TypeOK
    <2>2. QED
      BY <1>1, <2>1
  <1>3. request'[id] = [view |-> v, caller |-> caller[v], ident |-> identity[v],
                        kind |-> Head(todo[v]).kind, path |-> Head(todo[v]).path]
    BY <1>1 DEF queue_effect, IndInv, TypeOK
  <1>4. /\ request'[id].caller = caller[v] /\ request'[id].ident = identity[v]
        /\ request'[id].kind = Head(todo[v]).kind /\ request'[id].path = Head(todo[v]).path
    BY <1>3
  <1>5. /\ \A i \in Ids : i # id => request'[i] = request[i]
        /\ mine'[v] = mine[v] \cup {id} /\ todo'[v] = Tail(todo[v])
        /\ \A w \in Views : w # v => mine'[w] = mine[w] /\ todo'[w] = todo[w]
    BY <1>1 DEF queue_effect, IndInv, TypeOK
  <1>6. QED
    BY <1>1, <1>2, <1>4, <1>5 DEF queue_effect

\* allow releases one request and records the approval.
LEMMA AllowFacts ==
    ASSUME IndInv, NEW i \in Ids, NEW b \in BOOLEAN, allow(i, b)
    PROVE  /\ Unlocked /\ i \in pending_read_write
           /\ pending_read_write' = pending_read_write \ {i}
           /\ approvals' = approvals \cup {approval_of(i, request[i])}
           /\ cell'[i] \in Released /\ \A j \in Ids : j # i => cell'[j] = cell[j]
           /\ UNCHANGED <<next_operation_id, read_write_grants, request, policyVars, viewVars,
                          controllerVars, now>>
  BY DEF allow, decide, Remove, IndInv, TypeOK, Released

-----------------------------------------------------------------------------
\* A request keeps the identity its caller had at issue, if it had one.
LEMMA IdentityHolds ==
    ASSUME IndInv, IdentityKept, [Next]_vars
    PROVE  IdentityKept'
  <1>1. CASE QuietStep
    BY <1>1 DEF QuietStep, IdentityKept
  <1>2. ASSUME NEW v \in Views, NEW o \in Operations, NEW p \in Procs, authorize_read_write(v, o, p)
        PROVE  IdentityKept'
    BY <1>2, AuthorizeFacts DEF IdentityKept
  <1>3. ASSUME NEW v \in Views, reply(v) PROVE IdentityKept'
    BY <1>3, ReplyFacts DEF IdentityKept, registryVars
  <1>4. ASSUME NEW v \in Views, queue_effect(v) PROVE IdentityKept'
    <2> SUFFICES ASSUME NEW w \in Views, NEW i \in mine'[w]
                 PROVE  identity'[w] \in {None, request'[i].ident}
      BY DEF IdentityKept
    <2>1. CASE i = next_operation_id
      <3>1. w = v
        BY <1>4, <2>1, QueueFacts
      <3>2. request'[i].ident = identity[v] /\ identity' = identity
        BY <1>4, <2>1, QueueFacts
      <3>3. QED
        BY <3>1, <3>2
    <2>2. CASE i # next_operation_id
      <3>1. i \in mine[w] /\ identity' = identity
        BY <1>4, <2>2, QueueFacts
      <3>2. request'[i] = request[i]
        BY <1>4, <2>2, <3>1, QueueFacts
      <3>3. QED
        BY <3>1, <3>2 DEF IdentityKept
    <2>3. QED
      BY <2>1, <2>2
  <1>5. ASSUME NEW i \in Ids, NEW b \in BOOLEAN, allow(i, b) PROVE IdentityKept'
    BY <1>5, AllowFacts DEF IdentityKept, viewVars
  <1>6. ASSUME NEW c \in Controllers, NEW i \in Ids, NEW pattern \in GrantPatterns,
               NEW duration \in Durations \cup {0}, NEW tree \in Trees \cup {{}},
               allow_read_write_grant(c, i, pattern, duration, tree)
        PROVE  IdentityKept'
    <2>1. UNCHANGED <<mine, identity>>
      BY <1>6, GrantStep DEF viewVars
    <2>2. request' = request \/ \E r : /\ request' = [request EXCEPT ![i] = r]
                                       /\ request[i].ident # None => r.ident = request[i].ident
      <3>1. CASE GrantlessStep(c, i)
        BY <3>1 DEF GrantlessStep
      <3>2. ASSUME NEW g \in Grant, NEW r \in Request, NEW S \in SUBSET pending_read_write,
                   GrantedStep(c, i, g, r, S)
            PROVE  /\ request' = [request EXCEPT ![i] = r]
                   /\ request[i].ident # None => r.ident = request[i].ident
        BY <3>2 DEF GrantedStep
      <3>3. QED
        BY <1>6, <3>1, <3>2, GrantStep
    <2>3. \A j \in Ids : request[j].ident # None => request'[j].ident = request[j].ident
      BY <2>2 DEF IndInv, TypeOK
    <2>4. \A w \in Views : mine[w] \subseteq Ids
      BY DEF IndInv, TypeOK
    <2>5. QED
      BY <2>1, <2>3, <2>4 DEF IdentityKept
  <1>7. QED
    BY <1>1, <1>2, <1>3, <1>4, <1>5, <1>6, StepKinds

\* Where look-ups work, requests carry the identity of their caller.
LEMMA CallerHolds ==
    ASSUME IndInv, CallerKnown, ~LookupFails, [Next]_vars
    PROVE  CallerKnown'
  <1>0. /\ phase \in [Views -> Phases] /\ caller \in [Views -> Procs \cup {None}]
        /\ request \in [Ids -> Request \cup {None}] /\ pending_read_write \subseteq Ids
    BY DEF IndInv, TypeOK
  <1>1. CASE QuietStep
    BY <1>1 DEF QuietStep, CallerKnown
  <1>2. ASSUME NEW v \in Views, NEW o \in Operations, NEW p \in Procs, authorize_read_write(v, o, p)
        PROVE  CallerKnown'
    <2>1. /\ UNCHANGED <<request, pending_read_write>> /\ caller'[v] = p /\ identity'[v] = p
          /\ \A w \in Views : w # v => identity'[w] = identity[w] /\ phase'[w] = phase[w]
                                       /\ caller'[w] = caller[w]
      BY <1>0, <1>2, AuthorizeFacts
    <2>2. QED
      BY <2>1 DEF CallerKnown
  <1>3. ASSUME NEW v \in Views, reply(v) PROVE CallerKnown'
    BY <1>3, ReplyFacts DEF CallerKnown, registryVars
  <1>4. ASSUME NEW v \in Views, queue_effect(v) PROVE CallerKnown'
    <2>1. /\ UNCHANGED <<phase, identity, caller>> /\ phase[v] = "scan"
          /\ request'[next_operation_id].ident = identity[v]
          /\ request'[next_operation_id].caller = caller[v]
          /\ \A j \in Ids : j # next_operation_id => request'[j] = request[j]
          /\ pending_read_write' = pending_read_write \cup {next_operation_id}
      BY <1>4, QueueFacts
    <2>2. QED
      BY <1>0, <2>1 DEF CallerKnown
  <1>5. ASSUME NEW i \in Ids, NEW b \in BOOLEAN, allow(i, b) PROVE CallerKnown'
    BY <1>5, AllowFacts DEF CallerKnown, viewVars
  <1>6. ASSUME NEW c \in Controllers, NEW i \in Ids, NEW pattern \in GrantPatterns,
               NEW duration \in Durations \cup {0}, NEW tree \in Trees \cup {{}},
               allow_read_write_grant(c, i, pattern, duration, tree)
        PROVE  CallerKnown'
    <2>1. UNCHANGED <<phase, identity, caller>> /\ request[i] \in Request /\ i \in pending_read_write
      BY <1>6, GrantStep DEF viewVars
    <2>2. request[i].ident = request[i].caller /\ request[i].caller # None
      BY <2>1, ConstantsAssumption DEF CallerKnown, Request
    <2>3. request' = request \/ \E r : /\ request' = [request EXCEPT ![i] = r]
                                       /\ r.caller = request[i].caller /\ r.ident = request[i].ident
      <3>1. CASE GrantlessStep(c, i)
        BY <3>1 DEF GrantlessStep
      <3>2. ASSUME NEW g \in Grant, NEW r \in Request, NEW S \in SUBSET pending_read_write,
                   GrantedStep(c, i, g, r, S)
            PROVE  /\ request' = [request EXCEPT ![i] = r]
                   /\ r.caller = request[i].caller /\ r.ident = request[i].ident
        BY <2>2, <3>2 DEF GrantedStep
      <3>3. QED
        BY <1>6, <3>1, <3>2, GrantStep
    <2>0. pending_read_write' \subseteq pending_read_write
      <3>1. \E S : Remove(S)
        BY <1>6, GrantStep DEF GrantlessStep, GrantedStep
      <3>2. QED
        BY <3>1 DEF Remove
    <2>4. \A j \in Ids : /\ request'[j] = request[j]
                            \/ (j = i /\ request'[j].ident = request'[j].caller)
      BY <1>0, <2>2, <2>3
    <2>5. QED
      BY <1>0, <2>0, <2>1, <2>4 DEF CallerKnown
  <1>7. QED
    BY <1>1, <1>2, <1>3, <1>4, <1>5, <1>6, StepKinds

\* A grant that is made reaches the process that raised the request.
LEMMA ReachHolds ==
    ASSUME IndInv, ApprovalsOK, CallerKnown, GrantReachesRequester, ~LookupFails, [Next]_vars
    PROVE  GrantReachesRequester'
  <1>0. /\ request \in [Ids -> Request \cup {None}] /\ approvals \subseteq Approval
        /\ next_operation_id \in Nat
        /\ \A a \in approvals : a.id \in Ids /\ a.id < next_operation_id
    BY DEF IndInv, TypeOK, Approval, ApprovalsOK
  <1>1. CASE QuietStep
    BY <1>1 DEF QuietStep, GrantReachesRequester
  <1>2. ASSUME NEW v \in Views, NEW o \in Operations, NEW p \in Procs, authorize_read_write(v, o, p)
        PROVE  GrantReachesRequester'
    BY <1>2, AuthorizeFacts DEF GrantReachesRequester
  <1>3. ASSUME NEW v \in Views, reply(v) PROVE GrantReachesRequester'
    BY <1>3, ReplyFacts DEF GrantReachesRequester, registryVars
  <1>4. ASSUME NEW v \in Views, queue_effect(v) PROVE GrantReachesRequester'
    <2>1. UNCHANGED approvals /\ \A j \in Ids : j # next_operation_id => request'[j] = request[j]
      BY <1>4, QueueFacts
    <2>2. \A a \in approvals : request'[a.id] = request[a.id]
      BY <1>0, <2>1
    <2>3. QED
      BY <2>1, <2>2 DEF GrantReachesRequester
  <1>5. ASSUME NEW i \in Ids, NEW b \in BOOLEAN, allow(i, b) PROVE GrantReachesRequester'
    BY <1>5, AllowFacts DEF GrantReachesRequester, approval_of
  <1>6. ASSUME NEW c \in Controllers, NEW i \in Ids, NEW pattern \in GrantPatterns,
               NEW duration \in Durations \cup {0}, NEW tree \in Trees \cup {{}},
               allow_read_write_grant(c, i, pattern, duration, tree)
        PROVE  GrantReachesRequester'
    <2>1. request[i] \in Request /\ i \in pending_read_write
      BY <1>6, GrantStep
    <2>2. request[i].ident = request[i].caller /\ request[i].caller # None
      BY <2>1, ConstantsAssumption DEF CallerKnown, Request
    <2>3. CASE GrantlessStep(c, i)
      BY <2>3 DEF GrantlessStep, GrantReachesRequester, approval_of
    <2>4. ASSUME NEW g \in Grant, NEW r \in Request, NEW S \in SUBSET pending_read_write,
                 GrantedStep(c, i, g, r, S)
          PROVE  GrantReachesRequester'
      <3> DEFINE a == [id |-> i, kind |-> g.kind, pattern |-> g.pattern, who |-> g.who,
                       once |-> g.once, grant |-> g.id]
      <3>1. /\ request' = [request EXCEPT ![i] = r] /\ r.caller = request[i].caller
            /\ approvals' = approvals \cup {a} /\ r.ident = request[i].ident /\ r.ident \in g.who
        BY <2>2, <2>4 DEF GrantedStep
      <3>2. \A j \in Ids : request'[j].caller = request[j].caller
        BY <1>0, <3>1
      <3>3. a.id = i /\ request[i].caller \in a.who
        BY <2>2, <3>1
      <3> HIDE DEF a
      <3>4. QED
        BY <1>0, <3>1, <3>2, <3>3 DEF GrantReachesRequester
    <2>5. QED
      BY <1>6, <2>3, <2>4, GrantStep
  <1>7. QED
    BY <1>1, <1>2, <1>3, <1>4, <1>5, <1>6, StepKinds

\* An approval is of an issued request; one without a grant has settled it.
LEMMA ApprovalsHold ==
    ASSUME IndInv, IndInv', ApprovalsOK, [Next]_vars
    PROVE  ApprovalsOK'
  <1> DEFINE Good(a) == /\ a.id < next_operation_id /\ request[a.id] \in Request
                        /\ a.grant = None => a.once /\ a.id \notin pending_read_write
                        /\ a.grant # None => a.grant < next_operation_id
  <1>0. /\ request \in [Ids -> Request \cup {None}] /\ approvals \subseteq Approval
        /\ next_operation_id \in Nat /\ Ids \subseteq Nat
        /\ \A a \in approvals : a.id \in Ids /\ a.grant \in Ids \cup {None}
        /\ IsFiniteSet(approvals) /\ \A a \in approvals : Good(a)
    BY ConstantsAssumption DEF IndInv, TypeOK, Approval, ApprovalsOK, Ids
  <1>1. ASSUME NEW new, approvals' \subseteq approvals \cup {new}, \A a \in approvals' : Good(a)'
        PROVE  ApprovalsOK'
    <2>1. IsFiniteSet(approvals \cup {new})
      BY <1>0, FS_AddElement
    <2>2. IsFiniteSet(approvals')
      BY <1>1, <2>1, FS_Subset
    <2>3. QED
      BY <1>1, <2>2 DEF ApprovalsOK
  <1>2. ASSUME approvals' = approvals, request' = request, pending_read_write' \subseteq pending_read_write,
               next_operation_id' \in {next_operation_id, next_operation_id + 1}
        PROVE  ApprovalsOK'
    <2>1. \A n \in Nat : n < next_operation_id => n < next_operation_id'
      BY <1>0, <1>2
    <2>2. \A a \in approvals' : Good(a)'
      BY <1>0, <1>2, <2>1
    <2>3. QED
      BY <1>1, <1>2, <2>2
  <1>3. CASE QuietStep
    BY <1>2, <1>3 DEF QuietStep
  <1>4. ASSUME NEW v \in Views, NEW o \in Operations, NEW p \in Procs, authorize_read_write(v, o, p)
        PROVE  ApprovalsOK'
    BY <1>2, <1>4, AuthorizeFacts
  <1>5. ASSUME NEW v \in Views, reply(v) PROVE ApprovalsOK'
    BY <1>2, <1>5, ReplyFacts DEF registryVars
  <1>6. ASSUME NEW v \in Views, queue_effect(v) PROVE ApprovalsOK'
    <2>1. /\ approvals' = approvals /\ next_operation_id' = next_operation_id + 1
          /\ pending_read_write' = pending_read_write \cup {next_operation_id}
          /\ \A j \in Ids : j # next_operation_id => request'[j] = request[j]
      BY <1>6, QueueFacts
    <2>2. \A n \in Nat : n < next_operation_id => n < next_operation_id' /\ n # next_operation_id
      BY <1>0, <2>1
    <2>3. \A a \in approvals' : Good(a)'
      BY <1>0, <2>1, <2>2
    <2>4. QED
      BY <1>1, <2>1, <2>3
  <1>7. ASSUME NEW i \in Ids, i \in pending_read_write, approvals' = approvals \cup {approval_of(i, request[i])},
               pending_read_write' = pending_read_write \ {i}, UNCHANGED <<request, next_operation_id>>
        PROVE  ApprovalsOK'
    <2>0. PICK a : a = approval_of(i, request[i])
      OBVIOUS
    <2>1. a.id = i /\ a.grant = None /\ a.once
      BY <2>0 DEF approval_of
    <2>2. i < next_operation_id /\ request[i] \in Request
      BY <1>7 DEF IndInv, RegistryCoherent
    <2>3. Good(a)'
      BY <1>7, <2>1, <2>2
    <2>4. \A b \in approvals : Good(b)'
      BY <1>0, <1>7
    <2>5. approvals' = approvals \cup {a}
      BY <1>7, <2>0
    <2>6. QED
      BY <1>1, <2>3, <2>4, <2>5
  <1>8. ASSUME NEW i \in Ids, NEW b \in BOOLEAN, allow(i, b) PROVE ApprovalsOK'
    BY <1>7, <1>8, AllowFacts
  <1>9. ASSUME NEW c \in Controllers, NEW i \in Ids, NEW pattern \in GrantPatterns,
               NEW duration \in Durations \cup {0}, NEW tree \in Trees \cup {{}},
               allow_read_write_grant(c, i, pattern, duration, tree)
        PROVE  ApprovalsOK'
    <2>1. i \in pending_read_write
      BY <1>9, GrantStep
    <2>2. CASE GrantlessStep(c, i)
      BY <1>7, <2>1, <2>2 DEF GrantlessStep, Remove
    <2>3. ASSUME NEW g \in Grant, NEW r \in Request, NEW S \in SUBSET pending_read_write,
                 GrantedStep(c, i, g, r, S)
          PROVE  ApprovalsOK'
      <3> DEFINE a == [id |-> i, kind |-> g.kind, pattern |-> g.pattern, who |-> g.who,
                       once |-> g.once, grant |-> g.id]
      <3>1. /\ request' = [request EXCEPT ![i] = r] /\ approvals' = approvals \cup {a}
            /\ pending_read_write' \subseteq pending_read_write
            /\ next_operation_id' = next_operation_id + 1 /\ g.id = next_operation_id
        BY <2>3 DEF GrantedStep, Remove
      <3>2. a.id = i /\ a.grant = next_operation_id
        BY <3>1
      <3>3. i < next_operation_id /\ next_operation_id # None
        BY <2>1, <2>3, ConstantsAssumption DEF IndInv, RegistryCoherent, GrantedStep
      <3> HIDE DEF a
      <3>4. /\ next_operation_id < next_operation_id'
            /\ \A n \in Nat : n < next_operation_id => n < next_operation_id'
        BY <1>0, <3>1
      <3>5. \A j \in Ids : request[j] \in Request => request'[j] \in Request
        BY <1>0, <3>1
      <3>6. Good(a)'
        BY <1>0, <2>1, <3>1, <3>2, <3>3, <3>4
      <3>7. ASSUME NEW b \in approvals PROVE Good(b)'
        <4>1. b.id \in Ids /\ b.grant \in Ids \cup {None} /\ Good(b)
          BY <1>0
        <4>2. b.id < next_operation_id' /\ (b.grant # None => b.grant < next_operation_id')
          BY <1>0, <3>4, <4>1
        <4>3. QED
          BY <3>1, <3>5, <4>1, <4>2
      <3>8. QED
        BY <1>1, <3>1, <3>6, <3>7
    <2>4. QED
      BY <1>9, <2>2, <2>3, GrantStep
  <1>10. QED
    BY <1>3, <1>4, <1>5, <1>6, <1>8, <1>9, StepKinds

\* No grant in force matches a request that is queued under the identity of its caller.
LEMMA UnblockedHolds ==
    ASSUME IndInv, IdentityKept, NoneMatched, [Next]_vars
    PROVE  NoneMatched'
  <1>0. /\ request \in [Ids -> Request \cup {None}] /\ read_write_grants \subseteq Grant
        /\ now \in Nat /\ pending_read_write \subseteq Ids
        /\ \A g \in read_write_grants : ~g.once /\ g.expires \in Nat /\ g.who \subseteq Procs
    BY DEF IndInv, TypeOK, OneShotNeverStored, Grant
  <1>1. ASSUME NEW g \in read_write_grants, NEW r, now' \in {now, now + 1}, matches_request(g, r)'
        PROVE  matches_request(g, r)
    <2>1. ~(now' >= g.expires) => ~(now >= g.expires)
      BY <1>0, <1>1
    <2>2. QED
      BY <1>0, <1>1, <2>1 DEF matches_request, matches_intent, is_expired, matches_subject
  <1>2. ASSUME read_write_grants' \subseteq read_write_grants, pending_read_write' \subseteq pending_read_write,
               now' \in {now, now + 1}, request' = request,
               \A w \in Views : mine'[w] = {} \/ (mine'[w] = mine[w] /\ identity'[w] = identity[w])
        PROVE  NoneMatched'
    <2> SUFFICES ASSUME NEW i \in pending_read_write', NEW g \in read_write_grants', IdentifiedAtIssue(i)'
                 PROVE  ~matches_request(g, request[i])'
      BY DEF NoneMatched
    <2>1. IdentifiedAtIssue(i)
      BY <1>2 DEF IdentifiedAtIssue
    <2>2. PICK r : r = request[i]
      OBVIOUS
    <2>3. ~matches_request(g, r)
      BY <1>2, <2>1, <2>2 DEF NoneMatched
    <2>4. ~matches_request(g, r)'
      BY <1>1, <1>2, <2>3
    <2>5. QED
      BY <1>2, <2>2, <2>4
  <1>3. CASE QuietStep
    BY <1>2, <1>3 DEF QuietStep
  <1>4. ASSUME NEW v \in Views, NEW o \in Operations, NEW p \in Procs, authorize_read_write(v, o, p)
        PROVE  NoneMatched'
    BY <1>2, <1>4, AuthorizeFacts
  <1>5. ASSUME NEW v \in Views, reply(v) PROVE NoneMatched'
    BY <1>2, <1>5, ReplyFacts DEF registryVars
  <1>6. ASSUME NEW i \in Ids, NEW b \in BOOLEAN, allow(i, b) PROVE NoneMatched'
    BY <1>2, <1>6, AllowFacts DEF viewVars
  <1>7. ASSUME NEW v \in Views, queue_effect(v) PROVE NoneMatched'
    <2> DEFINE id == next_operation_id
               e == Head(todo[v])
    <2>1. /\ UNCHANGED <<read_write_grants, now, identity>> /\ must_queue(v)
          /\ request'[id].kind = e.kind /\ request'[id].path = e.path /\ request'[id].ident = identity[v]
          /\ \A i \in Ids : i # id => request'[i] = request[i]
          /\ pending_read_write' = pending_read_write \cup {id}
          /\ \A w \in Views : mine'[w] = mine[w] \/ mine'[w] = mine[w] \cup {id}
      BY <1>7, QueueFacts
    <2>2. \A g \in read_write_grants : ~matches_intent(g, e.kind, e.path, identity[v])
      BY <2>1 DEF must_queue, usable_grants
    <2> SUFFICES ASSUME NEW i \in pending_read_write', NEW g \in read_write_grants', IdentifiedAtIssue(i)'
                 PROVE  ~matches_request(g, request[i])'
      BY DEF NoneMatched
    <2>3. CASE i = id
      <3>1. PICK r : r = request'[id]
        OBVIOUS
      <3>2. ~matches_request(g, r)
        BY <2>1, <2>2, <3>1 DEF matches_request
      <3>3. ~matches_request(g, r)'
        BY <2>1, <3>2 DEF matches_request, matches_intent, is_expired, matches_subject
      <3>4. QED
        BY <2>3, <3>1, <3>3
    <2>4. CASE i # id
      <3>1. i \in pending_read_write /\ request'[i] = request[i]
        BY <1>0, <2>1, <2>4
      <3>2. IdentifiedAtIssue(i)
        BY <2>1, <2>4, <3>1 DEF IdentifiedAtIssue
      <3>3. PICK r : r = request[i]
        OBVIOUS
      <3>4. ~matches_request(g, r)
        BY <2>1, <3>1, <3>2, <3>3 DEF NoneMatched
      <3>5. ~matches_request(g, r)'
        BY <2>1, <3>4 DEF matches_request, matches_intent, is_expired, matches_subject
      <3>6. QED
        BY <3>1, <3>3, <3>5
    <2>5. QED
      BY <2>3, <2>4
  <1>8. ASSUME NEW c \in Controllers, NEW i \in Ids, NEW pattern \in GrantPatterns,
               NEW duration \in Durations \cup {0}, NEW tree \in Trees \cup {{}},
               allow_read_write_grant(c, i, pattern, duration, tree)
        PROVE  NoneMatched'
    <2>1. UNCHANGED <<mine, identity, now>>
      BY <1>8, GrantStep DEF viewVars
    <2>2. CASE GrantlessStep(c, i)
      BY <1>2, <2>1, <2>2 DEF GrantlessStep, Remove
    <2>3. ASSUME NEW g \in Grant, NEW r \in Request, NEW S \in SUBSET pending_read_write,
                 GrantedStep(c, i, g, r, S)
          PROVE  NoneMatched'
      <3> SUFFICES ASSUME NEW j \in pending_read_write', NEW h \in read_write_grants', IdentifiedAtIssue(j)'
                   PROVE  ~matches_request(h, request[j])'
        BY DEF NoneMatched
      <3>1. /\ request' = [request EXCEPT ![i] = r] /\ pending_read_write' = pending_read_write \ S
            /\ r.kind = request[i].kind /\ r.path = request[i].path /\ r.ident \in g.who
            /\ request[i].ident # None => r.ident = request[i].ident
            /\ ~g.once => \A k \in pending_read_write \ S : ~matches_request(g, request'[k])
            /\ read_write_grants' = IF g.once THEN read_write_grants ELSE read_write_grants \cup {g}
        BY <2>3 DEF GrantedStep, Remove
      <3>2. j \in pending_read_write \ S /\ j \in Ids
        BY <1>0, <3>1
      <3>3. PICK q : q = request'[j]
        OBVIOUS
      <3>4. CASE h \notin read_write_grants
        <4>1. h = g /\ ~matches_request(g, q)
          BY <3>1, <3>2, <3>3, <3>4
        <4>2. QED
          BY <2>1, <3>3, <4>1 DEF matches_request, matches_intent, is_expired, matches_subject
      <3>5. CASE h \in read_write_grants /\ j # i
        <4>1. q = request[j]
          BY <1>0, <3>1, <3>2, <3>3, <3>5
        <4>2. IdentifiedAtIssue(j)
          BY <2>1, <3>3, <4>1 DEF IdentifiedAtIssue
        <4>3. ~matches_request(h, q)
          BY <3>2, <3>5, <4>1, <4>2 DEF NoneMatched
        <4>4. QED
          BY <2>1, <3>3, <4>3 DEF matches_request, matches_intent, is_expired, matches_subject
      <3>6. CASE h \in read_write_grants /\ j = i
        <4>1. q = r
          BY <1>0, <3>1, <3>3, <3>6
        <4>2. PICK v \in Views : i \in mine[v] /\ r.ident = identity[v]
          BY <2>1, <3>3, <3>6, <4>1 DEF IdentifiedAtIssue
        <4>3. r.ident # None
          BY <3>1, ConstantsAssumption DEF Grant
        <4>4. r.ident = request[i].ident
          BY <4>2, <4>3 DEF IdentityKept
        <4>5. IdentifiedAtIssue(i)
          BY <4>2, <4>4 DEF IdentifiedAtIssue
        <4>6. ~matches_request(h, request[i])
          BY <3>2, <3>6, <4>5 DEF NoneMatched
        <4>7. ~matches_request(h, r)
          BY <3>1, <4>4, <4>6 DEF matches_request
        <4>8. QED
          BY <2>1, <3>3, <4>1, <4>7 DEF matches_request, matches_intent, is_expired, matches_subject
      <3>7. QED
        BY <3>4, <3>5, <3>6
    <2>4. QED
      BY <1>8, <2>2, <2>3, GrantStep
  <1>9. QED
    BY <1>3, <1>4, <1>5, <1>6, <1>7, <1>8, StepKinds

\* What an event loop has queued is withdrawn or decided before it stops authorizing.
LEMMA PendingHolds ==
    ASSUME IndInv, PendingHasRequester, ~LogFails, [Next]_vars
    PROVE  PendingHasRequester'
  <1> DEFINE Active == {"scan", "wait", "denying", "canceling"}
  <1>0. phase \in [Views -> Phases] /\ pending_read_write \subseteq Ids
    BY DEF IndInv, TypeOK
  <1>1. ASSUME pending_read_write' \subseteq pending_read_write,
               \A w \in Views : \A i \in mine[w] :
                  phase[w] \in Active /\ i \in pending_read_write' => i \in mine'[w] /\ phase'[w] \in Active
        PROVE  PendingHasRequester'
    BY <1>1 DEF PendingHasRequester
  <1>2. ASSUME pending_read_write' \subseteq pending_read_write, UNCHANGED <<mine, phase>>
        PROVE  PendingHasRequester'
    BY <1>2 DEF PendingHasRequester
  <1> HIDE DEF Active
  <1>3. ASSUME NEW v \in Views, NEW o \in Operations, NEW p \in Procs, authorize_read_write(v, o, p)
        PROVE  PendingHasRequester'
    BY <1>0, <1>1, <1>3, AuthorizeFacts DEF Active
  <1>4. ASSUME NEW v \in Views, queue_effect(v) PROVE PendingHasRequester'
    <2>1. /\ phase[v] = "scan" /\ pending_read_write' = pending_read_write \cup {next_operation_id}
          /\ phase' = phase /\ mine'[v] = mine[v] \cup {next_operation_id}
          /\ \A w \in Views : w # v => mine'[w] = mine[w]
      BY <1>4, QueueFacts
    <2>2. QED
      BY <2>1 DEF PendingHasRequester
  <1>5. ASSUME NEW v \in Views, reply(v) PROVE PendingHasRequester'
    <2>1. /\ pending_read_write' = pending_read_write /\ phase[v] \notin Active
          /\ \A w \in Views : w # v => mine'[w] = mine[w] /\ phase'[w] = phase[w]
      BY <1>5, ReplyFacts DEF registryVars, Replies, Active
    <2>2. QED
      BY <1>1, <2>1
  <1>6. ASSUME NEW v \in Views, proceed(v) PROVE PendingHasRequester'
    <2>1. /\ phase' = [phase EXCEPT ![v] = "proceed"] /\ phase[v] = "wait" /\ left[v] = {}
          /\ UNCHANGED <<pending_read_write, mine>>
      BY <1>6 DEF proceed, registryVars
    <2>2. \A i \in mine[v] : cell[i] \in Released
      BY <2>1 DEF IndInv, ViewCoherent, ViewOK
    <2>3. \A i \in mine[v] : i \notin pending_read_write
      BY <2>2, ConstantsAssumption DEF IndInv, RegistryCoherent, Released, Decisions
    <2>4. \A w \in Views : w # v => phase'[w] = phase[w]
      BY <1>0, <2>1
    <2>5. QED
      BY <1>1, <2>1, <2>3, <2>4
  <1>7. ASSUME NEW v \in Views, cancel_unresolved_read_write_effects(v) PROVE PendingHasRequester'
    <2>1. /\ pending_read_write' = pending_read_write \ (mine[v] \cap pending_read_write)
          /\ mine' = mine /\ \A w \in Views : w # v => phase'[w] = phase[w]
      BY <1>0, <1>7 DEF cancel_unresolved_read_write_effects
    <2>2. QED
      BY <1>1, <2>1
  <1>8. ASSUME NEW v \in Views, drop_registry(v) \/ \E i \in Ids : wait_for_decision(v, i)
        PROVE  PendingHasRequester'
    <2>1. /\ UNCHANGED <<pending_read_write, mine>>
          /\ phase' = phase \/ \E f \in Active : phase' = [phase EXCEPT ![v] = f]
      BY <1>8 DEF drop_registry, wait_for_decision, registryVars, Active
    <2>2. \A w \in Views : phase[w] \in Active => phase'[w] \in Active
      BY <1>0, <2>1
    <2>3. QED
      BY <1>1, <2>1, <2>2
  <1>9. ASSUME NEW v \in Views, ViewStep(v) PROVE PendingHasRequester'
    <2>1. CASE skip_effect(v)
      BY <1>2, <2>1 DEF skip_effect
    <2>2. ~queue_effect_log_error(v)
      BY DEF queue_effect_log_error
    <2>3. QED
      BY <1>4, <1>5, <1>6, <1>7, <1>8, <1>9, <2>1, <2>2 DEF ViewStep
  <1>10. CASE Command
    <2>1. UNCHANGED <<mine, phase>> /\ pending_read_write' \subseteq pending_read_write
      <3>1. ASSUME NEW c \in Controllers, NEW i \in Ids, NEW pattern \in GrantPatterns,
                   NEW duration \in Durations \cup {0}, NEW tree \in Trees \cup {{}},
                   allow_read_write_grant(c, i, pattern, duration, tree)
            PROVE  UNCHANGED <<mine, phase>> /\ pending_read_write' \subseteq pending_read_write
        <4>1. /\ UNCHANGED viewVars
              /\ \/ GrantlessStep(c, i)
                 \/ \E g \in Grant, r \in Request, S \in SUBSET pending_read_write :
                       GrantedStep(c, i, g, r, S)
          BY <3>1, GrantStep
        <4>2. \E S : Remove(S)
          BY <4>1 DEF GrantlessStep, GrantedStep
        <4>3. QED
          BY <4>1, <4>2 DEF viewVars, Remove
      <3>2. QED
        BY <1>10, <3>1 DEF Command, allow, deny, decide, cancel, cancel_all, cancel_attached_view,
           cancel_scope, Remove, protect, unprotect, bypass, unbypass, registryVars, viewVars
    <2>2. QED
      BY <1>2, <2>1
  <1>11. CASE \E c \in Controllers, i \in Ids : notify_pending_waiter(c, i)
    BY <1>2, <1>11 DEF notify_pending_waiter, registryVars, viewVars
  <1>12. CASE tick \/ UNCHANGED vars
    BY <1>2, <1>12 DEF tick, vars, registryVars, viewVars
  <1>13. QED
    BY <1>3, <1>9, <1>10, <1>11, <1>12 DEF Next

-----------------------------------------------------------------------------
\* While the lock is held an effect that has been dealt with stays dealt with.
LEMMA GatedStays ==
    ASSUME NEW w \in Views, NEW e, Gated(w, e), op'[w] = op[w], identity'[w] = identity[w],
           read_write_grants' = read_write_grants, UNCHANGED <<policyVars, now>>,
           \A i \in mine[w] : i \in mine'[w] /\ request'[i] = request[i]
    PROVE  Gated(w, e)'
  <1>1. CASE ~needs_authorization(op[w], e)
    BY <1>1 DEF Gated, needs_authorization, xattr_operation, is_bypass, is_protected, policyVars
  <1>2. CASE usable_grants(e.kind, e.path, identity[w]) # {}
    <2>1. usable_grants(e.kind, e.path, identity[w])' = usable_grants(e.kind, e.path, identity[w])
      BY DEF usable_grants, matches_intent, is_expired, matches_subject
    <2>2. QED
      BY <1>2, <2>1 DEF Gated
  <1>3. CASE \E i \in mine[w] : request[i].kind = e.kind /\ request[i].path = e.path
    BY <1>3 DEF Gated
  <1>4. QED
    BY <1>1, <1>2, <1>3 DEF Gated

\* Dealing with the first effect on the list.
LEMMA ScanAdvances ==
    ASSUME IndInv, NEW v \in Views, ScanOf(v), todo[v] # <<>>, op'[v] = op[v],
           todo'[v] = Tail(todo[v]), NEW h, h = Head(todo[v]), Gated(v, h)',
           \A e : Gated(v, e) => Gated(v, e)'
    PROVE  ScanOf(v)'
  <1>0. todo[v] \in Seq(Effect)
    BY DEF IndInv, TypeOK
  <1> SUFFICES ASSUME NEW n \in DOMAIN effects(op[v])
               PROVE  \/ Gated(v, effects(op[v])[n])'
                      \/ \E m \in DOMAIN todo'[v] : todo'[v][m] = effects(op[v])[n]
    BY DEF ScanOf
  <1>1. PICK e : e = effects(op[v])[n]
    OBVIOUS
  <1>2. e = effects(op'[v])[n]
    BY <1>1
  <1>3. CASE Gated(v, e)
    BY <1>2, <1>3
  <1>4. ASSUME NEW m \in DOMAIN todo[v], todo[v][m] = e
        PROVE  Gated(v, e)' \/ \E k \in DOMAIN todo'[v] : todo'[v][k] = e
    <2>1. m \in 1..Len(todo[v]) /\ Len(todo[v]) \in Nat
      BY <1>0, <1>4
    <2>2. /\ Tail(todo[v]) \in Seq(Effect) /\ Len(Tail(todo[v])) = Len(todo[v]) - 1
          /\ \A i \in 1..Len(Tail(todo[v])) : Tail(todo[v])[i] = todo[v][i + 1]
      BY <1>0, HeadTailProperties
    <2>3. CASE m = 1
      <3>1. e = h
        BY <1>0, <1>4, <2>3
      <3>2. QED
        BY <3>1
    <2>4. CASE m # 1
      <3>0. PICK k, l \in Nat : k = Len(todo[v]) /\ l = Len(Tail(todo[v])) /\ l = k - 1
        BY <2>1, <2>2
      <3>1. m - 1 \in 1..Len(Tail(todo[v])) /\ (m - 1) + 1 = m
        BY <2>1, <2>4, <3>0
      <3>2. Tail(todo[v])[m - 1] = e
        BY <1>4, <2>2, <3>1
      <3>3. m - 1 \in DOMAIN todo'[v]
        BY <2>2, <3>1
      <3>4. QED
        BY <3>2, <3>3
    <2>5. QED
      BY <2>3, <2>4
  <1>5. QED
    BY <1>1, <1>2, <1>3, <1>4 DEF ScanOf

\* Inside the critical section an effect has been dealt with or is still to be.
LEMMA ScanHolds ==
    ASSUME IndInv, ScanOK, [Next]_vars
    PROVE  ScanOK'
  <1>0. /\ phase \in [Views -> Phases] /\ todo \in [Views -> Seq(Effect)]
        /\ op \in [Views -> Operations \cup {None}]
        /\ \A w \in Views : mine[w] \subseteq Ids
    BY DEF IndInv, TypeOK
  <1>1. ASSUME UNCHANGED <<policyVars, now, request, read_write_grants>>,
               \A w \in Views : phase'[w] = "scan" =>
                  /\ phase[w] = "scan" /\ op'[w] = op[w] /\ identity'[w] = identity[w]
                  /\ todo'[w] = todo[w] /\ mine'[w] = mine[w]
        PROVE  ScanOK'
    <2> SUFFICES ASSUME NEW w \in Views, phase'[w] = "scan" PROVE ScanOf(w)'
      BY DEF ScanOK
    <2>1. /\ ScanOf(w) /\ op'[w] = op[w] /\ identity'[w] = identity[w]
          /\ todo'[w] = todo[w] /\ mine'[w] = mine[w]
      BY <1>1 DEF ScanOK
    <2>2. ASSUME NEW e, Gated(w, e) PROVE Gated(w, e)'
      BY <1>1, <2>1, <2>2, GatedStays
    <2> SUFFICES ASSUME NEW n \in DOMAIN effects(op[w])
                 PROVE  \/ Gated(w, effects(op[w])[n])'
                        \/ \E m \in DOMAIN todo'[w] : todo'[w][m] = effects(op[w])[n]
      BY <2>1 DEF ScanOf
    <2>3. PICK e : e = effects(op[w])[n]
      OBVIOUS
    <2>4. e = effects(op'[w])[n]
      BY <2>1, <2>3
    <2>5. QED
      BY <2>1, <2>2, <2>3, <2>4 DEF ScanOf
  <1>2. ASSUME Unlocked, UNCHANGED phase PROVE ScanOK'
    BY <1>2 DEF Unlocked, ScanOK
  <1>3. ASSUME NEW v \in Views, NEW o \in Operations, NEW p \in Procs, authorize_read_write(v, o, p)
        PROVE  ScanOK'
    <2> SUFFICES ASSUME NEW w \in Views, phase'[w] = "scan" PROVE ScanOf(w)'
      BY DEF ScanOK
    <2>1. Unlocked /\ op'[v] = o /\ todo'[v] = effects(o) /\ phase' = [phase EXCEPT ![v] = "scan"]
      BY <1>0, <1>3, AuthorizeFacts
    <2>2. w = v
      BY <1>0, <2>1 DEF Unlocked
    <2>3. effects(op'[v]) = todo'[v]
      BY <2>1
    <2>4. QED
      BY <2>2, <2>3 DEF ScanOf
  <1>4. ASSUME NEW v \in Views, skip_effect(v) PROVE ScanOK'
    <2>0. /\ phase[v] = "scan" /\ todo[v] # <<>> /\ todo'[v] = Tail(todo[v])
          /\ UNCHANGED <<request, phase, op, identity, mine, policyVars, now>>
      BY <1>0, <1>4 DEF skip_effect
    <2>1. PICK h : h = Head(todo[v])
      OBVIOUS
    <2>2. read_write_grants' = read_write_grants
      BY <1>4 DEF skip_effect, IndInv, OneShotNeverStored
    <2>3. Gated(v, h)
      BY <1>4, <2>1 DEF skip_effect, Gated
    <2>4. ASSUME NEW e, Gated(v, e) PROVE Gated(v, e)'
      BY <2>0, <2>2, <2>4, GatedStays
    <2>5. ScanOf(v)
      BY <2>0 DEF ScanOK
    <2>6. ScanOf(v)'
      BY <2>0, <2>1, <2>3, <2>4, <2>5, ScanAdvances
    <2>7. \A w \in Views : phase'[w] = "scan" => w = v
      BY <2>0 DEF IndInv, OneScanner
    <2>8. QED
      BY <2>6, <2>7 DEF ScanOK
  <1>5. ASSUME NEW v \in Views, queue_effect(v) PROVE ScanOK'
    <2> DEFINE id == next_operation_id
    <2>0. /\ phase[v] = "scan" /\ todo[v] # <<>> /\ todo'[v] = Tail(todo[v]) /\ id \in Ids
          /\ request'[id].kind = Head(todo[v]).kind /\ request'[id].path = Head(todo[v]).path
          /\ \A i \in Ids : i # id => request'[i] = request[i]
          /\ mine'[v] = mine[v] \cup {id} /\ \A i \in mine[v] : i \in Ids /\ i # id
          /\ UNCHANGED <<read_write_grants, phase, op, identity, policyVars, now>>
      BY <1>5, QueueFacts
    <2>1. PICK h : h = Head(todo[v])
      OBVIOUS
    <2>2. Gated(v, h)'
      BY <2>0, <2>1 DEF Gated
    <2>3. \A i \in mine[v] : i \in mine'[v] /\ request'[i] = request[i]
      BY <2>0
    <2>4. ASSUME NEW e, Gated(v, e) PROVE Gated(v, e)'
      BY <2>0, <2>3, <2>4, GatedStays
    <2>5. ScanOf(v)
      BY <2>0 DEF ScanOK
    <2>6. ScanOf(v)'
      BY <2>0, <2>1, <2>2, <2>4, <2>5, ScanAdvances
    <2>7. \A w \in Views : phase'[w] = "scan" => w = v
      BY <2>0 DEF IndInv, OneScanner
    <2>8. QED
      BY <2>6, <2>7 DEF ScanOK
  <1>6. ASSUME NEW v \in Views, queue_effect_log_error(v) PROVE ScanOK'
    <2>1. phase[v] = "scan" /\ phase' = [phase EXCEPT ![v] = "eio"]
      BY <1>6 DEF queue_effect_log_error, must_queue
    <2>2. \A w \in Views : phase'[w] # "scan"
      BY <1>0, <2>1 DEF IndInv, OneScanner
    <2>3. QED
      BY <2>2 DEF ScanOK
  <1>7. ASSUME NEW v \in Views, cancel_unresolved_read_write_effects(v) PROVE ScanOK'
    <2>1. Unlocked /\ phase' = [phase EXCEPT ![v] = IF phase[v] = "denying" THEN "denied" ELSE "canceled"]
      BY <1>7 DEF cancel_unresolved_read_write_effects
    <2>2. \A w \in Views : phase'[w] # "scan"
      BY <1>0, <2>1 DEF Unlocked
    <2>3. QED
      BY <2>2 DEF ScanOK
  <1>8. ASSUME NEW v \in Views,
               drop_registry(v) \/ proceed(v) \/ \E i \in Ids : wait_for_decision(v, i)
        PROVE  ScanOK'
    <2>1. /\ UNCHANGED <<policyVars, now, request, read_write_grants, op, identity, todo, mine>>
          /\ phase' = phase \/ \E f \in {"wait", "proceed", "denying", "canceling"} :
                                  phase' = [phase EXCEPT ![v] = f]
      BY <1>8 DEF drop_registry, proceed, wait_for_decision, registryVars
    <2>2. \A w \in Views : phase'[w] = "scan" => phase[w] = "scan"
      BY <1>0, <2>1
    <2>3. QED
      BY <1>1, <2>1, <2>2
  <1>9. ASSUME NEW v \in Views, reply(v) PROVE ScanOK'
    <2>1. /\ UNCHANGED <<policyVars, now, request, read_write_grants, todo>> /\ phase'[v] # "scan"
          /\ \A w \in Views : w # v =>
                /\ mine'[w] = mine[w] /\ phase'[w] = phase[w] /\ op'[w] = op[w]
                /\ identity'[w] = identity[w]
      BY <1>9, ReplyFacts DEF registryVars
    <2>2. QED
      BY <1>1, <2>1
  <1>10. CASE \E v \in Views : ViewStep(v)
    BY <1>4, <1>5, <1>6, <1>7, <1>8, <1>9, <1>10 DEF ViewStep
  <1>11. CASE Command
    <2>1. Unlocked /\ UNCHANGED phase
      BY <1>11, ZenonT(60) DEF Command, allow, deny, decide, cancel, cancel_all, cancel_attached_view,
         cancel_scope, protect, unprotect, bypass, unbypass, allow_read_write_grant, viewVars
    <2>2. QED
      BY <1>2, <2>1
  <1>12. CASE \E c \in Controllers, i \in Ids : notify_pending_waiter(c, i)
    BY <1>1, <1>12 DEF notify_pending_waiter, registryVars, viewVars
  <1>13. CASE tick
    BY <1>2, <1>13 DEF tick, viewVars
  <1>14. CASE UNCHANGED vars
    BY <1>1, <1>14 DEF vars, registryVars, viewVars
  <1>15. QED
    BY <1>3, <1>10, <1>11, <1>12, <1>13, <1>14 DEF Next

-----------------------------------------------------------------------------
(* Released requests against approvals. *)

ReleasedIds ==
    {i \in Ids : \/ cell[i] \in Released
                 \/ \E c \in Controllers : i \in held[c] /\ verdict[c] = "apply"}
Standing == {a \in approvals : ~a.once}
Covered(i) ==
    \E a \in Standing : a.id = i \/ ( /\ a.kind = request[i].kind
                                     /\ request[i].path \in a.pattern
                                     /\ request[i].ident \in a.who)
Uncovered == {i \in ReleasedIds : ~Covered(i)}
OneShots == approvals \ Standing

\* OneApprovalOneRelease compares the two sets.
LEMMA ReleaseCount == OneApprovalOneRelease <=> Cardinality(Uncovered) <= Cardinality(OneShots)
  BY DEF OneApprovalOneRelease, Uncovered, ReleasedIds, Covered, Standing, OneShots

\* They are finite, and a released request is not queued.
LEMMA ReleaseFacts ==
    ASSUME IndInv, ApprovalsOK
    PROVE  /\ IsFiniteSet(Uncovered) /\ Cardinality(Uncovered) \in Nat
           /\ IsFiniteSet(OneShots) /\ Cardinality(OneShots) \in Nat
           /\ ReleasedIds \cap pending_read_write = {}
           /\ \A i \in ReleasedIds : i \in Ids
  <1>1. Uncovered \in SUBSET (1..MaxId) /\ OneShots \in SUBSET approvals
    BY DEF Uncovered, ReleasedIds, OneShots, Ids
  <1>2. IsFiniteSet(1..MaxId) /\ IsFiniteSet(approvals)
    BY FS_Interval, ConstantsAssumption DEF ApprovalsOK
  <1>3. IsFiniteSet(Uncovered)
    BY <1>1, <1>2, FS_Subset
  <1>4. IsFiniteSet(OneShots)
    BY <1>1, <1>2, FS_Subset
  <1>5. Cardinality(Uncovered) \in Nat /\ Cardinality(OneShots) \in Nat
    BY <1>3, <1>4, FS_CardinalityType
  <1>6. \A i \in ReleasedIds : i \notin pending_read_write
    BY ConstantsAssumption DEF ReleasedIds, IndInv, RegistryCoherent, HeldCoherent, Released, Decisions
  <1>7. QED
    BY <1>3, <1>4, <1>5, <1>6 DEF ReleasedIds

\* Nothing more is released, or only what a new standing approval covers.
LEMMA NoNewUncovered ==
    ASSUME IndInv, ApprovalsOK, OneApprovalOneRelease,
           \A i \in ReleasedIds' : i \in ReleasedIds \/ Covered(i)',
           \A i \in ReleasedIds : request'[i] = request[i],
           approvals \subseteq approvals', OneShots' = OneShots
    PROVE  OneApprovalOneRelease'
  <1>1. \A i \in ReleasedIds : Covered(i) => Covered(i)'
    BY DEF Covered, Standing
  <1>2. Uncovered' \subseteq Uncovered
    BY <1>1 DEF Uncovered
  <1>3. Cardinality(Uncovered') <= Cardinality(Uncovered) /\ IsFiniteSet(Uncovered')
    BY <1>2, ReleaseFacts, FS_Subset
  <1>4. Cardinality(Uncovered') \in Nat
    BY <1>3, FS_CardinalityType
  <1>5. Cardinality(Uncovered') <= Cardinality(OneShots')
    BY <1>3, <1>4, ReleaseFacts, ReleaseCount
  <1>6. QED
    BY <1>5 DEF OneApprovalOneRelease, Uncovered, ReleasedIds, Covered, Standing, OneShots

\* One more request is released, by a new one-shot approval.
LEMMA OneMoreRelease ==
    ASSUME IndInv, ApprovalsOK, OneApprovalOneRelease,
           NEW j, ReleasedIds' \subseteq ReleasedIds \cup {j},
           \A i \in ReleasedIds : request'[i] = request[i],
           NEW a, a \notin approvals, a.once, approvals' = approvals \cup {a}
    PROVE  OneApprovalOneRelease'
  <1>1. \A i \in ReleasedIds : Covered(i) => Covered(i)'
    BY DEF Covered, Standing
  <1>2. Uncovered' \subseteq Uncovered \cup {j}
    BY <1>1 DEF Uncovered
  <1>3. OneShots' = OneShots \cup {a} /\ a \notin OneShots
    BY DEF OneShots, Standing
  <1>4. /\ IsFiniteSet(Uncovered \cup {j})
        /\ Cardinality(Uncovered \cup {j}) \in {Cardinality(Uncovered), Cardinality(Uncovered) + 1}
    BY ReleaseFacts, FS_AddElement
  <1>5. Cardinality(OneShots') = Cardinality(OneShots) + 1
    BY <1>3, ReleaseFacts, FS_AddElement
  <1>6. Cardinality(Uncovered') <= Cardinality(Uncovered \cup {j}) /\ IsFiniteSet(Uncovered')
    BY <1>2, <1>4, FS_Subset
  <1>7. Cardinality(Uncovered') \in Nat
    BY <1>6, FS_CardinalityType
  <1>8. Cardinality(Uncovered') <= Cardinality(OneShots')
    <2>1. PICK m, n, k, l \in Nat : /\ m = Cardinality(Uncovered) /\ n = Cardinality(OneShots)
                                    /\ k = Cardinality(Uncovered') /\ l = Cardinality(Uncovered \cup {j})
      BY <1>4, <1>7, ReleaseFacts
    <2>2. m <= n /\ k <= l /\ l \in {m, m + 1}
      BY <1>4, <1>6, <2>1, ReleaseCount
    <2>3. k <= n + 1
      BY <2>2
    <2>4. QED
      BY <1>5, <2>1, <2>3
  <1>9. QED
    BY <1>8 DEF OneApprovalOneRelease, Uncovered, ReleasedIds, Covered, Standing, OneShots

\* The requests a command takes to apply are the only ones it adds.
LEMMA TakeReleases ==
    ASSUME IndInv, NEW c \in Controllers, NEW S, NEW d, take(c, S, d), held[c] = {}, UNCHANGED cell
    PROVE  \A i \in ReleasedIds' : i \in ReleasedIds \/ (i \in S /\ d = "apply")
  <1> SUFFICES ASSUME NEW i \in ReleasedIds', i \notin ReleasedIds PROVE i \in S /\ d = "apply"
    OBVIOUS
  <1>1. /\ held' = [held EXCEPT ![c] = S]
        /\ verdict' = [verdict EXCEPT ![c] = IF S = {} THEN None ELSE d]
        /\ held \in [Controllers -> SUBSET Ids]
        /\ verdict \in [Controllers -> Decisions \cup {None}]
    BY DEF take, IndInv, TypeOK
  <1>2. PICK e \in Controllers : i \in held'[e] /\ verdict'[e] = "apply"
    BY DEF ReleasedIds
  <1>3. e = c
    BY <1>1, <1>2 DEF ReleasedIds
  <1>4. QED
    BY <1>1, <1>2, <1>3

\* A one-shot approval releases one request.
LEMMA ReleaseHolds ==
    ASSUME IndInv, ApprovalsOK, OneApprovalOneRelease, [Next]_vars
    PROVE  OneApprovalOneRelease'
  <1>0. /\ request \in [Ids -> Request \cup {None}] /\ cell \in [Ids -> Decisions \cup {None}]
        /\ held \in [Controllers -> SUBSET Ids] /\ verdict \in [Controllers -> Decisions \cup {None}]
        /\ pending_read_write \subseteq Ids /\ next_operation_id \in Nat
    BY DEF IndInv, TypeOK
  <1>1. ASSUME ReleasedIds' \subseteq ReleasedIds, UNCHANGED approvals,
               \A i \in ReleasedIds : request'[i] = request[i]
        PROVE  OneApprovalOneRelease'
    <2>1. OneShots' = OneShots
      BY <1>1 DEF OneShots, Standing
    <2>2. QED
      BY <1>1, <2>1, NoNewUncovered
  <1>2. ASSUME UNCHANGED <<cell, held, verdict, approvals, request>> PROVE OneApprovalOneRelease'
    BY <1>1, <1>2 DEF ReleasedIds
  <1>3. ASSUME NEW v \in Views, queue_effect(v) PROVE OneApprovalOneRelease'
    <2>1. /\ UNCHANGED <<cell, held, verdict, approvals>>
          /\ \A i \in Ids : i # next_operation_id => request'[i] = request[i]
      BY <1>3, QueueFacts DEF controllerVars
    <2>2. next_operation_id \notin ReleasedIds
      <3>1. ~(next_operation_id < next_operation_id)
        BY <1>0
      <3>2. QED
        BY <3>1, ConstantsAssumption DEF ReleasedIds, IndInv, HeldCoherent, DecidedWasIssued,
           Released, Decisions
    <2>3. ReleasedIds' = ReleasedIds
      BY <2>1 DEF ReleasedIds
    <2>4. QED
      BY <1>1, <2>1, <2>2, <2>3 DEF ReleasedIds
  <1>4. ASSUME NEW v \in Views, cancel_unresolved_read_write_effects(v) PROVE OneApprovalOneRelease'
    <2>1. /\ UNCHANGED <<held, verdict, approvals, request>>
          /\ \A i \in Ids : cell'[i] = cell[i] \/ cell'[i] = "cancel"
      BY <1>4 DEF cancel_unresolved_read_write_effects, controllerVars
    <2>2. ReleasedIds' \subseteq ReleasedIds
      BY <2>1 DEF ReleasedIds, Released
    <2>3. QED
      BY <1>1, <2>1, <2>2
  <1>5. ASSUME NEW v \in Views, ViewStep(v) PROVE OneApprovalOneRelease'
    <2>1. \/ UNCHANGED <<cell, held, verdict, approvals, request>>
          \/ queue_effect(v) \/ cancel_unresolved_read_write_effects(v)
      BY <1>5 DEF ViewStep, skip_effect, queue_effect_log_error, drop_registry, wait_for_decision,
         proceed, reply, registryVars, controllerVars
    <2>2. QED
      BY <1>2, <1>3, <1>4, <2>1
  <1>6. ASSUME NEW i \in Ids, deny(i) PROVE OneApprovalOneRelease'
    <2>1. /\ UNCHANGED <<held, verdict, approvals, request>>
          /\ \A j \in Ids : cell'[j] = cell[j] \/ cell'[j] = "deny"
      BY <1>0, <1>6 DEF deny, decide, controllerVars
    <2>2. ReleasedIds' \subseteq ReleasedIds
      BY <2>1 DEF ReleasedIds, Released
    <2>3. QED
      BY <1>1, <2>1, <2>2
  <1>7. ASSUME NEW c \in Controllers, NEW S, cancel_scope(c, S) PROVE OneApprovalOneRelease'
    <2>1. take(c, S, "cancel") /\ held[c] = {} /\ UNCHANGED <<cell, approvals, request>>
      BY <1>7 DEF cancel_scope
    <2>2. ReleasedIds' \subseteq ReleasedIds
      BY <2>1, TakeReleases
    <2>3. QED
      BY <1>1, <2>1, <2>2
  <1>8. ASSUME NEW c \in Controllers, NEW i \in Ids, notify_pending_waiter(c, i)
        PROVE  OneApprovalOneRelease'
    <2>1. /\ i \in held[c] /\ UNCHANGED <<approvals, request>>
          /\ cell'[i] = verdict[c] /\ \A j \in Ids : j # i => cell'[j] = cell[j]
          /\ held'[c] = held[c] \ {i} /\ (held'[c] # {} => verdict'[c] = verdict[c])
          /\ \A e \in Controllers : e # c => held'[e] = held[e] /\ verdict'[e] = verdict[e]
      BY <1>0, <1>8 DEF notify_pending_waiter, take, registryVars
    <2>2. verdict[c] \in Released => verdict[c] = "apply"
      BY <2>1 DEF IndInv, HeldCoherent, Released
    <2>3. ReleasedIds' \subseteq ReleasedIds
      <3> SUFFICES ASSUME NEW j \in ReleasedIds' PROVE j \in ReleasedIds
        OBVIOUS
      <3>1. CASE cell'[j] \in Released
        BY <2>1, <2>2, <3>1 DEF ReleasedIds
      <3>2. ASSUME NEW e \in Controllers, j \in held'[e], verdict'[e] = "apply" PROVE j \in ReleasedIds
        <4>1. j \in held[e] /\ verdict[e] = "apply"
          BY <2>1, <3>2
        <4>2. QED
          BY <4>1 DEF ReleasedIds
      <3>3. QED
        BY <3>1, <3>2 DEF ReleasedIds
    <2>4. QED
      BY <1>1, <2>1, <2>3
  <1>9. ASSUME NEW i \in Ids, i \in pending_read_write, UNCHANGED request,
               approvals' = approvals \cup {approval_of(i, request[i])},
               ReleasedIds' \subseteq ReleasedIds \cup {i}
        PROVE  OneApprovalOneRelease'
    <2>1. PICK a : a = approval_of(i, request[i])
      OBVIOUS
    <2>2. a.id = i /\ a.grant = None /\ a.once
      BY <2>1 DEF approval_of
    <2>3. a \notin approvals
      BY <1>9, <2>2 DEF ApprovalsOK
    <2>4. approvals' = approvals \cup {a}
      BY <1>9, <2>1
    <2>5. QED
      BY <1>9, <2>2, <2>3, <2>4, OneMoreRelease
  <1>10. ASSUME NEW i \in Ids, NEW b \in BOOLEAN, allow(i, b) PROVE OneApprovalOneRelease'
    <2>1. /\ i \in pending_read_write /\ UNCHANGED <<request, held, verdict>>
          /\ approvals' = approvals \cup {approval_of(i, request[i])}
          /\ \A j \in Ids : j # i => cell'[j] = cell[j]
      BY <1>10, AllowFacts DEF controllerVars
    <2>2. ReleasedIds' \subseteq ReleasedIds \cup {i}
      BY <2>1 DEF ReleasedIds
    <2>3. QED
      BY <1>9, <2>1, <2>2
  <1>11. ASSUME NEW c \in Controllers, NEW i \in Ids, NEW pattern \in GrantPatterns,
                NEW duration \in Durations \cup {0}, NEW tree \in Trees \cup {{}},
                allow_read_write_grant(c, i, pattern, duration, tree)
         PROVE  OneApprovalOneRelease'
    <2>0. i \in pending_read_write /\ held[c] = {} /\ UNCHANGED cell /\ request[i] \in Request
      BY <1>11, GrantStep
    <2>1. CASE GrantlessStep(c, i)
      <3>1. take(c, {i}, "apply") /\ approvals' = approvals \cup {approval_of(i, request[i])}
               /\ UNCHANGED request
        BY <2>1 DEF GrantlessStep
      <3>2. ReleasedIds' \subseteq ReleasedIds \cup {i}
        BY <2>0, <3>1, TakeReleases
      <3>3. QED
        BY <1>9, <2>0, <3>1, <3>2
    <2>2. ASSUME NEW g \in Grant, NEW r \in Request, NEW S \in SUBSET pending_read_write,
                 GrantedStep(c, i, g, r, S)
          PROVE  OneApprovalOneRelease'
      <3>0. PICK a : a = [id |-> i, kind |-> g.kind, pattern |-> g.pattern, who |-> g.who,
                          once |-> g.once, grant |-> g.id]
        OBVIOUS
      <3>1. /\ request' = [request EXCEPT ![i] = r] /\ approvals' = approvals \cup {a}
            /\ take(c, S, "apply") /\ g.id = next_operation_id /\ next_operation_id \in Ids
            /\ \A j \in S : matches_request(g, request'[j])
            /\ g.once => \A j, k \in S : j = k
        BY <2>2, <3>0 DEF GrantedStep
      <3>2. /\ a.kind = g.kind /\ a.pattern = g.pattern /\ a.who = g.who /\ a.once = g.once
            /\ a.grant = next_operation_id
        BY <3>0, <3>1
      <3>3. a \notin approvals
        <4>1. ~(next_operation_id < next_operation_id) /\ next_operation_id # None
          BY <1>0, <3>1, ConstantsAssumption
        <4>2. QED
          BY <3>2, <4>1 DEF ApprovalsOK
      <3>4. \A j \in ReleasedIds : request'[j] = request[j]
        BY <1>0, <2>0, <3>1, ReleaseFacts
      <3>5. \A j \in ReleasedIds' : j \in ReleasedIds \/ j \in S
        BY <2>0, <3>1, TakeReleases
      <3>6. CASE g.once
        <4>1. PICK j : S \subseteq {j}
          BY <3>1, <3>6
        <4>2. ReleasedIds' \subseteq ReleasedIds \cup {j}
          BY <3>5, <4>1
        <4>3. QED
          BY <3>1, <3>2, <3>3, <3>4, <3>6, <4>2, OneMoreRelease
      <3>7. CASE ~g.once
        <4>1. ASSUME NEW j \in S PROVE Covered(j)'
          <5>1. matches_request(g, request'[j])
            BY <3>1
          <5>2. /\ g.kind = request'[j].kind /\ request'[j].path \in g.pattern
                /\ request'[j].ident \in g.who
            BY <5>1 DEF matches_request, matches_intent, matches_subject
          <5>3. a \in Standing'
            BY <3>1, <3>2, <3>7 DEF Standing
          <5>4. QED
            BY <3>2, <5>2, <5>3 DEF Covered
        <4>2. OneShots' = OneShots
          BY <3>1, <3>2, <3>7 DEF OneShots, Standing
        <4>3. QED
          BY <3>1, <3>4, <3>5, <4>1, <4>2, NoNewUncovered
      <3>8. QED
        BY <3>6, <3>7
    <2>3. QED
      BY <1>11, <2>1, <2>2, GrantStep
  <1>12. CASE Command
    <2>1. CASE \/ \E r \in ProtectRules : protect(r) \/ unprotect(r)
               \/ \E r \in BypassRules : bypass(r) \/ unbypass(r)
      BY <1>2, <2>1 DEF protect, unprotect, bypass, unbypass, registryVars, controllerVars
    <2>2. QED
      BY <1>6, <1>7, <1>10, <1>11, <1>12, <2>1 DEF Command, cancel, cancel_all, cancel_attached_view
  <1>13. CASE \E v \in Views, o \in Operations, p \in Procs : authorize_read_write(v, o, p)
    BY <1>2, <1>13 DEF authorize_read_write, controllerVars
  <1>14. CASE tick \/ UNCHANGED vars
    BY <1>2, <1>14 DEF tick, vars, registryVars, controllerVars
  <1>15. QED
    BY <1>5, <1>8, <1>12, <1>13, <1>14 DEF Next

-----------------------------------------------------------------------------
(* The theorems about the gate and the approvals. *)

\* The empty registry.
LEMMA InitGateIndInv == Init => GateIndInv
  <1> SUFFICES ASSUME Init PROVE GateIndInv
    OBVIOUS
  <1>1. IndInv
    BY InitIndInv
  <1>2. ScanOK /\ IdentityKept /\ NoneMatched /\ GrantReachesRequester
          /\ PendingHasRequester
    BY DEF Init, ScanOK, IdentityKept, NoneMatched, GrantReachesRequester, PendingHasRequester
  <1>3. CallerKnown
    BY DEF Init, CallerKnown
  <1>4. ApprovalsOK
    BY FS_EmptySet DEF Init, ApprovalsOK
  <1>5. OneApprovalOneRelease
    <2>1. Uncovered = {}
      BY ConstantsAssumption DEF Init, Uncovered, ReleasedIds, Released, Decisions
    <2>2. OneShots = {}
      BY DEF Init, OneShots
    <2>3. Cardinality({}) <= Cardinality({})
      BY FS_EmptySet
    <2>4. QED
      BY <2>1, <2>2, <2>3, ReleaseCount
  <1>6. QED
    BY <1>1, <1>2, <1>3, <1>4, <1>5 DEF GateIndInv

\* Every step keeps the gate and the approvals coherent.
LEMMA NextGateIndInv == ASSUME GateIndInv, [Next]_vars PROVE GateIndInv'
  <1>1. IndInv'
    BY NextPreserves DEF GateIndInv
  <1>2. ScanOK' /\ IdentityKept' /\ NoneMatched'
    BY ScanHolds, IdentityHolds, UnblockedHolds DEF GateIndInv
  <1>3. ApprovalsOK'
    BY <1>1, ApprovalsHold DEF GateIndInv
  <1>4. OneApprovalOneRelease'
    BY ReleaseHolds DEF GateIndInv
  <1>5. ~LookupFails => CallerKnown' /\ GrantReachesRequester'
    BY CallerHolds, ReachHolds DEF GateIndInv
  <1>6. ~LogFails => PendingHasRequester'
    BY PendingHolds DEF GateIndInv
  <1>7. QED
    BY <1>1, <1>2, <1>3, <1>4, <1>5, <1>6 DEF GateIndInv

\* The gate and the approvals stay coherent, for every set of views, commands and processes.
THEOREM GateInvariance == Spec => []GateIndInv
  BY InitGateIndInv, NextGateIndInv, PTL DEF Spec

\* A stored grant is matched exactly as long as it is in force.
LEMMA InForceIsMatched ==
    ASSUME IndInv, NEW g \in read_write_grants, NEW k, NEW p, NEW ident
    PROVE  in_force(g, k, p, ident) <=> matches_intent(g, k, p, ident)
  <1>1. ~g.once /\ g.expires \in Nat /\ now \in Nat
    BY DEF IndInv, TypeOK, OneShotNeverStored, Grant
  <1>2. now < g.expires <=> ~is_expired(g)
    BY <1>1 DEF is_expired
  <1>3. QED
    BY <1>2 DEF in_force, matches_intent, matches_subject

\* When authorize_read_write leaves its critical section without error, each effect of the
\* operation is exempt, granted to the caller or queued.
THEOREM GateIsComplete == Spec => GateComplete
  <1> DEFINE Complete ==
        \A v \in Views : phase[v] = "scan" /\ phase'[v] = "wait" =>
          \A n \in DOMAIN effects(op[v]) :
             LET e == effects(op[v])[n]
             IN  \/ ~needs_authorization(op[v], e)
                 \/ \E g \in read_write_grants : in_force(g, e.kind, e.path, identity[v])
                 \/ \E i \in mine[v] : request[i].kind = e.kind /\ request[i].path = e.path
  <1>1. ASSUME GateIndInv, [Next]_vars PROVE Complete
    <2>0. ASSUME NEW v \in Views, NEW e, Gated(v, e)
          PROVE  \/ ~needs_authorization(op[v], e)
                 \/ \E g \in read_write_grants : in_force(g, e.kind, e.path, identity[v])
                 \/ \E i \in mine[v] : request[i].kind = e.kind /\ request[i].path = e.path
      <3>1. \A g \in read_write_grants : matches_intent(g, e.kind, e.path, identity[v])
                                        => in_force(g, e.kind, e.path, identity[v])
        BY <1>1, InForceIsMatched DEF GateIndInv
      <3>2. QED
        BY <2>0, <3>1 DEF Gated, usable_grants
    <2> SUFFICES ASSUME NEW v \in Views, phase[v] = "scan", phase'[v] = "wait",
                        NEW n \in DOMAIN effects(op[v])
                 PROVE  Gated(v, effects(op[v])[n])
      BY <2>0
    <2>1. phase \in [Views -> Phases] /\ ScanOf(v) /\ OneScanner
      BY <1>1 DEF GateIndInv, IndInv, TypeOK, ScanOK
    <2>2. ASSUME NEW w \in Views, ViewStep(w) PROVE todo[v] = <<>>
      <3>1. w = v
        BY <2>1, <2>2 DEF ViewStep, skip_effect, queue_effect, queue_effect_log_error,
           drop_registry, wait_for_decision, proceed, cancel_unresolved_read_write_effects, reply
      <3>2. QED
        BY <2>1, <2>2, <3>1 DEF ViewStep, skip_effect, queue_effect, queue_effect_log_error,
           drop_registry, wait_for_decision, proceed, cancel_unresolved_read_write_effects, reply,
           Replies
    <2>3. ~Command
      BY ZenonT(60) DEF Command, allow, deny, decide, cancel, cancel_all, cancel_attached_view,
         cancel_scope, protect, unprotect, bypass, unbypass, allow_read_write_grant, Unlocked
    <2>4. UNCHANGED phase => FALSE
      OBVIOUS
    <2>5. todo[v] = <<>>
      <3>1. ~(\E w \in Views, o \in Operations, p \in Procs : authorize_read_write(w, o, p))
        BY DEF authorize_read_write, Unlocked
      <3>2. ~(\E c \in Controllers, i \in Ids : notify_pending_waiter(c, i))
        BY <2>4 DEF notify_pending_waiter, viewVars
      <3>3. ~tick /\ ~(UNCHANGED vars)
        BY <2>4 DEF tick, vars, viewVars
      <3>4. QED
        BY <1>1, <2>2, <2>3, <3>1, <3>2, <3>3 DEF Next
    <2>6. QED
      BY <2>1, <2>5 DEF ScanOf
  <1>2. GateIndInv /\ [Next]_vars => [Complete]_vars
    BY <1>1
  <1>3. QED
    BY <1>2, GateInvariance, PTL DEF Spec, GateComplete

\* No process stays blocked on a request that a grant in force covers.
THEOREM NoneStaysBlocked == Spec => []NoneBlockedUnderGrant
  <1>1. GateIndInv => NoneBlockedUnderGrant
    BY InForceIsMatched DEF GateIndInv, NoneMatched, NoneBlockedUnderGrant, matches_request
  <1>2. QED
    BY <1>1, GateInvariance, PTL

\* Where process identities can be looked up, a grant goes to the process that raised the
\* request (or a tree that has it), never to a later process that reuses its pid.
THEOREM GrantsReachRequesters == Spec => [](~LookupFails => GrantReachesRequester)
  <1>1. GateIndInv => (~LookupFails => GrantReachesRequester)
    BY DEF GateIndInv
  <1>2. QED
    BY <1>1, GateInvariance, PTL

\* A one-shot approval releases one request.
THEOREM OneReleasePerApproval == Spec => []OneApprovalOneRelease
  <1>1. GateIndInv => OneApprovalOneRelease
    BY DEF GateIndInv
  <1>2. QED
    BY <1>1, GateInvariance, PTL

\* Where the log can be written, a queued request belongs to an operation that an event
\* loop is still authorizing.
THEOREM PendingIsAwaited == Spec => [](~LogFails => PendingHasRequester)
  <1>1. GateIndInv => (~LogFails => PendingHasRequester)
    BY DEF GateIndInv
  <1>2. QED
    BY <1>1, GateInvariance, PTL
=============================================================================
