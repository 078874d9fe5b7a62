----------------------------- MODULE FileOpsProofs -----------------------------
(***************************************************************************)
(* Proofs about FileOps, for any namespace and any number of handles: what *)
(* a handler is addressed to, although the namespace changes while it      *)
(* waits.  The inductive invariant says which handlers keep an object over *)
(* the wait, and that no handle has a number the counter has yet to give.  *)
(***************************************************************************)
EXTENDS FileOps, OverlayProofs

USE FileOpsAssumption, OverlayAssumption DEF overlayVars

-----------------------------------------------------------------------------
(* Host objects. *)

\* A path resolves to a mapping in force, with components of its own as the rest.
LEMMA RealIsMapped ==
  ASSUME OverlayIndInv, NEW p \in Seq(STRING), resolve_overlay(p).tag = "real"
  PROVE  resolve_overlay(p).local \in Locals /\ resolve_overlay(p).rest \in Seq(STRING)
<1>1. resolve_overlay(p) = Real(p, newest(covering_layers(p))) /\ covering_layers(p) # {}
  BY DEF resolve_overlay, VirtualDir, Hidden, Missing
<1>2. \A l \in covering_layers(p) : l \in Layer /\ l.id \in 1..MaxOrder
  BY IndFacts DEF covering_layers
<1>3. newest(covering_layers(p)) \in covering_layers(p)
  BY <1>1, <1>2, NewestIsNewest
<1>4. PICK l \in Layer : l = newest(covering_layers(p))
  BY <1>2, <1>3
<1>5. l.local \in Locals /\ l.on_fs \in Seq(STRING)
  BY DEF Layer
<1>6. strip_prefix(p, l.on_fs) \in Seq(STRING)
  BY <1>5 DEF strip_prefix
<1> QED BY <1>1, <1>4, <1>5, <1>6 DEF Real

\* What a handler takes from the namespace is an object of the host.
LEMMA TargetsAreObjects ==
  ASSUME OverlayIndInv, NEW p \in Targets
  PROVE  local_path_for_ino(p) \subseteq Objects /\ local_path_for_child(p) \subseteq Objects
<1>1. p \in Seq(STRING) /\ p # <<>>
  OBVIOUS
<1>2. Len(p) \in Nat /\ Len(p) # 0
  BY <1>1, EmptySeq, LenProperties
<1>3. p[Len(p)] \in STRING
  BY <1>1, <1>2, ElementOfSeq
<1>4. parent(p) \in Seq(STRING)
  BY <1>1, <1>2 DEF parent
<1>5. local_path_for_ino(p) \subseteq Objects
  BY <1>1, RealIsMapped DEF local_path_for_ino, Objects
<1>6. resolve_overlay(parent(p)).tag = "real" =>
        Append(resolve_overlay(parent(p)).rest, p[Len(p)]) \in Seq(STRING)
  BY <1>3, <1>4, RealIsMapped, AppendProperties
<1>7. local_path_for_child(p) \subseteq Objects
  <2> DEFINE r == resolve_overlay(parent(p))
  <2>1. CASE r.tag # "real"
    BY <2>1 DEF local_path_for_child
  <2>2. CASE r.tag = "real"
    <3> DEFINE obj == [local |-> r.local, rest |-> Append(r.rest, p[Len(p)])]
    <3>1. local_path_for_child(p) = {obj}
      BY <2>2 DEF local_path_for_child
    <3>2. r.local \in Locals
      BY <1>4, <2>2, RealIsMapped
    <3>3. obj \in Objects
      BY <1>6, <2>2, <3>2 DEF Objects
    <3> QED BY <3>1, <3>3
  <2> QED BY <2>1, <2>2
<1> QED BY <1>5, <1>7

\* The object of the operation that goes on after its wait.
LEMMA TargetOfOperation ==
  ASSUME FileOpsIndInv, op # None
  PROVE  target(op) \subseteq Objects
<1>1. op \in Operation /\ op.path \in Targets /\ op.early \subseteq Objects
  BY DEF FileOpsIndInv, OperationOK, Operation
<1>2. OverlayIndInv
  BY DEF FileOpsIndInv
<1>3. local_path_for_ino(op.path) \subseteq Objects /\ local_path_for_child(op.path) \subseteq Objects
  BY <1>1, <1>2, TargetsAreObjects
<1>4. op.name = "ftruncate" /\ handles[op.fh] # None => {handles[op.fh].object} \subseteq Objects
  <2>1. op.name = "ftruncate" => op.fh \in Handles
    BY DEF FileOpsIndInv, OperationOK, ByHandle
  <2>2. \A fh \in Handles : handles[fh] # None => handles[fh].object \in Objects
    BY DEF FileOpsIndInv, HandlesOK, Handle
  <2> QED BY <2>1, <2>2
<1> QED BY <1>1, <1>3, <1>4 DEF target

-----------------------------------------------------------------------------
(* Every step keeps the invariant. *)

\* A handle for the next number.
LEMMA OpenedIsFresh ==
  ASSUME FileOpsIndInv, NEW p \in Targets, NEW obj \in Objects, NEW w \in BOOLEAN,
         fresh_handle \in Handles, Opened(fresh_handle, p, obj, w), next_handle' = next_handle + 1,
         inodes \subseteq inodes', p \in inodes'
  PROVE  HandlesOK'
<1> DEFINE new == [object |-> obj, path |-> p, writable |-> w]
<1>1. /\ next_handle \in 1..(MaxHandle + 1) /\ next_handle \in Handles
      /\ handles \in [Handles -> Handle \cup {None}]
      /\ \A fh \in Handles : handles[fh] # None => fh < next_handle /\ handles[fh].path \in inodes
  BY DEF FileOpsIndInv, HandlesOK, fresh_handle
<1>2. handles' = [handles EXCEPT ![next_handle] = new] /\ new \in Handle /\ new.path = p
  BY DEF Opened, fresh_handle, Handle
<1>3. next_handle' \in 1..(MaxHandle + 1) /\ next_handle < next_handle'
  BY <1>1 DEF Handles
<1>4. handles' \in [Handles -> Handle \cup {None}]
  BY <1>1, <1>2
<1>5. ASSUME NEW fh \in Handles, handles'[fh] # None
      PROVE  fh < next_handle' /\ handles'[fh].path \in inodes'
  <2>1. CASE fh = next_handle
    BY <1>1, <1>2, <1>3, <2>1
  <2>2. CASE fh # next_handle
    <3>1. handles'[fh] = handles[fh]
      BY <1>1, <1>2, <2>2
    <3>2. fh \in Nat
      BY DEF Handles
    <3> QED BY <1>1, <1>3, <1>5, <3>1, <3>2
  <2> QED BY <2>1, <2>2
<1> QED BY <1>3, <1>4, <1>5 DEF HandlesOK

\* The handles are kept while the table of inodes grows.
LEMMA HandlesKept ==
  ASSUME FileOpsIndInv, UNCHANGED <<handles, next_handle>>, inodes \subseteq inodes'
  PROVE  HandlesOK'
BY DEF FileOpsIndInv, HandlesOK

\* An operation that begins.
LEMMA BeginHolds ==
  ASSUME FileOpsIndInv, NEW name \in Names, NEW p \in Targets,
         \/ begin_by_inode(name, p)
         \/ begin_by_name(name, p)
         \/ \E q \in Targets : begin_two_paths(name, p, q)
  PROVE  OperationOK'
<1>1. OverlayIndInv
  BY DEF FileOpsIndInv
<1>2. CASE begin_by_inode(name, p)
  <2> DEFINE e == IF name = "xattr" THEN local_path_for_ino(p) ELSE {}
  <2>1. op' = [name |-> name, path |-> p, to |-> p, fh |-> None, early |-> e]
    BY <1>2 DEF begin_by_inode, Begin, Op
  <2>2. e \subseteq Objects
    BY <1>1, TargetsAreObjects
  <2>3. op' \in Operation /\ op'.name = name /\ op'.path = p /\ op'.early = e
    BY <2>1, <2>2 DEF Operation
  <2>4. p \in inodes' /\ name \notin ByHandle /\ (e # {} => name = "xattr")
    BY <1>2 DEF begin_by_inode, Unmoved, ByInode, ByHandle
  <2> QED BY <2>3, <2>4 DEF OperationOK
<1>3. CASE begin_by_name(name, p)
  <2>1. op' = [name |-> name, path |-> p, to |-> p, fh |-> None, early |-> {}]
    BY <1>3 DEF begin_by_name, Begin, Op
  <2>2. op' \in Operation /\ op'.name = name /\ op'.early = {}
    BY <2>1 DEF Operation
  <2>3. name \notin ByHandle /\ name \notin ByInode
    BY <1>3 DEF begin_by_name, ByInode, ByHandle, ByName, Making
  <2> QED BY <2>2, <2>3 DEF OperationOK
<1>4. ASSUME NEW q \in Targets, begin_two_paths(name, p, q) PROVE OperationOK'
  <2>1. op' = [name |-> name, path |-> p, to |-> q, fh |-> None, early |-> {}]
    BY <1>4 DEF begin_two_paths, Begin, Op
  <2>2. op' \in Operation /\ op'.name = name /\ op'.early = {}
    BY <2>1 DEF Operation
  <2>3. name \notin ByHandle /\ name \notin ByInode
    BY <1>4 DEF begin_two_paths, ByInode, ByHandle, TwoPaths
  <2> QED BY <2>2, <2>3 DEF OperationOK
<1> QED BY <1>2, <1>3, <1>4

\* An operation on a handle that begins.
LEMMA BeginByHandleHolds ==
  ASSUME FileOpsIndInv, NEW name \in Names, NEW fh \in Handles, begin_by_handle(name, fh)
  PROVE  OperationOK'
<1> DEFINE e == IF name = "ftruncate" THEN {} ELSE {handles[fh].object}
<1>1. handles[fh] \in Handle
  BY DEF begin_by_handle, FileOpsIndInv, HandlesOK
<1>2. handles[fh].path \in Targets /\ e \subseteq Objects
  BY <1>1 DEF Handle
<1>3. op' = [name |-> name, path |-> handles[fh].path, to |-> handles[fh].path, fh |-> fh, early |-> e]
  BY DEF begin_by_handle, Begin, Op
<1>4. op' \in Operation /\ op'.name = name /\ op'.fh = fh /\ op'.early = e
  BY <1>2, <1>3 DEF Operation
<1>5. name \notin ByInode /\ (e # {} => name \in {"read", "write"})
  BY DEF begin_by_handle, ByInode, ByHandle
<1> QED BY <1>4, <1>5 DEF OperationOK

\* A request of the kernel.
LEMMA RequestHolds ==
  ASSUME FileOpsIndInv, Request
  PROVE  HandlesOK' /\ OperationOK'
<1>1. OverlayIndInv /\ HandlesOK /\ OperationOK
  BY DEF FileOpsIndInv
<1>2. ASSUME op = None, UNCHANGED op PROVE OperationOK'
  BY <1>2 DEF OperationOK
<1>3. ASSUME NEW p \in Targets, lookup(p) PROVE HandlesOK' /\ OperationOK'
  BY <1>2, <1>3, HandlesKept DEF lookup
<1>4. ASSUME NEW p \in Targets, open_read(p) PROVE HandlesOK' /\ OperationOK'
  <2>1. PICK obj \in local_path_for_ino(p) : Opened(fresh_handle, p, obj, FALSE)
    BY <1>4 DEF open_read
  <2>2. obj \in Objects
    BY <1>1, TargetsAreObjects
  <2>3. fresh_handle \in Handles /\ next_handle' = next_handle + 1 /\ inodes' = inodes /\ p \in inodes
    BY <1>4 DEF open_read
  <2>4. HandlesOK'
    BY <2>1, <2>2, <2>3, OpenedIsFresh
  <2> QED BY <1>2, <1>4, <2>4 DEF open_read
<1>5. ASSUME NEW fh \in Handles, release(fh) PROVE HandlesOK' /\ OperationOK'
  <2>1. /\ handles' = [handles EXCEPT ![fh] = None] /\ UNCHANGED <<next_handle, inodes>>
    BY <1>5 DEF release
  <2>2. handles' \in [Handles -> Handle \cup {None}]
    BY <1>1, <2>1 DEF HandlesOK
  <2>3. \A g \in Handles : handles'[g] # None => handles'[g] = handles[g]
    BY <1>1, <2>1 DEF HandlesOK
  <2>4. HandlesOK'
    BY <1>1, <2>1, <2>2, <2>3 DEF HandlesOK
  <2> QED BY <1>2, <1>5, <2>4 DEF release
<1>6. ASSUME NEW name \in Names, NEW p \in Targets,
             begin_by_inode(name, p) \/ begin_by_name(name, p) \/ \E q \in Targets : begin_two_paths(name, p, q)
      PROVE  HandlesOK' /\ OperationOK'
  <2>1. Unmoved
    BY <1>6 DEF begin_by_inode, begin_by_name, begin_two_paths
  <2> QED BY <1>6, <2>1, BeginHolds, HandlesKept DEF Unmoved
<1>7. ASSUME NEW name \in Names, NEW fh \in Handles, begin_by_handle(name, fh)
      PROVE  HandlesOK' /\ OperationOK'
  <2>1. Unmoved
    BY <1>7 DEF begin_by_handle
  <2> QED BY <1>7, <2>1, BeginByHandleHolds, HandlesKept DEF Unmoved
<1> QED BY <1>3, <1>4, <1>5, <1>6, <1>7 DEF Request

\* The rest of a handler after its wait.
LEMMA FinishHolds ==
  ASSUME FileOpsIndInv, Finish
  PROVE  HandlesOK' /\ OperationOK'
<1>1. OverlayIndInv /\ HandlesOK /\ OperationOK
  BY DEF FileOpsIndInv
<1>2. ASSUME op' = None PROVE OperationOK'
  BY <1>2 DEF OperationOK
<1>3. CASE finish_call \/ finish_two_paths \/ finish_readdir \/ refuse
  <2>1. op' = None /\ UNCHANGED <<handles, next_handle>> /\ inodes \subseteq inodes'
    BY <1>3 DEF finish_call, finish_two_paths, finish_readdir, refuse
  <2> QED BY <1>2, <2>1, HandlesKept
<1>4. CASE resolve_from
  <2>1. op # None /\ op.name \in TwoPaths /\ op' = [op EXCEPT !.early = target(op)]
        /\ UNCHANGED <<inodes, handles, next_handle>>
    BY <1>4 DEF resolve_from
  <2>2. op \in Operation /\ target(op) \subseteq Objects
    BY <1>1, <2>1, TargetOfOperation DEF OperationOK
  <2>3. op' \in Operation /\ op'.name = op.name
    BY <2>1, <2>2 DEF Operation
  <2>4. op'.name \in TwoPaths /\ op'.name \notin ByInode /\ op'.name \notin ByHandle
    BY <2>1, <2>3 DEF TwoPaths, ByInode, ByHandle
  <2>5. OperationOK'
    BY <2>3, <2>4 DEF OperationOK
  <2> QED BY <2>1, <2>5, HandlesKept
<1>5. CASE finish_open
  <2>1. op # None /\ op' = None /\ op.path \in Targets
    BY <1>1, <1>5 DEF finish_open, OperationOK, Operation
  <2>2. CASE UNCHANGED <<handles, next_handle, inodes>>
    BY <1>2, <2>1, <2>2, HandlesKept
  <2>3. ASSUME NEW obj \in target(op), fresh_handle \in Handles, Opened(fresh_handle, op.path, obj, TRUE),
               next_handle' = next_handle + 1,
               inodes' = IF op.name = "create" THEN inodes \cup {op.path} ELSE inodes
        PROVE  HandlesOK'
    <3>1. obj \in Objects
      BY <2>1, TargetOfOperation
    <3>2. op.name = "create" \/ op.path \in inodes
      BY <1>1, <1>5 DEF finish_open, OperationOK, ByInode
    <3>3. inodes \subseteq inodes' /\ op.path \in inodes'
      BY <2>3, <3>2
    <3> QED BY <2>1, <2>3, <3>1, <3>3, OpenedIsFresh
  <2> QED BY <1>2, <1>5, <2>1, <2>2, <2>3 DEF finish_open
<1> QED BY <1>3, <1>4, <1>5 DEF Finish

\* No handler changes the namespace: only the commands of the operator do.
LEMMA HandlersKeepOverlay ==
  ASSUME [Next]_vars
  PROVE  [OverlayNext]_overlayVars
BY DEF Next, vars, Request, lookup, open_read, release, begin_by_inode, begin_by_name, begin_two_paths,
   begin_by_handle, Unmoved, Finish, finish_call, resolve_from, finish_two_paths, finish_open,
   finish_readdir, refuse

\* The commands of the operator change the namespace alone.
LEMMA FileOpsNextHolds ==
  ASSUME FileOpsIndInv, [Next]_vars
  PROVE  FileOpsIndInv'
<1>1. [OverlayNext]_overlayVars
  BY HandlersKeepOverlay
<1>2. OverlayIndInv'
  BY <1>1, OverlayNextPreserves DEF FileOpsIndInv
<1>3. ASSUME UNCHANGED viewVars PROVE HandlesOK' /\ OperationOK'
  BY <1>3 DEF viewVars, FileOpsIndInv, HandlesOK, OperationOK
<1>4. HandlesOK' /\ OperationOK'
  BY <1>3, RequestHolds, FinishHolds DEF Next, vars
<1> QED BY <1>2, <1>4 DEF FileOpsIndInv

-----------------------------------------------------------------------------
(* The theorems. *)

\* Whatever the kernel asks and the operator changes, handles have distinct numbers
\* below the counter, and only reads, writes and the handlers of extended attributes
\* keep an object over their wait (SandboxFs::handles, next_handle; link and rename
\* between their two resolutions).
THEOREM FileOpsInvariance == Spec => []FileOpsIndInv
<1>1. Init => FileOpsIndInv
  <2> SUFFICES ASSUME Init PROVE FileOpsIndInv
    OBVIOUS
  <2>1. OverlayIndInv
    BY OverlayInitHolds DEF Init
  <2>2. HandlesOK
    BY DEF Init, HandlesOK
  <2>3. OperationOK
    BY DEF Init, OperationOK
  <2> QED BY <2>1, <2>2, <2>3 DEF FileOpsIndInv
<1>2. FileOpsIndInv /\ [Next]_vars => FileOpsIndInv'
  BY FileOpsNextHolds
<1> QED BY <1>1, <1>2, PTL DEF Spec

\* A file descriptor stays on the file that was opened, until it is released
\* (SandboxFs::open, create, release: numbers of handles are never used again).
THEOREM HandlesAreStable == Spec => HandleStable
<1> DEFINE Kept == \A fh \in Handles : handles[fh] # None => handles'[fh] \in {handles[fh], None}
<1>1. ASSUME FileOpsIndInv, [Next]_vars PROVE [Kept]_vars
  <2>1. /\ handles \in [Handles -> Handle \cup {None}] /\ next_handle \in Nat
        /\ \A fh \in Handles : handles[fh] # None => fh < next_handle
    BY <1>1 DEF FileOpsIndInv, HandlesOK
  <2>2. CASE UNCHANGED handles
    BY <2>2
  <2>3. ASSUME NEW p, NEW obj, NEW w, Opened(fresh_handle, p, obj, w) PROVE Kept
    <3>1. \A fh \in Handles : handles[fh] # None => fh # next_handle
      BY <2>1 DEF Handles
    <3> QED BY <2>1, <2>3, <3>1 DEF Opened, fresh_handle
  <2>4. ASSUME NEW fh \in Handles, release(fh) PROVE Kept
    BY <2>1, <2>4 DEF release
  <2>5. \/ UNCHANGED handles
        \/ \E p, obj, w : Opened(fresh_handle, p, obj, w)
        \/ \E fh \in Handles : release(fh)
    BY <1>1 DEF Next, vars, viewVars, Request, lookup, open_read, begin_by_inode, begin_by_name,
       begin_two_paths, begin_by_handle, Unmoved, Finish, finish_call, resolve_from, finish_two_paths,
       finish_open, finish_readdir, refuse
  <2> QED BY <2>2, <2>3, <2>4, <2>5
<1>2. FileOpsIndInv /\ [Next]_vars => [Kept]_vars
  BY <1>1
<1>3. Spec => [][Kept]_vars
  BY <1>2, FileOpsInvariance, PTL DEF Spec
<1> QED BY <1>3 DEF HandleStable

\* Which host calls a step makes: those of the operation whose wait is over.
LEMMA CallsOfStep ==
  ASSUME FileOpsIndInv, [Next]_vars, NEW c \in calls' \ calls
  PROVE  /\ op # None /\ c.name = op.name
         /\ \/ c.path = op.path /\ c.object \in target(op) /\ op.name \notin TwoPaths
            \/ /\ op.name \in TwoPaths /\ local_path_for_child(op.to) # {}
<1>1. CASE UNCHANGED calls \/ calls' = {}
  BY <1>1
<1>2. ASSUME NEW p, NEW obj, c = Call(p, obj) PROVE c.name = op.name /\ c.path = p /\ c.object = obj
  BY <1>2 DEF Call
<1>3. CASE finish_call
  <2>1. PICK obj \in target(op) : c = Call(op.path, obj)
    BY <1>3 DEF finish_call
  <2> QED BY <1>2, <1>3, <2>1 DEF finish_call
<1>4. CASE finish_open
  <2>1. calls' = {} \/ \E obj \in target(op) : c = Call(op.path, obj)
    BY <1>4 DEF finish_open
  <2>2. PICK obj \in target(op) : c = Call(op.path, obj)
    BY <2>1
  <2>3. op # None /\ op.name \notin TwoPaths
    BY <1>4 DEF finish_open, TwoPaths
  <2> QED BY <1>2, <2>2, <2>3
<1>5. CASE finish_two_paths
  <2>1. op # None /\ op.name \in TwoPaths /\ local_path_for_child(op.to) # {}
    BY <1>5 DEF finish_two_paths
  <2>2. \E p, obj : c = Call(p, obj)
    BY <1>5 DEF finish_two_paths
  <2> QED BY <1>2, <2>1, <2>2
<1>6. UNCHANGED calls \/ calls' = {} \/ finish_call \/ finish_open \/ finish_two_paths
  BY DEF Next, vars, viewVars, Request, lookup, open_read, release, begin_by_inode, begin_by_name,
     begin_two_paths, begin_by_handle, Begin, Finish, resolve_from, finish_readdir, refuse
<1> QED BY <1>1, <1>3, <1>4, <1>5, <1>6

\* No name is made or removed in a directory that is virtual when the operation
\* resumes (SandboxFs::local_path_for_child, of mkdir, mknod, symlink, create, unlink,
\* rmdir, link and rename).
THEOREM VirtualDirsStayReadOnly == Spec => VirtualDirsReadOnly
<1> DEFINE Allowed == \A c \in calls' \ calls :
               (c.name \in ByName \/ (c.name \in TwoPaths /\ c.path = op.to)) =>
                   resolve_overlay(parent(c.path)).tag = "real"
<1>1. ASSUME NEW p, local_path_for_child(p) # {} PROVE resolve_overlay(parent(p)).tag = "real"
  BY <1>1 DEF local_path_for_child
<1>2. ASSUME FileOpsIndInv, [Next]_vars PROVE Allowed
  <2> SUFFICES ASSUME NEW c \in calls' \ calls,
                      c.name \in ByName \/ (c.name \in TwoPaths /\ c.path = op.to)
               PROVE  resolve_overlay(parent(c.path)).tag = "real"
    OBVIOUS
  <2>1. /\ op # None /\ c.name = op.name
        /\ \/ c.path = op.path /\ c.object \in target(op) /\ op.name \notin TwoPaths
           \/ op.name \in TwoPaths /\ local_path_for_child(op.to) # {}
    BY <1>2, CallsOfStep
  <2>2. CASE op.name \in TwoPaths
    BY <1>1, <2>1, <2>2 DEF ByName, Making, TwoPaths
  <2>3. CASE op.name \in ByName
    <3>1. op.early = {} /\ op.name # "ftruncate"
      BY <1>2, <2>1, <2>3 DEF FileOpsIndInv, OperationOK, ByName, Making, TwoPaths
    <3>2. target(op) = local_path_for_child(op.path)
      BY <2>3, <3>1 DEF target
    <3>3. op.name \notin TwoPaths
      BY <2>3 DEF ByName, Making, TwoPaths
    <3> QED BY <1>1, <2>1, <3>2, <3>3
  <2> QED BY <2>1, <2>2, <2>3
<1>3. FileOpsIndInv /\ [Next]_vars => [Allowed]_vars
  BY <1>2
<1>4. Spec => [][Allowed]_vars
  BY <1>3, FileOpsInvariance, PTL DEF Spec
<1> QED BY <1>4 DEF VirtualDirsReadOnly

\* A truncation by path is addressed to what the path resolves to once it is
\* authorized (SandboxFs::setattr).
THEOREM TruncatesResolveLate == Spec => LateResolution
<1> DEFINE Late == \A c \in calls' \ calls : c.name = "truncate" => c.object \in local_path_for_ino(c.path)
<1>1. ASSUME FileOpsIndInv, [Next]_vars PROVE Late
  <2> SUFFICES ASSUME NEW c \in calls' \ calls, c.name = "truncate"
               PROVE  c.object \in local_path_for_ino(c.path)
    OBVIOUS
  <2>1. op # None /\ op.name = "truncate" /\ c.path = op.path /\ c.object \in target(op)
    BY <1>1, CallsOfStep DEF TwoPaths
  <2>2. op.early = {}
    BY <1>1, <2>1 DEF FileOpsIndInv, OperationOK, TwoPaths
  <2>3. target(op) = local_path_for_ino(op.path)
    BY <2>1, <2>2 DEF target, ByName, Making
  <2> QED BY <2>1, <2>3
<1>2. FileOpsIndInv /\ [Next]_vars => [Late]_vars
  BY <1>1
<1>3. Spec => [][Late]_vars
  BY <1>2, FileOpsInvariance, PTL DEF Spec
<1> QED BY <1>3 DEF LateResolution

\* The namespace that the handlers resolve in is that of Overlay, so whatever the
\* kernel asks, resolution follows the commands and readdir agrees with lookup.
THEOREM HandlersRefineOverlay == Spec => OverlaySpec
<1>1. Init => OverlayInit
  BY DEF Init
<1>2. [Next]_vars => [OverlayNext]_overlayVars
  BY HandlersKeepOverlay
<1> QED BY <1>1, <1>2, PTL DEF Spec, OverlaySpec

\* Under the handlers, what readdir lists resolves and what lookup finds is listed.
THEOREM HandlersListWhatTheyFind == Spec => [](ResolutionFollowsStack /\ ListingAgrees)
BY HandlersRefineOverlay, ResolutionCorrect, ListingCorrect, PTL
=============================================================================
