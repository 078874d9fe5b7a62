-------------------------------- MODULE FileOps --------------------------------
(***************************************************************************)
(* The FUSE handlers of one view over the namespace of Overlay: inodes,    *)
(* file handles, and which host object a read/write operation is addressed *)
(* to.  A handler first waits for its authorization (ReadWriteAuth), for   *)
(* as long as the operator takes; meanwhile mappings and hide rules come   *)
(* and go, and what the handler took from the namespace before the wait    *)
(* may be stale after it.                                                  *)
(*                                                                         *)
(* Operations that treat their paths alike are merged: "make" is mkdir,    *)
(* mknod and symlink, "remove" is unlink and rmdir, "xattr" is getxattr,   *)
(* listxattr, setxattr and removexattr.  The host is fixed; a host call is *)
(* recorded by the object it is addressed to, in the step that resolves    *)
(* the (last) path under the registry lock, and may fail.  The kernel      *)
(* sends an operation that makes a name after a lookup of the name has     *)
(* failed, and the others on names it has looked up.                       *)
(***************************************************************************)
EXTENDS Overlay

CONSTANTS
    None,
    Names,      \* the operations in use
    Targets,    \* the paths they are on
    MaxHandle   \* bound: handles ever opened

ByInode == {"open_write", "truncate", "xattr", "readdir"}
Making == {"create", "make"}
ByName == Making \cup {"remove"}
ByHandle == {"read", "write", "ftruncate"}
TwoPaths == {"link", "rename"}
Handles == 1..MaxHandle

ASSUME FileOpsAssumption ==
    /\ Names \subseteq ByInode \cup ByName \cup ByHandle \cup TwoPaths
    /\ Targets \subseteq Paths \ {<<>>}
    /\ MaxHandle \in Nat

VARIABLES
    inodes,         \* SandboxFs.inodes: the paths with an inode number
    handles,        \* SandboxFs.handles
    next_handle,    \* SandboxFs.next_handle
    op,             \* the operation that waits for its authorization
    calls           \* the host calls of the last operation

viewVars == <<inodes, handles, next_handle, op, calls>>
vars == <<overlayVars, viewVars>>

Init ==
    /\ OverlayInit
    /\ inodes = {<<>>}
    /\ handles = [fh \in Handles |-> None]
    /\ next_handle = 1
    /\ op = None
    /\ calls = {}

-----------------------------------------------------------------------------
(* Host objects.  Sets of at most one: empty where the handler gives up. *)

\* path_and_local_path_for_ino: nothing for a virtual directory.
local_path_for_ino(p) ==
    LET r == resolve_overlay(p)
    IN  IF r.tag = "real" THEN {[local |-> r.local, rest |-> r.rest]} ELSE {}

\* Fault: a name below a virtual directory is resolved by itself.
local_path_for_child_or_itself(p) ==
    LET r == resolve_overlay(parent(p))
    IN  IF r.tag = "real" THEN {[local |-> r.local, rest |-> Append(r.rest, p[Len(p)])]}
        ELSE local_path_for_ino(p)

\* The host path of the parent with the name appended; EROFS in a virtual
\* directory.
local_path_for_child(p) ==
    LET r == resolve_overlay(parent(p))
    IN  IF r.tag = "real" THEN {[local |-> r.local, rest |-> Append(r.rest, p[Len(p)])]}
        ELSE {}

is_file(obj) == obj.rest \in HostPaths[obj.local] \ HostDirs[obj.local]

\* Fault: numbers of released handles are used again.
fresh_handle_by_count == Cardinality({fh \in Handles : handles[fh] # None}) + 1

\* Numbers are never used again.
fresh_handle == next_handle

\* The handle made for an object.
Opened(fh, p, obj, writable) ==
    handles' = [handles EXCEPT ![fh] = [object |-> obj, path |-> p, writable |-> writable]]

-----------------------------------------------------------------------------
(* Handlers without authorization. *)

\* lookup, getattr: whatever is found gets its inode number.
lookup(p) ==
    /\ op = None
    /\ parent(p) \in inodes
    /\ attr_for_path(p)
    /\ inodes' = inodes \cup {p}
    /\ calls' = {}
    /\ UNCHANGED <<overlayVars, handles, next_handle, op>>

\* open for reading.
open_read(p) ==
    /\ op = None
    /\ p \in inodes
    /\ fresh_handle \in Handles
    /\ \E obj \in local_path_for_ino(p) : is_file(obj) /\ Opened(fresh_handle, p, obj, FALSE)
    /\ next_handle' = next_handle + 1
    /\ calls' = {}
    /\ UNCHANGED <<overlayVars, inodes, op>>

release(fh) ==
    /\ op = None
    /\ handles[fh] # None
    /\ handles' = [handles EXCEPT ![fh] = None]
    /\ calls' = {}
    /\ UNCHANGED <<overlayVars, inodes, next_handle, op>>

-----------------------------------------------------------------------------
(* Handlers that wait: from the request to authorize_read_write. *)

Begin(o) == op = None /\ op' = o /\ calls' = {}
Op(name, p) == [name |-> name, path |-> p, to |-> p, fh |-> None, early |-> {}]
Unmoved == UNCHANGED <<overlayVars, inodes, handles, next_handle>>

\* The handlers by inode; those of extended attributes resolve it at once.
begin_by_inode(name, p) ==
    /\ name \in ByInode
    /\ p \in inodes
    /\ name = "xattr" => local_path_for_ino(p) # {}
    /\ Begin([Op(name, p) EXCEPT !.early = IF name = "xattr" THEN local_path_for_ino(p) ELSE {}])
    /\ Unmoved

begin_by_name(name, p) ==
    /\ name \in ByName
    /\ parent(p) \in inodes
    /\ IF name \in Making THEN ~attr_for_path(p) ELSE p \in inodes
    /\ Begin(Op(name, p))
    /\ Unmoved

begin_two_paths(name, p, q) ==
    /\ name \in TwoPaths
    /\ p # q
    /\ p \in inodes
    /\ parent(q) \in inodes
    /\ name = "link" => ~attr_for_path(q)
    /\ Begin([Op(name, p) EXCEPT !.to = q])
    /\ Unmoved

\* read and write take the handle before the wait, ftruncate after it; writing
\* needs a writable one.
begin_by_handle(name, fh) ==
    /\ name \in ByHandle
    /\ handles[fh] # None
    /\ name = "write" => handles[fh].writable
    /\ Begin([Op(name, handles[fh].path) EXCEPT
                 !.fh = fh, !.early = IF name = "ftruncate" THEN {} ELSE {handles[fh].object}])
    /\ Unmoved

\* Denied, canceled, or an error.
refuse ==
    /\ op # None
    /\ op' = None
    /\ UNCHANGED <<overlayVars, inodes, handles, next_handle, calls>>

-----------------------------------------------------------------------------
(* From the authorization to the reply. *)

Call(p, obj) == [name |-> op.name, path |-> p, object |-> obj]

\* Fault: truncate takes the host path of any handle of the file.
target_from_handles(o) ==
    LET open == {handles[fh].object : fh \in {fh \in Handles : handles[fh] # None
                                                  /\ handles[fh].path = o.path}}
    IN  IF o.early # {} THEN o.early
        ELSE IF o.name \in {"truncate", "ftruncate"} /\ open # {} THEN open
        ELSE IF o.name \in ByName \cup {"rename"} THEN local_path_for_child(o.path)
        ELSE local_path_for_ino(o.path)

\* The object of the first path: taken before the wait by read, write and the
\* handlers of extended attributes, looked up now by the others.
target(o) ==
    IF o.early # {} THEN o.early
    ELSE IF o.name = "ftruncate" /\ handles[o.fh] # None THEN {handles[o.fh].object}
    ELSE IF o.name \in ByName \cup {"rename"} THEN local_path_for_child(o.path)
    ELSE local_path_for_ino(o.path)

\* One host call on one path; create and make remember the path if it worked.
finish_call ==
    /\ op # None
    /\ op.name \notin TwoPaths \cup {"open_write", "readdir", "create"}
    /\ calls' = {Call(op.path, obj) : obj \in target(op)}
    /\ \/ UNCHANGED inodes
       \/ op.name = "make" /\ target(op) # {} /\ inodes' = inodes \cup {op.path}
    /\ op' = None
    /\ UNCHANGED <<overlayVars, handles, next_handle>>

\* link, rename: the paths are resolved under two acquisitions of the lock.
resolve_from ==
    /\ op # None
    /\ op.name \in TwoPaths
    /\ op.early = {}
    /\ target(op) # {}
    /\ op' = [op EXCEPT !.early = target(op)]
    /\ UNCHANGED <<overlayVars, inodes, handles, next_handle, calls>>

finish_two_paths ==
    LET to == local_path_for_child(op.to)
    IN  /\ op # None
        /\ op.name \in TwoPaths
        /\ op.early # {}
        /\ calls' = IF to = {} THEN {}
                    ELSE {Call(op.path, obj) : obj \in op.early} \cup {Call(op.to, obj) : obj \in to}
        /\ \/ UNCHANGED inodes
           \/ op.name = "link" /\ to # {} /\ inodes' = inodes \cup {op.to}
        /\ op' = None
        /\ UNCHANGED <<overlayVars, handles, next_handle>>

\* open for writing, and create: a handle if there is a file.
finish_open ==
    /\ op # None
    /\ op.name \in {"open_write", "create"}
    /\ \/ \E obj \in target(op) :
             /\ fresh_handle \in Handles
             /\ op.name = "open_write" => is_file(obj)
             /\ Opened(fresh_handle, op.path, obj, TRUE)
             /\ next_handle' = next_handle + 1
             /\ inodes' = IF op.name = "create" THEN inodes \cup {op.path} ELSE inodes
             /\ calls' = IF op.name = "create" THEN {Call(op.path, obj)} ELSE {}
       \/ /\ UNCHANGED <<handles, next_handle, inodes>>
          /\ calls' = IF op.name = "create" THEN {Call(op.path, obj) : obj \in target(op)} ELSE {}
    /\ op' = None
    /\ UNCHANGED overlayVars

finish_readdir ==
    /\ op # None
    /\ op.name = "readdir"
    /\ inodes' = IF resolves(op.path)
                 THEN inodes \cup {join(op.path, name) : name \in children(op.path)}
                 ELSE inodes
    /\ op' = None
    /\ calls' = {}
    /\ UNCHANGED <<overlayVars, handles, next_handle>>

-----------------------------------------------------------------------------
Request ==
    \/ \E p \in Targets : lookup(p) \/ open_read(p)
    \/ \E fh \in Handles : release(fh)
    \/ \E name \in Names, p \in Targets : begin_by_inode(name, p) \/ begin_by_name(name, p)
    \/ \E name \in Names, p, q \in Targets : begin_two_paths(name, p, q)
    \/ \E name \in Names, fh \in Handles : begin_by_handle(name, fh)

Finish == finish_call \/ resolve_from \/ finish_two_paths \/ finish_open \/ finish_readdir \/ refuse

Next ==
    \/ Request
    \/ Finish
    \/ OverlayNext /\ UNCHANGED viewVars

Spec == Init /\ [][Next]_vars

-----------------------------------------------------------------------------
(* Properties. *)

\* The types; handles have the numbers below the counter.
TypeOK ==
    /\ inodes \subseteq Paths
    /\ next_handle \in 1..(MaxHandle + 1)
    /\ \A fh \in Handles : handles[fh] # None =>
          /\ fh < next_handle
          /\ handles[fh].path \in inodes
          /\ handles[fh].object.local \in Locals
          /\ handles[fh].writable \in BOOLEAN
    /\ op # None => op.path \in Paths /\ op.to \in Paths

\* A file descriptor stays on the file that was opened: whatever is opened,
\* mounted or hidden later, its handle keeps its object until it is released.
HandleStable ==
    [][\A fh \in Handles : handles[fh] # None => handles'[fh] \in {handles[fh], None}]_vars

\* ADR 0005: directories on the way to a mapping below a hidden parent are
\* "read-only virtual ancestor directories": no name is made or removed in a
\* directory that is virtual when the operation resumes, nor is one moved or
\* linked into it.
VirtualDirsReadOnly ==
    [][\A c \in calls' \ calls : (c.name \in ByName \/ (c.name \in TwoPaths /\ c.path = op.to)) =>
          resolve_overlay(parent(c.path)).tag = "real"]_vars

\* A truncation by path is addressed to what the path resolves to once it is
\* authorized, not to what it was when the operation was queued or the file
\* opened.
LateResolution ==
    [][\A c \in calls' \ calls : c.name = "truncate" => c.object \in local_path_for_ino(c.path)]_vars

\* concepts.md: "A hide rule removes that path and descendants from visibility
\* until a newer mapping covers that path again": no host call is made for a
\* path that is hidden at that moment.
HiddenUntouched == [][\A c \in calls' \ calls : ~is_hidden(c.path)]_vars

\* concepts.md: "Later mappings overlay earlier mappings, similar to mounts":
\* a name is removed or moved where it resolves, not in the mapping below.
NamesFollowResolution ==
    [][\A c \in calls' \ calls : c.name \in {"remove", "rename"} /\ c.path = op.path =>
          c.object \in local_path_for_ino(c.path)]_vars
-----------------------------------------------------------------------------
(* The inductive invariant. *)

Objects == [local : Locals, rest : Seq(STRING)]
Handle == [object : Objects, path : Targets, writable : BOOLEAN]
Operation == [name : Names, path : Targets, to : Targets, fh : Handles \cup {None},
              early : SUBSET Objects]

\* Handles have the numbers below the counter, and are of paths with an inode.
HandlesOK ==
    /\ next_handle \in 1..(MaxHandle + 1)
    /\ handles \in [Handles -> Handle \cup {None}]
    /\ \A fh \in Handles : handles[fh] # None => fh < next_handle /\ handles[fh].path \in inodes

\* Only these operations keep an object over their wait.
OperationOK ==
    op # None =>
        /\ op \in Operation
        /\ op.name \in ByInode => op.path \in inodes
        /\ op.name \in ByHandle => op.fh \in Handles
        /\ op.early # {} => op.name \in {"xattr", "read", "write"} \cup TwoPaths

FileOpsIndInv == OverlayIndInv /\ HandlesOK /\ OperationOK
=============================================================================
