-------------------------------- MODULE Overlay --------------------------------
(***************************************************************************)
(* The namespace of a sandbox: mappings (layers) and hide rules in one     *)
(* order, how a path resolves in it, what a directory lists, and the       *)
(* control commands mount, umount and hide.                                *)
(*                                                                         *)
(* A path is the sequence of its components, the root the empty one.  The  *)
(* host is fixed: each directory that can be mapped has a set of relative  *)
(* paths that exist in it and, among them, the directories.  The vectors   *)
(* of layers and hide rules are sets of entries: the entries of a vector   *)
(* are in the order of their ids.                                          *)
(***************************************************************************)
EXTENDS Naturals, Sequences, FiniteSets, SequencesExt

CONSTANTS
    Paths,          \* sandbox paths
    Locals,         \* host paths that can be mapped
    HostPaths,      \* per local: the relative paths that exist on the host
    HostDirs,       \* per local: those that are directories
    MountPoints,    \* where the operator mounts
    HidePoints,     \* what the operator hides
    MaxOrder        \* bound: overlay entries ever made

ASSUME OverlayAssumption ==
    /\ <<>> \in Paths /\ Paths \subseteq Seq(STRING)
    /\ MountPoints \subseteq Paths
    /\ HidePoints \subseteq Paths
    /\ \A l \in Locals : HostDirs[l] \subseteq HostPaths[l] /\ <<>> \in HostPaths[l]
    /\ MaxOrder \in Nat

\* On the host, whatever exists is in a directory that exists.
ASSUME HostAssumption ==
    \A l \in Locals :
        /\ HostPaths[l] \subseteq Seq(STRING)
        /\ \A q \in HostPaths[l] \ {<<>>} : Front(q) \in HostDirs[l]

VARIABLES
    layers,         \* Sandbox.layers
    hides,          \* Sandbox.hides
    next_layer_id,  \* Sandbox.next_layer_id
    next_hide_id,   \* Sandbox.next_hide_id
    stack           \* history: the mounts and hides in the order of the
                    \* commands, without the unmounted ones

overlayVars == <<layers, hides, next_layer_id, next_hide_id, stack>>

Layer == [id : Nat, local : Locals, on_fs : Paths]
Hide == [id : Nat, path : Paths]

-----------------------------------------------------------------------------
(* Paths. *)

starts_with(p, base) == IsPrefix(base, p)
strip_prefix(p, base) == SubSeq(p, Len(base) + 1, Len(p))
join(p, name) == Append(p, name)
parent(p) == SubSeq(p, 1, Len(p) - 1)

(* Resolution. *)

\* The newest entry of a set of layers or of hide rules.
newest(S) == CHOOSE e \in S : \A f \in S : f.id <= e.id

covering_layers(p) == {l \in layers : starts_with(p, l.on_fs)}
covering_hides(p) == {h \in hides : starts_with(p, h.path)}
descendant_layers(p) == {l \in layers : starts_with(l.on_fs, p) /\ l.on_fs # p}

\* newest_covering_entry: collapse_latest sorts by id and keeps the last, the
\* hide when a layer and a hide had the same id.
covered_by_hide(p) ==
    /\ covering_hides(p) # {}
    /\ \A l \in covering_layers(p) : l.id <= newest(covering_hides(p)).id

Real(p, l) == [tag |-> "real", local |-> l.local, layer |-> l.id,
               rest |-> strip_prefix(p, l.on_fs)]
VirtualDir == [tag |-> "virtual"]
Hidden == [tag |-> "hidden"]
Missing == [tag |-> "missing"]

\* The root is never hidden.
resolve_overlay(p) ==
    IF p = <<>>
    THEN IF covering_layers(p) = {} THEN VirtualDir ELSE Real(p, newest(covering_layers(p)))
    ELSE IF covered_by_hide(p)
         THEN IF \E l \in descendant_layers(p) : l.id > newest(covering_hides(p)).id
              THEN VirtualDir
              ELSE Hidden
         ELSE IF covering_layers(p) # {} THEN Real(p, newest(covering_layers(p)))
         ELSE IF descendant_layers(p) # {} THEN VirtualDir
         ELSE Missing

is_hidden(p) == resolve_overlay(p).tag = "hidden"
resolves(p) == resolve_overlay(p).tag \in {"real", "virtual"}

\* attr_for_path: what lookup and getattr find (ENOENT otherwise).
attr_for_path(p) ==
    LET r == resolve_overlay(p)
    IN  r.tag = "virtual" \/ (r.tag = "real" /\ r.rest \in HostPaths[r.local])

\* Fault: hidden names are listed.
children_with_hidden(dir) ==
    LET r == resolve_overlay(dir)
    IN  {l.on_fs[Len(dir) + 1] : l \in descendant_layers(dir)}
        \cup IF r.tag = "real" /\ r.rest \in HostDirs[r.local]
             THEN {q[Len(r.rest) + 1] : q \in {q \in HostPaths[r.local] :
                     starts_with(q, r.rest) /\ Len(q) = Len(r.rest) + 1}}
             ELSE {}

\* The names readdir gives for a directory that resolves: the first component
\* of every mapping below it, and what the host directory behind it holds.
children(dir) ==
    LET r == resolve_overlay(dir)
        of_layers == {l.on_fs[Len(dir) + 1] : l \in descendant_layers(dir)}
        of_host == IF r.tag = "real" /\ r.rest \in HostDirs[r.local]
                   THEN {q[Len(r.rest) + 1] : q \in {q \in HostPaths[r.local] :
                           starts_with(q, r.rest) /\ Len(q) = Len(r.rest) + 1}}
                   ELSE {}
    IN  {name \in of_layers : ~is_hidden(join(dir, name))}
        \cup {name \in of_host : resolves(join(dir, name))}

-----------------------------------------------------------------------------
(* The commands. *)

OverlayInit ==
    /\ layers = {}
    /\ hides = {}
    /\ next_layer_id = 1
    /\ next_hide_id = 1
    /\ stack = <<>>

\* The order of the next entry: one above every layer and every hide.
next_overlay_order == IF next_layer_id >= next_hide_id THEN next_layer_id ELSE next_hide_id

\* Fault: the id of a layer is its place in the vector.
mount_layer_reuses_ids(local, on_fs) ==
    /\ next_overlay_order <= MaxOrder
    /\ layers' = layers \cup {[id |-> Cardinality(layers) + 1, local |-> local, on_fs |-> on_fs]}
    /\ next_layer_id' = next_overlay_order + 1
    /\ next_hide_id' = next_overlay_order + 1
    /\ stack' = Append(stack, [mount |-> TRUE, local |-> local, path |-> on_fs])
    /\ UNCHANGED hides

mount_layer(local, on_fs) ==
    /\ next_overlay_order <= MaxOrder
    /\ layers' = layers \cup {[id |-> next_overlay_order, local |-> local, on_fs |-> on_fs]}
    /\ next_layer_id' = next_overlay_order + 1
    /\ next_hide_id' = next_overlay_order + 1
    /\ stack' = Append(stack, [mount |-> TRUE, local |-> local, path |-> on_fs])
    /\ UNCHANGED hides

\* The mapping made last at on_fs, and its place in the stack of commands.
layers_at(on_fs) == {l \in layers : l.on_fs = on_fs}
mounts_at(on_fs) == {n \in DOMAIN stack : stack[n].mount /\ stack[n].path = on_fs}
last_mount_at(on_fs) == CHOOSE n \in mounts_at(on_fs) : \A m \in mounts_at(on_fs) : m <= n

\* Fault: position for rposition, the first mapping at the path goes.
umount_first_layer(on_fs) ==
    /\ layers_at(on_fs) # {}
    /\ layers' = layers \ {CHOOSE l \in layers_at(on_fs) : \A m \in layers_at(on_fs) : l.id <= m.id}
    /\ stack' = RemoveAt(stack, last_mount_at(on_fs))
    /\ UNCHANGED <<hides, next_layer_id, next_hide_id>>

\* "no mount at ..." is an error that changes nothing.
umount_layer(on_fs) ==
    \/ /\ layers_at(on_fs) = {}
       /\ UNCHANGED overlayVars
    \/ /\ layers_at(on_fs) # {}
       /\ layers' = layers \ {newest(layers_at(on_fs))}
       /\ stack' = RemoveAt(stack, last_mount_at(on_fs))
       /\ UNCHANGED <<hides, next_layer_id, next_hide_id>>

hide(on_fs) ==
    /\ next_overlay_order <= MaxOrder
    /\ hides' = hides \cup {[id |-> next_overlay_order, path |-> on_fs]}
    /\ next_layer_id' = next_overlay_order + 1
    /\ next_hide_id' = next_overlay_order + 1
    /\ stack' = Append(stack, [mount |-> FALSE, path |-> on_fs])
    /\ UNCHANGED layers

OverlayNext ==
    \/ \E local \in Locals, on_fs \in MountPoints : mount_layer(local, on_fs)
    \/ \E on_fs \in MountPoints : umount_layer(on_fs)
    \/ \E on_fs \in HidePoints : hide(on_fs)

OverlaySpec == OverlayInit /\ [][OverlayNext]_overlayVars

-----------------------------------------------------------------------------
(* Properties. *)

\* Layers and hide rules carry distinct ids below the counters.
OverlayTypeOK ==
    /\ layers \subseteq Layer
    /\ hides \subseteq Hide
    /\ next_layer_id = next_hide_id
    /\ \A e \in layers \cup hides : e.id < next_layer_id
    /\ \A e, f \in layers \cup hides : e.id = f.id => e = f

\* ADR 0005: "Mounts and hides are ordered overlay entries".  resolve is the
\* last command in the stack that covers the path: a mount shows its host
\* path; a hide removes the path, except for the way to a later mount below it.
ResolutionFollowsStack ==
    \A p \in Paths \ {<<>>} :
        LET covering == {n \in DOMAIN stack : starts_with(p, stack[n].path)}
            last == CHOOSE n \in covering : \A m \in covering : m <= n
            below(n) == \E m \in DOMAIN stack :
                           /\ m > n
                           /\ stack[m].mount
                           /\ starts_with(stack[m].path, p)
            r == resolve_overlay(p)
        IN  IF covering = {}
            THEN r.tag = IF below(0) THEN "virtual" ELSE "missing"
            ELSE IF stack[last].mount
                 THEN /\ r.tag = "real"
                      /\ r.local = stack[last].local
                      /\ p = stack[last].path \o r.rest
                 ELSE r.tag = IF below(last) THEN "virtual" ELSE "hidden"

\* Listing and lookup agree: what a directory lists resolves, and whatever
\* lookup finds is listed by its parent, which resolves too.
ListingAgrees ==
    /\ \A dir \in Paths : resolves(dir) =>
          \A name \in children(dir) : resolves(join(dir, name))
    /\ \A p \in Paths \ {<<>>} : attr_for_path(p) =>
          resolves(parent(p)) /\ p[Len(p)] \in children(parent(p))

\* concepts.md: "Intermediate sandbox directories that do not exist in the
\* underlying local filesystems are virtual, in-memory directories": whoever
\* walks down to a mapping in force finds every directory on the way.
MappingsReachable ==
    \A l \in layers :
        resolve_overlay(l.on_fs) = Real(l.on_fs, l) =>
            \A p \in Paths : starts_with(l.on_fs, p) /\ p # l.on_fs => attr_for_path(p)

\* concepts.md: "Later mappings overlay earlier mappings, similar to mounts":
\* a name that the host directory does not have is listed only on the way to
\* a mapping in force.
CoveredMappingsUnlisted ==
    \A dir \in Paths : resolves(dir) =>
        \A name \in children(dir) :
            \/ attr_for_path(join(dir, name))
            \/ \E l \in layers : /\ starts_with(l.on_fs, join(dir, name))
                                 /\ resolve_overlay(l.on_fs) = Real(l.on_fs, l)

-----------------------------------------------------------------------------
(* The inductive invariant. *)

\* The entries came from the commands, under ids that the counters gave.
EntriesBounded ==
    /\ next_layer_id \in 1..MaxOrder + 1
    /\ \A e \in layers \cup hides : e.id \in 1..MaxOrder
    /\ \A l \in layers : l.on_fs \in MountPoints

Mounted == [mount : {TRUE}, local : Locals, path : Paths]
Hiding == [mount : {FALSE}, path : Paths]

\* The layer and the hide rule of a command of the stack with this id.
layer_of(c, id) == [id |-> id, local |-> c.local, on_fs |-> c.path]
hide_of(c, id) == [id |-> id, path |-> c.path]

\* ids gives the id of each command of the stack: the entries are those of the
\* commands, and the order of the ids is the order of the commands.
StackIds(ids) ==
    /\ \A m, n \in DOMAIN stack : m < n => ids[m] < ids[n]
    /\ \A n \in DOMAIN stack : IF stack[n].mount THEN layer_of(stack[n], ids[n]) \in layers
                                                 ELSE hide_of(stack[n], ids[n]) \in hides
    /\ \A l \in layers : \E n \in DOMAIN stack : stack[n].mount /\ layer_of(stack[n], ids[n]) = l
    /\ \A h \in hides : \E n \in DOMAIN stack : ~stack[n].mount /\ hide_of(stack[n], ids[n]) = h

OverlayIndInv ==
    /\ OverlayTypeOK
    /\ EntriesBounded
    /\ stack \in Seq(Mounted \cup Hiding)
    /\ \E ids \in [DOMAIN stack -> 1..MaxOrder] : StackIds(ids)
=============================================================================
