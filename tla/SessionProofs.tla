----------------------------- MODULE SessionProofs -----------------------------
(***************************************************************************)
(* Proofs about Session, for any number of connections, mountpoints and    *)
(* views, with and without failures of mounts and of the log.  The entries *)
(* of the registry, the live sessions, the kernel's mounts and what the    *)
(* threads of the commands are about to do fit together as long as no two  *)
(* connections attach at the same time.                                    *)
(***************************************************************************)
EXTENDS Session, TLAPS

USE SessionAssumption

-----------------------------------------------------------------------------
(* What most steps need. *)

\* The types, in the form the steps use.
LEMMA Types ==
  ASSUME SessionIndInv
  PROVE  /\ TypeOK /\ JobsCoherent /\ ViewsFresh
         /\ next_view \in 1..(MaxAttach + 1)
         /\ job \in [Threads -> Jobs]
         /\ attaches \subseteq [mountpoint : Points, id : Views]
         /\ mounts \subseteq [mountpoint : Points, id : Views]
         /\ mounted \subseteq Views
         /\ \A s, r \in mounts : s.id < next_view /\ (s.id = r.id => s = r)
         /\ Idle \in Jobs
BY DEF SessionIndInv, TypeOK, JobsCoherent, Idle, Jobs, PCs

\* A session is its mountpoint and its id.
LEMMA SessionIs ==
  ASSUME NEW m, NEW v
  PROVE  /\ Session(m, v).mountpoint = m /\ Session(m, v).id = v
         /\ \A e \in [mountpoint : Points, id : Views] :
              e = Session(m, v) <=> e.mountpoint = m /\ e.id = v
BY DEF Session

\* A step of one thread.
LEMMA OneThread ==
  ASSUME job \in [Threads -> Jobs], NEW t \in Threads, NEW j \in Jobs, job' = [job EXCEPT ![t] = j]
  PROVE  /\ job' \in [Threads -> Jobs]
         /\ job'[t] = j /\ own(t)' = Session(j.at, j.view)
         /\ \A u \in Threads : u # t => job'[u] = job[u] /\ own(u)' = own(u)
<1>1. job' \in [Threads -> Jobs] /\ job'[t] = j /\ \A u \in Threads : u # t => job'[u] = job[u]
  OBVIOUS
<1> QED BY <1>1 DEF own

\* The parts of the invariant that the threads and views are in.
Coherent == JobsCoherent /\ ViewsFresh /\ (AttachesSerially => SerialInv)

\* A step that leaves the threads and the views alone.
LEMMA StillCoherent ==
  ASSUME SessionIndInv, UNCHANGED <<job, attaches, mounts, mounted, next_view, sandbox>>
  PROVE  Coherent'
<1>1. JobsCoherent' /\ ViewsFresh'
  BY DEF SessionIndInv, JobsCoherent, ViewsFresh
<1>2. ASSUME AttachesSerially PROVE SerialInv'
  <2>1. SerialInv
    BY <1>2 DEF SessionIndInv
  <2>2. \A t \in Threads : own(t)' = own(t)
    BY DEF own
  <2>3. OneAttaching' /\ AttachingAlone' /\ NewView'
    BY <2>1, <2>2 DEF SerialInv, OneAttaching, AttachingAlone, NewView, attached_at
  <2>4. EntriesDistinct' /\ RemovingAlone'
    BY <2>1, <2>2 DEF SerialInv, EntriesDistinct, RemovingAlone
  <2>5. OneViewPerMountpoint' /\ MountedKnown' /\ EntriesServed'
    BY <2>1, <2>2 DEF SerialInv, OneViewPerMountpoint, MountedKnown, EntriesServed
  <2> QED BY <2>3, <2>4, <2>5 DEF SerialInv
<1> QED BY <1>1, <1>2 DEF Coherent, AttachesSerially

\* A thread that has no view in hand goes where it has none.
LEMMA QuietCoherent ==
  ASSUME SessionIndInv, NEW t \in Threads, NEW j \in Jobs, job' = [job EXCEPT ![t] = j],
         job[t].pc \notin {"push_mount", "record_attach"} \cup Removing,
         j.pc \notin Attaching \cup {"insert_trusted"} \cup Detaching,
         j.pc = "find_attach" => j.at \in Points,
         UNCHANGED <<attaches, mounts, mounted, next_view, sandbox>>
  PROVE  Coherent'
<1>1. /\ job' \in [Threads -> Jobs] /\ job'[t] = j
      /\ \A u \in Threads : u # t => job'[u] = job[u] /\ own(u)' = own(u)
  BY Types, OneThread
<1>2. JobsCoherent'
  BY <1>1, Types DEF JobsCoherent, Attaching, Making, Detaching
<1>3. ViewsFresh'
  BY <1>1, Types DEF ViewsFresh, Attaching
<1>4. ASSUME AttachesSerially PROVE SerialInv'
  <2>1. SerialInv
    BY <1>4 DEF SessionIndInv
  <2>2. OneAttaching'
    BY <1>1, <2>1 DEF SerialInv, OneAttaching
  <2>3. AttachingAlone'
    BY <1>1, <2>1 DEF SerialInv, AttachingAlone, attached_at, Removing, Detaching
  <2>4. NewView'
    BY <1>1, <2>1 DEF SerialInv, NewView, Making, Attaching
  <2>5. EntriesDistinct'
    BY <1>1, <2>1 DEF SerialInv, EntriesDistinct, Attaching
  <2>6. RemovingAlone'
    BY <1>1, <2>1 DEF SerialInv, RemovingAlone, Removing, Detaching
  <2>7. OneViewPerMountpoint' /\ MountedKnown' /\ EntriesServed'
    BY <1>1, <2>1 DEF SerialInv, OneViewPerMountpoint, MountedKnown, EntriesServed
  <2> QED BY <2>2, <2>3, <2>4, <2>5, <2>6, <2>7 DEF SerialInv
<1> QED BY <1>2, <1>3, <1>4 DEF Coherent, AttachesSerially

-----------------------------------------------------------------------------
(* Adding a view. *)

\* The first section of attach: the mountpoint is free, and nobody else attaches.
LEMMA AttachCoherent ==
  ASSUME SessionIndInv, NEW c \in Clients, NEW m \in Points, attach(c, m)
  PROVE  Coherent'
<1> DEFINE j == [Idle EXCEPT !.pc = "attach_ids", !.at = m,
                   !.cmd = IF m \in TempPoints THEN "begin_trusted" ELSE "attach"]
<1>1. /\ c \in Threads /\ j \in Jobs /\ job' = [job EXCEPT ![c] = j]
      /\ j.pc = "attach_ids" /\ j.at = m /\ j.cmd = IF m \in TempPoints THEN "begin_trusted" ELSE "attach"
      /\ j.cmd \in Commands[c] \cap {"attach", "begin_trusted"}
      /\ job[c].pc = "accepted" /\ sandbox /\ attached_at(m) = {}
      /\ UNCHANGED <<attaches, mounts, mounted, next_view, sandbox>>
  BY DEF attach, Receives, At, Idle, Jobs, PCs, Threads, Points, registryVars, fuseVars
<1> HIDE DEF j
<1>2. /\ job' \in [Threads -> Jobs] /\ job'[c] = j
      /\ \A u \in Threads : u # c => job'[u] = job[u] /\ own(u)' = own(u)
  BY <1>1, Types, OneThread
<1>3. JobsCoherent'
  BY <1>1, <1>2, Types DEF JobsCoherent, Attaching, Making, Detaching
<1>4. ViewsFresh'
  BY <1>1, <1>2, Types DEF ViewsFresh
<1>5. ASSUME AttachesSerially PROVE SerialInv'
  <2>1. SerialInv
    BY <1>5 DEF SessionIndInv
  <2>2. \A u \in Threads : u # c => job[u].pc \notin Attaching
    <3>1. \A u \in Threads : job[u].pc \in Attaching =>
             u \in Clients /\ Commands[u] \cap {"attach", "begin_trusted"} # {}
      BY Types DEF JobsCoherent
    <3> QED BY <1>1, <1>5, <3>1 DEF AttachesSerially
  <2>3. OneAttaching'
    BY <1>1, <1>2, <2>1, <2>2 DEF SerialInv, OneAttaching
  <2>4. \A s \in mounts : s.mountpoint # m
    BY <1>1, <2>1, <2>2 DEF SerialInv, EntriesDistinct, attached_at, Attaching
  <2>5. \A u \in Threads : job[u].pc \in Removing => job[u].at # m
    <3>1. \A u \in Threads : job[u].pc \in Removing => own(u) \in attaches
      BY <1>1, <2>1 DEF SerialInv, RemovingAlone
    <3>2. \A u \in Threads : own(u).mountpoint = job[u].at
      BY SessionIs DEF own
    <3> QED BY <1>1, <3>1, <3>2 DEF attached_at
  <2>6. AttachingAlone'
    <3>1. ASSUME NEW u \in Threads, u # c, job'[u].pc \in Attaching PROVE FALSE
      BY <1>2, <2>2, <3>1
    <3>2. \A u \in Threads : job'[u].pc \in Removing => job[u].pc \in Removing /\ job'[u] = job[u]
      BY <1>1, <1>2 DEF Removing
    <3>3. attached_at(m)' = {} /\ \A s \in mounts' : s.mountpoint # m
      BY <1>1, <2>4 DEF attached_at
    <3> QED BY <1>1, <1>2, <2>5, <3>1, <3>2, <3>3 DEF AttachingAlone
  <2>7. NewView'
    BY <1>1, <1>2, <2>1 DEF SerialInv, NewView, Making, Detaching
  <2>8. EntriesDistinct' /\ OneViewPerMountpoint' /\ MountedKnown'
    BY <1>1, <1>2, <2>1 DEF SerialInv, EntriesDistinct, OneViewPerMountpoint, MountedKnown
  <2>9. RemovingAlone' /\ EntriesServed'
    BY <1>1, <1>2, <2>1 DEF SerialInv, RemovingAlone, EntriesServed, Removing
  <2> QED BY <2>3, <2>6, <2>7, <2>8, <2>9 DEF SerialInv
<1> QED BY <1>3, <1>4, <1>5 DEF Coherent, AttachesSerially

\* The second section: the id of the view is given to nobody else.
LEMMA AttachIdsCoherent ==
  ASSUME SessionIndInv, NEW c \in Threads, attach_ids(c)
  PROVE  Coherent'
<1>1. CASE Return(c) /\ UNCHANGED next_view
  <2>1. /\ job' = [job EXCEPT ![c] = Idle] /\ Idle.pc = "idle" /\ job[c].pc = "attach_ids"
        /\ UNCHANGED <<attaches, mounts, mounted, next_view, sandbox>>
    BY <1>1 DEF attach_ids, At, Return, Idle, registryVars
  <2> QED BY <2>1, Types, QuietCoherent DEF Attaching, Detaching, Removing
<1>2. CASE sandbox /\ next_view \in Views /\ next_view' = next_view + 1
           /\ job' = [job EXCEPT ![c].pc = "spawn_mount", ![c].view = next_view]
  <2> DEFINE j == [job[c] EXCEPT !.pc = "spawn_mount", !.view = next_view]
  <2>1. /\ job[c].pc = "attach_ids" /\ job[c] \in Jobs
        /\ UNCHANGED <<attaches, mounts, mounted, sandbox>>
    BY <1>2, Types DEF attach_ids, At, registryVars
  <2>2. /\ j \in Jobs /\ job' = [job EXCEPT ![c] = j]
        /\ j.pc = "spawn_mount" /\ j.view = next_view /\ j.at = job[c].at /\ j.cmd = job[c].cmd
    BY <1>2, <2>1, Types DEF Jobs, PCs
  <2> HIDE DEF j
  <2>3. /\ job' \in [Threads -> Jobs] /\ job'[c] = j
        /\ \A u \in Threads : u # c => job'[u] = job[u] /\ own(u)' = own(u)
    BY <2>2, Types, OneThread
  <2>4. next_view \in Nat /\ next_view' = next_view + 1 /\ \A n \in Views : n \in Nat /\ (n < next_view => n < next_view')
    BY <1>2 DEF Views
  <2>5. JobsCoherent'
    BY <1>2, <2>1, <2>2, <2>3, <2>4, Types DEF JobsCoherent, Attaching, Making, Detaching
  <2>6. ViewsFresh'
    <3>1. (\A e \in attaches' : e.id < next_view') /\ \A v \in mounted' : v < next_view'
      BY <2>1, <2>4, Types DEF ViewsFresh
    <3>2. \A s \in mounts : s.id # next_view
      BY <2>4, Types
    <3>3. ASSUME NEW u \in Threads, u # c, job'[u].pc \in {"spawn_mount", "push_mount"}
          PROVE  job'[u].view # next_view
      BY <2>3, <2>4, <3>3, Types DEF JobsCoherent, Making
    <3>4. ASSUME NEW u \in Threads, u # c, job'[u].pc \in {"spawn_mount", "push_mount"}
          PROVE  /\ \A s \in mounts' : s.id # job'[u].view
                 /\ \A w \in Threads : job'[w].pc \in {"spawn_mount", "push_mount"}
                                       /\ job'[w].view = job'[u].view => w = u
      BY <2>1, <2>2, <2>3, <3>3, <3>4, Types DEF ViewsFresh
    <3>5. \A s \in mounts' : s.id # job'[c].view
      BY <2>1, <2>2, <2>3, <3>2
    <3>6. \A w \in Threads : job'[w].pc \in {"spawn_mount", "push_mount"}
                              /\ job'[w].view = job'[c].view => w = c
      BY <2>2, <2>3, <3>3
    <3> QED BY <3>1, <3>4, <3>5, <3>6 DEF ViewsFresh
  <2>7. ASSUME AttachesSerially PROVE SerialInv'
    <3>1. SerialInv
      BY <2>7 DEF SessionIndInv
    <3>2. OneAttaching'
      BY <2>1, <2>2, <2>3, <3>1 DEF SerialInv, OneAttaching, Attaching
    <3>3. AttachingAlone'
      BY <2>1, <2>2, <2>3, <3>1 DEF SerialInv, AttachingAlone, attached_at, Attaching, Removing
    <3>4. NewView'
      <4>1. \A e \in attaches : e.id # next_view
        BY <2>4, Types DEF ViewsFresh
      <4>2. \A u \in Threads : job'[u].pc \in Detaching => u # c /\ job'[u].view # next_view
        BY <2>2, <2>3, <2>4, Types DEF JobsCoherent, Detaching
      <4> QED BY <2>1, <2>2, <2>3, <3>1, <4>1, <4>2 DEF SerialInv, NewView
    <3>5. EntriesDistinct' /\ OneViewPerMountpoint' /\ MountedKnown'
      BY <2>1, <2>2, <2>3, <3>1 DEF SerialInv, EntriesDistinct, OneViewPerMountpoint, MountedKnown
    <3>6. RemovingAlone' /\ EntriesServed'
      BY <2>1, <2>2, <2>3, <3>1 DEF SerialInv, RemovingAlone, EntriesServed, Removing
    <3> QED BY <3>2, <3>3, <3>4, <3>5, <3>6 DEF SerialInv
  <2> QED BY <2>5, <2>6, <2>7 DEF Coherent, AttachesSerially
<1> QED BY <1>1, <1>2 DEF attach_ids

\* The FUSE mount: the view is mounted and its thread knows it.
LEMMA SpawnCoherent ==
  ASSUME SessionIndInv, NEW c \in Threads, spawn_mount2(c)
  PROVE  Coherent'
<1>1. CASE Return(c) /\ UNCHANGED <<mounted, loop>>
  <2>1. /\ job' = [job EXCEPT ![c] = Idle] /\ Idle.pc = "idle" /\ job[c].pc = "spawn_mount"
        /\ UNCHANGED <<attaches, mounts, mounted, next_view, sandbox>>
    BY <1>1 DEF spawn_mount2, At, Return, Idle, registryVars
  <2> QED BY <2>1, Types, QuietCoherent DEF Attaching, Detaching, Removing
<1>2. CASE mounted' = mounted \cup {job[c].view} /\ Goto(c, "push_mount")
  <2> DEFINE j == [job[c] EXCEPT !.pc = "push_mount"]
  <2>1. /\ job[c].pc = "spawn_mount" /\ job[c] \in Jobs
        /\ UNCHANGED <<attaches, mounts, next_view, sandbox>>
    BY <1>2, Types DEF spawn_mount2, At, registryVars
  <2>2. /\ j \in Jobs /\ job' = [job EXCEPT ![c] = j]
        /\ j.pc = "push_mount" /\ j.view = job[c].view /\ j.at = job[c].at /\ j.cmd = job[c].cmd
    BY <1>2, <2>1, Types DEF Goto, Jobs, PCs
  <2> HIDE DEF j
  <2>3. /\ job' \in [Threads -> Jobs] /\ job'[c] = j
        /\ \A u \in Threads : u # c => job'[u] = job[u] /\ own(u)' = own(u)
    BY <2>2, Types, OneThread
  <2>4. JobsCoherent'
    BY <2>1, <2>2, <2>3, Types DEF JobsCoherent, Attaching, Making, Detaching
  <2>5. ViewsFresh'
    BY <1>2, <2>1, <2>2, <2>3, Types DEF ViewsFresh, JobsCoherent, Making
  <2>6. ASSUME AttachesSerially PROVE SerialInv'
    <3>1. SerialInv
      BY <2>6 DEF SessionIndInv
    <3>2. OneAttaching'
      BY <2>1, <2>2, <2>3, <3>1 DEF SerialInv, OneAttaching, Attaching
    <3>3. AttachingAlone'
      BY <2>1, <2>2, <2>3, <3>1 DEF SerialInv, AttachingAlone, attached_at, Attaching, Removing
    <3>4. NewView'
      BY <2>1, <2>2, <2>3, <3>1 DEF SerialInv, NewView, Making, Detaching
    <3>5. EntriesDistinct' /\ OneViewPerMountpoint'
      BY <2>1, <2>2, <2>3, <3>1 DEF SerialInv, EntriesDistinct, OneViewPerMountpoint
    <3>6. MountedKnown'
      BY <1>2, <2>1, <2>2, <2>3, <3>1 DEF SerialInv, MountedKnown
    <3>7. RemovingAlone'
      <4>1. \A u \in Threads : job[u].pc \in Removing => job[u].view # job[c].view
        BY <2>1, <3>1 DEF SerialInv, NewView, Making, Detaching, Removing
      <4> QED BY <1>2, <2>1, <2>2, <2>3, <3>1, <4>1 DEF SerialInv, RemovingAlone, Removing
    <3>8. EntriesServed'
      BY <2>1, <2>2, <2>3, <3>1 DEF SerialInv, EntriesServed, Removing
    <3> QED BY <3>2, <3>3, <3>4, <3>5, <3>6, <3>7, <3>8 DEF SerialInv
  <2> QED BY <2>4, <2>5, <2>6 DEF Coherent, AttachesSerially
<1> QED BY <1>1, <1>2 DEF spawn_mount2

\* The session goes into the table: it is the only one at its mountpoint.
LEMMA PushCoherent ==
  ASSUME SessionIndInv, NEW c \in Threads, push_mount(c)
  PROVE  Coherent'
<1> DEFINE j == [job[c] EXCEPT !.pc = "record_attach"]
<1>1. /\ job[c].pc = "push_mount" /\ job[c] \in Jobs /\ mounts' = mounts \cup {own(c)}
      /\ UNCHANGED <<attaches, mounted, next_view, sandbox>>
  BY Types DEF push_mount, At, registryVars, own
<1>2. /\ j \in Jobs /\ job' = [job EXCEPT ![c] = j]
      /\ j.pc = "record_attach" /\ j.view = job[c].view /\ j.at = job[c].at /\ j.cmd = job[c].cmd
  BY <1>1, Types DEF push_mount, Goto, Jobs, PCs
<1> HIDE DEF j
<1>3. /\ job' \in [Threads -> Jobs] /\ job'[c] = j /\ own(c)' = own(c)
      /\ \A u \in Threads : u # c => job'[u] = job[u] /\ own(u)' = own(u)
  BY <1>2, Types, OneThread DEF own
<1>4. own(c).mountpoint = job[c].at /\ own(c).id = job[c].view
  BY SessionIs DEF own
<1>5. JobsCoherent'
  BY <1>1, <1>2, <1>3, Types DEF JobsCoherent, Attaching, Making, Detaching
<1>6. ViewsFresh'
  <2>1. \A u \in Threads : job'[u].pc \in {"spawn_mount", "push_mount"} => u # c /\ job'[u] = job[u]
    BY <1>2, <1>3
  <2>2. \A u \in Threads : job[u].pc \in {"spawn_mount", "push_mount"} /\ u # c => job[u].view # job[c].view
    BY <1>1, Types DEF ViewsFresh
  <2> QED BY <1>1, <1>4, <2>1, <2>2, Types DEF ViewsFresh
<1>7. ASSUME AttachesSerially PROVE SerialInv'
  <2>1. SerialInv
    BY <1>7 DEF SessionIndInv
  <2>2. \A u \in Threads : u # c => job[u].pc \notin Attaching
    BY <1>1, <2>1 DEF SerialInv, OneAttaching, Attaching
  <2>3. \A s \in mounts : s.mountpoint # job[c].at
    BY <1>1, <2>1 DEF SerialInv, AttachingAlone, Attaching
  <2>4. OneAttaching'
    BY <1>3, <2>2 DEF OneAttaching
  <2>5. AttachingAlone'
    BY <1>1, <1>2, <1>3, <2>1, <2>2 DEF SerialInv, AttachingAlone, attached_at, Attaching, Removing
  <2>6. NewView'
    BY <1>1, <1>2, <1>3, <2>1 DEF SerialInv, NewView, Making, Detaching
  <2>7. EntriesDistinct'
    BY <1>1, <1>2, <1>3, <2>1 DEF SerialInv, EntriesDistinct
  <2>8. OneViewPerMountpoint'
    BY <1>1, <1>4, <2>1, <2>3 DEF SerialInv, OneViewPerMountpoint
  <2>9. MountedKnown'
    BY <1>1, <1>2, <1>3, <2>1 DEF SerialInv, MountedKnown
  <2>10. RemovingAlone'
    <3>1. \A u \in Threads : job[u].pc \in Removing => own(u) # own(c)
      <4>1. \A u \in Threads : job[u].pc \in Removing => job[u].view # job[c].view
        BY <1>1, <2>1 DEF SerialInv, NewView, Making, Detaching, Removing
      <4>2. \A u \in Threads : own(u).id = job[u].view
        BY SessionIs DEF own
      <4> QED BY <4>1, <4>2
    <3> QED BY <1>1, <1>2, <1>3, <2>1, <3>1 DEF SerialInv, RemovingAlone, Removing
  <2>11. EntriesServed'
    BY <1>1, <1>2, <1>3, <2>1 DEF SerialInv, EntriesServed, Removing
  <2> QED BY <2>4, <2>5, <2>6, <2>7, <2>8, <2>9, <2>10, <2>11 DEF SerialInv
<1> QED BY <1>5, <1>6, <1>7 DEF Coherent, AttachesSerially

\* The last section: the session gets its entry, the only one at its mountpoint.
LEMMA RecordCoherent ==
  ASSUME SessionIndInv, NEW c \in Threads, record_attach(c)
  PROVE  Coherent'
<1>1. /\ job[c].pc = "record_attach" /\ job[c] \in Jobs
      /\ UNCHANGED <<mounts, mounted, next_view, sandbox>>
  BY Types DEF record_attach, At, fuseVars
<1>2. PICK j \in Jobs :
         /\ job' = [job EXCEPT ![c] = j]
         /\ \/ j = Idle
            \/ j.pc = "insert_trusted" /\ j.cmd = "begin_trusted" /\ job[c].cmd = "begin_trusted"
               /\ j.at = job[c].at
  <2>1. CASE Return(c)
    BY <2>1, Types DEF Return
  <2>2. CASE job[c].cmd = "begin_trusted" /\ Goto(c, "insert_trusted")
    <3> DEFINE k == [job[c] EXCEPT !.pc = "insert_trusted"]
    <3>1. k \in Jobs /\ job' = [job EXCEPT ![c] = k] /\ k.pc = "insert_trusted"
          /\ k.cmd = "begin_trusted" /\ k.at = job[c].at
      BY <1>1, <2>2, Types DEF Goto, Jobs, PCs
    <3> QED BY <2>2, <3>1
  <2> QED BY <2>1, <2>2 DEF record_attach
<1>3. /\ job' \in [Threads -> Jobs] /\ job'[c] = j
      /\ \A u \in Threads : u # c => job'[u] = job[u] /\ own(u)' = own(u)
  BY <1>2, Types, OneThread
<1>4. j.pc \in {"idle", "insert_trusted"}
  BY <1>2 DEF Idle
<1>5. \/ sandbox /\ attaches' = (attaches \ attached_at(job[c].at)) \cup {own(c)}
      \/ ~sandbox /\ attaches' = attaches
  BY DEF record_attach, own
<1>6. own(c).mountpoint = job[c].at /\ own(c).id = job[c].view /\ job[c].view < next_view
  BY <1>1, SessionIs, Types DEF own, JobsCoherent, Making
<1>7. JobsCoherent'
  <2>1. \A u \in Threads : u # c => job'[u] = job[u]
    BY <1>3
  <2>2. j.pc = "insert_trusted" => /\ c \in Clients /\ j.cmd \in Commands[c] \cap {"attach", "begin_trusted"}
                                   /\ j.at \in TempPoints /\ j.cmd = "begin_trusted"
    BY <1>1, <1>2, Types DEF JobsCoherent, Attaching, Idle
  <2> QED BY <1>1, <1>3, <1>4, <2>1, <2>2, Types DEF JobsCoherent, Attaching, Making, Detaching, Points
<1>8. ViewsFresh'
  BY <1>1, <1>3, <1>4, <1>5, <1>6, Types DEF ViewsFresh
<1>9. ASSUME AttachesSerially PROVE SerialInv'
  <2>1. SerialInv
    BY <1>9 DEF SessionIndInv
  <2>2. \A u \in Threads : job'[u].pc \notin Attaching
    BY <1>1, <1>3, <1>4, <2>1 DEF SerialInv, OneAttaching, Attaching
  <2>3. attached_at(job[c].at) = {} /\ own(c) \in mounts
    BY <1>1, <2>1 DEF SerialInv, AttachingAlone, Attaching
  <2>4. \/ sandbox /\ attaches' = attaches \cup {own(c)}
        \/ ~sandbox /\ attaches' = attaches
    BY <1>5, <2>3
  <2>5. OneAttaching' /\ AttachingAlone' /\ NewView'
    BY <2>2 DEF OneAttaching, AttachingAlone, NewView, Making, Attaching
  <2>6. EntriesDistinct'
    <3>1. \A e \in attaches : e.mountpoint # own(c).mountpoint
      BY <1>6, <2>3 DEF attached_at
    <3>2. \A e, f \in attaches' : e.mountpoint = f.mountpoint => e = f
      BY <2>1, <2>4, <3>1 DEF SerialInv, EntriesDistinct
    <3>3. ASSUME sandbox', NEW s \in mounts' PROVE s \in attaches'
      <4>1. s \in attaches \/ \E u \in Threads : job[u].pc = "record_attach" /\ own(u) = s
        BY <1>1, <2>1, <3>3 DEF SerialInv, EntriesDistinct
      <4>2. \A u \in Threads : job[u].pc = "record_attach" => u = c
        BY <1>1, <2>1 DEF SerialInv, OneAttaching, Attaching
      <4> QED BY <1>1, <2>4, <3>3, <4>1, <4>2
    <3> QED BY <1>1, <2>1, <2>4, <3>2, <3>3 DEF SerialInv, EntriesDistinct
  <2>7. RemovingAlone'
    BY <1>1, <1>3, <1>4, <2>1, <2>4 DEF SerialInv, RemovingAlone, Removing
  <2>8. OneViewPerMountpoint'
    BY <1>1, <2>1 DEF SerialInv, OneViewPerMountpoint
  <2>9. MountedKnown'
    BY <1>1, <1>3, <1>6, <2>1, <2>4 DEF SerialInv, MountedKnown
  <2>10. EntriesServed'
    BY <1>1, <1>3, <2>1, <2>3, <2>4 DEF SerialInv, EntriesServed, Removing
  <2> QED BY <2>5, <2>6, <2>7, <2>8, <2>9, <2>10 DEF SerialInv
<1> QED BY <1>7, <1>8, <1>9 DEF Coherent, AttachesSerially

-----------------------------------------------------------------------------
(* Taking a view down. *)

\* The entry at the mountpoint is found: its view is not one being made.
LEMMA FindCoherent ==
  ASSUME SessionIndInv, NEW t \in Threads, find_attach(t)
  PROVE  Coherent'
<1>1. job[t].pc = "find_attach" /\ job[t] \in Jobs
      /\ UNCHANGED <<attaches, mounts, mounted, next_view, sandbox>>
  BY Types DEF find_attach, At, registryVars, fuseVars
<1>2. CASE Return(t)
  <2>1. job' = [job EXCEPT ![t] = Idle] /\ Idle.pc = "idle"
    BY <1>2 DEF Return, Idle
  <2> QED BY <1>1, <2>1, Types, QuietCoherent DEF Attaching, Detaching, Removing
<1>3. ASSUME NEW e \in attached_at(job[t].at),
             job' = [job EXCEPT ![t].pc = "cancel_view", ![t].view = e.id]
      PROVE  Coherent'
  <2> DEFINE j == [job[t] EXCEPT !.pc = "cancel_view", !.view = e.id]
  <2>1. e \in attaches /\ e.id \in Views /\ e.id < next_view
    BY Types DEF attached_at, ViewsFresh
  <2>2. /\ j \in Jobs /\ job' = [job EXCEPT ![t] = j]
        /\ j.pc = "cancel_view" /\ j.view = e.id /\ j.at = job[t].at
    BY <1>1, <1>3, <2>1, Types DEF Jobs, PCs
  <2> HIDE DEF j
  <2>3. /\ job' \in [Threads -> Jobs] /\ job'[t] = j
        /\ \A u \in Threads : u # t => job'[u] = job[u] /\ own(u)' = own(u)
    BY <2>2, Types, OneThread
  <2>4. JobsCoherent'
    BY <1>1, <2>1, <2>2, <2>3, Types DEF JobsCoherent, Attaching, Making, Detaching
  <2>5. ViewsFresh'
    BY <1>1, <2>2, <2>3, Types DEF ViewsFresh
  <2>6. ASSUME AttachesSerially PROVE SerialInv'
    <3>1. SerialInv
      BY <2>6 DEF SessionIndInv
    <3>2. OneAttaching'
      BY <2>2, <2>3, <3>1 DEF SerialInv, OneAttaching, Attaching
    <3>3. AttachingAlone'
      BY <1>1, <2>2, <2>3, <3>1 DEF SerialInv, AttachingAlone, attached_at, Attaching, Removing
    <3>4. NewView'
      BY <1>1, <2>1, <2>2, <2>3, <3>1 DEF SerialInv, NewView, Making, Detaching
    <3>5. EntriesDistinct' /\ OneViewPerMountpoint' /\ MountedKnown'
      BY <1>1, <2>2, <2>3, <3>1 DEF SerialInv, EntriesDistinct, OneViewPerMountpoint, MountedKnown
    <3>6. RemovingAlone' /\ EntriesServed'
      BY <1>1, <2>2, <2>3, <3>1 DEF SerialInv, RemovingAlone, EntriesServed, Removing
    <3> QED BY <3>2, <3>3, <3>4, <3>5, <3>6 DEF SerialInv
  <2> QED BY <2>4, <2>5, <2>6 DEF Coherent, AttachesSerially
<1> QED BY <1>2, <1>3 DEF find_attach, Fail

\* cancel_attached_view leaves the views alone.
LEMMA CancelViewCoherent ==
  ASSUME SessionIndInv, NEW t \in Threads, cancel_view(t)
  PROVE  Coherent'
<1> DEFINE j == [job[t] EXCEPT !.pc = "take_mount"]
<1>1. job[t].pc = "cancel_view" /\ job[t] \in Jobs
      /\ UNCHANGED <<attaches, mounts, mounted, next_view, sandbox>>
  BY Types DEF cancel_view, At
<1>2. /\ j \in Jobs /\ job' = [job EXCEPT ![t] = j]
      /\ j.pc = "take_mount" /\ j.view = job[t].view /\ j.at = job[t].at
  BY <1>1, Types DEF cancel_view, Goto, Jobs, PCs
<1> HIDE DEF j
<1>3. /\ job' \in [Threads -> Jobs] /\ job'[t] = j
      /\ \A u \in Threads : u # t => job'[u] = job[u] /\ own(u)' = own(u)
  BY <1>2, Types, OneThread
<1>4. JobsCoherent'
  BY <1>1, <1>2, <1>3, Types DEF JobsCoherent, Attaching, Making, Detaching
<1>5. ViewsFresh'
  BY <1>1, <1>2, <1>3, Types DEF ViewsFresh
<1>6. ASSUME AttachesSerially PROVE SerialInv'
  <2>1. SerialInv
    BY <1>6 DEF SessionIndInv
  <2>2. OneAttaching'
    BY <1>2, <1>3, <2>1 DEF SerialInv, OneAttaching, Attaching
  <2>3. AttachingAlone'
    BY <1>1, <1>2, <1>3, <2>1 DEF SerialInv, AttachingAlone, attached_at, Attaching, Removing
  <2>4. NewView'
    BY <1>1, <1>2, <1>3, <2>1 DEF SerialInv, NewView, Making, Detaching
  <2>5. EntriesDistinct' /\ OneViewPerMountpoint' /\ MountedKnown'
    BY <1>1, <1>2, <1>3, <2>1 DEF SerialInv, EntriesDistinct, OneViewPerMountpoint, MountedKnown
  <2>6. RemovingAlone' /\ EntriesServed'
    BY <1>1, <1>2, <1>3, <2>1 DEF SerialInv, RemovingAlone, EntriesServed, Removing
  <2> QED BY <2>2, <2>3, <2>4, <2>5, <2>6 DEF SerialInv
<1> QED BY <1>4, <1>5, <1>6 DEF Coherent, AttachesSerially

\* The session is taken from the table by one thread, which then owns its entry.
LEMMA TakeMountCoherent ==
  ASSUME SessionIndInv, NEW t \in Threads, take_mount(t)
  PROVE  Coherent'
<1>1. job[t].pc = "take_mount" /\ job[t] \in Jobs /\ mounts' = mounts \ {own(t)}
      /\ UNCHANGED <<attaches, mounted, next_view, sandbox>>
  BY Types DEF take_mount, At, registryVars, own
<1>2. CASE own(t) \notin mounts /\ Return(t)
  <2>1. job' = [job EXCEPT ![t] = Idle] /\ Idle.pc = "idle" /\ mounts' = mounts
    BY <1>1, <1>2 DEF Return, Idle
  <2> QED BY <1>1, <2>1, Types, QuietCoherent DEF Attaching, Detaching, Removing
<1>3. CASE own(t) \in mounts /\ Goto(t, "umount")
  <2> DEFINE j == [job[t] EXCEPT !.pc = "umount"]
  <2>1. /\ j \in Jobs /\ job' = [job EXCEPT ![t] = j]
        /\ j.pc = "umount" /\ j.view = job[t].view /\ j.at = job[t].at
    BY <1>1, <1>3, Types DEF Goto, Jobs, PCs
  <2> HIDE DEF j
  <2>2. /\ job' \in [Threads -> Jobs] /\ job'[t] = j /\ own(t)' = own(t)
        /\ \A u \in Threads : u # t => job'[u] = job[u] /\ own(u)' = own(u)
    BY <2>1, Types, OneThread DEF own
  <2>3. JobsCoherent'
    BY <1>1, <2>1, <2>2, Types DEF JobsCoherent, Attaching, Making, Detaching
  <2>4. ViewsFresh'
    BY <1>1, <2>1, <2>2, Types DEF ViewsFresh
  <2>5. ASSUME AttachesSerially PROVE SerialInv'
    <3>1. SerialInv
      BY <2>5 DEF SessionIndInv
    <3>2. \A u \in Threads : own(u).id = job[u].view /\ own(u).mountpoint = job[u].at
      BY SessionIs DEF own
    <3>3. \A u \in Threads : job[u].pc \in Making => own(u) # own(t)
      BY <1>1, <3>1, <3>2 DEF SerialInv, NewView, Detaching
    <3>4. sandbox => own(t) \in attaches
      BY <1>3, <3>1, <3>3 DEF SerialInv, EntriesDistinct, Making
    <3>5. \A u \in Threads : job[u].pc \in Attaching => job[u].at # job[t].at
      BY <1>3, <3>1, <3>2, <3>3 DEF SerialInv, AttachingAlone, Attaching, Making, OneViewPerMountpoint
    <3>6. OneAttaching'
      BY <2>1, <2>2, <3>1 DEF SerialInv, OneAttaching, Attaching
    <3>7. AttachingAlone'
      <4>1. ASSUME NEW u \in Threads, job'[u].pc \in Attaching
            PROVE  u # t /\ job'[u] = job[u] /\ own(u)' = own(u) /\ job[u].at # job[t].at
        BY <2>1, <2>2, <3>5, <4>1 DEF Attaching
      <4>2. ASSUME NEW u \in Threads, job'[u].pc \in Attaching
            PROVE  \A w \in Threads : job'[w].pc \in Removing => job'[w].at # job'[u].at
        BY <2>1, <2>2, <3>1, <4>1, <4>2 DEF SerialInv, AttachingAlone
      <4>3. ASSUME NEW u \in Threads, job'[u].pc \in Attaching
            PROVE  /\ attached_at(job[u].at)' = {}
                   /\ job[u].pc # "record_attach" => \A s \in mounts' : s.mountpoint # job[u].at
                   /\ job[u].pc = "record_attach" => own(u) \in mounts'
        <5>1. job[u].pc = "record_attach" => own(u) # own(t)
          BY <3>3 DEF Making
        <5>2. attached_at(job'[u].at) = {}
          BY <3>1, <4>1, <4>3 DEF SerialInv, AttachingAlone
        <5> QED BY <1>1, <3>1, <4>1, <4>3, <5>1, <5>2 DEF SerialInv, AttachingAlone, attached_at
      <4> QED BY <4>1, <4>2, <4>3 DEF AttachingAlone, attached_at
    <3>8. NewView'
      BY <1>1, <2>1, <2>2, <3>1 DEF SerialInv, NewView, Making, Detaching
    <3>9. EntriesDistinct'
      BY <1>1, <2>1, <2>2, <3>1 DEF SerialInv, EntriesDistinct
    <3>10. RemovingAlone'
      <4>1. \A u \in Threads : job[u].pc \in Removing => own(u) # own(t)
        BY <1>3, <3>1 DEF SerialInv, RemovingAlone
      <4> QED BY <1>1, <2>1, <2>2, <3>1, <3>4, <4>1 DEF SerialInv, RemovingAlone, Removing
    <3>11. OneViewPerMountpoint' /\ MountedKnown'
      BY <1>1, <2>1, <2>2, <3>1 DEF SerialInv, OneViewPerMountpoint, MountedKnown
    <3>12. EntriesServed'
      <4>1. j.pc \in Removing /\ job[t].pc \notin Removing
        BY <1>1, <2>1 DEF Removing
      <4> QED BY <1>1, <2>2, <3>1, <4>1 DEF SerialInv, EntriesServed
    <3> QED BY <3>6, <3>7, <3>8, <3>9, <3>10, <3>11, <3>12 DEF SerialInv
  <2> QED BY <2>3, <2>4, <2>5 DEF Coherent, AttachesSerially
<1> QED BY <1>2, <1>3 DEF take_mount, Fail, own

\* The unmount: the view is gone, or the unmount fails and the entry stays.
LEMMA UmountCoherent ==
  ASSUME SessionIndInv, NEW t \in Threads, umount(t)
  PROVE  Coherent'
<1>1. job[t].pc = "umount" /\ job[t] \in Jobs
      /\ UNCHANGED <<attaches, mounts, next_view, sandbox>>
  BY Types DEF umount, At, registryVars
<1>2. PICK j \in Jobs :
         /\ job' = [job EXCEPT ![t] = j]
         /\ \/ MountFails /\ mounted' = mounted /\ j.pc = "idle"
            \/ mounted' = mounted \ {job[t].view} /\ j.pc = "join"
               /\ j.view = job[t].view /\ j.at = job[t].at
  <2>1. CASE MountFails /\ mounted' = mounted /\ Return(t)
    <3>1. job' = [job EXCEPT ![t] = Idle] /\ Idle.pc = "idle"
      BY <2>1 DEF Return, Idle
    <3> QED BY <2>1, <3>1, Types
  <2>2. CASE mounted' = mounted \ {job[t].view} /\ Goto(t, "join")
    <3> DEFINE k == [job[t] EXCEPT !.pc = "join"]
    <3>1. k \in Jobs /\ job' = [job EXCEPT ![t] = k] /\ k.pc = "join"
          /\ k.view = job[t].view /\ k.at = job[t].at
      BY <1>1, <2>2, Types DEF Goto, Jobs, PCs
    <3> QED BY <2>2, <3>1
  <2> QED BY <2>1, <2>2 DEF umount, Fail
<1>3. /\ job' \in [Threads -> Jobs] /\ job'[t] = j
      /\ \A u \in Threads : u # t => job'[u] = job[u] /\ own(u)' = own(u)
  BY <1>2, Types, OneThread
<1>4. j.pc = "join" => own(t)' = own(t)
  BY <1>2, <1>3 DEF own
<1>5. j.pc \in {"idle", "join"} /\ mounted' \subseteq mounted
  BY <1>2
<1>6. JobsCoherent'
  BY <1>1, <1>2, <1>3, <1>5, Types DEF JobsCoherent, Attaching, Making, Detaching
<1>7. ViewsFresh'
  BY <1>1, <1>3, <1>5, Types DEF ViewsFresh
<1>8. ASSUME AttachesSerially PROVE SerialInv'
  <2>1. SerialInv
    BY <1>8 DEF SessionIndInv
  <2>2. OneAttaching'
    BY <1>3, <1>5, <2>1 DEF SerialInv, OneAttaching, Attaching
  <2>3. AttachingAlone'
    <3>1. \A u \in Threads : job'[u].pc \in Removing => job[u].pc \in Removing /\ job'[u].at = job[u].at
      BY <1>1, <1>2, <1>3 DEF Removing
    <3>2. \A u \in Threads : job'[u].pc \in Attaching => job'[u] = job[u] /\ own(u)' = own(u)
      BY <1>3, <1>5 DEF Attaching
    <3>3. \A m : attached_at(m)' = attached_at(m)
      BY <1>1 DEF attached_at
    <3> QED BY <1>1, <2>1, <3>1, <3>2, <3>3 DEF SerialInv, AttachingAlone, attached_at
  <2>4. NewView'
    <3>1. \A u \in Threads : job'[u].pc \in Detaching => job[u].pc \in Detaching /\ job'[u].view = job[u].view
      BY <1>1, <1>2, <1>3 DEF Detaching
    <3>2. \A u \in Threads : job'[u].pc \in Making => job'[u] = job[u]
      BY <1>3, <1>5 DEF Making
    <3> QED BY <1>1, <2>1, <3>1, <3>2 DEF SerialInv, NewView
  <2>5. EntriesDistinct' /\ OneViewPerMountpoint'
    BY <1>1, <1>3, <1>5, <2>1 DEF SerialInv, EntriesDistinct, OneViewPerMountpoint
  <2>6. RemovingAlone'
    BY <1>1, <1>2, <1>3, <1>4, <1>5, <2>1 DEF SerialInv, RemovingAlone, Removing
  <2>7. MountedKnown'
    BY <1>1, <1>3, <1>5, <2>1 DEF SerialInv, MountedKnown
  <2>8. EntriesServed'
    BY <1>1, <1>2, <1>3, <1>4, <2>1 DEF SerialInv, EntriesServed, Removing
  <2> QED BY <2>2, <2>3, <2>4, <2>5, <2>6, <2>7, <2>8 DEF SerialInv
<1> QED BY <1>6, <1>7, <1>8 DEF Coherent, AttachesSerially

\* The event loop has ended.
LEMMA JoinCoherent ==
  ASSUME SessionIndInv, NEW t \in Threads, join(t)
  PROVE  Coherent'
<1> DEFINE j == [job[t] EXCEPT !.pc = "forget_attach"]
<1>1. job[t].pc = "join" /\ job[t] \in Jobs
      /\ UNCHANGED <<attaches, mounts, mounted, next_view, sandbox>>
  BY Types DEF join, At, registryVars, fuseVars
<1>2. /\ j \in Jobs /\ job' = [job EXCEPT ![t] = j]
      /\ j.pc = "forget_attach" /\ j.view = job[t].view /\ j.at = job[t].at
  BY <1>1, Types DEF join, Goto, Jobs, PCs
<1> HIDE DEF j
<1>3. /\ job' \in [Threads -> Jobs] /\ job'[t] = j /\ own(t)' = own(t)
      /\ \A u \in Threads : u # t => job'[u] = job[u] /\ own(u)' = own(u)
  BY <1>2, Types, OneThread DEF own
<1>4. JobsCoherent'
  BY <1>1, <1>2, <1>3, Types DEF JobsCoherent, Attaching, Making, Detaching
<1>5. ViewsFresh'
  BY <1>1, <1>2, <1>3, Types DEF ViewsFresh
<1>6. ASSUME AttachesSerially PROVE SerialInv'
  <2>1. SerialInv
    BY <1>6 DEF SessionIndInv
  <2>2. OneAttaching'
    BY <1>2, <1>3, <2>1 DEF SerialInv, OneAttaching, Attaching
  <2>3. AttachingAlone'
    BY <1>1, <1>2, <1>3, <2>1 DEF SerialInv, AttachingAlone, attached_at, Attaching, Removing
  <2>4. NewView'
    BY <1>1, <1>2, <1>3, <2>1 DEF SerialInv, NewView, Making, Detaching
  <2>5. EntriesDistinct' /\ OneViewPerMountpoint' /\ MountedKnown'
    BY <1>1, <1>2, <1>3, <2>1 DEF SerialInv, EntriesDistinct, OneViewPerMountpoint, MountedKnown
  <2>6. RemovingAlone'
    BY <1>1, <1>2, <1>3, <2>1 DEF SerialInv, RemovingAlone, Removing
  <2>7. EntriesServed'
    BY <1>1, <1>2, <1>3, <2>1 DEF SerialInv, EntriesServed, Removing
  <2> QED BY <2>2, <2>3, <2>4, <2>5, <2>6, <2>7 DEF SerialInv
<1> QED BY <1>4, <1>5, <1>6 DEF Coherent, AttachesSerially

\* The last section of detach: the entry that goes is that of the view taken down.
LEMMA ForgetCoherent ==
  ASSUME SessionIndInv, NEW t \in Threads, forget_attach(t)
  PROVE  Coherent'
<1>1. job[t].pc = "forget_attach" /\ job[t] \in Jobs /\ attaches' = attaches \ attached_at(job[t].at)
      /\ UNCHANGED <<mounts, mounted, next_view, sandbox>>
  BY Types DEF forget_attach, At, fuseVars
<1>2. PICK j \in Jobs : job' = [job EXCEPT ![t] = j] /\ j.pc \in {"idle", "destroy_next"}
  <2>1. CASE Return(t)
    <3>1. job' = [job EXCEPT ![t] = Idle] /\ Idle.pc = "idle"
      BY <2>1 DEF Return, Idle
    <3> QED BY <3>1, Types
  <2>2. CASE Goto(t, "destroy_next")
    <3> DEFINE k == [job[t] EXCEPT !.pc = "destroy_next"]
    <3>1. k \in Jobs /\ job' = [job EXCEPT ![t] = k] /\ k.pc = "destroy_next"
      BY <1>1, <2>2, Types DEF Goto, Jobs, PCs
    <3> QED BY <3>1
  <2> QED BY <2>1, <2>2 DEF forget_attach, Fail
<1>3. /\ job' \in [Threads -> Jobs] /\ job'[t] = j
      /\ \A u \in Threads : u # t => job'[u] = job[u] /\ own(u)' = own(u)
  BY <1>2, Types, OneThread
<1>4. JobsCoherent'
  BY <1>1, <1>2, <1>3, Types DEF JobsCoherent, Attaching, Making, Detaching
<1>5. ViewsFresh'
  BY <1>1, <1>2, <1>3, Types DEF ViewsFresh
<1>6. ASSUME AttachesSerially PROVE SerialInv'
  <2>1. SerialInv
    BY <1>6 DEF SessionIndInv
  <2>2. \A u \in Threads : own(u).id = job[u].view /\ own(u).mountpoint = job[u].at
    BY SessionIs DEF own
  <2>3. own(t) \notin mounts /\ job[t].view \notin mounted /\ (sandbox => own(t) \in attaches)
    BY <1>1, <2>1 DEF SerialInv, RemovingAlone, Removing
  <2>4. sandbox => attaches' = attaches \ {own(t)}
    BY <1>1, <2>1, <2>2, <2>3 DEF SerialInv, EntriesDistinct, attached_at
  <2>5. ~sandbox => attaches' = {}
    BY <1>1, <2>1 DEF SerialInv, EntriesDistinct
  <2>6. OneAttaching'
    BY <1>2, <1>3, <2>1 DEF SerialInv, OneAttaching, Attaching
  <2>7. AttachingAlone'
    BY <1>1, <1>2, <1>3, <2>1 DEF SerialInv, AttachingAlone, attached_at, Attaching, Removing
  <2>8. NewView'
    BY <1>1, <1>2, <1>3, <2>1 DEF SerialInv, NewView, Making, Detaching
  <2>9. EntriesDistinct'
    <3>1. ASSUME sandbox, NEW s \in mounts
          PROVE  s \in attaches' \/ \E u \in Threads : job'[u].pc = "record_attach" /\ own(u)' = s
      <4>1. s \in attaches \/ \E u \in Threads : job[u].pc = "record_attach" /\ own(u) = s
        BY <2>1, <3>1 DEF SerialInv, EntriesDistinct
      <4> QED BY <1>1, <1>3, <2>3, <2>4, <3>1, <4>1
    <3> QED BY <1>1, <2>1, <2>5, <3>1 DEF SerialInv, EntriesDistinct
  <2>10. RemovingAlone'
    <3>1. \A u \in Threads : job'[u].pc \in Removing => u # t /\ job[u].pc \in Removing /\ job'[u] = job[u]
      BY <1>2, <1>3 DEF Removing
    <3>2. \A u \in Threads : job[u].pc \in Removing /\ u # t => own(u) # own(t)
      BY <1>1, <2>1 DEF SerialInv, RemovingAlone, Removing
    <3> QED BY <1>1, <1>3, <2>1, <2>4, <3>1, <3>2 DEF SerialInv, RemovingAlone
  <2>11. OneViewPerMountpoint'
    BY <1>1, <2>1 DEF SerialInv, OneViewPerMountpoint
  <2>12. MountedKnown'
    BY <1>1, <1>3, <2>1, <2>2, <2>3, <2>4 DEF SerialInv, MountedKnown
  <2>13. EntriesServed'
    <3>1. \A e \in attaches' : e \in attaches /\ e # own(t)
      BY <1>1, <2>4, <2>5
    <3> QED BY <1>1, <1>3, <2>1, <3>1 DEF SerialInv, EntriesServed
  <2> QED BY <2>6, <2>7, <2>8, <2>9, <2>10, <2>11, <2>12, <2>13 DEF SerialInv
<1> QED BY <1>4, <1>5, <1>6 DEF Coherent, AttachesSerially

\* The sandbox goes, and all entries with it.
LEMMA RemoveSandboxCoherent ==
  ASSUME SessionIndInv, NEW t \in Threads, remove_sandbox(t)
  PROVE  Coherent'
<1>1. PICK j \in Jobs : job' = [job EXCEPT ![t] = j] /\ j.pc \in {"idle", "set_stop"}
  <2>1. CASE Goto(t, "set_stop")
    <3>1. job' = [job EXCEPT ![t] = [job[t] EXCEPT !.pc = "set_stop"]] /\ job[t] \in Jobs
      BY <2>1, Types DEF Goto
    <3>2. /\ [job[t] EXCEPT !.pc = "set_stop"] \in Jobs
          /\ [job[t] EXCEPT !.pc = "set_stop"].pc = "set_stop"
      BY <3>1 DEF Jobs, PCs
    <3> QED BY <3>1, <3>2
  <2>2. CASE Return(t)
    <3>1. job' = [job EXCEPT ![t] = Idle] /\ Idle.pc = "idle"
      BY <2>2 DEF Return, Idle
    <3> QED BY <3>1, Types
  <2> QED BY <2>1, <2>2 DEF remove_sandbox, Fail
<1>2. /\ job[t].pc = "remove_sandbox" /\ ~sandbox' /\ attaches' = {}
      /\ UNCHANGED <<mounts, mounted, next_view>>
  BY DEF remove_sandbox, At, fuseVars
<1>3. /\ job' \in [Threads -> Jobs] /\ job'[t] = j
      /\ \A u \in Threads : u # t => job'[u] = job[u] /\ own(u)' = own(u)
  BY <1>1, Types, OneThread
<1>4. JobsCoherent'
  BY <1>1, <1>2, <1>3, Types DEF JobsCoherent, Attaching, Making, Detaching
<1>5. ViewsFresh'
  BY <1>1, <1>2, <1>3, Types DEF ViewsFresh
<1>6. ASSUME AttachesSerially PROVE SerialInv'
  <2>1. SerialInv
    BY <1>6 DEF SessionIndInv
  <2>2. OneAttaching' /\ NewView'
    BY <1>1, <1>2, <1>3, <2>1 DEF SerialInv, OneAttaching, NewView, Attaching, Making, Detaching
  <2>3. AttachingAlone'
    BY <1>1, <1>2, <1>3, <2>1 DEF SerialInv, AttachingAlone, attached_at, Attaching, Removing
  <2>4. EntriesDistinct' /\ OneViewPerMountpoint' /\ MountedKnown' /\ EntriesServed'
    BY <1>2, <2>1 DEF SerialInv, EntriesDistinct, OneViewPerMountpoint, MountedKnown, EntriesServed
  <2>5. RemovingAlone'
    BY <1>1, <1>2, <1>3, <2>1 DEF SerialInv, RemovingAlone, Removing
  <2> QED BY <2>2, <2>3, <2>4, <2>5 DEF SerialInv
<1> QED BY <1>4, <1>5, <1>6 DEF Coherent, AttachesSerially

-----------------------------------------------------------------------------
(* The steps that have no view in hand, and all steps. *)

\* insert_trusted, cancel_all, destroy_next and set_stop.
LEMMA CommandsCoherent ==
  ASSUME SessionIndInv, NEW t \in Threads,
         insert_trusted(t) \/ cancel_all(t) \/ destroy_next(t) \/ set_stop(t)
  PROVE  Coherent'
<1>1. job[t] \in Jobs /\ UNCHANGED <<attaches, mounts, mounted, next_view, sandbox>>
  BY Types DEF insert_trusted, cancel_all, destroy_next, set_stop, registryVars, fuseVars
<1>2. job[t].pc \notin {"push_mount", "record_attach"} \cup Removing
  BY DEF insert_trusted, cancel_all, destroy_next, set_stop, At, Removing
<1>3. CASE Return(t)
  <2>1. job' = [job EXCEPT ![t] = Idle] /\ Idle.pc = "idle"
    BY <1>3 DEF Return, Idle
  <2> QED BY <1>1, <1>2, <2>1, Types, QuietCoherent DEF Attaching, Detaching
<1>4. ASSUME NEW pc \in {"destroy_next", "remove_sandbox"}, Goto(t, pc) PROVE Coherent'
  <2> DEFINE j == [job[t] EXCEPT !.pc = pc]
  <2>1. j \in Jobs /\ job' = [job EXCEPT ![t] = j] /\ j.pc = pc
    BY <1>1, <1>4, Types DEF Goto, Jobs, PCs
  <2> HIDE DEF j
  <2> QED BY <1>1, <1>2, <2>1, QuietCoherent DEF Attaching, Detaching
<1>5. ASSUME NEW m \in job[t].todo,
             job' = [job EXCEPT ![t].pc = "find_attach", ![t].at = m, ![t].todo = @ \ {m}]
      PROVE  Coherent'
  <2> DEFINE j == [job[t] EXCEPT !.pc = "find_attach", !.at = m, !.todo = job[t].todo \ {m}]
  <2>1. m \in Points /\ job[t].todo \subseteq Points
    BY <1>1 DEF Jobs
  <2>2. j \in Jobs /\ j.pc = "find_attach" /\ j.at = m
    BY <1>1, <2>1 DEF Jobs, PCs
  <2>3. job' = [job EXCEPT ![t] = j]
    BY <1>1, <1>5, Types
  <2> HIDE DEF j
  <2> QED BY <1>1, <1>2, <2>1, <2>2, <2>3, QuietCoherent DEF Attaching, Detaching
<1> QED BY <1>3, <1>4, <1>5 DEF insert_trusted, cancel_all, destroy_next, set_stop

\* A thread takes a connection, or is done with it.
LEMMA ConnectionsCoherent ==
  ASSUME SessionIndInv, NEW c \in Clients,
         accept(c) \/ refuse(c) \/ \E v \in Views : decide(c, v)
  PROVE  Coherent'
<1>1. c \in Threads /\ job[c] \in Jobs
  BY Types DEF Threads
<1>2. job[c].pc \in {"idle", "accepted"} /\ UNCHANGED <<attaches, mounts, mounted, next_view, sandbox>>
  BY DEF accept, refuse, decide, Receives, At, registryVars, fuseVars
<1>3. CASE Return(c)
  <2>1. job' = [job EXCEPT ![c] = Idle] /\ Idle.pc = "idle"
    BY <1>3 DEF Return, Idle
  <2> QED BY <1>1, <1>2, <2>1, Types, QuietCoherent DEF Attaching, Detaching, Removing
<1>4. CASE Goto(c, "accepted")
  <2> DEFINE j == [job[c] EXCEPT !.pc = "accepted"]
  <2>1. j \in Jobs /\ job' = [job EXCEPT ![c] = j] /\ j.pc = "accepted"
    BY <1>1, <1>4, Types DEF Goto, Jobs, PCs
  <2> HIDE DEF j
  <2> QED BY <1>1, <1>2, <2>1, QuietCoherent DEF Attaching, Detaching, Removing
<1> QED BY <1>3, <1>4 DEF accept, refuse, decide

\* detach, end_trusted and destroy begin in a thread that does nothing else.
LEMMA BeginsCoherent ==
  ASSUME SessionIndInv, NEW t \in Threads, job[t].pc \in {"idle", "accepted"},
         \/ \E m \in Points : detach(t, m) \/ end_trusted(t, m)
         \/ begin_destroy(t)
  PROVE  Coherent'
<1>1. UNCHANGED <<attaches, mounts, mounted, next_view, sandbox>>
  BY DEF detach, end_trusted, begin_destroy, registryVars, fuseVars
<1>2. ASSUME NEW m \in Points, NEW cmd \in {"detach", "end_trusted"},
             job' = [job EXCEPT ![t] = [Idle EXCEPT !.cmd = cmd, !.pc = "find_attach", !.at = m]]
      PROVE  Coherent'
  <2> DEFINE j == [Idle EXCEPT !.cmd = cmd, !.pc = "find_attach", !.at = m]
  <2>1. j \in Jobs /\ j.pc = "find_attach" /\ j.at = m
    BY Types DEF Idle, Jobs, PCs
  <2>2. job' = [job EXCEPT ![t] = j]
    BY <1>2
  <2> HIDE DEF j
  <2> QED BY <1>1, <2>1, <2>2, QuietCoherent DEF Attaching, Detaching, Removing
<1>3. CASE begin_destroy(t)
  <2> DEFINE j == [Idle EXCEPT !.cmd = "shutdown", !.pc = "cancel_all",
                               !.todo = {e.mountpoint : e \in attaches}]
  <2>1. {e.mountpoint : e \in attaches} \subseteq Points
    BY Types
  <2>2. j \in Jobs /\ j.pc = "cancel_all" /\ job' = [job EXCEPT ![t] = j]
    BY <1>3, <2>1, Types DEF begin_destroy, Idle, Jobs, PCs
  <2> HIDE DEF j
  <2> QED BY <1>1, <2>2, QuietCoherent DEF Attaching, Detaching, Removing
<1> QED BY <1>2, <1>3 DEF detach, end_trusted

\* Every step.
LEMMA NextCoherent ==
  ASSUME SessionIndInv, [Next]_vars
  PROVE  Coherent'
<1>1. ASSUME NEW c \in Clients, NEW m \in Points, attach(c, m) \/ detach(c, m) \/ end_trusted(c, m)
      PROVE  Coherent'
  <2>1. c \in Threads
    BY DEF Threads
  <2>2. CASE detach(c, m) \/ end_trusted(c, m)
    BY <2>1, <2>2, BeginsCoherent DEF detach, end_trusted, Receives, At
  <2> QED BY <1>1, <2>2, AttachCoherent
<1>2. ASSUME NEW t \in Threads, ThreadStep(t) PROVE Coherent'
  BY <1>2, AttachIdsCoherent, SpawnCoherent, PushCoherent, RecordCoherent, FindCoherent,
     CancelViewCoherent, TakeMountCoherent, UmountCoherent, JoinCoherent, ForgetCoherent,
     RemoveSandboxCoherent, CommandsCoherent DEF ThreadStep
<1>3. ASSUME NEW c \in Clients, shutdown(c) PROVE Coherent'
  BY <1>3, BeginsCoherent DEF shutdown, Receives, At, Threads
<1>4. CASE leave_accept_loop
  <2>1. CASE begin_destroy(Main)
    BY <1>4, <2>1, BeginsCoherent DEF leave_accept_loop, At, Threads
  <2>2. CASE UNCHANGED <<registryVars, fuseVars, job, stop>>
    BY <2>2, StillCoherent DEF registryVars, fuseVars
  <2> QED BY <1>4, <2>1, <2>2 DEF leave_accept_loop
<1>5. CASE signal \/ UNCHANGED vars
  BY <1>5, StillCoherent DEF signal, vars, registryVars, fuseVars
<1>6. ASSUME NEW v \in Views, block(v) \/ loop_ends(v) PROVE Coherent'
  BY <1>6, StillCoherent DEF block, loop_ends, registryVars
<1>7. ASSUME NEW c \in Clients, accept(c) \/ refuse(c) \/ \E v \in Views : decide(c, v)
      PROVE  Coherent'
  BY <1>7, ConnectionsCoherent
<1> QED BY <1>1, <1>2, <1>3, <1>4, <1>5, <1>6, <1>7 DEF Next

-----------------------------------------------------------------------------
(* The types and the event loops. *)

\* Every step keeps the types.
LEMMA NextTyped ==
  ASSUME SessionIndInv, [Next]_vars
  PROVE  TypeOK'
<1>1. TypeOK /\ JobsCoherent /\ ViewsFresh /\ JobsCoherent'
  BY Types, NextCoherent DEF Coherent
<1>2. \A t \in Threads : /\ job'[t].pc \in PCs /\ job'[t].at \in Points \cup {None}
                         /\ job'[t].view \in Views \cup {None} /\ job'[t].todo \subseteq Points
  BY <1>1 DEF JobsCoherent, Jobs
<1> DEFINE MountsTyped == /\ mounts \subseteq [mountpoint : Points, id : Views]
                          /\ next_view \in 1..(MaxAttach + 1)
                          /\ \A s, r \in mounts : s.id < next_view /\ (s.id = r.id => s = r)
           RegistryTyped == /\ sandbox \in BOOLEAN /\ stop \in BOOLEAN /\ running \in BOOLEAN
                            /\ attaches \subseteq [mountpoint : Points, id : Views]
                            /\ trusted \subseteq TempPoints
           LoopsTyped == /\ mounted \subseteq Views /\ queued \subseteq Views
                         /\ loop \in [Views -> {"none", "serving", "blocked", "ended"}]
<1>3. MountsTyped /\ RegistryTyped /\ LoopsTyped
  BY <1>1 DEF TypeOK
<1>4. MountsTyped'
  <2>1. ASSUME NEW t \in Threads, attach_ids(t) PROVE MountsTyped'
    BY <1>3, <2>1 DEF attach_ids, Views
  <2>2. ASSUME NEW t \in Threads, push_mount(t) PROVE MountsTyped'
    <3>1. /\ job[t].pc = "push_mount" /\ mounts' = mounts \cup {own(t)} /\ next_view' = next_view
          /\ own(t) \in [mountpoint : Points, id : Views] /\ own(t).id = job[t].view
      BY <1>1, <2>2, SessionIs DEF push_mount, At, own, JobsCoherent, Attaching, Making, Session
    <3>2. job[t].view < next_view /\ \A s \in mounts : s.id # job[t].view
      BY <1>1, <3>1 DEF JobsCoherent, ViewsFresh, Making
    <3> QED BY <1>3, <3>1, <3>2
  <2>3. ASSUME NEW t \in Threads, take_mount(t) PROVE MountsTyped'
    BY <1>3, <2>3 DEF take_mount
  <2>4. CASE UNCHANGED <<mounts, next_view>>
    BY <1>3, <2>4
  <2> QED BY <2>1, <2>2, <2>3, <2>4 DEF Next, ThreadStep, vars, fuseVars, accept, refuse, attach,
         spawn_mount2, record_attach, insert_trusted, detach, end_trusted, find_attach, cancel_view,
         umount, join, forget_attach, shutdown, begin_destroy, cancel_all, destroy_next,
         remove_sandbox, set_stop, signal, leave_accept_loop, block, decide, loop_ends
<1>5. RegistryTyped'
  <2>1. ASSUME NEW t \in Threads, record_attach(t) PROVE RegistryTyped'
    <3>1. Session(job[t].at, job[t].view) \in [mountpoint : Points, id : Views]
      BY <1>1, <2>1 DEF record_attach, At, JobsCoherent, Attaching, Making, Session
    <3> QED BY <1>3, <2>1, <3>1 DEF record_attach, mainVars
  <2>2. ASSUME NEW t \in Threads, insert_trusted(t) PROVE RegistryTyped'
    BY <1>1, <1>3, <2>2 DEF insert_trusted, At, JobsCoherent, mainVars
  <2>3. ASSUME NEW t \in Threads,
               find_attach(t) \/ take_mount(t) \/ umount(t) \/ forget_attach(t) \/ remove_sandbox(t)
        PROVE  RegistryTyped'
    BY <1>3, <2>3 DEF find_attach, take_mount, umount, forget_attach, remove_sandbox, Fail, registryVars
  <2>4. ASSUME NEW c \in Clients, NEW m \in Points, end_trusted(c, m) PROVE RegistryTyped'
    BY <1>3, <2>4 DEF end_trusted, mainVars
  <2>5. ASSUME NEW t \in Threads, begin_destroy(t) PROVE RegistryTyped'
    BY <1>3, <2>5 DEF begin_destroy, mainVars
  <2>6. CASE signal \/ leave_accept_loop \/ \E t \in Threads : set_stop(t)
    BY <1>3, <2>5, <2>6 DEF signal, leave_accept_loop, set_stop, registryVars, Threads
  <2>7. CASE UNCHANGED <<sandbox, attaches, trusted, stop, running>>
    BY <1>3, <2>7
  <2> QED BY <2>1, <2>2, <2>3, <2>4, <2>5, <2>6, <2>7 DEF Next, ThreadStep, vars, registryVars,
         mainVars, accept, refuse, attach, attach_ids, spawn_mount2, push_mount, detach,
         cancel_view, join, shutdown, Threads, cancel_all, destroy_next, block, decide, loop_ends
<1>6. LoopsTyped'
  <2>1. ASSUME NEW t \in Threads, spawn_mount2(t) PROVE LoopsTyped'
    BY <1>1, <1>3, <2>1 DEF spawn_mount2, At, JobsCoherent, Making, registryVars
  <2>2. ASSUME NEW t \in Threads, cancel_view(t) \/ cancel_all(t) PROVE LoopsTyped'
    BY <1>3, <2>2 DEF cancel_view, cancel_all, Wake
  <2>3. ASSUME NEW t \in Threads, umount(t) PROVE LoopsTyped'
    BY <1>3, <2>3 DEF umount, registryVars
  <2>4. ASSUME NEW v \in Views, block(v) \/ loop_ends(v) \/ \E c \in Clients : decide(c, v)
        PROVE  LoopsTyped'
    BY <1>3, <2>4 DEF block, loop_ends, decide, registryVars
  <2>5. CASE UNCHANGED <<mounted, queued, loop>>
    BY <1>3, <2>5
  <2> QED BY <2>1, <2>2, <2>3, <2>4, <2>5 DEF Next, ThreadStep, vars, registryVars, fuseVars,
         accept, refuse, attach, attach_ids, push_mount, record_attach, insert_trusted, detach,
         end_trusted, find_attach, take_mount, join, forget_attach, shutdown, begin_destroy,
         destroy_next, remove_sandbox, set_stop, signal, leave_accept_loop
<1> QED BY <1>2, <1>4, <1>5, <1>6 DEF TypeOK

\* An event loop waits because it did before, or because its view asks just now.
LEMMA NewlyBlocked ==
  ASSUME SessionIndInv, [Next]_vars, NEW v \in Views, loop'[v] = "blocked"
  PROVE  loop[v] = "blocked" \/ block(v)
<1>1. loop \in [Views -> {"none", "serving", "blocked", "ended"}]
  BY DEF SessionIndInv, TypeOK
<1>2. ASSUME NEW t \in Threads, spawn_mount2(t) PROVE loop[v] = "blocked"
  BY <1>1, <1>2 DEF spawn_mount2
<1>3. ASSUME NEW t \in Threads, cancel_view(t) \/ cancel_all(t) PROVE loop[v] = "blocked"
  BY <1>1, <1>3 DEF cancel_view, cancel_all, Wake
<1>4. ASSUME NEW u \in Views, block(u) \/ loop_ends(u) \/ \E c \in Clients : decide(c, u)
      PROVE  loop[v] = "blocked" \/ block(v)
  BY <1>1, <1>4 DEF block, loop_ends, decide
<1>5. CASE UNCHANGED loop
  BY <1>5
<1> QED BY <1>2, <1>3, <1>4, <1>5 DEF Next, ThreadStep, vars, fuseVars, accept, refuse, attach,
       attach_ids, push_mount, record_attach, insert_trusted, detach, end_trusted, find_attach,
       take_mount, umount, join, forget_attach, shutdown, begin_destroy, destroy_next,
       remove_sandbox, set_stop, signal, leave_accept_loop

\* While the sandbox is there, a waiting event loop keeps its request: whoever takes
\* the request out finds the sandbox and tells the waiter.
LEMMA NextBlocked ==
  ASSUME SessionIndInv, [Next]_vars
  PROVE  BlockedIsQueued'
<1>1. SUFFICES ASSUME sandbox', NEW v \in Views, loop'[v] = "blocked" PROVE v \in queued'
  BY DEF BlockedIsQueued, NoLoopStranded
<1>2. CASE block(v)
  BY <1>2 DEF block
<1>3. CASE ~block(v)
  <2>1. loop[v] = "blocked" /\ loop \in [Views -> {"none", "serving", "blocked", "ended"}]
    BY <1>1, <1>3, NewlyBlocked DEF SessionIndInv, TypeOK
  <2>2. ASSUME sandbox PROVE v \in queued
    BY <2>1, <2>2 DEF SessionIndInv, BlockedIsQueued, NoLoopStranded
  <2>3. ASSUME NEW t \in Threads, cancel_view(t) \/ cancel_all(t) PROVE v \in queued'
    BY <1>1, <2>1, <2>2, <2>3 DEF cancel_view, cancel_all, Wake
  <2>4. ASSUME NEW u \in Views, block(u) \/ loop_ends(u) \/ \E c \in Clients : decide(c, u)
        PROVE  v \in queued'
    BY <1>1, <2>1, <2>2, <2>4 DEF block, loop_ends, decide, registryVars
  <2>5. ASSUME NEW t \in Threads, remove_sandbox(t) PROVE v \in queued'
    BY <1>1, <2>5 DEF remove_sandbox
  <2>6. CASE UNCHANGED <<queued, sandbox>>
    BY <1>1, <2>2, <2>6
  <2> QED BY <2>3, <2>4, <2>5, <2>6 DEF Next, ThreadStep, vars, registryVars, accept, refuse, attach,
         attach_ids, spawn_mount2, push_mount, record_attach, insert_trusted, detach, end_trusted,
         find_attach, take_mount, umount, join, forget_attach, shutdown, begin_destroy,
         destroy_next, set_stop, signal, leave_accept_loop
<1> QED BY <1>2, <1>3

\* A view whose event loop waits is unmounted by a thread that then waits for the loop.
LEMMA NextKnown ==
  ASSUME SessionIndInv, [Next]_vars
  PROVE  BlockedKnown'
<1>1. SUFFICES ASSUME NEW v \in Views, loop'[v] = "blocked"
      PROVE  v \in mounted' \/ \E t \in Threads : job'[t].pc = "join" /\ job'[t].view = v
  BY DEF BlockedKnown
<1>2. CASE block(v)
  BY <1>2 DEF block
<1>3. CASE ~block(v)
  <2>1. loop[v] = "blocked" /\ job \in [Threads -> Jobs]
    BY <1>1, <1>3, NewlyBlocked, Types
  <2>2. CASE v \in mounted
    <3>1. ASSUME NEW t \in Threads, umount(t)
          PROVE  v \in mounted' \/ (job'[t].pc = "join" /\ job'[t].view = v)
      BY <2>1, <2>2, <3>1 DEF umount, Goto, Jobs
    <3>2. ASSUME NEW t \in Threads, spawn_mount2(t) PROVE v \in mounted'
      BY <2>2, <3>2 DEF spawn_mount2
    <3>3. CASE UNCHANGED mounted
      BY <2>2, <3>3
    <3> QED BY <3>1, <3>2, <3>3 DEF Next, ThreadStep, vars, fuseVars, accept, refuse, attach,
           attach_ids, push_mount, record_attach, insert_trusted, detach, end_trusted, find_attach,
           cancel_view, take_mount, join, forget_attach, shutdown, begin_destroy, cancel_all,
           destroy_next, remove_sandbox, set_stop, signal, leave_accept_loop, block, decide, loop_ends
  <2>3. ASSUME NEW t \in Threads, job[t].pc = "join", job[t].view = v PROVE job'[t] = job[t]
    <3>1. ~join(t)
      BY <2>1, <2>3 DEF join
    <3>2. ASSUME NEW u \in Threads, ThreadStep(u) PROVE u # t /\ \E j : job' = [job EXCEPT ![u] = j]
      <4>1. u # t
        BY <2>3, <3>1, <3>2 DEF ThreadStep, At, attach_ids, spawn_mount2, push_mount, record_attach,
           insert_trusted, find_attach, cancel_view, take_mount, umount, forget_attach, cancel_all,
           destroy_next, remove_sandbox, set_stop
      <4>2. (\E pc : Goto(u, pc)) \/ Return(u) => \E j : job' = [job EXCEPT ![u] = j]
        BY <2>1 DEF Goto, Return
      <4>3. ASSUME NEW m, job' = [job EXCEPT ![u].pc = "find_attach", ![u].at = m, ![u].todo = @ \ {m}]
            PROVE  \E j : job' = [job EXCEPT ![u] = j]
        BY <2>1, <4>3
      <4>4. ASSUME NEW pc, NEW w, job' = [job EXCEPT ![u].pc = pc, ![u].view = w]
            PROVE  \E j : job' = [job EXCEPT ![u] = j]
        BY <2>1, <4>4
      <4> QED BY <3>2, <4>1, <4>2, <4>3, <4>4 DEF ThreadStep, Fail, attach_ids, spawn_mount2,
             push_mount, record_attach, insert_trusted, find_attach, cancel_view, take_mount, umount,
             join, forget_attach, cancel_all, destroy_next, remove_sandbox, set_stop
    <3>3. ASSUME NEW c \in Clients, accept(c) \/ refuse(c) \/ shutdown(c)
          PROVE  c # t /\ job'[t] = job[t]
      BY <2>1, <2>3, <3>3 DEF accept, refuse, shutdown, begin_destroy, Receives, At, Goto, Return, Threads
    <3>4. ASSUME NEW c \in Clients, NEW m \in Points, attach(c, m) \/ detach(c, m) \/ end_trusted(c, m)
          PROVE  c # t /\ job'[t] = job[t]
      BY <2>1, <2>3, <3>4 DEF attach, detach, end_trusted, Receives, At, Threads
    <3>5. ASSUME NEW u \in Views, block(u) \/ loop_ends(u) \/ \E c \in Clients : decide(c, u)
          PROVE  job'[t] = job[t]
      BY <2>1, <2>3, <3>5 DEF block, loop_ends, decide, Receives, At, Return, Threads
    <3>6. CASE signal \/ leave_accept_loop \/ UNCHANGED vars
      BY <2>1, <2>3, <3>6 DEF signal, leave_accept_loop, begin_destroy, At, vars, Threads
    <3> QED BY <2>1, <3>2, <3>3, <3>4, <3>5, <3>6 DEF Next
  <2> QED BY <2>1, <2>2, <2>3 DEF SessionIndInv, BlockedKnown
<1> QED BY <1>2, <1>3

-----------------------------------------------------------------------------
(* The theorems. *)

\* A new session has no view, no entry and no command at work.
LEMMA InitHolds ==
  ASSUME Init
  PROVE  SessionIndInv
<1>1. \A t \in Threads : job[t] = Idle /\ job[t].pc = "idle" /\ Idle \in Jobs
  BY DEF Init, Idle, Jobs, PCs
<1>2. TypeOK
  <2>1. next_view \in 1..(MaxAttach + 1) /\ mounts = {} /\ attaches = {}
    BY DEF Init
  <2>2. loop \in [Views -> {"none", "serving", "blocked", "ended"}]
    BY DEF Init
  <2>3. \A t \in Threads : /\ job[t].pc \in PCs /\ job[t].at \in Points \cup {None}
                           /\ job[t].view \in Views \cup {None} /\ job[t].todo \subseteq Points
    BY <1>1 DEF Jobs
  <2> QED BY <2>1, <2>2, <2>3 DEF Init, TypeOK
<1>3. JobsCoherent /\ ViewsFresh
  BY <1>1 DEF Init, JobsCoherent, ViewsFresh, Attaching, Making, Detaching
<1>4. SerialInv
  <2>1. OneAttaching /\ AttachingAlone /\ NewView /\ RemovingAlone
    BY <1>1 DEF OneAttaching, AttachingAlone, NewView, RemovingAlone, Attaching, Making, Removing
  <2>2. EntriesDistinct /\ OneViewPerMountpoint /\ MountedKnown /\ EntriesServed
    BY DEF Init, EntriesDistinct, OneViewPerMountpoint, MountedKnown, EntriesServed
  <2> QED BY <2>1, <2>2 DEF SerialInv
<1>5. BlockedIsQueued /\ BlockedKnown
  BY DEF Init, BlockedIsQueued, NoLoopStranded, BlockedKnown
<1> QED BY <1>2, <1>3, <1>4, <1>5 DEF SessionIndInv

\* The inductive invariant holds in every reachable state of the session.
THEOREM SessionInvariance == Spec => []SessionIndInv
<1>1. SessionIndInv /\ [Next]_vars => SessionIndInv'
  <2> SUFFICES ASSUME SessionIndInv, [Next]_vars PROVE SessionIndInv'
    OBVIOUS
  <2>1. TypeOK' /\ Coherent' /\ BlockedIsQueued' /\ BlockedKnown'
    BY NextTyped, NextCoherent, NextBlocked, NextKnown
  <2> QED BY <2>1 DEF SessionIndInv, Coherent, AttachesSerially
<1> QED BY <1>1, InitHolds, PTL DEF Spec

\* The tables of the session keep their types; the ids of live sessions are distinct
\* and below the counter, whatever the connections do at the same time.
THEOREM SessionTypeCorrect == Spec => []TypeOK
<1>1. SessionIndInv => TypeOK
  BY DEF SessionIndInv
<1> QED BY <1>1, SessionInvariance, PTL

\* What detach and destroy rely on when they look for a session: while connections do
\* not attach at the same time and no unmount fails, an entry of the registry has its
\* session, or one thread is taking it down.
THEOREM EntriesHaveSessions == Spec => [](AttachesSerially /\ ~MountFails => EntryHasSession)
<1>1. SessionIndInv => (AttachesSerially /\ ~MountFails => EntryHasSession)
  <2> SUFFICES ASSUME SessionIndInv, AttachesSerially, ~MountFails, NEW e \in attaches
               PROVE  e \in mounts \/ \E t \in Threads :
                         job[t].view = e.id /\ job[t].pc \in {"umount", "join", "forget_attach"}
    BY DEF EntryHasSession
  <2>1. \A t \in Threads : own(t).id = job[t].view
    BY SessionIs DEF own
  <2> QED BY <2>1 DEF SessionIndInv, SerialInv, EntriesServed, Removing
<1> QED BY <1>1, SessionInvariance, PTL

\* Attaching a mountpoint twice fails: while connections do not attach at the same time,
\* no two live sessions have one mountpoint, failures included.
THEOREM NoMountpointTwice == Spec => [](AttachesSerially => OneViewPerMountpoint)
<1>1. SessionIndInv => (AttachesSerially => OneViewPerMountpoint)
  BY DEF SessionIndInv, SerialInv
<1> QED BY <1>1, SessionInvariance, PTL

\* While the sandbox lives, no view is mounted that no entry lists and no command knows,
\* failures included.
THEOREM NoViewIsOrphaned == Spec => [](AttachesSerially => NoOrphanView)
<1>1. SessionIndInv => (AttachesSerially => NoOrphanView)
  BY DEF SessionIndInv, SerialInv, MountedKnown, NoOrphanView
<1> QED BY <1>1, SessionInvariance, PTL

\* For as long as the sandbox is there, no interleaving of attaches, detaches, decisions
\* and destroys, failures included, leaves an event loop waiting for a request that is no
\* longer queued.  What the code does between the removal of the sandbox and the end of
\* the process is the subject of DestroyCleansUp.
THEOREM WaitingLoopIsQueued == Spec => []BlockedIsQueued
<1>1. SessionIndInv => BlockedIsQueued
  BY DEF SessionIndInv
<1> QED BY <1>1, SessionInvariance, PTL

-----------------------------------------------------------------------------
(* Destroy. *)

\* A step of one thread that adds no entry.
LEMMA ThreadCovers ==
  ASSUME SessionIndInv, DestroyCovers, NEW t \in Threads, NEW j \in Jobs,
         job' = [job EXCEPT ![t] = j], attaches' \subseteq attaches, Covers(j, attaches')
  PROVE  DestroyCovers'
<1>1. job'[t] = j /\ \A u \in Threads : u # t => job'[u] = job[u]
  BY Types, OneThread
<1>2. ASSUME NEW u \in Threads PROVE Covers(job[u], attaches')
  BY DEF DestroyCovers, Covers
<1>3. ASSUME NEW u \in Threads PROVE Covers(job'[u], attaches')
  BY <1>1, <1>2
<1>4. \A u \in Threads : Covers(job[u], attaches)' <=> Covers(job'[u], attaches')
  BY DEF Covers
<1> QED BY <1>3, <1>4 DEF DestroyCovers

\* What is not part of a destroy.
LEMMA OtherCovers ==
  ASSUME NEW j, NEW E, j.cmd # "shutdown",
         j.pc \notin {"cancel_all", "destroy_next", "remove_sandbox", "set_stop"}
  PROVE  Covers(j, E)
BY DEF Covers

LEMMA IdleCovers ==
  ASSUME NEW E
  PROVE  Covers(Idle, E) /\ Idle \in Jobs /\ Idle.pc = "idle" /\ Idle.cmd = "none"
<1>1. Idle \in Jobs /\ Idle.pc = "idle" /\ Idle.cmd = "none"
  BY DEF Idle, Jobs, PCs
<1> QED BY <1>1, OtherCovers

\* The steps of attach; there is no destroy while one of them is next.
LEMMA AttachCovers ==
  ASSUME SessionIndInv, NoAttachDuringDestroy, DestroyCovers, NEW t \in Threads,
         attach_ids(t) \/ spawn_mount2(t) \/ push_mount(t) \/ record_attach(t)
  PROVE  DestroyCovers'
<1>1. job[t].pc \in Attaching /\ job[t] \in Jobs /\ job \in [Threads -> Jobs]
  BY Types DEF attach_ids, spawn_mount2, push_mount, record_attach, At, Attaching
<1>2. \A u \in Threads :
         job[u].cmd # "shutdown" /\ job[u].pc \notin {"cancel_all", "destroy_next", "remove_sandbox", "set_stop"}
  BY <1>1 DEF NoAttachDuringDestroy, DestroyCovers, Covers
<1>3. CASE job' = [job EXCEPT ![t] = Idle]
  BY <1>1, <1>2, <1>3, IdleCovers DEF DestroyCovers, Covers
<1>4. CASE \E pc \in {"spawn_mount", "push_mount", "record_attach", "insert_trusted"}, v \in Views :
              job' = [job EXCEPT ![t] = [job[t] EXCEPT !.pc = pc, !.view = v]]
  <2>1. PICK pc \in {"spawn_mount", "push_mount", "record_attach", "insert_trusted"}, v \in Views :
              job' = [job EXCEPT ![t] = [job[t] EXCEPT !.pc = pc, !.view = v]]
    BY <1>4
  <2>2. job'[t].pc = pc /\ job'[t].cmd = job[t].cmd /\ \A u \in Threads : u # t => job'[u] = job[u]
    BY <1>1, <2>1 DEF Jobs
  <2> QED BY <1>2, <2>2 DEF DestroyCovers, Covers
<1>5. job[t].pc \in Making => job[t].view \in Views
  BY DEF SessionIndInv, JobsCoherent
<1>6. CASE attach_ids(t)
  <2>1. CASE Return(t)
    BY <1>3, <2>1 DEF Return
  <2>2. CASE next_view \in Views /\ job' = [job EXCEPT ![t].pc = "spawn_mount", ![t].view = next_view]
    <3>1. job' = [job EXCEPT ![t] = [job[t] EXCEPT !.pc = "spawn_mount", !.view = next_view]]
      BY <1>1, <2>2 DEF Jobs
    <3> QED BY <1>4, <2>2, <3>1
  <2> QED BY <1>6, <2>1, <2>2 DEF attach_ids
<1>7. CASE spawn_mount2(t) \/ push_mount(t) \/ record_attach(t)
  <2>1. job[t].view \in Views
    BY <1>5, <1>7 DEF spawn_mount2, push_mount, record_attach, At, Making
  <2>2. ASSUME NEW pc \in {"push_mount", "record_attach", "insert_trusted"}, Goto(t, pc)
        PROVE  DestroyCovers'
    <3>1. job' = [job EXCEPT ![t] = [job[t] EXCEPT !.pc = pc, !.view = job[t].view]]
      BY <1>1, <2>2 DEF Goto, Jobs
    <3> QED BY <1>4, <2>1, <3>1
  <2>3. CASE Return(t)
    BY <1>3, <2>3 DEF Return
  <2> QED BY <1>7, <2>2, <2>3 DEF spawn_mount2, push_mount, record_attach
<1> QED BY <1>6, <1>7

\* The steps of detach and of destroy.
LEMMA DetachCovers ==
  ASSUME SessionIndInv, DestroyCovers, NEW t \in Threads,
         \/ insert_trusted(t) \/ find_attach(t) \/ cancel_view(t) \/ take_mount(t) \/ umount(t)
         \/ join(t) \/ forget_attach(t) \/ cancel_all(t) \/ destroy_next(t) \/ remove_sandbox(t)
         \/ set_stop(t)
  PROVE  DestroyCovers'
<1>1. job[t] \in Jobs /\ job \in [Threads -> Jobs] /\ Covers(job[t], attaches)
  BY Types DEF DestroyCovers
<1>2. attaches' \subseteq attaches
  BY DEF insert_trusted, find_attach, cancel_view, take_mount, umount, join, forget_attach,
         cancel_all, destroy_next, remove_sandbox, set_stop, registryVars
<1>3. CASE Return(t)
  BY <1>2, <1>3, IdleCovers, ThreadCovers DEF Return
\* From one section of detach to the next.
<1>4. ASSUME NEW pc \in Detaching, NEW v \in Views \cup {None},
             job[t].pc \in Detaching \cup {"find_attach"},
             job' = [job EXCEPT ![t] = [job[t] EXCEPT !.pc = pc, !.view = v]]
      PROVE  DestroyCovers'
  <2> DEFINE j == [job[t] EXCEPT !.pc = pc, !.view = v]
  <2>1. j \in Jobs /\ j.pc = pc /\ j.cmd = job[t].cmd /\ j.todo = job[t].todo /\ j.at = job[t].at
    BY <1>1, <1>4 DEF Jobs, Detaching, PCs
  <2>2. pc \notin {"cancel_all", "destroy_next", "remove_sandbox", "set_stop"}
    BY DEF Detaching
  <2>3. Covers(j, attaches')
    BY <1>1, <1>2, <1>4, <2>1, <2>2 DEF Covers
  <2> HIDE DEF j
  <2> QED BY <1>2, <1>4, <2>1, <2>3, ThreadCovers DEF j
<1>5. CASE find_attach(t)
  <2>1. CASE \E e \in attached_at(job[t].at) :
                job' = [job EXCEPT ![t].pc = "cancel_view", ![t].view = e.id]
    <3>1. PICK e \in attaches : job' = [job EXCEPT ![t].pc = "cancel_view", ![t].view = e.id]
      BY <2>1 DEF attached_at
    <3>2. e.id \in Views /\ job' = [job EXCEPT ![t] = [job[t] EXCEPT !.pc = "cancel_view", !.view = e.id]]
      BY <1>1, <3>1, Types DEF Jobs
    <3> QED BY <1>4, <1>5, <3>2 DEF find_attach, At, Detaching
  <2> QED BY <1>3, <1>5, <2>1 DEF find_attach, Fail
<1>6. CASE cancel_view(t) \/ take_mount(t) \/ umount(t) \/ join(t)
  <2>1. ASSUME NEW pc \in Detaching, Goto(t, pc) PROVE DestroyCovers'
    <3>1. job' = [job EXCEPT ![t] = [job[t] EXCEPT !.pc = pc, !.view = job[t].view]]
      BY <1>1, <2>1 DEF Goto, Jobs
    <3>2. job[t].view \in Views \cup {None} /\ job[t].pc \in Detaching
      BY <1>1, <1>6 DEF Jobs, cancel_view, take_mount, umount, join, At, Detaching
    <3> QED BY <1>4, <3>1, <3>2
  <2>2. Return(t) \/ \E pc \in Detaching : Goto(t, pc)
    BY <1>6 DEF cancel_view, take_mount, umount, join, Fail, Detaching
  <2> QED BY <1>3, <2>1, <2>2
<1>7. ASSUME job[t].cmd = "shutdown", Goto(t, "destroy_next"),
             \A e \in attaches' : e.mountpoint \in job[t].todo
      PROVE  DestroyCovers'
  <2> DEFINE j == [job[t] EXCEPT !.pc = "destroy_next"]
  <2>1. j \in Jobs /\ j.pc = "destroy_next" /\ j.cmd = "shutdown" /\ j.todo = job[t].todo
        /\ job' = [job EXCEPT ![t] = j]
    BY <1>1, <1>7 DEF Jobs, PCs, Goto
  <2>2. Covers(j, attaches')
    BY <1>7, <2>1 DEF Covers
  <2> HIDE DEF j
  <2> QED BY <1>2, <2>1, <2>2, ThreadCovers
<1>8. CASE forget_attach(t)
  <2>1. CASE job[t].cmd = "shutdown" /\ Goto(t, "destroy_next")
    <3>1. \A e \in attaches' : e \in attaches /\ e.mountpoint # job[t].at
      BY <1>8 DEF forget_attach, attached_at
    <3> QED BY <1>1, <1>7, <2>1, <3>1 DEF Covers
  <2> QED BY <1>3, <1>8, <2>1 DEF forget_attach, Fail
<1>9. CASE cancel_all(t)
  <2>1. job[t].pc = "cancel_all" /\ attaches' = attaches /\ Goto(t, "destroy_next")
    BY <1>9 DEF cancel_all, At
  <2>2. job[t].cmd = "shutdown" /\ \A e \in attaches' : e.mountpoint \in job[t].todo
    BY <1>1, <2>1 DEF Covers, Detaching
  <2> QED BY <1>7, <2>1, <2>2
<1>10. CASE destroy_next(t)
  <2>1. /\ job[t].pc = "destroy_next" /\ attaches' = attaches /\ job[t].cmd = "shutdown"
        /\ \A e \in attaches : e.mountpoint \in job[t].todo
    BY <1>1, <1>10 DEF destroy_next, At, registryVars, Covers, Detaching
  <2>2. CASE job[t].todo = {} /\ Goto(t, "remove_sandbox")
    <3> DEFINE j == [job[t] EXCEPT !.pc = "remove_sandbox"]
    <3>1. j \in Jobs /\ j.pc = "remove_sandbox" /\ j.cmd = "shutdown" /\ j.todo = {}
          /\ job' = [job EXCEPT ![t] = j]
      BY <1>1, <2>1, <2>2 DEF Jobs, PCs, Goto
    <3>2. Covers(j, attaches')
      BY <2>1, <2>2, <3>1 DEF Covers
    <3> HIDE DEF j
    <3> QED BY <1>2, <3>1, <3>2, ThreadCovers
  <2>3. ASSUME NEW m \in job[t].todo,
               job' = [job EXCEPT ![t].pc = "find_attach", ![t].at = m, ![t].todo = @ \ {m}]
        PROVE  DestroyCovers'
    <3> DEFINE j == [job[t] EXCEPT !.pc = "find_attach", !.at = m, !.todo = job[t].todo \ {m}]
    <3>1. j \in Jobs /\ j.pc = "find_attach" /\ j.cmd = "shutdown" /\ j.at = m
          /\ j.todo = job[t].todo \ {m}
      BY <1>1, <2>1 DEF Jobs, PCs
    <3>2. job' = [job EXCEPT ![t] = j]
      BY <1>1, <2>3 DEF Jobs
    <3>3. Covers(j, attaches')
      BY <2>1, <3>1 DEF Covers
    <3> HIDE DEF j
    <3> QED BY <1>2, <3>1, <3>2, <3>3, ThreadCovers
  <2> QED BY <1>10, <2>2, <2>3 DEF destroy_next
<1>11. CASE remove_sandbox(t)
  <2>1. CASE Goto(t, "set_stop")
    <3> DEFINE j == [job[t] EXCEPT !.pc = "set_stop"]
    <3>1. j \in Jobs /\ j.pc = "set_stop" /\ j.cmd = job[t].cmd /\ job' = [job EXCEPT ![t] = j]
      BY <1>1, <2>1 DEF Jobs, PCs, Goto
    <3>2. attaches' = {} /\ job[t].cmd = "shutdown"
      BY <1>1, <1>11 DEF remove_sandbox, At, Covers
    <3>3. Covers(j, attaches')
      BY <3>1, <3>2 DEF Covers
    <3> HIDE DEF j
    <3> QED BY <1>2, <3>1, <3>3, ThreadCovers
  <2> QED BY <1>3, <1>11, <2>1 DEF remove_sandbox, Fail
<1> QED BY <1>3, <1>5, <1>6, <1>8, <1>9, <1>10, <1>11 DEF insert_trusted, set_stop

LEMMA NextCovers ==
  ASSUME SessionIndInv, NoAttachDuringDestroy, DestroyCovers, [Next]_vars
  PROVE  DestroyCovers'
<1>1. CASE UNCHANGED <<job, attaches>>
  BY <1>1 DEF DestroyCovers, Covers
<1>2. ASSUME NEW t \in Threads, ThreadStep(t) PROVE DestroyCovers'
  BY <1>2, AttachCovers, DetachCovers DEF ThreadStep
\* The first step of a command.
<1>3. ASSUME NEW t \in Threads, NEW m \in Points, NEW pc \in {"attach_ids", "find_attach"},
             NEW cmd \in {"attach", "begin_trusted", "detach", "end_trusted"}, attaches' = attaches,
             job' = [job EXCEPT ![t] = [Idle EXCEPT !.cmd = cmd, !.pc = pc, !.at = m]]
      PROVE  DestroyCovers'
  <2> DEFINE j == [Idle EXCEPT !.cmd = cmd, !.pc = pc, !.at = m]
  <2>1. j \in Jobs /\ j.cmd = cmd /\ j.pc = pc
    BY DEF Jobs, Idle, PCs
  <2>2. Covers(j, attaches')
    BY <2>1, OtherCovers
  <2> HIDE DEF j
  <2> QED BY <1>3, <2>1, <2>2, ThreadCovers DEF j
<1>4. ASSUME NEW c \in Clients, NEW m \in Points, attach(c, m) \/ detach(c, m) \/ end_trusted(c, m)
      PROVE  DestroyCovers'
  <2>1. c \in Threads /\ attaches' = attaches
    BY <1>4 DEF Threads, attach, detach, end_trusted, registryVars
  <2>2. CASE attach(c, m)
    <3>1. PICK cmd \in {"attach", "begin_trusted"} :
            job' = [job EXCEPT ![c] = [Idle EXCEPT !.cmd = cmd, !.pc = "attach_ids", !.at = m]]
      BY <2>2 DEF attach, Idle
    <3> QED BY <1>3, <2>1, <3>1
  <2>3. CASE detach(c, m) \/ end_trusted(c, m)
    <3>1. PICK cmd \in {"detach", "end_trusted"} :
            job' = [job EXCEPT ![c] = [Idle EXCEPT !.cmd = cmd, !.pc = "find_attach", !.at = m]]
      BY <2>3 DEF detach, end_trusted
    <3> QED BY <1>3, <2>1, <3>1
  <2> QED BY <1>4, <2>2, <2>3
<1>5. ASSUME NEW t \in Threads, begin_destroy(t) PROVE DestroyCovers'
  <2> DEFINE j == [Idle EXCEPT !.cmd = "shutdown", !.pc = "cancel_all",
                               !.todo = {e.mountpoint : e \in attaches}]
  <2>1. {e.mountpoint : e \in attaches} \subseteq Points
    BY Types
  <2>2. j \in Jobs /\ j.pc = "cancel_all" /\ j.cmd = "shutdown" /\ j.todo = {e.mountpoint : e \in attaches}
    BY <2>1 DEF Jobs, Idle, PCs
  <2>3. job' = [job EXCEPT ![t] = j] /\ attaches' = attaches
    BY <1>5 DEF begin_destroy
  <2>4. Covers(j, attaches')
    BY <2>2, <2>3 DEF Covers
  <2> HIDE DEF j
  <2> QED BY <2>2, <2>3, <2>4, ThreadCovers
<1>6. ASSUME NEW c \in Clients, shutdown(c) PROVE DestroyCovers'
  BY <1>5, <1>6 DEF shutdown, Threads
<1>7. CASE leave_accept_loop
  <2>1. CASE begin_destroy(Main)
    BY <1>5, <2>1 DEF Threads
  <2> QED BY <1>1, <1>7, <2>1 DEF leave_accept_loop, registryVars
<1>8. CASE signal
  BY <1>1, <1>8 DEF signal, registryVars
<1>9. CASE \E v \in Views : block(v) \/ loop_ends(v)
  BY <1>1, <1>9 DEF block, loop_ends, registryVars
<1>10. CASE UNCHANGED vars
  BY <1>1, <1>10 DEF vars, registryVars
<1>11. ASSUME NEW c \in Clients, accept(c) \/ refuse(c) \/ \E v \in Views : decide(c, v)
       PROVE  DestroyCovers'
  <2>1. c \in Threads /\ job[c] \in Jobs /\ job \in [Threads -> Jobs] /\ attaches' = attaches
    BY <1>11, Types DEF Threads, accept, refuse, decide, registryVars
  <2>2. CASE Return(c)
    BY <2>1, <2>2, IdleCovers, ThreadCovers DEF Return
  <2>3. CASE Goto(c, "accepted") /\ job[c].pc = "idle"
    <3> DEFINE j == [job[c] EXCEPT !.pc = "accepted"]
    <3>1. j \in Jobs /\ j.pc = "accepted" /\ j.cmd = job[c].cmd /\ job' = [job EXCEPT ![c] = j]
      BY <2>1, <2>3 DEF Jobs, PCs, Goto
    <3>2. \A e \in attaches : job[c].cmd = "shutdown" => e.mountpoint \in job[c].todo
      BY <2>1, <2>3 DEF DestroyCovers, Covers, Detaching
    <3>3. j.todo = job[c].todo
      BY <2>1 DEF Jobs
    <3>4. Covers(j, attaches')
      BY <2>1, <3>1, <3>2, <3>3 DEF Covers
    <3> HIDE DEF j
    <3> QED BY <2>1, <3>1, <3>4, ThreadCovers
  <2> QED BY <1>11, <2>2, <2>3 DEF accept, refuse, decide, At
<1> QED BY <1>2, <1>4, <1>6, <1>7, <1>8, <1>9, <1>10, <1>11 DEF Next

\* Only the last section of a destroy takes the sandbox away.
LEMMA SandboxStays ==
  ASSUME [Next]_vars, sandbox' # sandbox
  PROVE  \E t \in Threads : remove_sandbox(t)
<1>1. ASSUME NEW t \in Threads, ThreadStep(t), ~remove_sandbox(t) PROVE sandbox' = sandbox
  BY <1>1 DEF ThreadStep, attach_ids, spawn_mount2, push_mount, record_attach, insert_trusted,
     find_attach, cancel_view, take_mount, umount, join, forget_attach, cancel_all, destroy_next,
     set_stop, registryVars
<1>2. ASSUME NEW c \in Clients, NEW m \in Points, attach(c, m) \/ detach(c, m) \/ end_trusted(c, m)
      PROVE  sandbox' = sandbox
  BY <1>2 DEF attach, detach, end_trusted, registryVars
<1>3. ASSUME NEW v \in Views, block(v) \/ loop_ends(v) \/ \E c \in Clients : decide(c, v)
      PROVE  sandbox' = sandbox
  BY <1>3 DEF block, loop_ends, decide, registryVars
<1>4. ASSUME \/ signal \/ leave_accept_loop \/ UNCHANGED vars
             \/ \E c \in Clients : accept(c) \/ refuse(c) \/ shutdown(c)
      PROVE  sandbox' = sandbox
  BY <1>4 DEF signal, leave_accept_loop, accept, refuse, shutdown, begin_destroy, vars, registryVars
<1> QED BY <1>1, <1>2, <1>3, <1>4 DEF Next

\* The sandbox goes when its last view has gone, and no view is made without it.
LEMMA NextLeavesNoView ==
  ASSUME SessionIndInv, AttachesSerially, NoAttachDuringDestroy, DestroyInv, [Next]_vars, ~sandbox'
  PROVE  mounted' = {} /\ \A t \in Threads : job'[t].pc \notin Attaching
<1>1. job \in [Threads -> Jobs]
  BY Types
<1>2. ASSUME NEW t \in Threads, remove_sandbox(t)
      PROVE  mounted = {} /\ \A u \in Threads : job[u].pc \notin Attaching
  <2>1. CASE ~sandbox
    BY <2>1 DEF DestroyInv
  <2>2. CASE sandbox
    <3>1. job[t].pc = "remove_sandbox" /\ job[t].cmd = "shutdown" /\ job[t].todo = {}
      BY <1>2 DEF remove_sandbox, At, DestroyInv, DestroyCovers, Covers
    <3>2. attaches = {}
      BY <3>1 DEF DestroyInv, DestroyCovers, Covers, Detaching
    <3>3. \A u \in Threads : job[u].pc \notin Attaching
      BY <3>1 DEF NoAttachDuringDestroy
    <3>4. MountedKnown
      BY DEF SessionIndInv, SerialInv
    <3> QED BY <2>2, <3>2, <3>3, <3>4 DEF MountedKnown, Attaching
  <2> QED BY <2>1, <2>2
<1>3. CASE \E t \in Threads : remove_sandbox(t)
  <2>1. PICK t \in Threads : remove_sandbox(t)
    BY <1>3
  <2>2. mounted' = mounted /\ (Return(t) \/ Goto(t, "set_stop"))
    BY <2>1 DEF remove_sandbox, fuseVars, Fail
  <2>3. job'[t].pc \in {"idle", "set_stop"} /\ \A u \in Threads : u # t => job'[u] = job[u]
    <3>1. CASE Return(t)
      BY <1>1, <3>1, IdleCovers DEF Return
    <3>2. CASE Goto(t, "set_stop")
      <4>1. job[t] \in Jobs /\ job' = [job EXCEPT ![t] = [job[t] EXCEPT !.pc = "set_stop"]]
        BY <1>1, <3>2 DEF Goto
      <4> QED BY <1>1, <4>1 DEF Jobs
    <3> QED BY <2>2, <3>1, <3>2
  <2> QED BY <1>2, <2>1, <2>2, <2>3 DEF Attaching
<1>4. CASE ~\E t \in Threads : remove_sandbox(t)
  <2>1. ~sandbox
    BY <1>4, SandboxStays
  <2>2. mounted = {} /\ \A t \in Threads : job[t].pc \notin Attaching
    BY <2>1 DEF DestroyInv
  <2>3. ASSUME UNCHANGED <<mounted, job>>
        PROVE  mounted' = {} /\ \A t \in Threads : job'[t].pc \notin Attaching
    BY <2>2, <2>3
  <2>4. ASSUME NEW t \in Threads, mounted' \subseteq mounted, NEW pc \in PCs \ Attaching,
               NEW j, job' = [job EXCEPT ![t] = j], j.pc = pc
        PROVE  mounted' = {} /\ \A u \in Threads : job'[u].pc \notin Attaching
    <3>1. \A u \in Threads : job'[u] = IF u = t THEN j ELSE job[u]
      BY <1>1, <2>4
    <3> QED BY <2>2, <2>4, <3>1
  <2>5. ASSUME NEW t \in Threads, mounted' \subseteq mounted,
               Return(t) \/ \E pc \in PCs \ Attaching : Goto(t, pc)
        PROVE  mounted' = {} /\ \A u \in Threads : job'[u].pc \notin Attaching
    <3>1. CASE Return(t)
      BY <2>4, <2>5, <3>1, IdleCovers DEF Return, PCs, Attaching
    <3>2. ASSUME NEW pc \in PCs \ Attaching, Goto(t, pc)
          PROVE  mounted' = {} /\ \A u \in Threads : job'[u].pc \notin Attaching
      <4>1. /\ job' = [job EXCEPT ![t] = [job[t] EXCEPT !.pc = pc]]
            /\ [job[t] EXCEPT !.pc = pc].pc = pc
        BY <1>1, <3>2 DEF Goto, Jobs
      <4> QED BY <2>4, <2>5, <4>1
    <3> QED BY <2>5, <3>1, <3>2
  <2>6. ASSUME NEW t \in Threads, ThreadStep(t)
        PROVE  mounted' = {} /\ \A u \in Threads : job'[u].pc \notin Attaching
    <3>1. ~(attach_ids(t) \/ spawn_mount2(t) \/ push_mount(t) \/ record_attach(t))
      BY <2>2 DEF attach_ids, spawn_mount2, push_mount, record_attach, At, Attaching
    <3>2. CASE \/ insert_trusted(t) \/ cancel_view(t) \/ take_mount(t) \/ umount(t)
               \/ join(t) \/ forget_attach(t) \/ cancel_all(t) \/ set_stop(t)
      <4>1. mounted' \subseteq mounted
        BY <3>2 DEF insert_trusted, cancel_view, take_mount, umount, join, forget_attach, cancel_all,
           set_stop, fuseVars
      <4>2. Return(t) \/ \E pc \in {"take_mount", "umount", "join", "forget_attach", "destroy_next"} : Goto(t, pc)
        BY <3>2 DEF insert_trusted, cancel_view, take_mount, umount, join, forget_attach, cancel_all,
           set_stop, Fail
      <4> QED BY <2>5, <4>1, <4>2 DEF PCs, Attaching
    <3>3. CASE find_attach(t)
      <4>1. mounted' = mounted
        BY <3>3 DEF find_attach, fuseVars
      <4>2. CASE \E e : job' = [job EXCEPT ![t].pc = "cancel_view", ![t].view = e.id]
        <5>1. PICK v : job' = [job EXCEPT ![t].pc = "cancel_view", ![t].view = v]
          BY <4>2
        <5>2. /\ job' = [job EXCEPT ![t] = [job[t] EXCEPT !.pc = "cancel_view", !.view = v]]
              /\ [job[t] EXCEPT !.pc = "cancel_view", !.view = v].pc = "cancel_view"
          BY <1>1, <5>1 DEF Jobs
        <5> QED BY <2>4, <4>1, <5>2 DEF PCs, Attaching
      <4> QED BY <2>5, <3>3, <4>1, <4>2 DEF find_attach, Fail
    <3>4. CASE destroy_next(t)
      <4>1. mounted' = mounted
        BY <3>4 DEF destroy_next, fuseVars
      <4>2. ASSUME NEW m \in job[t].todo,
               job' = [job EXCEPT ![t].pc = "find_attach", ![t].at = m, ![t].todo = @ \ {m}]
            PROVE  mounted' = {} /\ \A u \in Threads : job'[u].pc \notin Attaching
        <5>1. /\ job' = [job EXCEPT ![t] = [job[t] EXCEPT !.pc = "find_attach", !.at = m, !.todo = job[t].todo \ {m}]]
              /\ [job[t] EXCEPT !.pc = "find_attach", !.at = m, !.todo = job[t].todo \ {m}].pc = "find_attach"
          BY <1>1, <4>2 DEF Jobs
        <5> QED BY <2>4, <4>1, <5>1 DEF PCs, Attaching
      <4>3. CASE Goto(t, "remove_sandbox")
        BY <2>5, <4>1, <4>3 DEF PCs, Attaching
      <4> QED BY <3>4, <4>2, <4>3 DEF destroy_next
    <3> QED BY <1>4, <2>6, <3>1, <3>2, <3>3, <3>4 DEF ThreadStep
  <2>7. ASSUME NEW c \in Clients, NEW m \in Points, attach(c, m) \/ detach(c, m) \/ end_trusted(c, m)
        PROVE  mounted' = {} /\ \A u \in Threads : job'[u].pc \notin Attaching
    <3>1. c \in Threads /\ mounted' = mounted /\ ~attach(c, m)
      BY <2>1, <2>7 DEF Threads, attach, detach, end_trusted, fuseVars
    <3>2. PICK cmd \in {"detach", "end_trusted"} :
             job' = [job EXCEPT ![c] = [Idle EXCEPT !.cmd = cmd, !.pc = "find_attach", !.at = m]]
      BY <2>7, <3>1 DEF detach, end_trusted
    <3>3. [Idle EXCEPT !.cmd = cmd, !.pc = "find_attach", !.at = m].pc = "find_attach"
      BY DEF Idle
    <3> QED BY <2>4, <3>1, <3>2, <3>3 DEF PCs, Attaching
  <2>8. ASSUME NEW v \in Views, block(v) \/ loop_ends(v)
        PROVE  mounted' = {} /\ \A u \in Threads : job'[u].pc \notin Attaching
    BY <2>3, <2>8 DEF block, loop_ends
  <2>9. ASSUME NEW c \in Clients, accept(c) \/ refuse(c) \/ \E v \in Views : decide(c, v)
         PROVE  mounted' = {} /\ \A u \in Threads : job'[u].pc \notin Attaching
    <3>1. c \in Threads /\ mounted' = mounted /\ (Return(c) \/ Goto(c, "accepted"))
      BY <2>9 DEF Threads, accept, refuse, decide, fuseVars
    <3> QED BY <2>5, <3>1 DEF PCs, Attaching
  <2>10. ASSUME signal \/ leave_accept_loop \/ (\E c \in Clients : shutdown(c)) \/ UNCHANGED vars
        PROVE  mounted' = {} /\ \A u \in Threads : job'[u].pc \notin Attaching
    BY <2>1, <2>3, <2>10 DEF signal, leave_accept_loop, shutdown, vars, fuseVars
  <2> QED BY <2>6, <2>7, <2>8, <2>10, <2>9 DEF Next
<1> QED BY <1>3, <1>4

\* The last view has gone when the sandbox does, and no thread waits for its event loop.
LEMMA NextLeavesNoLoop ==
  ASSUME SessionIndInv, AttachesSerially, NoAttachDuringDestroy, DestroyInv, [Next]_vars, ~sandbox',
         NEW v \in Views
  PROVE  loop'[v] # "blocked"
<1>1. SUFFICES ASSUME loop'[v] = "blocked" PROVE FALSE
  OBVIOUS
<1>2. ASSUME NEW t \in Threads, remove_sandbox(t), sandbox PROVE FALSE
  <2>1. job[t].pc = "remove_sandbox" /\ job[t].cmd = "shutdown" /\ job[t].todo = {} /\ loop' = loop
    BY <1>2 DEF remove_sandbox, At, DestroyInv, DestroyCovers, Covers, fuseVars
  <2>2. attaches = {}
    BY <2>1 DEF DestroyInv, DestroyCovers, Covers, Detaching
  <2>3. \A u \in Threads : job[u].pc \notin Attaching \cup Removing
    BY <1>2, <2>1, <2>2 DEF NoAttachDuringDestroy, SessionIndInv, SerialInv, RemovingAlone
  <2>4. mounted = {}
    BY <1>2, <2>2, <2>3 DEF SessionIndInv, SerialInv, MountedKnown, Attaching
  <2>5. loop[v] # "blocked"
    BY <2>3, <2>4 DEF SessionIndInv, BlockedKnown, Removing
  <2> QED BY <1>1, <2>1, <2>5
<1>3. CASE ~sandbox
  BY <1>1, <1>3, NewlyBlocked DEF DestroyInv, block
<1>4. CASE sandbox
  BY <1>2, <1>4, SandboxStays
<1> QED BY <1>3, <1>4

\* What PLAN.md says of destroy: when no view is attached while a destroy is at work, the
\* session that has lost its sandbox has no view mounted, and no event loop is left waiting
\* for a request that nobody can answer, whatever the detaches and decisions of other
\* connections, a signal, and the failures of unmounts and of the log do in between.  The
\* code lets an attach run while a destroy does, and then both may happen.
THEOREM DestroyCleansUp ==
  Spec => ([]NoAttachDuringDestroy => [](AttachesSerially => DestroyLeavesNoView /\ NoLoopStranded))
<1>1. Init => DestroyInv
  <2> SUFFICES ASSUME Init PROVE DestroyInv
    OBVIOUS
  <2>1. sandbox /\ attaches = {} /\ \A t \in Threads : job[t] = Idle
    BY DEF Init
  <2> QED BY <2>1, IdleCovers DEF DestroyInv, DestroyCovers
<1>2. SessionIndInv /\ NoAttachDuringDestroy /\ (AttachesSerially => DestroyInv) /\ [Next]_vars
      => (AttachesSerially => DestroyInv)'
  <2> SUFFICES ASSUME SessionIndInv, NoAttachDuringDestroy, AttachesSerially, DestroyInv, [Next]_vars
               PROVE  DestroyInv'
    BY DEF AttachesSerially
  <2>1. DestroyCovers'
    BY NextCovers DEF DestroyInv
  <2>2. ~sandbox' => mounted' = {} /\ \A t \in Threads : job'[t].pc \notin Attaching
    BY NextLeavesNoView
  <2>3. ~sandbox' => \A v \in Views : loop'[v] # "blocked"
    BY NextLeavesNoLoop
  <2> QED BY <2>1, <2>2, <2>3 DEF DestroyInv
<1>3. SessionIndInv /\ DestroyInv => DestroyLeavesNoView /\ NoLoopStranded
  BY DEF SessionIndInv, BlockedIsQueued, NoLoopStranded, DestroyInv, DestroyLeavesNoView
<1> QED BY <1>1, <1>2, <1>3, SessionInvariance, PTL DEF Spec
=============================================================================
