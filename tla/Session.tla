-------------------------------- MODULE Session --------------------------------
(***************************************************************************)
(* The life of a sandbox session: serve_session with its accept loop, one  *)
(* thread per control connection, and the commands that start and stop     *)
(* views (attach, detach, destroy, and the temporary view of a trusted     *)
(* command), against event loops that may be blocked on an authorization.  *)
(*                                                                         *)
(* The commands take the registry mutex several times and the mounts mutex *)
(* in between; each locked section, each FUSE mount or unmount and the     *)
(* join of an event loop is one step.  A request of a view is queued or    *)
(* decided here in one step (ReadWriteAuth has the details); metadata      *)
(* requests do not block the event loop and are left out.  A trusted token *)
(* is the temporary mountpoint it was made for.                            *)
(***************************************************************************)
EXTENDS Naturals, FiniteSets

CONSTANTS
    Clients,        \* control connections that may be open at once
    Main,           \* the main thread of serve_session
    Commands,       \* per client: the commands it may send
    Mountpoints,    \* directories given to attach
    TempPoints,     \* directories made for trusted commands
    None,
    MaxAttach,      \* bound: views ever attached
    Signals,        \* may SIGINT or SIGTERM arrive?
    MountFails,     \* may the FUSE mount or unmount fail?
    LogFails        \* may the log writer fail?

Views == 1..MaxAttach
Points == Mountpoints \cup TempPoints
Threads == Clients \cup {Main}

ASSUME SessionAssumption ==
    /\ Main \notin Clients
    /\ Mountpoints \cap TempPoints = {}
    /\ None \notin Points /\ None \notin Views
    /\ MaxAttach \in Nat
    /\ Signals \in BOOLEAN /\ MountFails \in BOOLEAN /\ LogFails \in BOOLEAN
    /\ \A c \in Clients : Commands[c] \subseteq
          {"attach", "detach", "shutdown", "begin_trusted", "end_trusted", "decide"}

VARIABLES
    sandbox,    \* is the sandbox in the registry?
    attaches,   \* Sandbox.attaches: mountpoint and attach id
    mounts,     \* SessionState.mounts: mountpoint and attach id
    next_view,  \* the next attach id
    mounted,    \* views the kernel has mounted
    loop,       \* per view: its event loop
    queued,     \* views whose request is in the registry
    trusted,    \* SandboxRegistry.trusted
    job,        \* per thread: the command it runs
    stop,       \* the stop flag of serve_session
    running     \* serve_session has not returned

registryVars == <<sandbox, attaches, queued, trusted>>
fuseVars == <<mounts, next_view, mounted, loop>>
mainVars == <<stop, running>>
vars == <<registryVars, fuseVars, job, mainVars>>

Idle == [cmd |-> "none", pc |-> "idle", at |-> None, view |-> None, todo |-> {}]
PCs == {"idle", "accepted", "attach_ids", "spawn_mount", "push_mount", "record_attach", "insert_trusted",
        "find_attach", "cancel_view", "take_mount", "umount", "join", "forget_attach",
        "cancel_all", "destroy_next", "remove_sandbox", "set_stop"}

Session(m, v) == [mountpoint |-> m, id |-> v]

-----------------------------------------------------------------------------
Init ==
    /\ sandbox = TRUE
    /\ attaches = {}
    /\ mounts = {}
    /\ next_view = 1
    /\ mounted = {}
    /\ loop = [v \in Views |-> "none"]
    /\ queued = {}
    /\ trusted = {}
    /\ job = [t \in Threads |-> Idle]
    /\ stop = FALSE
    /\ running = TRUE

\* Thread t is at pc.
At(t, pc) == running /\ job[t].pc = pc
Goto(t, pc) == job' = [job EXCEPT ![t].pc = pc]
\* The command of t is over, with whatever response.
Return(t) == job' = [job EXCEPT ![t] = Idle]

\* A handler thread has read its request, whatever has happened since the accept.
Receives(c, cmd) == At(c, "accepted") /\ cmd \in Commands[c]

attached_at(m) == {e \in attaches : e.mountpoint = m}

\* The accept loop hands a connection to a thread; the flag may have been set after
\* the loop looked at it.
accept(c) ==
    /\ At(Main, "idle")
    /\ At(c, "idle")
    /\ Goto(c, "accepted")
    /\ UNCHANGED <<registryVars, fuseVars, mainVars>>

\* The request cannot be read, or its first check refuses it.
refuse(c) ==
    /\ At(c, "accepted")
    /\ Return(c)
    /\ UNCHANGED <<registryVars, fuseVars, mainVars>>

-----------------------------------------------------------------------------
(* attach, alone or in begin_trusted. *)

\* The first section: refused when the mountpoint is attached.  (begin_trusted
\* looks for the sandbox in a section of its own before; attach does it again.)
attach(c, m) ==
    /\ \/ Receives(c, "attach") /\ m \in Mountpoints
       \/ Receives(c, "begin_trusted") /\ m \in TempPoints \ trusted
    /\ sandbox
    /\ attached_at(m) = {}
    /\ next_view \in Views
    /\ job' = [job EXCEPT ![c] = [Idle EXCEPT !.pc = "attach_ids", !.at = m,
                 !.cmd = IF m \in TempPoints THEN "begin_trusted" ELSE "attach"]]
    /\ UNCHANGED <<registryVars, fuseVars, mainVars>>

attach_ids(c) ==
    /\ At(c, "attach_ids")
    /\ \/ /\ sandbox /\ next_view \in Views
          /\ next_view' = next_view + 1
          /\ job' = [job EXCEPT ![c].pc = "spawn_mount", ![c].view = next_view]
       \/ /\ ~sandbox \/ next_view \notin Views
          /\ Return(c)
          /\ UNCHANGED next_view
    /\ UNCHANGED <<registryVars, mounts, mounted, loop, mainVars>>

spawn_mount2(c) ==
    /\ At(c, "spawn_mount")
    /\ \/ /\ mounted' = mounted \cup {job[c].view}
          /\ loop' = [loop EXCEPT ![job[c].view] = "serving"]
          /\ Goto(c, "push_mount")
       \/ /\ MountFails
          /\ Return(c)
          /\ UNCHANGED <<mounted, loop>>
    /\ UNCHANGED <<registryVars, mounts, next_view, mainVars>>

push_mount(c) ==
    /\ At(c, "push_mount")
    /\ mounts' = mounts \cup {Session(job[c].at, job[c].view)}
    /\ Goto(c, "record_attach")
    /\ UNCHANGED <<registryVars, next_view, mounted, loop, mainVars>>

\* Fault: the entry is kept for permanent views only.
record_attach_permanent(c) ==
    /\ At(c, "record_attach")
    /\ attaches' = IF sandbox /\ job[c].cmd = "attach"
                   THEN (attaches \ attached_at(job[c].at)) \cup {Session(job[c].at, job[c].view)}
                   ELSE attaches
    /\ IF sandbox /\ job[c].cmd = "begin_trusted" THEN Goto(c, "insert_trusted") ELSE Return(c)
    /\ UNCHANGED <<sandbox, queued, trusted, fuseVars, mainVars>>

\* The last section of attach; a failing log ends the command after it.
record_attach(c) ==
    /\ At(c, "record_attach")
    /\ \/ /\ sandbox
          /\ attaches' = (attaches \ attached_at(job[c].at)) \cup {Session(job[c].at, job[c].view)}
          /\ \/ job[c].cmd = "begin_trusted" /\ Goto(c, "insert_trusted")
             \/ (job[c].cmd = "attach" \/ LogFails) /\ Return(c)
       \/ /\ ~sandbox
          /\ Return(c)
          /\ UNCHANGED attaches
    /\ UNCHANGED <<sandbox, queued, trusted, fuseVars, mainVars>>

insert_trusted(c) ==
    /\ At(c, "insert_trusted")
    /\ trusted' = trusted \cup {job[c].at}
    /\ Return(c)
    /\ UNCHANGED <<sandbox, attaches, queued, fuseVars, mainVars>>

-----------------------------------------------------------------------------
(* detach, alone, in end_trusted or in destroy. *)

\* An error ends the command; in the main thread it ends serve_session.
Fail(t) == Return(t) /\ running' = (t # Main)

detach(c, m) ==
    /\ Receives(c, "detach")
    /\ job' = [job EXCEPT ![c] = [Idle EXCEPT !.cmd = "detach", !.pc = "find_attach", !.at = m]]
    /\ UNCHANGED <<registryVars, fuseVars, mainVars>>

end_trusted(c, m) ==
    /\ Receives(c, "end_trusted")
    /\ m \in trusted
    /\ trusted' = trusted \ {m}
    /\ job' = [job EXCEPT ![c] = [Idle EXCEPT !.cmd = "end_trusted", !.pc = "find_attach", !.at = m]]
    /\ UNCHANGED <<sandbox, attaches, queued, fuseVars, mainVars>>

find_attach(t) ==
    /\ At(t, "find_attach")
    /\ \/ \E e \in attached_at(job[t].at) :
             /\ job' = [job EXCEPT ![t].pc = "cancel_view", ![t].view = e.id]
             /\ UNCHANGED running
       \/ attached_at(job[t].at) = {} /\ Fail(t)
    /\ UNCHANGED <<registryVars, fuseVars, stop>>

\* The event loops whose queued request is taken out and canceled.
Wake(S) == loop' = [v \in Views |-> IF v \in S \cap queued THEN "serving" ELSE loop[v]]

\* Fault: the requests are withdrawn and nobody is told.
cancel_view_silently(t) ==
    /\ At(t, "cancel_view")
    /\ queued' = queued \ {job[t].view}
    /\ Goto(t, "take_mount")
    /\ UNCHANGED <<sandbox, attaches, trusted, fuseVars, mainVars>>

\* cancel_attached_view, whose own result is ignored.
cancel_view(t) ==
    /\ At(t, "cancel_view")
    /\ IF sandbox
       THEN Wake({job[t].view}) /\ queued' = queued \ {job[t].view}
       ELSE UNCHANGED <<loop, queued>>
    /\ Goto(t, "take_mount")
    /\ UNCHANGED <<sandbox, attaches, trusted, mounts, next_view, mounted, mainVars>>

\* Fault: every session of the mountpoint's sandbox is taken.
take_all_mounts(t) ==
    LET s == Session(job[t].at, job[t].view)
    IN  /\ At(t, "take_mount")
        /\ IF s \in mounts THEN Goto(t, "umount") /\ UNCHANGED running ELSE Fail(t)
        /\ mounts' = {}
        /\ UNCHANGED <<registryVars, next_view, mounted, loop, stop>>

\* "mount session not found": another detach has taken it.
take_mount(t) ==
    LET s == Session(job[t].at, job[t].view)
    IN  /\ At(t, "take_mount")
        /\ \/ s \in mounts /\ Goto(t, "umount") /\ UNCHANGED running
           \/ s \notin mounts /\ Fail(t)
        /\ mounts' = mounts \ {s}
        /\ UNCHANGED <<registryVars, next_view, mounted, loop, stop>>

\* Fault: the entry goes before the view is unmounted.
umount_forgets_first(t) ==
    /\ At(t, "umount")
    /\ mounted' = mounted \ {job[t].view}
    /\ attaches' = attaches \ attached_at(job[t].at)
    /\ Goto(t, "join")
    /\ UNCHANGED <<sandbox, queued, trusted, mounts, next_view, loop, mainVars>>

\* umount_and_join: unmounts, then joins the thread of the event loop.
umount(t) ==
    /\ At(t, "umount")
    /\ \/ /\ mounted' = mounted \ {job[t].view}
          /\ Goto(t, "join")
          /\ UNCHANGED running
       \/ /\ MountFails
          /\ Fail(t)
          /\ UNCHANGED mounted
    /\ UNCHANGED <<registryVars, mounts, next_view, loop, stop>>

join(t) ==
    /\ At(t, "join")
    /\ loop[job[t].view] = "ended"
    /\ Goto(t, "forget_attach")
    /\ UNCHANGED <<registryVars, fuseVars, mainVars>>

\* The last section of detach; destroy goes on with the next mountpoint
\* unless the log fails.
forget_attach(t) ==
    /\ At(t, "forget_attach")
    /\ attaches' = attaches \ attached_at(job[t].at)
    /\ \/ job[t].cmd # "shutdown" /\ Return(t) /\ UNCHANGED running
       \/ job[t].cmd = "shutdown" /\ Goto(t, "destroy_next") /\ UNCHANGED running
       \/ LogFails /\ Fail(t)
    /\ UNCHANGED <<sandbox, queued, trusted, fuseVars, stop>>

-----------------------------------------------------------------------------
(* destroy, for a Shutdown request or in the main thread. *)

begin_destroy(t) ==
    /\ job' = [job EXCEPT ![t] = [Idle EXCEPT !.cmd = "shutdown", !.pc = "cancel_all",
                                              !.todo = {e.mountpoint : e \in attaches}]]
    /\ trusted' = {}
    /\ UNCHANGED <<sandbox, attaches, queued, fuseVars, mainVars>>

shutdown(c) == Receives(c, "shutdown") /\ sandbox /\ begin_destroy(c)

\* Fault: the requests are withdrawn and nobody is told.
cancel_all_silently(t) ==
    /\ At(t, "cancel_all")
    /\ queued' = {}
    /\ Goto(t, "destroy_next")
    /\ UNCHANGED <<sandbox, attaches, trusted, fuseVars, mainVars>>

cancel_all(t) ==
    /\ At(t, "cancel_all")
    /\ IF sandbox THEN Wake(Views) /\ queued' = {} ELSE UNCHANGED <<loop, queued>>
    /\ Goto(t, "destroy_next")
    /\ UNCHANGED <<sandbox, attaches, trusted, mounts, next_view, mounted, mainVars>>

destroy_next(t) ==
    /\ At(t, "destroy_next")
    /\ \/ \E m \in job[t].todo :
             job' = [job EXCEPT ![t].pc = "find_attach", ![t].at = m, ![t].todo = @ \ {m}]
       \/ job[t].todo = {} /\ Goto(t, "remove_sandbox")
    /\ UNCHANGED <<registryVars, fuseVars, mainVars>>

\* The last section of destroy.  A failing log leaves a Shutdown without its answer
\* Ok, and the session running without its sandbox.
remove_sandbox(t) ==
    /\ At(t, "remove_sandbox")
    /\ sandbox' = FALSE
    /\ attaches' = {}
    /\ \/ t # Main /\ Goto(t, "set_stop") /\ UNCHANGED running
       \/ (t = Main \/ (sandbox /\ LogFails)) /\ Fail(t)
    /\ UNCHANGED <<queued, trusted, fuseVars, stop>>

\* The thread of a Shutdown has written its answer Ok.
set_stop(t) ==
    /\ At(t, "set_stop")
    /\ stop' = TRUE
    /\ Return(t)
    /\ UNCHANGED <<registryVars, fuseVars, running>>

\* A signal sets the flag; the main thread leaves the accept loop.
signal ==
    /\ Signals /\ running /\ ~stop
    /\ stop' = TRUE
    /\ UNCHANGED <<registryVars, fuseVars, job, running>>

leave_accept_loop ==
    /\ At(Main, "idle")
    /\ stop
    /\ \/ sandbox /\ begin_destroy(Main)
       \/ /\ ~sandbox
          /\ running' = FALSE
          /\ UNCHANGED <<registryVars, fuseVars, job, stop>>

-----------------------------------------------------------------------------
(* The views. *)

\* A process of the view needs an authorization and its event loop waits.
block(v) ==
    /\ running /\ sandbox
    /\ v \in mounted
    /\ loop[v] = "serving"
    /\ loop' = [loop EXCEPT ![v] = "blocked"]
    /\ queued' = queued \cup {v}
    /\ UNCHANGED <<sandbox, attaches, trusted, mounts, next_view, mounted, job, mainVars>>

\* allow, deny or cancel.  Without the sandbox the command fails after it has
\* taken the request out, and the waiter is not told.
decide(c, v) ==
    /\ Receives(c, "decide")
    /\ v \in queued
    /\ queued' = queued \ {v}
    /\ loop' = [loop EXCEPT ![v] = IF sandbox THEN "serving" ELSE @]
    /\ Return(c)
    /\ UNCHANGED <<sandbox, attaches, trusted, mounts, next_view, mounted, mainVars>>

loop_ends(v) ==
    /\ running
    /\ loop[v] = "serving"
    /\ v \notin mounted
    /\ loop' = [loop EXCEPT ![v] = "ended"]
    /\ UNCHANGED <<registryVars, mounts, next_view, mounted, job, mainVars>>

-----------------------------------------------------------------------------
ThreadStep(t) ==
    \/ attach_ids(t) \/ spawn_mount2(t) \/ push_mount(t) \/ record_attach(t)
    \/ insert_trusted(t)
    \/ find_attach(t) \/ cancel_view(t) \/ take_mount(t) \/ umount(t) \/ join(t)
    \/ forget_attach(t)
    \/ cancel_all(t) \/ destroy_next(t) \/ remove_sandbox(t) \/ set_stop(t)

Next ==
    \/ \E c \in Clients : accept(c) \/ refuse(c)
    \/ \E c \in Clients, m \in Points : attach(c, m) \/ detach(c, m) \/ end_trusted(c, m)
    \/ \E c \in Clients : shutdown(c)
    \/ \E c \in Clients, v \in Views : decide(c, v)
    \/ \E t \in Threads : ThreadStep(t)
    \/ signal
    \/ leave_accept_loop
    \/ \E v \in Views : block(v) \/ loop_ends(v)

Spec == Init /\ [][Next]_vars

\* Threads run, the main thread sees the flag, event loops end when their view
\* is unmounted; and an operator who is there connects while the accept loop
\* takes connections, and does not pass over a request for ever.
FairSpec ==
    /\ Spec
    /\ \A t \in Threads : WF_vars(ThreadStep(t))
    /\ WF_vars(leave_accept_loop)
    /\ \A v \in Views : WF_vars(loop_ends(v))
    /\ \A c \in Clients : WF_vars("decide" \in Commands[c] /\ accept(c))
    /\ \A v \in Views : SF_vars(\E c \in Clients : decide(c, v))

-----------------------------------------------------------------------------
(* Properties. *)

\* The types; live sessions have distinct ids below the counter.
TypeOK ==
    /\ sandbox \in BOOLEAN /\ stop \in BOOLEAN /\ running \in BOOLEAN
    /\ attaches \subseteq [mountpoint : Points, id : Views]
    /\ mounts \subseteq [mountpoint : Points, id : Views]
    /\ next_view \in 1..(MaxAttach + 1)
    /\ \A s, r \in mounts : s.id < next_view /\ (s.id = r.id => s = r)
    /\ mounted \subseteq Views
    /\ loop \in [Views -> {"none", "serving", "blocked", "ended"}]
    /\ queued \subseteq Views
    /\ trusted \subseteq TempPoints
    /\ \A t \in Threads :
          /\ job[t].pc \in PCs
          /\ job[t].at \in Points \cup {None}
          /\ job[t].view \in Views \cup {None}
          /\ job[t].todo \subseteq Points

\* What detach and destroy rely on: an entry of attaches has its session in
\* mounts, except while one thread is unmounting it.
EntryHasSession ==
    \A e \in attaches :
        e \in mounts \/ \E t \in Threads :
            job[t].view = e.id /\ job[t].pc \in {"umount", "join", "forget_attach"}

\* PLAN.md: attaching the same path twice must fail.  No two live views have
\* one mountpoint.
OneViewPerMountpoint ==
    \A s, r \in mounts : s.mountpoint = r.mountpoint => s = r

\* While the sandbox lives, a view that is mounted can be detached: it is
\* listed, or a command is at work on it.
NoOrphanView ==
    sandbox => \A v \in mounted :
        \/ \E e \in attaches : e.id = v
        \/ \E t \in Threads : job[t].view = v

\* PLAN.md: destroy cleans up the state, the pending requests and the
\* mountpoints.  A session without its sandbox has no view mounted.
DestroyLeavesNoView == ~sandbox => mounted = {}

\* An event loop that waits can be released: its request is in the queue.
NoLoopStranded == \A v \in Views : loop[v] = "blocked" => v \in queued

\* So it is for as long as the session has its sandbox.  Between the removal of the
\* sandbox and the end of the process, allow takes a request out and then fails, and
\* its waiter is lost.
BlockedIsQueued == sandbox => NoLoopStranded

\* With an operator who answers, every attach, detach and destroy ends.
CommandsEnd == \A c \in Clients : job[c].cmd # "none" ~> (job[c] = Idle \/ ~running)

\* CONTEXT.md: "Sandbox destroy or session exit cancels all waiting
\* authorization requests": a session told to stop does stop.
ExitCompletes == stop ~> ~running

-----------------------------------------------------------------------------
(* The inductive invariant. *)

Jobs == [cmd : {"none", "attach", "begin_trusted", "detach", "end_trusted", "shutdown"},
         pc : PCs, at : Points \cup {None}, view : Views \cup {None}, todo : SUBSET Points]

\* Where a thread adds a view, where it has an id for it, and where it takes one down.
Attaching == {"attach_ids", "spawn_mount", "push_mount", "record_attach"}
Making == {"spawn_mount", "push_mount", "record_attach"}
Detaching == {"cancel_view", "take_mount", "umount", "join", "forget_attach"}
Removing == {"umount", "join", "forget_attach"}

\* The session that a thread adds or takes down.
own(t) == Session(job[t].at, job[t].view)

\* What a thread knows where it is.
JobsCoherent ==
    /\ job \in [Threads -> Jobs]
    /\ \A t \in Threads :
          /\ job[t].pc \in Attaching \cup {"insert_trusted"} =>
                /\ t \in Clients
                /\ job[t].cmd \in Commands[t] \cap {"attach", "begin_trusted"}
                /\ job[t].at \in Points
                /\ job[t].cmd = "begin_trusted" => job[t].at \in TempPoints
          /\ job[t].pc = "insert_trusted" => job[t].cmd = "begin_trusted"
          /\ job[t].pc \in Detaching \cup {"find_attach"} => job[t].at \in Points
          /\ job[t].pc \in Making \cup Detaching => job[t].view \in Views /\ job[t].view < next_view

\* Ids of views are given once.
ViewsFresh ==
    /\ \A e \in attaches : e.id < next_view
    /\ \A v \in mounted : v < next_view
    /\ \A t \in Threads : job[t].pc \in {"spawn_mount", "push_mount"} =>
          /\ \A s \in mounts : s.id # job[t].view
          /\ \A u \in Threads : job[u].pc \in {"spawn_mount", "push_mount"}
                                /\ job[u].view = job[t].view => u = t

\* No two connections attach views at the same time.
AttachesSerially ==
    \A c, d \in Clients : c # d =>
        \/ Commands[c] \cap {"attach", "begin_trusted"} = {}
        \/ Commands[d] \cap {"attach", "begin_trusted"} = {}

OneAttaching ==
    \A t, u \in Threads : job[t].pc \in Attaching /\ job[u].pc \in Attaching => t = u

\* The mountpoint of a view being made is free, and stays so.
AttachingAlone ==
    \A t \in Threads : job[t].pc \in Attaching =>
        /\ attached_at(job[t].at) = {}
        /\ \A u \in Threads : job[u].pc \in Removing => job[u].at # job[t].at
        /\ job[t].pc # "record_attach" => \A s \in mounts : s.mountpoint # job[t].at
        /\ job[t].pc = "record_attach" => own(t) \in mounts

\* Nobody else knows the id of a view being made.
NewView ==
    \A t \in Threads : job[t].pc \in Making =>
        /\ \A e \in attaches : e.id # job[t].view
        /\ \A u \in Threads : job[u].pc \in Detaching => job[u].view # job[t].view

\* The entries are one per mountpoint, and list the sessions but the newest.
EntriesDistinct ==
    /\ \A e, f \in attaches : e.mountpoint = f.mountpoint => e = f
    /\ ~sandbox => attaches = {}
    /\ sandbox => \A s \in mounts :
          s \in attaches \/ \E t \in Threads : job[t].pc = "record_attach" /\ own(t) = s

\* A thread that takes a view down does so alone, and its entry is there until it
\* has been unmounted.
RemovingAlone ==
    \A t \in Threads : job[t].pc \in Removing =>
        /\ own(t) \notin mounts
        /\ sandbox => own(t) \in attaches
        /\ \A u \in Threads : job[u].pc \in Removing /\ own(u) = own(t) => u = t
        /\ job[t].pc # "umount" => job[t].view \notin mounted

\* A mounted view is listed, or about to be.
MountedKnown ==
    sandbox => \A v \in mounted :
        \/ \E e \in attaches : e.id = v
        \/ \E t \in Threads : job[t].pc \in {"push_mount", "record_attach"} /\ job[t].view = v

\* Unless an unmount fails, an entry has its session or the thread that took it.
EntriesServed ==
    ~MountFails => \A e \in attaches :
        e \in mounts \/ \E t \in Threads : job[t].pc \in Removing /\ own(t) = e

\* An event loop that waits has its view mounted, or a thread that has unmounted it.
BlockedKnown ==
    \A v \in Views : loop[v] = "blocked" =>
        v \in mounted \/ \E t \in Threads : job[t].pc = "join" /\ job[t].view = v

SerialInv ==
    /\ OneAttaching
    /\ AttachingAlone
    /\ NewView
    /\ EntriesDistinct
    /\ RemovingAlone
    /\ OneViewPerMountpoint
    /\ MountedKnown
    /\ EntriesServed

SessionIndInv ==
    /\ TypeOK
    /\ JobsCoherent
    /\ ViewsFresh
    /\ AttachesSerially => SerialInv
    /\ BlockedIsQueued
    /\ BlockedKnown

\* Nothing attaches a view while a destroy is at work; the code does not see to it.
NoAttachDuringDestroy ==
    \A t, u \in Threads : job[t].cmd = "shutdown" => job[u].pc \notin Attaching

\* A destroy in state j still has to come to every entry of E, or is at it.
Covers(j, E) ==
    /\ j.cmd = "shutdown" => \A e \in E :
          \/ e.mountpoint \in j.todo
          \/ j.pc \in Detaching \cup {"find_attach"} /\ e.mountpoint = j.at
    /\ j.pc \in {"cancel_all", "destroy_next", "remove_sandbox", "set_stop"} => j.cmd = "shutdown"
    /\ j.pc = "remove_sandbox" => j.todo = {}

DestroyCovers == \A t \in Threads : Covers(job[t], attaches)

\* A session without its sandbox has no view and no loop that waits, and no view
\* is being made.
DestroyInv ==
    /\ DestroyCovers
    /\ ~sandbox => /\ mounted = {} /\ \A t \in Threads : job[t].pc \notin Attaching
                   /\ \A v \in Views : loop[v] # "blocked"
=============================================================================
