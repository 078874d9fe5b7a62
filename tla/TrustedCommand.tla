---------------------------- MODULE TrustedCommand -----------------------------
(***************************************************************************)
(* gatefs <name> chmod, chown and chattr: run_trusted_command makes a      *)
(* temporary view, forks a child that waits on a pipe, registers its pid   *)
(* as trusted, lets it run the command in the view, waits for it and takes *)
(* the view down.  Each Commands value is one such gatefs process, its     *)
(* child and its pipe; they share the session and the pids.                *)
(*                                                                         *)
(* begin_trusted and end_trusted are one step each here; Session has the   *)
(* steps of the attach and the detach inside them.  A destroy has the      *)
(* steps that its commands meet: it forgets the tokens, takes down one     *)
(* view after the other, may fail there with the session still up, and     *)
(* removes the sandbox some time before the process ends.  A reply of the  *)
(* session with an error and a connection that fails have the same effect. *)
(***************************************************************************)
EXTENDS CommandLine, FiniteSets

CONSTANTS
    Commands,   \* the trusted commands, one gatefs process each
    Pids,       \* the pids their children can have
    NoPid       \* Option::None

ASSUME TrustedCommandAssumption == NoPid \notin Pids

VARIABLES
    session,     \* up, or its sandbox is removed, or its process has ended
    destroying,  \* a destroy is at work
    doomed,      \* commands whose view the destroy has listed and not taken down
    forgotten,   \* commands whose token a destroy has forgotten
    trusted,     \* SandboxRegistry.trusted: command and pid of each operation
    views,       \* commands whose temporary view is attached
    dirs,        \* commands whose temporary directory exists
    pc,          \* per command: the next step of run_trusted_command
    failed,      \* commands that will not return success, whatever cleanup says
    status,      \* per command: what its process ended with
    pid,         \* per command: child_pid
    child,       \* per command: where its child is
    writers,     \* per command: who holds the write end of its pipe
    byte,        \* commands that wrote the byte
    astray,      \* commands with a path of the host, or outside their scope
    changed,     \* commands whose child was told that its change is made
    stuck,       \* commands whose view failed to attach or to detach in full
    others       \* pids of processes that have nothing to do with gatefs

destroyVars == <<session, destroying, doomed, forgotten>>
sessionVars == <<destroyVars, trusted, views, dirs, stuck>>
cliVars == <<pc, failed, status>>
childVars == <<pid, child, writers, byte>>
effectVars == <<astray, changed>>
trustedVars == <<sessionVars, cliVars, childVars, effectVars, others>>

Steps == {"idle", "begin", "fork", "register", "kill", "unblock", "release", "wait",
          "end", "returned", "killed"}
ChildSteps == {"none", "started", "reading", "released", "running", "waiting", "refused",
               "succeeded", "exited", "reaped"}
Statuses == {"none", "success", "failure"}

TrustedInit ==
    /\ session = "up"
    /\ destroying = FALSE
    /\ doomed = {}
    /\ forgotten = {}
    /\ trusted = {}
    /\ views = {}
    /\ dirs = {}
    /\ pc = [c \in Commands |-> "idle"]
    /\ failed = {}
    /\ status = [c \in Commands |-> "none"]
    /\ pid = [c \in Commands |-> NoPid]
    /\ child = [c \in Commands |-> "none"]
    /\ writers = [c \in Commands |-> {}]
    /\ byte = {}
    /\ astray = {}
    /\ changed = {}
    /\ stuck = {}
    /\ others = {}

Alive == {"started", "reading", "released", "running", "waiting", "refused"}
has_child(c) == child[c] \in Alive \cup {"succeeded", "exited"}
free_pids == Pids \ (others \cup {pid[c] : c \in {d \in Commands : has_child(d)}})

\* is_trusted_operation: by pid, for the paths of the command (each command
\* has the paths its child uses).
is_trusted_operation(p) == \E op \in trusted : op.pid = p
token_of(c) == {op \in trusted : op.command = c}

session_up == session = "up"

-----------------------------------------------------------------------------
(* The gatefs process. *)

\* rewrite_command_path_args, which may refuse the command line, and
\* create_dir_all of the temporary mountpoint.
start(c) ==
    /\ pc[c] = "idle"
    /\ \/ /\ "refused" \in Fates
          /\ pc' = [pc EXCEPT ![c] = "returned"]
          /\ status' = [status EXCEPT ![c] = "failure"]
          /\ UNCHANGED <<dirs, astray>>
       \/ /\ \E f \in Fates \ {"refused"} :
                astray' = IF f = "astray" THEN astray \cup {c} ELSE astray
          /\ dirs' = dirs \cup {c}
          /\ pc' = [pc EXCEPT ![c] = "begin"]
          /\ UNCHANGED status
    /\ UNCHANGED <<destroyVars, trusted, views, stuck, failed, childVars, changed, others>>

\* A destroy that is at work may list the view, whose token it has not seen.
view_appears(c) ==
    /\ views' = views \cup {c}
    /\ doomed' \in {doomed} \cup {doomed \cup {d} : d \in IF destroying THEN {c} ELSE {}}

\* BeginTrustedOperation.  When it fails the directory is removed, except that an
\* attach that fails in its last section has left the view, which keeps its directory.
begin_trusted(c) ==
    /\ pc[c] = "begin"
    /\ \/ /\ session_up
          /\ view_appears(c)
          /\ trusted' = trusted \cup {[command |-> c, pid |-> NoPid]}
          /\ pc' = [pc EXCEPT ![c] = "fork"]
          /\ UNCHANGED <<dirs, stuck, status>>
       \/ /\ session # "ended"
          /\ view_appears(c)
          /\ stuck' = stuck \cup {c}
          /\ pc' = [pc EXCEPT ![c] = "returned"]
          /\ status' = [status EXCEPT ![c] = "failure"]
          /\ UNCHANGED <<dirs, trusted>>
       \/ /\ dirs' = dirs \ {c}
          /\ pc' = [pc EXCEPT ![c] = "returned"]
          /\ status' = [status EXCEPT ![c] = "failure"]
          /\ UNCHANGED <<views, doomed, stuck, trusted>>
    /\ UNCHANGED <<session, destroying, forgotten, failed, childVars, effectVars, others>>

\* pipe2 and fork, and the cleanup when one of them fails.
fork(c) ==
    /\ pc[c] = "fork"
    /\ \/ /\ \E p \in free_pids : pid' = [pid EXCEPT ![c] = p]
          /\ child' = [child EXCEPT ![c] = "started"]
          /\ writers' = [writers EXCEPT ![c] = {"parent", "child"}]
          /\ pc' = [pc EXCEPT ![c] = "register"]
          /\ UNCHANGED failed
       \/ /\ failed' = failed \cup {c}
          /\ pc' = [pc EXCEPT ![c] = "end"]
          /\ UNCHANGED <<pid, child, writers>>
    /\ UNCHANGED <<sessionVars, status, byte, effectVars, others>>


\* RegisterTrustedPid: an error when the token is gone.  Once the sandbox is removed
\* the session may not take the connection any more.
register_trusted_pid(c) ==
    /\ pc[c] = "register"
    /\ \/ /\ token_of(c) # {}
          /\ trusted' = (trusted \ token_of(c)) \cup {[command |-> c, pid |-> pid[c]]}
          /\ pc' = [pc EXCEPT ![c] = "release"]
       \/ /\ ~session_up \/ token_of(c) = {}
          /\ pc' = [pc EXCEPT ![c] = "kill"]
          /\ UNCHANGED trusted
    /\ UNCHANGED <<destroyVars, views, dirs, stuck, failed, status, childVars, effectVars, others>>

\* kill_release_wait: SIGKILL.  A killed child does not return from its system
\* call, whatever is written to the pipe afterwards.
kill(c) ==
    /\ pc[c] = "kill"
    /\ child' = [child EXCEPT ![c] = "exited"]
    /\ writers' = [writers EXCEPT ![c] = @ \ {"child"}]
    /\ failed' = failed \cup {c}
    /\ pc' = [pc EXCEPT ![c] = "unblock"]
    /\ UNCHANGED <<sessionVars, status, pid, byte, effectVars, others>>

\* kill_release_wait: the byte, whose failure is ignored, and the close.
unblock(c) ==
    /\ pc[c] = "unblock"
    /\ byte' = byte \cup {c}
    /\ writers' = [writers EXCEPT ![c] = @ \ {"parent"}]
    /\ pc' = [pc EXCEPT ![c] = "wait"]
    /\ UNCHANGED <<sessionVars, failed, status, pid, child, effectVars, others>>

\* Fault: a write that fails returns without waiting for the child.
release_without_wait(c) ==
    /\ pc[c] = "release"
    /\ writers' = [writers EXCEPT ![c] = @ \ {"parent"}]
    /\ IF child[c] \in Alive
       THEN /\ byte' = byte \cup {c}
            /\ pc' = [pc EXCEPT ![c] = "wait"]
            /\ UNCHANGED failed
       ELSE /\ failed' = failed \cup {c}
            /\ pc' = [pc EXCEPT ![c] = "end"]
            /\ UNCHANGED byte
    /\ UNCHANGED <<sessionVars, status, pid, child, effectVars, others>>

\* The byte that lets the child run; EPIPE when nobody can read it any more.
release(c) ==
    /\ pc[c] = "release"
    /\ IF child[c] \in Alive
       THEN byte' = byte \cup {c} /\ UNCHANGED failed
       ELSE failed' = failed \cup {c} /\ UNCHANGED byte
    /\ writers' = [writers EXCEPT ![c] = @ \ {"parent"}]
    /\ pc' = [pc EXCEPT ![c] = "wait"]
    /\ UNCHANGED <<sessionVars, status, pid, child, effectVars, others>>

\* The pid is free once the parent has waited for the child.  A waitpid that
\* fails returns an error as a child that fails does.
waitpid(c) ==
    /\ pc[c] = "wait"
    /\ child[c] \in {"succeeded", "exited"}
    /\ failed' = IF child[c] = "exited" THEN failed \cup {c} ELSE failed
    /\ child' = [child EXCEPT ![c] = "reaped"]
    /\ pc' = [pc EXCEPT ![c] = "end"]
    /\ UNCHANGED <<sessionVars, status, pid, writers, byte, effectVars, others>>

\* EndTrustedOperation and what run_trusted_command returns: the status of the
\* child if every step went well.  The token goes first.  A detach that fails, as it
\* does for a view that somebody else has taken down, leaves the directory, and the
\* view too unless it fails after the unmount.
end_trusted(c) ==
    /\ pc[c] = "end"
    /\ pc' = [pc EXCEPT ![c] = "returned"]
    /\ \/ /\ token_of(c) # {}
          /\ trusted' = trusted \ token_of(c)
          /\ \/ /\ session_up
                /\ c \in views
                /\ views' = views \ {c}
                /\ dirs' = dirs \ {c}
                /\ status' = [status EXCEPT ![c] =
                      IF c \notin failed THEN "success" ELSE "failure"]
                /\ UNCHANGED stuck
             \/ /\ stuck' = stuck \cup {c}
                /\ views' \in {views, IF session_up THEN views \ {c} ELSE views}
                /\ status' = [status EXCEPT ![c] = "failure"]
                /\ UNCHANGED dirs
       \/ /\ ~session_up \/ token_of(c) = {}
          /\ status' = [status EXCEPT ![c] = "failure"]
          /\ UNCHANGED <<trusted, views, dirs, stuck>>
    /\ UNCHANGED <<destroyVars, failed, childVars, effectVars, others>>

\* The gatefs process is killed: its end of the pipe is closed, and its child
\* is left to init.
cli_killed(c) ==
    /\ pc[c] \notin {"idle", "returned", "killed"}
    /\ pc' = [pc EXCEPT ![c] = "killed"]
    /\ status' = [status EXCEPT ![c] = "failure"]
    /\ writers' = [writers EXCEPT ![c] = @ \ {"parent"}]
    /\ UNCHANGED <<sessionVars, failed, pid, child, byte, effectVars, others>>

-----------------------------------------------------------------------------
(* The child, and the other processes. *)

\* Fault: the child keeps its copy of the write end.
child_keeps_pipe(c) ==
    /\ child[c] = "started"
    /\ child' = [child EXCEPT ![c] = "reading"]
    /\ UNCHANGED <<sessionVars, cliVars, pid, writers, byte, effectVars, others>>

child_closes(c) ==
    /\ child[c] = "started"
    /\ child' = [child EXCEPT ![c] = "reading"]
    /\ writers' = [writers EXCEPT ![c] = @ \ {"child"}]
    /\ UNCHANGED <<sessionVars, cliVars, pid, byte, effectVars, others>>

\* Fault: whatever read returns, the child goes on.
child_reads_unchecked(c) ==
    /\ child[c] = "reading"
    /\ c \in byte \/ writers[c] = {}
    /\ child' = [child EXCEPT ![c] = "released"]
    /\ UNCHANGED <<sessionVars, cliVars, pid, writers, byte, effectVars, others>>

\* read: the byte, or the end of the pipe, on which the child exits.
child_reads(c) ==
    /\ child[c] = "reading"
    /\ \/ /\ c \in byte
          /\ child' = [child EXCEPT ![c] = "released"]
       \/ /\ c \notin byte
          /\ writers[c] = {}
          /\ child' = [child EXCEPT ![c] = "exited"]
    /\ UNCHANGED <<sessionVars, cliVars, pid, writers, byte, effectVars, others>>

\* chdir and execvp, each of which may fail.
child_execs(c) ==
    /\ child[c] = "released"
    /\ child' \in {[child EXCEPT ![c] = "running"], [child EXCEPT ![c] = "exited"]}
    /\ UNCHANGED <<sessionVars, cliVars, pid, writers, byte, effectVars, others>>

\* The command reaches the view: its change is made at once when the pid is
\* trusted, and waits for an operator when it is not.  Without the sandbox there
\* is no such file.
child_operates(c) ==
    /\ child[c] = "running"
    /\ c \in views
    /\ c \notin changed
    /\ \/ /\ session_up
          /\ is_trusted_operation(pid[c])
          /\ changed' = changed \cup {c}
          /\ UNCHANGED child
       \/ /\ session_up
          /\ ~is_trusted_operation(pid[c])
          /\ child' = [child EXCEPT ![c] = "waiting"]
          /\ UNCHANGED changed
       \/ /\ ~session_up
          /\ child' = [child EXCEPT ![c] = "refused"]
          /\ UNCHANGED changed
    /\ UNCHANGED <<sessionVars, cliVars, pid, writers, byte, astray, others>>

\* An operator or a cancellation answers the child's change: it is told that the
\* change is made, which with do-nothing it is not, or refused.
answer(c) ==
    /\ session_up
    /\ child[c] = "waiting"
    /\ \/ child' = [child EXCEPT ![c] = "running"] /\ changed' = changed \cup {c}
       \/ child' = [child EXCEPT ![c] = "refused"] /\ UNCHANGED changed
    /\ UNCHANGED <<sessionVars, cliVars, pid, writers, byte, astray, others>>

\* The command ends, with success if it could make its change, or a signal ends
\* the child wherever it is.
child_exits(c) ==
    /\ child[c] \in {"running", "refused"}
    /\ child' = [child EXCEPT ![c] =
          IF child[c] = "running" /\ c \in changed THEN "succeeded" ELSE "exited"]
    /\ UNCHANGED <<sessionVars, cliVars, pid, writers, byte, effectVars, others>>

child_killed(c) ==
    /\ child[c] \in Alive
    /\ child' = [child EXCEPT ![c] = "exited"]
    /\ writers' = [writers EXCEPT ![c] = @ \ {"child"}]
    /\ UNCHANGED <<sessionVars, cliVars, pid, byte, effectVars, others>>

init_reaps(c) ==
    /\ pc[c] = "killed"
    /\ child[c] \in {"succeeded", "exited"}
    /\ child' = [child EXCEPT ![c] = "reaped"]
    /\ UNCHANGED <<sessionVars, cliVars, pid, writers, byte, effectVars, others>>

\* Bound: only pids that a child has had.
other_starts ==
    /\ \E p \in free_pids \cap {pid[c] : c \in Commands} : others' = others \cup {p}
    /\ UNCHANGED <<sessionVars, cliVars, childVars, effectVars>>

other_ends ==
    /\ \E p \in others : others' = others \ {p}
    /\ UNCHANGED <<sessionVars, cliVars, childVars, effectVars>>

-----------------------------------------------------------------------------
(* The destroy of the session, and detaches by operators. *)

\* The first section of destroy: the views are listed and the tokens forgotten.  A
\* destroy that begins while another is at work has a list of its own; one of the
\* two is followed.  cancel_all comes next, and is an answer to the changes that wait.
destroy_begins ==
    /\ session_up
    /\ trusted' = {}
    /\ forgotten' = forgotten \cup {op.command : op \in trusted}
    /\ doomed' \in {views, IF destroying THEN doomed ELSE views}
    /\ destroying' = TRUE
    /\ UNCHANGED <<session, views, dirs, stuck, cliVars, childVars, effectVars, others>>

\* detach, by the destroy or by an operator.  It cancels the changes that wait; one
\* that is queued between that and the unmount goes on waiting.
detach_view(c) ==
    /\ session_up
    /\ c \in views
    /\ views' = views \ {c}
    /\ doomed' = doomed \ {c}
    /\ \/ UNCHANGED child
       \/ child[c] = "waiting" /\ child' = [child EXCEPT ![c] = "refused"]
    /\ UNCHANGED <<session, destroying, forgotten, trusted, dirs, stuck, cliVars, pid, writers,
                   byte, effectVars, others>>

\* A listed view cannot be detached: the session stays up, without the tokens.
destroy_fails ==
    /\ destroying
    /\ doomed # {}
    /\ destroying' = FALSE
    /\ doomed' = {}
    /\ UNCHANGED <<session, forgotten, trusted, views, dirs, stuck, cliVars, childVars,
                   effectVars, others>>

\* The last section of destroy.  A view that appeared meanwhile stays mounted, and
\* its token in the registry.
remove_sandbox ==
    /\ session_up
    /\ destroying
    /\ doomed = {}
    /\ session' = "removed"
    /\ destroying' = FALSE
    /\ UNCHANGED <<doomed, forgotten, trusted, views, dirs, stuck, cliVars, childVars,
                   effectVars, others>>

\* The process of the session ends, after a destroy or by a signal: no view is
\* served any more, and whoever waits for one gets an error.
session_ends ==
    /\ session # "ended"
    /\ session' = "ended"
    /\ destroying' = FALSE
    /\ doomed' = {}
    /\ trusted' = {}
    /\ views' = {}
    /\ child' = [c \in Commands |-> IF child[c] = "waiting" THEN "refused" ELSE child[c]]
    /\ UNCHANGED <<forgotten, dirs, stuck, cliVars, pid, writers, byte, effectVars, others>>

-----------------------------------------------------------------------------

cli_step(c) ==
    \/ begin_trusted(c)
    \/ fork(c)
    \/ register_trusted_pid(c)
    \/ kill(c)
    \/ unblock(c)
    \/ release(c)
    \/ waitpid(c)
    \/ end_trusted(c)

child_step(c) ==
    \/ child_closes(c)
    \/ child_reads(c)
    \/ child_execs(c)
    \/ child_exits(c)
    \/ init_reaps(c)

\* What the processes and the session do once the commands are started.
process_step ==
    \/ \E c \in Commands :
          \/ cli_step(c)
          \/ child_step(c)
          \/ child_operates(c)
          \/ answer(c)
          \/ child_killed(c)
          \/ cli_killed(c)
          \/ detach_view(c)
    \/ other_starts
    \/ other_ends
    \/ destroy_begins
    \/ destroy_fails
    \/ remove_sandbox

TrustedNext ==
    \/ \E c \in Commands : start(c)
    \/ process_step
    \/ session_ends

\* Processes run, and a command whose change is made or refused ends.
TrustedFairness ==
    \A c \in Commands : WF_trustedVars(cli_step(c)) /\ WF_trustedVars(child_step(c))

TrustedSpec == TrustedInit /\ [][TrustedNext]_trustedVars /\ TrustedFairness

-----------------------------------------------------------------------------
(* Properties. *)

\* The types of the session's entries, of the gatefs processes and of the
\* children; two live children never share a pid.
TrustedTypeOK ==
    /\ session \in {"up", "removed", "ended"} /\ destroying \in BOOLEAN
    /\ trusted \subseteq [command : Commands, pid : Pids \cup {NoPid}]
    /\ views \subseteq dirs /\ dirs \subseteq Commands
    /\ pc \in [Commands -> Steps]
    /\ status \in [Commands -> Statuses]
    /\ pid \in [Commands -> Pids \cup {NoPid}]
    /\ child \in [Commands -> ChildSteps]
    /\ writers \in [Commands -> SUBSET {"parent", "child"}]
    /\ failed \cup byte \cup astray \cup changed \cup stuck \subseteq Commands
    /\ doomed \cup forgotten \subseteq Commands
    /\ others \subseteq Pids
    /\ \A c, d \in Commands : has_child(c) /\ has_child(d) /\ pid[c] = pid[d] => c = d

\* cli.rs:746: "Avoid a race where the child reaches FUSE before the session has
\* registered its pid as trusted": whatever fails or is killed, a change by the
\* child of a trusted command never waits for an operator, unless a destroy has
\* forgotten its token.
NeverReachesUnregistered == \A c \in Commands : child[c] = "waiting" => c \in forgotten

\* metadata.md:9: trusted operations "only update sandbox-local metadata overrides;
\* they do not chmod/chown/chattr the underlying files": what a running child was
\* given to change was moved into its view, and is in the scope of its token.
HostUntouched == \A c \in Commands : child[c] = "running" => c \notin astray

\* A trusted command that has returned, success or not, leaves no process, and while
\* the session is up no token, view or directory, unless attach or detach failed half
\* way or a destroy had forgotten the token.
NothingLeftBehind ==
    \A c \in Commands : pc[c] = "returned" =>
        /\ ~has_child(c)
        /\ session_up => token_of(c) = {}
        /\ session_up /\ c \notin stuck \cup forgotten => c \notin views \cup dirs

\* Children end: the child of a command is gone in the end, even if gatefs is
\* killed before it writes the byte, when only the end of the pipe tells it; or its
\* change waits for an operator.
ChildrenEnd ==
    \A c \in Commands : child[c] = "started" ~> child[c] \in {"reaped", "waiting"}

\* fs.rs:251 compares pids: whoever has the pid of a registered child is trusted.
\* Only the child should be.
TrustedIsChild == \A p \in others : ~is_trusted_operation(p)

\* metadata.md:8: trusted operations are not queued, whatever becomes of the session.
NeverWaits == \A c \in Commands : child[c] # "waiting"

\* metadata.md:7: the command "then immediately detaches and removes the temporary
\* mountpoint": no view outlives its command.
NoViewWithoutCommand ==
    \A c \in views : pc[c] \notin {"returned", "killed"} \/ c \in stuck

-----------------------------------------------------------------------------
(* The inductive invariant: what the gatefs process, its child and the session *)
(* know of each other at each step of run_trusted_command.                     *)

\* A session that has ended has no token and no view, and nobody waits for it.
SessionForgets ==
    session = "ended" =>
        trusted = {} /\ views = {} /\ \A c \in Commands : child[c] # "waiting"

registered(c) == [command |-> c, pid |-> pid[c]] \in trusted

\* What the next step of the gatefs process may count on: the token is there
\* from the begin to the end unless it is forgotten, the child is there from the
\* fork to the wait.
CommandCoherent(c) ==
    /\ pc[c] \in {"idle", "begin"} => token_of(c) = {} /\ c \notin views
    /\ pc[c] = "idle" => c \notin dirs
    /\ pc[c] = "begin" => c \in dirs
    /\ pc[c] \in {"idle", "begin", "fork"} => child[c] = "none"
    /\ pc[c] \in {"fork", "register", "kill", "unblock", "release", "wait", "end"} =>
           token_of(c) # {} \/ c \in forgotten \/ session = "ended"
    /\ pc[c] \in {"register", "kill", "unblock", "release", "wait"} => has_child(c)
    /\ pc[c] = "unblock" => child[c] = "exited"
    /\ pc[c] = "release" /\ c \in views \ forgotten => registered(c)
    /\ pc[c] \in {"end", "returned"} => ~has_child(c)

\* What the child may count on: it goes on only after the byte, and the byte
\* reaches it only once its pid is registered, for as long as the view is there and
\* the token is not forgotten.
ChildCoherent(c) ==
    /\ child[c] \in {"released", "running", "waiting", "refused"} => c \in byte
    /\ c \in byte => pc[c] \in {"wait", "end", "returned", "killed"}
    /\ c \in byte /\ child[c] \in Alive /\ c \in views \ forgotten => registered(c)

\* Success is reported only for a change that was made.
SuccessChanged ==
    \A c \in Commands :
        /\ child[c] = "succeeded" => c \in changed
        /\ pc[c] = "end" /\ c \notin failed => c \in changed
        /\ status[c] = "success" => c \in changed

TrustedIndInv ==
    /\ TrustedTypeOK
    /\ SessionForgets
    /\ \A c \in Commands : CommandCoherent(c)
    /\ \A c \in Commands : ChildCoherent(c)
    /\ SuccessChanged
    /\ NeverReachesUnregistered
    /\ NothingLeftBehind
=============================================================================
