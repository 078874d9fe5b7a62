----------------------------- MODULE SessionStart -----------------------------
(***************************************************************************)
(* The processes of `gatefs run <name>` that compete for one name: they    *)
(* probe and take the socket, reset the log, serve, and remove both when   *)
(* they end; any of them may be killed and leave both behind.  A control   *)
(* command of a serving session appends to the log or destroys the         *)
(* sandbox; `gatefs <name> monitor -f` reads the log from outside.         *)
(*                                                                         *)
(* How destroy takes the views down is in Session; here detaching them     *)
(* ends with one of the outcomes it has there, or never.                   *)
(***************************************************************************)
EXTENDS LogWriter, FiniteSets

CONSTANTS
    Main,           \* the main thread of a process
    Handlers,       \* the threads of its control connections
    None,
    Overlap,        \* may a start overlap with another one, or with the last steps
                    \* of a session that has removed its socket already?
    MaxKills,       \* bound: processes killed
    TailLines       \* MONITOR_TAIL_LINES

ASSUME StartAssumption ==
    /\ Main \notin Handlers
    /\ Threads = Handlers \cup {Main}
    /\ Procs \subseteq Nat
    /\ None \notin Procs /\ None \notin Threads
    /\ NoFile \notin [ino : Nat, lines : Seq(Lines)]
    /\ MaxLines \in Nat /\ MaxKills \in Nat /\ TailLines \in Nat
    /\ Overlap \in BOOLEAN /\ LogFails \in BOOLEAN

VARIABLES
    socket,     \* the process whose socket is at the path, or None
    main,       \* per process: where serve_session is
    peer,       \* per process: the process its ping is connected to
    stop,       \* per process: the stop flag
    sandbox,    \* per process: is the sandbox in its registry?
    lock,       \* per process: the thread that keeps its registry locked
    job,        \* per process and handler: the command it runs
    next_line,  \* per process: the next line
    acked,      \* per process: the lines whose append was answered
    kills,      \* processes killed so far
    monitor     \* the monitor command

serverVars == <<socket, main, peer, stop, sandbox, lock, kills>>
lineVars == <<next_line, acked>>
startVars == <<logVars, serverVars, job, lineVars, monitor>>

Preparing == {"ping", "wait", "exists", "unlink", "bind"}
Listening == {"new_session", "resetting", "dropping", "serve", "destroy", "detaching",
              "remove_sandbox", "removing", "unlink_end", "return", "joining"}
Over == {"refused", "failed", "gone"}

Idle == [pc |-> "idle", line |-> 0]
NoJob == [h \in Handlers |-> Idle]

StartInit ==
    /\ LogInit
    /\ socket = None
    /\ main = [p \in Procs |-> "new"]
    /\ peer = [p \in Procs |-> None]
    /\ stop = [p \in Procs |-> FALSE]
    /\ sandbox = [p \in Procs |-> FALSE]
    /\ lock = [p \in Procs |-> None]
    /\ job = [p \in Procs |-> NoJob]
    /\ next_line = [p \in Procs |-> 1]
    /\ acked = [p \in Procs |-> {}]
    /\ kills = 0
    /\ monitor = [pc |-> "idle", ino |-> 0, pos |-> 0, shown |-> <<>>]

Goto(p, pc) == main' = [main EXCEPT ![p] = pc]
listening(p) == main[p] \in Listening

-----------------------------------------------------------------------------
(* serve_session: taking the socket. *)

\* Fault: the session is created before the socket is looked at.
start_resets_log(p) ==
    /\ main[p] = "new"
    /\ \A q \in Procs : q < p => main[q] # "new"
    /\ Overlap \/ \A q \in Procs : main[q] \notin Preparing
    /\ Goto(p, "ping")
    /\ log' = reset_log_file
    /\ files' = IF log'.ino > files THEN log'.ino ELSE files
    /\ UNCHANGED <<channel, reply, socket, peer, stop, sandbox, lock, kills, job, lineVars, monitor>>

start(p) ==
    /\ main[p] = "new"
    /\ \A q \in Procs : q < p => main[q] # "new"
    /\ Overlap \/ \A q \in Procs : main[q] \notin Preparing
    /\ Goto(p, "ping")
    /\ UNCHANGED <<logVars, socket, peer, stop, sandbox, lock, kills, job, lineVars, monitor>>

\* Fault: a ping that is not answered at once counts as no session.
ping_impatient(p) ==
    /\ main[p] = "ping"
    /\ IF socket # None /\ main[socket] = "serve"
       THEN /\ Goto(p, "wait")
            /\ peer' = [peer EXCEPT ![p] = socket]
       ELSE /\ Goto(p, "exists")
            /\ UNCHANGED peer
    /\ UNCHANGED <<logVars, socket, stop, sandbox, lock, kills, job, lineVars, monitor>>

\* ipc::send connects: no file, or a file nobody listens on, is an error at once.
ping(p) ==
    /\ main[p] = "ping"
    /\ IF socket # None /\ listening(socket)
       THEN /\ Goto(p, "wait")
            /\ peer' = [peer EXCEPT ![p] = socket]
       ELSE /\ Goto(p, "exists")
            /\ UNCHANGED peer
    /\ UNCHANGED <<logVars, socket, stop, sandbox, lock, kills, job, lineVars, monitor>>

\* The accept loop of the peer answers, or the listener is closed unanswered.
ping_ends(p) ==
    /\ main[p] = "wait"
    /\ \/ /\ main[peer[p]] = "serve"
          /\ Goto(p, "refused")
       \/ /\ ~listening(peer[p])
          /\ Goto(p, "exists")
    /\ peer' = [peer EXCEPT ![p] = None]
    /\ UNCHANGED <<logVars, socket, stop, sandbox, lock, kills, job, lineVars, monitor>>

socket_exists(p) ==
    /\ main[p] = "exists"
    /\ Goto(p, IF socket = None THEN "bind" ELSE "unlink")
    /\ UNCHANGED <<logVars, socket, peer, stop, sandbox, lock, kills, job, lineVars, monitor>>

\* It is no error if the file is gone by now.
unlink(p) ==
    /\ main[p] = "unlink"
    /\ socket' = None
    /\ Goto(p, "bind")
    /\ UNCHANGED <<logVars, peer, stop, sandbox, lock, kills, job, lineVars, monitor>>

\* Fails when there is a file.
bind(p) ==
    /\ main[p] = "bind"
    /\ Overlap \/ \A q \in Procs : main[q] \notin {"return", "joining"}
    /\ IF socket = None
       THEN /\ socket' = p
            /\ Goto(p, "new_session")
       ELSE /\ Goto(p, "failed")
            /\ UNCHANGED socket
    /\ UNCHANGED <<logVars, peer, stop, sandbox, lock, kills, job, lineVars, monitor>>

-----------------------------------------------------------------------------
(* serve_session: the session. *)

new_session(p) ==
    /\ main[p] = "new_session"
    /\ request(p, Main, "reset", 0)
    /\ Goto(p, "resetting")
    /\ UNCHANGED <<socket, peer, stop, sandbox, lock, kills, job, lineVars, monitor>>

session_created(p) ==
    /\ main[p] = "resetting"
    /\ replied(p, Main, "ok")
    /\ sandbox' = [sandbox EXCEPT ![p] = TRUE]
    /\ Goto(p, "serve")
    /\ UNCHANGED <<socket, peer, stop, lock, kills, job, lineVars, monitor>>

\* The new state is dropped, and its writer with it; then the socket goes.
session_not_created(p) ==
    /\ main[p] = "resetting"
    /\ replied(p, Main, "failed")
    /\ Goto(p, "dropping")
    /\ UNCHANGED <<socket, peer, stop, sandbox, lock, kills, job, lineVars, monitor>>

drop_session(p) ==
    /\ main[p] = "dropping"
    /\ socket' = None
    /\ Goto(p, "failed")
    /\ writer_dies(p)
    /\ UNCHANGED <<peer, stop, sandbox, lock, kills, job, lineVars, monitor>>

\* SIGINT or SIGTERM.
signal(p) ==
    /\ main[p] = "serve"
    /\ ~stop[p]
    /\ stop' = [stop EXCEPT ![p] = TRUE]
    /\ UNCHANGED <<logVars, socket, main, peer, sandbox, lock, kills, job, lineVars, monitor>>

leave_loop(p) ==
    /\ main[p] = "serve"
    /\ stop[p]
    /\ Goto(p, "destroy")
    /\ UNCHANGED <<logVars, socket, peer, stop, sandbox, lock, kills, job, lineVars, monitor>>

\* remove_file, whatever is at the path.
unlink_end(p) ==
    /\ main[p] = "unlink_end"
    /\ socket' = None
    /\ Goto(p, "return")
    /\ UNCHANGED <<logVars, peer, stop, sandbox, lock, kills, job, lineVars, monitor>>

\* LogWriter::drop, if no handler holds the state any more; the listener is
\* closed when the process ends.
drop_writer(p) ==
    /\ main[p] = "return"
    /\ job[p] = NoJob
    /\ request(p, Main, "shutdown", 0)
    /\ Goto(p, "joining")
    /\ UNCHANGED <<socket, peer, stop, sandbox, lock, kills, job, lineVars, monitor>>

\* The process is over: its memory, its threads, its writer and its listener are
\* gone, the files are left as they are.
process_ends(p) ==
    /\ Goto(p, "gone")
    /\ writer_dies(p)
    /\ peer' = [peer EXCEPT ![p] = None]
    /\ sandbox' = [sandbox EXCEPT ![p] = FALSE]
    /\ stop' = [stop EXCEPT ![p] = FALSE]
    /\ lock' = [lock EXCEPT ![p] = None]
    /\ job' = [job EXCEPT ![p] = NoJob]
    /\ acked' = [acked EXCEPT ![p] = {}]
    /\ next_line' = [next_line EXCEPT ![p] = MaxLines + 1]
    /\ UNCHANGED <<socket, monitor>>

exit(p) ==
    /\ \/ main[p] = "return" /\ job[p] # NoJob
       \/ main[p] = "joining" /\ reply[p][Main] = "ok"
    /\ process_ends(p)
    /\ UNCHANGED kills

\* Bound: MaxKills.
kill(p) ==
    /\ main[p] \notin Over \cup {"new"}
    /\ kills < MaxKills
    /\ kills' = kills + 1
    /\ process_ends(p)

-----------------------------------------------------------------------------
(* Control commands.  A command is accepted while the loop runs. *)

Accepts(p, h) == main[p] = "serve" /\ job[p][h] = Idle
Do(p, h, pc, line) == job' = [job EXCEPT ![p][h] = [pc |-> pc, line |-> line]]

\* mount, umount, hide and the policy commands: the line is written under the
\* lock that also covers the look for the sandbox and the id of the line.
append_locked(p, h) ==
    /\ Accepts(p, h)
    /\ lock[p] = None
    /\ sandbox[p]
    /\ next_line[p] <= MaxLines
    /\ request(p, h, "append", next_line[p])
    /\ next_line' = [next_line EXCEPT ![p] = @ + 1]
    /\ lock' = [lock EXCEPT ![p] = h]
    /\ Do(p, h, "appending", next_line[p])
    /\ UNCHANGED <<socket, main, peer, stop, sandbox, kills, acked, monitor>>

\* detach and the authorization commands take the path and the id under the lock
\* and write the line after it.
take_log_path(p, h) ==
    /\ Accepts(p, h)
    /\ lock[p] = None
    /\ sandbox[p]
    /\ next_line[p] <= MaxLines
    /\ next_line' = [next_line EXCEPT ![p] = @ + 1]
    /\ Do(p, h, "append", next_line[p])
    /\ UNCHANGED <<logVars, serverVars, acked, monitor>>

append_unlocked(p, h) ==
    /\ job[p][h].pc = "append"
    /\ request(p, h, "append", job[p][h].line)
    /\ Do(p, h, "appending", job[p][h].line)
    /\ UNCHANGED <<serverVars, lineVars, monitor>>

append_returns(p, h) ==
    /\ job[p][h].pc = "appending"
    /\ \/ /\ replied(p, h, "ok")
          /\ acked' = [acked EXCEPT ![p] = @ \cup {<<p, job[p][h].line>>}]
       \/ /\ replied(p, h, "failed")
          /\ UNCHANGED acked
    /\ lock' = [lock EXCEPT ![p] = IF @ = h THEN None ELSE @]
    /\ Do(p, h, "idle", 0)
    /\ UNCHANGED <<socket, main, peer, stop, sandbox, kills, next_line, monitor>>

shutdown(p, h) ==
    /\ Accepts(p, h)
    /\ Do(p, h, "destroy", 0)
    /\ UNCHANGED <<logVars, serverVars, lineVars, monitor>>

\* The response Ok has been written.
shutdown_answered(p, h) ==
    /\ job[p][h].pc = "answer"
    /\ stop' = [stop EXCEPT ![p] = TRUE]
    /\ Do(p, h, "idle", 0)
    /\ UNCHANGED <<logVars, socket, main, peer, sandbox, lock, kills, lineVars, monitor>>

-----------------------------------------------------------------------------
(* destroy, of a handler or of the main thread. *)

At(p, t, pc) == pc = IF t = Main THEN main[p] ELSE job[p][t].pc

Advance(p, t, pc) ==
    IF t = Main THEN Goto(p, pc) /\ UNCHANGED job
                ELSE Do(p, t, pc, 0) /\ UNCHANGED main

\* The main thread ignores an Error::Message, and returns any other error at once.
\* A handler that has no Ok to answer stops nothing.
Returns(p, t, result) ==
    Advance(p, t, IF t = Main
                  THEN IF result = "io" THEN "return" ELSE "unlink_end"
                  ELSE IF result = "ok" THEN "answer" ELSE "idle")

destroy(p, t) ==
    /\ At(p, t, "destroy")
    /\ lock[p] = None
    /\ IF sandbox[p] THEN Advance(p, t, "detaching") ELSE Returns(p, t, "message")
    /\ UNCHANGED <<logVars, socket, peer, stop, sandbox, lock, kills, lineVars, monitor>>

\* All views are detached, or detach returns an error: a message when another
\* command has detached the view, else the one of the unmount or of the log.
detached(p, t) ==
    /\ At(p, t, "detaching")
    /\ \/ Advance(p, t, "remove_sandbox")
       \/ \E error \in {"message", "io"} : Returns(p, t, error)
    /\ UNCHANGED <<logVars, socket, peer, stop, sandbox, lock, kills, lineVars, monitor>>

remove_sandbox(p, t) ==
    /\ At(p, t, "remove_sandbox")
    /\ lock[p] = None
    /\ IF sandbox[p]
       THEN /\ sandbox' = [sandbox EXCEPT ![p] = FALSE]
            /\ lock' = [lock EXCEPT ![p] = t]
            /\ request(p, t, "remove", 0)
            /\ Advance(p, t, "removing")
       ELSE /\ Returns(p, t, "ok")
            /\ UNCHANGED <<logVars, sandbox, lock>>
    /\ UNCHANGED <<socket, peer, stop, kills, lineVars, monitor>>

log_removed(p, t) ==
    /\ At(p, t, "removing")
    /\ \/ replied(p, t, "ok") /\ Returns(p, t, "ok")
       \/ replied(p, t, "failed") /\ Returns(p, t, "io")
    /\ lock' = [lock EXCEPT ![p] = None]
    /\ UNCHANGED <<socket, peer, stop, sandbox, kills, lineVars, monitor>>

-----------------------------------------------------------------------------
(* monitor -f. *)

\* The path, from the session that answers on the socket.
log_path ==
    /\ monitor.pc = "idle"
    /\ socket # None
    /\ main[socket] = "serve" /\ sandbox[socket] /\ lock[socket] = None
    /\ monitor' = [monitor EXCEPT !.pc = "read"]
    /\ UNCHANGED <<logVars, serverVars, job, lineVars>>

\* The last lines.
tail_lines(lines) == SubSeq(lines, 1 + IF Len(lines) > TailLines THEN Len(lines) - TailLines ELSE 0,
                            Len(lines))

print_tail ==
    /\ monitor.pc = "read"
    /\ monitor' = [monitor EXCEPT !.pc = "open",
                     !.shown = IF log = NoFile THEN <<>> ELSE tail_lines(log.lines)]
    /\ UNCHANGED <<logVars, serverVars, job, lineVars>>

\* Opens the file again, and follows it from its end.
open_log ==
    /\ monitor.pc = "open"
    /\ monitor' = IF log = NoFile
                  THEN [monitor EXCEPT !.pc = "ended"]
                  ELSE [monitor EXCEPT !.pc = "follow", !.ino = log.ino, !.pos = Len(log.lines)]
    /\ UNCHANGED <<logVars, serverVars, job, lineVars>>

\* Fault: the position moves by one read, not by what was read.
follow_by_one ==
    /\ monitor.pc = "follow"
    /\ log # NoFile /\ log.ino = monitor.ino
    /\ Len(log.lines) > monitor.pos
    /\ monitor' = [monitor EXCEPT !.pos = @ + 1,
                     !.shown = @ \o SubSeq(log.lines, monitor.pos + 1, Len(log.lines))]
    /\ UNCHANGED <<logVars, serverVars, job, lineVars>>

\* Whatever the open file has after the position.  A removed file does not grow.
follow ==
    /\ monitor.pc = "follow"
    /\ log # NoFile /\ log.ino = monitor.ino
    /\ Len(log.lines) > monitor.pos
    /\ monitor' = [monitor EXCEPT !.pos = Len(log.lines),
                     !.shown = @ \o SubSeq(log.lines, monitor.pos + 1, Len(log.lines))]
    /\ UNCHANGED <<logVars, serverVars, job, lineVars>>

-----------------------------------------------------------------------------

main_step(p) ==
    \/ ping(p) \/ ping_ends(p) \/ socket_exists(p) \/ unlink(p) \/ bind(p)
    \/ new_session(p) \/ session_created(p) \/ session_not_created(p) \/ drop_session(p)
    \/ leave_loop(p) \/ unlink_end(p) \/ drop_writer(p) \/ exit(p)

destroy_step(p, t) == destroy(p, t) \/ remove_sandbox(p, t) \/ log_removed(p, t)

handler_step(p, h) == append_unlocked(p, h) \/ append_returns(p, h) \/ shutdown_answered(p, h)

writer_step(p) == run_log_writer(p) /\ UNCHANGED <<serverVars, job, lineVars, monitor>>

monitor_step == print_tail \/ open_log \/ follow

StartNext ==
    \/ \E p \in Procs :
          \/ start(p) \/ main_step(p) \/ writer_step(p) \/ signal(p) \/ kill(p)
          \/ \E t \in Threads : destroy_step(p, t) \/ detached(p, t)
          \/ \E h \in Handlers :
                shutdown(p, h) \/ append_locked(p, h) \/ take_log_path(p, h) \/ handler_step(p, h)
    \/ log_path
    \/ monitor_step

\* The threads of a process run, and so does the monitor.  Nothing is assumed of
\* operators, and nothing of the unmounts that destroy waits for.
StartSpec ==
    /\ StartInit
    /\ [][StartNext]_startVars
    /\ \A p \in Procs :
          /\ WF_startVars(main_step(p))
          /\ WF_startVars(writer_step(p))
          /\ \A t \in Threads : WF_startVars(destroy_step(p, t))
          /\ \A h \in Handlers : WF_startVars(handler_step(p, h))
    /\ WF_startVars(monitor_step)

-----------------------------------------------------------------------------
(* Properties. *)

\* The types; a process knows only of its own lines.
StartTypeOK ==
    /\ LogTypeOK
    /\ socket \in Procs \cup {None}
    /\ main \in [Procs -> {"new"} \cup Preparing \cup Listening \cup Over]
    /\ peer \in [Procs -> Procs \cup {None}]
    /\ lock \in [Procs -> Threads \cup {None}]
    /\ \A p \in Procs : acked[p] \subseteq {p} \X (1..next_line[p] - 1)

\* ADR 0001: "Control commands connect to that foreground session over its
\* per-sandbox runtime socket".  From bind until it removes the socket itself, a
\* session is the one that answers at the path of its name: no other start, end
\* or crash takes the socket away.
SessionReachable ==
    \A p \in Procs : listening(p) /\ main[p] \notin {"return", "joining"} => socket = p

\* docs/user-guide/runtime-and-limits.md:12: "Logs are reset when `gatefs run <name>`
\* starts and are removed when the sandbox is destroyed", and at no other time: while
\* a session has its sandbox, every line it was told is written is in the log, once.
AcknowledgedLogged ==
    \A p \in Procs : main[p] = "serve" /\ sandbox[p] =>
        \A line \in acked[p] :
            log # NoFile /\ Cardinality({n \in DOMAIN log.lines : log.lines[n] = line}) = 1

\* A start ends, the session serves or the command returns, and so does a command
\* that appends to the log, whatever becomes of the file.  A start waits for ever
\* only for a session that never gets its views unmounted, which Session says
\* more about.
StartsAndAppendsEnd ==
    /\ \/ \A p \in Procs : main[p] \in Preparing \cup {"new_session", "resetting"} ~>
                             main[p] \in {"serve"} \cup Over
       \/ <>[](\E p \in Procs : main[p] = "detaching")
    /\ \A p \in Procs, h \in Handlers :
          job[p][h].pc \in {"append", "appending"} ~> job[p][h].pc \notin {"append", "appending"}

\* A follower prints a line at most once, whether it comes with the tail or later,
\* and although the log is reset or removed under it.
FollowPrintsOnce ==
    \A m, n \in DOMAIN monitor.shown : monitor.shown[m] = monitor.shown[n] => m = n

\* docs/user-guide/runtime-and-limits.md:12: "`monitor -f` starts at the same tail
\* and follows new log entries": what it has printed has no gap.
FollowHasNoGap ==
    monitor.pc = "follow" /\ log # NoFile /\ log.ino = monitor.ino
        => monitor.shown = SubSeq(log.lines, monitor.pos - Len(monitor.shown) + 1, monitor.pos)

\* docs/user-guide/runtime-and-limits.md:12: logs "are removed when the sandbox is
\* destroyed": where sessions have ended and none was killed, there is no log.
LogRemoved ==
    (\A p \in Procs : main[p] \in {"new", "gone"}) /\ kills = 0 /\ (\E p \in Procs : main[p] = "gone")
        => log = NoFile

-----------------------------------------------------------------------------
(* The inductive invariant. *)

Ops == {"reset", "append", "remove", "shutdown"}
Commands == [by : Threads, op : Ops, line : 0..MaxLines]
Jobs == [pc : {"idle", "append", "appending", "destroy", "detaching", "remove_sandbox", "removing",
               "answer"}, line : 0..MaxLines]

StartTyped ==
    /\ log # NoFile => log \in [ino : Nat, lines : Seq(Lines)] /\ log.ino \in 1..files
    /\ files \in Nat
    /\ channel \in [Procs -> Seq(Commands)]
    /\ reply \in [Procs -> [Threads -> {"none", "waiting", "ok", "failed"}]]
    /\ socket \in Procs \cup {None}
    /\ main \in [Procs -> {"new"} \cup Preparing \cup Listening \cup Over]
    /\ peer \in [Procs -> Procs \cup {None}]
    /\ stop \in [Procs -> BOOLEAN] /\ sandbox \in [Procs -> BOOLEAN]
    /\ lock \in [Procs -> Threads \cup {None}]
    /\ job \in [Procs -> [Handlers -> Jobs]]
    /\ next_line \in [Procs -> 1..(MaxLines + 1)]
    /\ acked \in [Procs -> SUBSET Lines]
    /\ kills \in Nat
    /\ monitor \in [pc : {"idle", "read", "open", "follow", "ended"}, ino : Nat, pos : Nat,
                    shown : Seq(Lines)]
    /\ monitor.ino <= files

\* Where a session listens and does not serve yet.
Beginning == {"new_session", "resetting", "dropping"}

\* Command c in the channel of p is what the thread that waits for it is about.
CommandOK(p, c) ==
    /\ reply[p][c.by] = "waiting"
    /\ c.op = "append" => c.by \in Handlers /\ job[p][c.by] = [pc |-> "appending", line |-> c.line]
    /\ c.op = "reset" => c.by = Main /\ main[p] = "resetting"
    /\ c.op = "remove" => At(p, c.by, "removing")
    /\ c.op = "shutdown" => c.by = Main /\ main[p] = "joining"

ChannelOK(p) ==
    \A n \in DOMAIN channel[p] :
        /\ CommandOK(p, channel[p][n])
        /\ \A m \in DOMAIN channel[p] : channel[p][m].by = channel[p][n].by => m = n

\* A process that has no session has nothing to write.
SessionOK(p) ==
    /\ ~listening(p) => channel[p] = <<>>
    /\ ~listening(p) \/ main[p] \in Beginning =>
          job[p] = NoJob /\ ~sandbox[p] /\ acked[p] = {}
    /\ \A t \in Threads : At(p, t, "removing") => ~sandbox[p]

\* The lines of p that are still to be written, and the handlers that do so.
Pending(p, h) ==
    job[p][h].pc = "append" \/ (job[p][h].pc = "appending" /\ reply[p][h] = "waiting")
Unwritten(p) ==
    {n \in 1..MaxLines : n >= next_line[p] \/ \E h \in Handlers : Pending(p, h) /\ job[p][h].line = n}

\* Every handler has a line of its own.
LinesOK(p) ==
    /\ \A h \in Handlers : job[p][h].pc \in {"append", "appending"} =>
          job[p][h].line \in 1..MaxLines /\ job[p][h].line < next_line[p]
    /\ \A g, h \in Handlers : Pending(p, g) /\ Pending(p, h) /\ job[p][g].line = job[p][h].line => g = h
    /\ acked[p] \subseteq {p} \X (1..next_line[p] - 1)

\* Lines that are written once and will not be written again.
Done(lines) ==
    /\ \A m, n \in DOMAIN lines : lines[m] = lines[n] => m = n
    /\ \A n \in DOMAIN lines : lines[n][2] \notin Unwritten(lines[n][1])

\* What is written is not to be written again; what a follower may still print, it
\* has not printed.
WrittenOnce ==
    /\ log # NoFile => Done(log.lines)
    /\ Done(monitor.shown)
    /\ monitor.pc = "follow" /\ log # NoFile /\ log.ino = monitor.ino =>
          \A m \in DOMAIN monitor.shown, n \in DOMAIN log.lines :
              n > monitor.pos => monitor.shown[m] # log.lines[n]

\* A session that answers at its socket, as long as it has not given it up.
active(p) == listening(p) /\ main[p] \notin {"return", "joining"}

\* Who prepares does so alone, and knows of every active session.
SocketOK ==
    /\ SessionReachable
    /\ \A p, q \in Procs : main[p] \in Preparing /\ main[q] \in Preparing => p = q
    /\ \A p, q \in Procs : listening(p) /\ listening(q) => p = q
    /\ \A p, q \in Procs : main[p] = "wait" /\ active(q) => q = peer[p]
    /\ \A p, q \in Procs : main[p] \in {"exists", "unlink", "bind"} => ~active(q)
    /\ \A p \in Procs : main[p] = "wait" => peer[p] \in Procs

InLog(line) == log # NoFile /\ \E n \in DOMAIN log.lines : log.lines[n] = line

\* What was answered, or is about to be, is in the log of the sandbox.
Logged(p) ==
    sandbox[p] =>
        /\ \A line \in acked[p] : InLog(line)
        /\ \A h \in Handlers : job[p][h].pc = "appending" /\ reply[p][h] = "ok" =>
              InLog(<<p, job[p][h].line>>)

StartIndInv ==
    /\ StartTyped
    /\ \A p \in Procs : ChannelOK(p) /\ SessionOK(p) /\ LinesOK(p)
    /\ WrittenOnce
    /\ ~Overlap => SocketOK /\ \A p \in Procs : Logged(p)
=============================================================================
