------------------------------- MODULE LogWriter -------------------------------
(***************************************************************************)
(* The log writer: one thread per session process takes commands from a    *)
(* FIFO channel, works on the log file and replies; the thread that asked  *)
(* waits for the reply.  All the session processes of one sandbox name use *)
(* the same path.                                                          *)
(*                                                                         *)
(* A line stands for its text.  The file at the path is its lines and an   *)
(* identity, which a reader that keeps the file open can tell apart.       *)
(***************************************************************************)
EXTENDS Naturals, Sequences

CONSTANTS
    Procs,      \* session processes, each run once, numbered as they start
    Threads,    \* the threads of a process that use the log
    MaxLines,   \* bound: lines a process appends
    LogFails,   \* may an operation on the log file fail?
    NoFile

Lines == Procs \X (1..MaxLines)

VARIABLES
    log,        \* the file at the log path, or NoFile
    files,      \* history: files ever created at the path
    channel,    \* per process: the commands the writer has not taken
    reply       \* per process and thread: the request the thread waits for

logVars == <<log, files, channel, reply>>

Quiet == [t \in Threads |-> "none"]

LogInit ==
    /\ log = NoFile
    /\ files = 0
    /\ channel = [p \in Procs |-> <<>>]
    /\ reply = [p \in Procs |-> Quiet]

-----------------------------------------------------------------------------
(* The three operations on the file: what is at the path afterwards. *)

\* The file opened to be written, created if there is none.
opened == IF log = NoFile THEN [ino |-> files + 1, lines |-> <<>>] ELSE log

reset_log_file == [opened EXCEPT !.lines = <<>>]
append_log_file(line) == [opened EXCEPT !.lines = Append(@, line)]
remove_log_file == NoFile

\* LogWriterHandle::request: send the command and wait.  op is "reset", "append",
\* "remove" or "shutdown"; line is 0 when the command has none.
request(p, t, op, line) ==
    /\ channel' = [channel EXCEPT ![p] = Append(@, [by |-> t, op |-> op, line |-> line])]
    /\ reply' = [reply EXCEPT ![p][t] = "waiting"]
    /\ UNCHANGED <<log, files>>

\* The operation of a command that goes well.
performed(p, command) ==
    CASE command.op = "reset" -> reset_log_file
      [] command.op = "append" -> append_log_file(<<p, command.line>>)
      [] command.op = "remove" -> remove_log_file
      [] command.op = "shutdown" -> log

may_fail(command) == LogFails /\ command.op # "shutdown"

\* Fault: a failed operation is not answered.
run_log_writer_silent(p) ==
    /\ channel[p] # <<>>
    /\ LET command == Head(channel[p])
       IN  \/ /\ log' = performed(p, command)
              /\ reply' = [reply EXCEPT ![p][command.by] = "ok"]
           \/ /\ may_fail(command)
              /\ UNCHANGED <<log, reply>>
    /\ files' = IF log' # NoFile /\ log'.ino > files THEN log'.ino ELSE files
    /\ channel' = [channel EXCEPT ![p] = Tail(@)]

\* One turn of run_log_writer.
run_log_writer(p) ==
    /\ channel[p] # <<>>
    /\ LET command == Head(channel[p])
       IN  \/ /\ log' = performed(p, command)
              /\ reply' = [reply EXCEPT ![p][command.by] = "ok"]
           \/ /\ may_fail(command)
              /\ reply' = [reply EXCEPT ![p][command.by] = "failed"]
              /\ UNCHANGED log
    /\ files' = IF log' # NoFile /\ log'.ino > files THEN log'.ino ELSE files
    /\ channel' = [channel EXCEPT ![p] = Tail(@)]

\* Thread t of p has its reply, r.
replied(p, t, r) ==
    /\ reply[p][t] = r
    /\ reply' = [reply EXCEPT ![p][t] = "none"]
    /\ UNCHANGED <<log, files, channel>>

\* The process ends, and with it the writer and the threads that wait.
writer_dies(p) ==
    /\ channel' = [channel EXCEPT ![p] = <<>>]
    /\ reply' = [reply EXCEPT ![p] = Quiet]
    /\ UNCHANGED <<log, files>>

\* The types of the log, the channels and the requests.
LogTypeOK ==
    /\ log # NoFile => log.ino \in 1..files /\ log.lines \in Seq(Lines)
    /\ files \in Nat
    /\ \A p \in Procs : \A n \in DOMAIN channel[p] :
          channel[p][n].op \in {"reset", "append", "remove", "shutdown"}
    /\ reply \in [Procs -> [Threads -> {"none", "waiting", "ok", "failed"}]]
=============================================================================
