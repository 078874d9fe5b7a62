-------------------------- MODULE SessionStartProofs --------------------------
(***************************************************************************)
(* Proofs about SessionStart and the LogWriter it is built on, for any     *)
(* number of processes, handlers and lines, with kills and a failing log.  *)
(* A process is its channel, its threads and its lines; a step changes one *)
(* of them, and never makes a line unwritten that was not.                 *)
(***************************************************************************)
EXTENDS SessionStart, SequenceTheorems, FiniteSetTheorems, TLAPS

-----------------------------------------------------------------------------
(* One process. *)

\* The part of the invariant about process p.
ProcOK(p) == ChannelOK(p) /\ SessionOK(p) /\ LinesOK(p)

\* What a step does not change of process q.
Same(q) ==
    /\ channel'[q] = channel[q] /\ reply'[q] = reply[q]
    /\ job'[q] = job[q] /\ main'[q] = main[q] /\ sandbox'[q] = sandbox[q]
    /\ acked'[q] = acked[q] /\ next_line'[q] = next_line[q]

\* What every step does for process p.
Kept(p) == ProcOK(p)' /\ Unwritten(p)' \subseteq Unwritten(p)

\* The types, in the form the steps use.
LEMMA StartTypes ==
  ASSUME StartIndInv
  PROVE  /\ StartTyped
         /\ channel \in [Procs -> Seq(Commands)]
         /\ reply \in [Procs -> [Threads -> {"none", "waiting", "ok", "failed"}]]
         /\ main \in [Procs -> {"new"} \cup Preparing \cup Listening \cup Over]
         /\ job \in [Procs -> [Handlers -> Jobs]]
         /\ next_line \in [Procs -> 1..(MaxLines + 1)]
         /\ acked \in [Procs -> SUBSET Lines]
         /\ sandbox \in [Procs -> BOOLEAN]
         /\ \A p \in Procs : ProcOK(p)
         /\ Main \notin Handlers /\ Threads = Handlers \cup {Main} /\ MaxLines \in Nat
BY StartAssumption DEF StartIndInv, StartTyped, ProcOK

\* A process that a step leaves alone.
LEMMA OthersKept ==
  ASSUME NEW q \in Procs, ProcOK(q), Same(q)
  PROVE  Kept(q)
<1>1. ChannelOK(q)'
  BY DEF ProcOK, Same, ChannelOK, CommandOK, At
<1>2. SessionOK(q)'
  BY DEF ProcOK, Same, SessionOK, At, listening
<1>3. LinesOK(q)' /\ Unwritten(q)' = Unwritten(q)
  BY DEF ProcOK, Same, LinesOK, Unwritten, Pending
<1> QED BY <1>1, <1>2, <1>3 DEF Kept, ProcOK

\* The commands in a channel.
LEMMA Channel ==
  ASSUME StartIndInv, NEW p \in Procs
  PROVE  /\ channel[p] \in Seq(Commands) /\ Len(channel[p]) \in Nat
         /\ DOMAIN channel[p] = 1..Len(channel[p])
         /\ \A n \in DOMAIN channel[p] : channel[p][n] \in Commands /\ CommandOK(p, channel[p][n])
         /\ \A m, n \in DOMAIN channel[p] : channel[p][m].by = channel[p][n].by => m = n
<1>1. channel[p] \in Seq(Commands) /\ ChannelOK(p)
  BY StartTypes DEF ProcOK
<1>2. DOMAIN channel[p] = 1..Len(channel[p]) /\ Len(channel[p]) \in Nat
  BY <1>1, LenProperties
<1>3. \A n \in 1..Len(channel[p]) : channel[p][n] \in Commands
  BY <1>1, ElementOfSeq
<1> QED BY <1>1, <1>2, <1>3 DEF ChannelOK

\* A thread that is not where one waits for the log has no command in the channel.
LEMMA NoCommand ==
  ASSUME StartIndInv, NEW p \in Procs, NEW t \in Threads,
         \/ reply[p][t] # "waiting"
         \/ t = Main /\ main[p] \notin {"resetting", "removing", "joining"}
         \/ t # Main /\ job[p][t].pc \notin {"appending", "removing"}
  PROVE  \A n \in DOMAIN channel[p] : channel[p][n].by # t
<1> SUFFICES ASSUME NEW n \in DOMAIN channel[p], channel[p][n].by = t PROVE FALSE
  OBVIOUS
<1>1. channel[p][n] \in Commands /\ CommandOK(p, channel[p][n])
  BY Channel
<1>2. PICK c \in Commands : c = channel[p][n] /\ c.by = t
  BY <1>1
<1>3. CommandOK(p, c) /\ c.op \in Ops
  BY <1>1, <1>2 DEF Commands
<1>4. reply[p][t] = "waiting" /\ Main \notin Handlers
  BY <1>2, <1>3, StartTypes DEF CommandOK
<1>5. c.op = "append" => t # Main /\ job[p][t].pc = "appending"
  BY <1>2, <1>3, <1>4 DEF CommandOK
<1>6. c.op \in {"reset", "shutdown"} => t = Main /\ main[p] \in {"resetting", "joining"}
  BY <1>2, <1>3 DEF CommandOK
<1>7. c.op = "remove" => IF t = Main THEN main[p] = "removing" ELSE job[p][t].pc = "removing"
  BY <1>2, <1>3 DEF CommandOK, At
<1> QED BY <1>3, <1>4, <1>5, <1>6, <1>7 DEF Ops

\* What a step of thread t does not change for the others of its process.
OnlyThread(p, t) ==
    /\ \A u \in Threads : u # t => reply'[p][u] = reply[p][u]
    /\ t = Main => job'[p] = job[p]
    /\ t # Main => main'[p] = main[p] /\ \A h \in Handlers : h # t => job'[p][h] = job[p][h]

\* A command of another thread is as it was.
LEMMA CommandStays ==
  ASSUME NEW p \in Procs, NEW t \in Threads, NEW c \in Commands, c.by # t, CommandOK(p, c),
         OnlyThread(p, t), Main \notin Handlers, Threads = Handlers \cup {Main}
  PROVE  CommandOK(p, c)'
<1>1. c.by \in Threads
  BY DEF Commands
<1>2. CASE t = Main
  BY <1>1, <1>2 DEF CommandOK, OnlyThread, At
<1>3. CASE t # Main
  BY <1>1, <1>3 DEF CommandOK, OnlyThread, At
<1> QED BY <1>2, <1>3

\* A thread without a command may go anywhere.
LEMMA ChannelMoves ==
  ASSUME StartIndInv, NEW p \in Procs, NEW t \in Threads,
         \A n \in DOMAIN channel[p] : channel[p][n].by # t,
         channel'[p] = channel[p], OnlyThread(p, t)
  PROVE  ChannelOK(p)'
<1>1. ASSUME NEW n \in DOMAIN channel[p], NEW c \in Commands, c = channel[p][n]
      PROVE  CommandOK(p, c)'
  BY <1>1, Channel, CommandStays, StartTypes
<1>2. ASSUME NEW n \in DOMAIN channel[p] PROVE CommandOK(p, channel[p][n])'
  <2>1. PICK c \in Commands : c = channel[p][n]
    BY Channel
  <2>2. CommandOK(p, c)' /\ c = channel'[p][n]
    BY <1>1, <2>1
  <2> QED BY <2>2
<1> QED BY <1>2, Channel DEF ChannelOK

\* A thread sends a command and waits.
LEMMA ChannelRequest ==
  ASSUME StartIndInv, NEW p \in Procs, NEW t \in Threads,
         NEW op \in Ops, NEW line \in 0..MaxLines,
         \A n \in DOMAIN channel[p] : channel[p][n].by # t,
         request(p, t, op, line),
         t = Main => job'[p] = job[p],
         t # Main => main'[p] = main[p] /\ \A h \in Handlers : h # t => job'[p][h] = job[p][h],
         op = "append" => t \in Handlers /\ job'[p][t] = [pc |-> "appending", line |-> line],
         op = "reset" => t = Main /\ main'[p] = "resetting",
         op = "remove" => At(p, t, "removing")',
         op = "shutdown" => t = Main /\ main'[p] = "joining"
  PROVE  /\ ChannelOK(p)'
         /\ reply'[p][t] = "waiting" /\ \A u \in Threads : u # t => reply'[p][u] = reply[p][u]
         /\ \A q \in Procs : q # p => channel'[q] = channel[q] /\ reply'[q] = reply[q]
<1>1. PICK c \in Commands : c = [by |-> t, op |-> op, line |-> line]
  BY DEF Commands
<1>2. c.by = t /\ c.op = op /\ c.line = line
  BY <1>1
<1>3. /\ channel'[p] = Append(channel[p], c)
      /\ \A q \in Procs : q # p => channel'[q] = channel[q] /\ reply'[q] = reply[q]
      /\ reply'[p][t] = "waiting" /\ \A u \in Threads : u # t => reply'[p][u] = reply[p][u]
  BY <1>1, StartTypes DEF request
<1>4. OnlyThread(p, t)
  BY <1>3 DEF OnlyThread
<1>5. PICK s \in Seq(Commands) : s = channel[p]
  BY Channel
<1>6. /\ DOMAIN channel'[p] = 1..(Len(s) + 1) /\ Len(s) \in Nat /\ DOMAIN s = 1..Len(s)
      /\ \A n \in 1..Len(s) : channel'[p][n] = s[n]
      /\ channel'[p][Len(s) + 1] = c
  <2>1. channel'[p] = Append(s, c)
    BY <1>3, <1>5
  <2>2. Append(s, c) \in Seq(Commands) /\ Len(Append(s, c)) = Len(s) + 1
    BY AppendProperties
  <2>3. DOMAIN Append(s, c) = 1..(Len(s) + 1) /\ Len(s) \in Nat /\ DOMAIN s = 1..Len(s)
    BY <2>2, LenProperties
  <2>4. (\A n \in 1..Len(s) : Append(s, c)[n] = s[n]) /\ Append(s, c)[Len(s) + 1] = c
    BY AppendProperties
  <2> QED BY <2>1, <2>3, <2>4
<1>7. \A m, n \in DOMAIN channel'[p] : channel'[p][m].by = channel'[p][n].by => m = n
  <2>1. \A m, n \in 1..Len(s) : s[n].by # t /\ (s[m].by = s[n].by => m = n)
    BY <1>5, <1>6, Channel, SMTT(60)
  <2> QED BY <1>2, <1>6, <2>1
<1>8. ASSUME NEW n \in 1..Len(s) PROVE CommandOK(p, s[n])'
  <2>1. s[n] \in Commands /\ CommandOK(p, s[n]) /\ s[n].by # t
    BY <1>5, <1>6, Channel
  <2> QED BY <1>4, <2>1, CommandStays, StartTypes
<1>9. CommandOK(p, c)'
  BY <1>2, <1>3 DEF CommandOK, At
<1>10. \A n \in DOMAIN channel'[p] : CommandOK(p, channel[p][n])'
  <2>1. ASSUME NEW n \in DOMAIN channel'[p] PROVE CommandOK(p, channel[p][n])'
    <3>1. CASE n \in 1..Len(s)
      <4>1. channel'[p][n] = s[n] /\ CommandOK(p, s[n])'
        BY <1>6, <1>8, <3>1
      <4> QED BY <4>1
    <3>2. CASE n = Len(s) + 1
      <4>1. channel'[p][n] = c /\ CommandOK(p, c)'
        BY <1>6, <1>9, <3>2
      <4> QED BY <4>1
    <3> QED BY <1>6, <2>1, <3>1, <3>2
  <2> QED BY <2>1
<1> QED BY <1>3, <1>7, <1>10 DEF ChannelOK
\* A step of one process keeps them all.
LEMMA AllKept ==
  ASSUME StartIndInv, NEW p \in Procs, Kept(p), \A q \in Procs : q # p => Same(q)
  PROVE  \A q \in Procs : Kept(q)
BY OthersKept, StartTypes

\* A handler has work only while its session listens and has begun to serve.
LEMMA Serves ==
  ASSUME StartIndInv, NEW p \in Procs, NEW h \in Handlers,
         main[p] = "serve" \/ job[p][h].pc # "idle"
  PROVE  listening(p) /\ main[p] \notin Beginning
<1>1. CASE main[p] = "serve"
  BY <1>1 DEF listening, Listening, Beginning
<1>2. CASE job[p][h].pc # "idle"
  <2>1. job[p] # NoJob
    BY <1>2 DEF NoJob, Idle
  <2> QED BY <2>1, StartTypes DEF ProcOK, SessionOK
<1> QED BY <1>1, <1>2

\* A handler moves; it is not about to remove the log.
LEMMA SessionServes ==
  ASSUME NEW p \in Procs, NEW h \in Handlers, SessionOK(p), listening(p), main[p] \notin Beginning,
         main'[p] = main[p], sandbox'[p] = sandbox[p], job'[p][h].pc # "removing",
         \A g \in Handlers : g # h => job'[p][g] = job[p][g],
         Main \notin Handlers, Threads = Handlers \cup {Main}
  PROVE  SessionOK(p)'
<1>1. listening(p)' /\ main'[p] \notin Beginning
  BY DEF listening
<1>2. \A t \in Threads : At(p, t, "removing")' => At(p, t, "removing")
  BY DEF At
<1> QED BY <1>1, <1>2 DEF SessionOK

\* The lines of a process when one handler moves: it keeps its line, drops it, or takes the
\* next one.
LEMMA LinesMove ==
  ASSUME StartIndInv, NEW p \in Procs, NEW h \in Handlers, job'[p][h] \in Jobs,
         \/ acked'[p] = acked[p]
         \/ job[p][h].pc = "appending" /\ acked'[p] = acked[p] \cup {<<p, job[p][h].line>>},
         \A g \in Handlers : g # h => job'[p][g] = job[p][g] /\ reply'[p][g] = reply[p][g],
         \/ next_line'[p] = next_line[p] /\ job'[p][h].pc \notin {"append", "appending"}
         \/ next_line'[p] = next_line[p] /\ job[p][h].pc \in {"append", "appending"}
            /\ job'[p][h].line = job[p][h].line /\ (Pending(p, h)' => Pending(p, h))
         \/ next_line[p] <= MaxLines /\ next_line'[p] = next_line[p] + 1
            /\ job'[p][h].line = next_line[p] /\ Pending(p, h)' 
  PROVE  LinesOK(p)' /\ Unwritten(p)' \subseteq Unwritten(p)
<1>1. PICK n \in 1..(MaxLines + 1) : n = next_line[p]
  BY StartTypes
<1>2. PICK k \in 1..(MaxLines + 1) : k = next_line'[p] /\ n <= k
  <2>1. next_line'[p] = n \/ (n <= MaxLines /\ next_line'[p] = n + 1)
    BY <1>1
  <2>2. next_line'[p] \in 1..(MaxLines + 1) /\ n <= next_line'[p]
    BY <2>1, StartTypes
  <2> QED BY <2>2
<1>3. /\ \A g \in Handlers : job[p][g] \in Jobs /\ job[p][g].line \in Nat
      /\ LinesOK(p) /\ MaxLines \in Nat
  BY StartTypes DEF ProcOK, Jobs
<1>4. \A g \in Handlers : g # h => Pending(p, g)' = Pending(p, g)
  BY DEF Pending
<1>5. ASSUME NEW g \in Handlers, job'[p][g].pc \in {"append", "appending"}
      PROVE  job'[p][g].line \in 1..MaxLines /\ job'[p][g].line < k
  BY <1>1, <1>2, <1>3, <1>5 DEF LinesOK
<1>6. ASSUME NEW f \in Handlers, NEW g \in Handlers, Pending(p, f)', Pending(p, g)',
             job'[p][f].line = job'[p][g].line
      PROVE  f = g
  <2>1. \A g1 \in Handlers : Pending(p, g1) => job[p][g1].line < n
    BY <1>1, <1>3 DEF LinesOK, Pending
  <2>2. job'[p][h].pc \notin {"append", "appending"} => ~Pending(p, h)'
    BY DEF Pending
  <2> QED BY <1>1, <1>3, <1>4, <1>6, <2>1, <2>2 DEF LinesOK
<1>7. acked'[p] \subseteq {p} \X (1..k - 1)
  <2>1. acked[p] \subseteq {p} \X (1..n - 1) /\ 1..n - 1 \subseteq 1..k - 1
    BY <1>1, <1>2, <1>3 DEF LinesOK
  <2>2. job[p][h].pc = "appending" => job[p][h].line \in 1..k - 1
    BY <1>1, <1>2, <1>3 DEF LinesOK
  <2> QED BY <2>1, <2>2
<1>8. LinesOK(p)'
  BY <1>2, <1>5, <1>6, <1>7 DEF LinesOK
<1>9. Unwritten(p)' \subseteq Unwritten(p)
  <2> SUFFICES ASSUME NEW m \in 1..MaxLines, m \notin Unwritten(p) PROVE m \notin Unwritten(p)'
    BY DEF Unwritten
  <2>1. m < n /\ m < k /\ \A g \in Handlers : Pending(p, g) => job[p][g].line # m
    BY <1>1, <1>2, <1>3 DEF Unwritten
  <2>2. job'[p][h].pc \notin {"append", "appending"} => ~Pending(p, h)'
    BY DEF Pending
  <2>3. \A g \in Handlers : Pending(p, g)' => job'[p][g].line # m
    BY <1>1, <1>4, <2>1, <2>2
  <2> QED BY <1>2, <1>3, <2>1, <2>3 DEF Unwritten
<1> QED BY <1>8, <1>9

-----------------------------------------------------------------------------
(* Steps that have nothing to do with the log. *)

\* The main thread moves.
LEMMA MainKept ==
  ASSUME StartIndInv, NEW p \in Procs, NEW pc, main' = [main EXCEPT ![p] = pc],
         UNCHANGED <<channel, reply, job, sandbox, acked, next_line>>,
         main[p] \notin {"resetting", "removing", "joining"},
         pc \notin {"resetting", "removing", "joining"},
         pc \notin Listening \/ pc \in Beginning => main[p] \notin Listening
  PROVE  \A q \in Procs : Kept(q)
<1>1. main'[p] = pc /\ \A q \in Procs : q # p => Same(q)
  BY StartTypes DEF Same
<1>2. Main \in Threads /\ \A n \in DOMAIN channel[p] : channel[p][n].by # Main
  BY NoCommand, StartTypes
<1>3. ChannelOK(p)'
  BY <1>2, ChannelMoves, StartTypes DEF OnlyThread
<1>4. SessionOK(p)'
  BY <1>1, StartTypes DEF ProcOK, SessionOK, listening, At
<1>5. LinesOK(p)' /\ Unwritten(p)' = Unwritten(p)
  BY StartTypes DEF ProcOK, LinesOK, Unwritten, Pending
<1> QED BY <1>1, <1>3, <1>4, <1>5, AllKept DEF Kept, ProcOK

\* A handler moves, from and to where it has no line and no request.
LEMMA HandlerKept ==
  ASSUME StartIndInv, NEW p \in Procs, NEW h \in Handlers, NEW j \in Jobs,
         job' = [job EXCEPT ![p][h] = j],
         UNCHANGED <<channel, reply, main, sandbox, acked, next_line>>,
         main[p] = "serve" \/ job[p][h].pc # "idle",
         job[p][h].pc \notin {"append", "appending", "removing"},
         j.pc \notin {"append", "appending", "removing"}
  PROVE  \A q \in Procs : Kept(q)
<1>1. /\ job'[p][h] = j /\ \A g \in Handlers : g # h => job'[p][g] = job[p][g]
      /\ \A q \in Procs : q # p => Same(q)
  BY StartTypes DEF Same
<1>2. h \in Threads /\ h # Main /\ \A n \in DOMAIN channel[p] : channel[p][n].by # h
  BY NoCommand, StartTypes
<1>3. ChannelOK(p)'
  BY <1>1, <1>2, ChannelMoves, StartTypes DEF OnlyThread
<1>4. SessionOK(p)'
  BY <1>1, Serves, StartTypes DEF ProcOK, SessionOK, listening, At
<1>5. LinesOK(p)'
  BY <1>1, StartTypes DEF ProcOK, LinesOK, Pending
<1>6. Unwritten(p)' = Unwritten(p)
  BY <1>1 DEF Unwritten, Pending
<1> QED BY <1>1, <1>3, <1>4, <1>5, <1>6, AllKept DEF Kept, ProcOK

\* Advance is a step of the main thread or of a handler.
LEMMA AdvanceIs ==
  ASSUME NEW p \in Procs, NEW t \in Threads, NEW pc, Advance(p, t, pc), Threads = Handlers \cup {Main}
  PROVE  \/ t = Main /\ main' = [main EXCEPT ![p] = pc] /\ job' = job
         \/ t # Main /\ t \in Handlers /\ main' = main
            /\ job' = [job EXCEPT ![p][t] = [pc |-> pc, line |-> 0]]
BY DEF Advance, Goto, Do

\* Where destroy goes from a section of its own.
MainGoes == {"detaching", "remove_sandbox", "unlink_end", "return"}
HandlerGoes == {"detaching", "remove_sandbox", "answer", "idle"}

\* Returns is an Advance to one of them.
LEMMA ReturnsIs ==
  ASSUME NEW p \in Procs, NEW t \in Threads, NEW result, Returns(p, t, result)
  PROVE  \E pc \in IF t = Main THEN {"unlink_end", "return"} ELSE {"answer", "idle"} : Advance(p, t, pc)
BY DEF Returns

\* destroy between its requests to the log.
LEMMA DestroyKept ==
  ASSUME StartIndInv, NEW p \in Procs, NEW t \in Threads,
         NEW pc \in IF t = Main THEN MainGoes ELSE HandlerGoes, Advance(p, t, pc),
         At(p, t, "destroy") \/ At(p, t, "detaching") \/ At(p, t, "remove_sandbox"),
         UNCHANGED <<channel, reply, sandbox, acked, next_line>>
  PROVE  \A q \in Procs : Kept(q)
<1>1. Threads = Handlers \cup {Main} /\ MaxLines \in Nat
  BY StartTypes
<1>2. CASE t = Main
  <2>1. main' = [main EXCEPT ![p] = pc] /\ job' = job
    BY <1>1, <1>2, AdvanceIs
  <2>2. main[p] \in {"destroy", "detaching", "remove_sandbox"} /\ pc \in MainGoes
    BY <1>2 DEF At
  <2> QED BY <2>1, <2>2, MainKept DEF MainGoes, Listening, Beginning
<1>3. CASE t # Main
  <2>1. t \in Handlers /\ main' = main /\ job' = [job EXCEPT ![p][t] = [pc |-> pc, line |-> 0]]
    BY <1>1, <1>3, AdvanceIs
  <2>2. job[p][t].pc \in {"destroy", "detaching", "remove_sandbox"} /\ pc \in HandlerGoes
    BY <1>3 DEF At
  <2>3. [pc |-> pc, line |-> 0] \in Jobs /\ [pc |-> pc, line |-> 0].pc = pc
    BY <1>1, <2>2 DEF Jobs, HandlerGoes
  <2> QED BY <2>1, <2>2, <2>3, HandlerKept, ZenonT(60) DEF HandlerGoes
<1> QED BY <1>2, <1>3

-----------------------------------------------------------------------------
(* Requests and replies. *)

\* The main thread sends a command: it resets the log of a new session, or ends the
\* writer of one that is over.
LEMMA MainRequestKept ==
  ASSUME StartIndInv, NEW p \in Procs, new_session(p) \/ drop_writer(p)
  PROVE  \A q \in Procs : Kept(q)
<1>1. UNCHANGED <<job, sandbox, acked, next_line>> /\ Main \in Threads /\ 0 \in 0..MaxLines
  BY StartTypes DEF new_session, drop_writer, lineVars
<1>2. \/ main[p] = "new_session" /\ main'[p] = "resetting" /\ request(p, Main, "reset", 0)
      \/ main[p] = "return" /\ main'[p] = "joining" /\ request(p, Main, "shutdown", 0)
  BY StartTypes DEF new_session, drop_writer, Goto
<1>3. \A q \in Procs : q # p => main'[q] = main[q]
  BY StartTypes DEF new_session, drop_writer, Goto
<1>4. \A n \in DOMAIN channel[p] : channel[p][n].by # Main
  BY <1>1, <1>2, NoCommand
<1>5. /\ ChannelOK(p)'
      /\ \A u \in Threads : u # Main => reply'[p][u] = reply[p][u]
      /\ \A q \in Procs : q # p => channel'[q] = channel[q] /\ reply'[q] = reply[q]
  <2>1. CASE main'[p] = "resetting"
    BY <1>1, <1>2, <1>4, <2>1, ChannelRequest DEF Ops
  <2>2. CASE main'[p] = "joining"
    BY <1>1, <1>2, <1>4, <2>2, ChannelRequest DEF Ops
  <2> QED BY <1>2, <2>1, <2>2
<1>6. SessionOK(p)'
  BY <1>1, <1>2, StartTypes DEF ProcOK, SessionOK, listening, Listening, Beginning, At
<1>7. LinesOK(p)' /\ Unwritten(p)' = Unwritten(p)
  <2>1. \A h \in Handlers : Pending(p, h)' = Pending(p, h)
    BY <1>1, <1>5, StartTypes DEF Pending
  <2> QED BY <1>1, <2>1, StartTypes DEF ProcOK, LinesOK, Unwritten
<1>8. \A q \in Procs : q # p => Same(q)
  BY <1>1, <1>3, <1>5 DEF Same
<1> QED BY <1>5, <1>6, <1>7, <1>8, AllKept DEF Kept, ProcOK

\* A handler takes the id of its line under the lock and sends it there.
LEMMA AppendLockedKept ==
  ASSUME StartIndInv, NEW p \in Procs, NEW h \in Handlers, append_locked(p, h)
  PROVE  \A q \in Procs : Kept(q)
<1>1. PICK n \in 1..MaxLines : n = next_line[p]
  BY StartTypes DEF append_locked
<1>2. /\ main[p] = "serve" /\ job[p][h] = Idle /\ request(p, h, "append", n)
      /\ UNCHANGED <<main, sandbox, acked>>
      /\ job'[p][h] = [pc |-> "appending", line |-> n] /\ \A g \in Handlers : g # h => job'[p][g] = job[p][g]
      /\ next_line'[p] = n + 1 /\ n \in Nat
      /\ \A q \in Procs : q # p => job'[q] = job[q] /\ next_line'[q] = next_line[q]
  BY <1>1, StartTypes DEF append_locked, Accepts, Do
<1>3. h \in Threads /\ h # Main /\ n \in 0..MaxLines /\ Idle.pc = "idle"
  BY StartTypes DEF Idle
<1>4. \A m \in DOMAIN channel[p] : channel[p][m].by # h
  BY <1>2, <1>3, NoCommand
<1>5. /\ ChannelOK(p)' /\ reply'[p][h] = "waiting"
      /\ \A u \in Threads : u # h => reply'[p][u] = reply[p][u]
      /\ \A q \in Procs : q # p => channel'[q] = channel[q] /\ reply'[q] = reply[q]
  BY <1>2, <1>3, <1>4, ChannelRequest DEF Ops
<1>6. SessionOK(p)'
  <2>1. job'[p][h].pc # "removing" /\ SessionOK(p) /\ main'[p] = main[p] /\ sandbox'[p] = sandbox[p]
    BY <1>2, <1>3, StartTypes DEF ProcOK
  <2>2. listening(p) /\ main[p] \notin Beginning
    BY <1>2, <1>3, Serves
  <2> QED BY <1>2, <1>3, <2>1, <2>2, SessionServes, StartTypes
<1>7. LinesOK(p)' /\ Unwritten(p)' \subseteq Unwritten(p)
  <2>1. job'[p][h] \in Jobs /\ job'[p][h].line = n /\ Pending(p, h)'
    BY <1>2, <1>3, <1>5, StartTypes DEF Jobs, Pending
  <2>2. \A g \in Handlers : g # h => job'[p][g] = job[p][g] /\ reply'[p][g] = reply[p][g]
    BY <1>2, <1>5, StartTypes
  <2> QED BY <1>1, <1>2, <2>1, <2>2, LinesMove
<1>8. \A q \in Procs : q # p => Same(q)
  BY <1>2, <1>5 DEF Same
<1> QED BY <1>5, <1>6, <1>7, <1>8, AllKept DEF Kept, ProcOK

\* A handler takes the id of its line and will send it later.
LEMMA TakePathKept ==
  ASSUME StartIndInv, NEW p \in Procs, NEW h \in Handlers, take_log_path(p, h)
  PROVE  \A q \in Procs : Kept(q)
<1>1. PICK n \in 1..MaxLines : n = next_line[p]
  BY StartTypes DEF take_log_path
<1>2. /\ main[p] = "serve" /\ job[p][h] = Idle
      /\ UNCHANGED <<main, sandbox, acked, channel, reply>>
      /\ job'[p][h] = [pc |-> "append", line |-> n] /\ \A g \in Handlers : g # h => job'[p][g] = job[p][g]
      /\ next_line'[p] = n + 1 /\ n \in Nat
      /\ \A q \in Procs : q # p => job'[q] = job[q] /\ next_line'[q] = next_line[q]
  BY <1>1, StartTypes DEF take_log_path, Accepts, Do, logVars, serverVars
<1>3. h \in Threads /\ h # Main /\ n \in 0..MaxLines /\ Idle.pc = "idle"
  BY StartTypes DEF Idle
<1>4. \A m \in DOMAIN channel[p] : channel[p][m].by # h
  BY <1>2, <1>3, NoCommand
<1>5. ChannelOK(p)'
  BY <1>2, <1>3, <1>4, ChannelMoves DEF OnlyThread
<1>6. SessionOK(p)'
  <2>1. job'[p][h].pc # "removing" /\ SessionOK(p) /\ main'[p] = main[p] /\ sandbox'[p] = sandbox[p]
    BY <1>2, <1>3, StartTypes DEF ProcOK
  <2>2. listening(p) /\ main[p] \notin Beginning
    BY <1>2, <1>3, Serves
  <2> QED BY <1>2, <1>3, <2>1, <2>2, SessionServes, StartTypes
<1>7. LinesOK(p)' /\ Unwritten(p)' \subseteq Unwritten(p)
  <2>1. job'[p][h] \in Jobs /\ job'[p][h].line = n /\ Pending(p, h)'
    BY <1>2, <1>3, StartTypes DEF Jobs, Pending
  <2>2. \A g \in Handlers : g # h => job'[p][g] = job[p][g] /\ reply'[p][g] = reply[p][g]
    BY <1>2, StartTypes
  <2> QED BY <1>1, <1>2, <2>1, <2>2, LinesMove
<1>8. \A q \in Procs : q # p => Same(q)
  BY <1>2 DEF Same
<1> QED BY <1>5, <1>6, <1>7, <1>8, AllKept DEF Kept, ProcOK

\* The handler sends its line.
LEMMA AppendUnlockedKept ==
  ASSUME StartIndInv, NEW p \in Procs, NEW h \in Handlers, append_unlocked(p, h)
  PROVE  \A q \in Procs : Kept(q)
<1>1. job[p][h] \in Jobs /\ job[p][h].pc = "append"
  BY StartTypes DEF append_unlocked
<1>2. PICK n \in 1..MaxLines : n = job[p][h].line
  BY <1>1, StartTypes DEF ProcOK, LinesOK
<1>3. /\ request(p, h, "append", n)
      /\ UNCHANGED <<main, sandbox, acked, next_line>>
      /\ job'[p][h] = [pc |-> "appending", line |-> n] /\ \A g \in Handlers : g # h => job'[p][g] = job[p][g]
      /\ \A q \in Procs : q # p => job'[q] = job[q]
  BY <1>2, StartTypes DEF append_unlocked, Do, serverVars, lineVars
<1>4. h \in Threads /\ h # Main /\ n \in 0..MaxLines
  BY StartTypes
<1>5. \A m \in DOMAIN channel[p] : channel[p][m].by # h
  BY <1>1, <1>4, NoCommand
<1>6. /\ ChannelOK(p)' /\ reply'[p][h] = "waiting"
      /\ \A u \in Threads : u # h => reply'[p][u] = reply[p][u]
      /\ \A q \in Procs : q # p => channel'[q] = channel[q] /\ reply'[q] = reply[q]
  BY <1>3, <1>4, <1>5, ChannelRequest DEF Ops
<1>7. SessionOK(p)'
  <2>1. job'[p][h].pc # "removing" /\ SessionOK(p) /\ main'[p] = main[p] /\ sandbox'[p] = sandbox[p]
    BY <1>1, <1>3, <1>4, StartTypes DEF ProcOK
  <2>2. listening(p) /\ main[p] \notin Beginning
    BY <1>1, <1>3, <1>4, Serves
  <2> QED BY <1>3, <1>4, <2>1, <2>2, SessionServes, StartTypes
<1>8. LinesOK(p)' /\ Unwritten(p)' \subseteq Unwritten(p)
  <2>1. job'[p][h] \in Jobs /\ job'[p][h].line = job[p][h].line /\ Pending(p, h)
    BY <1>1, <1>2, <1>3, <1>4, StartTypes DEF Jobs, Pending
  <2>2. \A g \in Handlers : g # h => job'[p][g] = job[p][g] /\ reply'[p][g] = reply[p][g]
    BY <1>3, <1>6, StartTypes
  <2> QED BY <1>1, <1>3, <2>1, <2>2, LinesMove
<1>9. \A q \in Procs : q # p => Same(q)
  BY <1>3, <1>6 DEF Same
<1> QED BY <1>6, <1>7, <1>8, <1>9, AllKept DEF Kept, ProcOK
\* The append is answered, and the handler is done.
LEMMA AppendReturnsKept ==
  ASSUME StartIndInv, NEW p \in Procs, NEW h \in Handlers, append_returns(p, h)
  PROVE  \A q \in Procs : Kept(q)
<1>1. /\ job[p][h] \in Jobs /\ job[p][h].pc = "appending" /\ reply[p][h] \in {"ok", "failed"}
      /\ UNCHANGED <<main, sandbox, next_line, channel>>
      /\ job'[p][h] = [pc |-> "idle", line |-> 0] /\ \A g \in Handlers : g # h => job'[p][g] = job[p][g]
      /\ \A u \in Threads : u # h => reply'[p][u] = reply[p][u]
      /\ \A q \in Procs : q # p => job'[q] = job[q] /\ reply'[q] = reply[q] /\ acked'[q] = acked[q]
      /\ acked'[p] = acked[p] \/ acked'[p] = acked[p] \cup {<<p, job[p][h].line>>}
  BY StartTypes DEF append_returns, replied, Do
<1>2. h \in Threads /\ h # Main /\ [pc |-> "idle", line |-> 0] \in Jobs
  BY StartTypes DEF Jobs
<1>3. \A m \in DOMAIN channel[p] : channel[p][m].by # h
  BY <1>1, <1>2, NoCommand
<1>4. ChannelOK(p)'
  BY <1>1, <1>2, <1>3, ChannelMoves DEF OnlyThread
<1>5. SessionOK(p)'
  <2>1. job'[p][h].pc # "removing" /\ SessionOK(p) /\ main'[p] = main[p] /\ sandbox'[p] = sandbox[p]
    BY <1>1, StartTypes DEF ProcOK
  <2>2. listening(p) /\ main[p] \notin Beginning
    BY <1>1, Serves
  <2> QED BY <1>1, <2>1, <2>2, SessionServes, StartTypes
<1>6. LinesOK(p)' /\ Unwritten(p)' \subseteq Unwritten(p)
  <2>1. \A g \in Handlers : g # h => job'[p][g] = job[p][g] /\ reply'[p][g] = reply[p][g]
    BY <1>1, StartTypes
  <2> QED BY <1>1, <1>2, <2>1, LinesMove
<1>7. \A q \in Procs : q # p => Same(q)
  BY <1>1 DEF Same
<1> QED BY <1>4, <1>5, <1>6, <1>7, AllKept DEF Kept, ProcOK

\* A session that serves without its sandbox.
LEMMA SessionGone ==
  ASSUME NEW p \in Procs, listening(p)', main'[p] \notin Beginning, ~sandbox'[p]
  PROVE  SessionOK(p)'
BY DEF SessionOK

\* A thread of destroy that sends or has sent its request moves no line.
LEMMA DestroyLines ==
  ASSUME StartIndInv, NEW p \in Procs, NEW t \in Threads, OnlyThread(p, t),
         acked'[p] = acked[p], next_line'[p] = next_line[p],
         t # Main => job'[p][t] \in Jobs /\ job'[p][t].pc \notin {"append", "appending"}
  PROVE  LinesOK(p)' /\ Unwritten(p)' \subseteq Unwritten(p)
<1>1. CASE t = Main
  <2>1. job'[p] = job[p] /\ \A h \in Handlers : Pending(p, h)' = Pending(p, h)
    BY <1>1, StartTypes DEF Pending, OnlyThread
  <2> QED BY <2>1, StartTypes DEF ProcOK, LinesOK, Unwritten
<1>2. CASE t # Main
  <2>1. \A g \in Handlers : g # t => job'[p][g] = job[p][g] /\ reply'[p][g] = reply[p][g]
    BY <1>2, StartTypes DEF OnlyThread
  <2> QED BY <1>2, <2>1, LinesMove, StartTypes
<1> QED BY <1>1, <1>2

\* destroy takes the sandbox out of the registry and asks for the log to be removed.
LEMMA RemoveSandboxKept ==
  ASSUME StartIndInv, NEW p \in Procs, NEW t \in Threads, remove_sandbox(p, t)
  PROVE  \A q \in Procs : Kept(q)
<1>1. At(p, t, "remove_sandbox") /\ UNCHANGED <<acked, next_line>> /\ Threads = Handlers \cup {Main}
  BY StartTypes DEF remove_sandbox, lineVars
<1>2. CASE ~sandbox[p]
  <2>1. Returns(p, t, "ok") /\ UNCHANGED <<channel, reply, sandbox>>
    BY <1>2 DEF remove_sandbox, logVars
  <2>2. PICK pc \in IF t = Main THEN {"unlink_end", "return"} ELSE {"answer", "idle"} : Advance(p, t, pc)
    BY <2>1, ReturnsIs
  <2>3. pc \in IF t = Main THEN MainGoes ELSE HandlerGoes
    BY DEF MainGoes, HandlerGoes
  <2> QED BY <1>1, <2>1, <2>2, <2>3, DestroyKept
<1>3. CASE sandbox[p]
  <2>1. /\ request(p, t, "remove", 0) /\ Advance(p, t, "removing")
        /\ sandbox' = [sandbox EXCEPT ![p] = FALSE]
    BY <1>3 DEF remove_sandbox
  <2>2. \/ t = Main /\ main' = [main EXCEPT ![p] = "removing"] /\ job' = job
        \/ t # Main /\ t \in Handlers /\ main' = main
           /\ job' = [job EXCEPT ![p][t] = [pc |-> "removing", line |-> 0]]
    BY <1>1, <2>1, AdvanceIs
  <2>3. /\ ~sandbox'[p] /\ At(p, t, "removing")'
        /\ t = Main => job'[p] = job[p] /\ main'[p] = "removing"
        /\ t # Main => /\ main'[p] = main[p] /\ job'[p][t] = [pc |-> "removing", line |-> 0]
                       /\ \A h \in Handlers : h # t => job'[p][h] = job[p][h]
        /\ \A q \in Procs : q # p => main'[q] = main[q] /\ job'[q] = job[q] /\ sandbox'[q] = sandbox[q]
    BY <2>1, <2>2, StartTypes DEF At
  <2>4. \A n \in DOMAIN channel[p] : channel[p][n].by # t
    BY <1>1, NoCommand DEF At
  <2>5. /\ ChannelOK(p)'
        /\ \A u \in Threads : u # t => reply'[p][u] = reply[p][u]
        /\ \A q \in Procs : q # p => channel'[q] = channel[q] /\ reply'[q] = reply[q]
    <3>1. "remove" \in Ops /\ 0 \in 0..MaxLines
      BY StartTypes DEF Ops
    <3> QED BY <2>1, <2>3, <2>4, <3>1, ChannelRequest
  <2>6. listening(p)' /\ main'[p] \notin Beginning
    <3>1. CASE t = Main
      BY <2>3, <3>1 DEF listening, Listening, Beginning
    <3>2. CASE t # Main
      BY <1>1, <2>3, <3>2, Serves DEF listening, At
    <3> QED BY <3>1, <3>2
  <2>7. LinesOK(p)' /\ Unwritten(p)' \subseteq Unwritten(p)
    <3>1. [pc |-> "removing", line |-> 0] \in Jobs
      BY StartTypes DEF Jobs
    <3>2. OnlyThread(p, t)
      BY <2>3, <2>5 DEF OnlyThread
    <3> QED BY <1>1, <2>3, <3>1, <3>2, DestroyLines
  <2>8. \A q \in Procs : q # p => Same(q)
    BY <1>1, <2>3, <2>5 DEF Same
  <2> QED BY <2>3, <2>5, <2>6, <2>7, <2>8, SessionGone, AllKept DEF Kept, ProcOK
<1> QED BY <1>2, <1>3, StartTypes

\* The log is removed, or could not be.
LEMMA LogRemovedKept ==
  ASSUME StartIndInv, NEW p \in Procs, NEW t \in Threads, log_removed(p, t)
  PROVE  \A q \in Procs : Kept(q)
<1>1. /\ At(p, t, "removing") /\ UNCHANGED <<channel, sandbox, acked, next_line>>
      /\ Threads = Handlers \cup {Main} /\ reply[p][t] \in {"ok", "failed"}
      /\ \A u \in Threads : u # t => reply'[p][u] = reply[p][u]
      /\ \A q \in Procs : q # p => reply'[q] = reply[q]
  BY StartTypes DEF log_removed, lineVars, replied
<1>2. PICK pc \in IF t = Main THEN {"unlink_end", "return"} ELSE {"answer", "idle"} : Advance(p, t, pc)
  BY ReturnsIs DEF log_removed
<1>3. \/ t = Main /\ main' = [main EXCEPT ![p] = pc] /\ job' = job
      \/ t # Main /\ t \in Handlers /\ main' = main
         /\ job' = [job EXCEPT ![p][t] = [pc |-> pc, line |-> 0]]
  BY <1>1, <1>2, AdvanceIs
<1>4. /\ t = Main => job'[p] = job[p] /\ main'[p] = pc
      /\ t # Main => /\ main'[p] = main[p] /\ job'[p][t] = [pc |-> pc, line |-> 0]
                     /\ \A h \in Handlers : h # t => job'[p][h] = job[p][h]
      /\ \A q \in Procs : q # p => main'[q] = main[q] /\ job'[q] = job[q]
  BY <1>3, StartTypes
<1>5. OnlyThread(p, t)
  BY <1>1, <1>4 DEF OnlyThread
<1>6. ChannelOK(p)'
  BY <1>1, <1>5, NoCommand, ChannelMoves
<1>7. ~sandbox'[p]
  BY <1>1, StartTypes DEF ProcOK, SessionOK
<1>8. listening(p)' /\ main'[p] \notin Beginning
  <2>1. CASE t = Main
    BY <1>2, <1>4, <2>1 DEF listening, Listening, Beginning
  <2>2. CASE t # Main
    BY <1>1, <1>4, <2>2, Serves DEF listening, At
  <2> QED BY <2>1, <2>2
<1>9. LinesOK(p)' /\ Unwritten(p)' \subseteq Unwritten(p)
  <2>1. t # Main => [pc |-> pc, line |-> 0] \in Jobs /\ pc \notin {"append", "appending"}
    BY <1>2, StartTypes DEF Jobs
  <2> QED BY <1>1, <1>4, <1>5, <2>1, DestroyLines
<1>10. \A q \in Procs : q # p => Same(q)
  BY <1>1, <1>4 DEF Same
<1> QED BY <1>6, <1>7, <1>8, <1>9, <1>10, SessionGone, AllKept DEF Kept, ProcOK

\* The log of a new session is reset: it serves, or is given up.
LEMMA SessionCreatedKept ==
  ASSUME StartIndInv, NEW p \in Procs, session_created(p) \/ session_not_created(p)
  PROVE  \A q \in Procs : Kept(q)
<1>1. /\ main[p] = "resetting" /\ reply[p][Main] \in {"ok", "failed"}
      /\ UNCHANGED <<channel, job, acked, next_line>>
      /\ \A u \in Threads : u # Main => reply'[p][u] = reply[p][u]
      /\ \A q \in Procs : q # p => reply'[q] = reply[q] /\ main'[q] = main[q] /\ sandbox'[q] = sandbox[q]
      /\ \/ main'[p] = "serve"
         \/ main'[p] = "dropping" /\ sandbox'[p] = sandbox[p]
  BY StartTypes DEF session_created, session_not_created, lineVars, replied, Goto
<1>2. OnlyThread(p, Main) /\ Main \in Threads
  BY <1>1, StartTypes DEF OnlyThread
<1>3. ChannelOK(p)'
  BY <1>1, <1>2, NoCommand, ChannelMoves
<1>4. SessionOK(p)'
  <2>1. main[p] \in Beginning /\ SessionOK(p)
    BY <1>1, StartTypes DEF Beginning, ProcOK
  <2>2. job[p] = NoJob /\ ~sandbox[p] /\ acked[p] = {}
    BY <2>1 DEF SessionOK
  <2>3. main'[p] \in Listening /\ (main'[p] \in Beginning => ~sandbox'[p])
    BY <1>1, <2>2 DEF Listening, Beginning
  <2>4. \A t \in Threads : ~At(p, t, "removing")'
    BY <1>1, <2>2, StartTypes DEF At, NoJob, Idle
  <2> QED BY <1>1, <2>2, <2>3, <2>4 DEF SessionOK, listening
<1>5. LinesOK(p)' /\ Unwritten(p)' \subseteq Unwritten(p)
  BY <1>1, <1>2, DestroyLines
<1>6. \A q \in Procs : q # p => Same(q)
  BY <1>1 DEF Same
<1> QED BY <1>3, <1>4, <1>5, <1>6, AllKept DEF Kept, ProcOK

\* A process without threads and writer.
LEMMA EndedKept ==
  ASSUME StartIndInv, NEW p \in Procs, channel'[p] = <<>>, job'[p] = NoJob, ~sandbox'[p], acked'[p] = {},
         main'[p] \in Over, next_line'[p] = next_line[p] \/ next_line'[p] = MaxLines + 1,
         \A q \in Procs : q # p => Same(q)
  PROVE  \A q \in Procs : Kept(q)
<1>1. ChannelOK(p)'
  BY DEF ChannelOK
<1>2. \A h \in Handlers : job'[p][h].pc = "idle"
  BY DEF NoJob, Idle
<1>3. SessionOK(p)'
  BY <1>2, StartTypes DEF SessionOK, At, Over
<1>4. LinesOK(p)'
  BY <1>2 DEF LinesOK, Pending
<1>5. Unwritten(p)' \subseteq Unwritten(p)
  <2>1. next_line'[p] >= next_line[p] /\ next_line[p] \in Nat /\ next_line'[p] \in Nat
    BY StartTypes
  <2> QED BY <1>2, <2>1, StartTypes DEF Unwritten, Pending
<1> QED BY <1>1, <1>3, <1>4, <1>5, AllKept DEF Kept, ProcOK

\* The session could not be created, the process ends by itself, or it is killed.
LEMMA EndsKept ==
  ASSUME StartIndInv, NEW p \in Procs, drop_session(p) \/ process_ends(p)
  PROVE  \A q \in Procs : Kept(q)
<1>1. CASE drop_session(p)
  <2>1. /\ main[p] = "dropping" /\ main'[p] = "failed" /\ channel'[p] = <<>>
        /\ UNCHANGED <<sandbox, job, acked, next_line>>
    BY <1>1, StartTypes DEF drop_session, Goto, writer_dies, lineVars
  <2>2. job[p] = NoJob /\ ~sandbox[p] /\ acked[p] = {}
    BY <2>1, StartTypes DEF ProcOK, SessionOK, Beginning
  <2>3. \A q \in Procs : q # p => Same(q)
    BY <1>1, StartTypes DEF drop_session, Goto, writer_dies, lineVars, Same
  <2> QED BY <2>1, <2>2, <2>3, EndedKept DEF Over
<1>2. CASE process_ends(p)
  <2>1. /\ main'[p] = "gone" /\ channel'[p] = <<>> /\ ~sandbox'[p] /\ job'[p] = NoJob
        /\ acked'[p] = {} /\ next_line'[p] = MaxLines + 1
    BY <1>2, StartTypes DEF process_ends, Goto, writer_dies
  <2>2. \A q \in Procs : q # p => Same(q)
    BY <1>2, StartTypes DEF process_ends, Goto, writer_dies, Same
  <2> QED BY <2>1, <2>2, EndedKept DEF Over
<1> QED BY <1>1, <1>2

\* One turn of the writer, as its commands and replies see it.
LEMMA WriterTurn ==
  ASSUME StartIndInv, NEW p \in Procs, writer_step(p)
  PROVE  /\ \A q \in Procs : Kept(q)
         /\ \E c \in Commands :
              /\ c = Head(channel[p]) /\ CommandOK(p, c) /\ reply'[p][c.by] \in {"ok", "failed"}
              /\ \A u \in Threads : u # c.by => reply'[p][u] = reply[p][u]
              /\ \A q \in Procs : q # p => reply'[q] = reply[q]
              /\ \/ log' = performed(p, c)
                 \/ log' = log /\ reply'[p][c.by] = "failed"
<1>1. PICK s \in Seq(Commands) : s = channel[p] /\ s # <<>>
  BY Channel DEF writer_step, run_log_writer
<1>2. /\ Head(s) \in Commands /\ Tail(s) \in Seq(Commands) /\ Len(Tail(s)) = Len(s) - 1
      /\ \A i \in 1..Len(Tail(s)) : Tail(s)[i] = s[i + 1]
      /\ Len(s) \in Nat /\ Len(s) # 0
  BY <1>1, HeadTailProperties, EmptySeq, LenProperties
<1>3. Head(s) = s[1]
  BY <1>1
<1>4. PICK c \in Commands : c = Head(s)
  BY <1>2
<1>5. DOMAIN s = 1..Len(s) /\ DOMAIN Tail(s) = 1..(Len(s) - 1)
  BY <1>2, LenProperties
<1>6. /\ channel'[p] = Tail(s) /\ reply'[p][c.by] \in {"ok", "failed"}
      /\ \A u \in Threads : u # c.by => reply'[p][u] = reply[p][u]
      /\ \A q \in Procs : q # p => channel'[q] = channel[q] /\ reply'[q] = reply[q]
      /\ \/ log' = performed(p, c)
         \/ log' = log /\ reply'[p][c.by] = "failed"
  <2>1. c.by \in Threads
    BY DEF Commands
  <2> QED BY <1>1, <1>4, <2>1, StartTypes DEF writer_step, run_log_writer
<1>7. UNCHANGED <<job, main, sandbox, acked, next_line>>
  BY DEF writer_step, serverVars, lineVars
<1>8. CommandOK(p, c) /\ \A i \in 1..(Len(s) - 1) : s[i + 1] \in Commands /\ CommandOK(p, s[i + 1]) /\ s[i + 1].by # c.by
  <2>1. 1 \in DOMAIN s /\ \A i \in 1..(Len(s) - 1) : i + 1 \in DOMAIN s /\ i + 1 # 1
    BY <1>2, <1>5
  <2> QED BY <1>1, <1>3, <1>4, <2>1, Channel
<1>9. OnlyThread(p, c.by) /\ c.by \in Threads
  BY <1>6, <1>7 DEF OnlyThread, Commands
<1>10. ChannelOK(p)'
  <2>1. ASSUME NEW i \in 1..(Len(s) - 1) PROVE CommandOK(p, s[i + 1])'
    BY <1>8, <1>9, CommandStays, StartTypes
  <2>2. ASSUME NEW i \in DOMAIN channel'[p] PROVE CommandOK(p, channel[p][i])'
    <3>1. i \in 1..(Len(s) - 1) /\ channel'[p][i] = s[i + 1]
      BY <1>2, <1>5, <1>6
    <3>2. CommandOK(p, s[i + 1])'
      BY <2>1, <3>1
    <3> QED BY <3>1, <3>2
  <2>3. \A i, k \in DOMAIN channel'[p] : channel'[p][i].by = channel'[p][k].by => i = k
    <3>1. \A i \in DOMAIN channel'[p] : i \in 1..(Len(s) - 1) /\ channel'[p][i] = s[i + 1] /\ i + 1 \in DOMAIN s
      BY <1>2, <1>5, <1>6
    <3> QED BY <1>1, <3>1, Channel
  <2> QED BY <2>2, <2>3 DEF ChannelOK
<1>11. SessionOK(p)'
  BY <1>1, <1>7, StartTypes DEF ProcOK, SessionOK, listening, At
<1>12. LinesOK(p)' /\ Unwritten(p)' \subseteq Unwritten(p)
  <2>1. CASE c.by = Main
    BY <1>7, <1>9, <2>1, DestroyLines
  <2>2. CASE c.by # Main
    <3>1. c.by \in Handlers /\ \A g \in Handlers : g # c.by => job'[p][g] = job[p][g] /\ reply'[p][g] = reply[p][g]
      BY <1>6, <1>7, <1>9, <2>2, StartTypes
    <3>2. Pending(p, c.by)' => Pending(p, c.by)
      BY <1>6, <1>7 DEF Pending
    <3>3. job'[p][c.by] \in Jobs /\ job'[p][c.by] = job[p][c.by]
      BY <1>7, <3>1, StartTypes
    <3> QED BY <1>7, <3>1, <3>2, <3>3, LinesMove
  <2> QED BY <2>1, <2>2
<1>13. \A q \in Procs : q # p => Same(q)
  BY <1>6, <1>7 DEF Same
<1>14. \A q \in Procs : Kept(q)
  BY <1>10, <1>11, <1>12, <1>13, AllKept DEF Kept, ProcOK
<1> QED BY <1>1, <1>4, <1>6, <1>8, <1>14
-----------------------------------------------------------------------------
(* All steps, seen from the processes. *)

\* The steps of taking the socket, of the accept loop and of giving the socket up.
LEMMA SocketStepKept ==
  ASSUME StartIndInv, NEW p \in Procs,
         start(p) \/ ping(p) \/ ping_ends(p) \/ socket_exists(p) \/ unlink(p) \/ bind(p)
         \/ leave_loop(p) \/ unlink_end(p)
  PROVE  \A q \in Procs : Kept(q)
<1>1. UNCHANGED <<channel, reply, job, sandbox, acked, next_line>>
  BY DEF start, ping, ping_ends, socket_exists, unlink, bind, leave_loop, unlink_end, logVars, lineVars
<1>2. PICK pc \in {"ping", "wait", "exists", "refused", "bind", "unlink", "new_session", "failed",
                   "destroy", "return"} :
         /\ main' = [main EXCEPT ![p] = pc]
         /\ pc \in {"destroy", "return"} <=> main[p] \in {"serve", "unlink_end"}
  BY DEF start, ping, ping_ends, socket_exists, unlink, bind, leave_loop, unlink_end, Goto
<1>3. main[p] \in {"new", "ping", "wait", "exists", "unlink", "bind", "serve", "unlink_end"}
  BY DEF start, ping, ping_ends, socket_exists, unlink, bind, leave_loop, unlink_end
<1> QED BY <1>1, <1>2, <1>3, MainKept DEF Listening, Beginning

\* A Shutdown request, before and after destroy.
LEMMA ShutdownKept ==
  ASSUME StartIndInv, NEW p \in Procs, NEW h \in Handlers, shutdown(p, h) \/ shutdown_answered(p, h)
  PROVE  \A q \in Procs : Kept(q)
<1>1. UNCHANGED <<channel, reply, main, sandbox, acked, next_line>>
  BY DEF shutdown, shutdown_answered, logVars, serverVars, lineVars
<1>2. PICK j \in Jobs : job' = [job EXCEPT ![p][h] = j] /\ j.pc \in {"idle", "destroy"}
  <2>1. [pc |-> "destroy", line |-> 0] \in Jobs /\ [pc |-> "idle", line |-> 0] \in Jobs
    BY StartTypes DEF Jobs
  <2> QED BY <2>1 DEF shutdown, shutdown_answered, Do
<1>3. /\ main[p] = "serve" \/ job[p][h].pc # "idle"
      /\ job[p][h].pc \in {"idle", "answer"}
  BY DEF shutdown, shutdown_answered, Accepts, Idle
<1> QED BY <1>1, <1>2, <1>3, HandlerKept

\* The sections of destroy.
LEMMA DestroyStepKept ==
  ASSUME StartIndInv, NEW p \in Procs, NEW t \in Threads, destroy(p, t) \/ detached(p, t)
  PROVE  \A q \in Procs : Kept(q)
<1>1. /\ UNCHANGED <<channel, reply, sandbox, acked, next_line>>
      /\ At(p, t, "destroy") \/ At(p, t, "detaching")
  BY DEF destroy, detached, logVars, lineVars
<1>2. \/ Advance(p, t, "detaching") \/ Advance(p, t, "remove_sandbox")
      \/ \E result : Returns(p, t, result)
  BY DEF destroy, detached
<1>3. PICK pc \in IF t = Main THEN MainGoes ELSE HandlerGoes : Advance(p, t, pc)
  BY <1>2, ReturnsIs DEF MainGoes, HandlerGoes
<1> QED BY <1>1, <1>3, DestroyKept

\* Every step.
LEMMA NextKept ==
  ASSUME StartIndInv, [StartNext]_startVars
  PROVE  \A q \in Procs : Kept(q)
<1>1. ASSUME \A q \in Procs : Same(q) PROVE \A q \in Procs : Kept(q)
  BY <1>1, OthersKept, StartTypes
<1>2. ASSUME NEW p \in Procs, main_step(p) PROVE \A q \in Procs : Kept(q)
  BY <1>2, SocketStepKept, MainRequestKept, SessionCreatedKept, EndsKept DEF main_step, exit
<1>3. ASSUME NEW p \in Procs, NEW t \in Threads, destroy_step(p, t) \/ detached(p, t)
      PROVE  \A q \in Procs : Kept(q)
  BY <1>3, DestroyStepKept, RemoveSandboxKept, LogRemovedKept DEF destroy_step
<1>4. ASSUME NEW p \in Procs, NEW h \in Handlers,
             shutdown(p, h) \/ append_locked(p, h) \/ take_log_path(p, h) \/ handler_step(p, h)
      PROVE  \A q \in Procs : Kept(q)
  BY <1>4, ShutdownKept, AppendLockedKept, TakePathKept, AppendUnlockedKept, AppendReturnsKept
     DEF handler_step
<1>5. ASSUME NEW p \in Procs, start(p) \/ kill(p) \/ writer_step(p) PROVE \A q \in Procs : Kept(q)
  BY <1>5, SocketStepKept, EndsKept, WriterTurn DEF kill
<1>6. ASSUME NEW p \in Procs, signal(p) PROVE \A q \in Procs : Kept(q)
  <2>1. \A q \in Procs : Same(q)
    BY <1>6 DEF signal, logVars, lineVars, Same
  <2> QED BY <1>1, <2>1
<1>7. CASE log_path \/ monitor_step \/ UNCHANGED startVars
  <2>1. \A q \in Procs : Same(q)
    BY <1>7 DEF log_path, monitor_step, print_tail, open_log, follow, startVars, logVars, serverVars, lineVars, Same
  <2> QED BY <1>1, <2>1
<1> QED BY <1>2, <1>3, <1>4, <1>5, <1>6, <1>7 DEF StartNext

-----------------------------------------------------------------------------
(* The file. *)

\* The operations of the writer, one by one.
LEMMA PerformedIs ==
  ASSUME NEW p \in Procs, NEW c \in Commands
  PROVE  /\ c.op = "reset" => performed(p, c) = reset_log_file
         /\ c.op = "append" => performed(p, c) = append_log_file(<<p, c.line>>)
         /\ c.op = "remove" => performed(p, c) = NoFile
         /\ c.op = "shutdown" => performed(p, c) = log
<1>1. c.op = "reset" => performed(p, c) = reset_log_file
  BY Zenon DEF performed
<1>2. c.op = "append" => performed(p, c) = append_log_file(<<p, c.line>>)
  <2>1. "append" # "reset"
    OBVIOUS
  <2> QED BY <2>1, Zenon DEF performed
<1>3. c.op = "remove" => performed(p, c) = NoFile
  BY Zenon DEF performed, remove_log_file
<1>4. c.op = "shutdown" => performed(p, c) = log
  BY Zenon DEF performed
<1> QED BY <1>1, <1>2, <1>3, <1>4
\* A file, its lines and its identity.
Files == [ino : Nat, lines : Seq(Lines)]

\* What a turn of the writer does to the file: nothing, or it removes it, empties it or
\* appends the line of the command, with a new identity if there was no file.
LEMMA WriterFile ==
  ASSUME StartIndInv, NEW p \in Procs, NEW c \in Commands, c = Head(channel[p]), CommandOK(p, c),
         writer_step(p), log' = performed(p, c)
  PROVE  \/ UNCHANGED <<log, files>> /\ c.op = "shutdown"
         \/ log' = NoFile /\ files' = files /\ c.op = "remove"
         \/ \E old \in Seq(Lines), new \in Seq(Lines), ino \in Nat :
              /\ log' = [ino |-> ino, lines |-> new] /\ log' \in Files /\ log' # NoFile
              /\ log = NoFile => old = <<>> /\ ino = files + 1 /\ files' = files + 1
              /\ log # NoFile => old = log.lines /\ ino = log.ino /\ files' = files
              /\ \/ c.op = "reset" /\ new = <<>>
                 \/ c.op = "append" /\ new = Append(old, <<p, c.line>>) /\ <<p, c.line>> \in Lines
<1>1. /\ files \in Nat /\ (log # NoFile => log \in Files /\ log.ino <= files)
      /\ NoFile \notin Files
  BY StartTypes, StartAssumption DEF StartTyped, Files
<1>2. c.op \in Ops /\ c.line \in 0..MaxLines /\ files' = IF log' # NoFile /\ log'.ino > files THEN log'.ino ELSE files
  BY DEF Commands, writer_step, run_log_writer
<1>3. CASE c.op = "shutdown"
  <2>1. log' = log
    BY <1>3, PerformedIs
  <2> QED BY <1>1, <1>2, <1>3, <2>1 DEF Files
<1>4. CASE c.op = "remove"
  BY <1>2, <1>4, PerformedIs
<1>5. PICK old \in Seq(Lines), ino \in Nat :
         /\ opened = [ino |-> ino, lines |-> old]
         /\ log = NoFile => old = <<>> /\ ino = files + 1
         /\ log # NoFile => old = log.lines /\ ino = log.ino
  <2>1. CASE log = NoFile
    <3>1. <<>> \in Seq(Lines) /\ files + 1 \in Nat
      BY <1>1, EmptySeq
    <3> QED BY <2>1, <3>1 DEF opened
  <2>2. CASE log # NoFile
    BY <1>1, <2>2 DEF opened, Files
  <2> QED BY <2>1, <2>2
<1>6. ASSUME NEW new \in Seq(Lines), log' = [ino |-> ino, lines |-> new]
      PROVE  /\ log' \in Files /\ log' # NoFile
             /\ log = NoFile => files' = files + 1
             /\ log # NoFile => files' = files
  <2>1. log' \in Files /\ log'.ino = ino
    BY <1>6 DEF Files
  <2>2. log' # NoFile
    BY <1>1, <2>1
  <2> QED BY <1>1, <1>2, <1>5, <2>1, <2>2
<1>7. CASE c.op = "reset"
  <2>1. log' = [ino |-> ino, lines |-> <<>>] /\ <<>> \in Seq(Lines)
    BY <1>5, <1>7, PerformedIs, EmptySeq DEF reset_log_file
  <2> QED BY <1>5, <1>6, <1>7, <2>1
<1>8. CASE c.op = "append"
  <2>1. c.by \in Handlers /\ job[p][c.by] = [pc |-> "appending", line |-> c.line]
    BY <1>8 DEF CommandOK
  <2>2. c.line \in 1..MaxLines
    <3>1. LinesOK(p) /\ job[p][c.by].pc = "appending" /\ job[p][c.by].line = c.line
      BY <2>1, StartTypes DEF ProcOK
    <3> QED BY <2>1, <3>1 DEF LinesOK
  <2>3. <<p, c.line>> \in Lines
    BY <2>2 DEF Lines
  <2>4. Append(old, <<p, c.line>>) \in Seq(Lines)
    BY <2>3, AppendProperties
  <2>5. log' = [ino |-> ino, lines |-> Append(old, <<p, c.line>>)]
    <3>1. log' = [opened EXCEPT !.lines = Append(opened.lines, <<p, c.line>>)]
      BY <1>8, PerformedIs, Zenon DEF append_log_file
    <3>2. PICK s : s = Append(old, <<p, c.line>>)
      OBVIOUS
    <3>3. opened.lines = old /\ Append(opened.lines, <<p, c.line>>) = s
      BY <1>5, <3>2
    <3>4. [opened EXCEPT !.lines = s] = [ino |-> ino, lines |-> s]
      BY <1>5
    <3> QED BY <3>1, <3>2, <3>3, <3>4
  <2> QED BY <1>5, <1>6, <1>8, <2>3, <2>4, <2>5
<1> QED BY <1>2, <1>3, <1>4, <1>7, <1>8 DEF Ops

\* Only the writer works on the file.
LEMMA LogUntouched ==
  ASSUME [StartNext]_startVars
  PROVE  UNCHANGED <<log, files>> \/ \E p \in Procs : writer_step(p)
<1>1. ASSUME NEW p \in Procs, start(p) \/ main_step(p) \/ signal(p) \/ kill(p) PROVE UNCHANGED <<log, files>>
  BY <1>1 DEF logVars, start, main_step, ping, ping_ends, socket_exists, unlink, bind, new_session,
     session_created, session_not_created, drop_session, leave_loop, unlink_end, drop_writer, exit,
     kill, process_ends, signal, request, replied, writer_dies
<1>2. ASSUME NEW p \in Procs, NEW t \in Threads, destroy_step(p, t) \/ detached(p, t)
      PROVE  UNCHANGED <<log, files>>
  BY <1>2 DEF logVars, destroy_step, destroy, detached, remove_sandbox, log_removed, request, replied
<1>3. ASSUME NEW p \in Procs, NEW h \in Handlers,
             shutdown(p, h) \/ append_locked(p, h) \/ take_log_path(p, h) \/ handler_step(p, h)
      PROVE  UNCHANGED <<log, files>>
  BY <1>3 DEF logVars, shutdown, append_locked, take_log_path, handler_step, append_unlocked,
     append_returns, shutdown_answered, request, replied
<1>4. CASE log_path \/ monitor_step \/ UNCHANGED startVars
  BY <1>4 DEF startVars, logVars, log_path, monitor_step, print_tail, open_log, follow
<1> QED BY <1>1, <1>2, <1>3, <1>4 DEF StartNext

\* Only the monitor's own steps change it.
LEMMA MonitorUntouched ==
  ASSUME [StartNext]_startVars
  PROVE  monitor' = monitor \/ (UNCHANGED <<log, files>> /\ (log_path \/ monitor_step))
BY DEF StartNext, startVars, logVars, start, main_step, ping, ping_ends, socket_exists, unlink, bind,
   new_session, session_created, session_not_created, drop_session, leave_loop, unlink_end,
   drop_writer, exit, kill, process_ends, signal, destroy_step, destroy, detached, remove_sandbox,
   log_removed, shutdown, append_locked, take_log_path, handler_step, append_unlocked,
   append_returns, shutdown_answered, log_path, monitor_step, print_tail, open_log, follow, writer_step

\* What is written stays so.
LEMMA DoneStays ==
  ASSUME NEW lines \in Seq(Lines), Done(lines), \A q \in Procs : Unwritten(q)' \subseteq Unwritten(q)
  PROVE  Done(lines)'
<1>1. \A n \in DOMAIN lines : lines[n][1] \in Procs
  <2>1. \A n \in DOMAIN lines : lines[n] \in Lines
    BY LenProperties, ElementOfSeq
  <2> QED BY <2>1 DEF Lines
<1>2. \A n \in DOMAIN lines : lines[n][2] \notin Unwritten(lines[n][1])'
  BY <1>1 DEF Done
<1> QED BY <1>2 DEF Done

\* A line that was not written yet is written behind others.
LEMMA DoneAppends ==
  ASSUME NEW lines \in Seq(Lines), Done(lines)', NEW line \in Lines, line[2] \notin Unwritten(line[1])',
         \A n \in DOMAIN lines : lines[n] # line
  PROVE  Done(Append(lines, line))'
<1>1. /\ DOMAIN lines = 1..Len(lines) /\ Len(lines) \in Nat
      /\ DOMAIN Append(lines, line) = 1..(Len(lines) + 1)
      /\ \A n \in 1..Len(lines) : Append(lines, line)[n] = lines[n]
      /\ Append(lines, line)[Len(lines) + 1] = line
  <2>1. Append(lines, line) \in Seq(Lines) /\ Len(Append(lines, line)) = Len(lines) + 1
    BY AppendProperties
  <2>2. DOMAIN Append(lines, line) = 1..(Len(lines) + 1)
    BY <2>1, LenProperties
  <2> QED BY <2>2, AppendProperties, LenProperties
<1>2. PICK new : new = Append(lines, line)
  OBVIOUS
<1>3. \A m, n \in DOMAIN new : new[m] = new[n] => m = n
  BY <1>1, <1>2 DEF Done
<1>4. \A n \in DOMAIN new : n \in DOMAIN lines \/ new[n] = line
  BY <1>1, <1>2
<1>5. \A n \in DOMAIN new : new[n][2] \notin Unwritten(new[n][1])'
  BY <1>1, <1>2, <1>4 DEF Done
<1>6. Done(new)'
  BY <1>3, <1>5 DEF Done
<1> QED BY <1>2, <1>6

\* The line of an append command was unwritten, and is not after the writer's turn.
LEMMA LineWritten ==
  ASSUME StartIndInv, NEW p \in Procs, NEW c \in Commands, CommandOK(p, c), c.op = "append",
         reply'[p][c.by] # "waiting", \A u \in Threads : u # c.by => reply'[p][u] = reply[p][u],
         UNCHANGED <<job, next_line>>
  PROVE  c.line \in Unwritten(p) /\ c.line \notin Unwritten(p)'
<1>1. c.by \in Handlers /\ job[p][c.by] = [pc |-> "appending", line |-> c.line] /\ reply[p][c.by] = "waiting"
  BY DEF CommandOK
<1>2. job[p][c.by].pc = "appending" /\ job[p][c.by].line = c.line /\ Pending(p, c.by) /\ ~Pending(p, c.by)'
  BY <1>1 DEF Pending
<1>3. c.line \in 1..MaxLines /\ c.line < next_line[p] /\ next_line[p] \in Nat /\ LinesOK(p)
  <2>1. LinesOK(p) /\ next_line[p] \in Nat
    BY StartTypes DEF ProcOK
  <2>2. job[p][c.by].line \in 1..MaxLines /\ job[p][c.by].line < next_line[p]
    BY <1>1, <1>2, <2>1 DEF LinesOK
  <2> QED BY <1>2, <2>1, <2>2
<1>4. c.line \in Unwritten(p)
  BY <1>1, <1>2, <1>3 DEF Unwritten
<1>5. \A g \in Handlers : Pending(p, g)' => Pending(p, g) /\ job'[p][g].line # c.line
  <2>1. \A g \in Handlers : g # c.by => Pending(p, g)' = Pending(p, g)
    BY StartTypes DEF Pending
  <2> QED BY <1>1, <1>2, <1>3, <2>1 DEF LinesOK
<1>6. c.line \notin Unwritten(p)'
  BY <1>3, <1>5, StartTypes DEF Unwritten
<1> QED BY <1>4, <1>6
-----------------------------------------------------------------------------
(* What is written and what the follower prints. *)

\* The end of a file.
LEMMA DonePart ==
  ASSUME NEW lines \in Seq(Lines), Done(lines), NEW m \in Nat, m # 0
  PROVE  /\ SubSeq(lines, m, Len(lines)) \in Seq(Lines) /\ Done(SubSeq(lines, m, Len(lines)))
         /\ \A i \in DOMAIN SubSeq(lines, m, Len(lines)) :
              \E n \in DOMAIN lines : n >= m /\ SubSeq(lines, m, Len(lines))[i] = lines[n]
<1>1. DOMAIN lines = 1..Len(lines) /\ Len(lines) \in Nat /\ \A n \in 1..Len(lines) : lines[n] \in Lines
  BY LenProperties, ElementOfSeq
<1>2. PICK s : s = SubSeq(lines, m, Len(lines))
  OBVIOUS
<1>3. /\ s \in Seq(Lines) /\ Len(s) = IF m <= Len(lines) THEN Len(lines) - m + 1 ELSE 0
      /\ \A i \in 1..(Len(lines) - m + 1) : s[i] = lines[m + i - 1]
  <2>1. m \in Int /\ Len(lines) \in Int /\ \A i \in m..Len(lines) : lines[i] \in Lines
    BY <1>1
  <2> QED BY <1>2, <2>1, SubSeqProperties
<1>4. DOMAIN s = 1..Len(s)
  BY <1>3, LenProperties
<1>5. \A i \in DOMAIN s : m + i - 1 \in DOMAIN lines /\ m + i - 1 >= m /\ s[i] = lines[m + i - 1] /\ i \in Int
  BY <1>1, <1>3, <1>4
<1>6. \A i, k \in DOMAIN s : s[i] = s[k] => i = k
  <2> SUFFICES ASSUME NEW i \in DOMAIN s, NEW k \in DOMAIN s, s[i] = s[k] PROVE i = k
    OBVIOUS
  <2>1. m + i - 1 = m + k - 1
    BY <1>5 DEF Done
  <2> QED BY <1>5, <2>1
<1>7. \A i \in DOMAIN s : s[i][2] \notin Unwritten(s[i][1])
  BY <1>5 DEF Done
<1> QED BY <1>2, <1>3, <1>5, <1>6, <1>7 DEF Done

\* Other lines behind them.
LEMMA DoneConcat ==
  ASSUME NEW s \in Seq(Lines), NEW r \in Seq(Lines), Done(s), Done(r),
         \A i \in DOMAIN s, k \in DOMAIN r : s[i] # r[k]
  PROVE  s \o r \in Seq(Lines) /\ Done(s \o r)
<1>1. /\ DOMAIN s = 1..Len(s) /\ Len(s) \in Nat /\ DOMAIN r = 1..Len(r) /\ Len(r) \in Nat
  BY LenProperties
<1>2. PICK l : l = s \o r
  OBVIOUS
<1>3. /\ l \in Seq(Lines) /\ Len(l) = Len(s) + Len(r)
      /\ \A i \in 1..(Len(s) + Len(r)) : l[i] = IF i <= Len(s) THEN s[i] ELSE r[i - Len(s)]
  BY <1>2, ConcatProperties
<1>4. DOMAIN l = 1..(Len(s) + Len(r))
  BY <1>3, LenProperties
<1>5. \A i \in DOMAIN l : \/ i \in DOMAIN s /\ l[i] = s[i]
                          \/ i - Len(s) \in DOMAIN r /\ l[i] = r[i - Len(s)]
  BY <1>1, <1>3, <1>4
<1>6. \A i, k \in DOMAIN l : l[i] = l[k] => i = k
  <2> SUFFICES ASSUME NEW i \in DOMAIN l, NEW k \in DOMAIN l, l[i] = l[k] PROVE i = k
    OBVIOUS
  <2>1. CASE i \in DOMAIN s /\ l[i] = s[i]
    BY <1>5, <2>1 DEF Done
  <2>2. CASE i - Len(s) \in DOMAIN r /\ l[i] = r[i - Len(s)]
    <3>1. k - Len(s) \in DOMAIN r /\ l[k] = r[k - Len(s)]
      BY <1>5, <2>2
    <3>2. i - Len(s) = k - Len(s)
      BY <2>2, <3>1 DEF Done
    <3> QED BY <1>1, <1>4, <3>2
  <2> QED BY <1>5, <2>1, <2>2
<1>7. \A i \in DOMAIN l : l[i][2] \notin Unwritten(l[i][1])
  BY <1>5 DEF Done
<1> QED BY <1>2, <1>3, <1>6, <1>7 DEF Done

\* The types of the file and of the monitor.
FileTyped ==
    /\ log # NoFile => log \in Files /\ log.ino \in 1..files
    /\ files \in Nat
    /\ monitor \in [pc : {"idle", "read", "open", "follow", "ended"}, ino : Nat, pos : Nat,
                    shown : Seq(Lines)]
    /\ monitor.ino <= files

\* What a turn of the writer leaves: everything that is written is written once.
LEMMA WriterWritten ==
  ASSUME StartIndInv, NEW p \in Procs, writer_step(p)
  PROVE  FileTyped' /\ WrittenOnce'
<1>1. FileTyped /\ WrittenOnce /\ monitor' = monitor
  BY DEF StartIndInv, StartTyped, FileTyped, Files, writer_step
<1>2. \A q \in Procs : Unwritten(q)' \subseteq Unwritten(q)
  BY WriterTurn DEF Kept
<1>3. PICK c \in Commands :
         /\ c = Head(channel[p]) /\ CommandOK(p, c) /\ reply'[p][c.by] \in {"ok", "failed"}
         /\ \A u \in Threads : u # c.by => reply'[p][u] = reply[p][u]
         /\ \/ log' = performed(p, c)
            \/ log' = log /\ reply'[p][c.by] = "failed"
  BY WriterTurn
<1>4. PICK shown \in Seq(Lines) : shown = monitor.shown
  BY <1>1 DEF FileTyped
<1>5. Done(shown) /\ Done(shown)'
  BY <1>1, <1>2, <1>4, DoneStays DEF WrittenOnce
<1>6. Done(monitor.shown)'
  BY <1>1, <1>4, <1>5
<1>7. CASE log' = log
  <2>1. files' = files
    BY <1>1, <1>7 DEF FileTyped, writer_step, run_log_writer
  <2>2. log # NoFile => Done(log.lines)'
    <3>1. ASSUME log # NoFile PROVE Done(log.lines)'
      <4>1. PICK lines \in Seq(Lines) : lines = log.lines
        BY <1>1, <3>1 DEF FileTyped, Files
      <4>2. Done(lines)'
        BY <1>1, <1>2, <3>1, <4>1, DoneStays DEF WrittenOnce
      <4> QED BY <1>7, <4>1, <4>2
    <3> QED BY <3>1
  <2> QED BY <1>1, <1>6, <1>7, <2>1, <2>2 DEF FileTyped, WrittenOnce
<1>8. CASE log' = performed(p, c) /\ log' # log
  <2>1. \/ log' = NoFile /\ files' = files
        \/ \E old \in Seq(Lines), new \in Seq(Lines), ino \in Nat :
             /\ log' = [ino |-> ino, lines |-> new] /\ log' \in Files /\ log' # NoFile
             /\ log = NoFile => old = <<>> /\ ino = files + 1 /\ files' = files + 1
             /\ log # NoFile => old = log.lines /\ ino = log.ino /\ files' = files
             /\ \/ c.op = "reset" /\ new = <<>>
                \/ c.op = "append" /\ new = Append(old, <<p, c.line>>) /\ <<p, c.line>> \in Lines
    BY <1>3, <1>8, WriterFile
  <2>2. CASE log' = NoFile /\ files' = files
    BY <1>1, <1>6, <2>2 DEF FileTyped, WrittenOnce
  <2>3. ASSUME NEW old \in Seq(Lines), NEW new \in Seq(Lines), NEW ino \in Nat,
               log' = [ino |-> ino, lines |-> new], log' \in Files, log' # NoFile,
               log = NoFile => old = <<>> /\ ino = files + 1 /\ files' = files + 1,
               log # NoFile => old = log.lines /\ ino = log.ino /\ files' = files,
               \/ c.op = "reset" /\ new = <<>>
               \/ c.op = "append" /\ new = Append(old, <<p, c.line>>) /\ <<p, c.line>> \in Lines
        PROVE  FileTyped' /\ WrittenOnce'
    <3>1. log'.ino = ino /\ log'.lines = new
      BY <2>3
    <3>2. FileTyped'
      BY <1>1, <2>3, <3>1 DEF FileTyped
    <3>3. Done(old)
      <4>1. Done(<<>>)
        BY DEF Done
      <4> QED BY <1>1, <2>3, <4>1 DEF WrittenOnce
    <3>4. CASE c.op = "reset"
      <4>1. new = <<>> /\ DOMAIN new = {}
        BY <2>3, <3>4, EmptySeq
      <4>2. Done(new)'
        BY <4>1 DEF Done
      <4> QED BY <1>1, <1>6, <3>1, <3>2, <4>1, <4>2 DEF WrittenOnce
    <3>5. CASE c.op = "append"
      <4>1. PICK line \in Lines : line = <<p, c.line>> /\ line[1] = p /\ line[2] = c.line
        BY <2>3, <3>5
      <4>2. c.line \in Unwritten(p) /\ c.line \notin Unwritten(p)'
        BY <1>3, <3>5, LineWritten DEF writer_step, lineVars
      <4>3. (\A n \in DOMAIN old : old[n] # line) /\ \A n \in DOMAIN shown : shown[n] # line
        BY <1>5, <3>3, <4>1, <4>2 DEF Done
      <4>4. Done(new)'
        <5>1. Done(old)'
          BY <1>2, <3>3, DoneStays
        <5> QED BY <2>3, <3>5, <4>1, <4>2, <4>3, <5>1, DoneAppends
      <4>5. \A n \in DOMAIN new : new[n] = line \/ (n \in DOMAIN old /\ new[n] = old[n])
        <5>1. new = Append(old, line) /\ Len(new) = Len(old) + 1
          BY <2>3, <3>5, <4>1, AppendProperties
        <5>2. DOMAIN new = 1..(Len(old) + 1) /\ DOMAIN old = 1..Len(old) /\ Len(old) \in Nat
          BY <5>1, LenProperties
        <5>3. (\A n \in 1..Len(old) : new[n] = old[n]) /\ new[Len(old) + 1] = line
          BY <5>1, AppendProperties
        <5> QED BY <5>2, <5>3
      <4>6. ASSUME monitor.pc = "follow", ino = monitor.ino, NEW m \in DOMAIN shown, NEW n \in DOMAIN new,
                   n > monitor.pos
            PROVE  shown[m] # new[n]
        <5>1. log # NoFile /\ log.ino = monitor.ino /\ old = log.lines
          BY <1>1, <2>3, <4>6 DEF FileTyped
        <5> QED BY <1>1, <1>4, <4>3, <4>5, <4>6, <5>1 DEF WrittenOnce
      <4> QED BY <1>1, <1>4, <1>6, <3>1, <3>2, <4>4, <4>6 DEF WrittenOnce
    <3> QED BY <2>3, <3>4, <3>5
  <2> QED BY <2>1, <2>2, <2>3
<1> QED BY <1>3, <1>7, <1>8

\* The monitor prints what it has not printed.
LEMMA MonitorWritten ==
  ASSUME StartIndInv, [StartNext]_startVars, UNCHANGED <<log, files>>
  PROVE  FileTyped' /\ WrittenOnce'
<1>1. FileTyped /\ WrittenOnce /\ TailLines \in Nat
  BY StartAssumption DEF StartIndInv, StartTyped, FileTyped, Files
<1>2. \A q \in Procs : Unwritten(q)' \subseteq Unwritten(q)
  BY NextKept DEF Kept
<1>3. PICK shown \in Seq(Lines) : shown = monitor.shown /\ Done(shown) /\ Done(shown)'
  <2>1. PICK shown \in Seq(Lines) : shown = monitor.shown
    BY <1>1 DEF FileTyped
  <2> QED BY <1>1, <1>2, <2>1, DoneStays DEF WrittenOnce
<1>4. log # NoFile => /\ log.lines \in Seq(Lines) /\ Done(log.lines) /\ Len(log.lines) \in Nat
                      /\ DOMAIN log.lines = 1..Len(log.lines) /\ log.ino \in Nat /\ log.ino <= files
  BY <1>1, LenProperties DEF FileTyped, Files, WrittenOnce
<1>5. log # NoFile => Done(log.lines)'
  <2>1. ASSUME log # NoFile PROVE Done(log.lines)'
    <3>1. PICK lines \in Seq(Lines) : lines = log.lines
      BY <1>4, <2>1
    <3>2. Done(lines)'
      BY <1>2, <1>4, <2>1, <3>1, DoneStays
    <3> QED BY <3>1, <3>2
  <2> QED BY <2>1
<1>6. CASE monitor' = monitor
  <2>1. Done(monitor.shown)'
    BY <1>3, <1>6
  <2> QED BY <1>1, <1>5, <1>6, <2>1 DEF FileTyped, WrittenOnce
<1>7. CASE log_path \/ open_log
  <2>1. monitor'.shown = shown /\ FileTyped'
    BY <1>1, <1>3, <1>4, <1>7 DEF log_path, open_log, FileTyped
  <2>2. Done(monitor.shown)'
    BY <1>3, <2>1
  <2>3. monitor'.pc = "follow" => monitor'.pos = Len(log.lines) /\ log # NoFile
    BY <1>1, <1>7 DEF log_path, open_log, FileTyped
  <2> QED BY <1>4, <1>5, <2>1, <2>2, <2>3 DEF WrittenOnce
<1>8. CASE print_tail
  <2>1. PICK new \in Seq(Lines) : monitor' = [monitor EXCEPT !.pc = "open", !.shown = new] /\ Done(new)
    <3>1. CASE log = NoFile
      <4>1. <<>> \in Seq(Lines) /\ Done(<<>>)
        BY EmptySeq DEF Done
      <4> QED BY <1>8, <3>1, <4>1 DEF print_tail
    <3>2. CASE log # NoFile
      <4>1. PICK m \in Nat : m = 1 + IF Len(log.lines) > TailLines THEN Len(log.lines) - TailLines ELSE 0
        <5>1. PICK k \in Nat : k = Len(log.lines)
          BY <1>4, <3>2
        <5>2. (1 + IF k > TailLines THEN k - TailLines ELSE 0) \in Nat
          BY <1>1
        <5> QED BY <5>1, <5>2
      <4>2. m # 0 /\ tail_lines(log.lines) = SubSeq(log.lines, m, Len(log.lines))
        BY <1>1, <1>4, <3>2, <4>1 DEF tail_lines
      <4>3. tail_lines(log.lines) \in Seq(Lines) /\ Done(tail_lines(log.lines))
        BY <1>4, <3>2, <4>2, DonePart
      <4> QED BY <1>8, <3>2, <4>3 DEF print_tail
    <3> QED BY <3>1, <3>2
  <2>2. monitor'.shown = new /\ monitor'.pc = "open" /\ FileTyped'
    BY <1>1, <2>1 DEF FileTyped
  <2>3. Done(new)'
    BY <1>2, <2>1, DoneStays
  <2>4. Done(monitor.shown)'
    BY <2>2, <2>3
  <2> QED BY <1>5, <2>2, <2>4 DEF WrittenOnce
<1>9. CASE follow
  <2>1. /\ monitor.pc = "follow" /\ log # NoFile /\ log.ino = monitor.ino /\ monitor.pos \in Nat
        /\ monitor' = [monitor EXCEPT !.pos = Len(log.lines),
                         !.shown = shown \o SubSeq(log.lines, monitor.pos + 1, Len(log.lines))]
    BY <1>1, <1>3, <1>9 DEF follow, FileTyped
  <2>2. PICK new \in Seq(Lines) :
           /\ new = SubSeq(log.lines, monitor.pos + 1, Len(log.lines)) /\ Done(new)
           /\ \A i \in DOMAIN new : \E n \in DOMAIN log.lines : n >= monitor.pos + 1 /\ new[i] = log.lines[n]
    <3>1. monitor.pos + 1 \in Nat /\ monitor.pos + 1 # 0
      BY <2>1
    <3> QED BY <1>4, <2>1, <3>1, DonePart
  <2>3. \A i \in DOMAIN shown, k \in DOMAIN new : shown[i] # new[k]
    <3>1. \A i \in DOMAIN shown, n \in DOMAIN log.lines : n > monitor.pos => shown[i] # log.lines[n]
      BY <1>1, <1>3, <2>1 DEF WrittenOnce
    <3>2. \A n \in DOMAIN log.lines : n >= monitor.pos + 1 => n > monitor.pos
      BY <1>4, <2>1
    <3> QED BY <2>2, <3>1, <3>2
  <2>4. PICK all \in Seq(Lines) : all = shown \o new /\ Done(all)
    BY <1>3, <2>2, <2>3, DoneConcat
  <2>5. monitor'.shown = all /\ monitor'.pos = Len(log.lines) /\ FileTyped'
    <3>1. monitor' = [monitor EXCEPT !.pos = Len(log.lines), !.shown = all]
      BY <2>1, <2>2, <2>4
    <3> QED BY <1>1, <1>4, <2>1, <3>1 DEF FileTyped
  <2>6. Done(all)'
    BY <1>2, <2>4, DoneStays
  <2>7. Done(monitor.shown)'
    BY <2>5, <2>6
  <2> QED BY <1>4, <1>5, <2>1, <2>5, <2>7 DEF WrittenOnce
<1> QED BY <1>6, <1>7, <1>8, <1>9, MonitorUntouched DEF monitor_step
-----------------------------------------------------------------------------
(* The socket, while starts do not overlap. *)

\* A process that is not preparing moves, gives up the socket or ends.
LEMMA SocketMoves ==
  ASSUME StartIndInv, SocketOK, NEW p \in Procs, NEW pc, main' = [main EXCEPT ![p] = pc],
         pc \notin Preparing,
         pc \in Listening => listening(p) /\ (pc \notin {"return", "joining"} => active(p)),
         \/ socket' = socket
         \/ socket' = None /\ active(p) /\ pc \notin Listening \ {"return", "joining"},
         \A q \in Procs : q # p => peer'[q] = peer[q]
  PROVE  SocketOK'
<1>1. main'[p] = pc /\ \A q \in Procs : q # p => main'[q] = main[q]
  BY StartTypes
<1>2. /\ \A q \in Procs : listening(q)' => listening(q)
      /\ \A q \in Procs : active(q)' => active(q)
      /\ \A q \in Procs : main'[q] \in Preparing => q # p /\ main'[q] = main[q] /\ peer'[q] = peer[q]
  BY <1>1 DEF listening, active
<1>3. SessionReachable'
  <2> SUFFICES ASSUME NEW q \in Procs, active(q)' PROVE socket' = q
    BY DEF SessionReachable, active, listening
  <2>1. active(q) /\ socket = q
    BY <1>2 DEF SocketOK, SessionReachable, active
  <2>2. socket' = None => FALSE
    <3>1. ASSUME socket' = None, socket' # socket PROVE FALSE
      <4>1. active(p) /\ pc \notin Listening \ {"return", "joining"}
        BY <3>1
      <4>2. socket = p /\ q = p
        BY <2>1, <4>1 DEF SocketOK, SessionReachable, active
      <4> QED BY <1>1, <4>1, <4>2 DEF active, listening
    <3> QED BY <2>1, <3>1, StartAssumption
  <2> QED BY <2>1, <2>2
<1>4. /\ \A q, r \in Procs : main'[q] \in Preparing /\ main'[r] \in Preparing => q = r
      /\ \A q, r \in Procs : listening(q)' /\ listening(r)' => q = r
  BY <1>2 DEF SocketOK
<1>5. /\ \A q, r \in Procs : main'[q] = "wait" /\ active(r)' => r = peer'[q]
      /\ \A q, r \in Procs : main'[q] \in {"exists", "unlink", "bind"} => ~active(r)'
      /\ \A q \in Procs : main'[q] = "wait" => peer'[q] \in Procs
  BY <1>2 DEF SocketOK, Preparing
<1> QED BY <1>3, <1>4, <1>5 DEF SocketOK

\* A process prepares: it is the only one, and it looks for an active session before it
\* takes the socket.
LEMMA PreparingOK ==
  ASSUME StartIndInv, SocketOK, ~Overlap, NEW p \in Procs,
         start(p) \/ ping(p) \/ ping_ends(p) \/ socket_exists(p) \/ unlink(p) \/ bind(p)
  PROVE  SocketOK'
<1>0. SessionReachable /\ main \in [Procs -> {"new"} \cup Preparing \cup Listening \cup Over]
      /\ peer \in [Procs -> Procs \cup {None}]
  BY StartTypes DEF SocketOK, StartTyped
<1>1. main[p] \in {"new"} \cup Preparing /\ ~listening(p) /\ ~active(p)
  BY DEF start, ping, ping_ends, socket_exists, unlink, bind, Preparing, listening, active, Listening
<1>2. \A q \in Procs : q # p => main[q] \notin Preparing
  <2>1. CASE start(p)
    BY <2>1 DEF start
  <2>2. CASE ~start(p)
    <3>1. main[p] \in Preparing
      BY <2>2 DEF ping, ping_ends, socket_exists, unlink, bind, Preparing
    <3> QED BY <3>1 DEF SocketOK
  <2> QED BY <2>1, <2>2
<1>3. ASSUME NEW pc \in {"ping", "wait", "exists", "unlink", "bind", "refused", "failed"},
             main' = [main EXCEPT ![p] = pc],
             \A q \in Procs : q # p => peer'[q] = peer[q],
             pc = "wait" => peer'[p] \in Procs /\ \A q \in Procs : active(q) => q = peer'[p],
             pc \in {"exists", "unlink", "bind"} => \A q \in Procs : ~active(q),
             socket' = socket \/ \A q \in Procs : ~active(q)
      PROVE  SocketOK'
  <2>1. /\ main'[p] = pc /\ pc \notin Listening
        /\ \A q \in Procs : q # p => main'[q] = main[q] /\ main'[q] \notin Preparing
    BY <1>0, <1>2, <1>3 DEF Listening
  <2>2. /\ \A q \in Procs : listening(q)' => listening(q)
        /\ \A q \in Procs : active(q)' => active(q)
    BY <2>1 DEF listening, active
  <2>3. \A q \in Procs : main'[q] \in {"wait", "exists", "unlink", "bind"} => q = p
    BY <2>1 DEF Preparing
  <2>4. SessionReachable'
    <3> SUFFICES ASSUME NEW q \in Procs, active(q)' PROVE socket' = q
      BY DEF SessionReachable, active, listening
    <3> QED BY <1>0, <1>3, <2>2 DEF SessionReachable, active
  <2>5. /\ \A q, r \in Procs : main'[q] \in Preparing /\ main'[r] \in Preparing => q = r
        /\ \A q, r \in Procs : listening(q)' /\ listening(r)' => q = r
    BY <2>1, <2>2 DEF SocketOK
  <2>6. /\ \A q, r \in Procs : main'[q] = "wait" /\ active(r)' => r = peer'[q]
        /\ \A q, r \in Procs : main'[q] \in {"exists", "unlink", "bind"} => ~active(r)'
        /\ \A q \in Procs : main'[q] = "wait" => peer'[q] \in Procs
    BY <1>3, <2>1, <2>2, <2>3
  <2> QED BY <2>4, <2>5, <2>6 DEF SocketOK
<1>4. CASE start(p)
  BY <1>3, <1>4 DEF start, Goto
<1>5. CASE ping(p)
  <2>1. CASE socket # None /\ listening(socket)
    <3>1. /\ main' = [main EXCEPT ![p] = "wait"] /\ peer' = [peer EXCEPT ![p] = socket] /\ socket' = socket
          /\ socket \in Procs
      BY <1>5, <2>1, StartTypes DEF ping, Goto, StartTyped
    <3>2. peer'[p] = socket /\ \A q \in Procs : q # p => peer'[q] = peer[q]
      BY <1>0, <3>1
    <3>3. \A q \in Procs : active(q) => q = socket
      BY <1>0 DEF SessionReachable, active
    <3> QED BY <1>3, <3>1, <3>2, <3>3
  <2>2. CASE ~(socket # None /\ listening(socket))
    <3>1. main' = [main EXCEPT ![p] = "exists"] /\ peer' = peer /\ socket' = socket
      BY <1>5, <2>2 DEF ping, Goto
    <3>2. \A q \in Procs : ~active(q)
      BY <1>0, <2>2, StartAssumption DEF SessionReachable, active
    <3> QED BY <1>3, <3>1, <3>2
  <2> QED BY <2>1, <2>2
<1>6. CASE ping_ends(p)
  <2>1. main[p] = "wait" /\ socket' = socket /\ \A q \in Procs : q # p => peer'[q] = peer[q]
    BY <1>0, <1>6 DEF ping_ends
  <2>2. CASE main' = [main EXCEPT ![p] = "refused"]
    BY <1>3, <2>1, <2>2
  <2>3. CASE main' = [main EXCEPT ![p] = "exists"] /\ ~listening(peer[p])
    <3>1. \A q \in Procs : ~active(q)
      BY <2>1, <2>3 DEF SocketOK, active
    <3> QED BY <1>3, <2>1, <2>3, <3>1
  <2> QED BY <1>6, <2>2, <2>3 DEF ping_ends, Goto
<1>7. CASE socket_exists(p) \/ unlink(p)
  <2>1. \A q \in Procs : ~active(q)
    BY <1>7 DEF SocketOK, socket_exists, unlink
  <2>2. PICK pc \in {"bind", "unlink"} : main' = [main EXCEPT ![p] = pc] /\ peer' = peer
    BY <1>7 DEF socket_exists, unlink, Goto
  <2> QED BY <1>3, <2>1, <2>2
<1>8. CASE bind(p)
  <2>1. main[p] = "bind" /\ \A q \in Procs : ~active(q)
    BY <1>8 DEF bind, SocketOK
  <2>2. \A q \in Procs : ~listening(q)
    BY <1>8, <2>1 DEF bind, active
  <2>3. CASE socket # None
    BY <1>3, <1>8, <2>1, <2>3 DEF bind, Goto
  <2>4. CASE socket = None
    <3>1. socket' = p /\ main' = [main EXCEPT ![p] = "new_session"] /\ peer' = peer
      BY <1>8, <2>4 DEF bind, Goto
    <3>2. main'[p] = "new_session" /\ \A q \in Procs : q # p => main'[q] = main[q]
      BY <1>0, <3>1
    <3>3. \A q \in Procs : (listening(q)' => q = p) /\ (active(q)' => q = p)
      BY <2>2, <3>2 DEF listening, active
    <3>4. \A q \in Procs : main'[q] \notin Preparing
      BY <1>2, <3>2 DEF Preparing
    <3>5. SessionReachable'
      BY <3>1, <3>3 DEF SessionReachable, active, listening
    <3> QED BY <3>3, <3>4, <3>5 DEF SocketOK, Preparing
  <2> QED BY <2>3, <2>4
<1> QED BY <1>4, <1>5, <1>6, <1>7, <1>8

\* Every step.
LEMMA NextSocket ==
  ASSUME StartIndInv, [StartNext]_startVars, ~Overlap
  PROVE  SocketOK'
<1>0. SocketOK /\ peer \in [Procs -> Procs \cup {None}]
  BY StartTypes DEF StartIndInv, StartTyped
<1>1. CASE UNCHANGED <<main, socket, peer>>
  BY <1>0, <1>1 DEF SocketOK, SessionReachable, active, listening
<1>2. ASSUME NEW p \in Procs,
             new_session(p) \/ session_created(p) \/ session_not_created(p) \/ leave_loop(p) \/ drop_writer(p)
      PROVE  SocketOK'
  <2>1. PICK pc \in {"resetting", "serve", "dropping", "destroy", "joining"} :
           main' = [main EXCEPT ![p] = pc] /\ UNCHANGED <<socket, peer>> /\ (pc # "joining" => main[p] # "return")
    BY <1>2 DEF new_session, session_created, session_not_created, leave_loop, drop_writer, Goto
  <2>2. main[p] \in {"new_session", "resetting", "serve", "return"}
    BY <1>2 DEF new_session, session_created, session_not_created, leave_loop, drop_writer
  <2> QED BY <1>0, <2>1, <2>2, SocketMoves DEF Preparing, Listening, listening, active
<1>3. ASSUME NEW p \in Procs, drop_session(p) \/ unlink_end(p) PROVE SocketOK'
  <2>1. PICK pc \in {"failed", "return"} :
           main' = [main EXCEPT ![p] = pc] /\ socket' = None /\ peer' = peer
    BY <1>3 DEF drop_session, unlink_end, Goto
  <2>2. main[p] \in {"dropping", "unlink_end"}
    BY <1>3 DEF drop_session, unlink_end
  <2> QED BY <1>0, <2>1, <2>2, SocketMoves DEF Preparing, Listening, listening, active
<1>4. ASSUME NEW p \in Procs, process_ends(p) PROVE SocketOK'
  <2>1. main' = [main EXCEPT ![p] = "gone"] /\ socket' = socket /\ \A q \in Procs : q # p => peer'[q] = peer[q]
    BY <1>0, <1>4 DEF process_ends, Goto
  <2> QED BY <1>0, <2>1, SocketMoves DEF Preparing, Listening
<1>5. ASSUME NEW p \in Procs, NEW t \in Threads, destroy_step(p, t) \/ detached(p, t) PROVE SocketOK'
  <2>1. UNCHANGED <<socket, peer>> /\ \E pc : Advance(p, t, pc) /\ (t = Main => pc \in MainGoes \cup {"removing"})
    <3>1. CASE destroy(p, t) \/ detached(p, t)
      <4>1. \/ Advance(p, t, "detaching") \/ Advance(p, t, "remove_sandbox")
            \/ \E result : Returns(p, t, result)
        BY <3>1 DEF destroy, detached
      <4> QED BY <3>1, <4>1, ReturnsIs DEF destroy, detached, MainGoes
    <3>2. CASE remove_sandbox(p, t) \/ log_removed(p, t)
      <4>1. Advance(p, t, "removing") \/ \E result : Returns(p, t, result)
        BY <3>2 DEF remove_sandbox, log_removed
      <4> QED BY <3>2, <4>1, ReturnsIs DEF remove_sandbox, log_removed, MainGoes
    <3> QED BY <1>5, <3>1, <3>2 DEF destroy_step
  <2>2. CASE t # Main
    BY <1>1, <2>1, <2>2 DEF Advance
  <2>3. CASE t = Main
    <3>1. PICK pc \in MainGoes \cup {"removing"} : main' = [main EXCEPT ![p] = pc]
      BY <2>1, <2>3 DEF Advance, Goto
    <3>2. main[p] \in {"destroy", "detaching", "remove_sandbox", "removing"}
      BY <1>5, <2>3 DEF destroy_step, destroy, detached, remove_sandbox, log_removed, At
    <3> QED BY <1>0, <2>1, <3>1, <3>2, SocketMoves DEF MainGoes, Preparing, Listening, listening, active
  <2> QED BY <2>2, <2>3
<1>6. ASSUME NEW p \in Procs, NEW h \in Handlers,
             shutdown(p, h) \/ append_locked(p, h) \/ take_log_path(p, h) \/ handler_step(p, h)
      PROVE  SocketOK'
  BY <1>1, <1>6 DEF shutdown, append_locked, take_log_path, handler_step, append_unlocked,
     append_returns, shutdown_answered, serverVars
<1>7. CASE log_path \/ monitor_step \/ UNCHANGED startVars \/ \E p \in Procs : signal(p) \/ writer_step(p)
  BY <1>1, <1>7 DEF log_path, monitor_step, print_tail, open_log, follow, startVars, serverVars, signal,
     writer_step
<1>8. ASSUME NEW p \in Procs, main_step(p) \/ start(p) PROVE SocketOK'
  BY <1>0, <1>2, <1>3, <1>4, <1>8, PreparingOK DEF main_step, exit
<1> QED BY <1>4, <1>5, <1>6, <1>7, <1>8 DEF StartNext, kill
-----------------------------------------------------------------------------
(* What was answered is in the log, while starts do not overlap. *)

\* A step that gives nobody a new answer, or takes the sandbox.
NoNews(q) ==
    sandbox'[q] =>
        /\ sandbox[q]
        /\ \A line \in acked'[q] :
              \/ line \in acked[q]
              \/ \E h \in Handlers : /\ job[q][h].pc = "appending" /\ reply[q][h] = "ok"
                                     /\ line = <<q, job[q][h].line>>
        /\ \A h \in Handlers : job'[q][h].pc = "appending" /\ reply'[q][h] = "ok" =>
              job[q][h].pc = "appending" /\ reply[q][h] = "ok" /\ job'[q][h].line = job[q][h].line

\* Then what was answered is in the log as before.
LEMMA LoggedStays ==
  ASSUME NEW q \in Procs, Logged(q), NoNews(q), log' = log
  PROVE  Logged(q)'
<1>1. \A line : InLog(line) => InLog(line)'
  BY DEF InLog
<1> QED BY <1>1 DEF Logged, NoNews

\* A step of another process gives no news.
LEMMA SameNoNews ==
  ASSUME NEW q \in Procs, Same(q)
  PROVE  NoNews(q)
BY DEF Same, NoNews

\* The steps of a process that do not change what its handlers are told.
LEMMA QuietNoNews ==
  ASSUME NEW q \in Procs, acked'[q] = acked[q], sandbox'[q] => sandbox[q],
         \A h \in Handlers : \/ job'[q][h] = job[q][h] /\ reply'[q][h] = reply[q][h]
                             \/ job'[q][h].pc # "appending" \/ reply'[q][h] # "ok"
  PROVE  NoNews(q)
BY DEF NoNews

\* One handler moves.
LEMMA OneJob ==
  ASSUME StartIndInv, NEW p \in Procs, NEW h \in Handlers, NEW j, job' = [job EXCEPT ![p][h] = j]
  PROVE  \A q \in Procs : \A g \in Handlers :
            job'[q][g] = job[q][g] \/ (q = p /\ g = h /\ job'[q][g] = j)
<1>1. /\ \A q \in Procs : q # p => job'[q] = job[q]
      /\ job'[p] = [job[p] EXCEPT ![h] = j] /\ job[p] \in [Handlers -> Jobs]
  BY StartTypes
<1>2. \A g \in Handlers : job'[p][g] = job[p][g] \/ (g = h /\ job'[p][g] = j)
  BY <1>1
<1> QED BY <1>1, <1>2

\* One thread sends a request or takes its reply.
LEMMA OneReply ==
  ASSUME StartIndInv, NEW p \in Procs, NEW t \in Threads, NEW r, reply' = [reply EXCEPT ![p][t] = r]
  PROVE  \A q \in Procs : \A u \in Threads :
            reply'[q][u] = reply[q][u] \/ (q = p /\ u = t /\ reply'[q][u] = r)
<1>1. /\ \A q \in Procs : q # p => reply'[q] = reply[q]
      /\ reply'[p] = [reply[p] EXCEPT ![t] = r]
      /\ reply[p] \in [Threads -> {"none", "waiting", "ok", "failed"}]
  BY StartTypes
<1>2. \A u \in Threads : reply'[p][u] = reply[p][u] \/ (u = t /\ reply'[p][u] = r)
  BY <1>1
<1> QED BY <1>1, <1>2

\* Every step but that of the writer and the one that creates the session.
LEMMA NextNoNews ==
  ASSUME StartIndInv, [StartNext]_startVars,
         \A p \in Procs : ~writer_step(p) /\ ~session_created(p)
  PROVE  \A q \in Procs : NoNews(q)
<1>0. Threads = Handlers \cup {Main} /\ Main \notin Handlers
  BY StartTypes
<1>1. CASE UNCHANGED <<sandbox, acked, job, reply>>
  BY <1>1, QuietNoNews
<1>2. ASSUME NEW p \in Procs, new_session(p) \/ session_not_created(p) \/ drop_writer(p)
      PROVE  \A q \in Procs : NoNews(q)
  <2>1. /\ UNCHANGED <<sandbox, acked, job>>
        /\ \A q \in Procs : \A h \in Handlers : reply'[q][h] = reply[q][h]
    <3>1. UNCHANGED <<sandbox, acked, job>> /\ \E r : reply' = [reply EXCEPT ![p][Main] = r]
      BY <1>2 DEF new_session, session_not_created, drop_writer, request, replied, lineVars
    <3> QED BY <1>0, <3>1, OneReply
  <2> QED BY <2>1, QuietNoNews
<1>3. ASSUME NEW p \in Procs, drop_session(p) \/ process_ends(p) PROVE \A q \in Procs : NoNews(q)
  <2>1. CASE process_ends(p)
    <3>1. ~sandbox'[p] /\ \A q \in Procs : q # p => Same(q)
      BY <2>1, StartTypes DEF process_ends, Goto, writer_dies, Same
    <3> QED BY <3>1, SameNoNews DEF NoNews
  <2>2. CASE drop_session(p)
    <3>1. UNCHANGED <<sandbox, acked, job>> /\ reply' = [reply EXCEPT ![p] = Quiet]
      BY <2>2 DEF drop_session, writer_dies, lineVars
    <3>2. \A q \in Procs : \A h \in Handlers : reply'[q][h] = reply[q][h] \/ reply'[q][h] = "none"
      BY <1>0, <3>1, StartTypes DEF Quiet
    <3> QED BY <3>1, <3>2, QuietNoNews
  <2> QED BY <1>3, <2>1, <2>2
<1>4. ASSUME NEW p \in Procs, NEW t \in Threads, destroy_step(p, t) \/ detached(p, t)
      PROVE  \A q \in Procs : NoNews(q)
  <2>1. /\ acked' = acked /\ \A q \in Procs : sandbox'[q] => sandbox[q]
        /\ \A q \in Procs : \A h \in Handlers : reply'[q][h] = reply[q][h] \/ reply'[q][h] \in {"waiting", "none"}
    <3>1. /\ acked' = acked /\ (sandbox' = sandbox \/ sandbox' = [sandbox EXCEPT ![p] = FALSE])
          /\ reply' = reply \/ \E r \in {"waiting", "none"} : reply' = [reply EXCEPT ![p][t] = r]
      BY <1>4 DEF destroy_step, destroy, detached, remove_sandbox, log_removed, request, replied, logVars,
         lineVars
    <3>2. \A q \in Procs : sandbox'[q] => sandbox[q]
      BY <3>1, StartTypes
    <3>3. \A q \in Procs : \A h \in Handlers : reply'[q][h] = reply[q][h] \/ reply'[q][h] \in {"waiting", "none"}
      BY <1>0, <3>1, OneReply
    <3> QED BY <3>1, <3>2, <3>3
  <2>2. PICK pc : Advance(p, t, pc) /\ pc # "appending"
    <3>1. CASE destroy(p, t) \/ detached(p, t)
      <4>1. \/ Advance(p, t, "detaching") \/ Advance(p, t, "remove_sandbox")
            \/ \E result : Returns(p, t, result)
        BY <3>1 DEF destroy, detached
      <4> QED BY <4>1, ReturnsIs
    <3>2. CASE remove_sandbox(p, t) \/ log_removed(p, t)
      <4>1. Advance(p, t, "removing") \/ \E result : Returns(p, t, result)
        BY <3>2 DEF remove_sandbox, log_removed
      <4> QED BY <4>1, ReturnsIs
    <3> QED BY <1>4, <3>1, <3>2 DEF destroy_step
  <2>3. \A q \in Procs : \A h \in Handlers : job'[q][h] = job[q][h] \/ job'[q][h].pc # "appending"
    <3>1. job' = job \/ (t \in Handlers /\ job' = [job EXCEPT ![p][t] = [pc |-> pc, line |-> 0]])
      BY <1>0, <2>2, AdvanceIs
    <3> QED BY <2>2, <3>1, OneJob
  <2> QED BY <2>1, <2>3, QuietNoNews
<1>5. ASSUME NEW p \in Procs, NEW h \in Handlers,
             shutdown(p, h) \/ take_log_path(p, h) \/ shutdown_answered(p, h)
      PROVE  \A q \in Procs : NoNews(q)
  <2>1. UNCHANGED <<sandbox, acked, reply>>
    BY <1>5 DEF shutdown, take_log_path, shutdown_answered, logVars, serverVars, lineVars
  <2>2. \A q \in Procs : \A g \in Handlers : job'[q][g] = job[q][g] \/ job'[q][g].pc # "appending"
    <3>1. \E pc \in {"destroy", "append", "idle"} : \E line : job' = [job EXCEPT ![p][h] = [pc |-> pc, line |-> line]]
      BY <1>5 DEF shutdown, take_log_path, shutdown_answered, Do
    <3> QED BY <3>1, OneJob
  <2> QED BY <2>1, <2>2, QuietNoNews
<1>6. ASSUME NEW p \in Procs, NEW h \in Handlers, append_locked(p, h) \/ append_unlocked(p, h)
      PROVE  \A q \in Procs : NoNews(q)
  <2>1. UNCHANGED <<sandbox, acked>>
    BY <1>6 DEF append_locked, append_unlocked, serverVars, lineVars
  <2>2. \A q \in Procs : \A g \in Handlers :
           (job'[q][g] = job[q][g] /\ reply'[q][g] = reply[q][g]) \/ reply'[q][g] = "waiting"
    <3>1. reply' = [reply EXCEPT ![p][h] = "waiting"] /\ \E j : job' = [job EXCEPT ![p][h] = j]
      BY <1>6 DEF append_locked, append_unlocked, Do, request
    <3>2. reply'[p][h] = "waiting" /\ h \in Threads
      BY <1>0, <3>1, StartTypes
    <3> QED BY <1>0, <3>1, <3>2, OneJob, OneReply
  <2> QED BY <2>1, <2>2, QuietNoNews
<1>7. ASSUME NEW p \in Procs, NEW h \in Handlers, append_returns(p, h) PROVE \A q \in Procs : NoNews(q)
  <2>1. /\ job[p][h].pc = "appending" /\ sandbox' = sandbox
        /\ \/ reply[p][h] = "ok" /\ acked'[p] = acked[p] \cup {<<p, job[p][h].line>>}
           \/ acked'[p] = acked[p]
        /\ \A q \in Procs : q # p => job'[q] = job[q] /\ reply'[q] = reply[q] /\ acked'[q] = acked[q]
    BY <1>7, StartTypes DEF append_returns, replied, Do
  <2>2. /\ job'[p][h].pc = "idle"
        /\ \A g \in Handlers : g # h => job'[p][g] = job[p][g] /\ reply'[p][g] = reply[p][g]
    BY <1>7, StartTypes DEF append_returns, replied, Do
  <2>3. NoNews(p)
    BY <2>1, <2>2 DEF NoNews
  <2> QED BY <2>1, <2>3, QuietNoNews
<1>8. ASSUME NEW p \in Procs, start(p) \/ ping(p) \/ ping_ends(p) \/ socket_exists(p) \/ unlink(p) \/ bind(p)
                              \/ leave_loop(p) \/ unlink_end(p) \/ signal(p)
      PROVE  \A q \in Procs : NoNews(q)
  BY <1>1, <1>8 DEF start, ping, ping_ends, socket_exists, unlink, bind, leave_loop, unlink_end, signal,
     logVars, lineVars
<1>9. CASE log_path \/ monitor_step \/ UNCHANGED startVars
  BY <1>1, <1>9 DEF log_path, monitor_step, print_tail, open_log, follow, startVars, logVars, serverVars, lineVars
<1>10. ASSUME NEW p \in Procs, main_step(p) \/ kill(p) PROVE \A q \in Procs : NoNews(q)
  BY <1>2, <1>3, <1>8, <1>10 DEF main_step, exit, kill
<1>11. ASSUME NEW p \in Procs, NEW h \in Handlers, handler_step(p, h) PROVE \A q \in Procs : NoNews(q)
  BY <1>5, <1>6, <1>7, <1>11 DEF handler_step
<1> QED BY <1>4, <1>5, <1>6, <1>8, <1>9, <1>10, <1>11 DEF StartNext

\* The writer does not take from the log what the sandbox was told is in it.
LEMMA WriterLogged ==
  ASSUME StartIndInv, ~Overlap, NEW p \in Procs, writer_step(p), NEW q \in Procs
  PROVE  Logged(q)'
<1>0. Logged(q) /\ SocketOK /\ SessionOK(p) /\ SessionOK(q)
  BY StartTypes DEF StartIndInv, ProcOK
<1>1. UNCHANGED <<sandbox, acked, job>>
  BY DEF writer_step, serverVars, lineVars
<1> SUFFICES ASSUME sandbox[q] PROVE Logged(q)'
  BY <1>1 DEF Logged
<1>2. q = p
  <2>1. listening(q)
    BY <1>0 DEF SessionOK
  <2>2. listening(p)
    BY <1>0 DEF SessionOK, writer_step, run_log_writer
  <2> QED BY <1>0, <2>1, <2>2 DEF SocketOK
<1>3. PICK c \in Commands :
         /\ c = Head(channel[p]) /\ CommandOK(p, c) /\ reply'[p][c.by] \in {"ok", "failed"}
         /\ \A u \in Threads : u # c.by => reply'[p][u] = reply[p][u]
         /\ \/ log' = performed(p, c)
            \/ log' = log /\ reply'[p][c.by] = "failed"
  BY WriterTurn
<1>4. c.op \in {"append", "shutdown"} /\ c.by \in Threads
  <2>1. main[p] # "resetting"
    BY <1>0, <1>2 DEF SessionOK, Beginning
  <2>2. ~At(p, c.by, "removing") /\ c.op \in Ops /\ c.by \in Threads
    BY <1>0, <1>2 DEF SessionOK, Commands
  <2> QED BY <1>3, <2>1, <2>2 DEF CommandOK, Ops
<1>5. \A h \in Handlers : h # c.by => reply'[p][h] = reply[p][h]
  BY <1>3, StartTypes
<1>6. CASE reply'[p][c.by] = "failed" /\ log' = log
  <2>1. NoNews(p)
    BY <1>1, <1>5, <1>6 DEF NoNews
  <2> QED BY <1>0, <1>2, <1>6, <2>1, LoggedStays
<1>7. CASE log' = performed(p, c) /\ c.op = "shutdown"
  <2>1. log' = log /\ c.by \notin Handlers
    BY <1>3, <1>7, PerformedIs, StartTypes DEF CommandOK
  <2>2. NoNews(p)
    BY <1>1, <1>5, <2>1 DEF NoNews
  <2> QED BY <1>0, <1>2, <2>1, <2>2, LoggedStays
<1>8. CASE log' = performed(p, c) /\ c.op = "append"
  <2>1. PICK old \in Seq(Lines), new \in Seq(Lines), ino \in Nat :
             /\ log' = [ino |-> ino, lines |-> new] /\ log' # NoFile
             /\ log # NoFile => old = log.lines
             /\ new = Append(old, <<p, c.line>>) /\ <<p, c.line>> \in Lines
    <3>1. \E old \in Seq(Lines), new \in Seq(Lines), ino \in Nat :
             /\ log' = [ino |-> ino, lines |-> new] /\ log' \in Files /\ log' # NoFile
             /\ log = NoFile => old = <<>> /\ ino = files + 1 /\ files' = files + 1
             /\ log # NoFile => old = log.lines /\ ino = log.ino /\ files' = files
             /\ \/ c.op = "reset" /\ new = <<>>
                \/ c.op = "append" /\ new = Append(old, <<p, c.line>>) /\ <<p, c.line>> \in Lines
      BY <1>3, <1>8, WriterFile
    <3> QED BY <1>8, <3>1
  <2>2. /\ DOMAIN new = 1..(Len(old) + 1) /\ DOMAIN old = 1..Len(old) /\ Len(old) \in Nat
        /\ (\A n \in 1..Len(old) : new[n] = old[n]) /\ new[Len(old) + 1] = <<p, c.line>>
    <3>1. Len(new) = Len(old) + 1
      BY <2>1, AppendProperties
    <3>2. DOMAIN new = 1..(Len(old) + 1) /\ DOMAIN old = 1..Len(old) /\ Len(old) \in Nat
      BY <3>1, LenProperties
    <3> QED BY <2>1, <3>2, AppendProperties
  <2>3. log'.lines = new
    BY <2>1
  <2>4. \A line : InLog(line) => InLog(line)'
    <3>1. \A n \in DOMAIN old : n \in DOMAIN new /\ new[n] = old[n]
      BY <2>2
    <3> QED BY <2>1, <2>3, <3>1 DEF InLog
  <2>5. InLog(<<p, c.line>>)'
    <3>1. Len(old) + 1 \in DOMAIN new
      BY <2>2
    <3> QED BY <2>1, <2>2, <2>3, <3>1 DEF InLog
  <2>6. c.by \in Handlers /\ job[p][c.by].line = c.line
    BY <1>3, <1>8 DEF CommandOK
  <2>7. \A h \in Handlers : job'[p][h].pc = "appending" /\ reply'[p][h] = "ok" => InLog(<<p, job[p][h].line>>)'
    BY <1>0, <1>1, <1>2, <1>5, <2>4, <2>5, <2>6 DEF Logged
  <2> QED BY <1>0, <1>1, <1>2, <2>4, <2>7 DEF Logged
<1> QED BY <1>3, <1>4, <1>6, <1>7, <1>8

\* Every step.
LEMMA NextLogged ==
  ASSUME StartIndInv, [StartNext]_startVars, ~Overlap
  PROVE  \A q \in Procs : Logged(q)'
<1>1. CASE \E p \in Procs : writer_step(p)
  BY <1>1, WriterLogged
<1>2. ASSUME NEW p \in Procs, session_created(p) PROVE \A q \in Procs : Logged(q)'
  <2>1. /\ main[p] = "resetting" /\ UNCHANGED <<log, job, acked>>
        /\ \A q \in Procs : q # p => sandbox'[q] = sandbox[q] /\ reply'[q] = reply[q]
    BY <1>2, StartTypes DEF session_created, replied, lineVars
  <2>2. job[p] = NoJob /\ acked[p] = {}
    BY <2>1, StartTypes DEF ProcOK, SessionOK, Beginning
  <2>3. Logged(p)'
    BY <2>1, <2>2 DEF Logged, NoJob, Idle
  <2>4. ASSUME NEW q \in Procs, q # p PROVE Logged(q)'
    BY <2>1, <2>4, QuietNoNews, LoggedStays DEF StartIndInv
  <2> QED BY <2>3, <2>4
<1>3. CASE \A p \in Procs : ~writer_step(p) /\ ~session_created(p)
  BY <1>3, NextNoNews, LogUntouched, LoggedStays DEF StartIndInv
<1> QED BY <1>1, <1>2, <1>3
-----------------------------------------------------------------------------
(* The other types. *)

\* The channels and the requests.
LEMMA ChannelTyped ==
  ASSUME StartIndInv, [StartNext]_startVars
  PROVE  /\ channel' \in [Procs -> Seq(Commands)]
         /\ reply' \in [Procs -> [Threads -> {"none", "waiting", "ok", "failed"}]]
<1> DEFINE Good == /\ channel \in [Procs -> Seq(Commands)]
                   /\ reply \in [Procs -> [Threads -> {"none", "waiting", "ok", "failed"}]]
<1>0. Good /\ Threads = Handlers \cup {Main} /\ MaxLines \in Nat
  BY StartTypes
<1>1. CASE UNCHANGED <<channel, reply>>
  BY <1>0, <1>1
<1>2. ASSUME NEW p \in Procs, NEW t \in Threads, NEW op \in Ops, NEW line \in 0..MaxLines,
             request(p, t, op, line)
      PROVE  Good'
  <2>1. PICK c \in Commands : c = [by |-> t, op |-> op, line |-> line]
    BY DEF Commands
  <2>2. Append(channel[p], c) \in Seq(Commands)
    BY <1>0, AppendProperties
  <2>3. channel' = [channel EXCEPT ![p] = Append(channel[p], c)]
    BY <1>2, <2>1 DEF request
  <2>4. reply' = [reply EXCEPT ![p][t] = "waiting"]
    BY <1>2 DEF request
  <2> QED BY <1>0, <2>2, <2>3, <2>4
<1>3. ASSUME NEW p \in Procs, NEW t \in Threads, NEW r, replied(p, t, r) PROVE Good'
  BY <1>0, <1>3 DEF replied
<1>4. ASSUME NEW p \in Procs, writer_dies(p) PROVE Good'
  BY <1>0, <1>4, EmptySeq DEF writer_dies, Quiet
<1>5. ASSUME NEW p \in Procs, writer_step(p) PROVE Good'
  <2>1. /\ channel[p] # <<>> /\ channel' = [channel EXCEPT ![p] = Tail(channel[p])]
        /\ \E r \in {"ok", "failed"} : reply' = [reply EXCEPT ![p][Head(channel[p]).by] = r]
    BY <1>5 DEF writer_step, run_log_writer
  <2>2. Tail(channel[p]) \in Seq(Commands) /\ Head(channel[p]) \in Commands
    BY <1>0, <2>1, HeadTailProperties
  <2>3. Head(channel[p]).by \in Threads
    BY <2>2 DEF Commands
  <2>4. channel' \in [Procs -> Seq(Commands)]
    BY <1>0, <2>1, <2>2
  <2>5. PICK t \in Threads, r \in {"ok", "failed"} : reply' = [reply EXCEPT ![p][t] = r]
    BY <2>1, <2>3
  <2>6. reply' \in [Procs -> [Threads -> {"none", "waiting", "ok", "failed"}]]
    BY <1>0, <2>5
  <2> QED BY <2>4, <2>6
<1>6. ASSUME NEW p \in Procs, NEW h \in Handlers, append_locked(p, h) PROVE Good'
  <2>1. request(p, h, "append", next_line[p]) /\ next_line[p] \in 0..MaxLines
    BY <1>6, StartTypes DEF append_locked
  <2> QED BY <1>0, <1>2, <2>1 DEF Ops
<1>7. ASSUME NEW p \in Procs, NEW h \in Handlers, append_unlocked(p, h) PROVE Good'
  <2>1. request(p, h, "append", job[p][h].line) /\ job[p][h].line \in 0..MaxLines
    BY <1>7, StartTypes DEF append_unlocked, Jobs
  <2> QED BY <1>0, <1>2, <2>1 DEF Ops
<1>8. ASSUME NEW p \in Procs, NEW t \in Threads, destroy_step(p, t) \/ detached(p, t) PROVE Good'
  <2>1. request(p, t, "remove", 0) \/ (\E r : replied(p, t, r)) \/ UNCHANGED <<channel, reply>>
    BY <1>8 DEF destroy_step, destroy, detached, remove_sandbox, log_removed, logVars
  <2>2. "remove" \in Ops /\ 0 \in 0..MaxLines
    BY <1>0 DEF Ops
  <2>3. CASE request(p, t, "remove", 0)
    BY <1>2, <2>2, <2>3
  <2> QED BY <1>1, <1>3, <2>1, <2>3
<1>9. ASSUME NEW p \in Procs, main_step(p) \/ start(p) \/ kill(p) \/ signal(p) PROVE Good'
  <2>1. \/ \E op \in Ops : request(p, Main, op, 0)
        \/ \E r : replied(p, Main, r)
        \/ writer_dies(p)
        \/ UNCHANGED <<channel, reply>>
    BY <1>9 DEF main_step, ping, ping_ends, socket_exists, unlink, bind, new_session, session_created,
       session_not_created, drop_session, leave_loop, unlink_end, drop_writer, exit, kill, process_ends,
       signal, start, logVars, Ops
  <2>2. Main \in Threads /\ 0 \in 0..MaxLines
    BY <1>0
  <2>3. ASSUME NEW op \in Ops, request(p, Main, op, 0) PROVE Good'
    BY <1>2, <2>2, <2>3
  <2>4. ASSUME NEW r, replied(p, Main, r) PROVE Good'
    BY <1>3, <2>2, <2>4
  <2> QED BY <1>1, <1>4, <2>1, <2>3, <2>4
<1>10. ASSUME NEW p \in Procs, NEW h \in Handlers,
              shutdown(p, h) \/ take_log_path(p, h) \/ append_returns(p, h) \/ shutdown_answered(p, h)
       PROVE  Good'
  <2>1. (\E r : replied(p, h, r)) \/ UNCHANGED <<channel, reply>>
    BY <1>10 DEF shutdown, take_log_path, append_returns, shutdown_answered, logVars
  <2> QED BY <1>0, <1>1, <1>3, <2>1
<1>11. CASE log_path \/ monitor_step \/ UNCHANGED startVars
  BY <1>1, <1>11 DEF log_path, monitor_step, print_tail, open_log, follow, startVars, logVars
<1> QED BY <1>5, <1>6, <1>7, <1>8, <1>9, <1>10, <1>11 DEF StartNext, handler_step

\* The state of the processes.
ServerTyped ==
    /\ socket \in Procs \cup {None}
    /\ main \in [Procs -> {"new"} \cup Preparing \cup Listening \cup Over]
    /\ peer \in [Procs -> Procs \cup {None}]
    /\ stop \in [Procs -> BOOLEAN] /\ sandbox \in [Procs -> BOOLEAN]
    /\ lock \in [Procs -> Threads \cup {None}]
    /\ job \in [Procs -> [Handlers -> Jobs]]
    /\ next_line \in [Procs -> 1..(MaxLines + 1)]
    /\ acked \in [Procs -> SUBSET Lines]
    /\ kills \in Nat

\* Every step keeps it.
LEMMA NextServer ==
  ASSUME StartIndInv, [StartNext]_startVars
  PROVE  ServerTyped'
<1>0. ServerTyped /\ Threads = Handlers \cup {Main} /\ MaxLines \in Nat
  BY StartTypes DEF StartTyped, ServerTyped
<1>1. ASSUME NEW p \in Procs,
             start(p) \/ ping(p) \/ ping_ends(p) \/ socket_exists(p) \/ unlink(p) \/ bind(p)
             \/ new_session(p) \/ session_not_created(p) \/ drop_session(p)
             \/ leave_loop(p) \/ unlink_end(p) \/ drop_writer(p)
      PROVE  ServerTyped'
  <2>1. /\ UNCHANGED <<stop, sandbox, lock, kills, job, acked, next_line>>
        /\ socket' \in {socket, p, None}
    BY <1>1 DEF start, ping, ping_ends, socket_exists, unlink, bind, new_session, session_not_created,
       drop_session, leave_loop, unlink_end, drop_writer, lineVars
  <2>2. \E pc \in Preparing \cup Listening \cup Over : main' = [main EXCEPT ![p] = pc]
    BY <1>1 DEF start, ping, ping_ends, socket_exists, unlink, bind, new_session, session_not_created,
       drop_session, leave_loop, unlink_end, drop_writer, Goto, Preparing, Listening, Over
  <2>3. peer' = peer \/ peer' = [peer EXCEPT ![p] = socket] \/ peer' = [peer EXCEPT ![p] = None]
    BY <1>1 DEF start, ping, ping_ends, socket_exists, unlink, bind, new_session, session_not_created,
       drop_session, leave_loop, unlink_end, drop_writer
  <2> QED BY <1>0, <2>1, <2>2, <2>3 DEF ServerTyped
<1>2. ASSUME NEW p \in Procs, session_created(p) \/ signal(p) PROVE ServerTyped'
  BY <1>0, <1>2 DEF ServerTyped, session_created, signal, Goto, Listening, lineVars
<1>3. ASSUME NEW p \in Procs, process_ends(p), kills' \in Nat PROVE ServerTyped'
  <2>1. NoJob \in [Handlers -> Jobs]
    BY <1>0 DEF NoJob, Idle, Jobs
  <2> QED BY <1>0, <1>3, <2>1 DEF ServerTyped, process_ends, Goto, Over
<1>4. ASSUME NEW p \in Procs, NEW t \in Threads, destroy_step(p, t) \/ detached(p, t) PROVE ServerTyped'
  <2>1. /\ UNCHANGED <<socket, peer, stop, kills, acked, next_line>>
        /\ sandbox' = sandbox \/ sandbox' = [sandbox EXCEPT ![p] = FALSE]
        /\ lock' = lock \/ lock' = [lock EXCEPT ![p] = t] \/ lock' = [lock EXCEPT ![p] = None]
    BY <1>4 DEF destroy_step, destroy, detached, remove_sandbox, log_removed, lineVars
  <2>2. PICK pc \in MainGoes \cup HandlerGoes \cup {"removing"} :
           Advance(p, t, pc) /\ pc \in IF t = Main THEN MainGoes \cup {"removing"} ELSE HandlerGoes \cup {"removing"}
    <3>1. CASE destroy(p, t) \/ detached(p, t)
      <4>1. \/ Advance(p, t, "detaching") \/ Advance(p, t, "remove_sandbox")
            \/ \E result : Returns(p, t, result)
        BY <3>1 DEF destroy, detached
      <4> QED BY <4>1, ReturnsIs DEF MainGoes, HandlerGoes
    <3>2. CASE remove_sandbox(p, t) \/ log_removed(p, t)
      <4>1. Advance(p, t, "removing") \/ \E result : Returns(p, t, result)
        BY <3>2 DEF remove_sandbox, log_removed
      <4> QED BY <4>1, ReturnsIs DEF MainGoes, HandlerGoes
    <3> QED BY <1>4, <3>1, <3>2 DEF destroy_step
  <2>3. CASE t = Main
    <3>1. main' = [main EXCEPT ![p] = pc] /\ job' = job /\ pc \in Listening
      BY <1>0, <2>2, <2>3, AdvanceIs DEF MainGoes, Listening
    <3> QED BY <1>0, <2>1, <3>1 DEF ServerTyped
  <2>4. CASE t # Main
    <3>1. t \in Handlers /\ main' = main /\ job' = [job EXCEPT ![p][t] = [pc |-> pc, line |-> 0]]
      BY <1>0, <2>2, <2>4, AdvanceIs
    <3>2. [pc |-> pc, line |-> 0] \in Jobs
      BY <1>0, <2>2, <2>4 DEF Jobs, HandlerGoes
    <3> QED BY <1>0, <2>1, <3>1, <3>2 DEF ServerTyped
  <2> QED BY <2>3, <2>4
<1>5. ASSUME NEW p \in Procs, NEW h \in Handlers,
             shutdown(p, h) \/ append_locked(p, h) \/ take_log_path(p, h) \/ handler_step(p, h)
      PROVE  ServerTyped'
  <2>1. UNCHANGED <<socket, main, peer, sandbox, kills>>
    BY <1>5 DEF shutdown, append_locked, take_log_path, handler_step, append_unlocked, append_returns,
       shutdown_answered, serverVars
  <2>2. /\ stop' = stop \/ stop' = [stop EXCEPT ![p] = TRUE]
        /\ lock' = lock \/ \E t \in Threads \cup {None} : lock' = [lock EXCEPT ![p] = t]
    <3>1. CASE append_returns(p, h)
      <4>1. lock' = [lock EXCEPT ![p] = IF lock[p] = h THEN None ELSE lock[p]] /\ stop' = stop
        BY <3>1 DEF append_returns
      <4>2. lock[p] \in Threads \cup {None}
        BY <1>0 DEF ServerTyped
      <4> QED BY <4>1, <4>2
    <3>2. CASE ~append_returns(p, h)
      BY <1>0, <1>5, <3>2 DEF shutdown, append_locked, take_log_path, handler_step, append_unlocked,
         shutdown_answered, serverVars
    <3> QED BY <3>1, <3>2
  <2>3. PICK j \in Jobs : job' = [job EXCEPT ![p][h] = j]
    <3>1. \A line \in 0..MaxLines : [pc |-> "appending", line |-> line] \in Jobs /\ [pc |-> "append", line |-> line] \in Jobs
      BY DEF Jobs
    <3>2. [pc |-> "idle", line |-> 0] \in Jobs /\ [pc |-> "destroy", line |-> 0] \in Jobs
      BY <1>0 DEF Jobs
    <3>3. next_line[p] <= MaxLines => next_line[p] \in 0..MaxLines
      BY StartTypes
    <3>4. job[p][h].line \in 0..MaxLines
      BY StartTypes DEF Jobs
    <3> QED BY <1>5, <3>1, <3>2, <3>3, <3>4 DEF shutdown, append_locked, take_log_path, handler_step, append_unlocked,
           append_returns, shutdown_answered, Do
  <2>4. next_line' = next_line \/ (next_line[p] <= MaxLines /\ next_line' = [next_line EXCEPT ![p] = next_line[p] + 1])
    BY <1>5 DEF shutdown, append_locked, take_log_path, handler_step, append_unlocked, append_returns,
       shutdown_answered, lineVars
  <2>5. acked' = acked \/ \E line \in Lines : acked' = [acked EXCEPT ![p] = acked[p] \cup {line}]
    <3>1. CASE append_returns(p, h)
      <4>1. job[p][h].pc = "appending" /\ LinesOK(p)
        BY <3>1, StartTypes DEF append_returns, ProcOK
      <4>2. <<p, job[p][h].line>> \in Lines
        BY <4>1 DEF LinesOK, Lines
      <4> QED BY <3>1, <4>2 DEF append_returns
    <3>2. CASE ~append_returns(p, h)
      BY <1>5, <3>2 DEF shutdown, append_locked, take_log_path, handler_step, append_unlocked,
         shutdown_answered, lineVars
    <3> QED BY <3>1, <3>2
  <2>6. next_line' \in [Procs -> 1..(MaxLines + 1)]
    BY <1>0, <2>4 DEF ServerTyped
  <2>7. acked' \in [Procs -> SUBSET Lines] /\ job' \in [Procs -> [Handlers -> Jobs]]
    BY <1>0, <2>3, <2>5 DEF ServerTyped
  <2>8. stop' \in [Procs -> BOOLEAN] /\ lock' \in [Procs -> Threads \cup {None}]
    BY <1>0, <2>2, ZenonT(60) DEF ServerTyped
  <2> QED BY <1>0, <2>1, <2>6, <2>7, <2>8 DEF ServerTyped
<1>6. CASE log_path \/ monitor_step \/ UNCHANGED startVars \/ \E p \in Procs : writer_step(p)
  BY <1>0, <1>6 DEF ServerTyped, log_path, monitor_step, print_tail, open_log, follow, startVars, serverVars,
     lineVars, writer_step
<1>7. ASSUME NEW p \in Procs, main_step(p) \/ kill(p) PROVE ServerTyped'
  BY <1>0, <1>1, <1>2, <1>3, <1>7 DEF main_step, exit, kill, ServerTyped
<1> QED BY <1>1, <1>2, <1>4, <1>5, <1>6, <1>7 DEF StartNext

-----------------------------------------------------------------------------
(* The theorems. *)

\* Nothing runs, and nothing is written.
LEMMA StartInitHolds ==
  ASSUME StartInit
  PROVE  StartIndInv
<1>0. MaxLines \in Nat /\ Threads = Handlers \cup {Main} /\ None \notin Procs
  BY StartAssumption
<1>1. /\ \A p \in Procs : /\ main[p] = "new" /\ channel[p] = <<>> /\ job[p] = NoJob /\ ~sandbox[p]
                          /\ acked[p] = {} /\ next_line[p] = 1
      /\ log = NoFile /\ monitor.shown = <<>> /\ monitor.pc = "idle"
  BY DEF StartInit, LogInit
<1>2. \A p \in Procs : \A h \in Handlers : job[p][h].pc = "idle"
  BY <1>1 DEF NoJob, Idle
<1>3. StartTyped
  <2>1. NoJob \in [Handlers -> Jobs] /\ <<>> \in Seq(Lines) /\ <<>> \in Seq(Commands)
    BY <1>0, EmptySeq DEF NoJob, Idle, Jobs
  <2>2. reply \in [Procs -> [Threads -> {"none", "waiting", "ok", "failed"}]]
    BY DEF StartInit, LogInit, Quiet
  <2>3. channel \in [Procs -> Seq(Commands)] /\ job \in [Procs -> [Handlers -> Jobs]]
    BY <2>1 DEF StartInit, LogInit
  <2>4. monitor \in [pc : {"idle", "read", "open", "follow", "ended"}, ino : Nat, pos : Nat, shown : Seq(Lines)]
        /\ monitor.ino <= files /\ files \in Nat
    BY <2>1 DEF StartInit, LogInit
  <2>5. /\ socket \in Procs \cup {None} /\ peer \in [Procs -> Procs \cup {None}]
        /\ stop \in [Procs -> BOOLEAN] /\ sandbox \in [Procs -> BOOLEAN]
        /\ lock \in [Procs -> Threads \cup {None}]
    BY DEF StartInit
  <2>6. main \in [Procs -> {"new"} \cup Preparing \cup Listening \cup Over]
    BY DEF StartInit
  <2>7. 1 \in 1..(MaxLines + 1)
    BY <1>0
  <2>8. next_line \in [Procs -> 1..(MaxLines + 1)] /\ acked \in [Procs -> SUBSET Lines] /\ kills \in Nat
    BY <2>7 DEF StartInit
  <2> QED BY <1>1, <2>2, <2>3, <2>4, <2>5, <2>6, <2>8 DEF StartTyped
<1>4. \A p \in Procs : ChannelOK(p) /\ SessionOK(p) /\ LinesOK(p)
  <2>1. \A p \in Procs : ChannelOK(p)
    BY <1>1 DEF ChannelOK
  <2>2. \A p \in Procs : SessionOK(p)
    BY <1>0, <1>1, <1>2 DEF SessionOK, At
  <2>3. \A p \in Procs : LinesOK(p)
    BY <1>1, <1>2 DEF LinesOK, Pending
  <2> QED BY <2>1, <2>2, <2>3
<1>5. WrittenOnce
  BY <1>1 DEF WrittenOnce, Done
<1>6. SocketOK /\ \A p \in Procs : Logged(p)
  BY <1>1 DEF SocketOK, SessionReachable, listening, active, Listening, Preparing, Logged
<1> QED BY <1>3, <1>4, <1>5, <1>6 DEF StartIndInv

\* Every step of the processes and of the monitor keeps the inductive invariant.
LEMMA StartNextHolds ==
  ASSUME StartIndInv, [StartNext]_startVars
  PROVE  StartIndInv'
<1>1. FileTyped' /\ WrittenOnce'
  BY LogUntouched, WriterWritten, MonitorWritten
<1>2. StartTyped'
  BY <1>1, ChannelTyped, NextServer DEF FileTyped, ServerTyped, StartTyped, Files
<1>3. \A p \in Procs : ChannelOK(p)' /\ SessionOK(p)' /\ LinesOK(p)'
  BY NextKept DEF Kept, ProcOK
<1>4. ~Overlap => SocketOK' /\ \A p \in Procs : Logged(p)'
  BY NextSocket, NextLogged
<1> QED BY <1>1, <1>2, <1>3, <1>4 DEF StartIndInv

\* The inductive invariant holds in every reachable state of the processes of one name.
THEOREM StartInvariance == StartSpec => []StartIndInv
<1>1. StartInit => StartIndInv
  BY StartInitHolds
<1>2. StartIndInv /\ [StartNext]_startVars => StartIndInv'
  BY StartNextHolds
<1> QED BY <1>1, <1>2, PTL DEF StartSpec

\* The socket, the processes, the log and the channels keep their types, and a process
\* reports only lines of its own that it has numbered.
THEOREM StartTypeCorrect == StartSpec => []StartTypeOK
<1>1. StartIndInv => StartTypeOK
  <2> SUFFICES ASSUME StartIndInv PROVE StartTypeOK
    OBVIOUS
  <2>1. LogTypeOK
    <3>1. \A p \in Procs : \A n \in DOMAIN channel[p] :
             channel[p][n].op \in {"reset", "append", "remove", "shutdown"}
      BY Channel DEF Commands, Ops
    <3> QED BY <3>1 DEF StartIndInv, StartTyped, LogTypeOK
  <2> QED BY <2>1 DEF StartIndInv, StartTyped, StartTypeOK, LinesOK
<1> QED BY <1>1, StartInvariance, PTL

\* ADR 0001, for any number of starts, ends and kills of sessions of one name: while no
\* start overlaps with another one, a session that listens is the one at the socket, until
\* it removes the socket itself.
THEOREM SessionStaysReachable == StartSpec => [](~Overlap => SessionReachable)
<1>1. StartIndInv => (~Overlap => SessionReachable)
  BY DEF StartIndInv, SocketOK
<1> QED BY <1>1, StartInvariance, PTL

\* While no start overlaps with another one, what a serving session has reported as written
\* is in the log exactly once, whatever fails or is killed, and in whatever order handlers
\* send their lines.
THEOREM AcknowledgedIsLogged == StartSpec => [](~Overlap => AcknowledgedLogged)
<1>1. StartIndInv => (~Overlap => AcknowledgedLogged)
  <2> SUFFICES ASSUME StartIndInv, ~Overlap, NEW p \in Procs, sandbox[p], NEW line \in acked[p]
               PROVE  log # NoFile /\ Cardinality({n \in DOMAIN log.lines : log.lines[n] = line}) = 1
    BY DEF AcknowledgedLogged
  <2>1. log # NoFile /\ \E n \in DOMAIN log.lines : log.lines[n] = line
    BY DEF StartIndInv, Logged, InLog
  <2>2. PICK n \in DOMAIN log.lines : log.lines[n] = line
    BY <2>1
  <2>3. {m \in DOMAIN log.lines : log.lines[m] = line} = {n}
    BY <2>1, <2>2 DEF StartIndInv, WrittenOnce, Done
  <2> QED BY <2>1, <2>3, FS_Singleton
<1> QED BY <1>1, StartInvariance, PTL

\* monitor -f prints no line twice, although the log is reset, removed and created anew
\* under it, and although starts overlap.
THEOREM FollowerPrintsOnce == StartSpec => []FollowPrintsOnce
<1>1. StartIndInv => FollowPrintsOnce
  BY DEF StartIndInv, WrittenOnce, Done, FollowPrintsOnce
<1> QED BY <1>1, StartInvariance, PTL
=============================================================================
