--------------------------- MODULE AccessTuiProofs ---------------------------
(***************************************************************************)
(* Proofs about TrustedCommand and about AccessTui, which runs trusted     *)
(* commands from a terminal, for any number of requests, commands, pids    *)
(* and command lines.                                                      *)
(*                                                                         *)
(* The inductive invariant of TrustedCommand says at each step of          *)
(* run_trusted_command what the gatefs process, its child and the session  *)
(* know of each other.  Every step of the TUI is a step of TrustedCommand  *)
(* or leaves the commands alone, so that invariant holds throughout, and   *)
(* with it what the messages of the TUI say is true.                       *)
(***************************************************************************)
EXTENDS AccessTui, WellFoundedInduction, FiniteSetTheorems, TLAPS

-----------------------------------------------------------------------------
(* The trusted commands. *)

USE DEF trustedVars, sessionVars, destroyVars, cliVars, childVars, effectVars, session_up

\* Nothing but the directory and the command line; the child is not there yet.
LEMMA StartPreserves ==
  ASSUME TrustedIndInv, NEW c \in Commands, start(c)
  PROVE  TrustedIndInv'
<1>0. /\ TrustedTypeOK /\ SessionForgets
      /\ \A d \in Commands : CommandCoherent(d) /\ ChildCoherent(d)
      /\ SuccessChanged /\ NeverReachesUnregistered /\ NothingLeftBehind
  BY DEF TrustedIndInv
<1>1. TrustedTypeOK'
  BY <1>0 DEF start, TrustedTypeOK, Steps, Statuses, has_child
<1>2. SessionForgets'
  BY <1>0 DEF start, SessionForgets
<1>3. ASSUME NEW d \in Commands PROVE CommandCoherent(d)'
  BY <1>0 DEF start, CommandCoherent, TrustedTypeOK, registered, token_of,
     has_child, Alive
<1>4. ASSUME NEW d \in Commands PROVE ChildCoherent(d)'
  BY <1>0 DEF start, ChildCoherent, TrustedTypeOK, registered
<1>5. SuccessChanged'
  BY <1>0 DEF start, SuccessChanged, TrustedTypeOK
<1>6. NeverReachesUnregistered'
  BY <1>0 DEF start, NeverReachesUnregistered
<1>7. NothingLeftBehind'
  BY <1>0, <1>1, <1>3 DEF start, NothingLeftBehind, CommandCoherent, TrustedTypeOK,
     token_of
<1> QED BY <1>1, <1>2, <1>3, <1>4, <1>5, <1>6, <1>7 DEF TrustedIndInv

\* The token and the view appear together, for a command that had neither.
LEMMA BeginPreserves ==
  ASSUME TrustedIndInv, NEW c \in Commands, begin_trusted(c)
  PROVE  TrustedIndInv'
<1>0. /\ TrustedTypeOK /\ SessionForgets
      /\ \A d \in Commands : CommandCoherent(d) /\ ChildCoherent(d)
      /\ SuccessChanged /\ NeverReachesUnregistered /\ NothingLeftBehind
  BY DEF TrustedIndInv
<1>1. TrustedTypeOK'
  BY <1>0 DEF begin_trusted, view_appears, TrustedTypeOK, CommandCoherent,
     Steps, Statuses, has_child
<1>2. SessionForgets'
  BY <1>0 DEF begin_trusted, view_appears, SessionForgets
<1>3. ASSUME NEW d \in Commands PROVE CommandCoherent(d)'
  <2>1. CASE d = c
    <3>1. /\ pc'[c] \in {"fork", "returned"} /\ child'[c] = "none"
          /\ session_up' = session_up
      BY <1>0 DEF begin_trusted, view_appears, CommandCoherent, TrustedTypeOK
    <3>2. pc'[c] = "fork" => [command |-> c, pid |-> NoPid] \in token_of(c)'
      BY <1>0 DEF begin_trusted, view_appears, TrustedTypeOK, token_of
    <3> QED
      BY <2>1, <3>1, <3>2 DEF CommandCoherent, has_child, Alive
  <2>2. CASE d # c
    <3>1. /\ pc'[d] = pc[d] /\ child'[d] = child[d] /\ pid'[d] = pid[d]
          /\ token_of(d)' = token_of(d) /\ registered(d)' = registered(d)
          /\ d \in views' <=> d \in views
          /\ dirs' \subseteq dirs /\ dirs \ {c} \subseteq dirs'
      BY <1>0, <2>2 DEF begin_trusted, view_appears, TrustedTypeOK, token_of, registered
    <3> QED
      BY <1>0, <2>2, <3>1 DEF begin_trusted, view_appears, CommandCoherent, has_child
  <2> QED BY <2>1, <2>2
<1>4. ASSUME NEW d \in Commands PROVE ChildCoherent(d)'
  <2>1. CASE d = c
    BY <1>0, <2>1 DEF begin_trusted, view_appears, ChildCoherent
  <2>2. CASE d # c
    <3>1. /\ pc'[d] = pc[d] /\ child'[d] = child[d] /\ pid'[d] = pid[d]
          /\ registered(d)' = registered(d)
          /\ d \in views' <=> d \in views
      BY <1>0, <2>2 DEF begin_trusted, view_appears, TrustedTypeOK, registered
    <3> QED
      BY <1>0, <2>2, <3>1 DEF begin_trusted, view_appears, ChildCoherent
  <2> QED BY <2>1, <2>2
<1>5. SuccessChanged'
  BY <1>0 DEF begin_trusted, view_appears, SuccessChanged, TrustedTypeOK
<1>6. NeverReachesUnregistered'
  BY <1>0 DEF begin_trusted, view_appears, NeverReachesUnregistered
<1>7. NothingLeftBehind'
  BY <1>0, <1>1, <1>3 DEF begin_trusted, view_appears, NothingLeftBehind, CommandCoherent,
     TrustedTypeOK, token_of
<1> QED BY <1>1, <1>2, <1>3, <1>4, <1>5, <1>6, <1>7 DEF TrustedIndInv

\* The pid is free, so no other live child has it; the byte has not been written.
LEMMA ForkPreserves ==
  ASSUME TrustedIndInv, NEW c \in Commands, fork(c)
  PROVE  TrustedIndInv'
<1>0. /\ TrustedTypeOK /\ SessionForgets
      /\ \A d \in Commands : CommandCoherent(d) /\ ChildCoherent(d)
      /\ SuccessChanged /\ NeverReachesUnregistered /\ NothingLeftBehind
  BY DEF TrustedIndInv
<1>1. TrustedTypeOK'
  BY <1>0 DEF fork, TrustedTypeOK, free_pids, Steps,
     ChildSteps, has_child
<1>2. SessionForgets'
  BY <1>0 DEF fork, SessionForgets, TrustedTypeOK
<1>3. ASSUME NEW d \in Commands PROVE CommandCoherent(d)'
  <2>1. CASE d = c
    <3>1. /\ \/ pc'[c] = "register" /\ child'[c] = "started"
             \/ pc'[c] = "end" /\ child'[c] = "none"
          /\ session_up' = session_up /\ token_of(c)' = token_of(c)
      BY <1>0 DEF fork, CommandCoherent, TrustedTypeOK, token_of
    <3> QED
      BY <1>0, <2>1, <3>1 DEF fork, CommandCoherent, has_child, Alive
  <2>2. CASE d # c
    <3>1. /\ pc'[d] = pc[d] /\ child'[d] = child[d] /\ pid'[d] = pid[d]
          /\ token_of(d)' = token_of(d) /\ registered(d)' = registered(d)
          /\ d \in views' <=> d \in views
          /\ dirs' \subseteq dirs /\ dirs \ {c} \subseteq dirs'
      BY <1>0, <2>2 DEF fork, TrustedTypeOK, token_of, registered
    <3> QED
      BY <1>0, <2>2, <3>1 DEF fork, CommandCoherent, has_child
  <2> QED BY <2>1, <2>2
<1>4. ASSUME NEW d \in Commands PROVE ChildCoherent(d)'
  <2>1. CASE d = c
    <3>1. c \notin byte' /\ child'[c] \in {"started", "none"}
      BY <1>0 DEF fork, CommandCoherent, ChildCoherent, TrustedTypeOK
    <3> QED
      BY <2>1, <3>1 DEF ChildCoherent
  <2>2. CASE d # c
    <3>1. /\ pc'[d] = pc[d] /\ child'[d] = child[d] /\ pid'[d] = pid[d]
          /\ registered(d)' = registered(d)
          /\ d \in views' <=> d \in views
      BY <1>0, <2>2 DEF fork, TrustedTypeOK, registered
    <3> QED
      BY <1>0, <2>2, <3>1 DEF fork, ChildCoherent
  <2> QED BY <2>1, <2>2
<1>5. SuccessChanged'
  BY <1>0 DEF fork, SuccessChanged, TrustedTypeOK
<1>6. NeverReachesUnregistered'
  BY <1>0 DEF fork, NeverReachesUnregistered, TrustedTypeOK
<1>7. NothingLeftBehind'
  BY <1>0, <1>1, <1>3 DEF fork, NothingLeftBehind, CommandCoherent, TrustedTypeOK,
     token_of
<1> QED BY <1>1, <1>2, <1>3, <1>4, <1>5, <1>6, <1>7 DEF TrustedIndInv

\* The token is replaced by one with the pid of the child.
LEMMA RegisterPreserves ==
  ASSUME TrustedIndInv, NEW c \in Commands, register_trusted_pid(c)
  PROVE  TrustedIndInv'
<1>0. /\ TrustedTypeOK /\ SessionForgets
      /\ \A d \in Commands : CommandCoherent(d) /\ ChildCoherent(d)
      /\ SuccessChanged /\ NeverReachesUnregistered /\ NothingLeftBehind
  BY DEF TrustedIndInv
<1>1. TrustedTypeOK'
  BY <1>0 DEF register_trusted_pid, TrustedTypeOK, Steps,
     has_child
<1>2. SessionForgets'
  BY <1>0 DEF register_trusted_pid, SessionForgets, token_of
<1>3. ASSUME NEW d \in Commands PROVE CommandCoherent(d)'
  BY <1>0 DEF register_trusted_pid, CommandCoherent, TrustedTypeOK,
     registered, token_of, has_child
<1>4. ASSUME NEW d \in Commands PROVE ChildCoherent(d)'
  BY <1>0 DEF register_trusted_pid, ChildCoherent, TrustedTypeOK, registered,
     token_of
<1>5. SuccessChanged'
  BY <1>0 DEF register_trusted_pid, SuccessChanged, TrustedTypeOK
<1>6. NeverReachesUnregistered'
  BY <1>0 DEF register_trusted_pid, NeverReachesUnregistered, TrustedTypeOK
<1>7. NothingLeftBehind'
  BY <1>0, <1>1, <1>3 DEF register_trusted_pid, NothingLeftBehind, CommandCoherent,
     TrustedTypeOK, token_of
<1> QED BY <1>1, <1>2, <1>3, <1>4, <1>5, <1>6, <1>7 DEF TrustedIndInv

\* Only a child that was not registered is killed, and it has not read the byte.
LEMMA KillPreserves ==
  ASSUME TrustedIndInv, NEW c \in Commands, kill(c)
  PROVE  TrustedIndInv'
<1>0. /\ TrustedTypeOK /\ SessionForgets
      /\ \A d \in Commands : CommandCoherent(d) /\ ChildCoherent(d)
      /\ SuccessChanged /\ NeverReachesUnregistered /\ NothingLeftBehind
  BY DEF TrustedIndInv
<1>1. TrustedTypeOK'
  BY <1>0 DEF kill, TrustedTypeOK, CommandCoherent, Steps,
     ChildSteps, has_child
<1>2. SessionForgets'
  BY <1>0 DEF kill, SessionForgets
<1>3. ASSUME NEW d \in Commands PROVE CommandCoherent(d)'
  BY <1>0 DEF kill, CommandCoherent, TrustedTypeOK, registered, token_of,
     has_child
<1>4. ASSUME NEW d \in Commands PROVE ChildCoherent(d)'
  BY <1>0 DEF kill, ChildCoherent, registered
<1>5. SuccessChanged'
  BY <1>0 DEF kill, SuccessChanged
<1>6. NeverReachesUnregistered'
  BY <1>0 DEF kill, NeverReachesUnregistered
<1>7. NothingLeftBehind'
  BY <1>0, <1>1, <1>3 DEF kill, NothingLeftBehind, CommandCoherent, token_of
<1> QED BY <1>1, <1>2, <1>3, <1>4, <1>5, <1>6, <1>7 DEF TrustedIndInv

\* The byte is written for a child that is dead.
LEMMA UnblockPreserves ==
  ASSUME TrustedIndInv, NEW c \in Commands, unblock(c)
  PROVE  TrustedIndInv'
<1>0. /\ TrustedTypeOK /\ SessionForgets
      /\ \A d \in Commands : CommandCoherent(d) /\ ChildCoherent(d)
      /\ SuccessChanged /\ NeverReachesUnregistered /\ NothingLeftBehind
  BY DEF TrustedIndInv
<1>1. TrustedTypeOK'
  BY <1>0 DEF unblock, TrustedTypeOK, Steps, has_child
<1>2. SessionForgets'
  BY <1>0 DEF unblock, SessionForgets
<1>3. ASSUME NEW d \in Commands PROVE CommandCoherent(d)'
  BY <1>0 DEF unblock, CommandCoherent, registered, token_of, has_child
<1>4. ASSUME NEW d \in Commands PROVE ChildCoherent(d)'
  BY <1>0 DEF unblock, CommandCoherent, ChildCoherent, TrustedTypeOK,
     registered, Alive
<1>5. SuccessChanged'
  BY <1>0 DEF unblock, SuccessChanged
<1>6. NeverReachesUnregistered'
  BY <1>0 DEF unblock, NeverReachesUnregistered
<1>7. NothingLeftBehind'
  BY <1>0, <1>1, <1>3 DEF unblock, NothingLeftBehind, CommandCoherent, token_of
<1> QED BY <1>1, <1>2, <1>3, <1>4, <1>5, <1>6, <1>7 DEF TrustedIndInv

\* The byte is written when the pid is registered, unless the view is gone or the
\* token forgotten.
LEMMA ReleasePreserves ==
  ASSUME TrustedIndInv, NEW c \in Commands, release(c)
  PROVE  TrustedIndInv'
<1>0. /\ TrustedTypeOK /\ SessionForgets
      /\ \A d \in Commands : CommandCoherent(d) /\ ChildCoherent(d)
      /\ SuccessChanged /\ NeverReachesUnregistered /\ NothingLeftBehind
  BY DEF TrustedIndInv
<1>1. TrustedTypeOK'
  BY <1>0 DEF release, TrustedTypeOK, Steps, has_child
<1>2. SessionForgets'
  BY <1>0 DEF release, SessionForgets
<1>3. ASSUME NEW d \in Commands PROVE CommandCoherent(d)'
  BY <1>0 DEF release, CommandCoherent, registered, token_of, has_child
<1>4. ASSUME NEW d \in Commands PROVE ChildCoherent(d)'
  BY <1>0 DEF release, CommandCoherent, ChildCoherent, TrustedTypeOK,
     registered
<1>5. SuccessChanged'
  BY <1>0 DEF release, SuccessChanged
<1>6. NeverReachesUnregistered'
  BY <1>0 DEF release, NeverReachesUnregistered
<1>7. NothingLeftBehind'
  BY <1>0, <1>1, <1>3 DEF release, NothingLeftBehind, CommandCoherent, token_of
<1> QED BY <1>1, <1>2, <1>3, <1>4, <1>5, <1>6, <1>7 DEF TrustedIndInv

\* Only a child that succeeded leaves the command without failure.
LEMMA WaitPreserves ==
  ASSUME TrustedIndInv, NEW c \in Commands, waitpid(c)
  PROVE  TrustedIndInv'
<1>0. /\ TrustedTypeOK /\ SessionForgets
      /\ \A d \in Commands : CommandCoherent(d) /\ ChildCoherent(d)
      /\ SuccessChanged /\ NeverReachesUnregistered /\ NothingLeftBehind
  BY DEF TrustedIndInv
<1>1. TrustedTypeOK'
  BY <1>0 DEF waitpid, TrustedTypeOK, Steps, ChildSteps,
     has_child
<1>2. SessionForgets'
  BY <1>0 DEF waitpid, SessionForgets
<1>3. ASSUME NEW d \in Commands PROVE CommandCoherent(d)'
  BY <1>0 DEF waitpid, CommandCoherent, TrustedTypeOK, registered, token_of,
     has_child, Alive
<1>4. ASSUME NEW d \in Commands PROVE ChildCoherent(d)'
  BY <1>0 DEF waitpid, ChildCoherent, registered, Alive
<1>5. SuccessChanged'
  BY <1>0 DEF waitpid, SuccessChanged
<1>6. NeverReachesUnregistered'
  BY <1>0 DEF waitpid, NeverReachesUnregistered
<1>7. NothingLeftBehind'
  BY <1>0, <1>1, <1>3 DEF waitpid, NothingLeftBehind, CommandCoherent, token_of
<1> QED BY <1>1, <1>2, <1>3, <1>4, <1>5, <1>6, <1>7 DEF TrustedIndInv

\* The child is gone: no child counts on the token that goes with the view.
LEMMA EndPreserves ==
  ASSUME TrustedIndInv, NEW c \in Commands, end_trusted(c)
  PROVE  TrustedIndInv'
<1>0. /\ TrustedTypeOK /\ SessionForgets
      /\ \A d \in Commands : CommandCoherent(d) /\ ChildCoherent(d)
      /\ SuccessChanged /\ NeverReachesUnregistered /\ NothingLeftBehind
  BY DEF TrustedIndInv
<1>1. TrustedTypeOK'
  BY <1>0 DEF end_trusted, TrustedTypeOK, Steps, Statuses,
     has_child
<1>2. SessionForgets'
  BY <1>0 DEF end_trusted, SessionForgets
<1>3. ASSUME NEW d \in Commands PROVE CommandCoherent(d)'
  BY <1>0 DEF end_trusted, CommandCoherent, TrustedTypeOK, registered,
     token_of, has_child
<1>4. ASSUME NEW d \in Commands PROVE ChildCoherent(d)'
  BY <1>0 DEF end_trusted, CommandCoherent, ChildCoherent, registered,
     token_of, has_child
<1>5. SuccessChanged'
  BY <1>0 DEF end_trusted, SuccessChanged, TrustedTypeOK
<1>6. NeverReachesUnregistered'
  BY <1>0 DEF end_trusted, NeverReachesUnregistered
<1>7. NothingLeftBehind'
  BY <1>0, <1>1, <1>3 DEF end_trusted, NothingLeftBehind, CommandCoherent, token_of,
     SessionForgets
<1> QED BY <1>1, <1>2, <1>3, <1>4, <1>5, <1>6, <1>7 DEF TrustedIndInv

\* The token and the view of a killed gatefs process stay, for its child.
LEMMA CliKilledPreserves ==
  ASSUME TrustedIndInv, NEW c \in Commands, cli_killed(c)
  PROVE  TrustedIndInv'
<1>0. /\ TrustedTypeOK /\ SessionForgets
      /\ \A d \in Commands : CommandCoherent(d) /\ ChildCoherent(d)
      /\ SuccessChanged /\ NeverReachesUnregistered /\ NothingLeftBehind
  BY DEF TrustedIndInv
<1>1. TrustedTypeOK'
  BY <1>0 DEF cli_killed, TrustedTypeOK, Steps, Statuses,
     has_child
<1>2. SessionForgets'
  BY <1>0 DEF cli_killed, SessionForgets
<1>3. ASSUME NEW d \in Commands PROVE CommandCoherent(d)'
  BY <1>0 DEF cli_killed, CommandCoherent, registered, token_of, has_child
<1>4. ASSUME NEW d \in Commands PROVE ChildCoherent(d)'
  BY <1>0 DEF cli_killed, ChildCoherent, registered
<1>5. SuccessChanged'
  BY <1>0 DEF cli_killed, SuccessChanged
<1>6. NeverReachesUnregistered'
  BY <1>0 DEF cli_killed, NeverReachesUnregistered
<1>7. NothingLeftBehind'
  BY <1>0, <1>1, <1>3 DEF cli_killed, NothingLeftBehind, CommandCoherent, token_of
<1> QED BY <1>1, <1>2, <1>3, <1>4, <1>5, <1>6, <1>7 DEF TrustedIndInv

\* The child closes its end of the pipe.
LEMMA ChildClosesPreserves ==
  ASSUME TrustedIndInv, NEW c \in Commands, child_closes(c)
  PROVE  TrustedIndInv'
<1>0. /\ TrustedTypeOK /\ SessionForgets
      /\ \A d \in Commands : CommandCoherent(d) /\ ChildCoherent(d)
      /\ SuccessChanged /\ NeverReachesUnregistered /\ NothingLeftBehind
  BY DEF TrustedIndInv
<1>1. TrustedTypeOK'
  BY <1>0 DEF child_closes, TrustedTypeOK, ChildSteps,
     has_child, Alive
<1>2. SessionForgets'
  BY <1>0 DEF child_closes, SessionForgets
<1>3. ASSUME NEW d \in Commands PROVE CommandCoherent(d)'
  BY <1>0 DEF child_closes, CommandCoherent, registered, token_of, has_child,
     Alive
<1>4. ASSUME NEW d \in Commands PROVE ChildCoherent(d)'
  BY <1>0 DEF child_closes, ChildCoherent, registered, Alive
<1>5. SuccessChanged'
  BY <1>0 DEF child_closes, SuccessChanged
<1>6. NeverReachesUnregistered'
  BY <1>0 DEF child_closes, NeverReachesUnregistered
<1>7. NothingLeftBehind'
  BY <1>0, <1>1, <1>3 DEF child_closes, NothingLeftBehind, CommandCoherent, token_of
<1> QED BY <1>1, <1>2, <1>3, <1>4, <1>5, <1>6, <1>7 DEF TrustedIndInv

\* The child goes on only if the byte is there.
LEMMA ChildReadsPreserves ==
  ASSUME TrustedIndInv, NEW c \in Commands, child_reads(c)
  PROVE  TrustedIndInv'
<1>0. /\ TrustedTypeOK /\ SessionForgets
      /\ \A d \in Commands : CommandCoherent(d) /\ ChildCoherent(d)
      /\ SuccessChanged /\ NeverReachesUnregistered /\ NothingLeftBehind
  BY DEF TrustedIndInv
<1>1. TrustedTypeOK'
  BY <1>0 DEF child_reads, TrustedTypeOK, ChildSteps,
     has_child, Alive
<1>2. SessionForgets'
  BY <1>0 DEF child_reads, SessionForgets, TrustedTypeOK
<1>3. ASSUME NEW d \in Commands PROVE CommandCoherent(d)'
  BY <1>0 DEF child_reads, CommandCoherent, TrustedTypeOK, registered,
     token_of, has_child, Alive
<1>4. ASSUME NEW d \in Commands PROVE ChildCoherent(d)'
  BY <1>0 DEF child_reads, ChildCoherent, TrustedTypeOK, registered, Alive
<1>5. SuccessChanged'
  BY <1>0 DEF child_reads, SuccessChanged, TrustedTypeOK
<1>6. NeverReachesUnregistered'
  BY <1>0 DEF child_reads, NeverReachesUnregistered, TrustedTypeOK
<1>7. NothingLeftBehind'
  BY <1>0, <1>1, <1>3 DEF child_reads, NothingLeftBehind, CommandCoherent, token_of
<1> QED BY <1>1, <1>2, <1>3, <1>4, <1>5, <1>6, <1>7 DEF TrustedIndInv

\* chdir and execvp: the byte is still there.
LEMMA ChildExecsPreserves ==
  ASSUME TrustedIndInv, NEW c \in Commands, child_execs(c)
  PROVE  TrustedIndInv'
<1>0. /\ TrustedTypeOK /\ SessionForgets
      /\ \A d \in Commands : CommandCoherent(d) /\ ChildCoherent(d)
      /\ SuccessChanged /\ NeverReachesUnregistered /\ NothingLeftBehind
  BY DEF TrustedIndInv
<1>1. TrustedTypeOK'
  BY <1>0 DEF child_execs, TrustedTypeOK, ChildSteps,
     has_child, Alive
<1>2. SessionForgets'
  BY <1>0 DEF child_execs, SessionForgets, TrustedTypeOK
<1>3. ASSUME NEW d \in Commands PROVE CommandCoherent(d)'
  BY <1>0 DEF child_execs, CommandCoherent, TrustedTypeOK, registered,
     token_of, has_child, Alive
<1>4. ASSUME NEW d \in Commands PROVE ChildCoherent(d)'
  BY <1>0 DEF child_execs, ChildCoherent, TrustedTypeOK, registered, Alive
<1>5. SuccessChanged'
  BY <1>0 DEF child_execs, SuccessChanged, TrustedTypeOK
<1>6. NeverReachesUnregistered'
  BY <1>0 DEF child_execs, NeverReachesUnregistered, TrustedTypeOK
<1>7. NothingLeftBehind'
  BY <1>0, <1>1, <1>3 DEF child_execs, NothingLeftBehind, CommandCoherent, token_of
<1> QED BY <1>1, <1>2, <1>3, <1>4, <1>5, <1>6, <1>7 DEF TrustedIndInv

\* The child is running, so its pid is registered if its view is there and its token
\* not forgotten: then the change is made at once.
LEMMA ChildOperatesPreserves ==
  ASSUME TrustedIndInv, NEW c \in Commands, child_operates(c)
  PROVE  TrustedIndInv'
<1>0. /\ TrustedTypeOK /\ SessionForgets
      /\ \A d \in Commands : CommandCoherent(d) /\ ChildCoherent(d)
      /\ SuccessChanged /\ NeverReachesUnregistered /\ NothingLeftBehind
  BY DEF TrustedIndInv
<1>1. TrustedTypeOK'
  BY <1>0 DEF child_operates, TrustedTypeOK, ChildSteps, has_child, Alive
<1>2. SessionForgets'
  BY <1>0 DEF child_operates, SessionForgets, TrustedTypeOK
<1>3. ASSUME NEW d \in Commands PROVE CommandCoherent(d)'
  BY <1>0 DEF child_operates, CommandCoherent, TrustedTypeOK, registered, token_of,
     has_child, Alive
<1>4. ASSUME NEW d \in Commands PROVE ChildCoherent(d)'
  BY <1>0 DEF child_operates, ChildCoherent, TrustedTypeOK, registered, Alive
<1>5. SuccessChanged'
  BY <1>0 DEF child_operates, SuccessChanged, TrustedTypeOK
<1>6. NeverReachesUnregistered'
  <2>1. ASSUME child[c] = "running", c \in views, ~is_trusted_operation(pid[c])
        PROVE  c \in forgotten
    <3>1. c \notin forgotten => registered(c)
      BY <1>0, <2>1 DEF ChildCoherent, Alive
    <3> QED BY <2>1, <3>1 DEF registered, is_trusted_operation
  <2> QED BY <1>0, <2>1 DEF child_operates, NeverReachesUnregistered, TrustedTypeOK
<1>7. NothingLeftBehind'
  BY <1>0, <1>1, <1>3 DEF child_operates, NothingLeftBehind, CommandCoherent, token_of
<1> QED BY <1>1, <1>2, <1>3, <1>4, <1>5, <1>6, <1>7 DEF TrustedIndInv

\* The child succeeds only with its change made.
LEMMA ChildExitsPreserves ==
  ASSUME TrustedIndInv, NEW c \in Commands, child_exits(c)
  PROVE  TrustedIndInv'
<1>0. /\ TrustedTypeOK /\ SessionForgets
      /\ \A d \in Commands : CommandCoherent(d) /\ ChildCoherent(d)
      /\ SuccessChanged /\ NeverReachesUnregistered /\ NothingLeftBehind
  BY DEF TrustedIndInv
<1>1. TrustedTypeOK'
  BY <1>0 DEF child_exits, TrustedTypeOK, ChildSteps,
     has_child, Alive
<1>2. SessionForgets'
  BY <1>0 DEF child_exits, SessionForgets
<1>3. ASSUME NEW d \in Commands PROVE CommandCoherent(d)'
  BY <1>0 DEF child_exits, CommandCoherent, registered, token_of, has_child,
     Alive
<1>4. ASSUME NEW d \in Commands PROVE ChildCoherent(d)'
  BY <1>0 DEF child_exits, ChildCoherent, registered, Alive
<1>5. SuccessChanged'
  BY <1>0 DEF child_exits, SuccessChanged
<1>6. NeverReachesUnregistered'
  BY <1>0 DEF child_exits, NeverReachesUnregistered
<1>7. NothingLeftBehind'
  BY <1>0, <1>1, <1>3 DEF child_exits, NothingLeftBehind, CommandCoherent, token_of
<1> QED BY <1>1, <1>2, <1>3, <1>4, <1>5, <1>6, <1>7 DEF TrustedIndInv

\* A dead child needs no token.
LEMMA ChildKilledPreserves ==
  ASSUME TrustedIndInv, NEW c \in Commands, child_killed(c)
  PROVE  TrustedIndInv'
<1>0. /\ TrustedTypeOK /\ SessionForgets
      /\ \A d \in Commands : CommandCoherent(d) /\ ChildCoherent(d)
      /\ SuccessChanged /\ NeverReachesUnregistered /\ NothingLeftBehind
  BY DEF TrustedIndInv
<1>1. TrustedTypeOK'
  BY <1>0 DEF child_killed, TrustedTypeOK, ChildSteps,
     has_child
<1>2. SessionForgets'
  BY <1>0 DEF child_killed, SessionForgets
<1>3. ASSUME NEW d \in Commands PROVE CommandCoherent(d)'
  BY <1>0 DEF child_killed, CommandCoherent, registered, token_of, has_child,
     Alive
<1>4. ASSUME NEW d \in Commands PROVE ChildCoherent(d)'
  BY <1>0 DEF child_killed, ChildCoherent, registered
<1>5. SuccessChanged'
  BY <1>0 DEF child_killed, SuccessChanged
<1>6. NeverReachesUnregistered'
  BY <1>0 DEF child_killed, NeverReachesUnregistered
<1>7. NothingLeftBehind'
  BY <1>0, <1>1, <1>3 DEF child_killed, NothingLeftBehind, CommandCoherent, token_of
<1> QED BY <1>1, <1>2, <1>3, <1>4, <1>5, <1>6, <1>7 DEF TrustedIndInv

\* Only the child of a killed gatefs process is left to init.
LEMMA InitReapsPreserves ==
  ASSUME TrustedIndInv, NEW c \in Commands, init_reaps(c)
  PROVE  TrustedIndInv'
<1>0. /\ TrustedTypeOK /\ SessionForgets
      /\ \A d \in Commands : CommandCoherent(d) /\ ChildCoherent(d)
      /\ SuccessChanged /\ NeverReachesUnregistered /\ NothingLeftBehind
  BY DEF TrustedIndInv
<1>1. TrustedTypeOK'
  BY <1>0 DEF init_reaps, TrustedTypeOK, ChildSteps, has_child
<1>2. SessionForgets'
  BY <1>0 DEF init_reaps, SessionForgets
<1>3. ASSUME NEW d \in Commands PROVE CommandCoherent(d)'
  BY <1>0 DEF init_reaps, CommandCoherent, registered, token_of, has_child
<1>4. ASSUME NEW d \in Commands PROVE ChildCoherent(d)'
  BY <1>0 DEF init_reaps, ChildCoherent, registered, Alive
<1>5. SuccessChanged'
  BY <1>0 DEF init_reaps, SuccessChanged
<1>6. NeverReachesUnregistered'
  BY <1>0 DEF init_reaps, NeverReachesUnregistered
<1>7. NothingLeftBehind'
  BY <1>0, <1>1, <1>3 DEF init_reaps, NothingLeftBehind, CommandCoherent, token_of
<1> QED BY <1>1, <1>2, <1>3, <1>4, <1>5, <1>6, <1>7 DEF TrustedIndInv

\* Other processes take free pids, which no live child has.
LEMMA OtherStartsPreserves ==
  ASSUME TrustedIndInv, other_starts
  PROVE  TrustedIndInv'
<1>0. /\ TrustedTypeOK /\ SessionForgets
      /\ \A d \in Commands : CommandCoherent(d) /\ ChildCoherent(d)
      /\ SuccessChanged /\ NeverReachesUnregistered /\ NothingLeftBehind
  BY DEF TrustedIndInv
<1>1. TrustedTypeOK'
  BY <1>0 DEF other_starts, TrustedTypeOK, free_pids,
     has_child
<1>2. SessionForgets'
  BY <1>0 DEF other_starts, SessionForgets
<1>3. ASSUME NEW d \in Commands PROVE CommandCoherent(d)'
  BY <1>0 DEF other_starts, CommandCoherent, registered, token_of, has_child
<1>4. ASSUME NEW d \in Commands PROVE ChildCoherent(d)'
  BY <1>0 DEF other_starts, ChildCoherent, registered
<1>5. SuccessChanged'
  BY <1>0 DEF other_starts, SuccessChanged
<1>6. NeverReachesUnregistered'
  BY <1>0 DEF other_starts, NeverReachesUnregistered
<1>7. NothingLeftBehind'
  BY <1>0, <1>1, <1>3 DEF other_starts, NothingLeftBehind, CommandCoherent, token_of
<1> QED BY <1>1, <1>2, <1>3, <1>4, <1>5, <1>6, <1>7 DEF TrustedIndInv

\* Other processes give their pids back.
LEMMA OtherEndsPreserves ==
  ASSUME TrustedIndInv, other_ends
  PROVE  TrustedIndInv'
<1>0. /\ TrustedTypeOK /\ SessionForgets
      /\ \A d \in Commands : CommandCoherent(d) /\ ChildCoherent(d)
      /\ SuccessChanged /\ NeverReachesUnregistered /\ NothingLeftBehind
  BY DEF TrustedIndInv
<1>1. TrustedTypeOK'
  BY <1>0 DEF other_ends, TrustedTypeOK, has_child
<1>2. SessionForgets'
  BY <1>0 DEF other_ends, SessionForgets
<1>3. ASSUME NEW d \in Commands PROVE CommandCoherent(d)'
  BY <1>0 DEF other_ends, CommandCoherent, registered, token_of, has_child
<1>4. ASSUME NEW d \in Commands PROVE ChildCoherent(d)'
  BY <1>0 DEF other_ends, ChildCoherent, registered
<1>5. SuccessChanged'
  BY <1>0 DEF other_ends, SuccessChanged
<1>6. NeverReachesUnregistered'
  BY <1>0 DEF other_ends, NeverReachesUnregistered
<1>7. NothingLeftBehind'
  BY <1>0, <1>1, <1>3 DEF other_ends, NothingLeftBehind, CommandCoherent, token_of
<1> QED BY <1>1, <1>2, <1>3, <1>4, <1>5, <1>6, <1>7 DEF TrustedIndInv

\* The change that waits is answered.
LEMMA AnswerPreserves ==
  ASSUME TrustedIndInv, NEW c \in Commands, answer(c)
  PROVE  TrustedIndInv'
<1>0. /\ TrustedTypeOK /\ SessionForgets
      /\ \A d \in Commands : CommandCoherent(d) /\ ChildCoherent(d)
      /\ SuccessChanged /\ NeverReachesUnregistered /\ NothingLeftBehind
  BY DEF TrustedIndInv
<1>1. TrustedTypeOK'
  BY <1>0 DEF answer, TrustedTypeOK, ChildSteps, has_child, Alive
<1>2. SessionForgets'
  BY <1>0 DEF answer, SessionForgets
<1>3. ASSUME NEW d \in Commands PROVE CommandCoherent(d)'
  BY <1>0 DEF answer, CommandCoherent, TrustedTypeOK, registered, token_of,
     has_child, Alive
<1>4. ASSUME NEW d \in Commands PROVE ChildCoherent(d)'
  BY <1>0 DEF answer, ChildCoherent, TrustedTypeOK, registered, Alive
<1>5. SuccessChanged'
  BY <1>0 DEF answer, SuccessChanged, TrustedTypeOK
<1>6. NeverReachesUnregistered'
  BY <1>0 DEF answer, NeverReachesUnregistered, TrustedTypeOK
<1>7. NothingLeftBehind'
  BY <1>0, <1>1, <1>3 DEF answer, NothingLeftBehind, CommandCoherent, token_of
<1> QED BY <1>1, <1>2, <1>3, <1>4, <1>5, <1>6, <1>7 DEF TrustedIndInv

\* Every token that goes is one that is forgotten, so no command counts on it.
LEMMA DestroyBeginsPreserves ==
  ASSUME TrustedIndInv, destroy_begins
  PROVE  TrustedIndInv'
<1>0. /\ TrustedTypeOK /\ SessionForgets
      /\ \A d \in Commands : CommandCoherent(d) /\ ChildCoherent(d)
      /\ SuccessChanged /\ NeverReachesUnregistered /\ NothingLeftBehind
  BY DEF TrustedIndInv
<1>1. TrustedTypeOK'
  BY <1>0 DEF destroy_begins, TrustedTypeOK, ChildSteps, has_child, Alive
<1>2. SessionForgets'
  BY <1>0 DEF destroy_begins, SessionForgets
<1>f. ASSUME NEW d \in Commands
      PROVE  /\ token_of(d) # {} => d \in forgotten'
             /\ registered(d) => d \in forgotten'
             /\ d \in forgotten => d \in forgotten'
             /\ token_of(d)' = {}
  BY DEF destroy_begins, registered, token_of
<1>u. UNCHANGED <<session, views, dirs, stuck, pc, failed, status, pid, child, byte>>
  BY DEF destroy_begins
<1>3. ASSUME NEW d \in Commands PROVE CommandCoherent(d)'
  BY <1>0, <1>f, <1>u DEF CommandCoherent, has_child
<1>4. ASSUME NEW d \in Commands PROVE ChildCoherent(d)'
  BY <1>0, <1>f, <1>u DEF ChildCoherent
<1>5. SuccessChanged'
  BY <1>0 DEF destroy_begins, SuccessChanged, TrustedTypeOK
<1>6. NeverReachesUnregistered'
  BY <1>0 DEF destroy_begins, NeverReachesUnregistered, TrustedTypeOK
<1>7. NothingLeftBehind'
  BY <1>0, <1>1, <1>3 DEF destroy_begins, NothingLeftBehind, CommandCoherent, token_of
<1> QED BY <1>1, <1>2, <1>3, <1>4, <1>5, <1>6, <1>7 DEF TrustedIndInv

\* Without its view a child reaches nothing.
LEMMA DetachPreserves ==
  ASSUME TrustedIndInv, NEW c \in Commands, detach_view(c)
  PROVE  TrustedIndInv'
<1>0. /\ TrustedTypeOK /\ SessionForgets
      /\ \A d \in Commands : CommandCoherent(d) /\ ChildCoherent(d)
      /\ SuccessChanged /\ NeverReachesUnregistered /\ NothingLeftBehind
  BY DEF TrustedIndInv
<1>1. TrustedTypeOK'
  BY <1>0 DEF detach_view, TrustedTypeOK, ChildSteps, has_child, Alive
<1>2. SessionForgets'
  BY <1>0 DEF detach_view, SessionForgets
<1>3. ASSUME NEW d \in Commands PROVE CommandCoherent(d)'
  BY <1>0 DEF detach_view, CommandCoherent, TrustedTypeOK, registered, token_of,
     has_child, Alive
<1>4. ASSUME NEW d \in Commands PROVE ChildCoherent(d)'
  BY <1>0 DEF detach_view, ChildCoherent, TrustedTypeOK, registered, Alive
<1>5. SuccessChanged'
  BY <1>0 DEF detach_view, SuccessChanged, TrustedTypeOK
<1>6. NeverReachesUnregistered'
  BY <1>0 DEF detach_view, NeverReachesUnregistered, TrustedTypeOK
<1>7. NothingLeftBehind'
  BY <1>0, <1>1, <1>3 DEF detach_view, NothingLeftBehind, CommandCoherent, token_of
<1> QED BY <1>1, <1>2, <1>3, <1>4, <1>5, <1>6, <1>7 DEF TrustedIndInv

\* The destroy gives up; the tokens stay forgotten.
LEMMA DestroyFailsPreserves ==
  ASSUME TrustedIndInv, destroy_fails
  PROVE  TrustedIndInv'
<1>0. /\ TrustedTypeOK /\ SessionForgets
      /\ \A d \in Commands : CommandCoherent(d) /\ ChildCoherent(d)
      /\ SuccessChanged /\ NeverReachesUnregistered /\ NothingLeftBehind
  BY DEF TrustedIndInv
<1>1. TrustedTypeOK'
  BY <1>0 DEF destroy_fails, TrustedTypeOK, ChildSteps, has_child, Alive
<1>2. SessionForgets'
  BY <1>0 DEF destroy_fails, SessionForgets
<1>3. ASSUME NEW d \in Commands PROVE CommandCoherent(d)'
  BY <1>0 DEF destroy_fails, CommandCoherent, TrustedTypeOK, registered, token_of,
     has_child, Alive
<1>4. ASSUME NEW d \in Commands PROVE ChildCoherent(d)'
  BY <1>0 DEF destroy_fails, ChildCoherent, TrustedTypeOK, registered, Alive
<1>5. SuccessChanged'
  BY <1>0 DEF destroy_fails, SuccessChanged, TrustedTypeOK
<1>6. NeverReachesUnregistered'
  BY <1>0 DEF destroy_fails, NeverReachesUnregistered, TrustedTypeOK
<1>7. NothingLeftBehind'
  BY <1>0, <1>1, <1>3 DEF destroy_fails, NothingLeftBehind, CommandCoherent, token_of
<1> QED BY <1>1, <1>2, <1>3, <1>4, <1>5, <1>6, <1>7 DEF TrustedIndInv

\* Nothing but the sandbox goes.
LEMMA RemoveSandboxPreserves ==
  ASSUME TrustedIndInv, remove_sandbox
  PROVE  TrustedIndInv'
<1>0. /\ TrustedTypeOK /\ SessionForgets
      /\ \A d \in Commands : CommandCoherent(d) /\ ChildCoherent(d)
      /\ SuccessChanged /\ NeverReachesUnregistered /\ NothingLeftBehind
  BY DEF TrustedIndInv
<1>1. TrustedTypeOK'
  BY <1>0 DEF remove_sandbox, TrustedTypeOK, ChildSteps, has_child, Alive
<1>2. SessionForgets'
  BY <1>0 DEF remove_sandbox, SessionForgets
<1>3. ASSUME NEW d \in Commands PROVE CommandCoherent(d)'
  BY <1>0 DEF remove_sandbox, CommandCoherent, TrustedTypeOK, registered, token_of,
     has_child, Alive
<1>4. ASSUME NEW d \in Commands PROVE ChildCoherent(d)'
  BY <1>0 DEF remove_sandbox, ChildCoherent, TrustedTypeOK, registered, Alive
<1>5. SuccessChanged'
  BY <1>0 DEF remove_sandbox, SuccessChanged, TrustedTypeOK
<1>6. NeverReachesUnregistered'
  BY <1>0 DEF remove_sandbox, NeverReachesUnregistered, TrustedTypeOK
<1>7. NothingLeftBehind'
  BY <1>0, <1>1, <1>3 DEF remove_sandbox, NothingLeftBehind, CommandCoherent, token_of
<1> QED BY <1>1, <1>2, <1>3, <1>4, <1>5, <1>6, <1>7 DEF TrustedIndInv

\* Tokens and views go together, and whoever waits gets an error.
LEMMA SessionEndsPreserves ==
  ASSUME TrustedIndInv, session_ends
  PROVE  TrustedIndInv'
<1>0. /\ TrustedTypeOK /\ SessionForgets
      /\ \A d \in Commands : CommandCoherent(d) /\ ChildCoherent(d)
      /\ SuccessChanged /\ NeverReachesUnregistered /\ NothingLeftBehind
  BY DEF TrustedIndInv
<1>1. TrustedTypeOK'
  BY <1>0 DEF session_ends, TrustedTypeOK, ChildSteps, has_child, Alive
<1>2. SessionForgets'
  BY <1>0 DEF session_ends, SessionForgets
<1>3. ASSUME NEW d \in Commands PROVE CommandCoherent(d)'
  BY <1>0 DEF session_ends, CommandCoherent, TrustedTypeOK, token_of, has_child, Alive
<1>4. ASSUME NEW d \in Commands PROVE ChildCoherent(d)'
  BY <1>0 DEF session_ends, ChildCoherent
<1>5. SuccessChanged'
  BY <1>0 DEF session_ends, SuccessChanged
<1>6. NeverReachesUnregistered'
  BY <1>0 DEF session_ends, NeverReachesUnregistered
<1>7. NothingLeftBehind'
  BY <1>0, <1>1, <1>3 DEF session_ends, NothingLeftBehind, CommandCoherent, token_of
<1> QED BY <1>1, <1>2, <1>3, <1>4, <1>5, <1>6, <1>7 DEF TrustedIndInv

\* What holds before a step of the processes holds after it.
LEMMA ProcessStepPreserves ==
  ASSUME TrustedIndInv, process_step
  PROVE  TrustedIndInv'
<1>1. ASSUME NEW c \in Commands, cli_step(c) PROVE TrustedIndInv'
  BY <1>1, BeginPreserves, ForkPreserves, RegisterPreserves, KillPreserves,
     UnblockPreserves, ReleasePreserves, WaitPreserves, EndPreserves DEF cli_step
<1>2. ASSUME NEW c \in Commands, child_step(c) PROVE TrustedIndInv'
  BY <1>2, ChildClosesPreserves, ChildReadsPreserves, ChildExecsPreserves,
     ChildExitsPreserves, InitReapsPreserves DEF child_step
<1> QED
  BY <1>1, <1>2, ChildOperatesPreserves, ChildKilledPreserves, CliKilledPreserves,
     OtherStartsPreserves, OtherEndsPreserves, AnswerPreserves, DetachPreserves,
     DestroyBeginsPreserves, DestroyFailsPreserves, RemoveSandboxPreserves DEF process_step

\* A step of anything else.
LEMMA StutterPreserves ==
  ASSUME TrustedIndInv, UNCHANGED trustedVars
  PROVE  TrustedIndInv'
  BY DEF TrustedIndInv, TrustedTypeOK, SessionForgets, CommandCoherent, ChildCoherent,
     SuccessChanged, NeverReachesUnregistered, NothingLeftBehind, has_child, token_of,
     registered

\* The induction step.
LEMMA NextPreserves ==
  ASSUME TrustedIndInv, [TrustedNext]_trustedVars
  PROVE  TrustedIndInv'
  BY StartPreserves, ProcessStepPreserves, SessionEndsPreserves, StutterPreserves DEF
     TrustedNext

\* The induction base: no command has begun.
LEMMA InitHolds == TrustedInit => TrustedIndInv
<1> SUFFICES ASSUME TrustedInit PROVE TrustedIndInv
  OBVIOUS
<1>1. TrustedTypeOK
  BY TrustedCommandAssumption DEF TrustedInit, TrustedTypeOK, Steps, ChildSteps,
     Statuses, has_child, Alive
<1>2. SessionForgets /\ SuccessChanged /\ NeverReachesUnregistered /\ NothingLeftBehind
  BY DEF TrustedInit, SessionForgets, SuccessChanged, NeverReachesUnregistered,
     NothingLeftBehind
<1>3. ASSUME NEW c \in Commands PROVE CommandCoherent(c) /\ ChildCoherent(c)
  BY DEF TrustedInit, CommandCoherent, ChildCoherent, token_of, has_child, Alive
<1> QED BY <1>1, <1>2, <1>3 DEF TrustedIndInv

\* The inductive invariant, for any number of commands and pids.
THEOREM TrustedInvariance == TrustedSpec => []TrustedIndInv
<1>1. TrustedIndInv /\ [TrustedNext]_trustedVars => TrustedIndInv'
  BY NextPreserves
<1> QED BY InitHolds, <1>1, PTL DEF TrustedSpec

\* Types, and no two live children with one pid.
THEOREM TrustedTypeCorrect == TrustedSpec => []TrustedTypeOK
<1>1. TrustedIndInv => TrustedTypeOK
  BY DEF TrustedIndInv
<1> QED BY <1>1, TrustedInvariance, PTL

\* cli.rs:746: a child that runs has its pid registered for as long as its view is
\* there and no destroy has forgotten its token, so its change does not wait for an
\* operator, whatever is killed or fails when, even half way through a destroy.
THEOREM RegisteredFirst == TrustedSpec => []NeverReachesUnregistered
<1>1. TrustedIndInv => NeverReachesUnregistered
  BY DEF TrustedIndInv
<1> QED BY <1>1, TrustedInvariance, PTL

\* A command that returned left no child, and while the session is up no token, and
\* no view or directory unless attach or detach failed half way or a destroy had
\* forgotten its token.
THEOREM CleansUp == TrustedSpec => []NothingLeftBehind
<1>1. TrustedIndInv => NothingLeftBehind
  BY DEF TrustedIndInv
<1> QED BY <1>1, TrustedInvariance, PTL
-----------------------------------------------------------------------------
(* The command line. *)

\* A set of numbers that is not empty has a least one: first_word(line) is chosen so.
LEMMA LeastNumber ==
  ASSUME NEW S, S \subseteq Nat, S # {}
  PROVE  \E n \in S : \A m \in S : n <= m
<1>1. PICK n \in S : \A m \in S : ~(<<m, n>> \in OpToRel(<, Nat))
  BY WFMin, NatLessThanWellFounded
<1>2. \A m \in S : ~(m < n)
  BY <1>1 DEF OpToRel
<1> QED BY <1>2

\* The shapes that the rewriting gets right.
Plain(line) == \A n \in DOMAIN line.args : line.args[n] \notin {"-r", "--ref", "--rec"}

\* rewrite_command_path_args moves every path of a plain command line into the view.
\* chmod and chown: the first word that the command does not take for an option is
\* not dashed, so it is a mode or an owner to both, and what comes after it is
\* rewritten.  chattr: the first argument is flags, and everything later that does
\* not look like flags is rewritten.
LEMMA PlainNotAstray ==
  ASSUME NEW line \in Line, Plain(line)
  PROVE  ~goes_astray(line)
<1> SUFFICES ASSUME goes_astray(line) PROVE FALSE
  OBVIOUS
<1>0. /\ line.command \in {"chmod", "chown", "chattr"}
      /\ line.args \in Seq(Shapes)
      /\ DOMAIN line.args = 1..Len(line.args) /\ Len(line.args) \in Nat
  BY DEF Line
<1>1. PICK n \in operands(line) : line.args[n] \in {"/p", "../p"} /\ n \notin rewritten(line)
  BY DEF goes_astray, is_recursive, Plain, Recursive
<1>2. ~rejected(line)
  BY <1>1 DEF operands
<1>3. n \in DOMAIN line.args
  BY <1>0, <1>1 DEF operands, words
<1>4. line.args[n] \notin Dashed \cup {"+i", "--"}
  BY <1>1 DEF Dashed, Long, Recursive
<1>5. n \notin after_mode(line)
  BY <1>1, <1>3, <1>4 DEF rewritten
<1>6. CASE line.command = "chattr"
  <2>1. line.args[1] \in {"+i", "-R"} /\ n # 1
    BY <1>2, <1>3, <1>4, <1>6, <1>0 DEF rejected, Plain, Dashed, Recursive
  <2> QED BY <1>0, <1>3, <1>5, <1>6, <2>1 DEF after_mode
<1>7. CASE line.command # "chattr"
  <2>1. \A m \in DOMAIN line.args : line.args[m] \notin Long
    BY <1>7 DEF goes_astray, refused, Plain, Long
  <2>2. ~from_file(line)
    BY <2>1 DEF from_file
  <2>3. n \in words(line) /\ n # first_word(line)
    BY <1>1, <1>2, <1>7, <2>2 DEF operands
  <2>4. words(line) \subseteq 1..Len(line.args)
    BY <1>0 DEF words
  <2>5. first_word(line) \in words(line) /\ \A m \in words(line) : first_word(line) <= m
    <3>1. \E k \in words(line) : \A m \in words(line) : k <= m
      BY <1>0, <2>3, <2>4, LeastNumber
    <3> QED BY <3>1 DEF first_word
  <2>6. first_word(line) \in 1..n - 1
    BY <1>0, <1>3, <2>3, <2>4, <2>5
  <2>7. line.args[first_word(line)] \in {"word", "+i"}
    BY <1>0, <1>2, <1>7, <2>2, <2>4, <2>5 DEF rejected, Plain
  <2> QED BY <1>0, <1>3, <1>5, <2>6, <2>7 DEF after_mode, Dashed, Long, Recursive
<1> QED BY <1>6, <1>7

OnlyPlainLines == \A line \in CommandLines : Plain(line)

\* No command line that start can pick goes astray.
LEMMA NoneAstray == OnlyPlainLines => "astray" \notin Fates
<1> SUFFICES ASSUME OnlyPlainLines PROVE "astray" \notin Fates
  OBVIOUS
<1>1. ASSUME NEW line \in CommandLines PROVE fate(line) # "astray"
  <2>1. ~goes_astray(line)
    BY CommandLineAssumption, PlainNotAstray DEF OnlyPlainLines
  <2> QED BY <2>1 DEF fate
<1> QED BY <1>1 DEF Fates

\* metadata.md:9, for command lines of any length without a mode with a minus and
\* without an abbreviated --reference or --recursive, which
\* rewrite_command_path_args misses: no running child has a path outside its view.
THEOREM PlainLinesLeaveTheHost == TrustedSpec => [](OnlyPlainLines => HostUntouched)
<1> DEFINE Within == OnlyPlainLines => astray = {}
<1>1. TrustedInit => Within
  BY DEF TrustedInit
<1>2. Within /\ [TrustedNext]_trustedVars => Within'
  BY NoneAstray DEF TrustedNext, process_step, cli_step, child_step, start,
     begin_trusted, fork, register_trusted_pid, kill, unblock, release, waitpid,
     end_trusted, cli_killed, child_closes, child_reads, child_execs, child_operates,
     child_exits, child_killed, init_reaps, other_starts, other_ends, session_ends,
     answer, destroy_begins, detach_view, destroy_fails, remove_sandbox
<1>3. Within => (OnlyPlainLines => HostUntouched)
  BY DEF HostUntouched
<1> QED BY <1>1, <1>2, <1>3, PTL DEF TrustedSpec

HIDE DEF trustedVars, sessionVars, destroyVars, cliVars, childVars, effectVars, session_up

-----------------------------------------------------------------------------
(* The access TUI. *)

USE AccessTuiAssumption DEF Ids

-----------------------------------------------------------------------------
(* The list of the queue. *)

\* A bounded set of numbers that is not empty has a greatest one.
LEMMA GreatestNumber ==
  ASSUME NEW N \in Nat, NEW S \in SUBSET (0..N), S # {}
  PROVE  \E n \in S : \A m \in S : m <= n
<1> DEFINE D == {N - n : n \in S}
<1>1. D \subseteq Nat /\ D # {}
  <2>1. \A n \in S : N - n \in Nat
    OBVIOUS
  <2> QED BY <2>1
<1>2. PICK d \in D : \A e \in D : d <= e
  BY <1>1, LeastNumber
<1>3. PICK n \in S : d = N - n
  OBVIOUS
<1>4. \A m \in S : m <= n
  <2> TAKE m \in S
  <2>1. d <= N - m
    BY <1>2
  <2> QED BY <1>3, <2>1
<1> QED BY <1>4

\* Each rank of a finite set of numbers is the rank of one of them.
LEMMA RankExists ==
  ASSUME NEW N \in Nat, NEW S \in SUBSET (0..N), NEW n \in 1..Cardinality(S)
  PROVE  \E x \in S : Cardinality({i \in S : i <= x}) = n
<1> DEFINE upto(x) == {i \in S : i <= x}
           T == {x \in S : Cardinality(upto(x)) >= n}
<1>1. IsFiniteSet(S) /\ Cardinality(S) \in Nat
  BY FS_BoundedSetOfNaturals, FS_CardinalityType
<1>2. ASSUME NEW U \in SUBSET S
      PROVE  IsFiniteSet(U) /\ Cardinality(U) \in Nat
  BY <1>1, FS_Subset, FS_CardinalityType
<1>3. S # {}
  BY <1>1, FS_EmptySet
<1>4. T # {}
  <2>1. PICK g \in S : \A m \in S : m <= g
    BY <1>3, GreatestNumber
  <2>2. upto(g) = S
    BY <2>1
  <2> QED BY <2>2, <1>1
<1>5. PICK x \in T : \A y \in T : x <= y
  <2>1. T \subseteq S /\ S \subseteq Nat
    OBVIOUS
  <2> QED BY <1>4, <2>1, LeastNumber
<1>6. ASSUME Cardinality(upto(x)) # n PROVE FALSE
  <2> DEFINE B == upto(x) \ {x}
  <2>1. Cardinality(B) = Cardinality(upto(x)) - 1 /\ x \in upto(x)
    BY <1>2, <1>5, FS_RemoveElement
  <2>2. Cardinality(B) >= n /\ B # {}
    BY <1>2, <1>5, <1>6, <2>1, FS_EmptySet
  <2>3. PICK y \in B : \A m \in B : m <= y
    <3>1. B \in SUBSET (0..N)
      OBVIOUS
    <3> QED BY <2>2, <3>1, GreatestNumber
  <2>4. y \in S /\ x \in S /\ S \subseteq Nat /\ y < x
    <3>1. y \in S /\ y <= x /\ y # x /\ x \in S
      BY <1>5, <2>3
    <3> QED BY <3>1
  <2>5. upto(y) = B
    <3>1. ASSUME NEW i \in S PROVE i <= y <=> i <= x /\ i # x
      <4>1. i <= x /\ i # x => i <= y
        BY <2>3
      <4> QED BY <2>4, <4>1
    <3> QED BY <3>1
  <2>6. y \in T
    BY <2>2, <2>4, <2>5
  <2> QED BY <1>5, <2>4, <2>6
<1> QED BY <1>5, <1>6

\* The session lists pending requests only.
LEMMA ListingOfPending ==
  ASSUME NEW n \in 0..MaxRequests, pending \subseteq 1..n
  PROVE  listing \in Seq(1..n)
<1>1. pending \in SUBSET (0..n) /\ n \in Nat
  OBVIOUS
<1>2. Cardinality(pending) \in Nat
  BY <1>1, FS_BoundedSetOfNaturals, FS_CardinalityType
<1>3. ASSUME NEW k \in 1..Cardinality(pending)
      PROVE  (CHOOSE id \in pending : Cardinality({i \in pending : i <= id}) = k) \in pending
  BY <1>1, <1>3, RankExists
<1>4. listing \in [1..Cardinality(pending) -> 1..n]
  BY <1>3 DEF listing
<1> QED BY <1>2, <1>4

-----------------------------------------------------------------------------
(* The steps. *)

USE DEF consoleVars, queueVars, tuiVars

\* Every step of the console is a step of the trusted commands or leaves them alone.
LEMMA ConsoleStep == [ConsoleNext]_consoleVars => [TrustedNext]_trustedVars
  BY DEF ConsoleNext, TrustedNext, tui_step, request_arrives, request_leaves, press,
     session_exits, refresh, no_key, quit, move, resolve_pending_action, edit_refused,
     edit_pending_command, edit_ends, release_original

\* A change that a child has made stays made.
LEMMA ChangedGrows == [TrustedNext]_trustedVars => changed \subseteq changed'
  BY DEF TrustedNext, process_step, cli_step, child_step, start, begin_trusted, fork,
     register_trusted_pid, kill, unblock, release, waitpid, end_trusted, cli_killed,
     child_closes, child_reads, child_execs, child_operates, child_exits, child_killed,
     init_reaps, other_starts, other_ends, session_ends, answer, destroy_begins,
     detach_view, destroy_fails, remove_sandbox, trustedVars, effectVars

\* What the proof of a step starts from.
LEMMA StepFacts ==
  ASSUME ConsoleIndInv, [ConsoleNext]_consoleVars
  PROVE  TrustedIndInv' /\ TrustedTypeOK' /\ changed \subseteq changed'
<1>1. [TrustedNext]_trustedVars
  BY ConsoleStep
<1>2. TrustedIndInv'
  BY <1>1, NextPreserves DEF ConsoleIndInv
<1> QED BY <1>1, <1>2, ChangedGrows DEF TrustedIndInv

\* The typed parts of the invariant, for the steps below.
LEMMA QueueFacts ==
  ASSUME ConsoleIndInv
  PROVE  /\ next_id \in Nat /\ next_id >= 1 /\ next_id <= MaxRequests + 1
         /\ pending \subseteq 1..next_id - 1 /\ 1..next_id - 1 \subseteq Ids
         /\ decision \in [Ids -> Decisions \cup {"none", "other"}]
         /\ target \in 0..next_id - 1
         /\ tui \in {"editing", "release"} => editing \in 1..next_id - 1
<1>1. /\ next_id \in Nat /\ next_id >= 1 /\ next_id <= MaxRequests + 1
      /\ pending \subseteq 1..next_id - 1
      /\ decision \in [Ids -> Decisions \cup {"none", "other"}]
  BY DEF ConsoleIndInv, ConsoleTypeOK
<1>2. 1..next_id - 1 \subseteq Ids
  BY <1>1
<1>3. target \in 0..next_id - 1
  BY <1>1 DEF ConsoleIndInv, ShownArrived, target
<1> QED BY <1>1, <1>2, <1>3 DEF ConsoleIndInv, EditCoherent

\* A message stays true while nobody decides a request again.
LEMMA MessageStays ==
  ASSUME ConsoleIndInv, message' = message, next_id' \in Nat, next_id <= next_id',
         changed \subseteq changed',
         \A id \in Ids : decision[id] # "none" => decision'[id] = decision[id]
  PROVE  MessageArrived' /\ MessageTruthful'
<1>1. MessageArrived /\ MessageTruthful
  BY DEF ConsoleIndInv
<1>2. MessageArrived'
  BY <1>1, QueueFacts DEF MessageArrived
<1>3. message.text # "none" => message.id \in Ids
  BY <1>1, QueueFacts DEF MessageArrived
<1>4. MessageTruthful'
  BY <1>1, <1>3 DEF MessageTruthful, Decisions
<1> QED BY <1>2, <1>4

\* A request arrives under an id that nobody has decided.
LEMMA RequestArrivesPreserves ==
  ASSUME ConsoleIndInv, [ConsoleNext]_consoleVars, request_arrives
  PROVE  ConsoleIndInv'
<1>0. /\ TrustedIndInv /\ ConsoleTypeOK /\ ShownArrived
      /\ UndecidedIsPending /\ EndedIsEmpty /\ EditCoherent
  BY DEF ConsoleIndInv
<1>q. /\ next_id \in Nat /\ next_id >= 1 /\ next_id <= MaxRequests + 1
      /\ pending \subseteq 1..next_id - 1 /\ 1..next_id - 1 \subseteq Ids
      /\ decision \in [Ids -> Decisions \cup {"none", "other"}]
      /\ target \in 0..next_id - 1
      /\ tui \in {"editing", "release"} => editing \in 1..next_id - 1
  BY QueueFacts
<1>1. TrustedIndInv' /\ TrustedTypeOK' /\ changed \subseteq changed'
  BY StepFacts
<1>2. ConsoleTypeOK'
  BY <1>0, <1>1 DEF request_arrives, ConsoleTypeOK, target, EditCoherent
<1>3. ShownArrived'
  BY <1>0, <1>q DEF request_arrives, ShownArrived
<1>4. UndecidedIsPending'
  BY <1>0, <1>q DEF request_arrives, UndecidedIsPending
<1>5. EditCoherent'
  BY <1>0, <1>1, <1>q DEF request_arrives, EditCoherent
<1>6. MessageArrived' /\ MessageTruthful'
  <2>1. \A i \in Ids : decision[i] # "none" => decision'[i] = decision[i]
    BY <1>0, <1>q DEF request_arrives, UndecidedIsPending
  <2>2. message' = message /\ next_id' \in Nat /\ next_id <= next_id'
    BY <1>q DEF request_arrives
  <2> QED BY <1>1, <2>1, <2>2, MessageStays
<1>7. EndedIsEmpty'
  BY <1>0 DEF request_arrives, EndedIsEmpty, session_up, trustedVars, sessionVars,
     destroyVars
<1> QED BY <1>1, <1>2, <1>3, <1>4, <1>5, <1>6, <1>7 DEF ConsoleIndInv

\* A request that is decided elsewhere is not decided yet.
LEMMA RequestLeavesPreserves ==
  ASSUME ConsoleIndInv, [ConsoleNext]_consoleVars, NEW id \in Ids, request_leaves(id)
  PROVE  ConsoleIndInv'
<1>0. /\ TrustedIndInv /\ ConsoleTypeOK /\ ShownArrived
      /\ UndecidedIsPending /\ EndedIsEmpty /\ EditCoherent
  BY DEF ConsoleIndInv
<1>q. /\ next_id \in Nat /\ next_id >= 1 /\ next_id <= MaxRequests + 1
      /\ pending \subseteq 1..next_id - 1 /\ 1..next_id - 1 \subseteq Ids
      /\ decision \in [Ids -> Decisions \cup {"none", "other"}]
      /\ target \in 0..next_id - 1
      /\ tui \in {"editing", "release"} => editing \in 1..next_id - 1
  BY QueueFacts
<1>1. TrustedIndInv' /\ TrustedTypeOK' /\ changed \subseteq changed'
  BY StepFacts
<1>2. ConsoleTypeOK'
  BY <1>0, <1>1 DEF request_leaves, ConsoleTypeOK, target, EditCoherent
<1>3. ShownArrived'
  BY <1>0, <1>q DEF request_leaves, ShownArrived
<1>4. UndecidedIsPending'
  BY <1>0, <1>q DEF request_leaves, UndecidedIsPending
<1>5. EditCoherent'
  BY <1>0, <1>1, <1>q DEF request_leaves, EditCoherent
<1>6. MessageArrived' /\ MessageTruthful'
  <2>1. \A i \in Ids : decision[i] # "none" => decision'[i] = decision[i]
    BY <1>0, <1>q DEF request_leaves, UndecidedIsPending
  <2>2. message' = message /\ next_id' \in Nat /\ next_id <= next_id'
    BY <1>q DEF request_leaves
  <2> QED BY <1>1, <2>1, <2>2, MessageStays
<1>7. EndedIsEmpty'
  BY <1>0 DEF request_leaves, EndedIsEmpty, trustedVars, sessionVars, destroyVars
<1> QED BY <1>1, <1>2, <1>3, <1>4, <1>5, <1>6, <1>7 DEF ConsoleIndInv

\* A key waits to be read.
LEMMA PressPreserves ==
  ASSUME ConsoleIndInv, [ConsoleNext]_consoleVars, NEW k \in Keys, press(k)
  PROVE  ConsoleIndInv'
<1>0. /\ TrustedIndInv /\ ConsoleTypeOK /\ ShownArrived
      /\ UndecidedIsPending /\ EndedIsEmpty /\ EditCoherent
  BY DEF ConsoleIndInv
<1>q. /\ next_id \in Nat /\ next_id >= 1 /\ next_id <= MaxRequests + 1
      /\ pending \subseteq 1..next_id - 1 /\ 1..next_id - 1 \subseteq Ids
      /\ decision \in [Ids -> Decisions \cup {"none", "other"}]
      /\ target \in 0..next_id - 1
      /\ tui \in {"editing", "release"} => editing \in 1..next_id - 1
  BY QueueFacts
<1>1. TrustedIndInv' /\ TrustedTypeOK' /\ changed \subseteq changed'
  BY StepFacts
<1>2. ConsoleTypeOK'
  BY <1>0, <1>1 DEF press, ConsoleTypeOK, target, EditCoherent
<1>3. ShownArrived'
  BY <1>0, <1>q DEF press, ShownArrived
<1>4. UndecidedIsPending'
  BY <1>0, <1>q DEF press, UndecidedIsPending
<1>5. EditCoherent'
  BY <1>0, <1>1, <1>q DEF press, EditCoherent
<1>6. MessageArrived' /\ MessageTruthful'
  <2>1. \A i \in Ids : decision[i] # "none" => decision'[i] = decision[i]
    BY <1>0, <1>q DEF press, UndecidedIsPending
  <2>2. message' = message /\ next_id' \in Nat /\ next_id <= next_id'
    BY <1>q DEF press
  <2> QED BY <1>1, <2>1, <2>2, MessageStays
<1>7. EndedIsEmpty'
  BY <1>0 DEF press, EndedIsEmpty, trustedVars, sessionVars, destroyVars
<1> QED BY <1>1, <1>2, <1>3, <1>4, <1>5, <1>6, <1>7 DEF ConsoleIndInv

\* The end of the session decides the requests that are left.
LEMMA SessionExitsPreserves ==
  ASSUME ConsoleIndInv, [ConsoleNext]_consoleVars, session_exits
  PROVE  ConsoleIndInv'
<1>0. /\ TrustedIndInv /\ ConsoleTypeOK /\ ShownArrived
      /\ UndecidedIsPending /\ EndedIsEmpty /\ EditCoherent
  BY DEF ConsoleIndInv
<1>q. /\ next_id \in Nat /\ next_id >= 1 /\ next_id <= MaxRequests + 1
      /\ pending \subseteq 1..next_id - 1 /\ 1..next_id - 1 \subseteq Ids
      /\ decision \in [Ids -> Decisions \cup {"none", "other"}]
      /\ target \in 0..next_id - 1
      /\ tui \in {"editing", "release"} => editing \in 1..next_id - 1
  BY QueueFacts
<1>1. TrustedIndInv' /\ TrustedTypeOK' /\ changed \subseteq changed'
  BY StepFacts
<1>2. ConsoleTypeOK'
  BY <1>0, <1>1 DEF session_exits, ConsoleTypeOK, target, EditCoherent
<1>3. ShownArrived'
  BY <1>0, <1>q DEF session_exits, ShownArrived
<1>4. UndecidedIsPending'
  BY <1>0, <1>q DEF session_exits, UndecidedIsPending
<1>5. EditCoherent'
  BY <1>0, <1>1, <1>q DEF session_exits, EditCoherent
<1>6. MessageArrived' /\ MessageTruthful'
  <2>1. \A i \in Ids : decision[i] # "none" => decision'[i] = decision[i]
    BY <1>0, <1>q DEF session_exits, UndecidedIsPending
  <2>2. message' = message /\ next_id' \in Nat /\ next_id <= next_id'
    BY <1>q DEF session_exits
  <2> QED BY <1>1, <2>1, <2>2, MessageStays
<1>7. EndedIsEmpty'
  BY <1>0 DEF session_exits, EndedIsEmpty
<1> QED BY <1>1, <1>2, <1>3, <1>4, <1>5, <1>6, <1>7 DEF ConsoleIndInv

\* The new list has pending requests only, and the selection is brought into it.
LEMMA RefreshPreserves ==
  ASSUME ConsoleIndInv, [ConsoleNext]_consoleVars, refresh
  PROVE  ConsoleIndInv'
<1>0. /\ TrustedIndInv /\ ConsoleTypeOK /\ ShownArrived
      /\ UndecidedIsPending /\ EndedIsEmpty /\ EditCoherent
  BY DEF ConsoleIndInv
<1>q. /\ next_id \in Nat /\ next_id >= 1 /\ next_id <= MaxRequests + 1
      /\ pending \subseteq 1..next_id - 1 /\ 1..next_id - 1 \subseteq Ids
      /\ decision \in [Ids -> Decisions \cup {"none", "other"}]
      /\ target \in 0..next_id - 1
      /\ tui \in {"editing", "release"} => editing \in 1..next_id - 1
  BY QueueFacts
<1>1. TrustedIndInv' /\ TrustedTypeOK' /\ changed \subseteq changed'
  BY StepFacts
<1>l. listing \in Seq(1..next_id - 1)
  BY <1>q, ListingOfPending
<1>2. ConsoleTypeOK'
  <2>1. tui' = "poll" /\ shown' # <<>> => target' # 0
    <3> SUFFICES ASSUME tui' = "poll", shown' # <<>> PROVE target' # 0
      OBVIOUS
    <3>1. shown' = listing /\ selected' = IF selected >= Len(listing) /\ listing # <<>>
                                        THEN Len(listing) - 1 ELSE selected
      BY DEF refresh, screen_closes
    <3>2. selected' \in 0..Len(listing) - 1
      BY <1>0, <1>l, <3>1 DEF ShownArrived
    <3> QED BY <1>l, <1>q, <3>1, <3>2 DEF target
  <2> QED BY <1>0, <1>1, <2>1 DEF refresh, screen_closes, ConsoleTypeOK
<1>3. ShownArrived'
  <2>1. listing # <<>> => Len(listing) - 1 \in Nat
    BY <1>l
  <2>2. CASE session_up
    BY <1>0, <1>l, <2>1, <2>2 DEF refresh, ShownArrived
  <2>3. CASE ~session_up
    <3>1. shown' = <<>> /\ selected' = 0 /\ next_id' = next_id
      BY <2>3 DEF refresh, screen_closes
    <3>2. <<>> \in Seq(1..next_id - 1) /\ 0 \in Nat
      OBVIOUS
    <3> QED BY <3>1, <3>2 DEF ShownArrived
  <2> QED BY <2>2, <2>3
<1>4. UndecidedIsPending'
  BY <1>0, <1>q DEF refresh, screen_closes, UndecidedIsPending
<1>5. EditCoherent'
  BY <1>0, <1>1, <1>q DEF refresh, screen_closes, EditCoherent
<1>6. MessageArrived' /\ MessageTruthful'
  <2>1. \A i \in Ids : decision[i] # "none" => decision'[i] = decision[i]
    BY <1>0, <1>q DEF refresh, screen_closes, UndecidedIsPending
  <2>2. message' = message /\ next_id' \in Nat /\ next_id <= next_id'
    BY <1>q DEF refresh, screen_closes
  <2> QED BY <1>1, <2>1, <2>2, MessageStays
<1>7. EndedIsEmpty'
  BY <1>0 DEF refresh, screen_closes, EndedIsEmpty, trustedVars, sessionVars, destroyVars
<1> QED BY <1>1, <1>2, <1>3, <1>4, <1>5, <1>6, <1>7 DEF ConsoleIndInv

\* Nothing was typed.
LEMMA NoKeyPreserves ==
  ASSUME ConsoleIndInv, [ConsoleNext]_consoleVars, no_key
  PROVE  ConsoleIndInv'
<1>0. /\ TrustedIndInv /\ ConsoleTypeOK /\ ShownArrived
      /\ UndecidedIsPending /\ EndedIsEmpty /\ EditCoherent
  BY DEF ConsoleIndInv
<1>q. /\ next_id \in Nat /\ next_id >= 1 /\ next_id <= MaxRequests + 1
      /\ pending \subseteq 1..next_id - 1 /\ 1..next_id - 1 \subseteq Ids
      /\ decision \in [Ids -> Decisions \cup {"none", "other"}]
      /\ target \in 0..next_id - 1
      /\ tui \in {"editing", "release"} => editing \in 1..next_id - 1
  BY QueueFacts
<1>1. TrustedIndInv' /\ TrustedTypeOK' /\ changed \subseteq changed'
  BY StepFacts
<1>2. ConsoleTypeOK'
  BY <1>0, <1>1 DEF no_key, ConsoleTypeOK, EditCoherent
<1>3. ShownArrived'
  BY <1>0, <1>q DEF no_key, ShownArrived
<1>4. UndecidedIsPending'
  BY <1>0, <1>q DEF no_key, UndecidedIsPending
<1>5. EditCoherent'
  BY <1>0, <1>1, <1>q DEF no_key, EditCoherent
<1>6. MessageArrived' /\ MessageTruthful'
  <2>1. \A i \in Ids : decision[i] # "none" => decision'[i] = decision[i]
    BY <1>0, <1>q DEF no_key, UndecidedIsPending
  <2>2. message' = message /\ next_id' \in Nat /\ next_id <= next_id'
    BY <1>q DEF no_key
  <2> QED BY <1>1, <2>1, <2>2, MessageStays
<1>7. EndedIsEmpty'
  BY <1>0 DEF no_key, EndedIsEmpty, trustedVars, sessionVars, destroyVars
<1> QED BY <1>1, <1>2, <1>3, <1>4, <1>5, <1>6, <1>7 DEF ConsoleIndInv

\* The TUI ends.
LEMMA QuitPreserves ==
  ASSUME ConsoleIndInv, [ConsoleNext]_consoleVars, quit
  PROVE  ConsoleIndInv'
<1>0. /\ TrustedIndInv /\ ConsoleTypeOK /\ ShownArrived
      /\ UndecidedIsPending /\ EndedIsEmpty /\ EditCoherent
  BY DEF ConsoleIndInv
<1>q. /\ next_id \in Nat /\ next_id >= 1 /\ next_id <= MaxRequests + 1
      /\ pending \subseteq 1..next_id - 1 /\ 1..next_id - 1 \subseteq Ids
      /\ decision \in [Ids -> Decisions \cup {"none", "other"}]
      /\ target \in 0..next_id - 1
      /\ tui \in {"editing", "release"} => editing \in 1..next_id - 1
  BY QueueFacts
<1>1. TrustedIndInv' /\ TrustedTypeOK' /\ changed \subseteq changed'
  BY StepFacts
<1>2. ConsoleTypeOK'
  BY <1>0, <1>1 DEF quit, screen_closes, ConsoleTypeOK, EditCoherent
<1>3. ShownArrived'
  BY <1>0, <1>q DEF quit, screen_closes, ShownArrived
<1>4. UndecidedIsPending'
  BY <1>0, <1>q DEF quit, screen_closes, UndecidedIsPending
<1>5. EditCoherent'
  BY <1>0, <1>1, <1>q DEF quit, screen_closes, EditCoherent
<1>6. MessageArrived' /\ MessageTruthful'
  <2>1. \A i \in Ids : decision[i] # "none" => decision'[i] = decision[i]
    BY <1>0, <1>q DEF quit, screen_closes, UndecidedIsPending
  <2>2. message' = message /\ next_id' \in Nat /\ next_id <= next_id'
    BY <1>q DEF quit, screen_closes
  <2> QED BY <1>1, <2>1, <2>2, MessageStays
<1>7. EndedIsEmpty'
  BY <1>0 DEF quit, screen_closes, EndedIsEmpty, trustedVars, sessionVars, destroyVars
<1> QED BY <1>1, <1>2, <1>3, <1>4, <1>5, <1>6, <1>7 DEF ConsoleIndInv

\* The selection moves, and the list is fetched before it is used.
LEMMA MovePreserves ==
  ASSUME ConsoleIndInv, [ConsoleNext]_consoleVars, move
  PROVE  ConsoleIndInv'
<1>0. /\ TrustedIndInv /\ ConsoleTypeOK /\ ShownArrived
      /\ UndecidedIsPending /\ EndedIsEmpty /\ EditCoherent
  BY DEF ConsoleIndInv
<1>q. /\ next_id \in Nat /\ next_id >= 1 /\ next_id <= MaxRequests + 1
      /\ pending \subseteq 1..next_id - 1 /\ 1..next_id - 1 \subseteq Ids
      /\ decision \in [Ids -> Decisions \cup {"none", "other"}]
      /\ target \in 0..next_id - 1
      /\ tui \in {"editing", "release"} => editing \in 1..next_id - 1
  BY QueueFacts
<1>1. TrustedIndInv' /\ TrustedTypeOK' /\ changed \subseteq changed'
  BY StepFacts
<1>2. ConsoleTypeOK'
  BY <1>0, <1>1 DEF move, ConsoleTypeOK, EditCoherent
<1>3. ShownArrived'
  <2>1. ASSUME NEW m \in Nat, NEW n \in Nat PROVE Min({m, n}) \in Nat
    <3>1. \E x \in {m, n} : \A y \in {m, n} : x <= y
      BY <2>1
    <3> QED BY <3>1 DEF Min
  <2>2. (IF shown = <<>> THEN 0 ELSE Len(shown) - 1) \in Nat
    BY <1>0
  <2>3. selected + 1 \in Nat /\ (selected # 0 => selected - 1 \in Nat)
    BY <1>0 DEF ShownArrived
  <2>4. selected' \in Nat
    BY <2>1, <2>2, <2>3 DEF move
  <2> QED BY <1>0, <2>4 DEF move, ShownArrived
<1>4. UndecidedIsPending'
  BY <1>0, <1>q DEF move, UndecidedIsPending
<1>5. EditCoherent'
  BY <1>0, <1>1, <1>q DEF move, EditCoherent
<1>6. MessageArrived' /\ MessageTruthful'
  <2>1. \A i \in Ids : decision[i] # "none" => decision'[i] = decision[i]
    BY <1>0, <1>q DEF move, UndecidedIsPending
  <2>2. message' = message /\ next_id' \in Nat /\ next_id <= next_id'
    BY <1>q DEF move
  <2> QED BY <1>1, <2>1, <2>2, MessageStays
<1>7. EndedIsEmpty'
  BY <1>0 DEF move, EndedIsEmpty, trustedVars, sessionVars, destroyVars
<1> QED BY <1>1, <1>2, <1>3, <1>4, <1>5, <1>6, <1>7 DEF ConsoleIndInv

\* The message is about the target, which was decided just now or had left the queue.
LEMMA ResolvePreserves ==
  ASSUME ConsoleIndInv, [ConsoleNext]_consoleVars, resolve_pending_action
  PROVE  ConsoleIndInv'
<1>0. /\ TrustedIndInv /\ ConsoleTypeOK /\ ShownArrived
      /\ UndecidedIsPending /\ EndedIsEmpty /\ EditCoherent
  BY DEF ConsoleIndInv
<1>q. /\ next_id \in Nat /\ next_id >= 1 /\ next_id <= MaxRequests + 1
      /\ pending \subseteq 1..next_id - 1 /\ 1..next_id - 1 \subseteq Ids
      /\ decision \in [Ids -> Decisions \cup {"none", "other"}]
      /\ target \in 0..next_id - 1
      /\ tui \in {"editing", "release"} => editing \in 1..next_id - 1
  BY QueueFacts
<1>1. TrustedIndInv' /\ TrustedTypeOK' /\ changed \subseteq changed'
  BY StepFacts
<1>2. ConsoleTypeOK'
  <2>1. next_id' = next_id /\ pending' \subseteq pending
    BY DEF resolve_pending_action
  <2>2. decision' \in [Ids -> Decisions \cup {"none", "other"}]
    BY <1>q DEF resolve_pending_action
  <2>3. /\ tui' \in {"fetch", "ended"} /\ key' = NoKey
        /\ editing' \in {0, editing}
    BY DEF resolve_pending_action, screen_closes, next_round
  <2> QED BY <1>0, <1>1, <2>1, <2>2, <2>3 DEF ConsoleTypeOK
<1>3. ShownArrived'
  <2>1. (shown' = <<>> /\ selected' = 0) \/ (shown' = shown /\ selected' = selected)
    BY DEF resolve_pending_action, screen_closes, next_round
  <2>2. next_id' = next_id
    BY DEF resolve_pending_action
  <2>3. <<>> \in Seq(1..next_id - 1) /\ 0 \in Nat
    OBVIOUS
  <2> QED BY <1>0, <2>1, <2>2, <2>3 DEF ShownArrived
<1>4. UndecidedIsPending'
  BY <1>0, <1>q DEF resolve_pending_action, UndecidedIsPending, Decisions
<1>5. EditCoherent'
  BY <1>0, <1>1, <1>q DEF resolve_pending_action, screen_closes, next_round, EditCoherent
<1>6. MessageArrived' /\ MessageTruthful'
  <2>1. CASE UNCHANGED <<pending, decision, message>>
    <3>1. next_id' = next_id
      BY DEF resolve_pending_action
    <3> QED BY <1>1, <1>q, <2>1, <3>1, MessageStays
  <2>2. CASE session_up /\ target # 0 /\ message' \in [text : {key, "error"}, id : {target}]
             /\ decision' = [decision EXCEPT ![target] = key] /\ target \in pending
    <3>1. key \in Decisions /\ next_id' = next_id
      BY DEF resolve_pending_action
    <3>2. decision'[target] = key /\ target \in 1..next_id - 1
      BY <1>q, <2>2
    <3>3. message'.text \in {key, "error"} /\ message'.id = target
      BY <2>2
    <3>4. MessageArrived'
      BY <1>q, <2>2, <3>1, <3>2 DEF MessageArrived, Texts
    <3>5. MessageTruthful'
      BY <3>1, <3>2, <3>3 DEF MessageTruthful, Decisions
    <3> QED BY <3>4, <3>5
  <2>3. CASE session = "removed" /\ message' = [text |-> "error", id |-> target]
             /\ decision' = [decision EXCEPT ![target] = "other"] /\ target \in pending
    <3>1. next_id' = next_id
      BY DEF resolve_pending_action
    <3>2. decision'[target] = "other" /\ target \in 1..next_id - 1
      BY <1>q, <2>3
    <3> QED BY <1>q, <2>3, <3>1, <3>2 DEF MessageArrived, MessageTruthful, Texts,
               Decisions
  <2>4. CASE target # 0 /\ target \notin pending /\ decision' = decision
             /\ message' = [text |-> "error", id |-> target]
    <3>1. next_id' = next_id
      BY DEF resolve_pending_action
    <3>2. target \in 1..next_id - 1 /\ decision[target] # "none"
      BY <1>0, <1>q, <2>4 DEF UndecidedIsPending
    <3> QED BY <1>q, <2>4, <3>1, <3>2 DEF MessageArrived, MessageTruthful, Texts,
               Decisions
  <2>5. 0 \notin pending
    BY <1>q
  <2> QED BY <2>1, <2>2, <2>3, <2>4, <2>5 DEF resolve_pending_action
<1>7. EndedIsEmpty'
  BY <1>0 DEF resolve_pending_action, EndedIsEmpty, trustedVars, sessionVars, destroyVars
<1> QED BY <1>1, <1>2, <1>3, <1>4, <1>5, <1>6, <1>7 DEF ConsoleIndInv

\* The message says nothing about a decision.
LEMMA EditRefusedPreserves ==
  ASSUME ConsoleIndInv, [ConsoleNext]_consoleVars, edit_refused
  PROVE  ConsoleIndInv'
<1>0. /\ TrustedIndInv /\ ConsoleTypeOK /\ ShownArrived
      /\ UndecidedIsPending /\ EndedIsEmpty /\ EditCoherent
  BY DEF ConsoleIndInv
<1>q. /\ next_id \in Nat /\ next_id >= 1 /\ next_id <= MaxRequests + 1
      /\ pending \subseteq 1..next_id - 1 /\ 1..next_id - 1 \subseteq Ids
      /\ decision \in [Ids -> Decisions \cup {"none", "other"}]
      /\ target \in 0..next_id - 1
      /\ tui \in {"editing", "release"} => editing \in 1..next_id - 1
  BY QueueFacts
<1>1. TrustedIndInv' /\ TrustedTypeOK' /\ changed \subseteq changed'
  BY StepFacts
<1>2. ConsoleTypeOK'
  BY <1>0, <1>1 DEF edit_refused, next_round, ConsoleTypeOK, EditCoherent
<1>3. ShownArrived'
  BY <1>0, <1>q DEF edit_refused, next_round, ShownArrived
<1>4. UndecidedIsPending'
  BY <1>0, <1>q DEF edit_refused, UndecidedIsPending
<1>5. EditCoherent'
  BY <1>0, <1>1, <1>q DEF edit_refused, next_round, EditCoherent
<1>6. MessageArrived' /\ MessageTruthful'
  <2>1. UNCHANGED <<decision, next_id>>
    BY DEF edit_refused
  <2>2. CASE target = 0
    BY <1>1, <1>q, <2>1, <2>2, MessageStays DEF edit_refused
  <2>3. CASE target # 0
    BY <1>q, <2>1, <2>3 DEF edit_refused, MessageArrived, MessageTruthful, Texts,
       Decisions
  <2> QED BY <2>2, <2>3
<1>7. EndedIsEmpty'
  BY <1>0 DEF edit_refused, EndedIsEmpty, trustedVars, sessionVars, destroyVars
<1> QED BY <1>1, <1>2, <1>3, <1>4, <1>5, <1>6, <1>7 DEF ConsoleIndInv

\* The request of the edit is one of the list.
LEMMA EditStartsPreserves ==
  ASSUME ConsoleIndInv, [ConsoleNext]_consoleVars, edit_pending_command
  PROVE  ConsoleIndInv'
<1>0. /\ TrustedIndInv /\ ConsoleTypeOK /\ ShownArrived
      /\ UndecidedIsPending /\ EndedIsEmpty /\ EditCoherent
  BY DEF ConsoleIndInv
<1>q. /\ next_id \in Nat /\ next_id >= 1 /\ next_id <= MaxRequests + 1
      /\ pending \subseteq 1..next_id - 1 /\ 1..next_id - 1 \subseteq Ids
      /\ decision \in [Ids -> Decisions \cup {"none", "other"}]
      /\ target \in 0..next_id - 1
      /\ tui \in {"editing", "release"} => editing \in 1..next_id - 1
  BY QueueFacts
<1>1. TrustedIndInv' /\ TrustedTypeOK' /\ changed \subseteq changed'
  BY StepFacts
<1>2. ConsoleTypeOK'
  BY <1>0, <1>1, <1>q DEF edit_pending_command, screen_closes, ConsoleTypeOK, EditCoherent
<1>3. ShownArrived'
  <2>1. (shown' = <<>> /\ selected' = 0) \/ (shown' = shown /\ selected' = selected)
    BY DEF edit_pending_command, screen_closes
  <2>2. next_id' = next_id
    BY DEF edit_pending_command
  <2>3. <<>> \in Seq(1..next_id - 1) /\ 0 \in Nat
    OBVIOUS
  <2> QED BY <1>0, <2>1, <2>2, <2>3 DEF ShownArrived
<1>4. UndecidedIsPending'
  BY <1>0, <1>q DEF edit_pending_command, UndecidedIsPending
<1>5. EditCoherent'
  BY <1>0, <1>1, <1>q DEF edit_pending_command, screen_closes, EditCoherent
<1>6. MessageArrived' /\ MessageTruthful'
  <2>1. \A i \in Ids : decision[i] # "none" => decision'[i] = decision[i]
    BY <1>0, <1>q DEF edit_pending_command, UndecidedIsPending
  <2>2. message' = message /\ next_id' \in Nat /\ next_id <= next_id'
    BY <1>q DEF edit_pending_command
  <2> QED BY <1>1, <2>1, <2>2, MessageStays
<1>7. EndedIsEmpty'
  BY <1>0 DEF edit_pending_command, EndedIsEmpty, start, trustedVars, sessionVars,
     destroyVars
<1> QED BY <1>1, <1>2, <1>3, <1>4, <1>5, <1>6, <1>7 DEF ConsoleIndInv

\* The original is released only after success, which means that the change was made.
LEMMA EditEndsPreserves ==
  ASSUME ConsoleIndInv, [ConsoleNext]_consoleVars, edit_ends
  PROVE  ConsoleIndInv'
<1>0. /\ TrustedIndInv /\ ConsoleTypeOK /\ ShownArrived
      /\ UndecidedIsPending /\ EndedIsEmpty /\ EditCoherent
  BY DEF ConsoleIndInv
<1>q. /\ next_id \in Nat /\ next_id >= 1 /\ next_id <= MaxRequests + 1
      /\ pending \subseteq 1..next_id - 1 /\ 1..next_id - 1 \subseteq Ids
      /\ decision \in [Ids -> Decisions \cup {"none", "other"}]
      /\ target \in 0..next_id - 1
      /\ tui \in {"editing", "release"} => editing \in 1..next_id - 1
  BY QueueFacts
<1>1. TrustedIndInv' /\ TrustedTypeOK' /\ changed \subseteq changed'
  BY StepFacts
<1>2. ConsoleTypeOK'
  BY <1>0, <1>1 DEF edit_ends, ConsoleTypeOK, EditCoherent
<1>3. ShownArrived'
  BY <1>0, <1>q DEF edit_ends, ShownArrived
<1>4. UndecidedIsPending'
  BY <1>0, <1>q DEF edit_ends, UndecidedIsPending
<1>5. EditCoherent'
  BY <1>0, <1>1, <1>q DEF edit_ends, EditCoherent, TrustedIndInv, SuccessChanged
<1>6. MessageArrived' /\ MessageTruthful'
  <2>1. UNCHANGED <<decision, next_id>> /\ editing \in 1..next_id - 1
    BY <1>q DEF edit_ends
  <2>2. CASE message' = message
    BY <1>1, <1>q, <2>1, <2>2, MessageStays
  <2>3. CASE message' = [text |-> "edit_failed", id |-> editing]
    <3>1. message'.text = "edit_failed"
      BY <2>3
    <3>2. message' \in [text : Texts, id : 0..next_id - 1] /\ message'.id # 0
      BY <2>1, <2>3 DEF Texts
    <3> QED BY <2>1, <3>1, <3>2 DEF MessageArrived, MessageTruthful, Decisions
  <2> QED BY <2>2, <2>3 DEF edit_ends
<1>7. EndedIsEmpty'
  BY <1>0 DEF edit_ends, EndedIsEmpty, trustedVars, sessionVars, destroyVars
<1> QED BY <1>1, <1>2, <1>3, <1>4, <1>5, <1>6, <1>7 DEF ConsoleIndInv

\* The original is decided here, or had left the queue.
LEMMA ReleaseOriginalPreserves ==
  ASSUME ConsoleIndInv, [ConsoleNext]_consoleVars, release_original
  PROVE  ConsoleIndInv'
<1>0. /\ TrustedIndInv /\ ConsoleTypeOK /\ ShownArrived
      /\ UndecidedIsPending /\ EndedIsEmpty /\ EditCoherent
  BY DEF ConsoleIndInv
<1>q. /\ next_id \in Nat /\ next_id >= 1 /\ next_id <= MaxRequests + 1
      /\ pending \subseteq 1..next_id - 1 /\ 1..next_id - 1 \subseteq Ids
      /\ decision \in [Ids -> Decisions \cup {"none", "other"}]
      /\ target \in 0..next_id - 1
      /\ tui \in {"editing", "release"} => editing \in 1..next_id - 1
  BY QueueFacts
<1>1. TrustedIndInv' /\ TrustedTypeOK' /\ changed \subseteq changed'
  BY StepFacts
<1>2. ConsoleTypeOK'
  BY <1>0, <1>1, <1>q DEF release_original, Decisions, ConsoleTypeOK, EditCoherent
<1>3. ShownArrived'
  BY <1>0, <1>q DEF release_original, ShownArrived
<1>4. UndecidedIsPending'
  <2>1. CASE editing \in pending
    <3>1. /\ pending' = pending \ {editing} /\ next_id' = next_id
          /\ \E d \in {"do_nothing", "other"} : decision' = [decision EXCEPT ![editing] = d]
      BY <2>1 DEF release_original
    <3> QED BY <1>0, <1>q, <2>1, <3>1 DEF UndecidedIsPending
  <2>2. CASE editing \notin pending
    <3>1. UNCHANGED <<pending, decision, next_id>>
      BY <2>2 DEF release_original
    <3> QED BY <1>0, <3>1 DEF UndecidedIsPending
  <2> QED BY <2>1, <2>2
<1>5. EditCoherent'
  BY <1>0, <1>1, <1>q DEF release_original, EditCoherent
<1>6. MessageArrived' /\ MessageTruthful'
  <2>1. next_id' = next_id /\ editing \in 1..next_id - 1 /\ EditCommand \in changed'
    BY <1>0, <1>1, <1>q DEF release_original, EditCoherent
  <2>2. \/ /\ editing \in pending
           /\ pending' = pending \ {editing}
           /\ decision' = [decision EXCEPT ![editing] = "do_nothing"]
           /\ message' \in [text : {"edited", "not_released"}, id : {editing}]
        \/ /\ editing \in pending
           /\ pending' = pending \ {editing}
           /\ decision' = [decision EXCEPT ![editing] = "other"]
           /\ message' = [text |-> "not_released", id |-> editing]
        \/ /\ editing \notin pending
           /\ message' = [text |-> "not_released", id |-> editing]
           /\ UNCHANGED <<pending, decision>>
    BY DEF release_original
  <2>3. message'.id = editing /\ message'.text \in {"edited", "not_released"}
    BY <2>2
  <2>4. /\ decision'[editing] # "none"
        /\ message'.text = "edited" => decision'[editing] = "do_nothing"
    <3>1. editing \notin pending => decision[editing] # "none"
      BY <1>0, <1>q, <2>1 DEF UndecidedIsPending
    <3> QED BY <1>q, <2>1, <2>2, <3>1
  <2>5. MessageArrived'
    <3>1. message' \in [text : {"edited", "not_released"}, id : {editing}]
      BY <2>2
    <3>2. message' \in [text : Texts, id : 0..next_id - 1] /\ message'.id # 0
      BY <2>1, <3>1 DEF Texts
    <3> QED BY <2>1, <3>2 DEF MessageArrived
  <2>6. MessageTruthful'
    BY <2>1, <2>3, <2>4 DEF MessageTruthful, Decisions
  <2> QED BY <2>5, <2>6
<1>7. EndedIsEmpty'
  BY <1>0 DEF release_original, EndedIsEmpty, trustedVars, sessionVars, destroyVars
<1> QED BY <1>1, <1>2, <1>3, <1>4, <1>5, <1>6, <1>7 DEF ConsoleIndInv

\* The trusted commands run: a change stays made.
LEMMA ProcessPreserves ==
  ASSUME ConsoleIndInv, [ConsoleNext]_consoleVars, process_step /\ UNCHANGED <<queueVars, tuiVars>>
  PROVE  ConsoleIndInv'
<1>0. /\ TrustedIndInv /\ ConsoleTypeOK /\ ShownArrived
      /\ UndecidedIsPending /\ EndedIsEmpty /\ EditCoherent
  BY DEF ConsoleIndInv
<1>q. /\ next_id \in Nat /\ next_id >= 1 /\ next_id <= MaxRequests + 1
      /\ pending \subseteq 1..next_id - 1 /\ 1..next_id - 1 \subseteq Ids
      /\ decision \in [Ids -> Decisions \cup {"none", "other"}]
      /\ target \in 0..next_id - 1
      /\ tui \in {"editing", "release"} => editing \in 1..next_id - 1
  BY QueueFacts
<1>1. TrustedIndInv' /\ TrustedTypeOK' /\ changed \subseteq changed'
  BY StepFacts
<1>2. ConsoleTypeOK'
  BY <1>0, <1>1 DEF ConsoleTypeOK, target, EditCoherent
<1>3. ShownArrived'
  BY <1>0, <1>q DEF ShownArrived
<1>4. UndecidedIsPending'
  BY <1>0, <1>q DEF UndecidedIsPending
<1>5. EditCoherent'
  BY <1>0, <1>1, <1>q DEF EditCoherent
<1>6. MessageArrived' /\ MessageTruthful'
  <2>1. \A i \in Ids : decision[i] # "none" => decision'[i] = decision[i]
    BY <1>0, <1>q DEF UndecidedIsPending
  <2>2. message' = message /\ next_id' \in Nat /\ next_id <= next_id'
    BY <1>q
  <2> QED BY <1>1, <2>1, <2>2, MessageStays
<1>7. EndedIsEmpty'
  BY <1>0 DEF EndedIsEmpty, process_step, cli_step, child_step, begin_trusted, fork,
     register_trusted_pid, kill, unblock, release, waitpid, end_trusted, cli_killed,
     child_closes, child_reads, child_execs, child_operates, child_exits, child_killed,
     init_reaps, other_starts, other_ends, answer, destroy_begins, detach_view,
     destroy_fails, remove_sandbox, sessionVars, destroyVars
<1> QED BY <1>1, <1>2, <1>3, <1>4, <1>5, <1>6, <1>7 DEF ConsoleIndInv

\* The induction step.
LEMMA ConsoleNextPreserves ==
  ASSUME ConsoleIndInv, [ConsoleNext]_consoleVars
  PROVE  ConsoleIndInv'
<1>1. CASE UNCHANGED consoleVars
  <2>1. TrustedIndInv'
    BY StepFacts
  <2>2. UNCHANGED <<changed, session>> /\ TrustedTypeOK'
    BY <1>1, <2>1 DEF trustedVars, sessionVars, destroyVars, effectVars, TrustedIndInv
  <2> QED BY <1>1, <2>1, <2>2 DEF ConsoleIndInv, ConsoleTypeOK, ShownArrived,
             UndecidedIsPending, EndedIsEmpty, EditCoherent, MessageArrived,
             MessageTruthful, target
<1>2. CASE tui_step
  BY <1>2, RefreshPreserves, NoKeyPreserves, QuitPreserves, MovePreserves,
     ResolvePreserves, EditRefusedPreserves, EditStartsPreserves, EditEndsPreserves,
     ReleaseOriginalPreserves DEF tui_step
<1> QED
  BY <1>1, <1>2, RequestArrivesPreserves, RequestLeavesPreserves, PressPreserves,
     SessionExitsPreserves, ProcessPreserves DEF ConsoleNext

\* The induction base: no request, nothing drawn, no message.
LEMMA ConsoleInitHolds == TuiInit => ConsoleIndInv
<1> SUFFICES ASSUME TuiInit PROVE ConsoleIndInv
  OBVIOUS
<1>1. TrustedIndInv
  BY InitHolds DEF TuiInit
<1>2. ConsoleTypeOK
  BY <1>1 DEF TuiInit, ConsoleTypeOK, TrustedIndInv
<1> QED
  BY <1>1, <1>2 DEF TuiInit, ConsoleIndInv, ShownArrived, UndecidedIsPending,
     EndedIsEmpty, EditCoherent, MessageArrived, MessageTruthful, Texts, Decisions

\* The inductive invariant of the console.
THEOREM ConsoleInvariance == ConsoleSpec => []ConsoleIndInv
<1>1. ConsoleIndInv /\ [ConsoleNext]_consoleVars => ConsoleIndInv'
  BY ConsoleNextPreserves
<1> QED BY ConsoleInitHolds, <1>1, PTL DEF ConsoleSpec

\* Types; while a list is drawn that is not empty, a key has a row to apply to.
THEOREM ConsoleTypeCorrect == ConsoleSpec => []ConsoleTypeOK
<1>1. ConsoleIndInv => ConsoleTypeOK
  BY DEF ConsoleIndInv
<1> QED BY <1>1, ConsoleInvariance, PTL

\* CONTEXT.md:38: what the TUI reports is what became of the request, whoever else
\* decides requests, kills processes or ends the session meanwhile.
THEOREM ReportsTheTruth == ConsoleSpec => []MessageTruthful
<1>1. ConsoleIndInv => MessageTruthful
  BY DEF ConsoleIndInv
<1> QED BY <1>1, ConsoleInvariance, PTL

\* What TrustedCommand promises holds under the TUI too: it starts and ends commands
\* by the steps of TrustedCommand only.
THEOREM TrustedUnderConsole ==
  ConsoleSpec => [](NeverReachesUnregistered /\ NothingLeftBehind)
<1>1. ConsoleIndInv => NeverReachesUnregistered /\ NothingLeftBehind
  BY DEF ConsoleIndInv, TrustedIndInv
<1> QED BY <1>1, ConsoleInvariance, PTL

\* The console implements the specification of the trusted command, the fairness of its
\* processes included: every step of the TUI, the queue and the operator is a step of
\* TrustedCommand or leaves its processes, tokens, views and pids alone.
THEOREM ConsoleImplementsTrusted == ConsoleSpec => TrustedSpec
<1>1. TuiInit => TrustedInit
  BY DEF TuiInit
<1> QED BY <1>1, ConsoleStep, PTL DEF ConsoleSpec, TrustedSpec
=============================================================================
