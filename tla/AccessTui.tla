------------------------------- MODULE AccessTui -------------------------------
(***************************************************************************)
(* The access TUI: its loop fetches the pending requests, draws them,      *)
(* waits for a key and applies it to the selected row.  The edit key runs  *)
(* a trusted command (TrustedCommand) and then allows the original request *)
(* with do-nothing.                                                        *)
(*                                                                         *)
(* The queue of the session is the set of pending ids here; requests       *)
(* arrive, and other operators, replacement and cancellation decide them   *)
(* at any time (ReadWriteAuth and MetadataAuth say how).                   *)
(***************************************************************************)
EXTENDS TrustedCommand, Sequences, FiniteSetsExt

CONSTANTS
    EditCommand,    \* the trusted command that the edit key runs
    MaxRequests,    \* bound: requests that arrive
    MetadataIds,    \* the requests that are metadata changes
    Keys,           \* the keys that are pressed
    NoKey

Ids == 1..MaxRequests
Decisions == {"apply", "do_nothing", "deny"}

ASSUME AccessTuiAssumption ==
    /\ EditCommand \in Commands
    /\ MaxRequests \in Nat
    /\ MetadataIds \subseteq Ids
    /\ Keys \subseteq Decisions \cup {"edit", "quit", "up", "down"}
    /\ NoKey \notin Keys

VARIABLES
    next_id,    \* the id of the next request
    pending,    \* the ids in the queue
    decision,   \* history: how each request was decided, "other" if not here
    tui,        \* where run_loop is
    shown,      \* the list drawn last
    selected,   \* the selected row, from 0
    editing,    \* the request whose edit is under way
    message,    \* the message and the request it is about
    key         \* the key that waits to be read

queueVars == <<next_id, pending, decision>>
tuiVars == <<tui, shown, selected, editing, message, key>>
consoleVars == <<trustedVars, queueVars, tuiVars>>

TuiInit ==
    /\ TrustedInit
    /\ next_id = 1
    /\ pending = {}
    /\ decision = [id \in Ids |-> "none"]
    /\ tui = "fetch"
    /\ shown = <<>>
    /\ selected = 0
    /\ editing = 0
    /\ message = [text |-> "none", id |-> 0]
    /\ key = NoKey

\* The queue as the session lists it: in the order of the ids.
listing == [n \in 1..Cardinality(pending) |->
               CHOOSE id \in pending : Cardinality({i \in pending : i <= id}) = n]

\* The request a key is applied to, 0 if the selected row does not exist.
target == IF selected < Len(shown) THEN shown[selected + 1] ELSE 0

-----------------------------------------------------------------------------
(* The queue, the operator, and the end of the session. *)

request_arrives ==
    /\ session_up
    /\ next_id <= MaxRequests
    /\ pending' = pending \cup {next_id}
    /\ next_id' = next_id + 1
    /\ UNCHANGED <<trustedVars, decision, tuiVars>>

\* Another operator decides it, a destroy cancels it, or, without the sandbox, it is
\* taken out by a decision that then fails.
request_leaves(id) ==
    /\ id \in pending
    /\ pending' = pending \ {id}
    /\ decision' = [decision EXCEPT ![id] = "other"]
    /\ UNCHANGED <<trustedVars, next_id, tuiVars>>

\* A key typed during an edit is read after the next fetch, as one typed before that
\* fetch is.  Bound: one edit.
press(k) ==
    /\ tui \in {"fetch", "poll"}
    /\ key = NoKey
    /\ k = "edit" => pc[EditCommand] = "idle"
    /\ key' = k
    /\ UNCHANGED <<trustedVars, queueVars, tui, shown, selected, editing, message>>

\* What was pending is answered with an error.
session_exits ==
    /\ session_ends
    /\ pending' = {}
    /\ decision' = [id \in Ids |-> IF id \in pending THEN "other" ELSE decision[id]]
    /\ UNCHANGED <<next_id, tuiVars>>

-----------------------------------------------------------------------------
(* run_loop. *)

\* The TUI ends, and its screen with it.
screen_closes ==
    /\ tui' = "ended"
    /\ shown' = <<>>
    /\ selected' = 0
    /\ editing' = 0
    /\ key' = NoKey

\* The key is done with.
next_round ==
    /\ tui' = "fetch"
    /\ key' = NoKey
    /\ UNCHANGED <<shown, selected, editing>>

\* Fault: the selection is left where it was.
refresh_unclamped ==
    /\ tui = "fetch"
    /\ \/ /\ session_up
          /\ shown' = listing
          /\ tui' = "poll"
          /\ UNCHANGED <<selected, editing, key>>
       \/ /\ ~session_up
          /\ screen_closes
    /\ UNCHANGED <<trustedVars, queueVars, message>>

\* Fetch the list, bring the selection into it, draw.  Without an answer, or with the
\* one that there is no such sandbox, the TUI ends.
refresh ==
    /\ tui = "fetch"
    /\ \/ /\ session_up
          /\ shown' = listing
          /\ selected' = IF selected >= Len(listing) /\ listing # <<>>
                         THEN Len(listing) - 1
                         ELSE selected
          /\ tui' = "poll"
          /\ UNCHANGED <<editing, key>>
       \/ /\ ~session_up
          /\ screen_closes
    /\ UNCHANGED <<trustedVars, queueVars, message>>

\* No key within 200 ms.
no_key ==
    /\ tui = "poll"
    /\ key = NoKey
    /\ tui' = "fetch"
    /\ UNCHANGED <<trustedVars, queueVars, shown, selected, editing, message, key>>

quit ==
    /\ tui = "poll"
    /\ key = "quit"
    /\ screen_closes
    /\ UNCHANGED <<trustedVars, queueVars, message>>

\* Both keys stop at the ends of the list drawn last; on an empty list Down
\* selects row 0.
move ==
    /\ tui = "poll"
    /\ key \in {"up", "down"}
    /\ selected' = IF key = "up"
                   THEN IF selected = 0 THEN 0 ELSE selected - 1
                   ELSE Min({selected + 1, IF shown = <<>> THEN 0 ELSE Len(shown) - 1})
    /\ tui' = "fetch"
    /\ key' = NoKey
    /\ UNCHANGED <<trustedVars, queueVars, shown, editing, message>>

\* a, n and d: resolve_pending_action for the selected row, if there is one.  The
\* session answers with an error when the request is gone, when it has decided the
\* request and could not log that, and when it has taken the request out and finds
\* no sandbox; if it does not answer at all the TUI ends.
resolve_pending_action ==
    /\ tui = "poll"
    /\ key \in Decisions
    /\ \/ /\ target # 0
          /\ session = "ended"
          /\ screen_closes
          /\ UNCHANGED <<pending, decision, message>>
       \/ /\ target = 0
          /\ next_round
          /\ UNCHANGED <<pending, decision, message>>
       \/ /\ session_up
          /\ target \in pending
          /\ pending' = pending \ {target}
          /\ decision' = [decision EXCEPT ![target] = key]
          /\ message' \in [text : {key, "error"}, id : {target}]
          /\ next_round
       \/ /\ session = "removed"
          /\ target \in pending
          /\ pending' = pending \ {target}
          /\ decision' = [decision EXCEPT ![target] = "other"]
          /\ message' = [text |-> "error", id |-> target]
          /\ next_round
       \/ /\ session # "ended"
          /\ target # 0
          /\ target \notin pending
          /\ message' = [text |-> "error", id |-> target]
          /\ next_round
          /\ UNCHANGED <<pending, decision>>
    /\ UNCHANGED <<trustedVars, next_id>>

\* e on a row that is no metadata request, or on no row.
edit_refused ==
    /\ tui = "poll"
    /\ key = "edit"
    /\ target \notin MetadataIds
    /\ message' = IF target = 0 THEN message ELSE [text |-> "metadata_only", id |-> target]
    /\ next_round
    /\ UNCHANGED <<trustedVars, queueVars>>

\* edit_pending_command: a text that is no chmod, chown or chattr ends the TUI;
\* otherwise the trusted command starts.
edit_pending_command ==
    /\ tui = "poll"
    /\ key = "edit"
    /\ target \in MetadataIds
    /\ \/ /\ screen_closes
          /\ UNCHANGED trustedVars
       \/ /\ start(EditCommand)
          /\ editing' = target
          /\ tui' = "editing"
          /\ key' = NoKey
          /\ UNCHANGED <<shown, selected>>
    /\ UNCHANGED <<queueVars, message>>

\* Fault: the status of the edited command is not looked at.
edit_ends_unchecked ==
    /\ tui = "editing"
    /\ pc[EditCommand] \in {"returned", "killed"}
    /\ tui' = "release"
    /\ UNCHANGED <<trustedVars, queueVars, shown, selected, editing, message, key>>

edit_ends ==
    /\ tui = "editing"
    /\ pc[EditCommand] \in {"returned", "killed"}
    /\ IF status[EditCommand] = "success"
       THEN /\ tui' = "release"
            /\ UNCHANGED message
       ELSE /\ tui' = "fetch"
            /\ message' = [text |-> "edit_failed", id |-> editing]
    /\ UNCHANGED <<trustedVars, queueVars, shown, selected, editing, key>>

\* allow --do-nothing for the original request, which fails as above.
release_original ==
    /\ tui = "release"
    /\ \/ /\ session_up
          /\ editing \in pending
          /\ pending' = pending \ {editing}
          /\ decision' = [decision EXCEPT ![editing] = "do_nothing"]
          /\ message' \in [text : {"edited", "not_released"}, id : {editing}]
       \/ /\ session = "removed"
          /\ editing \in pending
          /\ pending' = pending \ {editing}
          /\ decision' = [decision EXCEPT ![editing] = "other"]
          /\ message' = [text |-> "not_released", id |-> editing]
       \/ /\ editing \notin pending
          /\ message' = [text |-> "not_released", id |-> editing]
          /\ UNCHANGED <<pending, decision>>
    /\ tui' = "fetch"
    /\ UNCHANGED <<trustedVars, next_id, shown, selected, editing, key>>

-----------------------------------------------------------------------------

tui_step ==
    \/ refresh
    \/ no_key
    \/ quit
    \/ move
    \/ resolve_pending_action
    \/ edit_refused
    \/ edit_pending_command
    \/ edit_ends
    \/ release_original

ConsoleNext ==
    \/ request_arrives
    \/ \E id \in Ids : request_leaves(id)
    \/ \E k \in Keys : press(k)
    \/ session_exits
    \/ tui_step
    \/ process_step /\ UNCHANGED <<queueVars, tuiVars>>

\* The TUI, the gatefs processes and their children run.  Nothing is assumed of
\* operators.
ConsoleSpec ==
    /\ TuiInit
    /\ [][ConsoleNext]_consoleVars
    /\ WF_consoleVars(tui_step)
    /\ TrustedFairness

-----------------------------------------------------------------------------
(* Properties. *)

\* The types of the queue and of the TUI; while a list is drawn that is not
\* empty, the selected row is one of its rows.
ConsoleTypeOK ==
    /\ TrustedTypeOK
    /\ next_id \in 1..MaxRequests + 1
    /\ pending \subseteq 1..next_id - 1
    /\ decision \in [Ids -> Decisions \cup {"none", "other"}]
    /\ tui \in {"fetch", "poll", "editing", "release", "ended"}
    /\ key \in Keys \cup {NoKey}
    /\ editing \in 0..MaxRequests
    /\ tui = "poll" /\ shown # <<>> => target # 0

\* CONTEXT.md:38: the edit "executes the user-edited trusted metadata command and
\* releases the original blocked request with do-nothing".  What the TUI reports
\* is what became of that request, whoever else decides requests, kills processes
\* or ends the session meanwhile; an error means that the request is decided, or
\* gone; and a request is released by an edit only after the edited command was told
\* that its change is made.
MessageTruthful ==
    /\ message.text \in Decisions => decision[message.id] = message.text
    /\ message.text = "edited" => decision[message.id] = "do_nothing"
    /\ message.text \in {"error", "not_released"} => decision[message.id] # "none"
    /\ message.text \in {"edited", "not_released"} => EditCommand \in changed

drawn(id) == \E n \in DOMAIN shown : shown[n] = id


\* CONTEXT.md:49: "The default TUI allow/deny/do-nothing action applies to the
\* selected pending request only": a refresh does not put another request under
\* a key that was pressed before it.
KeyMeetsItsRow ==
    [][refresh /\ session_up /\ key \in Decisions /\ target # 0 => target' = target]_consoleVars

-----------------------------------------------------------------------------
(* The inductive invariant. *)

\* What is drawn are requests that have arrived.
ShownArrived ==
    /\ shown \in Seq(1..next_id - 1)
    /\ selected \in Nat

\* A request is undecided while it is pending or has not arrived yet: what has
\* left the queue is decided, and is never decided again.
UndecidedIsPending ==
    \A id \in Ids : decision[id] = "none" <=> id \in pending \/ id >= next_id

\* A session that has ended has decided its requests.
EndedIsEmpty == session = "ended" => pending = {}

\* The request of an edit has arrived, and it is released after the change only.
EditCoherent ==
    /\ tui \in {"editing", "release"} => editing \in 1..next_id - 1
    /\ tui = "release" => EditCommand \in changed

Texts == Decisions \cup {"none", "edited", "error", "not_released", "edit_failed", "metadata_only"}

\* A message is about a request that has arrived.
MessageArrived ==
    /\ message \in [text : Texts, id : 0..next_id - 1]
    /\ message.text # "none" => message.id # 0

ConsoleIndInv ==
    /\ TrustedIndInv
    /\ ConsoleTypeOK
    /\ ShownArrived
    /\ UndecidedIsPending
    /\ EndedIsEmpty
    /\ EditCoherent
    /\ MessageArrived
    /\ MessageTruthful
=============================================================================
