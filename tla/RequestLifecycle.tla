---------------------------- MODULE RequestLifecycle ----------------------------
(***************************************************************************)
(* What the pending queue promises about each authorization request,       *)
(* whatever the commands and event loops do: ids are issued in increasing  *)
(* order and never reused; an issued request is decided at most once; a    *)
(* command that has taken a request out of the queue is the only one that  *)
(* can still decide it, and decides it the way it logged.                  *)
(***************************************************************************)
EXTENDS Naturals

CONSTANT MaxId   \* bound: ids handed out
Ids == 1..MaxId

VARIABLE status  \* per id: "free", "pending", taken by a command, or decided

Final == {"apply", "do_nothing", "deny", "cancel"}
\* Taken out of the queue, to be told this decision.
Taken == {"taken_apply", "taken_cancel"}
Promised(t) == IF t = "taken_apply" THEN "apply" ELSE "cancel"

TypeOK == status \in [Ids -> {"free", "pending"} \cup Taken \cup Final]

Init == status = [i \in Ids |-> "free"]

\* A request is queued under an id above every id issued so far; the pending
\* requests it replaces are denied.
Issue(i, S) ==
    /\ \A j \in Ids : j >= i => status[j] = "free"
    /\ \A j \in S : status[j] = "pending"
    /\ status' = [j \in Ids |-> IF j = i THEN "pending"
                                ELSE IF j \in S THEN "deny" ELSE status[j]]

\* A command takes some pending requests out of the queue.
Take(S, t) ==
    /\ \A i \in S : status[i] = "pending"
    /\ status' = [i \in Ids |-> IF i \in S THEN t ELSE status[i]]

\* Pending requests are decided where they are queued.
Decide(S, d) ==
    /\ \A i \in S : status[i] = "pending"
    /\ status' = [i \in Ids |-> IF i \in S THEN d ELSE status[i]]

\* The command that took a request tells its waiter what it promised.
Tell(i) ==
    /\ status[i] \in Taken
    /\ status' = [status EXCEPT ![i] = Promised(status[i])]

Next ==
    \/ \E S \in SUBSET Ids, t \in Taken : Take(S, t)
    \/ \E S \in SUBSET Ids, d \in Final : Decide(S, d)
    \/ \E i \in Ids : Tell(i)
    \/ \E i \in Ids, S \in SUBSET Ids : Issue(i, S)

Spec == Init /\ [][Next]_status
=============================================================================
