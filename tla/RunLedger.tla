----------------------------- MODULE RunLedger -----------------------------
(***************************************************************************)
(* What the scheduled-job store promises about one run: it is claimed      *)
(* once, gets one final status, settles its notification, and is archived; *)
(* it never goes back, is never lost, and a job has one open run at most.  *)
(* There are no crashes, contexts or files here: Scheduler shows that its  *)
(* durable state moves only like this, whatever the process does.          *)
(***************************************************************************)
EXTENDS Naturals

CONSTANTS RunIDs,   \* <<job, startedAt>>
          Statuses, \* the final statuses of a run
          NoStatus  \* the status of a run that has not finished

VARIABLES phase,   \* where each run is
          status,  \* its final status
          failed   \* its record says the notification was not delivered

ledger == <<phase, status, failed>>

Phases == {"unclaimed", "claimed", "owed", "acknowledged", "settled", "archived"}
Open(id) == phase[id] \notin {"unclaimed", "archived"}

Init ==
    /\ phase = [id \in RunIDs |-> "unclaimed"]
    /\ status = [id \in RunIDs |-> NoStatus]
    /\ failed = [id \in RunIDs |-> FALSE]

Moves(id, from, to) == phase[id] = from /\ phase' = [phase EXCEPT ![id] = to]

Claim(id) ==
    /\ Moves(id, "unclaimed", "claimed")
    /\ \A other \in RunIDs :
          other[1] = id[1] => ~Open(other) /\ (phase[other] = "archived" => other[2] < id[2])
    /\ UNCHANGED <<status, failed>>

Complete(id) ==
    /\ Moves(id, "claimed", "owed") \/ Moves(id, "claimed", "settled")
    /\ \E s \in Statuses : status' = [status EXCEPT ![id] = s]
    /\ UNCHANGED failed

Acknowledge(id) == Moves(id, "owed", "acknowledged") /\ UNCHANGED <<status, failed>>

GiveUp(id) ==
    /\ Moves(id, "owed", "settled")
    /\ failed' = [failed EXCEPT ![id] = TRUE]
    /\ UNCHANGED status

Settle(id) == Moves(id, "acknowledged", "settled") /\ UNCHANGED <<status, failed>>

Archive(id) == Moves(id, "settled", "archived") /\ UNCHANGED <<status, failed>>

Next ==
    \E id \in RunIDs :
        Claim(id) \/ Complete(id) \/ Acknowledge(id) \/ GiveUp(id) \/ Settle(id) \/ Archive(id)

Spec == Init /\ [][Next]_ledger
=============================================================================
