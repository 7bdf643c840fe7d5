-------------------------- MODULE AbstractDelivery --------------------------
(***************************************************************************)
(* What the outreach pipeline promises about the rows of campaign_logs     *)
(* while a single dispatcher works on them, without the claims, the Redis  *)
(* tokens and the checks that deliver it.                                  *)
(*                                                                         *)
(* A row waits for review, is queued once it is approved, and ends either  *)
(* sent or closed (skipped, failed): both are final.  The rows of the      *)
(* contact that still wait are closed with the sent one.  A rejection      *)
(* withdraws a waiting row; a dispatcher that had already selected the row *)
(* puts it back in the queue, and that is the only way back.               *)
(***************************************************************************)

CONSTANT Rows          \* rows of campaign_logs: a campaign and a lead each

VARIABLE phase         \* [Rows -> Phases]

Phases == {"absent", "review", "queued", "sent", "closed", "withdrawn"}

Init == phase = [r \in Rows |-> "absent"]

\* A row appears, for review or (approved on insertion) straight in the queue.
Enter(r) == /\ phase[r] = "absent"
            /\ \E p \in {"review", "queued"} : phase' = [phase EXCEPT ![r] = p]

Approve(r) == /\ phase[r] = "review"
              /\ phase' = [phase EXCEPT ![r] = "queued"]

\* Rows in progress are put aside: for good, or withdrawn by a rejection.
Drop(S) == /\ \A r \in S : phase[r] \in {"review", "queued"}
           /\ \E p \in {"closed", "withdrawn"} :
                phase' = [r \in Rows |-> IF r \in S THEN p ELSE phase[r]]

\* A row is sent; rows S that were not sent, nor closed before, are closed with it.
Send(r, S) ==
  /\ phase[r] = "queued"
  /\ \A s \in S : phase[s] \in {"review", "queued"}
  /\ phase' = [s \in Rows |-> IF s = r THEN "sent"
                              ELSE IF s \in S THEN "closed" ELSE phase[s]]

\* A selected row is worked on although it was withdrawn in between.
Reinstate(r) == /\ phase[r] = "withdrawn"
                /\ phase' = [phase EXCEPT ![r] = "queued"]

Next == \/ \E r \in Rows : \/ Enter(r) \/ Approve(r) \/ Reinstate(r)
                           \/ \E S \in SUBSET (Rows \ {r}) : Send(r, S)
        \/ \E S \in SUBSET Rows : Drop(S)

Spec == Init /\ [][Next]_phase
=============================================================================
