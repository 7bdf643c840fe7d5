----------------------- MODULE CampaignPromise_proofs ------------------------
(* What CampaignDelivery promises about dry runs and verdicts, and that a    *)
(* single dispatcher implements AbstractDelivery, for any rows, leads,       *)
(* contacts and bounds.                                                      *)
EXTENDS CampaignDelivery_proofs

USE DEF AllDispatchers

-----------------------------------------------------------------------------
(* Dry runs.  While a dispatcher is silenced it has as much slack as send    *)
(* calls left if its check lies behind it; CAMPAIGN_MODE=dry_run keeps it    *)
(* before the gate instead.                                                  *)

\* Dispatcher d is where its dry-run settings leave it.
HeldBack(d) ==
  /\ mode = "campaign_dry" => pc[d] # "gated"
  /\ mode # "campaign_dry" /\ pc[d] \in PastDryRun(d) => drySlack[d] >= SendLimit - tries[d]

DryInv == \A d \in AllDispatchers : /\ drySlack[d] >= 0
                                    /\ Silenced(d) /\ d \in deployed => HeldBack(d)

\* The code's check and the operator's view of it agree.
LEMMA CheckMeansSilenced ==
  ASSUME TypeOK, NEW d \in AllDispatchers, mode # "campaign_dry"  PROVE DryRun(d) <=> Silenced(d)
BY DEF TypeOK, AllDryKeys, DryRun, Silenced

LEMMA InitDry == Init => DryInv
BY DEF Init, DryInv, HeldBack, PastDryRun

\* Steps that neither change the key, nor pass a check, nor send.
LEMMA DryFrame ==
  ASSUME TypeInv, DryInv, UNCHANGED <<config, drySlack>>,
         \A d \in deployed :
           \/ pc'[d] = pc[d] /\ tries'[d] = tries[d]
           \/ pc'[d] \notin PastDryRun(d) \cup {"gated"}
  PROVE  DryInv'
BY DEF DryInv, HeldBack, Silenced, PastDryRun, config

\* The end of an iteration cancels what is left of the slack.
LEMMA DryRelease ==
  ASSUME TypeInv, DryInv, UNCHANGED config, NEW d \in AllDispatchers, Release(d)
  PROVE  DryInv'
<1>1. ASSUME NEW e \in AllDispatchers, e # d
      PROVE  pc'[e] = pc[e] /\ tries'[e] = tries[e] /\ drySlack'[e] = drySlack[e]
  BY <1>1 DEF Release, Goto, TypeInv, TypeOK
<1>2. pc'[d] = "idle" /\ drySlack'[d] = Spent(drySlack[d])
  BY DEF Release, Goto, TypeInv, TypeOK
<1>3. Spent(drySlack[d]) >= 0  BY DEF Spent, DryInv, TypeInv, TypeOK
<1>4. \A e \in AllDispatchers : Silenced(e)' = Silenced(e)  BY DEF Silenced, config
<1> QED  BY <1>1, <1>2, <1>3, <1>4 DEF DryInv, HeldBack, PastDryRun, config

\* The key changes: a dispatcher that it silences gets the calls left to it.
LEMMA DrySwitch ==
  ASSUME TypeInv, DryInv, NEW key \in DryKeys[mode], SetDryRun(key)  PROVE DryInv'
<1>1. UNCHANGED <<deployed, mode, pc, tries, held>>  BY DEF SetDryRun, row
<1> SUFFICES ASSUME NEW d \in AllDispatchers
             PROVE  /\ drySlack'[d] >= 0
                    /\ Silenced(d)' /\ d \in deployed' => HeldBack(d)'
  BY DEF DryInv
<1>2. drySlack'[d] = IF ~Silenced(d)' THEN 0
                     ELSE IF Silenced(d) THEN drySlack[d] ELSE CallsLeft(d, PastDryRun(d), Rows)
  BY DEF SetDryRun
<1>3. tries[d] \in 0..SendLimit /\ drySlack[d] \in Int /\ SendLimit \in Nat
      /\ (pc[d] # "idle" => held[d] \in Rows)
  BY SettingsAssumption DEF TypeInv, TypeOK
<1>4. CASE ~Silenced(d)'  BY <1>2, <1>4
<1>5. CASE Silenced(d)' /\ Silenced(d)
  BY <1>1, <1>2, <1>5 DEF DryInv, HeldBack, PastDryRun
<1>6. CASE Silenced(d)' /\ ~Silenced(d)
  <2>1. drySlack'[d] = CallsLeft(d, PastDryRun(d), Rows)  BY <1>2, <1>6
  <2>2. mode # "campaign_dry"  BY <1>6 DEF Silenced
  <2>3. drySlack'[d] >= 0  BY <1>3, <2>1 DEF CallsLeft
  <2>4. d \in deployed /\ pc[d] \in PastDryRun(d) => drySlack'[d] = SendLimit - tries[d]
    BY <1>3, <2>1 DEF CallsLeft, PastDryRun
  <2> QED  BY <1>1, <1>3, <2>2, <2>3, <2>4 DEF HeldBack, PastDryRun
<1> QED  BY <1>4, <1>5, <1>6

LEMMA NextDry == TypeInv /\ DryInv /\ [Next]_vars => DryInv'
<1> SUFFICES ASSUME TypeInv, DryInv, [Next]_vars PROVE DryInv' OBVIOUS
<1>t. TypeOK /\ deployed \subseteq AllDispatchers
  BY SettingsAssumption DEF TypeInv, TypeOK
<1> USE DEF table, flags, counters, slack, row, hold, workers, history, bounds, ghosts, At
<1>1. CASE Environment
  <2>1. CASE \E key \in DryKeys[mode] : SetDryRun(key)  BY <2>1, DrySwitch
  <2>2. CASE ~ \E key \in DryKeys[mode] : SetDryRun(key)
    <3>1. UNCHANGED <<config, drySlack, pc, tries>>
      BY <1>1, <2>2 DEF Environment, Enqueue, AutoEnrol, Approve, Age, Reject, Rescan,
         EmergencyStop, EmergencyResume, CoolDown, NewDay
    <3> QED  BY <3>1, DryFrame
  <2> QED  BY <2>1, <2>2
<1>2. CASE CampaignWorkerStep
  <2>1. CASE DryAbort \/ CommitSent
    BY <2>1, DryRelease DEF DryAbort, CommitSent
  <2>2. CASE (\E r \in Rows : ClaimRow(r)) \/ TokenMiss \/ ShutdownReturn \/ MarkToken
    <3>1. /\ UNCHANGED <<config, drySlack, tries>>
          /\ \E place \in {"claimed", "paced", "delivered", "tokened"} :
               pc' = [pc EXCEPT !["campaign_worker"] = place]
      BY <2>2 DEF ClaimRow, TokenMiss, ShutdownReturn, MarkToken, Goto
    <3>2. /\ pc'["campaign_worker"] \notin PastDryRun("campaign_worker") \cup {"gated"}
          /\ pc'["validator"] = pc["validator"]
      BY <1>t, <3>1 DEF TypeOK, PastDryRun
    <3> QED  BY <1>t, <3>1, <3>2, DryFrame
  <2> QED  BY <1>2, <2>1, <2>2 DEF CampaignWorkerStep
<1>3. CASE ValidatorStep
  <2>1. CASE ScreenOut \/ DrySkip \/ Pause \/ GateBounce \/ CountSent
    BY <2>1, DryRelease DEF ScreenOut, DrySkip, Pause, GateBounce, CountSent
  <2>2. CASE (\E r \in Rows : SelectRow(r)) \/ MarkProcessing \/ ScreenIn \/ NoteSent \/ CloseSent
    <3>1. /\ UNCHANGED <<config, drySlack, tries>>
          /\ \E place \in {"selected", "claimed", "screened", "noted", "closed"} :
               pc' = [pc EXCEPT !["validator"] = place]
      BY <2>2 DEF SelectRow, MarkProcessing, ScreenIn, NoteSent, CloseSent, Goto
    <3>2. /\ pc'["validator"] \notin PastDryRun("validator") \cup {"gated"}
          /\ pc'["campaign_worker"] = pc["campaign_worker"]
      BY <1>t, <3>1 DEF TypeOK, PastDryRun
    <3> QED  BY <1>t, <3>1, <3>2, DryFrame
  <2>3. CASE Proceed
    <3>1. /\ UNCHANGED <<config, drySlack, tries>>
          /\ pc' = [pc EXCEPT !["validator"] = "paced"]
          /\ ~DryRun("validator")
      BY <2>3 DEF Proceed, Goto
    <3>2. mode = "campaign_dry" \/ ~Silenced("validator")  BY <1>t, <3>1, CheckMeansSilenced
    <3> QED  BY <1>t, <3>1, <3>2 DEF DryInv, HeldBack, Silenced, PastDryRun, TypeOK, config
  <2> QED  BY <1>3, <2>1, <2>2, <2>3 DEF ValidatorStep
<1>4. ASSUME NEW d \in AllDispatchers, DispatcherStep(d)  PROVE DryInv'
  <2>1. CASE TokenHit(d) \/ Unfit(d) \/ SkipDuplicate(d) \/ GateSkip(d) \/ MarkFailed(d)
    BY <2>1, DryRelease DEF TokenHit, Unfit, SkipDuplicate, GateSkip, MarkFailed
  <2>2. CASE Clear(d)
    <3>1. /\ UNCHANGED <<config, drySlack, tries>>
          /\ d \in deployed /\ pc[d] = "paced"
          /\ pc' = [pc EXCEPT ![d] = "cleared"]
          /\ d = "campaign_worker" => ~DryRun(d)
      BY <2>2 DEF Clear, Goto
    <3>2. d = "campaign_worker" => mode = "campaign_dry" \/ ~Silenced(d)
      BY <1>t, <3>1, CheckMeansSilenced
    <3> QED  BY <1>t, <3>1, <3>2 DEF DryInv, HeldBack, Silenced, PastDryRun, TypeOK, config
  <2>3. CASE GatePass(d)
    <3>1. /\ UNCHANGED <<config, drySlack, tries>>
          /\ d \in deployed /\ pc[d] = "cleared" /\ mode # "campaign_dry"
          /\ pc' = [pc EXCEPT ![d] = "gated"]
      BY <2>3 DEF GatePass, Goto
    <3> QED  BY <1>t, <3>1 DEF DryInv, HeldBack, Silenced, PastDryRun, TypeOK, config
  <2>4. CASE Deliver(d) \/ LoseReply(d)
    <3>1. /\ d \in deployed /\ pc[d] = "gated" /\ UNCHANGED config
          /\ tries' = [tries EXCEPT ![d] = @ + 1]
          /\ \A e \in AllDispatchers \ {d} : pc'[e] = pc[e]
          /\ pc'[d] \in {"gated", "delivered", "undelivered"}
          /\ drySlack' = IF Silenced(d) THEN [drySlack EXCEPT ![d] = @ - 1] ELSE drySlack
      BY <1>t, <2>4 DEF Deliver, LoseReply, AnotherTry, Dispatch, Goto, TypeOK
    <3>2. tries[d] \in Nat /\ tries[d] < SendLimit /\ SendLimit \in Nat
          /\ drySlack \in [AllDispatchers -> Int]
      BY <3>1, SettingsAssumption DEF TypeInv, TypeOK, TriesInv
    <3>3. CASE Silenced(d)
      <4>1. mode # "campaign_dry" /\ drySlack[d] >= SendLimit - tries[d]
        BY <3>1, <3>3 DEF DryInv, HeldBack, PastDryRun
      <4>2. /\ drySlack'[d] = drySlack[d] - 1
            /\ \A e \in AllDispatchers \ {d} : drySlack'[e] = drySlack[e]
        BY <3>1, <3>2, <3>3
      <4>3. /\ tries'[d] = tries[d] + 1
            /\ \A e \in AllDispatchers \ {d} : tries'[e] = tries[e]
        BY <1>t, <3>1 DEF TypeOK
      <4>4. drySlack'[d] >= 0 /\ drySlack'[d] >= SendLimit - tries'[d]
        BY <3>2, <4>1, <4>2, <4>3
      <4> QED  BY <3>1, <4>1, <4>2, <4>3, <4>4 DEF DryInv, HeldBack, Silenced, PastDryRun, config
    <3>4. CASE ~Silenced(d)
      BY <1>t, <3>1, <3>4 DEF DryInv, HeldBack, Silenced, PastDryRun, TypeOK, config
    <3> QED  BY <3>3, <3>4
  <2>5. CASE SendFails(d) \/ Flood(d)
    <3>1. /\ d \in deployed /\ pc[d] = "gated" /\ UNCHANGED <<config, drySlack>>
          /\ tries' = [tries EXCEPT ![d] = @ + 1]
          /\ \A e \in AllDispatchers \ {d} : pc'[e] = pc[e]
          /\ pc'[d] \in {"gated", "undelivered"}
      BY <1>t, <2>5 DEF SendFails, Flood, AnotherTry, Goto, TypeOK
    <3>2. /\ tries'[d] = tries[d] + 1 /\ tries[d] \in Nat
          /\ \A e \in AllDispatchers \ {d} : tries'[e] = tries[e]
          /\ SendLimit \in Nat /\ drySlack[d] \in Int
      BY <1>t, <3>1, SettingsAssumption DEF TypeOK
    <3> QED  BY <3>1, <3>2 DEF DryInv, HeldBack, Silenced, PastDryRun, config
  <2> QED  BY <1>4, <2>1, <2>2, <2>3, <2>4, <2>5 DEF DispatcherStep
<1>5. ASSUME NEW d \in AllDispatchers, Abandon(d)  PROVE DryInv'
  BY <1>5, DryRelease DEF Abandon
<1>6. CASE UNCHANGED vars  BY <1>6, DryFrame DEF vars
<1> QED  BY <1>1, <1>2, <1>3, <1>4, <1>5, <1>6 DEF Next

\* Whatever the environment says, and whenever the key in Redis is set, changed or
\* deleted: a silenced dispatcher makes only the send calls left for a row whose
\* dry-run check preceded the change, and none under CAMPAIGN_MODE=dry_run.
THEOREM DryRunsAreSilent == Spec => []DryRunSilent
<1>1. DryInv => DryRunSilent  BY DEF DryInv, DryRunSilent
<1> QED  BY <1>1, InitDry, NextDry, TypeInvariant, PTL DEF Spec

-----------------------------------------------------------------------------
(* Verdicts.  A step changes the status of rows that wait, or are absent, or *)
(* are claimable, and of the row its dispatcher holds: of no settled row     *)
(* that nobody holds.                                                        *)

\* No verdict is overwritten but by the dispatcher that holds the row.
VerdictsStand ==
  \A r \in Rows : Settled(r) /\ (\A d \in deployed : held[d] # r) => status'[r] = status[r]

\* A row ends by a dispatcher that holds it, and waiting rows with it.
LEMMA EndRowStands ==
  ASSUME TypeOK, NEW d \in deployed, NEW S, \A s \in S : Waiting(s),
         EndRow(d, "sent", S) \/ EndRow(d, "skipped", S) \/ EndRow(d, "failed", S)
  PROVE  VerdictsStand
BY DEF TypeOK, EndRow, Verdict, VerdictsStand, Settled, Waiting

LEMMA NextStands == TypeInv /\ [Next]_vars => VerdictsStand
<1> SUFFICES ASSUME TypeInv, [Next]_vars PROVE VerdictsStand OBVIOUS
<1>t. TypeOK  BY DEF TypeInv
<1>k. status' = status => VerdictsStand  BY DEF VerdictsStand
<1> USE DEF config, table, flags, counters, slack, row, hold, workers, history, bounds,
        ghosts, At
<1>1. CASE Environment
  <2>1. ASSUME NEW r \in Rows, Enqueue(r) \/ AutoEnrol(r) \/ Approve(r)
        PROVE  VerdictsStand
    <3>1. status[r] \in {"absent", "review"}
      BY <2>1, RowsAssumption DEF Enqueue, AutoEnrol, Approve, RowsOf, SameLead
    <3>2. \A s \in Rows \ {r} : status'[s] = status[s]
      BY <1>t, <2>1 DEF Enqueue, AutoEnrol, Approve, TypeOK
    <3> QED  BY <3>1, <3>2 DEF VerdictsStand, Settled
  <2>2. ASSUME NEW l \in Leads, Reject(l)  PROVE VerdictsStand
    BY <2>2 DEF Reject, VerdictsStand, Settled, Waiting
  <2>3. CASE \/ \E r \in Rows : Age(r)
             \/ \E l \in Leads : Rescan(l)
             \/ EmergencyStop \/ EmergencyResume \/ CoolDown \/ NewDay
             \/ \E key \in DryKeys[mode] : SetDryRun(key)
    BY <1>k, <2>3 DEF Age, Rescan, EmergencyStop, EmergencyResume, CoolDown, NewDay, SetDryRun
  <2> QED  BY <1>1, <2>1, <2>2, <2>3 DEF Environment
<1>2. CASE CampaignWorkerStep
  <2>1. CASE CommitSent
    BY <1>t, <2>1, EndRowStands, SiblingsWait DEF CommitSent
  <2>2. CASE \E r \in Rows : ClaimRow(r)
    BY <1>t, <2>2 DEF ClaimRow, Claimable, VerdictsStand, Settled, TypeOK
  <2>3. CASE TokenMiss \/ DryAbort \/ ShutdownReturn \/ MarkToken
    BY <1>k, <2>3 DEF TokenMiss, DryAbort, ShutdownReturn, MarkToken
  <2> QED  BY <1>2, <2>1, <2>2, <2>3 DEF CampaignWorkerStep
<1>3. CASE ValidatorStep
  <2>1. CASE ScreenOut \/ DrySkip \/ NoteSent
    BY <1>t, <2>1, EndRowStands DEF ScreenOut, DrySkip, NoteSent
  <2>2. CASE MarkProcessing \/ GateBounce
    BY <1>t, <2>2 DEF MarkProcessing, GateBounce, VerdictsStand, TypeOK
  <2>3. CASE CloseSent
    BY <2>3, SiblingsWait DEF CloseSent, VerdictsStand, Settled, Waiting
  <2>4. CASE (\E r \in Rows : SelectRow(r)) \/ ScreenIn \/ Pause \/ Proceed \/ CountSent
    BY <1>k, <2>4 DEF SelectRow, ScreenIn, Pause, Proceed, CountSent
  <2> QED  BY <1>3, <2>1, <2>2, <2>3, <2>4 DEF ValidatorStep
<1>4. ASSUME NEW d \in AllDispatchers, DispatcherStep(d)  PROVE VerdictsStand
  <2>1. CASE TokenHit(d) \/ Unfit(d) \/ SkipDuplicate(d) \/ GateSkip(d) \/ MarkFailed(d)
    BY <1>t, <2>1, EndRowStands, SiblingsWait
       DEF TokenHit, Unfit, SkipDuplicate, GateSkip, MarkFailed
  <2>2. CASE Clear(d) \/ GatePass(d) \/ Deliver(d) \/ LoseReply(d) \/ SendFails(d) \/ Flood(d)
    BY <1>k, <2>2 DEF Clear, GatePass, Deliver, LoseReply, SendFails, Flood
  <2> QED  BY <1>4, <2>1, <2>2 DEF DispatcherStep
<1>5. ASSUME NEW d \in AllDispatchers, Abandon(d)  PROVE VerdictsStand
  BY <1>k, <1>5 DEF Abandon
<1>6. CASE UNCHANGED vars  BY <1>k, <1>6 DEF vars
<1> QED  BY <1>1, <1>2, <1>3, <1>4, <1>5, <1>6 DEF Next

\* The verdict about a row is final once no dispatcher works on the row, with both
\* dispatchers on the table as with one.
THEOREM VerdictsAreFinal == Spec => SettledIsFinal
<1>1. TypeInv /\ [Next]_vars =>
        [\A r \in Rows : Settled(r) /\ (\A d \in deployed : held[d] # r)
                          => status'[r] = status[r]]_vars
  BY NextStands DEF VerdictsStand
<1> QED  BY <1>1, TypeInvariant, PTL DEF Spec, SettledIsFinal

-----------------------------------------------------------------------------
(* The promise of a single dispatcher.  Its claim keeps the row in           *)
(* processing until it is recorded: no bulk update, which goes by the        *)
(* status, touches it.  Only between validator's SELECT and its UPDATE may   *)
(* a rejection cancel the row.                                               *)

ClaimHolds ==
  \A d \in deployed :
    CASE pc[d] = "idle"               -> TRUE
      [] pc[d] = "selected"           -> status[held[d]] \in {"approved", "processing", "cancelled"}
      [] pc[d] \in {"noted", "closed"} -> status[held[d]] = "sent"
      [] OTHER                        -> status[held[d]] = "processing"

LEMMA InitClaim == Init => ClaimHolds
BY SettingsAssumption DEF Init, ClaimHolds

\* Steps of the environment that leave claimed and sent rows alone.
LEMMA ClaimFrame ==
  ASSUME TypeOK, ClaimHolds, UNCHANGED <<deployed, pc, held>>,
         \A r \in Rows : \/ status'[r] = status[r]
                         \/ status[r] \in {"absent", "review"}
                         \/ status[r] = "approved" /\ status'[r] = "cancelled"
  PROVE  ClaimHolds'
<1>1. \A d \in deployed : pc[d] # "idle" => held[d] \in Rows
  BY SettingsAssumption DEF TypeOK
<1> QED  BY <1>1 DEF ClaimHolds

\* The single dispatcher d moves on.
LEMMA ClaimMove ==
  ASSUME TypeOK, Exclusive, NEW d \in deployed, UNCHANGED deployed,
         \/ pc'[d] = "idle"
         \/ /\ pc'[d] = "selected"
            /\ status'[held'[d]] \in {"approved", "processing", "cancelled"}
         \/ pc'[d] \in {"noted", "closed"} /\ status'[held'[d]] = "sent"
         \/ /\ pc'[d] \notin {"idle", "selected", "noted", "closed"}
            /\ status'[held'[d]] = "processing"
  PROVE  ClaimHolds'
<1>1. \A e \in deployed' : e = d  BY DEF Exclusive
<1> QED  BY <1>1 DEF ClaimHolds

LEMMA NextClaim ==
  ASSUME TypeInv, TypeInv', Exclusive, ClaimHolds, [Next]_vars  PROVE ClaimHolds'
<1>t. /\ TypeOK /\ TypeOK' /\ deployed \subseteq AllDispatchers
  BY SettingsAssumption DEF TypeInv, TypeOK
<1>d. deployed' = deployed  BY DeploymentFixed
<1>h. \A d \in deployed : pc[d] # "idle" => held[d] \in Rows  BY <1>t DEF TypeOK
\* An iteration that ends, by its dispatcher or by a crash.
<1>r. ASSUME NEW d \in deployed, Release(d)  PROVE ClaimHolds'
  <2>1. pc'[d] = "idle"  BY <1>t, <1>r DEF Release, Goto, TypeOK
  <2> QED  BY <1>t, <1>d, <2>1, ClaimMove
<1> USE DEF config, table, flags, counters, slack, row, hold, workers, history, bounds,
        ghosts, At
<1>1. CASE Environment
  <2>1. UNCHANGED <<pc, held>>
    BY <1>1 DEF Environment, Enqueue, AutoEnrol, Approve, Age, Reject, Rescan,
       EmergencyStop, EmergencyResume, CoolDown, NewDay, SetDryRun
  <2>2. \A r \in Rows : \/ status'[r] = status[r]
                        \/ status[r] \in {"absent", "review"}
                        \/ status[r] = "approved" /\ status'[r] = "cancelled"
    <3>1. ASSUME NEW r \in Rows, Enqueue(r) \/ AutoEnrol(r) \/ Approve(r)
          PROVE  /\ status[r] \in {"absent", "review"}
                 /\ \A s \in Rows \ {r} : status'[s] = status[s]
      BY <1>t, <3>1, RowsAssumption DEF Enqueue, AutoEnrol, Approve, RowsOf, SameLead, TypeOK
    <3>2. ASSUME NEW l \in Leads, Reject(l)
          PROVE  \A r \in Rows : status'[r] = status[r] \/ (Waiting(r) /\ status'[r] = "cancelled")
      BY <3>2 DEF Reject
    <3>3. CASE \/ \E r \in Rows : Age(r)
               \/ \E l \in Leads : Rescan(l)
               \/ EmergencyStop \/ EmergencyResume \/ CoolDown \/ NewDay
               \/ \E key \in DryKeys[mode] : SetDryRun(key)
      BY <3>3 DEF Age, Rescan, EmergencyStop, EmergencyResume, CoolDown, NewDay, SetDryRun
    <3> QED  BY <1>1, <3>1, <3>2, <3>3 DEF Environment, Waiting
  <2> QED  BY <1>t, <1>d, <2>1, <2>2, ClaimFrame
<1>2. CASE CampaignWorkerStep
  <2>1. CASE DryAbort \/ CommitSent  BY <1>r, <2>1 DEF DryAbort, CommitSent
  <2>2. ASSUME NEW r \in Rows, ClaimRow(r)  PROVE ClaimHolds'
    <3>1. /\ "campaign_worker" \in deployed /\ pc'["campaign_worker"] = "claimed"
          /\ held'["campaign_worker"] = r /\ status'[r] = "processing"
      BY <1>t, <2>2 DEF ClaimRow, Take, Goto, TypeOK
    <3> QED  BY <1>t, <1>d, <3>1, ClaimMove
  <2>3. CASE TokenMiss \/ ShutdownReturn \/ MarkToken
    <3>1. /\ "campaign_worker" \in deployed /\ UNCHANGED <<held, status>>
          /\ pc["campaign_worker"] \in {"claimed", "gated", "delivered"}
          /\ pc'["campaign_worker"] \in {"paced", "delivered", "tokened"}
      BY <1>t, <2>3 DEF TokenMiss, ShutdownReturn, MarkToken, Goto, TypeOK
    <3>2. status[held["campaign_worker"]] = "processing"  BY <3>1 DEF ClaimHolds
    <3> QED  BY <1>t, <1>d, <3>1, <3>2, ClaimMove
  <2> QED  BY <1>2, <2>1, <2>2, <2>3 DEF CampaignWorkerStep
<1>3. CASE ValidatorStep
  <2>1. CASE ScreenOut \/ DrySkip \/ Pause \/ GateBounce \/ CountSent
    BY <1>r, <2>1 DEF ScreenOut, DrySkip, Pause, GateBounce, CountSent
  <2>2. ASSUME NEW r \in Rows, SelectRow(r)  PROVE ClaimHolds'
    <3>1. /\ "validator" \in deployed /\ pc'["validator"] = "selected"
          /\ held'["validator"] = r /\ status'[r] \in {"approved", "processing"}
      BY <1>t, <2>2 DEF SelectRow, Claimable, Take, Goto, TypeOK
    <3> QED  BY <1>t, <1>d, <3>1, ClaimMove
  <2>3. CASE MarkProcessing
    <3>1. /\ "validator" \in deployed /\ pc'["validator"] = "claimed"
          /\ UNCHANGED held /\ status'[held["validator"]] = "processing"
      BY <1>t, <1>h, <2>3 DEF MarkProcessing, Goto, TypeOK
    <3> QED  BY <1>t, <1>d, <3>1, ClaimMove
  <2>4. CASE ScreenIn \/ Proceed
    <3>1. /\ "validator" \in deployed /\ UNCHANGED <<held, status>>
          /\ pc["validator"] \in {"claimed", "screened"}
          /\ pc'["validator"] \in {"screened", "paced"}
      BY <1>t, <2>4 DEF ScreenIn, Proceed, Goto, TypeOK
    <3>2. status[held["validator"]] = "processing"  BY <3>1 DEF ClaimHolds
    <3> QED  BY <1>t, <1>d, <3>1, <3>2, ClaimMove
  <2>5. CASE NoteSent
    <3>1. /\ "validator" \in deployed /\ pc'["validator"] = "noted"
          /\ UNCHANGED held /\ status'[held["validator"]] = "sent"
      BY <1>t, <1>h, <2>5 DEF NoteSent, EndRow, Verdict, Goto, TypeOK
    <3> QED  BY <1>t, <1>d, <3>1, ClaimMove
  <2>6. CASE CloseSent
    <3>1. /\ "validator" \in deployed /\ pc["validator"] = "noted"
          /\ pc'["validator"] = "closed" /\ UNCHANGED held
      BY <1>t, <2>6 DEF CloseSent, Goto, TypeOK
    <3>2. status'[held["validator"]] = "sent"
      BY <1>h, <2>6, <3>1 DEF CloseSent, ClaimHolds, WaitingSiblings
    <3> QED  BY <1>t, <1>d, <3>1, <3>2, ClaimMove
  <2> QED  BY <1>3, <2>1, <2>2, <2>3, <2>4, <2>5, <2>6 DEF ValidatorStep
<1>4. ASSUME NEW d \in AllDispatchers, DispatcherStep(d)  PROVE ClaimHolds'
  <2>1. CASE TokenHit(d) \/ Unfit(d) \/ SkipDuplicate(d) \/ GateSkip(d) \/ MarkFailed(d)
    BY <1>r, <2>1 DEF TokenHit, Unfit, SkipDuplicate, GateSkip, MarkFailed
  <2>2. CASE Clear(d) \/ GatePass(d) \/ Deliver(d) \/ LoseReply(d) \/ SendFails(d) \/ Flood(d)
    <3>1. /\ d \in deployed /\ UNCHANGED <<held, status>>
          /\ pc[d] \in {"paced", "cleared", "gated"}
          /\ pc'[d] \in {"cleared", "gated", "delivered", "undelivered"}
      BY <1>t, <2>2 DEF Clear, GatePass, Deliver, LoseReply, SendFails, Flood, AnotherTry,
         Goto, TypeOK
    <3>2. status[held[d]] = "processing"  BY <3>1 DEF ClaimHolds
    <3> QED  BY <1>t, <1>d, <3>1, <3>2, ClaimMove
  <2> QED  BY <1>4, <2>1, <2>2 DEF DispatcherStep
<1>5. ASSUME NEW d \in AllDispatchers, Abandon(d)  PROVE ClaimHolds'
  BY <1>r, <1>5 DEF Abandon
<1>6. CASE UNCHANGED vars  BY <1>t, <1>6, ClaimFrame DEF vars
<1> QED  BY <1>1, <1>2, <1>3, <1>4, <1>5, <1>6 DEF Next

-----------------------------------------------------------------------------
(* The refinement, step by step.  Abstractly a row is in one of six phases.  *)

phases == [r \in Rows |-> Phase(status[r])]

\* The initial states agree.
LEMMA InitPromise == Init => Promise!Init
BY DEF Init, Promise!Init, Phase

\* A claim, a check or a send call changes no phase.
LEMMA PromiseStutters ==
  ASSUME \A r \in Rows : Phase(status'[r]) = Phase(status[r])
  PROVE  UNCHANGED phases
BY DEF phases

\* Waiting rows S, and the row d holds, are put aside.
LEMMA PromiseDrop ==
  ASSUME TypeOK, NEW S \in SUBSET Rows, NEW st \in {"failed", "skipped", "cancelled"},
         \A s \in S : status[s] \in {"review", "approved", "processing"},
         \A s \in Rows : status'[s] = IF s \in S THEN st ELSE status[s]
  PROVE  Promise!Drop(S)
<1> DEFINE p == IF st = "cancelled" THEN "withdrawn" ELSE "closed"
<1>1. \A s \in S : Phase(status[s]) \in {"review", "queued"}  BY DEF Phase
<1>2. \A s \in Rows : Phase(status'[s]) = IF s \in S THEN p ELSE Phase(status[s])
  BY DEF Phase
<1>3. p \in {"closed", "withdrawn"}  OBVIOUS
<1> HIDE DEF p
<1>4. phases' = [s \in Rows |-> IF s \in S THEN p ELSE phases[s]]  BY <1>2 DEF phases
<1> QED  BY <1>1, <1>3, <1>4 DEF Promise!Drop, phases

\* The held row ends unsent, with the waiting rows S of its contact.
LEMMA PromiseEnd ==
  ASSUME TypeOK, NEW d, held[d] \in Rows, status[held[d]] = "processing",
         NEW S \in SUBSET Rows, \A s \in S : Waiting(s),
         EndRow(d, "failed", {}) \/ EndRow(d, "skipped", S)
  PROVE  Promise!Next
<1>1. CASE EndRow(d, "failed", {})
  <2>1. Promise!Drop({held[d]})
    BY <1>1, PromiseDrop DEF EndRow, Verdict
  <2> QED  BY <2>1 DEF Promise!Next
<1>2. CASE EndRow(d, "skipped", S)
  <2>1. Promise!Drop(S \cup {held[d]})
    BY <1>2, PromiseDrop DEF EndRow, Verdict, Waiting
  <2> QED  BY <2>1 DEF Promise!Next
<1> QED  BY <1>1, <1>2

\* The held row is recorded as sent, with the waiting rows S of its contact.
LEMMA PromiseSend ==
  ASSUME TypeOK, NEW d, held[d] \in Rows, status[held[d]] = "processing",
         NEW S \in SUBSET (Rows \ {held[d]}), \A s \in S : Waiting(s),
         EndRow(d, "sent", S)
  PROVE  Promise!Next
<1> DEFINE r == held[d]
<1>1. \A s \in Rows : Phase(status'[s]) = IF s = r THEN "sent"
                                          ELSE IF s \in S THEN "closed" ELSE Phase(status[s])
  BY DEF EndRow, Verdict, Phase
<1>2. Phase(status[r]) = "queued" /\ \A s \in S : Phase(status[s]) \in {"review", "queued"}
  BY DEF Phase, Waiting
<1> HIDE DEF r
<1>3. Promise!Send(r, S)  BY <1>1, <1>2 DEF Promise!Send, r
<1> QED  BY <1>3 DEF Promise!Next, r

\* The environment's steps: rows enter, are approved, and are withdrawn.
LEMMA EnvironmentPromise ==
  ASSUME TypeOK, Environment  PROVE Promise!Next \/ UNCHANGED phases
<1>1. ASSUME NEW r \in Rows, Enqueue(r) \/ AutoEnrol(r) \/ Approve(r)
      PROVE  Promise!Next
  <2>1. /\ status[r] \in {"absent", "review"}
        /\ \A s \in Rows \ {r} : status'[s] = status[s]
        /\ \/ status'[r] = "approved"
           \/ status[r] = "absent" /\ status'[r] = "review"
    BY <1>1, RowsAssumption DEF Enqueue, AutoEnrol, Approve, RowsOf, SameLead, TypeOK
  <2>2. \A s \in Rows : phases'[s] = IF s = r THEN Phase(status'[r]) ELSE phases[s]
    BY <2>1 DEF phases
  <2>3. phases' = [phases EXCEPT ![r] = Phase(status'[r])]  BY <2>2 DEF phases
  <2>4. CASE status[r] = "absent"
    <3>1. Phase(status[r]) = "absent" /\ Phase(status'[r]) \in {"review", "queued"}
      BY <2>1, <2>4 DEF Phase
    <3>2. Promise!Enter(r)  BY <2>3, <3>1 DEF Promise!Enter, phases
    <3> QED  BY <3>2 DEF Promise!Next
  <2>5. CASE status[r] = "review"
    <3>1. Phase(status[r]) = "review" /\ Phase(status'[r]) = "queued"
      BY <2>1, <2>5 DEF Phase
    <3>2. Promise!Approve(r)  BY <2>3, <3>1 DEF Promise!Approve, phases
    <3> QED  BY <3>2 DEF Promise!Next
  <2> QED  BY <2>1, <2>4, <2>5
<1>2. ASSUME NEW l \in Leads, Reject(l)  PROVE Promise!Next
  <2>1. Promise!Drop({r \in Rows : LeadOf[r] = l /\ Waiting(r)})
    BY <1>2, PromiseDrop DEF Reject, Waiting
  <2> QED  BY <2>1 DEF Promise!Next
<1>3. CASE \/ \E r \in Rows : Age(r)
           \/ \E l \in Leads : Rescan(l)
           \/ EmergencyStop \/ EmergencyResume \/ CoolDown \/ NewDay
           \/ \E key \in DryKeys[mode] : SetDryRun(key)
  <2>1. status' = status
    BY <1>3 DEF Age, Rescan, EmergencyStop, EmergencyResume, CoolDown, NewDay, SetDryRun, table
  <2> QED  BY <2>1, PromiseStutters
<1> QED  BY <1>1, <1>2, <1>3 DEF Environment

LEMMA NextPromise ==
  ASSUME TypeInv, Exclusive, ClaimHolds, [Next]_vars
  PROVE  Promise!Next \/ UNCHANGED phases
<1>t. TypeOK /\ deployed \subseteq AllDispatchers
  BY SettingsAssumption DEF TypeInv, TypeOK
<1>h. \A d \in deployed : pc[d] # "idle" => held[d] \in Rows  BY <1>t DEF TypeOK
\* From the claim to the record of the result the row is in processing.
<1>p. \A d \in deployed : pc[d] \notin {"idle", "selected", "noted", "closed"}
                            => status[held[d]] = "processing"
  BY DEF ClaimHolds
<1>k. status' = status => UNCHANGED phases  BY PromiseStutters
<1>s. \A d : /\ WaitingSiblings(d) \subseteq Rows \ {held[d]}
             /\ \A s \in WaitingSiblings(d) : Waiting(s)
  BY DEF WaitingSiblings, RowsOf
<1> USE DEF config, table, flags, counters, slack, row, hold, workers, history, bounds,
        ghosts, At
<1>1. CASE Environment  BY <1>t, <1>1, EnvironmentPromise
<1>2. CASE CampaignWorkerStep
  <2>1. CASE CommitSent
    BY <1>t, <1>h, <1>p, <1>s, <2>1, PromiseSend DEF CommitSent
  <2>2. ASSUME NEW r \in Rows, ClaimRow(r)  PROVE UNCHANGED phases
    <3>1. \A s \in Rows : Phase(status'[s]) = Phase(status[s])
      BY <1>t, <2>2 DEF ClaimRow, Claimable, Phase, TypeOK
    <3> QED  BY <3>1, PromiseStutters
  <2>3. CASE TokenMiss \/ DryAbort \/ ShutdownReturn \/ MarkToken
    BY <1>k, <2>3 DEF TokenMiss, DryAbort, ShutdownReturn, MarkToken
  <2> QED  BY <1>2, <2>1, <2>2, <2>3 DEF CampaignWorkerStep
<1>3. CASE ValidatorStep
  <2>1. CASE ScreenOut \/ DrySkip
    BY <1>t, <1>h, <1>p, <2>1, PromiseEnd DEF ScreenOut, DrySkip
  <2>2. CASE NoteSent
    BY <1>t, <1>h, <1>p, <2>2, PromiseSend DEF NoteSent
  <2>3. CASE MarkProcessing
    <3> DEFINE r == held["validator"]
    <3>1. /\ r \in Rows /\ status[r] \in {"approved", "processing", "cancelled"}
          /\ status' = [status EXCEPT ![r] = "processing"]
      BY <1>h, <2>3 DEF MarkProcessing, ClaimHolds
    <3> HIDE DEF r
    <3>2. \A s \in Rows : status'[s] = IF s = r THEN "processing" ELSE status[s]
      BY <1>t, <3>1 DEF TypeOK
    <3>3. CASE status[r] = "cancelled"
      <4>1. \A s \in Rows : phases'[s] = IF s = r THEN "queued" ELSE phases[s]
        BY <3>2 DEF phases, Phase
      <4>2. phases' = [phases EXCEPT ![r] = "queued"]  BY <4>1 DEF phases
      <4>3. Phase(status[r]) = "withdrawn"  BY <3>3 DEF Phase
      <4>4. Promise!Reinstate(r)  BY <3>1, <4>2, <4>3 DEF Promise!Reinstate, phases
      <4> QED  BY <3>1, <4>4 DEF Promise!Next
    <3>4. CASE status[r] # "cancelled"
      <4>1. \A s \in Rows : Phase(status'[s]) = Phase(status[s])
        BY <3>1, <3>2, <3>4 DEF Phase
      <4> QED  BY <4>1, PromiseStutters
    <3> QED  BY <3>3, <3>4
  <2>4. CASE CloseSent
    <3>1. Promise!Drop(WaitingSiblings("validator"))
      BY <1>t, <1>s, <2>4, PromiseDrop DEF CloseSent, Waiting
    <3> QED  BY <1>s, <3>1 DEF Promise!Next
  <2>5. CASE GateBounce
    <3>1. \A s \in Rows : Phase(status'[s]) = Phase(status[s])
      BY <1>t, <1>p, <2>5 DEF GateBounce, Phase, TypeOK
    <3> QED  BY <3>1, PromiseStutters
  <2>6. CASE (\E r \in Rows : SelectRow(r)) \/ ScreenIn \/ Pause \/ Proceed \/ CountSent
    BY <1>k, <2>6 DEF SelectRow, ScreenIn, Pause, Proceed, CountSent
  <2> QED  BY <1>3, <2>1, <2>2, <2>3, <2>4, <2>5, <2>6 DEF ValidatorStep
<1>4. ASSUME NEW d \in AllDispatchers, DispatcherStep(d)
      PROVE  Promise!Next \/ UNCHANGED phases
  <2>1. CASE TokenHit(d)
    BY <1>t, <1>h, <1>p, <2>1, PromiseSend DEF TokenHit
  <2>2. CASE Unfit(d) \/ SkipDuplicate(d) \/ GateSkip(d) \/ MarkFailed(d)
    BY <1>t, <1>h, <1>p, <1>s, <2>2, PromiseEnd DEF Unfit, SkipDuplicate, GateSkip, MarkFailed
  <2>3. CASE Clear(d) \/ GatePass(d) \/ Deliver(d) \/ LoseReply(d) \/ SendFails(d) \/ Flood(d)
    BY <1>k, <2>3 DEF Clear, GatePass, Deliver, LoseReply, SendFails, Flood
  <2> QED  BY <1>4, <2>1, <2>2, <2>3 DEF DispatcherStep
<1>5. ASSUME NEW d \in AllDispatchers, Abandon(d)  PROVE UNCHANGED phases
  BY <1>k, <1>5 DEF Abandon
<1>6. CASE UNCHANGED vars  BY <1>k, <1>6 DEF vars
<1> QED  BY <1>1, <1>2, <1>3, <1>4, <1>5, <1>6 DEF Next

\* A single dispatcher implements AbstractDelivery: through crashes, re-claims and
\* bulk updates, sent and closed rows are final and a withdrawn row returns to
\* the queue only.
THEOREM PromiseIsKept == Spec /\ Exclusive => KeepsPromise
<1> DEFINE Inv == TypeInv /\ Exclusive /\ ClaimHolds
<1>1. Init /\ Exclusive => Inv  BY InitType, InitClaim
<1>2. Inv /\ [Next]_vars => Inv'
  <2> SUFFICES ASSUME Inv, [Next]_vars  PROVE Inv' OBVIOUS
  <2>1. TypeInv'  BY NextType
  <2>2. Exclusive'  BY DeploymentFixed DEF Exclusive
  <2> QED  BY <2>1, <2>2, NextClaim
<1>3. Inv /\ [Next]_vars => [Promise!Next]_phases  BY NextPromise
<1> QED
  BY <1>1, <1>2, <1>3, InitPromise, PTL DEF Spec, KeepsPromise, Promise!Spec, phases

\* What the promise says of a row's end: for a single dispatcher a row that is sent,
\* failed or skipped stays so, also while a dispatcher holds it.
THEOREM EndsAreFinal ==
  Spec /\ Exclusive =>
    [][\A r \in Rows : phases[r] \in {"sent", "closed"} => phases'[r] = phases[r]]_phases
<1> DEFINE Final == \A r \in Rows : phases[r] \in {"sent", "closed"} => phases'[r] = phases[r]
<1>1. Promise!Next => Final
  <2>1. ASSUME NEW r \in Rows, Promise!Enter(r) \/ Promise!Approve(r) \/ Promise!Reinstate(r)
        PROVE  Final
    BY <2>1 DEF Promise!Enter, Promise!Approve, Promise!Reinstate, phases
  <2>2. ASSUME NEW S \in SUBSET Rows, Promise!Drop(S)  PROVE Final
    BY <2>2 DEF Promise!Drop, phases
  <2>3. ASSUME NEW r \in Rows, NEW S \in SUBSET (Rows \ {r}), Promise!Send(r, S)  PROVE Final
    BY <2>3 DEF Promise!Send, phases
  <2> QED  BY <2>1, <2>2, <2>3 DEF Promise!Next
<1>2. [Promise!Next]_phases => [Final]_phases  BY <1>1
<1> QED
  BY <1>2, PromiseIsKept, PTL DEF KeepsPromise, Promise!Spec, phases

=============================================================================
