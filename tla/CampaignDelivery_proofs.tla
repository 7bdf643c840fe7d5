----------------------- MODULE CampaignDelivery_proofs -----------------------
(* Proofs of the safety properties of CampaignDelivery, for any rows, leads, *)
(* contacts, deployments and bounds.                                         *)
EXTENDS CampaignDelivery, TLAPS

USE DEF AllDispatchers

-----------------------------------------------------------------------------
(* Type correctness.  The bound on tries needs to know where calls are made. *)

\* The places of an iteration before its first send call.
BeforeSend == {"idle", "selected", "claimed", "screened", "paced", "cleared"}

TriesInv == \A d \in AllDispatchers : /\ pc[d] = "gated" => tries[d] < SendLimit
                                      /\ pc[d] \in BeforeSend => tries[d] = 0

TypeInv == TypeOK /\ TriesInv

\* Initially every variable has its type and no call was made.
LEMMA InitType == Init => TypeInv
<1> SUFFICES ASSUME Init PROVE TypeInv OBVIOUS
<1>1. TypeOK
  <2>1. deployed \in Deployments /\ mode \in Modes /\ dryKey \in AllDryKeys
    BY DEF Init, AllDryKeys
  <2>2. /\ status \in [Rows -> Statuses] /\ stamp \in [Rows -> Stamps]
        /\ approvedBy \in [Rows -> {"nobody", "human", "crawler"}]
    BY DEF Init, Statuses, Stamps
  <2>3. /\ pc \in [AllDispatchers -> PCs]
        /\ held \in [AllDispatchers -> Rows \cup {None}]
        /\ \A d \in AllDispatchers : pc[d] # "idle" => held[d] \in Rows
        /\ target \in [AllDispatchers -> Contacts \cup {None}]
        /\ contact \in [Leads -> Contacts \cup {None}]
    BY RowsAssumption DEF Init, PCs
  <2>4. /\ tries \in [AllDispatchers -> 0..SendLimit]
        /\ crashes \in 0..MaxCrashes /\ lost \in 0..MaxLost /\ moves \in 0..MaxMoves
    BY SettingsAssumption DEF Init
  <2>5. /\ reached \in [Contacts -> Nat] /\ unrecorded \in [Contacts -> Nat]
        /\ rejectSlack \in [Leads -> Int] /\ stopSlack \in [AllDispatchers -> Int]
        /\ drySlack \in [AllDispatchers -> Int]
    BY DEF Init
  <2> QED  BY <2>1, <2>2, <2>3, <2>4, <2>5 DEF Init, TypeOK
<1>2. TriesInv
  BY SettingsAssumption DEF Init, TriesInv, BeforeSend
<1> QED  BY <1>1, <1>2 DEF TypeInv

\* The producers, the reviewers, the operators and time keep the types.
LEMMA EnvironmentType == TypeInv /\ Environment => TypeInv'
<1> SUFFICES ASSUME TypeInv, Environment PROVE TypeInv' OBVIOUS
<1> USE RowsAssumption, SettingsAssumption
    DEF TypeInv, TypeOK, TriesInv, Statuses, Stamps, PCs,
        config, table, flags, counters, slack, row, hold, workers, history, bounds,
        ghosts
<1>1. CASE \E r \in Rows : Enqueue(r)  BY <1>1 DEF Enqueue
<1>2. CASE \E r \in Rows : AutoEnrol(r)  BY <1>2 DEF AutoEnrol
<1>3. CASE \E r \in Rows : Approve(r)  BY <1>3 DEF Approve
<1>4. CASE \E r \in Rows : Age(r)  BY <1>4 DEF Age
<1>5. CASE \E l \in Leads : Reject(l)
  BY <1>5 DEF Reject, BecomeRejected, CallsLeft
<1>6. CASE \E l \in Leads : Rescan(l)
  <2> PICK l \in Leads : Rescan(l)  BY <1>6
  <2>1. \A n \in Int : Spent(n) \in Int  BY DEF Spent
  <2>2. rejected' \subseteq Leads /\ rejectSlack' \in [Leads -> Int]
    <3>1. CASE Readmit(l)  BY <2>1, <3>1 DEF Readmit
    <3>2. CASE BecomeRejected(l)  BY <3>2 DEF BecomeRejected, CallsLeft
    <3> QED  BY <3>1, <3>2 DEF Rescan
  <2>3. /\ contact' \in [Leads -> Contacts \cup {None}] /\ moves' \in 0..MaxMoves
        /\ replaced' \subseteq Contacts
    <3>1. CASE ReplaceContact(l)  BY <3>1 DEF ReplaceContact
    <3>2. CASE UNCHANGED <<contact, replaced, moves>>  BY <3>2
    <3> QED  BY <3>1, <3>2 DEF Rescan
  <2> QED  BY <2>2, <2>3 DEF Rescan
<1>7. CASE EmergencyStop  BY <1>7 DEF EmergencyStop, Stop, CallsLeft
<1>8. CASE EmergencyResume
  <2>1. stopSlack' \in [AllDispatchers -> Int]  BY <1>8 DEF EmergencyResume
  <2> QED  BY <1>8, <2>1 DEF EmergencyResume
<1>9. CASE CoolDown  BY <1>9 DEF CoolDown
<1>10. CASE NewDay  BY <1>10 DEF NewDay
<1>11. ASSUME NEW key \in DryKeys[mode], SetDryRun(key)  PROVE TypeInv'
  <2>1. dryKey' \in AllDryKeys  BY <1>11 DEF SetDryRun
  <2>2. \A d \in AllDispatchers : drySlack[d] \in Int /\ CallsLeft(d, PastDryRun(d), Rows) \in Int
    BY DEF CallsLeft
  <2>3. drySlack' \in [AllDispatchers -> Int]  BY <1>11, <2>2 DEF SetDryRun
  <2> QED  BY <1>11, <2>1, <2>3 DEF SetDryRun
<1> QED
  BY <1>1, <1>2, <1>3, <1>4, <1>5, <1>6, <1>7, <1>8, <1>9, <1>10, <1>11 DEF Environment

\* What the end of an iteration leaves behind.
LEMMA ReleaseType ==
  ASSUME TypeInv, NEW d \in AllDispatchers, Release(d)
  PROVE  /\ pc' \in [AllDispatchers -> PCs]
         /\ held' \in [AllDispatchers -> Rows \cup {None}]
         /\ \A e \in AllDispatchers : pc'[e] # "idle" => held'[e] \in Rows
         /\ target' \in [AllDispatchers -> Contacts \cup {None}]
         /\ tries' \in [AllDispatchers -> 0..SendLimit]
         /\ keyIsToday' \in BOOLEAN
         /\ rejectSlack' \in [Leads -> Int]
         /\ stopSlack' \in [AllDispatchers -> Int]
         /\ drySlack' \in [AllDispatchers -> Int]
         /\ TriesInv'
<1> USE SettingsAssumption DEF TypeInv, TypeOK
<1>1. \A n \in Int : Spent(n) \in Int  BY DEF Spent
<1>2. pc' \in [AllDispatchers -> PCs]  BY DEF Release, Goto, PCs
<1>3. /\ held' \in [AllDispatchers -> Rows \cup {None}]
      /\ \A e \in AllDispatchers : pc'[e] # "idle" => held'[e] \in Rows
      /\ target' \in [AllDispatchers -> Contacts \cup {None}]
  BY DEF Release, Goto
<1>4. tries' \in [AllDispatchers -> 0..SendLimit] /\ TriesInv'
  BY DEF Release, Goto, TriesInv, BeforeSend
<1>5. keyIsToday' \in BOOLEAN  BY DEF Release
<1>6. /\ rejectSlack' \in [Leads -> Int] /\ stopSlack' \in [AllDispatchers -> Int]
      /\ drySlack' \in [AllDispatchers -> Int]
  BY <1>1 DEF Release
<1> QED  BY <1>2, <1>3, <1>4, <1>5, <1>6

\* The end of a row keeps the types of the table.
LEMMA EndRowType ==
  ASSUME TypeOK, NEW d \in AllDispatchers, NEW st \in Statuses, NEW S, EndRow(d, st, S),
         held[d] \in Rows, S \subseteq Rows
  PROVE  status' \in [Rows -> Statuses] /\ stamped' \subseteq Rows
BY DEF TypeOK, EndRow, Verdict, Statuses

LEMMA SiblingsAreRows == \A d : WaitingSiblings(d) \subseteq Rows
BY DEF WaitingSiblings, RowsOf

\* A step of dispatcher d outside the idle state holds a row.
LEMMA HeldRow ==
  ASSUME TypeOK, NEW d \in AllDispatchers, pc[d] # "idle"  PROVE held[d] \in Rows
BY DEF TypeOK

\* campaign_worker's own steps keep the types.
LEMMA CampaignWorkerType == TypeInv /\ CampaignWorkerStep => TypeInv'
<1> SUFFICES ASSUME TypeInv, CampaignWorkerStep PROVE TypeInv' OBVIOUS
<1> USE RowsAssumption, SettingsAssumption
    DEF TypeInv, At, config, table, flags, counters, slack, row, hold, workers, history, bounds,
        ghosts
<1>h. pc["campaign_worker"] # "idle" => held["campaign_worker"] \in Rows  BY HeldRow
<1>1. CASE \E r \in Rows : ClaimRow(r)
  BY <1>1 DEF ClaimRow, Take, Goto, TypeOK, TriesInv, BeforeSend, Statuses, PCs
<1>2. CASE TokenMiss  BY <1>2 DEF TokenMiss, Goto, TypeOK, TriesInv, BeforeSend, PCs
<1>3. CASE DryAbort  BY <1>3, ReleaseType DEF DryAbort, TypeOK
<1>4. CASE ShutdownReturn
  BY <1>4 DEF ShutdownReturn, Goto, TypeOK, TriesInv, BeforeSend, PCs
<1>5. CASE MarkToken
  BY <1>5, <1>h DEF MarkToken, Goto, TypeOK, TriesInv, BeforeSend, PCs
<1>6. CASE CommitSent
  <2>1. status' \in [Rows -> Statuses] /\ stamped' \subseteq Rows
    BY <1>6, <1>h, EndRowType, SiblingsAreRows DEF CommitSent, Statuses
  <2> QED  BY <1>6, <2>1, ReleaseType DEF CommitSent, TypeOK
<1> QED  BY <1>1, <1>2, <1>3, <1>4, <1>5, <1>6 DEF CampaignWorkerStep

\* validator's own steps keep the types.
LEMMA ValidatorType == TypeInv /\ ValidatorStep => TypeInv'
<1> SUFFICES ASSUME TypeInv, ValidatorStep PROVE TypeInv' OBVIOUS
<1> USE RowsAssumption, SettingsAssumption
    DEF TypeInv, At, config, table, flags, counters, slack, row, hold, workers, history, bounds,
        ghosts
<1>h. pc["validator"] # "idle" => held["validator"] \in Rows  BY HeldRow
<1>1. CASE \E r \in Rows : SelectRow(r)
  BY <1>1 DEF SelectRow, Take, Goto, TypeOK, TriesInv, BeforeSend, PCs
<1>2. CASE MarkProcessing
  BY <1>2, <1>h DEF MarkProcessing, Goto, TypeOK, TriesInv, BeforeSend, Statuses, PCs
<1>3. CASE ScreenIn
  BY <1>3, <1>h DEF ScreenIn, Goto, TypeOK, TriesInv, BeforeSend, Stamps, PCs
<1>4. CASE ScreenOut
  <2>1. status' \in [Rows -> Statuses] /\ stamped' \subseteq Rows
    BY <1>4, <1>h, EndRowType DEF ScreenOut, Statuses
  <2> QED  BY <1>4, <2>1, ReleaseType DEF ScreenOut, TypeOK
<1>5. CASE DrySkip
  <2>1. status' \in [Rows -> Statuses] /\ stamped' \subseteq Rows
    BY <1>5, <1>h, EndRowType DEF DrySkip, Statuses
  <2> QED  BY <1>5, <2>1, ReleaseType DEF DrySkip, TypeOK
<1>6. CASE Pause
  <2>1. breakTaken' \in BOOLEAN  BY <1>6 DEF Pause
  <2> QED  BY <1>6, <2>1, ReleaseType DEF Pause, TypeOK
<1>7. CASE Proceed  BY <1>7 DEF Proceed, Goto, TypeOK, TriesInv, BeforeSend, PCs
<1>8. CASE GateBounce
  <2>1. status' \in [Rows -> Statuses]
    BY <1>8, <1>h DEF GateBounce, TypeOK, Statuses
  <2> QED  BY <1>8, <2>1, ReleaseType DEF GateBounce, TypeOK
<1>9. CASE NoteSent
  <2>1. status' \in [Rows -> Statuses] /\ stamped' \subseteq Rows
    BY <1>9, <1>h, EndRowType DEF NoteSent, Statuses
  <2> QED  BY <1>9, <2>1 DEF NoteSent, Goto, TypeOK, TriesInv, BeforeSend, PCs
<1>10. CASE CloseSent
  <2>1. status' \in [Rows -> Statuses] /\ stamped' \subseteq Rows
    BY <1>10, SiblingsAreRows DEF CloseSent, TypeOK, Statuses
  <2> QED  BY <1>10, <2>1 DEF CloseSent, Goto, TypeOK, TriesInv, BeforeSend, PCs
<1>11. CASE CountSent
  <2>1. sentToday' \in Nat /\ breakTaken' \in BOOLEAN  BY <1>11 DEF CountSent, TypeOK
  <2> QED  BY <1>11, <2>1, ReleaseType DEF CountSent, TypeOK
<1> QED
  BY <1>1, <1>2, <1>3, <1>4, <1>5, <1>6, <1>7, <1>8, <1>9, <1>10, <1>11 DEF ValidatorStep

\* One more message is counted.
LEMMA CountType ==
  ASSUME NEW f \in [Contacts -> Nat], NEW c
  PROVE  [f EXCEPT ![c] = @ + 1] \in [Contacts -> Nat]
<1>1. \A k \in Contacts : [f EXCEPT ![c] = @ + 1][k] = IF k = c THEN f[k] + 1 ELSE f[k]
  OBVIOUS
<1>2. \A k \in Contacts : f[k] \in Nat  OBVIOUS
<1>3. \A k \in Contacts : [f EXCEPT ![c] = @ + 1][k] \in Nat  BY <1>1, <1>2
<1> QED  BY <1>3

\* A delivery counts one more message and keeps the types.
LEMMA DispatchType ==
  ASSUME TypeOK, NEW d \in AllDispatchers, held[d] \in Rows, Dispatch(d)
  PROVE  /\ reached' \in [Contacts -> Nat] /\ dispatched' \subseteq Rows
         /\ rejectSlack' \in [Leads -> Int] /\ stopSlack' \in [AllDispatchers -> Int]
         /\ drySlack' \in [AllDispatchers -> Int]
<1>1. LeadOf[held[d]] \in Leads  BY RowsAssumption
<1>2. reached' \in [Contacts -> Nat]  BY CountType DEF Dispatch, TypeOK
<1> QED  BY <1>1, <1>2 DEF Dispatch, TypeOK

\* After a send call the bound on the calls still holds.
LEMMA AnotherTryType ==
  ASSUME TypeInv, NEW d \in AllDispatchers, pc[d] = "gated", AnotherTry(d)
  PROVE  /\ tries' \in [AllDispatchers -> 0..SendLimit] /\ pc' \in [AllDispatchers -> PCs]
         /\ TriesInv' /\ \A e \in AllDispatchers : pc'[e] # "idle" => pc[e] # "idle"
BY SettingsAssumption
   DEF TypeInv, TypeOK, TriesInv, AnotherTry, Goto, BeforeSend, PCs

\* The steps that both dispatchers have keep the types.
LEMMA DispatcherType ==
  ASSUME TypeInv, NEW d \in AllDispatchers, DispatcherStep(d)  PROVE TypeInv'
<1> USE RowsAssumption, SettingsAssumption
    DEF TypeInv, At, config, table, flags, counters, slack, row, hold, workers, history, bounds,
        ghosts
<1>h. pc[d] # "idle" => held[d] \in Rows  BY HeldRow
<1>1. CASE TokenHit(d)
  <2>1. status' \in [Rows -> Statuses] /\ stamped' \subseteq Rows
    BY <1>1, <1>h, EndRowType DEF TokenHit, Statuses
  <2> QED  BY <1>1, <2>1, ReleaseType DEF TokenHit, TypeOK
<1>2. CASE Unfit(d)
  <2>1. status' \in [Rows -> Statuses] /\ stamped' \subseteq Rows
    BY <1>2, <1>h, EndRowType DEF Unfit, Statuses
  <2> QED  BY <1>2, <2>1, ReleaseType DEF Unfit, TypeOK
<1>3. CASE SkipDuplicate(d)
  <2>1. status' \in [Rows -> Statuses] /\ stamped' \subseteq Rows
    BY <1>3, <1>h, EndRowType, SiblingsAreRows DEF SkipDuplicate, Statuses
  <2> QED  BY <1>3, <2>1, ReleaseType DEF SkipDuplicate, TypeOK
<1>4. CASE Clear(d)
  BY <1>4, <1>h DEF Clear, Goto, TypeOK, TriesInv, BeforeSend, PCs
<1>5. CASE GateSkip(d)
  <2>1. status' \in [Rows -> Statuses] /\ stamped' \subseteq Rows
    BY <1>5, <1>h, EndRowType DEF GateSkip, Statuses
  <2> QED  BY <1>5, <2>1, ReleaseType DEF GateSkip, TypeOK
<1>6. CASE GatePass(d)
  BY <1>6, <1>h DEF GatePass, Goto, TypeOK, TriesInv, BeforeSend, PCs
<1>7. CASE Deliver(d)
  <2>1. /\ tries' \in [AllDispatchers -> 0..SendLimit] /\ pc' \in [AllDispatchers -> PCs]
        /\ TriesInv' /\ \A e \in AllDispatchers : pc'[e] # "idle" => pc[e] # "idle"
    BY <1>7 DEF Deliver, Goto, TypeOK, TriesInv, BeforeSend, PCs
  <2> QED  BY <1>7, <1>h, <2>1, DispatchType DEF Deliver, TypeOK
<1>8. CASE LoseReply(d)
  <2>1. unrecorded' \in [Contacts -> Nat]
    BY <1>8, CountType DEF LoseReply, TypeOK
  <2>2. lost' \in 0..MaxLost  BY <1>8 DEF LoseReply, TypeOK
  <2> QED  BY <1>8, <1>h, <2>1, <2>2, DispatchType, AnotherTryType DEF LoseReply, TypeOK
<1>9. CASE SendFails(d)
  BY <1>9, AnotherTryType DEF SendFails, TypeOK
<1>10. CASE Flood(d)
  <2>1. /\ tries' \in [AllDispatchers -> 0..SendLimit] /\ pc' \in [AllDispatchers -> PCs]
        /\ TriesInv' /\ \A e \in AllDispatchers : pc'[e] # "idle" => pc[e] # "idle"
    BY <1>10 DEF Flood, Goto, TypeOK, TriesInv, BeforeSend, PCs
  <2>2. /\ stopped' \in BOOLEAN /\ cooling' \in BOOLEAN
        /\ stopSlack' \in [AllDispatchers -> Int]
    BY <1>10 DEF Flood, Stop, CallsLeft, TypeOK
  <2> QED  BY <1>10, <2>1, <2>2 DEF Flood, TypeOK
<1>11. CASE MarkFailed(d)
  <2>1. status' \in [Rows -> Statuses] /\ stamped' \subseteq Rows
    BY <1>11, <1>h, EndRowType DEF MarkFailed, Statuses
  <2> QED  BY <1>11, <2>1, ReleaseType DEF MarkFailed, TypeOK
<1> QED
  BY <1>1, <1>2, <1>3, <1>4, <1>5, <1>6, <1>7, <1>8, <1>9, <1>10, <1>11 DEF DispatcherStep

\* A crash, or an aborted iteration, keeps the types.
LEMMA AbandonType ==
  ASSUME TypeInv, NEW d \in AllDispatchers, Abandon(d)  PROVE TypeInv'
<1> USE RowsAssumption, SettingsAssumption
    DEF TypeInv, config, table, flags, counters, slack, row, hold, workers, history, bounds,
        ghosts
<1>1. held[d] \in Rows  BY HeldRow DEF Abandon
<1>2. unrecorded' \in [Contacts -> Nat]  BY CountType DEF Abandon, TypeOK
<1>3. crashes' \in 0..MaxCrashes  BY DEF Abandon, TypeOK
<1> QED  BY <1>2, <1>3, ReleaseType DEF Abandon, TypeOK

\* Every step keeps the types.
LEMMA NextType == TypeInv /\ [Next]_vars => TypeInv'
<1> SUFFICES ASSUME TypeInv, [Next]_vars PROVE TypeInv' OBVIOUS
<1>1. CASE Environment  BY <1>1, EnvironmentType
<1>2. CASE CampaignWorkerStep  BY <1>2, CampaignWorkerType
<1>3. CASE ValidatorStep  BY <1>3, ValidatorType
<1>4. ASSUME NEW d \in AllDispatchers, DispatcherStep(d)  PROVE TypeInv'
  BY <1>4, DispatcherType
<1>5. ASSUME NEW d \in AllDispatchers, Abandon(d)  PROVE TypeInv'
  BY <1>5, AbandonType
<1>6. CASE UNCHANGED vars
  BY <1>6 DEF TypeInv, TypeOK, TriesInv, vars, config, table, flags, counters, slack,
              row, hold, workers, history, bounds, ghosts
<1> QED  BY <1>1, <1>2, <1>3, <1>4, <1>5, <1>6 DEF Next

\* In every reachable state the types hold, with the bound on the send calls.
LEMMA TypeInvariant == Spec => []TypeInv
BY InitType, NextType, PTL DEF Spec

\* In every reachable state every variable has its type; in particular a row
\* gets no more than SendLimit send calls from the dispatcher that claimed it.
THEOREM TypeCorrect == Spec => []TypeOK
<1>1. TypeInv => TypeOK  BY DEF TypeInv
<1> QED  BY <1>1, TypeInvariant, PTL

-----------------------------------------------------------------------------
(* The daily target.  Between the check and the count, validator remembers   *)
(* the day of the check: as long as that day lasts, nobody else counts.      *)

DailyInv == DailyTargetKept /\ (keyIsToday => sentToday < DailyTarget)

LEMMA InitDaily == Init => DailyInv
BY SettingsAssumption DEF Init, DailyInv, DailyTargetKept

LEMMA NextDaily == TypeOK /\ DailyInv /\ [Next]_vars => DailyInv'
<1> SUFFICES ASSUME TypeOK, DailyInv, [Next]_vars PROVE DailyInv' OBVIOUS
<1> USE SettingsAssumption
    DEF TypeOK, DailyInv, DailyTargetKept, config, table, flags, counters, slack, row,
        hold, workers, history, bounds, ghosts
\* Most steps leave the counter alone, and the remembered day or forget it.
<1>k. sentToday' = sentToday /\ (keyIsToday' => keyIsToday) => DailyInv'  OBVIOUS
<1>1. CASE Environment
  BY <1>1, <1>k DEF Environment, Enqueue, AutoEnrol, Approve, Age, Reject, Rescan,
     EmergencyStop, EmergencyResume, CoolDown, NewDay, SetDryRun
<1>2. CASE CampaignWorkerStep
  BY <1>2, <1>k DEF CampaignWorkerStep, ClaimRow, TokenMiss, DryAbort, ShutdownReturn,
     MarkToken, CommitSent, Release
<1>3. CASE ValidatorStep
  <2>1. CASE Proceed
    <3>1. ~TargetReached /\ sentToday' = sentToday  BY <2>1 DEF Proceed
    <3>2. sentToday < DailyTarget  BY <3>1 DEF TargetReached
    <3> QED  BY <3>1, <3>2
  <2>2. CASE CountSent
    <3>1. ~keyIsToday'  BY <2>2 DEF CountSent, Release
    <3>2. sentToday' = IF keyIsToday THEN sentToday + 1 ELSE sentToday
      BY <2>2 DEF CountSent
    <3> QED  BY <3>1, <3>2
  <2>3. CASE ~Proceed /\ ~CountSent
    BY <1>3, <2>3, <1>k DEF ValidatorStep, SelectRow, MarkProcessing, ScreenIn, ScreenOut,
       DrySkip, Pause, GateBounce, NoteSent, CloseSent, Release
  <2> QED  BY <2>1, <2>2, <2>3
<1>4. ASSUME NEW d \in AllDispatchers, DispatcherStep(d)  PROVE DailyInv'
  BY <1>4, <1>k DEF DispatcherStep, TokenHit, Unfit, SkipDuplicate, Clear, GateSkip,
     GatePass, Deliver, LoseReply, SendFails, Flood, MarkFailed, Release
<1>5. ASSUME NEW d \in AllDispatchers, Abandon(d)  PROVE DailyInv'
  BY <1>5, <1>k DEF Abandon, Release
<1>6. CASE UNCHANGED vars  BY <1>6, <1>k DEF vars
<1> QED  BY <1>1, <1>2, <1>3, <1>4, <1>5, <1>6 DEF Next

\* validator counts no more messages in a day than the daily target, although it
\* reads the counter before the send and increments it afterwards.
THEOREM DailyTargetHolds == Spec => []DailyTargetKept
<1>1. DailyInv => DailyTargetKept  BY DEF DailyInv
<1>2. TypeInv => TypeOK  BY DEF TypeInv
<1> QED  BY <1>1, <1>2, InitDaily, NextDaily, TypeInvariant, PTL DEF Spec

-----------------------------------------------------------------------------
(* The kill switches.  While a stop lasts, a dispatcher past the gate has at *)
(* least as much slack as send calls left: none is made on top of them.      *)

StopInv == \A d \in AllDispatchers :
             /\ stopSlack[d] >= 0
             /\ stopped /\ d \in deployed /\ pc[d] = "gated"
                  => stopSlack[d] >= SendLimit - tries[d]

LEMMA InitStop == Init => StopInv
BY DEF Init, StopInv

\* Steps that neither stop, nor pass the gate, nor send.
LEMMA StopFrame ==
  ASSUME TypeInv, StopInv, UNCHANGED <<deployed, stopped, stopSlack>>,
         \A e \in AllDispatchers : pc'[e] = "gated" => pc[e] = "gated" /\ tries'[e] = tries[e]
  PROVE  StopInv'
BY DEF TypeInv, TypeOK, StopInv

\* The end of an iteration cancels what is left of the slack.
LEMMA StopRelease ==
  ASSUME TypeInv, StopInv, UNCHANGED <<deployed, stopped>>,
         NEW d \in AllDispatchers, Release(d)
  PROVE  StopInv'
<1>1. ASSUME NEW e \in AllDispatchers, e # d
      PROVE  pc'[e] = pc[e] /\ tries'[e] = tries[e] /\ stopSlack'[e] = stopSlack[e]
  BY <1>1 DEF Release, Goto, TypeInv, TypeOK
<1>2. pc'[d] = "idle" /\ stopSlack'[d] = Spent(stopSlack[d])
  BY DEF Release, Goto, TypeInv, TypeOK
<1>3. Spent(stopSlack[d]) >= 0  BY DEF Spent, StopInv, TypeInv, TypeOK
<1> QED  BY <1>1, <1>2, <1>3 DEF StopInv

LEMMA NextStop == TypeInv /\ StopInv /\ [Next]_vars => StopInv'
<1> SUFFICES ASSUME TypeInv, StopInv, [Next]_vars PROVE StopInv' OBVIOUS
<1> USE SettingsAssumption
    DEF config, table, flags, counters, slack, row, hold, workers, history, bounds,
        ghosts, At
<1>1. CASE Environment
  <2>1. CASE EmergencyStop
    BY <2>1 DEF EmergencyStop, Stop, CallsLeft, StopInv, TypeInv, TypeOK, TriesInv
  <2>2. CASE EmergencyResume
    BY <2>2 DEF EmergencyResume, StopInv, TypeInv, TypeOK
  <2>3. CASE ~EmergencyStop /\ ~EmergencyResume
    BY <1>1, <2>3, StopFrame DEF Environment, Enqueue, AutoEnrol, Approve, Age, Reject,
       Rescan, CoolDown, NewDay, SetDryRun
  <2> QED  BY <2>1, <2>2, <2>3
<1>2. CASE CampaignWorkerStep
  <2>1. CASE DryAbort \/ CommitSent  BY <2>1, StopRelease DEF DryAbort, CommitSent
  <2>2. CASE ~DryAbort /\ ~CommitSent
    <3> USE DEF TypeInv, TypeOK
    <3>1. /\ UNCHANGED <<deployed, stopped, stopSlack, tries>>
          /\ \E place \in PCs \ {"gated"} : Goto("campaign_worker", place)
      BY <1>2, <2>2 DEF CampaignWorkerStep, ClaimRow, TokenMiss, ShutdownReturn, MarkToken,
         PCs
    <3> QED  BY <3>1, StopFrame DEF Goto
  <2> QED  BY <2>1, <2>2
<1>3. CASE ValidatorStep
  <2>1. CASE ScreenOut \/ DrySkip \/ Pause \/ GateBounce \/ CountSent
    BY <2>1, StopRelease DEF ScreenOut, DrySkip, Pause, GateBounce, CountSent
  <2>2. CASE ~(ScreenOut \/ DrySkip \/ Pause \/ GateBounce \/ CountSent)
    <3> USE DEF TypeInv, TypeOK
    <3>1. /\ UNCHANGED <<deployed, stopped, stopSlack, tries>>
          /\ \E place \in PCs \ {"gated"} : Goto("validator", place)
      BY <1>3, <2>2 DEF ValidatorStep, SelectRow, MarkProcessing, ScreenIn, Proceed,
         NoteSent, CloseSent, PCs
    <3> QED  BY <3>1, StopFrame DEF Goto
  <2> QED  BY <2>1, <2>2
<1>4. ASSUME NEW d \in AllDispatchers, DispatcherStep(d)  PROVE StopInv'
  <2>1. CASE TokenHit(d) \/ Unfit(d) \/ SkipDuplicate(d) \/ GateSkip(d) \/ MarkFailed(d)
    BY <2>1, StopRelease DEF TokenHit, Unfit, SkipDuplicate, GateSkip, MarkFailed
  <2>2. CASE Clear(d)  BY <2>2, StopFrame DEF Clear, Goto, TypeInv, TypeOK
  <2>3. CASE GatePass(d)  BY <2>3 DEF GatePass, StopInv, TypeInv, TypeOK
  <2>4. CASE Deliver(d) \/ LoseReply(d)
    <3>1. /\ pc[d] = "gated" /\ d \in deployed /\ Dispatch(d)
          /\ UNCHANGED <<deployed, stopped>>
          /\ tries' = [tries EXCEPT ![d] = @ + 1]
          /\ \A e \in AllDispatchers \ {d} : pc'[e] = pc[e]
      BY <2>4 DEF Deliver, LoseReply, AnotherTry, Goto, TypeInv, TypeOK
    <3>2. stopSlack' = IF stopped THEN [stopSlack EXCEPT ![d] = @ - 1] ELSE stopSlack
      BY <3>1 DEF Dispatch
    <3> QED  BY <3>1, <3>2 DEF StopInv, TypeInv, TypeOK, TriesInv
  <2>5. CASE SendFails(d)
    <3>1. /\ pc[d] = "gated"
          /\ UNCHANGED <<deployed, stopped, stopSlack>>
          /\ tries' = [tries EXCEPT ![d] = @ + 1]
          /\ \A e \in AllDispatchers \ {d} : pc'[e] = pc[e]
      BY <2>5 DEF SendFails, AnotherTry, Goto, TypeInv, TypeOK
    <3> QED  BY <3>1 DEF StopInv, TypeInv, TypeOK
  <2>6. CASE Flood(d)
    <3>1. /\ UNCHANGED deployed
          /\ \A e \in AllDispatchers : pc'[e] = "gated" => pc[e] = "gated" /\ tries'[e] = tries[e]
      BY <2>6 DEF Flood, Goto, TypeInv, TypeOK
    <3>2. stopSlack' = IF stopped THEN stopSlack
                       ELSE [e \in AllDispatchers |-> CallsLeft(e, {"gated"}, Rows)]
      BY <2>6 DEF Flood, Stop
    <3>3. CASE stopped  BY <3>1, <3>2, <3>3 DEF StopInv, TypeInv, TypeOK
    <3>4. CASE ~stopped
      BY <3>1, <3>2, <3>4 DEF CallsLeft, StopInv, TypeInv, TypeOK
    <3> QED  BY <3>3, <3>4
  <2> QED  BY <1>4, <2>1, <2>2, <2>3, <2>4, <2>5, <2>6 DEF DispatcherStep
<1>5. ASSUME NEW d \in AllDispatchers, Abandon(d)  PROVE StopInv'
  BY <1>5, StopRelease DEF Abandon
<1>6. CASE UNCHANGED vars  BY <1>6, StopFrame DEF vars
<1> QED  BY <1>1, <1>2, <1>3, <1>4, <1>5, <1>6 DEF Next

\* A stop reaches every dispatcher: none of them makes more send calls after it
\* than those left for a row with which it had passed the safety gate before.
THEOREM StopHonoured == Spec => []StopBoundsDispatch
<1>1. StopInv => StopBoundsDispatch  BY DEF StopInv, StopBoundsDispatch
<1> QED  BY <1>1, InitStop, NextStop, TypeInvariant, PTL DEF Spec

-----------------------------------------------------------------------------
(* Rejections.  The same argument per lead, for validator, from its          *)
(* eligibility check on.                                                     *)

\* Lead l was rejected while validator worked on a row of it.
RejectedMidway(l) == /\ l \in rejected
                     /\ "validator" \in deployed /\ pc["validator"] \in Eligible
                     /\ LeadOf[held["validator"]] = l

RejectInv == \A l \in Leads :
               /\ rejectSlack[l] >= 0
               /\ RejectedMidway(l) => rejectSlack[l] >= SendLimit - tries["validator"]

LEMMA InitReject == Init => RejectInv
<1> SUFFICES ASSUME Init, NEW l \in Leads  PROVE rejectSlack[l] = 0 /\ l \notin rejected
  BY DEF RejectInv, RejectedMidway
<1> QED  BY DEF Init

\* Steps that reject nobody, do not end the check and do not send.
LEMMA RejectFrame ==
  ASSUME TypeInv, TypeInv', RejectInv, UNCHANGED <<deployed, rejectSlack>>,
         rejected' \subseteq rejected,
         pc'["validator"] \in Eligible
           => /\ pc["validator"] \in Eligible /\ held'["validator"] = held["validator"]
              /\ tries'["validator"] >= tries["validator"]
  PROVE  RejectInv'
<1> SUFFICES ASSUME NEW l \in Leads
             PROVE  /\ rejectSlack'[l] >= 0
                    /\ RejectedMidway(l)'
                         => rejectSlack'[l] >= SendLimit - tries'["validator"]
  BY DEF RejectInv, RejectedMidway
<1>1. tries["validator"] \in Int /\ tries'["validator"] \in Int /\ SendLimit \in Int
  BY SettingsAssumption DEF TypeInv, TypeOK
<1>2. rejectSlack[l] \in Int /\ rejectSlack' = rejectSlack  BY DEF TypeInv, TypeOK
<1> QED  BY <1>1, <1>2 DEF RejectInv, RejectedMidway

\* The end of validator's iteration cancels what is left of the slack.
LEMMA RejectRelease ==
  ASSUME TypeInv, RejectInv, UNCHANGED deployed, rejected' \subseteq rejected,
         NEW d \in AllDispatchers, Release(d)
  PROVE  RejectInv'
<1>1. CASE d = "validator"
  <2>1. \A l \in Leads : rejectSlack'[l] = Spent(rejectSlack[l])  BY <1>1 DEF Release
  <2>2. \A l \in Leads : Spent(rejectSlack[l]) >= 0
    BY DEF Spent, RejectInv, TypeInv, TypeOK
  <2>3. pc'["validator"] \notin Eligible
    BY <1>1 DEF Release, Goto, Eligible, TypeInv, TypeOK
  <2> QED  BY <2>1, <2>2, <2>3 DEF RejectInv, RejectedMidway
<1>2. CASE d # "validator"
  <2>1. /\ pc'["validator"] = pc["validator"] /\ held'["validator"] = held["validator"]
        /\ tries'["validator"] = tries["validator"] /\ rejectSlack' = rejectSlack
    BY <1>2 DEF Release, Goto, TypeInv, TypeOK
  <2> QED  BY <2>1 DEF RejectInv, RejectedMidway
<1> QED  BY <1>1, <1>2

\* The rejection itself sets the slack to the calls that are left.
LEMMA RejectSlackSet ==
  ASSUME TypeInv, RejectInv, NEW k \in Leads, BecomeRejected(k),
         UNCHANGED <<deployed, pc, held, tries>>
  PROVE  RejectInv'
<1>1. CASE k \in rejected
  BY <1>1 DEF BecomeRejected, RejectInv, RejectedMidway
<1>2. CASE k \notin rejected
  <2> DEFINE left == CallsLeft("validator", Eligible, {r \in Rows : LeadOf[r] = k})
  <2>1. rejectSlack' = [rejectSlack EXCEPT ![k] = left] /\ rejected' = rejected \cup {k}
    BY <1>2 DEF BecomeRejected
  <2>2. left >= 0 /\ ("validator" \in deployed /\ pc["validator"] \in Eligible
                        /\ LeadOf[held["validator"]] = k => left >= SendLimit - tries["validator"])
    <3>1. SendLimit - tries["validator"] >= 0 /\ SendLimit - tries["validator"] \in Int
      BY SettingsAssumption DEF TypeInv, TypeOK
    <3>2. pc["validator"] \in Eligible => held["validator"] \in Rows
      BY HeldRow DEF TypeInv, Eligible
    <3> QED  BY <3>1, <3>2 DEF CallsLeft
  <2> HIDE DEF left
  <2>3. rejectSlack'[k] = left  BY <2>1 DEF TypeInv, TypeOK
  <2>4. \A l \in Leads \ {k} : rejectSlack'[l] = rejectSlack[l]  BY <2>1 DEF TypeInv, TypeOK
  <2> QED  BY <2>1, <2>2, <2>3, <2>4 DEF RejectInv, RejectedMidway
<1> QED  BY <1>1, <1>2

LEMMA NextReject == TypeInv /\ TypeInv' /\ RejectInv /\ [Next]_vars => RejectInv'
<1> SUFFICES ASSUME TypeInv, TypeInv', RejectInv, [Next]_vars PROVE RejectInv' OBVIOUS
<1>t. /\ "validator" \in DOMAIN pc /\ "validator" \in DOMAIN tries
      /\ tries["validator"] \in Int
  BY SettingsAssumption DEF TypeInv, TypeOK
<1> USE DEF config, table, flags, counters, slack, row, hold, workers, history, bounds,
        ghosts, At
<1>1. CASE Environment
  <2>1. ASSUME NEW l \in Leads, Reject(l)  PROVE RejectInv'
    BY <2>1, RejectSlackSet DEF Reject
  <2>2. ASSUME NEW l \in Leads, Rescan(l)  PROVE RejectInv'
    <3>1. CASE BecomeRejected(l)  BY <2>2, <3>1, RejectSlackSet DEF Rescan
    <3>2. CASE Readmit(l)
      <4>1. rejectSlack' = [rejectSlack EXCEPT ![l] = Spent(@)] /\ rejected' = rejected \ {l}
        BY <3>2 DEF Readmit
      <4>2. Spent(rejectSlack[l]) >= 0  BY DEF Spent, RejectInv, TypeInv, TypeOK
      <4>3. rejectSlack'[l] >= 0 /\ \A k \in Leads \ {l} : rejectSlack'[k] = rejectSlack[k]
        BY <4>1, <4>2 DEF TypeInv, TypeOK
      <4>4. UNCHANGED <<deployed, pc, held, tries>>  BY <2>2 DEF Rescan
      <4> QED  BY <4>1, <4>3, <4>4 DEF RejectInv, RejectedMidway
    <3> QED  BY <2>2, <3>1, <3>2 DEF Rescan
  <2>3. CASE \/ \E r \in Rows : Enqueue(r) \/ AutoEnrol(r) \/ Approve(r) \/ Age(r)
             \/ EmergencyStop \/ EmergencyResume \/ CoolDown \/ NewDay
             \/ \E key \in DryKeys[mode] : SetDryRun(key)
    BY <2>3, <1>t, RejectFrame DEF Enqueue, AutoEnrol, Approve, Age,
       EmergencyStop, EmergencyResume, CoolDown, NewDay, SetDryRun
  <2> QED  BY <1>1, <2>1, <2>2, <2>3 DEF Environment
<1>2. CASE CampaignWorkerStep
  <2>1. CASE DryAbort \/ CommitSent
    BY <2>1, RejectRelease DEF DryAbort, CommitSent, TypeInv, TypeOK
  <2>2. CASE ~DryAbort /\ ~CommitSent
    <3>1. /\ UNCHANGED <<deployed, rejected, rejectSlack, tries>>
          /\ pc'["validator"] = pc["validator"] /\ held'["validator"] = held["validator"]
      BY <1>2, <2>2 DEF CampaignWorkerStep, ClaimRow, Take, TokenMiss, ShutdownReturn, MarkToken,
         Goto, TypeInv, TypeOK
    <3> QED  BY <3>1, <1>t, RejectFrame
  <2> QED  BY <2>1, <2>2
<1>3. CASE ValidatorStep
  <2>1. CASE ScreenOut \/ DrySkip \/ Pause \/ GateBounce \/ CountSent
    BY <2>1, RejectRelease DEF ScreenOut, DrySkip, Pause, GateBounce, CountSent
  <2>2. CASE (\E r \in Rows : SelectRow(r)) \/ MarkProcessing \/ NoteSent \/ CloseSent
    <3>1. /\ UNCHANGED <<deployed, rejectSlack>> /\ rejected' \subseteq rejected
          /\ pc'["validator"] \notin Eligible
      BY <2>2 DEF SelectRow, MarkProcessing, NoteSent, CloseSent, Goto, Eligible, TypeInv,
         TypeOK
    <3> QED  BY <3>1, RejectFrame
  <2>3. CASE Proceed
    <3>1. /\ UNCHANGED <<deployed, rejected, rejectSlack, held, tries>>
          /\ pc["validator"] \in Eligible
      BY <2>3 DEF Proceed, Eligible
    <3> QED  BY <3>1, <1>t, RejectFrame
  <2>4. CASE ScreenIn
    <3>1. /\ UNCHANGED <<deployed, rejected, rejectSlack, held, tries>>
          /\ LeadOf[held["validator"]] \notin rejected
      BY <2>4 DEF ScreenIn
    <3> QED  BY <3>1 DEF RejectInv, RejectedMidway
  <2> QED  BY <1>3, <2>1, <2>2, <2>3, <2>4 DEF ValidatorStep
<1>4. ASSUME NEW d \in AllDispatchers, DispatcherStep(d)  PROVE RejectInv'
  <2>1. CASE TokenHit(d) \/ Unfit(d) \/ SkipDuplicate(d) \/ GateSkip(d) \/ MarkFailed(d)
    BY <2>1, RejectRelease DEF TokenHit, Unfit, SkipDuplicate, GateSkip, MarkFailed
  <2>2. CASE Clear(d) \/ GatePass(d)
    <3>1. /\ UNCHANGED <<deployed, rejected, rejectSlack, held, tries>>
          /\ pc'["validator"] \in Eligible => pc["validator"] \in Eligible
      BY <2>2 DEF Clear, GatePass, Goto, Eligible, TypeInv, TypeOK
    <3> QED  BY <3>1, <1>t, RejectFrame
  <2>3. CASE Deliver(d) \/ LoseReply(d)
    <3>1. /\ pc[d] = "gated" /\ d \in deployed /\ Dispatch(d)
          /\ UNCHANGED <<deployed, rejected, held>>
          /\ tries' = [tries EXCEPT ![d] = @ + 1]
          /\ \A e \in AllDispatchers \ {d} : pc'[e] = pc[e]
      BY <2>3 DEF Deliver, LoseReply, AnotherTry, Goto, TypeInv, TypeOK
    <3>2. CASE d # "validator"
      <4>1. /\ rejectSlack' = rejectSlack /\ pc'["validator"] = pc["validator"]
            /\ tries'["validator"] = tries["validator"]
        BY <3>1, <3>2 DEF Dispatch, TypeInv, TypeOK
      <4> QED  BY <3>1, <4>1, <1>t, RejectFrame
    <3>3. CASE d = "validator"
      <4> DEFINE lead == LeadOf[held[d]]
      <4>1. lead \in Leads  BY <3>1, HeldRow, RowsAssumption DEF TypeInv
      <4>2. tries'[d] = tries[d] + 1 /\ tries[d] < SendLimit /\ pc[d] \in Eligible
        BY <3>1, <3>3 DEF TypeInv, TypeOK, TriesInv, Eligible
      <4>3. SendLimit \in Int /\ tries[d] \in Int /\ \A l \in Leads : rejectSlack[l] \in Int
        BY SettingsAssumption DEF TypeInv, TypeOK
      <4>4. CASE lead \in rejected
        <5>1. rejectSlack[lead] >= SendLimit - tries[d]
          BY <3>1, <3>3, <4>1, <4>2, <4>4 DEF RejectInv, RejectedMidway
        <5>2. rejectSlack' = [rejectSlack EXCEPT ![lead] = @ - 1]
          BY <3>1, <3>3, <4>4 DEF Dispatch
        <5>3. /\ rejectSlack'[lead] = rejectSlack[lead] - 1
              /\ \A l \in Leads \ {lead} : rejectSlack'[l] = rejectSlack[l]
          BY <4>1, <5>2 DEF TypeInv, TypeOK
        <5>4. /\ rejectSlack'[lead] >= 0
              /\ rejectSlack'[lead] >= SendLimit - tries'[d]
          BY <4>1, <4>2, <4>3, <5>1, <5>3
        <5>5. LeadOf[held'[d]] = lead  BY <3>1
        <5> HIDE DEF lead
        <5> QED  BY <3>3, <4>1, <5>3, <5>4, <5>5 DEF RejectInv, RejectedMidway
      <4>5. CASE lead \notin rejected
        <5>1. rejectSlack' = rejectSlack  BY <3>1, <4>5 DEF Dispatch
        <5> QED  BY <3>1, <3>3, <4>5, <5>1 DEF RejectInv, RejectedMidway
      <4> QED  BY <4>4, <4>5
    <3> QED  BY <3>2, <3>3
  <2>4. CASE SendFails(d) \/ Flood(d)
    <3>1. /\ pc[d] = "gated"
          /\ UNCHANGED <<deployed, rejected, rejectSlack, held>>
          /\ tries' = [tries EXCEPT ![d] = @ + 1]
          /\ \A e \in AllDispatchers \ {d} : pc'[e] = pc[e]
      BY <2>4 DEF SendFails, Flood, AnotherTry, Goto, TypeInv, TypeOK
    <3>2. tries'["validator"] >= tries["validator"]
      BY <3>1, SettingsAssumption DEF TypeInv, TypeOK
    <3>3. pc'["validator"] \in Eligible => pc["validator"] \in Eligible
      BY <3>1 DEF Eligible
    <3> QED  BY <3>1, <3>2, <3>3, RejectFrame
  <2> QED  BY <1>4, <2>1, <2>2, <2>3, <2>4 DEF DispatcherStep
<1>5. ASSUME NEW d \in AllDispatchers, Abandon(d)  PROVE RejectInv'
  BY <1>5, RejectRelease DEF Abandon
<1>6. CASE UNCHANGED vars  BY <1>6, <1>t, RejectFrame DEF vars
<1> QED  BY <1>1, <1>2, <1>3, <1>4, <1>5, <1>6 DEF Next

\* validator sends nothing to a lead while it is rejected, on top of the calls
\* left for a row whose eligibility check preceded the rejection.
THEOREM RejectionIsHonoured == Spec => []RejectionHonoured
<1>1. RejectInv => RejectionHonoured  BY DEF RejectInv, RejectionHonoured
<1> QED  BY <1>1, InitReject, NextReject, TypeInvariant, PTL DEF Spec

-----------------------------------------------------------------------------
(* Approval.  A row that is queued, held or dispatched was approved.         *)

Approved(r) == approvedBy[r] # "nobody"

ApprovedInv ==
  /\ \A r \in Rows : status[r] \in {"approved", "processing"} => Approved(r)
  /\ \A d \in AllDispatchers : held[d] \in Rows => Approved(held[d])
  /\ \A r \in dispatched : Approved(r)

LEMMA InitApproved == Init => ApprovedInv
BY RowsAssumption DEF Init, ApprovedInv, Approved

\* Steps that approve nobody, queue and claim nothing, and send held rows only.
LEMMA ApprovedFrame ==
  ASSUME TypeInv, ApprovedInv, UNCHANGED approvedBy,
         \A r \in Rows : \/ status'[r] \in {"approved", "processing"} => status'[r] = status[r]
                         \/ \E d \in AllDispatchers : r = held[d],
         \A d \in AllDispatchers : held'[d] \in {held[d], None},
         dispatched' \subseteq dispatched \cup {held[d] : d \in AllDispatchers},
         dispatched' \subseteq Rows
  PROVE  ApprovedInv'
BY RowsAssumption DEF TypeInv, TypeOK, ApprovedInv, Approved

\* The row ends, and those of S with it: none of them is queued.
LEMMA EndRowDequeues ==
  ASSUME TypeOK, NEW d \in AllDispatchers, NEW S, EndRow(d, "sent", S) \/
         EndRow(d, "skipped", S) \/ EndRow(d, "failed", S)
  PROVE  \A r \in Rows : status'[r] \in {"approved", "processing"} => status'[r] = status[r]
BY DEF TypeOK, EndRow, Verdict

LEMMA ReleaseHolds ==
  ASSUME TypeOK, NEW d \in AllDispatchers, Release(d)
  PROVE  \A e \in AllDispatchers : held'[e] \in {held[e], None}
BY DEF TypeOK, Release

LEMMA NextApproved == TypeInv /\ TypeInv' /\ ApprovedInv /\ [Next]_vars => ApprovedInv'
<1> SUFFICES ASSUME TypeInv, TypeInv', ApprovedInv, [Next]_vars PROVE ApprovedInv' OBVIOUS
<1>t. TypeOK /\ dispatched' \subseteq Rows  BY DEF TypeInv, TypeOK
<1> USE DEF config, table, flags, counters, slack, row, hold, workers, history, bounds,
        ghosts, At
<1>1. CASE Environment
  <2>1. ASSUME NEW r \in Rows, AutoEnrol(r) \/ Approve(r)  PROVE ApprovedInv'
    <3>1. Approved(r)' /\ \A s \in Rows : Approved(s) => Approved(s)'
      BY <2>1 DEF AutoEnrol, Approve, Approved, TypeInv, TypeOK
    <3>2. /\ \A s \in Rows \ {r} : status'[s] = status[s]
          /\ UNCHANGED <<held, dispatched>>
      BY <2>1 DEF AutoEnrol, Approve, TypeInv, TypeOK
    <3> QED  BY <3>1, <3>2, <1>t DEF ApprovedInv
  <2>2. CASE ~ \E r \in Rows : AutoEnrol(r) \/ Approve(r)
    <3>1. /\ UNCHANGED <<approvedBy, held, dispatched>>
          /\ \A r \in Rows : status'[r] \in {"approved", "processing"} => status'[r] = status[r]
      BY <1>1, <2>2 DEF Environment, Enqueue, Age, Reject, Rescan, EmergencyStop,
         EmergencyResume, CoolDown, NewDay, SetDryRun, TypeInv, TypeOK
    <3> QED  BY <3>1, <1>t, ApprovedFrame
  <2> QED  BY <2>1, <2>2
<1>2. ASSUME NEW r \in Rows, ClaimRow(r) \/ SelectRow(r)  PROVE ApprovedInv'
  <2>1. Approved(r)  BY <1>2 DEF ClaimRow, SelectRow, Claimable, ApprovedInv
  <2>2. /\ UNCHANGED <<approvedBy, dispatched>>
        /\ \A s \in Rows \ {r} : status'[s] = status[s]
        /\ \A d \in AllDispatchers : held'[d] \in {r, held[d]}
    BY <1>2 DEF ClaimRow, SelectRow, Take, TypeInv, TypeOK
  <2> QED  BY <2>1, <2>2 DEF ApprovedInv, Approved
<1>3. CASE CampaignWorkerStep /\ ~ \E r \in Rows : ClaimRow(r)
  <2>1. CASE DryAbort \/ CommitSent
    BY <2>1, <1>t, EndRowDequeues, ReleaseHolds, ApprovedFrame DEF DryAbort, CommitSent
  <2>2. CASE TokenMiss \/ ShutdownReturn \/ MarkToken
    BY <2>2, <1>t, ApprovedFrame DEF TokenMiss, ShutdownReturn, MarkToken
  <2> QED  BY <1>3, <2>1, <2>2 DEF CampaignWorkerStep
<1>4. CASE ValidatorStep /\ ~ \E r \in Rows : SelectRow(r)
  <2>1. CASE ScreenOut \/ DrySkip \/ Pause \/ CountSent
    BY <2>1, <1>t, EndRowDequeues, ReleaseHolds, ApprovedFrame
       DEF ScreenOut, DrySkip, Pause, CountSent
  <2>2. CASE ScreenIn \/ Proceed
    BY <2>2, <1>t, ApprovedFrame DEF ScreenIn, Proceed
  <2>3. CASE NoteSent
    BY <2>3, <1>t, EndRowDequeues, ApprovedFrame DEF NoteSent
  <2>4. CASE CloseSent
    <3>1. \A r \in Rows : status'[r] \in {"approved", "processing"} => status'[r] = status[r]
      BY <2>4 DEF CloseSent
    <3> QED  BY <2>4, <3>1, <1>t, ApprovedFrame DEF CloseSent
  <2>5. CASE MarkProcessing \/ GateBounce
    <3>1. \A r \in Rows : status'[r] = status[r] \/ r = held["validator"]
      BY <2>5 DEF MarkProcessing, GateBounce, TypeInv, TypeOK
    <3>2. \A d \in AllDispatchers : held'[d] \in {held[d], None}
      BY <2>5, <1>t, ReleaseHolds DEF MarkProcessing, GateBounce
    <3> QED
      BY <2>5, <3>1, <3>2, <1>t, ApprovedFrame DEF MarkProcessing, GateBounce
  <2> QED  BY <1>4, <2>1, <2>2, <2>3, <2>4, <2>5 DEF ValidatorStep
<1>5. ASSUME NEW d \in AllDispatchers, DispatcherStep(d)  PROVE ApprovedInv'
  <2>1. CASE TokenHit(d) \/ Unfit(d) \/ SkipDuplicate(d) \/ GateSkip(d) \/ MarkFailed(d)
    BY <2>1, <1>t, EndRowDequeues, ReleaseHolds, ApprovedFrame
       DEF TokenHit, Unfit, SkipDuplicate, GateSkip, MarkFailed
  <2>2. CASE Clear(d) \/ GatePass(d) \/ SendFails(d) \/ Flood(d)
    BY <2>2, <1>t, ApprovedFrame DEF Clear, GatePass, SendFails, Flood
  <2>3. CASE Deliver(d) \/ LoseReply(d)
    <3>1. UNCHANGED <<approvedBy, status, held>> /\ dispatched' = dispatched \cup {held[d]}
      BY <2>3 DEF Deliver, LoseReply, Dispatch
    <3> QED  BY <3>1, <1>t, ApprovedFrame
  <2> QED  BY <1>5, <2>1, <2>2, <2>3 DEF DispatcherStep
<1>6. ASSUME NEW d \in AllDispatchers, Abandon(d)  PROVE ApprovedInv'
  BY <1>6, <1>t, ReleaseHolds, ApprovedFrame DEF Abandon
<1>7. CASE UNCHANGED vars  BY <1>7, <1>t, ApprovedFrame DEF vars
<1> QED
  BY <1>1, <1>2, <1>3, <1>4, <1>5, <1>6, <1>7
     DEF Next, CampaignWorkerStep, ValidatorStep

\* Only rows that a human or a crawler approved are sent, also with two dispatchers.
THEOREM OnlyApprovedSent == Spec => []ApprovedOnly
<1>1. ApprovedInv => ApprovedOnly  BY DEF ApprovedInv, ApprovedOnly, Approved
<1> QED  BY <1>1, InitApproved, NextApproved, TypeInvariant, PTL DEF Spec

-----------------------------------------------------------------------------
(* Duplicates.  A message whose success is neither recorded in the contact's *)
(* rows nor written off is in flight: its dispatcher is about to record it.  *)
(* Past the duplicate check the contact therefore has no message but those   *)
(* that were written off, because nobody else records one meanwhile.  As     *)
(* long as no re-scan took the contact off a lead, the lead of the row that  *)
(* is sent still has the contact the message went to.                        *)

SentTo(c) == \E r \in Rows : contact[LeadOf[r]] = c /\ status[r] = "sent"

InFlight(c) == \E d \in deployed : /\ pc[d] \in {"delivered", "tokened"}
                                   /\ held[d] \in dispatched
                                   /\ target[d] = c

\* Every message to contact c, if it was never replaced, was written off.
Quiet(c) == c \in Contacts /\ (c \notin replaced => reached[c] <= unrecorded[c])

\* The places after the duplicate check where no message is in flight.
Checked == {"cleared", "gated", "undelivered"}

\* The places where a held row may be sent: nothing is held, or the record is made.
Recorded == {"idle", "noted", "closed"}

AtMostOneOpen   == \A c \in Contacts \ replaced : reached[c] <= 1 + unrecorded[c]
OpenIsAccounted == \A c \in Contacts \ replaced :
                     reached[c] > unrecorded[c] => SentTo(c) \/ InFlight(c)
CheckStands     == \A d \in deployed : pc[d] \in Checked => Quiet(target[d])
TargetStands    == \A d \in deployed :
                     pc[d] # "idle"
                       => target[d] \in replaced \cup {None, contact[LeadOf[held[d]]]}
HeldNotSent     == \A d \in deployed :
                     pc[d] \notin Recorded => status[held[d]] # "sent"

DuplicatesInv ==
  AtMostOneOpen /\ OpenIsAccounted /\ CheckStands /\ TargetStands /\ HeldNotSent

\* The same rows are sent before and after the step.
SameSent == \A r \in Rows : status'[r] = "sent" <=> status[r] = "sent"

LEMMA InitDuplicates == Init /\ TypeOK => DuplicatesInv
<1> SUFFICES ASSUME Init, TypeOK PROVE DuplicatesInv OBVIOUS
<1>1. \A c \in Contacts : reached[c] = 0 /\ unrecorded[c] = 0  BY DEF Init
<1>2. \A d \in deployed : pc[d] = "idle"
  <2>1. deployed \subseteq AllDispatchers  BY SettingsAssumption DEF TypeOK
  <2> QED  BY <2>1 DEF Init
<1>3. AtMostOneOpen /\ OpenIsAccounted  BY <1>1 DEF AtMostOneOpen, OpenIsAccounted
<1>4. CheckStands /\ TargetStands /\ HeldNotSent
  BY <1>2 DEF CheckStands, TargetStands, HeldNotSent, Checked, Recorded
<1> QED  BY <1>3, <1>4 DEF DuplicatesInv

\* Steps that send nothing, record nothing, give up nothing in flight, and
\* replace no contact.
LEMMA DuplicatesFrame ==
  ASSUME TypeOK, DuplicatesInv, SameSent,
         UNCHANGED <<deployed, contact, reached, unrecorded, replaced, dispatched>>,
         \A d \in deployed :
           /\ pc[d] \in {"delivered", "tokened"}
                => /\ pc'[d] \in {"delivered", "tokened"}
                   /\ held'[d] = held[d] /\ target'[d] = target[d]
           /\ pc'[d] \in Checked => /\ pc[d] \in Checked \/ Quiet(target[d])
                                    /\ target'[d] = target[d]
           /\ pc'[d] # "idle"
                => \/ pc[d] # "idle" /\ held'[d] = held[d] /\ target'[d] = target[d]
                   \/ target'[d] = contact[LeadOf[held'[d]]]
           /\ pc'[d] \notin Recorded
                => held'[d] \in Rows /\ status[held'[d]] # "sent"
  PROVE  DuplicatesInv'
<1>1. \A c : SentTo(c)' <=> SentTo(c)  BY DEF SentTo, SameSent
<1>2. \A c : InFlight(c) => InFlight(c)'  BY DEF InFlight
<1>3. AtMostOneOpen'  BY DEF DuplicatesInv, AtMostOneOpen
<1>4. OpenIsAccounted'  BY <1>1, <1>2 DEF DuplicatesInv, OpenIsAccounted
<1>5. \A c : Quiet(c)' <=> Quiet(c)  BY DEF Quiet
<1>6. CheckStands'  BY <1>5 DEF DuplicatesInv, CheckStands
<1>7. TargetStands'  BY DEF DuplicatesInv, TargetStands
<1>8. HeldNotSent'  BY DEF HeldNotSent, SameSent
<1> QED  BY <1>3, <1>4, <1>6, <1>7, <1>8 DEF DuplicatesInv

\* The only dispatcher moves on with its row, which it sent not or sent already.
LEMMA DuplicatesMove ==
  ASSUME TypeOK, DuplicatesInv, Exclusive, SameSent,
         UNCHANGED <<deployed, contact, reached, unrecorded, replaced, dispatched>>,
         NEW d \in deployed, pc[d] # "idle", held' = held, target' = target,
         pc[d] \in {"delivered", "tokened"} => pc'[d] \in {"delivered", "tokened"},
         pc'[d] \in Checked => pc[d] \in Checked \/ Quiet(target[d]),
         pc'[d] \notin Recorded => held[d] \in Rows /\ pc[d] \notin Recorded
  PROVE  DuplicatesInv'
<1>1. \A e \in deployed : e = d  BY DEF Exclusive
<1>2. pc'[d] \notin Recorded => status[held[d]] # "sent"
  BY DEF DuplicatesInv, HeldNotSent
<1> QED  BY <1>1, <1>2, DuplicatesFrame

\* The only dispatcher ends its iteration with nothing in flight.
LEMMA DuplicatesRelease ==
  ASSUME TypeOK, DuplicatesInv, Exclusive, SameSent,
         UNCHANGED <<deployed, contact, reached, unrecorded, replaced, dispatched>>,
         NEW d \in deployed, d \in AllDispatchers,
         pc[d] \notin {"delivered", "tokened"}, Release(d)
  PROVE  DuplicatesInv'
<1>1. \A e \in deployed : e = d  BY DEF Exclusive
<1>2. pc'[d] = "idle"  BY DEF Release, Goto, TypeOK
<1> QED  BY <1>1, <1>2, DuplicatesFrame DEF Checked, Recorded

\* The only dispatcher records its row as sent.
LEMMA DuplicatesRecord ==
  ASSUME TypeOK, DuplicatesInv, Exclusive,
         UNCHANGED <<deployed, contact, reached, unrecorded, replaced, dispatched>>,
         NEW d \in deployed, held[d] \in Rows, pc[d] # "idle", pc'[d] \in Recorded,
         pc'[d] # "idle" => held'[d] = held[d] /\ target'[d] = target[d],
         status'[held[d]] = "sent", \A r \in Rows : status[r] = "sent" => status'[r] = "sent"
  PROVE  DuplicatesInv'
<1>1. \A e \in deployed : e = d  BY DEF Exclusive
<1>2. \A c : SentTo(c) => SentTo(c)'  BY DEF SentTo
<1>3. \A c \in Contacts \ replaced : InFlight(c) => SentTo(c)'
  <2> SUFFICES ASSUME NEW c \in Contacts \ replaced, InFlight(c)  PROVE SentTo(c)'
    OBVIOUS
  <2>1. target[d] = c  BY <1>1 DEF InFlight
  <2>2. contact[LeadOf[held[d]]] = c
    BY <2>1, RowsAssumption DEF DuplicatesInv, TargetStands
  <2> QED  BY <2>2 DEF SentTo
<1>4. AtMostOneOpen'  BY DEF DuplicatesInv, AtMostOneOpen
<1>5. OpenIsAccounted'  BY <1>2, <1>3 DEF DuplicatesInv, OpenIsAccounted
<1>6. CheckStands' /\ HeldNotSent'  BY <1>1 DEF CheckStands, HeldNotSent, Checked, Recorded
<1>7. TargetStands'  BY <1>1 DEF DuplicatesInv, TargetStands
<1> QED  BY <1>4, <1>5, <1>6, <1>7 DEF DuplicatesInv

\* A re-scan: the contact that is taken off the lead is not spoken of any more.
LEMMA DuplicatesRescan ==
  ASSUME TypeOK, DuplicatesInv, NEW l \in Leads, Rescan(l)
  PROVE  DuplicatesInv'
<1>1. UNCHANGED <<deployed, status, pc, held, target, reached, unrecorded, dispatched>>
  BY DEF Rescan, config, row
<1>2. replaced \subseteq replaced'
      /\ \A k \in Leads : contact'[k] = contact[k] \/ contact[k] \in replaced' \cup {None}
  <2>1. CASE ReplaceContact(l)  BY <2>1 DEF ReplaceContact, TypeOK
  <2>2. CASE UNCHANGED <<contact, replaced, moves>>  BY <2>2
  <2> QED  BY <2>1, <2>2 DEF Rescan
<1>3. \A c \in Contacts \ replaced' : SentTo(c) => SentTo(c)'
  BY <1>1, <1>2, RowsAssumption DEF SentTo
<1>4. \A c : InFlight(c)' <=> InFlight(c)  BY <1>1 DEF InFlight
<1>5. AtMostOneOpen'  BY <1>1, <1>2 DEF DuplicatesInv, AtMostOneOpen
<1>6. OpenIsAccounted'
  BY <1>1, <1>2, <1>3, <1>4 DEF DuplicatesInv, OpenIsAccounted
<1>7. CheckStands'  BY <1>1, <1>2 DEF DuplicatesInv, CheckStands, Quiet
<1>8. TargetStands'
  <2> SUFFICES ASSUME NEW d \in deployed, pc[d] # "idle"
               PROVE  target[d] \in replaced' \cup {None, contact'[LeadOf[held[d]]]}
    BY <1>1 DEF TargetStands
  <2>1. LeadOf[held[d]] \in Leads
    BY HeldRow, RowsAssumption, SettingsAssumption DEF TypeOK
  <2> QED  BY <1>2, <2>1 DEF DuplicatesInv, TargetStands
<1>9. HeldNotSent'  BY <1>1 DEF DuplicatesInv, HeldNotSent
<1> QED  BY <1>5, <1>6, <1>7, <1>8, <1>9 DEF DuplicatesInv

\* With nothing in flight and no sent row, every message was written off.
LEMMA NothingOpen ==
  ASSUME TypeOK, DuplicatesInv, Exclusive, NEW d \in deployed, pc[d] = "paced",
         target[d] # None, d \in AllDispatchers, ~SentTo(target[d])
  PROVE  Quiet(target[d])
<1>1. \A e \in deployed : e = d  BY DEF Exclusive
<1>2. target[d] \in Contacts  BY DEF TypeOK
<1>3. ~InFlight(target[d])  BY <1>1 DEF InFlight
<1>4. reached[target[d]] \in Nat /\ unrecorded[target[d]] \in Nat
  BY <1>2 DEF TypeOK
<1> QED  BY <1>2, <1>3, <1>4 DEF DuplicatesInv, OpenIsAccounted, Quiet

\* The dispatcher's row ends, not as sent, and only waiting rows of S with it.
LEMMA EndRowSameSent ==
  ASSUME TypeOK, NEW d \in AllDispatchers, status[held[d]] # "sent",
         NEW S, \A r \in S : Waiting(r),
         EndRow(d, "skipped", S) \/ EndRow(d, "failed", S)
  PROVE  SameSent
BY DEF TypeOK, EndRow, Verdict, SameSent, Waiting

LEMMA SiblingsWait == \A d : \A s \in WaitingSiblings(d) : Waiting(s)
BY DEF WaitingSiblings

LEMMA NextDuplicates ==
  ASSUME TypeInv, TypeInv', Exclusive, DuplicatesInv, [Next]_vars  PROVE DuplicatesInv'
<1>t. /\ TypeOK /\ TypeOK'
      /\ \A d \in deployed : d \in AllDispatchers
  BY SettingsAssumption DEF TypeInv, TypeOK
<1>h. \A d \in deployed : pc[d] \notin Recorded
                            => held[d] \in Rows /\ status[held[d]] # "sent"
  BY <1>t, HeldRow DEF DuplicatesInv, HeldNotSent, Recorded
<1> USE DEF config, table, flags, counters, slack, row, hold, workers, history, bounds,
        ghosts, At, Recorded
<1>1. CASE Environment
  <2>1. ASSUME NEW l \in Leads, Rescan(l)  PROVE DuplicatesInv'
    BY <1>t, <2>1, DuplicatesRescan
  <2>2. CASE ~ \E l \in Leads : Rescan(l)
    <3>1. UNCHANGED <<deployed, contact, reached, unrecorded, replaced, dispatched, pc, held,
                      target>>
      BY <1>1, <2>2 DEF Environment, Enqueue, AutoEnrol, Approve, Age, Reject,
         EmergencyStop, EmergencyResume, CoolDown, NewDay, SetDryRun
    <3>2. SameSent
      <4>1. ASSUME NEW r \in Rows, AutoEnrol(r)  PROVE status[r] = "absent"
        BY <4>1, RowsAssumption DEF AutoEnrol, RowsOf
      <4>2. ASSUME NEW r \in Rows, Approve(r)  PROVE status[r] \in {"absent", "review"}
        BY <4>2 DEF Approve, SameLead
      <4> QED
        BY <1>1, <2>2, <1>t, <4>1, <4>2 DEF Environment, Enqueue, AutoEnrol, Approve, Age,
           Reject, EmergencyStop, EmergencyResume, CoolDown, NewDay, SetDryRun,
           SameSent, Waiting, TypeOK
    <3> QED  BY <1>t, <1>h, <3>1, <3>2, DuplicatesFrame DEF Checked
  <2> QED  BY <2>1, <2>2
<1>2. ASSUME NEW r \in Rows, ClaimRow(r) \/ SelectRow(r)  PROVE DuplicatesInv'
  <2> PICK d \in deployed : /\ pc[d] = "idle" /\ Take(d, r)
                            /\ Goto(d, "claimed") \/ Goto(d, "selected")
    BY <1>2 DEF ClaimRow, SelectRow
  <2>1. status[r] # "sent" /\ SameSent
    BY <1>2 DEF ClaimRow, SelectRow, Claimable, SameSent, TypeInv, TypeOK
  <2>2. UNCHANGED <<deployed, contact, reached, unrecorded, replaced, dispatched>>
    BY <1>2 DEF ClaimRow, SelectRow
  <2>3. \A e \in deployed : e = d  BY DEF Exclusive
  <2>4. /\ pc'[d] \in {"claimed", "selected"}
        /\ held'[d] = r /\ target'[d] = contact[LeadOf[r]]
    BY <1>t DEF Goto, Take, TypeOK
  <2> QED  BY <1>t, <2>1, <2>2, <2>3, <2>4, DuplicatesFrame DEF Checked
<1>3. CASE CampaignWorkerStep /\ ~ \E r \in Rows : ClaimRow(r)
  <2>1. CASE DryAbort
    BY <1>t, <2>1, DuplicatesRelease DEF DryAbort, SameSent
  <2>2. CASE CommitSent
    <3>1. /\ status'[held["campaign_worker"]] = "sent"
          /\ \A r \in Rows : status[r] = "sent" => status'[r] = "sent"
      BY <1>t, <1>h, <2>2, SiblingsWait DEF CommitSent, EndRow, Verdict, Waiting
    <3>2. pc'["campaign_worker"] = "idle"  BY <1>t, <2>2 DEF CommitSent, Release, Goto, TypeOK
    <3> QED  BY <1>t, <1>h, <2>2, <3>1, <3>2, DuplicatesRecord DEF CommitSent
  <2>3. CASE TokenMiss \/ ShutdownReturn \/ MarkToken
    <3>1. /\ pc'["campaign_worker"] = "paced" /\ pc["campaign_worker"] = "claimed"
          \/ /\ pc'["campaign_worker"] \in {"delivered", "tokened"}
             /\ pc["campaign_worker"] \in {"gated", "delivered"}
      BY <1>t, <2>3 DEF TokenMiss, ShutdownReturn, MarkToken, Goto, TypeOK
    <3> QED
      BY <1>t, <1>h, <2>3, <3>1, DuplicatesMove
         DEF TokenMiss, ShutdownReturn, MarkToken, SameSent, Checked
  <2> QED  BY <1>3, <2>1, <2>2, <2>3 DEF CampaignWorkerStep
<1>4. CASE ValidatorStep /\ ~ \E r \in Rows : SelectRow(r)
  <2>1. CASE ScreenOut \/ DrySkip
    BY <1>t, <1>h, <2>1, EndRowSameSent, DuplicatesRelease DEF ScreenOut, DrySkip
  <2>2. CASE Pause \/ CountSent
    BY <1>t, <2>2, DuplicatesRelease DEF Pause, CountSent, SameSent
  <2>3. CASE GateBounce
    <3>1. SameSent  BY <1>t, <1>h, <2>3 DEF GateBounce, SameSent, TypeOK
    <3> QED  BY <1>t, <2>3, <3>1, DuplicatesRelease DEF GateBounce
  <2>4. CASE CloseSent
    <3>1. SameSent  BY <1>t, <2>4, SiblingsWait DEF CloseSent, SameSent, Waiting
    <3>2. pc'["validator"] = "closed"  BY <1>t, <2>4 DEF CloseSent, Goto, TypeOK
    <3> QED  BY <1>t, <2>4, <3>1, <3>2, DuplicatesMove DEF CloseSent, Checked
  <2>5. CASE NoteSent
    <3>1. /\ status'[held["validator"]] = "sent"
          /\ \A r \in Rows : status[r] = "sent" => status'[r] = "sent"
      BY <1>t, <1>h, <2>5 DEF NoteSent, EndRow, Verdict
    <3>2. pc'["validator"] = "noted"  BY <1>t, <2>5 DEF NoteSent, Goto, TypeOK
    <3> QED  BY <1>t, <1>h, <2>5, <3>1, <3>2, DuplicatesRecord DEF NoteSent
  <2>6. CASE MarkProcessing \/ ScreenIn \/ Proceed
    <3>1. SameSent
      BY <1>t, <1>h, <2>6 DEF MarkProcessing, ScreenIn, Proceed, SameSent, TypeOK
    <3>2. /\ pc["validator"] \in {"selected", "claimed", "screened"}
          /\ pc'["validator"] \in {"claimed", "screened", "paced"}
      BY <1>t, <2>6 DEF MarkProcessing, ScreenIn, Proceed, Goto, TypeOK
    <3> QED
      BY <1>t, <1>h, <2>6, <3>1, <3>2, DuplicatesMove
         DEF MarkProcessing, ScreenIn, Proceed, Checked
  <2> QED
    BY <1>4, <2>1, <2>2, <2>3, <2>4, <2>5, <2>6 DEF ValidatorStep
<1>5. ASSUME NEW d \in AllDispatchers, DispatcherStep(d)  PROVE DuplicatesInv'
  <2>1. CASE TokenHit(d)
    <3>1. /\ status'[held[d]] = "sent"
          /\ \A r \in Rows : status[r] = "sent" => status'[r] = "sent"
      BY <1>t, <1>h, <2>1 DEF TokenHit, EndRow, Verdict
    <3>2. pc'[d] = "idle"  BY <1>t, <2>1 DEF TokenHit, Release, Goto, TypeOK
    <3> QED  BY <1>t, <1>h, <2>1, <3>1, <3>2, DuplicatesRecord DEF TokenHit
  <2>2. CASE Unfit(d) \/ SkipDuplicate(d) \/ GateSkip(d) \/ MarkFailed(d)
    <3>1. SameSent
      BY <1>t, <1>h, <2>2, EndRowSameSent, SiblingsWait
         DEF Unfit, SkipDuplicate, GateSkip, MarkFailed
    <3> QED
      BY <1>t, <2>2, <3>1, DuplicatesRelease DEF Unfit, SkipDuplicate, GateSkip, MarkFailed
  <2>3. CASE Clear(d)
    <3>1. ~SentTo(target[d]) /\ target[d] # None
      BY <2>3 DEF Clear, ContactAlreadySent, RowsOf, SentTo
    <3>2. Quiet(target[d])  BY <1>t, <2>3, <3>1, NothingOpen DEF Clear
    <3>3. pc'[d] = "cleared"  BY <1>t, <2>3 DEF Clear, Goto, TypeOK
    <3> QED  BY <1>t, <1>h, <2>3, <3>2, <3>3, DuplicatesMove DEF Clear, SameSent
  <2>4. CASE GatePass(d) \/ SendFails(d) \/ Flood(d)
    <3>1. pc[d] \in Checked /\ pc'[d] \in Checked
      BY <1>t, <2>4 DEF GatePass, SendFails, Flood, AnotherTry, Goto, Checked, TypeOK
    <3> QED
      BY <1>t, <1>h, <2>4, <3>1, DuplicatesMove
         DEF GatePass, SendFails, Flood, SameSent, Checked
  <2>5. CASE Deliver(d) \/ LoseReply(d)
    <3> DEFINE k == target[d]
    <3>1. /\ pc[d] = "gated" /\ d \in deployed /\ Dispatch(d)
          /\ UNCHANGED <<deployed, status, contact, held, target, replaced>>
      BY <2>5 DEF Deliver, LoseReply
    <3>2. k \in Contacts /\ (k \notin replaced => reached[k] <= unrecorded[k])
      BY <3>1 DEF DuplicatesInv, CheckStands, Checked, Quiet
    <3>3. /\ reached' = [reached EXCEPT ![k] = @ + 1]
          /\ dispatched' = dispatched \cup {held[d]}
      BY <3>1 DEF Dispatch
    <3>4. \A e \in deployed : e = d  BY <3>1 DEF Exclusive
    <3>5. pc'[d] \in {"gated", "delivered", "undelivered"}
      BY <1>t, <2>5 DEF Deliver, LoseReply, AnotherTry, Goto, TypeOK
    <3>6. \A c : SentTo(c)' <=> SentTo(c)  BY <3>1 DEF SentTo
    <3>7. TargetStands' /\ HeldNotSent'
      BY <1>h, <3>1, <3>4, <3>5 DEF DuplicatesInv, TargetStands, HeldNotSent
    <3>8. \A c \in Contacts : reached[c] \in Nat /\ unrecorded[c] \in Nat
      BY <1>t DEF TypeOK
    <3>9. reached'[k] = reached[k] + 1 /\ \A c \in Contacts \ {k} : reached'[c] = reached[c]
      BY <1>t, <3>2, <3>3 DEF TypeOK
    <3>10. \A c : ~InFlight(c)  BY <3>1, <3>4 DEF InFlight
    <3>11. CASE Deliver(d)
      <4>1. unrecorded' = unrecorded /\ pc'[d] = "delivered"
        BY <1>t, <3>11 DEF Deliver, Goto, TypeOK
      <4>2. \A c : c = k => InFlight(c)'  BY <3>1, <3>3, <4>1 DEF InFlight
      <4>3. CheckStands'  BY <3>1, <3>4, <4>1 DEF CheckStands, Checked
      <4> HIDE DEF k
      <4>4. AtMostOneOpen' /\ OpenIsAccounted'
        BY <3>1, <3>2, <3>6, <3>8, <3>9, <3>10, <4>1, <4>2
           DEF DuplicatesInv, AtMostOneOpen, OpenIsAccounted
      <4> QED  BY <3>7, <4>3, <4>4 DEF DuplicatesInv
    <3>12. CASE LoseReply(d)
      <4>1. unrecorded' = [unrecorded EXCEPT ![k] = @ + 1]  BY <3>12 DEF LoseReply
      <4>2. /\ unrecorded'[k] = unrecorded[k] + 1
            /\ \A c \in Contacts \ {k} : unrecorded'[c] = unrecorded[c]
        BY <1>t, <3>2, <4>1 DEF TypeOK
      <4>3. target'[d] = k /\ replaced' = replaced  BY <3>1
      <4> HIDE DEF k
      <4>4. CheckStands'
        BY <3>1, <3>2, <3>4, <3>8, <3>9, <4>2, <4>3 DEF CheckStands, Quiet
      <4>5. AtMostOneOpen' /\ OpenIsAccounted'
        BY <3>1, <3>2, <3>6, <3>8, <3>9, <3>10, <4>2
           DEF DuplicatesInv, AtMostOneOpen, OpenIsAccounted
      <4> QED  BY <3>7, <4>4, <4>5 DEF DuplicatesInv
    <3> QED  BY <2>5, <3>11, <3>12
  <2> QED
    BY <1>5, <2>1, <2>2, <2>3, <2>4, <2>5 DEF DispatcherStep
<1>6. ASSUME NEW d \in AllDispatchers, Abandon(d)  PROVE DuplicatesInv'
  <2> DEFINE k == target[d]
  <2>1. /\ d \in deployed /\ pc[d] # "idle" /\ Release(d)
        /\ UNCHANGED <<deployed, status, contact, reached, replaced, dispatched>>
    BY <1>6 DEF Abandon
  <2>2. pc'[d] = "idle"  BY <1>t, <2>1 DEF Release, Goto, TypeOK
  <2>3. \A e \in deployed : e = d  BY <2>1 DEF Exclusive
  <2>4. \A c : SentTo(c)' <=> SentTo(c)  BY <2>1 DEF SentTo
  <2>5. CheckStands' /\ TargetStands' /\ HeldNotSent'
    BY <2>1, <2>2, <2>3 DEF CheckStands, TargetStands, HeldNotSent, Checked
  <2>6. \A c \in Contacts : reached[c] \in Nat /\ unrecorded[c] \in Nat
    BY <1>t DEF TypeOK
  <2>7. CASE pc[d] \in {"delivered", "tokened"} /\ held[d] \in dispatched
    <3>1. unrecorded' = [unrecorded EXCEPT ![k] = @ + 1]  BY <1>6, <2>7 DEF Abandon
    <3>2. \A c \in Contacts :
            unrecorded'[c] = IF c = k THEN unrecorded[c] + 1 ELSE unrecorded[c]
      BY <1>t, <3>1 DEF TypeOK
    <3>3. \A c : InFlight(c) => c = k  BY <2>3 DEF InFlight
    <3> HIDE DEF k
    <3>4. AtMostOneOpen' /\ OpenIsAccounted'
      BY <2>1, <2>4, <2>6, <3>2, <3>3 DEF DuplicatesInv, AtMostOneOpen, OpenIsAccounted
    <3> QED  BY <2>5, <3>4 DEF DuplicatesInv
  <2>8. CASE ~(pc[d] \in {"delivered", "tokened"} /\ held[d] \in dispatched)
    <3>1. unrecorded' = unrecorded  BY <1>6, <2>8 DEF Abandon
    <3>2. \A c : ~InFlight(c)  BY <2>3, <2>8 DEF InFlight
    <3>3. AtMostOneOpen' /\ OpenIsAccounted'
      BY <2>1, <2>4, <3>1, <3>2 DEF DuplicatesInv, AtMostOneOpen, OpenIsAccounted
    <3> QED  BY <2>5, <3>3 DEF DuplicatesInv
  <2> QED  BY <2>7, <2>8
<1>7. CASE UNCHANGED vars
  BY <1>t, <1>h, <1>7, DuplicatesFrame DEF vars, SameSent
<1> QED
  BY <1>1, <1>2, <1>3, <1>4, <1>5, <1>6, <1>7
     DEF Next, CampaignWorkerStep, ValidatorStep

\* The dispatchers that run are chosen once.
LEMMA DeploymentFixed == [Next]_vars => deployed' = deployed
<1> SUFFICES ASSUME [Next]_vars PROVE deployed' = deployed OBVIOUS
<1> USE DEF config
<1>1. CASE Environment
  BY <1>1 DEF Environment, Enqueue, AutoEnrol, Approve, Age, Reject, Rescan,
     EmergencyStop, EmergencyResume, CoolDown, NewDay, SetDryRun
<1>2. CASE CampaignWorkerStep
  BY <1>2 DEF CampaignWorkerStep, ClaimRow, TokenMiss, DryAbort, ShutdownReturn, MarkToken,
     CommitSent
<1>3. CASE ValidatorStep
  BY <1>3 DEF ValidatorStep, SelectRow, MarkProcessing, ScreenIn, ScreenOut, DrySkip, Pause,
     Proceed, GateBounce, NoteSent, CloseSent, CountSent
<1>4. ASSUME NEW d \in AllDispatchers, DispatcherStep(d) \/ Abandon(d)
      PROVE  deployed' = deployed
  BY <1>4 DEF DispatcherStep, TokenHit, Unfit, SkipDuplicate, Clear, GateSkip, GatePass,
     Deliver, LoseReply, SendFails, Flood, MarkFailed, Abandon
<1>5. CASE UNCHANGED vars  BY <1>5 DEF vars
<1> QED  BY <1>1, <1>2, <1>3, <1>4, <1>5 DEF Next

\* A single dispatcher messages a contact once, whichever of the contact's rows
\* it claims; every further message follows one whose success could not be
\* recorded, as long as no re-scan took the contact off a lead.
THEOREM DuplicatesAreExplained == Spec => []DuplicatesExplained
<1> DEFINE Inv == TypeInv /\ (Exclusive => DuplicatesInv)
<1>1. Init => Inv  BY InitType, InitDuplicates DEF TypeInv
<1>2. Inv /\ [Next]_vars => Inv'
  <2> SUFFICES ASSUME Inv, [Next]_vars  PROVE Inv' OBVIOUS
  <2>1. TypeInv'  BY NextType
  <2>2. deployed' = deployed  BY DeploymentFixed
  <2>3. Exclusive' => Exclusive  BY <2>2 DEF Exclusive
  <2> QED  BY <2>1, <2>3, NextDuplicates
<1>3. Inv => DuplicatesExplained
  BY DEF DuplicatesInv, AtMostOneOpen, DuplicatesExplained
<1> QED  BY <1>1, <1>2, <1>3, PTL DEF Spec

=============================================================================
