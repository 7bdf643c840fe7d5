-------------------------- MODULE Memberships_proofs --------------------------
(* The memberships as steps of AccountWorkers: types, and the limits and the *)
(* immunity that the loops keep, for any accounts, groups and settings.      *)
EXTENDS AccountWorkers_proofs

-----------------------------------------------------------------------------
(* Types.  What the joiner has in hand is a group, and the account that it   *)
(* asked is below its limit: nobody else counts joins.                       *)

JoinerInv ==
  /\ Joiner # None => pool.on[Joiner] = roster.radar
  /\ joining # None => Joiner # None
  /\ Joiner # None /\ task[Joiner].at # "idle" =>
       joining \in Groups /\ Asked \in Sessions /\ joinsToday[Asked] < JoinLimit

MemberInv == MembershipTypeOK /\ JoinerInv

LEMMA MemberConstants ==
  /\ JoinLimit \in Nat \ {0} /\ LeaveLimit \in Nat \ {0} /\ MaxIncidents \in Nat
  /\ None \notin Tasks \cup Groups /\ Rosters \subseteq Roster
BY MembershipAssumption

LEMMA RosterType ==
  ASSUME roster \in Rosters
  PROVE  /\ Joiner \in Tasks \cup {None} /\ roster.links \subseteq Groups
         /\ roster.member \subseteq Sessions \X Groups /\ roster.bad \subseteq Groups
         /\ roster.incidents \in 0..MaxIncidents
BY MemberConstants DEF Roster, Joiner

LEMMA MemberInitInv == Init => MemberInv
<1> SUFFICES ASSUME Init PROVE MemberInv  OBVIOUS
<1>0. MembershipInit /\ PoolInit /\ <<pool, scene, roster>> \in Deployments  BY DEF Init
<1>1. roster \in Rosters  BY <1>0 DEF MembershipInit
<1>2. /\ roster.links \subseteq Groups /\ roster.member \subseteq Sessions \X Groups
      /\ Joiner \in Tasks \cup {None}
  BY <1>1, RosterType
<1>3. /\ NoneYet \in [Sessions -> 0..JoinLimit] /\ NoneYet \in [Sessions -> 0..LeaveLimit]
      /\ NoneYet \in [Sessions -> Nat] /\ 0 \in 0..MaxIncidents
  BY MemberConstants DEF NoneYet
<1>4. [a \in Loops |-> Resting] \in [Loops -> RoundState]
  BY DEF Resting, RoundState
<1>5. [g \in Groups |-> 0] \in [Groups -> 0..2]
  OBVIOUS
<1>6. MembershipTypeOK
  <2>1. /\ admin \subseteq member /\ member \subseteq Sessions \X Groups
        /\ discovered \subseteq Groups /\ rejected \subseteq Groups
        /\ promoted \subseteq Loops \X Sessions \X Groups
    BY <1>0, <1>2 DEF MembershipInit
  <2>2. /\ joinsToday \in [Sessions -> 0..JoinLimit] /\ leavesToday \in [Sessions -> 0..LeaveLimit]
        /\ joins \in [Sessions -> Nat] /\ unbooked \in [Sessions -> Nat] /\ leaves \in [Sessions -> Nat]
    BY <1>0, <1>3 DEF MembershipInit
  <2>3. /\ age \in [Groups -> 0..2] /\ joining \in Groups \cup {None}
        /\ round \in [Loops -> RoundState] /\ incidents \in 0..MaxIncidents
    BY <1>0, <1>3, <1>4, <1>5 DEF MembershipInit
  <2> QED  BY <1>1, <2>1, <2>2, <2>3 DEF MembershipTypeOK
<1>7. JoinerInv
  <2>1. Joiner # None => pool.on[Joiner] = roster.radar
    <3>1. PICK d \in Deployments : d = <<pool, scene, roster>>  BY <1>0
    <3>2. d[1] = pool /\ d[3] = roster  BY <3>1
    <3>3. d[3].joiner # None => d[1].on[d[3].joiner] = d[3].radar  BY DeploymentAssumption
    <3> QED  BY <3>2, <3>3 DEF Joiner
  <2>2. Joiner # None => task[Joiner].at = "idle"
    BY <1>0, <1>2 DEF PoolInit, IdleTask
  <2> QED  BY <1>0, <2>1, <2>2 DEF JoinerInv, MembershipInit
<1> QED  BY <1>6, <1>7 DEF MemberInv

\* A request that goes on is for the account that was asked.
LEMMA AskKept ==
  ASSUME PoolInv, PoolStep, NEW t \in Tasks, task[t].at # "idle", task'[t].at # "idle"
  PROVE  task'[t].ask = task[t].ask
<1>t. task \in [Tasks -> TaskState] /\ \A u \in Tasks : task[u] \in TaskState
  BY DEF PoolInv, PoolTypeOK
<1>1. ASSUME NEW u \in Tasks, Exhausted(u) PROVE task'[t].ask = task[t].ask
  BY <1>1, <1>t DEF Exhausted, IdleTask
<1>2. ASSUME NEW u \in Tasks, Choose(u) PROVE task'[t].ask = task[t].ask
  <2>1. PICK s, at : task' = [task EXCEPT ![u].session = s, ![u].tries = 0, ![u].at = at,
                                          ![u].tried = @ \cup {s}]
    BY <1>2 DEF Choose
  <2> QED  BY <2>1, <1>t DEF TaskState
<1>3. ASSUME NEW u \in Tasks, Connect(u) \/ Try(u) PROVE task'[t].ask = task[t].ask
  <2>1. PICK at : task' = [task EXCEPT ![u].at = at]  BY <1>3 DEF Connect, Try
  <2> QED  BY <2>1, <1>t DEF TaskState
<1>4. ASSUME NEW u \in Tasks, Succeed(u) \/ FloodWait(u) \/ Banned(u) \/ Fail(u) \/ FailUncounted(u)
      PROVE  task'[t].ask = task[t].ask
  <2>1. Ended(u) \/ Retry(u) \/ Another(u)
    BY <1>4 DEF Succeed, FloodWait, Banned, Fail, FailUncounted
  <2> QED  BY <2>1, <1>t DEF Ended, Retry, Another, IdleTask, TaskState
<1>5. ASSUME NEW u \in Tasks, NEW r \in Request, Ask(u, r) PROVE task'[t].ask = task[t].ask
  <2>1. u # t /\ task' = [task EXCEPT ![u] = [IdleTask EXCEPT !.at = "choose", !.ask = r]]
    BY <1>5 DEF Ask
  <2> QED  BY <2>1, <1>t
<1>6. ASSUME UNCHANGED task PROVE task'[t].ask = task[t].ask  BY <1>6
<1> QED  BY <1>1, <1>2, <1>3, <1>4, <1>5, <1>6 DEF PoolStep, Serve, StartLock, StartConnect, Beat,
           OpenUserClient, LockExpires, StateExpires, WaitEnds

LEMMA PoolKept == ASSUME PoolStep PROVE pool' = pool
BY DEF PoolStep, Serve, StartLock, StartConnect, Beat, OpenUserClient, Ask, Exhausted, Choose, Connect,
   Try, Succeed, FloodWait, Banned, Fail, FailUncounted, CallEnds, LockExpires, StateExpires, WaitEnds

LEMMA IncidentType ==
  ASSUME MembershipTypeOK, Incident PROVE incidents' \in 0..MaxIncidents
BY RosterType, MemberConstants DEF MembershipTypeOK, Incident

\* Booking raises the counter of the account that was asked, which was below its limit.
LEMMA BookTypes ==
  ASSUME MemberInv, Joiner # None, task[Joiner].at # "idle", NEW s, Book(s)
  PROVE  /\ joinsToday' \in [Sessions -> 0..JoinLimit] /\ unbooked' \in [Sessions -> Nat]
         /\ incidents' \in 0..MaxIncidents
<1>0. /\ joinsToday \in [Sessions -> 0..JoinLimit] /\ unbooked \in [Sessions -> Nat]
      /\ incidents \in 0..MaxIncidents
      /\ Asked \in Sessions /\ joinsToday[Asked] < JoinLimit
  BY DEF MemberInv, MembershipTypeOK, JoinerInv
<1>1. unbooked' \in [Sessions -> Nat]
  BY <1>0 DEF Book
<1>2. joinsToday' \in [Sessions -> 0..JoinLimit]
  <2>1. joinsToday[Asked] + 1 \in 0..JoinLimit  BY <1>0, MemberConstants
  <2> QED  BY <1>0, <2>1 DEF Book
<1>3. incidents' \in 0..MaxIncidents
  BY <1>0, IncidentType DEF MemberInv, Book
<1> QED  BY <1>1, <1>2, <1>3

LEMMA JoinerTypes ==
  ASSUME PoolInv, MemberInv, PoolStep, JoinerStep
  PROVE  MemberInv'
<1>0. /\ pool' = pool /\ Joiner \in Tasks \cup {None}
      /\ Joiner # None => pool.on[Joiner] = roster.radar
      /\ joining # None => Joiner # None
      /\ Joiner # None /\ task[Joiner].at # "idle" =>
           joining \in Groups /\ Asked \in Sessions /\ joinsToday[Asked] < JoinLimit
      /\ MembershipTypeOK
  BY PoolKept, RosterType DEF MemberInv, MembershipTypeOK, JoinerInv
<1>1. CASE NoJoin
  <2>1. MembershipTypeOK' /\ joining' = joining /\ roster' = roster /\ joinsToday' = joinsToday
    BY <1>0, <1>1 DEF NoJoin, memberVars, MembershipTypeOK
  <2>2. Joiner # None /\ task'[Joiner].at # "idle" =>
          task[Joiner].at # "idle" /\ task'[Joiner].ask = task[Joiner].ask
    BY <1>0, <1>1, AskKept DEF NoJoin
  <2>3. JoinerInv'
    BY <1>0, <2>1, <2>2 DEF JoinerInv, Joiner, Asked
  <2> QED  BY <2>1, <2>3 DEF MemberInv
<1>2. CASE Joiner # None /\ TakeLink
  <2>1. PICK g \in discovered : discovered' = discovered \ {g} /\ joining' = g
    BY <1>2 DEF TakeLink
  <2>2. /\ g \in Groups /\ discovered' \subseteq Groups
        /\ task'[Joiner].ask.want \in Sessions /\ joinsToday[task'[Joiner].ask.want] < JoinLimit
    BY <1>0, <1>2, <2>1 DEF TakeLink, MayJoin, MembershipTypeOK
  <2>3. UNCHANGED <<roster, member, admin, age, rejected, joinsToday, leavesToday, round, joins, unbooked,
                    leaves, promoted, incidents>>
    BY <1>2 DEF TakeLink
  <2>4. MembershipTypeOK'  BY <1>0, <2>1, <2>2, <2>3 DEF MembershipTypeOK
  <2>5. JoinerInv'  BY <1>0, <1>2, <2>1, <2>2, <2>3 DEF JoinerInv, Joiner, Asked
  <2> QED  BY <2>4, <2>5 DEF MemberInv
<1>3. CASE Joiner # None /\ (Join \/ JoinPends)
  <2> DEFINE s == task[Joiner].session
  <2>1. Joiner \in Tasks /\ task[Joiner].at = "call" /\ s \in Sessions
    BY <1>0, <1>3 DEF Join, JoinPends, Succeed, CallEnds, FailUncounted, PoolInv, TaskInv
  <2>2. task'[Joiner].at = "idle"
    BY <1>3, <2>1 DEF Join, JoinPends, Succeed, Ended, IdleTask, PoolInv, PoolTypeOK
  <2>3. Book(s)  BY <1>3 DEF Join, JoinPends
  <2>4. /\ joinsToday' \in [Sessions -> 0..JoinLimit] /\ unbooked' \in [Sessions -> Nat]
        /\ incidents' \in 0..MaxIncidents
    BY <1>3, <2>1, <2>3, BookTypes
  <2>5. /\ joins' = [joins EXCEPT ![s] = @ + 1] /\ joining' = None
        /\ UNCHANGED <<roster, admin, age, discovered, rejected, leavesToday, round, leaves, promoted>>
        /\ member' \in {member, member \cup {<<s, joining>>}}
    BY <1>3 DEF Join, JoinPends
  <2>6. joins' \in [Sessions -> Nat] /\ member' \subseteq Sessions \X Groups /\ admin' \subseteq member'
    BY <1>0, <1>3, <2>1, <2>5 DEF MembershipTypeOK
  <2>7. MembershipTypeOK'  BY <1>0, <2>4, <2>5, <2>6 DEF MembershipTypeOK
  <2>8. JoinerInv'  BY <1>0, <2>2, <2>5 DEF JoinerInv, Joiner
  <2> QED  BY <2>7, <2>8 DEF MemberInv
<1>4. CASE Joiner # None /\ JoinFails
  <2>1. /\ joining' = None /\ task'[Joiner].at = "idle"
        /\ UNCHANGED <<roster, member, admin, age, discovered, rejected, joinsToday, leavesToday, round,
                       joins, unbooked, leaves, promoted, incidents>>
    BY <1>4 DEF JoinFails
  <2>2. MembershipTypeOK'  BY <1>0, <2>1 DEF MembershipTypeOK
  <2>3. JoinerInv'  BY <1>0, <2>1 DEF JoinerInv, Joiner
  <2> QED  BY <2>2, <2>3 DEF MemberInv
<1> QED  BY <1>1, <1>2, <1>3, <1>4 DEF JoinerStep


\* The loops' own steps: what they take an account out of, and what they note.
LEMMA LoopTypes ==
  ASSUME MembershipTypeOK, NEW a \in Loops, LoopStep(a)
  PROVE  /\ MembershipTypeOK' /\ UNCHANGED <<roster, joining, joinsToday, joins, unbooked>>
<1>0. /\ roster \in Rosters /\ round \in [Loops -> RoundState] /\ rejected \subseteq Groups
      /\ admin \subseteq member /\ member \subseteq Sessions \X Groups
      /\ leavesToday \in [Sessions -> 0..LeaveLimit] /\ leaves \in [Sessions -> Nat]
      /\ promoted \subseteq Loops \X Sessions \X Groups /\ incidents \in 0..MaxIncidents
      /\ "cleaner" \in Loops /\ "governor" \in Loops
  BY DEF MembershipTypeOK, Loops
<1>r. \A b \in Loops : round[b] \in RoundState  BY <1>0
<1>1. CASE StartRound(a)
  <2>1. Home(a) \in Workers
    BY <1>0, MembershipAssumption DEF Home, Roster
  <2>2. Accounts(a) \subseteq Sessions
    BY <2>1, PoolConstants DEF Accounts
  <2>3. [Resting EXCEPT !.todo = Accounts(a), !.list = rejected] \in RoundState
    BY <1>0, <2>2 DEF Resting, RoundState
  <2>4. round' \in [Loops -> RoundState]  BY <1>0, <1>1, <2>3 DEF StartRound
  <2> QED  BY <1>1, <2>4 DEF StartRound, MembershipTypeOK
<1>2. ASSUME NEW s \in Sessions, Scan(a, s)
      PROVE  MembershipTypeOK' /\ UNCHANGED <<roster, joining, joinsToday, joins, unbooked>>
  <2>1. round' \in [Loops -> RoundState]
    <3>1. ASSUME NEW out \in ToLeave(a, s),
                 round' = [round EXCEPT ![a].todo = @ \ {s}, ![a].leave = out,
                                        ![a].session = IF out = {} THEN None ELSE s]
          PROVE  round' \in [Loops -> RoundState]
      <4>1. out \subseteq Groups  BY DEF ToLeave, GroupsOf, GoneQuiet
      <4>2. [round[a] EXCEPT !.todo = @ \ {s}, !.leave = out,
                             !.session = IF out = {} THEN None ELSE s] \in RoundState
        BY <4>1, <1>r DEF RoundState
      <4> QED  BY <1>0, <3>1, <4>2
    <3>2. ASSUME Pass(a, s) PROVE round' \in [Loops -> RoundState]
      <4>1. [round[a] EXCEPT !.todo = @ \ {s}] \in RoundState  BY <1>r DEF RoundState
      <4> QED  BY <1>0, <3>2, <4>1 DEF Pass
    <3> QED  BY <1>2, <3>1, <3>2 DEF Scan
  <2>2. promoted' \subseteq Loops \X Sessions \X Groups /\ incidents' \in 0..MaxIncidents
    BY <1>0, <1>2, IncidentType DEF Scan
  <2> QED  BY <1>2, <2>1, <2>2 DEF Scan, MembershipTypeOK
<1>g. ASSUME NEW out \in SUBSET round[a].leave, GoOn(a, out) PROVE round' \in [Loops -> RoundState]
  <2>1. [round[a] EXCEPT !.leave = out, !.session = IF out = {} THEN None ELSE @] \in RoundState
    BY <1>r DEF RoundState
  <2> QED  BY <1>0, <1>g, <2>1 DEF GoOn
<1>3. ASSUME NEW g \in Groups, a = "cleaner", Clean(g)
      PROVE  MembershipTypeOK' /\ UNCHANGED <<roster, joining, joinsToday, joins, unbooked>>
  <2>1. round' \in [Loops -> RoundState]  BY <1>3, <1>g DEF Clean
  <2>2. member' \subseteq Sessions \X Groups /\ admin' \subseteq member'
    BY <1>0, <1>3 DEF Clean, LeavesGroup
  <2>3. incidents' \in 0..MaxIncidents  BY <1>0, <1>3, IncidentType DEF Clean
  <2> QED  BY <1>3, <2>1, <2>2, <2>3 DEF Clean, MembershipTypeOK
<1>4. ASSUME NEW g \in Groups, a = "governor", Govern(g)
      PROVE  MembershipTypeOK' /\ UNCHANGED <<roster, joining, joinsToday, joins, unbooked>>
  <2>1. round' \in [Loops -> RoundState]
    BY <1>4, <1>g DEF Govern
  <2>2. member' \subseteq Sessions \X Groups /\ admin' \subseteq member'
    BY <1>0, <1>4 DEF Govern, LeavesGroup
  <2>3. incidents' \in 0..MaxIncidents
    BY <1>0, <1>4, IncidentType DEF Govern, CountLeave
  <2>4. leavesToday' \in [Sessions -> 0..LeaveLimit]
    <3>1. ASSUME NEW s \in Sessions, MayLeave(s) PROVE leavesToday[s] + 1 \in 0..LeaveLimit
      BY <1>0, <3>1, MemberConstants DEF MayLeave
    <3> QED  BY <1>0, <1>4, <3>1 DEF Govern, CountLeave
  <2>5. leaves' \in [Sessions -> Nat]  BY <1>0, <1>4 DEF Govern
  <2> QED  BY <1>4, <2>1, <2>2, <2>3, <2>4, <2>5 DEF Govern, MembershipTypeOK
<1> QED  BY <1>1, <1>2, <1>3, <1>4 DEF LoopStep, StartRound

LEMMA GroupTypes ==
  ASSUME MemberInv, GroupStep, UNCHANGED poolVars
  PROVE  MemberInv'
<1>0. MembershipTypeOK /\ JoinerInv  BY DEF MemberInv
<1>1. /\ MembershipTypeOK' /\ UNCHANGED <<roster, joining>>
      /\ \A s \in Sessions : joinsToday'[s] <= joinsToday[s]
  <2>0. /\ joinsToday \in [Sessions -> 0..JoinLimit] /\ leavesToday \in [Sessions -> 0..LeaveLimit]
        /\ joins \in [Sessions -> Nat] /\ unbooked \in [Sessions -> Nat] /\ leaves \in [Sessions -> Nat]
        /\ age \in [Groups -> 0..2] /\ 0 \in 0..JoinLimit /\ 0 \in 0..LeaveLimit
        /\ \A s \in Sessions : joinsToday[s] <= joinsToday[s] /\ 0 <= joinsToday[s]
    BY <1>0, MemberConstants DEF MembershipTypeOK
  <2>1. ASSUME NEW a \in Loops, LoopStep(a)
        PROVE  /\ MembershipTypeOK' /\ UNCHANGED <<roster, joining>>
               /\ \A s \in Sessions : joinsToday'[s] <= joinsToday[s]
    BY <1>0, <2>0, <2>1, LoopTypes
  <2>2. ASSUME NEW s \in Sessions, JoinsExpire(s)
        PROVE  /\ MembershipTypeOK' /\ UNCHANGED <<roster, joining>>
               /\ \A t \in Sessions : joinsToday'[t] <= joinsToday[t]
    <3>1. /\ joinsToday' \in [Sessions -> 0..JoinLimit]
          /\ joins' \in [Sessions -> Nat] /\ unbooked' \in [Sessions -> Nat]
          /\ \A t \in Sessions : joinsToday'[t] <= joinsToday[t]
      BY <2>0, <2>2 DEF JoinsExpire
    <3> QED  BY <1>0, <2>2, <3>1 DEF JoinsExpire, MembershipTypeOK
  <2>3. ASSUME NEW s \in Sessions, LeavesExpire(s)
        PROVE  /\ MembershipTypeOK' /\ UNCHANGED <<roster, joining>>
               /\ \A t \in Sessions : joinsToday'[t] <= joinsToday[t]
    <3>1. leavesToday' \in [Sessions -> 0..LeaveLimit] /\ leaves' \in [Sessions -> Nat]
      BY <2>0, <2>3 DEF LeavesExpire
    <3> QED  BY <1>0, <2>0, <2>3, <3>1 DEF LeavesExpire, MembershipTypeOK
  <2>4. ASSUME NEW g \in Groups, GroupAges(g)
        PROVE  /\ MembershipTypeOK' /\ UNCHANGED <<roster, joining>>
               /\ \A t \in Sessions : joinsToday'[t] <= joinsToday[t]
    <3>1. age' \in [Groups -> 0..2]  BY <2>0, <2>4 DEF GroupAges
    <3> QED  BY <1>0, <2>0, <2>4, <3>1 DEF GroupAges, MembershipTypeOK
  <2>5. ASSUME NEW g \in Groups, Reject(g)
        PROVE  /\ MembershipTypeOK' /\ UNCHANGED <<roster, joining>>
               /\ \A t \in Sessions : joinsToday'[t] <= joinsToday[t]
    BY <1>0, <2>0, <2>5 DEF Reject, MembershipTypeOK
  <2>6. ASSUME NEW s \in Sessions, NEW g \in Groups, Promote(s, g)
        PROVE  /\ MembershipTypeOK' /\ UNCHANGED <<roster, joining>>
               /\ \A t \in Sessions : joinsToday'[t] <= joinsToday[t]
    <3>1. /\ incidents' \in 0..MaxIncidents /\ admin' \subseteq member'
          /\ promoted' \subseteq Loops \X Sessions \X Groups
      BY <1>0, <2>6, IncidentType DEF Promote, MembershipTypeOK
    <3> QED  BY <1>0, <2>0, <2>6, <3>1 DEF Promote, MembershipTypeOK
  <2> QED  BY <2>1, <2>2, <2>3, <2>4, <2>5, <2>6 DEF GroupStep
<1>2. UNCHANGED <<pool, task>>  BY DEF poolVars
<1>3. JoinerInv'
  <2>1. \A s \in Sessions : joinsToday[s] \in Nat /\ joinsToday'[s] \in Nat
    BY <1>0, <1>1, MemberConstants DEF MembershipTypeOK
  <2>2. \A s \in Sessions : joinsToday[s] < JoinLimit => joinsToday'[s] < JoinLimit
    BY <1>1, <2>1, MemberConstants
  <2> QED  BY <1>0, <1>1, <1>2, <2>2 DEF JoinerInv, Joiner, Asked
<1> QED  BY <1>1, <1>3 DEF MemberInv


\* With the process its tasks are gone; the request that was under way may have got through.
LEMMA GroupDeathTypes ==
  ASSUME PoolInv, MemberInv, NEW w \in Workers, Kill(w) \/ Stop(w), GroupTasksDie(w)
  PROVE  MemberInv'
<1>0. /\ MembershipTypeOK /\ Joiner \in Tasks \cup {None}
      /\ Joiner # None => pool.on[Joiner] = roster.radar
      /\ joining # None => Joiner # None
      /\ Joiner # None /\ task[Joiner].at # "idle" =>
           joining \in Groups /\ Asked \in Sessions /\ joinsToday[Asked] < JoinLimit
      /\ admin \subseteq member /\ member \subseteq Sessions \X Groups
      /\ joins \in [Sessions -> Nat] /\ unbooked \in [Sessions -> Nat] /\ leaves \in [Sessions -> Nat]
      /\ joining \in Groups \cup {None} /\ round \in [Loops -> RoundState]
  BY RosterType DEF MemberInv, MembershipTypeOK, JoinerInv
<1>1. /\ UNCHANGED <<roster, age, discovered, rejected, joinsToday, leavesToday, promoted, incidents>>
      /\ joining' = IF w = roster.radar THEN None ELSE joining
  BY DEF GroupTasksDie
<1>2. round' \in [Loops -> RoundState]
  <2>1. Resting \in RoundState  BY DEF Resting, RoundState
  <2> QED  BY <1>0, <2>1 DEF GroupTasksDie
<1>3. /\ admin' \subseteq member' /\ member' \subseteq Sessions \X Groups
      /\ joins' \in [Sessions -> Nat] /\ unbooked' \in [Sessions -> Nat] /\ leaves' \in [Sessions -> Nat]
  <2>1. CASE UNCHANGED <<member, admin, joins, unbooked, leaves>>  BY <1>0, <2>1
  <2>2. CASE JoinUnanswered(w)
    <3>1. task[Joiner].session \in Sessions /\ joining \in Groups
      BY <1>0, <2>2 DEF JoinUnanswered, PoolInv, TaskInv
    <3> QED  BY <1>0, <2>2, <3>1 DEF JoinUnanswered
  <2>3. CASE LeaveUnanswered(w)
    <3>1. PICK a \in Loops : \E g \in round[a].leave :
            /\ LeavesGroup(round[a].session, g) /\ UNCHANGED <<joins, unbooked>>
            /\ leaves' = IF a = "governor" THEN [leaves EXCEPT ![round[a].session] = @ + 1] ELSE leaves
      BY <2>3 DEF LeaveUnanswered
    <3>2. leaves' \in [Sessions -> Nat]
      <4>1. leaves' = leaves \/ leaves' = [leaves EXCEPT ![round[a].session] = @ + 1]  BY <3>1
      <4> QED  BY <1>0, <4>1
    <3>3. admin' \subseteq member' /\ member' \subseteq Sessions \X Groups
      BY <1>0, <3>1 DEF LeavesGroup
    <3> QED  BY <1>0, <3>1, <3>2, <3>3
  <2> QED  BY <2>1, <2>2, <2>3 DEF GroupTasksDie
<1>4. MembershipTypeOK'  BY <1>0, <1>1, <1>2, <1>3 DEF MembershipTypeOK
<1>5. JoinerInv'
  <2>1. pool' = pool /\ task' = [t \in Tasks |-> IF pool.on[t] = w THEN IdleTask ELSE task[t]]
    BY DEF Kill, Stop, Gone
  <2>2. Joiner # None /\ task'[Joiner].at # "idle" =>
          w # roster.radar /\ task'[Joiner] = task[Joiner]
    BY <1>0, <2>1 DEF IdleTask
  <2> QED  BY <1>0, <1>1, <2>1, <2>2 DEF JoinerInv, Joiner, Asked
<1> QED  BY <1>4, <1>5 DEF MemberInv

LEMMA MemberStep == PoolInv /\ MemberInv /\ [Next]_vars => MemberInv'
<1> SUFFICES ASSUME PoolInv, MemberInv, [Next]_vars PROVE MemberInv'  OBVIOUS
<1>1. CASE Pooling  BY <1>1, JoinerTypes DEF Pooling, InPool
<1>2. CASE Moving  BY <1>2, GroupTypes DEF Moving
<1>3. ASSUME NEW w \in pool.run, WorkerGoes(w) PROVE MemberInv'
  <2>1. w \in Workers  BY PoolSetting DEF PoolInv, PoolTypeOK
  <2> QED  BY <1>3, <2>1, GroupDeathTypes DEF WorkerGoes
<1>4. CASE UNCHANGED <<poolVars, memberVars>>
  <2>1. MembershipTypeOK'  BY <1>4 DEF memberVars, MemberInv, MembershipTypeOK
  <2>2. JoinerInv'  BY <1>4 DEF poolVars, memberVars, MemberInv, JoinerInv, Joiner, Asked
  <2> QED  BY <2>1, <2>2 DEF MemberInv
<1> QED  BY <1>1, <1>2, <1>3, <1>4 DEF Next, Replying, OnUserClient, Outside, vars

\* What holds throughout.
AllInv == HoldInv /\ ReplyTypeInv /\ MemberInv

LEMMA AllInit == Init => AllInv
BY HoldInit, ReplyInitInv, MemberInitInv DEF Init, AllInv

LEMMA AllStep == AllInv /\ [Next]_vars => AllInv'
BY HoldStep, ReplyTypeStep, MemberStep DEF AllInv, HoldInv

\* Type correctness: among the rest, a request never tries an account more often than
\* the retry policy allows, and the day's counters of follow-ups, joins and leaves
\* never exceed their limits.
THEOREM TypeCorrect == Spec => []TypeOK
<1>1. AllInv => TypeOK
  BY DEF AllInv, HoldInv, PoolInv, ReplyTypeInv, MemberInv, TypeOK
<1> QED  BY <1>1, AllInit, AllStep, PTL DEF Spec

-----------------------------------------------------------------------------
(* The groups that an account runs: what a loop is about to leave is not one *)
(* of them, unless the account came to run it after the loop had looked.     *)

LookedInv ==
  \A a \in Loops : \A g \in round[a].leave :
    LET s == round[a].session IN <<s, g>> \in admin => <<a, s, g>> \in promoted

\* What a step of a loop takes an account out of is on its list.
LeftByLoop ==
  \A s \in Sessions, g \in Groups :
    <<s, g>> \in member /\ <<s, g>> \notin member' =>
      \E a \in Loops : g \in round[a].leave /\ s = round[a].session

LEMMA LoopLeaves ==
  ASSUME MembershipTypeOK, LookedInv, NEW a \in Loops, LoopStep(a)
  PROVE  LookedInv' /\ LeftByLoop
<1>0. round \in [Loops -> RoundState]  BY DEF MembershipTypeOK
<1>1. CASE StartRound(a)
  <2> DEFINE n == [Resting EXCEPT !.todo = Accounts(a), !.list = rejected]
  <2>0. n.leave = {}  BY DEF Resting
  <2>1. \A b \in Loops : round'[b].leave = {} \/ round'[b] = round[b]
    <3>1. round' = [round EXCEPT ![a] = n]  BY <1>1 DEF StartRound
    <3> HIDE DEF n
    <3> QED  BY <1>0, <2>0, <3>1
  <2>2. UNCHANGED <<admin, promoted, member>>  BY <1>1 DEF StartRound
  <2>3. LookedInv'  BY <2>1, <2>2 DEF LookedInv
  <2> QED  BY <2>2, <2>3 DEF LeftByLoop
<1>2. ASSUME NEW s \in Sessions, Scan(a, s) PROVE LookedInv' /\ LeftByLoop
  <2>1. UNCHANGED <<member, admin>>  BY <1>2 DEF Scan
  <2>2. ASSUME NEW out \in ToLeave(a, s),
               round' = [round EXCEPT ![a].todo = @ \ {s}, ![a].leave = out,
                                      ![a].session = IF out = {} THEN None ELSE s],
               promoted' = promoted \ ({a} \X {s} \X Groups)
        PROVE  LookedInv'
    <3>1. out \cap Immune(s) = {} /\ out \subseteq Groups  BY DEF ToLeave, GroupsOf, GoneQuiet
    <3>2. \A g \in out : <<s, g>> \notin admin  BY <3>1 DEF Immune
    <3>3. round'[a].leave = out /\ (out # {} => round'[a].session = s)
      BY <1>0, <2>2 DEF RoundState
    <3>4. \A b \in Loops \ {a} : round'[b] = round[b]  BY <1>0, <2>2
    <3>5. \A b \in Loops \ {a} : \A t, g : <<b, t, g>> \in promoted => <<b, t, g>> \in promoted'
      BY <2>2
    <3>6. ASSUME NEW b \in Loops, NEW g \in round'[b].leave, <<round'[b].session, g>> \in admin'
          PROVE  <<b, round'[b].session, g>> \in promoted'
      <4>1. CASE b = a  BY <2>1, <3>2, <3>3, <3>6, <4>1
      <4>2. CASE b # a  BY <2>1, <3>4, <3>5, <3>6, <4>2 DEF LookedInv
      <4> QED  BY <4>1, <4>2
    <3> QED  BY <3>6 DEF LookedInv
  <2>3. ASSUME Pass(a, s), promoted' = promoted PROVE LookedInv'
    <3>1. \A b \in Loops : round'[b].leave = round[b].leave /\ round'[b].session = round[b].session
      BY <1>0, <2>3 DEF Pass, RoundState
    <3> QED  BY <2>1, <2>3, <3>1 DEF LookedInv
  <2>4. LookedInv'  BY <1>2, <2>2, <2>3 DEF Scan
  <2> QED  BY <2>1, <2>4 DEF LeftByLoop
<1>g. ASSUME NEW out \in SUBSET round[a].leave, GoOn(a, out), admin' \subseteq admin, promoted' = promoted
      PROVE  LookedInv'
  <2>1. round'[a].leave = out /\ (out # {} => round'[a].session = round[a].session)
    BY <1>0, <1>g DEF GoOn, RoundState
  <2>2. \A b \in Loops \ {a} : round'[b] = round[b]  BY <1>0, <1>g DEF GoOn
  <2>3. ASSUME NEW b \in Loops, NEW g \in round'[b].leave, <<round'[b].session, g>> \in admin'
        PROVE  <<b, round'[b].session, g>> \in promoted'
    <3>1. CASE b = a  BY <1>g, <2>1, <2>3, <3>1 DEF LookedInv
    <3>2. CASE b # a  BY <1>g, <2>2, <2>3, <3>2 DEF LookedInv
    <3> QED  BY <3>1, <3>2
  <2> QED  BY <2>3 DEF LookedInv
<1>3. ASSUME NEW g \in Groups, a = "cleaner", Clean(g) PROVE LookedInv' /\ LeftByLoop
  <2>1. admin' \subseteq admin /\ promoted' = promoted  BY <1>3 DEF Clean, LeavesGroup
  <2>2. LookedInv'  BY <1>3, <2>1, <1>g DEF Clean
  <2>3. LeftByLoop  BY <1>3 DEF Clean, LeavesGroup, LeftByLoop
  <2> QED  BY <2>2, <2>3
<1>4. ASSUME NEW g \in Groups, a = "governor", Govern(g) PROVE LookedInv' /\ LeftByLoop
  <2>1. admin' \subseteq admin /\ promoted' = promoted  BY <1>4 DEF Govern, LeavesGroup
  <2>2. LookedInv'  BY <1>4, <2>1, <1>g DEF Govern
  <2>3. LeftByLoop  BY <1>4 DEF Govern, LeavesGroup, LeftByLoop
  <2> QED  BY <2>2, <2>3
<1> QED  BY <1>1, <1>2, <1>3, <1>4 DEF LoopStep

LEMMA LookedStep ==
  ASSUME AllInv, LookedInv, [Next]_vars
  PROVE  LookedInv' /\ LeftByLoop
<1>0. MembershipTypeOK /\ round \in [Loops -> RoundState]
  BY DEF AllInv, MemberInv, MembershipTypeOK
<1>1. CASE JoinerStep
  <2>1. UNCHANGED <<admin, round, promoted>> /\ member \subseteq member'
    BY <1>1 DEF JoinerStep, NoJoin, TakeLink, Join, JoinPends, JoinFails, memberVars
  <2> QED  BY <2>1 DEF LookedInv, LeftByLoop
<1>2. ASSUME NEW a \in Loops, LoopStep(a) PROVE LookedInv' /\ LeftByLoop
  BY <1>0, <1>2, LoopLeaves
<1>3. ASSUME NEW s \in Sessions, NEW g \in Groups, Promote(s, g) PROVE LookedInv' /\ LeftByLoop
  <2>1. /\ admin' = admin \cup {<<s, g>>} /\ promoted' = promoted \cup Loops \X {s} \X {g}
        /\ UNCHANGED <<round, member>>
    BY <1>3 DEF Promote
  <2>2. LookedInv'  BY <2>1 DEF LookedInv
  <2> QED  BY <2>1, <2>2 DEF LeftByLoop
<1>4. ASSUME UNCHANGED <<member, admin, round, promoted>> PROVE LookedInv' /\ LeftByLoop
  BY <1>4 DEF LookedInv, LeftByLoop
<1>5. ASSUME NEW w \in Workers, GroupTasksDie(w) PROVE LookedInv' /\ LeftByLoop
  <2>1. admin' \subseteq admin /\ promoted' = promoted
    BY <1>5 DEF GroupTasksDie, JoinUnanswered, LeaveUnanswered, LeavesGroup
  <2>2. \A a \in Loops : round'[a].leave = {} \/ round'[a] = round[a]
    BY <1>5 DEF GroupTasksDie, Resting
  <2>3. LookedInv'  BY <2>1, <2>2 DEF LookedInv
  <2>4. LeftByLoop
    BY <1>5 DEF GroupTasksDie, JoinUnanswered, LeaveUnanswered, LeavesGroup, LeftByLoop
  <2> QED  BY <2>3, <2>4
<1>6. CASE GroupStep
  BY <1>2, <1>3, <1>4, <1>6 DEF GroupStep, JoinsExpire, LeavesExpire, GroupAges, Reject
<1>7. CASE \E w \in pool.run : WorkerGoes(w)
  BY <1>5, <1>7, PoolSetting DEF WorkerGoes, AllInv, HoldInv, PoolInv, PoolTypeOK
<1>8. CASE UNCHANGED memberVars  BY <1>4, <1>8 DEF memberVars
<1> QED  BY <1>1, <1>6, <1>7, <1>8 DEF Next, Replying, OnUserClient, Pooling, InPool, Moving, Outside, vars

\* No loop takes an account out of a group that it runs, unless it came to run it after
\* the loop had looked.
THEOREM OwnGroupsAreKept == Spec => OwnGroupsStay
<1> DEFINE Stays == \A s \in Sessions, g \in Groups :
                      <<s, g>> \in admin /\ <<s, g>> \notin member' =>
                        \E a \in Loops : <<a, s, g>> \in promoted
           Inv == AllInv /\ LookedInv
<1>1. Init => Inv
  BY AllInit DEF Init, MembershipInit, LookedInv, Resting
<1>2. Inv /\ [Next]_vars => Inv'  BY AllStep, LookedStep
<1>3. Inv /\ [Next]_vars => Stays
  <2> SUFFICES ASSUME Inv, [Next]_vars, NEW s \in Sessions, NEW g \in Groups,
                      <<s, g>> \in admin, <<s, g>> \notin member'
               PROVE  \E a \in Loops : <<a, s, g>> \in promoted
    OBVIOUS
  <2>1. <<s, g>> \in member  BY DEF AllInv, MemberInv, MembershipTypeOK
  <2>2. PICK a \in Loops : g \in round[a].leave /\ s = round[a].session
    BY <2>1, LookedStep DEF LeftByLoop
  <2> QED  BY <2>2 DEF LookedInv
<1>4. Inv /\ [Next]_vars => [Stays]_vars  BY <1>3
<1>5. Spec => []Inv
  <2> HIDE DEF Inv
  <2> QED  BY <1>1, <1>2, PTL DEF Spec
<1>6. Spec => [][Stays]_vars
  <2> HIDE DEF Inv, Stays
  <2> QED  BY <1>3, <1>5, PTL DEF Spec
<1> QED  BY <1>6 DEF OwnGroupsStay


-----------------------------------------------------------------------------
(* The limits of a day: an account's joins are those that joins_today counts *)
(* and those that it does not; its leaves, those that leaves_today counts,   *)
(* and at most one more for each failure or death.                           *)

JoinInv == \A s \in Sessions : joins[s] <= joinsToday[s] + unbooked[s]

\* A join is booked to the account that was asked, or noted as unbooked.
LEMMA BookBalances ==
  ASSUME MemberInv, NEW s \in Sessions, Asked \in Sessions, JoinInv, Book(s),
         joins' = [joins EXCEPT ![s] = @ + 1]
  PROVE  JoinInv'
<1>0. /\ joins \in [Sessions -> Nat] /\ unbooked \in [Sessions -> Nat]
      /\ \A t \in Sessions : joinsToday[t] \in Nat
      /\ joinsToday \in [Sessions -> 0..JoinLimit]
  BY MemberConstants DEF MemberInv, MembershipTypeOK
<1>1. ASSUME NEW t \in Sessions PROVE joins'[t] <= joinsToday'[t] + unbooked'[t]
  <2>1. joins[t] <= joinsToday[t] + unbooked[t] /\ joins'[t] = IF t = s THEN joins[t] + 1 ELSE joins[t]
    BY <1>0 DEF JoinInv
  <2>2. \/ /\ joinsToday'[t] = IF t = Asked THEN joinsToday[t] + 1 ELSE joinsToday[t]
           /\ unbooked'[t] = IF t = s /\ s # Asked THEN unbooked[t] + 1 ELSE unbooked[t]
        \/ joinsToday'[t] = joinsToday[t] /\ unbooked'[t] = IF t = s THEN unbooked[t] + 1 ELSE unbooked[t]
    BY <1>0 DEF Book
  <2>3. joins[t] \in Nat /\ unbooked[t] \in Nat /\ joinsToday[t] \in Nat  BY <1>0
  <2> QED  BY <2>1, <2>2, <2>3
<1> QED  BY <1>1 DEF JoinInv

LEMMA JoinStep ==
  ASSUME AllInv, JoinInv, [Next]_vars
  PROVE  JoinInv'
<1>0. /\ MemberInv /\ Joiner \in Tasks \cup {None}
      /\ joins \in [Sessions -> Nat] /\ unbooked \in [Sessions -> Nat]
      /\ joinsToday \in [Sessions -> 0..JoinLimit] /\ JoinLimit \in Nat
  BY RosterType, MemberConstants DEF AllInv, MemberInv, MembershipTypeOK
<1>u. ASSUME UNCHANGED <<joins, joinsToday, unbooked>> PROVE JoinInv'
  BY <1>u DEF JoinInv
<1>1. CASE JoinerStep
  <2>1. CASE NoJoin \/ TakeLink \/ JoinFails
    BY <2>1, <1>u DEF NoJoin, TakeLink, JoinFails, memberVars
  <2>2. CASE Joiner # None /\ (Join \/ JoinPends)
    <3>1. task[Joiner].session \in Sessions /\ Asked \in Sessions
      BY <1>0, <2>2 DEF Join, JoinPends, Succeed, CallEnds, FailUncounted, AllInv, HoldInv, PoolInv, TaskInv,
         MemberInv, JoinerInv
    <3> QED  BY <1>0, <2>2, <3>1, BookBalances DEF Join, JoinPends
  <2> QED  BY <1>1, <2>1, <2>2 DEF JoinerStep
<1>2. ASSUME NEW s \in Sessions, JoinsExpire(s) PROVE JoinInv'
  BY <1>0, <1>2 DEF JoinsExpire, JoinInv
<1>3. ASSUME NEW w \in Workers, GroupTasksDie(w) PROVE JoinInv'
  <2>1. joinsToday' = joinsToday  BY <1>3 DEF GroupTasksDie
  <2>2. \/ UNCHANGED <<joins, unbooked>>
        \/ \E s : joins' = [joins EXCEPT ![s] = @ + 1] /\ unbooked' = [unbooked EXCEPT ![s] = @ + 1]
    BY <1>3 DEF GroupTasksDie, JoinUnanswered, LeaveUnanswered
  <2>3. ASSUME NEW s, joins' = [joins EXCEPT ![s] = @ + 1], unbooked' = [unbooked EXCEPT ![s] = @ + 1]
        PROVE  JoinInv'
    BY <1>0, <2>1, <2>3 DEF JoinInv
  <2> QED  BY <1>u, <2>1, <2>2, <2>3
<1>4. CASE GroupStep
  BY <1>u, <1>2, <1>4, LoopTypes, <1>0 DEF GroupStep, LeavesExpire, GroupAges, Reject, Promote, MemberInv
<1>5. CASE \E w \in pool.run : WorkerGoes(w)
  BY <1>3, <1>5, PoolSetting DEF WorkerGoes, AllInv, HoldInv, PoolInv, PoolTypeOK
<1>6. CASE UNCHANGED memberVars  BY <1>u, <1>6 DEF memberVars
<1> QED  BY <1>1, <1>4, <1>5, <1>6 DEF Next, Replying, OnUserClient, Pooling, InPool, Moving, Outside, vars

\* An account joins no more groups in a day than the limit, but for those that it joined
\* in place of another account, or that were never counted.
THEOREM JoinLimitKept == Spec => []JoinLimitHolds
<1> DEFINE Inv == AllInv /\ JoinInv
<1>1. Init => Inv
  <2>1. Init => JoinInv  BY DEF Init, MembershipInit, NoneYet, JoinInv
  <2> QED  BY <2>1, AllInit
<1>2. Inv /\ [Next]_vars => Inv'  BY AllStep, JoinStep
<1>3. Inv => JoinLimitHolds
  <2> SUFFICES ASSUME Inv, NEW s \in Sessions PROVE joins[s] <= JoinLimit + unbooked[s]
    BY DEF JoinLimitHolds
  <2>1. /\ joins[s] \in Nat /\ unbooked[s] \in Nat /\ joinsToday[s] \in 0..JoinLimit /\ JoinLimit \in Nat
        /\ joins[s] <= joinsToday[s] + unbooked[s]
    BY MemberConstants DEF AllInv, MemberInv, MembershipTypeOK, JoinInv
  <2> QED  BY <2>1
<1> QED
  <2> HIDE DEF Inv
  <2> QED  BY <1>1, <1>2, <1>3, PTL DEF Spec

LeaveInv == \A s \in Sessions : leaves[s] <= leavesToday[s] + Mishaps + incidents

\* One leave more, or none, against one more that is counted, or one more mishap.
LEMMA LeaveBalance ==
  ASSUME NEW l \in Nat, NEW c \in Nat, NEW m \in Nat, NEW i \in Nat,
         NEW l2 \in Nat, NEW c2 \in Nat, NEW m2 \in Nat, NEW i2 \in Nat,
         l <= c + m + i, m2 >= m, i2 >= i,
         \/ l2 = 0
         \/ l2 = l /\ c2 >= c
         \/ l2 = l + 1 /\ c2 = c + 1
         \/ l2 = l + 1 /\ c2 = c /\ (m2 >= m + 1 \/ i2 = i + 1)
  PROVE  l2 <= c2 + m2 + i2
OBVIOUS

LEMMA LeaveStep ==
  ASSUME AllInv, LeaveInv, [Next]_vars
  PROVE  LeaveInv'
<1>0. /\ MembershipTypeOK
      /\ leaves \in [Sessions -> Nat] /\ leavesToday \in [Sessions -> 0..LeaveLimit] /\ LeaveLimit \in Nat
      /\ incidents \in Nat
  BY MemberConstants DEF AllInv, MemberInv, MembershipTypeOK
<1>1. /\ leaves' \in [Sessions -> Nat] /\ leavesToday' \in [Sessions -> 0..LeaveLimit]
      /\ incidents' \in Nat
  BY AllStep, MemberConstants DEF AllInv, MemberInv, MembershipTypeOK
<1>m. /\ Mishaps \in Nat /\ Mishaps' \in Nat /\ Mishaps' >= Mishaps
      /\ upsets' = upsets + 1 => Mishaps' >= Mishaps + 1
  BY MishapsGrow, Sums DEF Mishaps, AllInv, HoldInv
<1> DEFINE Fair(s) == \/ leaves'[s] = 0
                      \/ leaves'[s] = leaves[s] /\ leavesToday'[s] >= leavesToday[s]
                      \/ leaves'[s] = leaves[s] + 1 /\ leavesToday'[s] = leavesToday[s] + 1
                      \/ /\ leaves'[s] = leaves[s] + 1 /\ leavesToday'[s] = leavesToday[s]
                         /\ upsets' = upsets + 1 \/ incidents' = incidents + 1
<1>2. SUFFICES incidents' >= incidents /\ \A s \in Sessions : Fair(s)
  <2>1. ASSUME NEW s \in Sessions PROVE leaves'[s] <= leavesToday'[s] + Mishaps' + incidents'
    <3>1. /\ leaves[s] \in Nat /\ leavesToday[s] \in Nat /\ leaves'[s] \in Nat /\ leavesToday'[s] \in Nat
          /\ leaves[s] <= leavesToday[s] + Mishaps + incidents
      BY <1>0, <1>1 DEF LeaveInv
    <3>2. \/ leaves'[s] = 0
          \/ leaves'[s] = leaves[s] /\ leavesToday'[s] >= leavesToday[s]
          \/ leaves'[s] = leaves[s] + 1 /\ leavesToday'[s] = leavesToday[s] + 1
          \/ /\ leaves'[s] = leaves[s] + 1 /\ leavesToday'[s] = leavesToday[s]
             /\ Mishaps' >= Mishaps + 1 \/ incidents' = incidents + 1
      BY <1>2, <1>m
    <3> QED  BY <1>0, <1>1, <1>2, <1>m, <3>1, <3>2, LeaveBalance
  <2> QED  BY <2>1 DEF LeaveInv
<1>u. ASSUME UNCHANGED <<leaves, leavesToday>> PROVE \A s \in Sessions : Fair(s)
  BY <1>0, <1>u
<1>3. ASSUME NEW g \in Groups, Govern(g) PROVE incidents' >= incidents /\ \A s \in Sessions : Fair(s)
  <2> DEFINE t == round["governor"].session
  <2>1. CASE leaves' = [leaves EXCEPT ![t] = @ + 1] /\ CountLeave(t)
    <3>1. incidents' >= incidents  BY <1>0, <2>1 DEF CountLeave, Incident
    <3>2. ASSUME NEW s \in Sessions PROVE Fair(s)
      BY <1>0, <2>1 DEF CountLeave, Incident
    <3> QED  BY <3>1, <3>2
  <2>2. CASE UNCHANGED <<leaves, leavesToday>> /\ (Incident \/ UNCHANGED incidents)
    BY <1>0, <1>u, <2>2 DEF Incident
  <2> QED  BY <1>3, <2>1, <2>2 DEF Govern
<1>4. ASSUME NEW a \in Loops, LoopStep(a), a = "governor" => \A g \in Groups : ~Govern(g)
      PROVE  incidents' >= incidents /\ \A s \in Sessions : Fair(s)
  <2>1. UNCHANGED <<leaves, leavesToday>> /\ (Incident \/ UNCHANGED incidents)
    BY <1>4 DEF LoopStep, StartRound, Scan, Clean
  <2> QED  BY <1>0, <1>u, <2>1 DEF Incident
<1>5. CASE JoinerStep
  <2>1. UNCHANGED <<leaves, leavesToday>> /\ (Incident \/ UNCHANGED incidents)
    BY <1>5 DEF JoinerStep, NoJoin, TakeLink, Join, JoinPends, JoinFails, Book, memberVars
  <2> QED  BY <1>0, <1>u, <2>1 DEF Incident
<1>6. ASSUME NEW s \in Sessions, LeavesExpire(s)
      PROVE  incidents' >= incidents /\ \A t \in Sessions : Fair(t)
  BY <1>0, <1>6 DEF LeavesExpire
<1>7. CASE GroupStep
  <2>1. ASSUME UNCHANGED <<leaves, leavesToday>>, Incident \/ UNCHANGED incidents
        PROVE  incidents' >= incidents /\ \A s \in Sessions : Fair(s)
    BY <1>0, <1>u, <2>1 DEF Incident
  <2> QED  BY <1>3, <1>4, <1>6, <1>7, <2>1 DEF GroupStep, JoinsExpire, GroupAges, Reject, Promote
<1>8. ASSUME NEW w \in Workers, Kill(w) \/ Stop(w), GroupTasksDie(w)
      PROVE  incidents' >= incidents /\ \A s \in Sessions : Fair(s)
  <2>1. upsets' = upsets + 1  BY <1>8 DEF Kill, Stop, Upset
  <2>2. UNCHANGED <<leavesToday, incidents>>  BY <1>8 DEF GroupTasksDie
  <2>3. leaves' = leaves \/ \E t : leaves' = [leaves EXCEPT ![t] = @ + 1]
    BY <1>8 DEF GroupTasksDie, JoinUnanswered, LeaveUnanswered
  <2>4. ASSUME NEW s \in Sessions PROVE Fair(s)
    BY <1>0, <2>1, <2>2, <2>3
  <2> QED  BY <1>0, <2>2, <2>4
<1>9. CASE \E w \in pool.run : WorkerGoes(w)
  BY <1>8, <1>9, PoolSetting DEF WorkerGoes, AllInv, HoldInv, PoolInv, PoolTypeOK
<1>10. CASE UNCHANGED memberVars
  BY <1>0, <1>u, <1>10 DEF memberVars
<1> QED  BY <1>5, <1>7, <1>9, <1>10 DEF Next, Replying, OnUserClient, Pooling, InPool, Moving, Outside, vars

\* The governor takes an account out of no more groups in a day than its limit, but for
\* those that were never counted.
THEOREM LeaveLimitKept == Spec => []LeaveLimitHolds
<1> DEFINE Inv == AllInv /\ LeaveInv
<1>1. Init => Inv
  <2>1. Init => LeaveInv
    BY DEF Init, MembershipInit, RepliesInit, PoolInit, NoneYet, Mishaps, LeaveInv
  <2> QED  BY <2>1, AllInit
<1>2. Inv /\ [Next]_vars => Inv'  BY AllStep, LeaveStep
<1>3. Inv => LeaveLimitHolds
  <2> SUFFICES ASSUME Inv, NEW s \in Sessions PROVE leaves[s] <= LeaveLimit + Mishaps + incidents
    BY DEF LeaveLimitHolds
  <2>1. /\ leaves[s] \in Nat /\ leavesToday[s] \in 0..LeaveLimit /\ LeaveLimit \in Nat
        /\ leaves[s] <= leavesToday[s] + Mishaps + incidents
    BY MemberConstants DEF AllInv, MemberInv, MembershipTypeOK, LeaveInv
  <2>2. Mishaps \in Nat /\ incidents \in Nat
    BY MemberConstants, PoolConstants, ReplyConstants DEF Mishaps, AllInv, HoldInv, PoolInv, PoolTypeOK,
       ReplyTypeInv, RepliesTypeOK, MemberInv, MembershipTypeOK
  <2> QED  BY <2>1, <2>2
<1> QED
  <2> HIDE DEF Inv
  <2> QED  BY <1>1, <1>2, <1>3, PTL DEF Spec

=============================================================================
