----------------------------- MODULE Memberships ------------------------------
(***************************************************************************)
(* The groups and channels that the accounts are members of: radar's slow  *)
(* joiner, which joins one discovered group after the other within a daily *)
(* limit for each account; radar's loop that leaves rejected groups; and   *)
(* the validator's membership governor, which leaves what has gone quiet.  *)
(*                                                                         *)
(* The joiner is a task of SessionPool: execute_request may well let       *)
(* another account join than the one that was asked.  The two loops use    *)
(* the connected clients as they are.                                      *)
(***************************************************************************)
EXTENDS SessionPool

CONSTANTS
  Groups,        \* groups and channels
  JoinLimit,     \* joins of an account in a day (5)
  LeaveLimit,    \* MAX_LEAVES_PER_DAY (30)
  CycleLimit,    \* MAX_LEAVES_PER_CYCLE (15)
  Target,        \* TARGET_CHANNEL_LIMIT (400)
  MaxIncidents,  \* bound: promotions, failed commands and failed calls
  Rosters        \* the settings considered

\* The loops that leave.
Loops == {"cleaner", "governor"}

\* A setting: the radar; its joiner, if it is a task of the pool; the loops that run;
\* the links in discovered_groups; who is a member, and an administrator, of what at
\* first; the groups that the validator will reject; and a bound.
Roster == [radar : Workers, joiner : Tasks \cup {None}, loops : SUBSET Loops, links : SUBSET Groups,
           member : SUBSET (Sessions \X Groups), admin : SUBSET (Sessions \X Groups),
           bad : SUBSET Groups, incidents : 0..MaxIncidents]

ASSUME MembershipAssumption ==
  /\ JoinLimit \in Nat \ {0} /\ LeaveLimit \in Nat \ {0} /\ CycleLimit \in Nat \ {0}
  /\ Target \in Nat /\ MaxIncidents \in Nat
  /\ IsFiniteSet(Groups)
  /\ Borrower \in Workers /\ None \notin Tasks \cup Groups
  /\ Rosters \subseteq Roster

VARIABLES
  roster,       \* the setting of this behaviour
  member,       \* <<s, g>>: account s is in group g
  admin,        \* and created it, or has admin rights there
  age,          \* of each group: 2 if its last message is 14 days old, 1 if 7, else 0
  discovered,   \* discovered_groups
  rejected,     \* rejected_groups_set
  joinsToday,   \* health:{name}:joins_today
  leavesToday,  \* hygiene:leaves_today:{name}
  joining,      \* the group that the joiner has in hand
  round         \* what each loop is about

\* What an observer outside the code would note.
VARIABLES
  joins,        \* groups that an account joined since its joins_today expired
  unbooked,     \* those of them that joins_today of the account does not count
  leaves,       \* groups that it left for the governor since leaves_today expired
  promoted,     \* <<a, s, g>>: s became an administrator after loop a looked
  incidents     \* counts towards roster.incidents

memberVars == <<roster, member, admin, age, discovered, rejected, joinsToday, leavesToday, joining,
                round, joins, unbooked, leaves, promoted, incidents>>

\* todo: the accounts to visit; list: rejected_groups as read; session: the account at
\* hand; leave: the groups it is to leave.
RoundState == [todo : SUBSET Sessions, list : SUBSET Groups, session : Sessions \cup {None},
               leave : SUBSET Groups]
Resting == [todo |-> {}, list |-> {}, session |-> None, leave |-> {}]

MembershipTypeOK ==
  /\ roster \in Rosters
  /\ admin \subseteq member /\ member \subseteq Sessions \X Groups
  /\ age \in [Groups -> 0..2]
  /\ discovered \subseteq Groups /\ rejected \subseteq Groups
  /\ joinsToday \in [Sessions -> 0..JoinLimit] /\ leavesToday \in [Sessions -> 0..LeaveLimit]
  /\ joining \in Groups \cup {None}
  /\ round \in [Loops -> RoundState]
  /\ joins \in [Sessions -> Nat] /\ unbooked \in [Sessions -> Nat] /\ leaves \in [Sessions -> Nat]
  /\ promoted \subseteq Loops \X Sessions \X Groups
  /\ incidents \in 0..MaxIncidents

NoneYet == [s \in Sessions |-> 0]

MembershipInit ==
  /\ roster \in Rosters
  /\ member = roster.member /\ admin = roster.admin \cap roster.member
  /\ age = [g \in Groups |-> 0]
  /\ discovered = roster.links /\ rejected = {}
  /\ joinsToday = NoneYet /\ leavesToday = NoneYet
  /\ joining = None
  /\ round = [a \in Loops |-> Resting]
  /\ joins = NoneYet /\ unbooked = NoneYet /\ leaves = NoneYet
  /\ promoted = {} /\ incidents = 0

Incident == incidents < roster.incidents /\ incidents' = incidents + 1

-----------------------------------------------------------------------------
\* slow_joiner_task: what happens to the memberships with a step of its request.

Joiner == roster.joiner
Asked  == task[Joiner].ask.want  \* the account that was chosen

SlipMayJoin(s) ==
  /\ <<roster.radar, s>> \in open
  /\ s \notin banned \cup waiting
  /\ joinsToday[s] <= JoinLimit

\* A connected account that is neither banned nor rate-limited, below its limit.
MayJoin(s) ==
  /\ <<roster.radar, s>> \in open
  /\ s \notin banned \cup waiting
  /\ joinsToday[s] < JoinLimit

\* LPOP, and the request; the account with the best score, which is left open.
TakeLink ==
  /\ task[Joiner].at = "idle" /\ task'[Joiner].at = "choose"
  /\ task'[Joiner].ask.want \in Sessions /\ MayJoin(task'[Joiner].ask.want)
  /\ \E g \in discovered : discovered' = discovered \ {g} /\ joining' = g
  /\ UNCHANGED <<roster, member, admin, age, rejected, joinsToday, leavesToday, round, joins, unbooked,
                 leaves, promoted, incidents>>

\* INCR joins_today of the account that was asked, whichever joined; if Redis fails
\* here, the group counts as not joined.
Book(s) ==
  \/ /\ joinsToday' = [joinsToday EXCEPT ![Asked] = @ + 1]
     /\ unbooked' = IF s = Asked THEN unbooked ELSE [unbooked EXCEPT ![s] = @ + 1]
     /\ UNCHANGED incidents
  \/ /\ Incident
     /\ unbooked' = [unbooked EXCEPT ![s] = @ + 1]
     /\ UNCHANGED joinsToday

\* The call came back: the account is in the group.
Join ==
  LET s == task[Joiner].session IN
  /\ Succeed(Joiner)
  /\ member' = member \cup {<<s, joining>>}
  /\ joins' = [joins EXCEPT ![s] = @ + 1]
  /\ Book(s)
  /\ joining' = None
  /\ UNCHANGED <<roster, admin, age, discovered, rejected, leavesToday, round, leaves, promoted>>

\* An administrator has to let the account in: it counts as a join.
JoinPends ==
  LET s == task[Joiner].session IN
  /\ FailUncounted(Joiner) /\ task'[Joiner].at = "idle"
  /\ joins' = [joins EXCEPT ![s] = @ + 1]
  /\ Book(s)
  /\ joining' = None
  /\ UNCHANGED <<roster, member, admin, age, discovered, rejected, leavesToday, round, leaves, promoted>>

\* The request failed; the link is gone.
JoinFails ==
  /\ Exhausted(Joiner) \/ Fail(Joiner)
  /\ task'[Joiner].at = "idle"
  /\ joining' = None
  /\ UNCHANGED <<roster, member, admin, age, discovered, rejected, joinsToday, leavesToday, round, joins,
                 unbooked, leaves, promoted, incidents>>

\* Any other step of the pool.
NoJoin ==
  /\ Joiner # None =>
       \/ task'[Joiner] = task[Joiner]
       \/ task[Joiner].at # "idle" /\ task'[Joiner].at # "idle"
  /\ UNCHANGED memberVars

JoinerStep ==
  \/ NoJoin
  \/ /\ Joiner # None
     /\ TakeLink \/ Join \/ JoinPends \/ JoinFails

-----------------------------------------------------------------------------
\* leave_rejected_groups_loop and channel_hygiene_loop.

Home(a) == IF a = "cleaner" THEN roster.radar ELSE Borrower

\* The accounts of the loop: all of the manager, and the client beside it.
Accounts(a) ==
  Clients[Home(a)] \cup (IF a = "governor" /\ userClient THEN {UserSession} ELSE {})

Connected(a, s) ==
  /\ s \notin banned
  /\ \/ <<Home(a), s>> \in open
     \/ a = "governor" /\ s = UserSession /\ userClient

GroupsOf(s) == {g \in Groups : <<s, g>> \in member}

\* is_admin_or_creator, as the dialogs say at the time.
Immune(s) == {g \in Groups : <<s, g>> \in admin}

\* check_db_lead_status finds nothing, since the connection's rows are dictionaries;
\* what remains is the age of the last message, and the number of groups.
GoneQuiet(s) ==
  {g \in GroupsOf(s) : age[g] >= IF Cardinality(GroupsOf(s)) > Target THEN 1 ELSE 2}

SlipToLeave(a, s) ==
  IF a = "cleaner" THEN {GroupsOf(s) \cap round[a].list} ELSE {GoneQuiet(s) \ Immune(s)}

\* What is to be left: all that is rejected; or what has gone quiet, or so much of
\* it that the cycle is full, in an order that is left open.
ToLeave(a, s) ==
  LET quiet == GoneQuiet(s) \ Immune(s) IN
  IF a = "cleaner" THEN {(GroupsOf(s) \cap round[a].list) \ Immune(s)}
  ELSE {c \in SUBSET quiet :
          Cardinality(c) = IF Cardinality(quiet) < CycleLimit THEN Cardinality(quiet) ELSE CycleLimit}

SlipStartRound(a) ==
  /\ a \in roster.loops /\ phase[Home(a)] = "up"
  /\ round[a].todo = {} /\ round[a].session = None
  /\ round' = [round EXCEPT ![a].todo = Accounts(a)]
  /\ UNCHANGED <<roster, member, admin, age, discovered, rejected, joinsToday, leavesToday, joining,
                 joins, unbooked, leaves, promoted, incidents>>

\* A cycle begins: SMEMBERS, and the clients.
StartRound(a) ==
  /\ a \in roster.loops /\ phase[Home(a)] = "up"
  /\ round[a].todo = {} /\ round[a].session = None
  /\ a = "cleaner" => rejected # {}
  /\ round' = [round EXCEPT ![a] = [Resting EXCEPT !.todo = Accounts(a), !.list = rejected]]
  /\ UNCHANGED <<roster, member, admin, age, discovered, rejected, joinsToday, leavesToday, joining,
                 joins, unbooked, leaves, promoted, incidents>>

\* The round goes on with the next account.
Pass(a, s) == round' = [round EXCEPT ![a].todo = @ \ {s}]

MayLeave(s) == leavesToday[s] < LeaveLimit

\* get_dialogs, if the account is connected and, for the governor, below its limit
\* (or the counter cannot be read): the loop takes a list of groups with it.
Scan(a, s) ==
  /\ round[a].session = None /\ s \in round[a].todo
  /\ \/ /\ Connected(a, s)
        /\ IF a = "governor" /\ ~MayLeave(s) THEN Incident ELSE UNCHANGED incidents
        /\ \E out \in ToLeave(a, s) :
             round' = [round EXCEPT ![a].todo = @ \ {s}, ![a].leave = out,
                                    ![a].session = IF out = {} THEN None ELSE s]
        /\ promoted' = promoted \ ({a} \X {s} \X Groups)
     \/ /\ ~Connected(a, s) \/ (a = "governor" /\ ~MayLeave(s))
        /\ Pass(a, s) /\ UNCHANGED <<promoted, incidents>>
     \/ Incident /\ Pass(a, s) /\ UNCHANGED promoted
  /\ UNCHANGED <<roster, member, admin, age, discovered, rejected, joinsToday, leavesToday, joining,
                 joins, unbooked, leaves>>

\* The groups left to leave are those of `out`.
GoOn(a, out) ==
  round' = [round EXCEPT ![a].leave = out, ![a].session = IF out = {} THEN None ELSE @]

LeavesGroup(s, g) ==
  /\ member' = member \ {<<s, g>>}
  /\ admin' = admin \ {<<s, g>>}

SlipCountLeave(s) == MayLeave(s) /\ UNCHANGED <<leavesToday, incidents>>

\* Below the limit; INCR leaves_today.  Neither is done, unnoticed, if Redis fails.
CountLeave(s) ==
  \/ /\ MayLeave(s)
     /\ leavesToday' = [leavesToday EXCEPT ![s] = @ + 1]
     /\ UNCHANGED incidents
  \/ Incident /\ UNCHANGED leavesToday

CanLeave(a, s, g) == Connected(a, s) /\ <<s, g>> \in member

\* LeaveChannelRequest, with the dialog as it was when the loop looked; the radar's.
Clean(g) ==
  LET s == round["cleaner"].session IN
  /\ g \in round["cleaner"].leave
  /\ GoOn("cleaner", round["cleaner"].leave \ {g})
  /\ \/ CanLeave("cleaner", s, g) /\ LeavesGroup(s, g) /\ UNCHANGED incidents
     \/ ~CanLeave("cleaner", s, g) /\ UNCHANGED <<member, admin, incidents>>
     \/ Incident /\ UNCHANGED <<member, admin>>
  /\ UNCHANGED <<roster, age, discovered, rejected, joinsToday, leavesToday, joining, joins, unbooked,
                 leaves, promoted>>

\* The governor's: the limit or a flood error ends the round of the account, another
\* error does not.
Govern(g) ==
  LET s == round["governor"].session
      rest == round["governor"].leave \ {g}
  IN
  /\ g \in round["governor"].leave
  /\ \/ /\ CanLeave("governor", s, g) /\ GoOn("governor", rest)
        /\ LeavesGroup(s, g) /\ leaves' = [leaves EXCEPT ![s] = @ + 1] /\ CountLeave(s)
     \/ /\ ~MayLeave(s) /\ GoOn("governor", {})
        /\ UNCHANGED <<member, admin, leavesToday, leaves, incidents>>
     \/ /\ MayLeave(s)
        /\ IF CanLeave("governor", s, g) THEN Incident ELSE UNCHANGED incidents
        /\ GoOn("governor", rest) \/ GoOn("governor", {})
        /\ UNCHANGED <<member, admin, leavesToday, leaves>>
  /\ UNCHANGED <<roster, age, discovered, rejected, joinsToday, joining, joins, unbooked, promoted>>

LoopStep(a) ==
  \/ StartRound(a)
  \/ \E s \in Sessions : Scan(a, s)
  \/ a = "cleaner" /\ \E g \in Groups : Clean(g)
  \/ a = "governor" /\ \E g \in Groups : Govern(g)

\* The process of the worker w is gone.  A request that it made may have got through.
JoinUnanswered(w) ==
  LET s == task[Joiner].session IN
  /\ w = roster.radar /\ joining # None /\ task[Joiner].at = "call"
  /\ member' = member \cup {<<s, joining>>}
  /\ joins' = [joins EXCEPT ![s] = @ + 1] /\ unbooked' = [unbooked EXCEPT ![s] = @ + 1]
  /\ UNCHANGED <<admin, leaves>>

LeaveUnanswered(w) ==
  \E a \in Loops : \E g \in round[a].leave :
    LET s == round[a].session IN
    /\ w = Home(a) /\ CanLeave(a, s, g) /\ (a = "governor" => MayLeave(s))
    /\ LeavesGroup(s, g)
    /\ leaves' = IF a = "governor" THEN [leaves EXCEPT ![s] = @ + 1] ELSE leaves
    /\ UNCHANGED <<joins, unbooked>>

GroupTasksDie(w) ==
  /\ \/ UNCHANGED <<member, admin, joins, unbooked, leaves>>
     \/ JoinUnanswered(w) \/ LeaveUnanswered(w)
  /\ joining' = IF w = roster.radar THEN None ELSE joining
  /\ round' = [a \in Loops |-> IF Home(a) = w THEN Resting ELSE round[a]]
  /\ UNCHANGED <<roster, age, discovered, rejected, joinsToday, leavesToday, promoted, incidents>>

-----------------------------------------------------------------------------
\* Around the accounts.

JoinsExpire(s) ==
  /\ joinsToday[s] > 0
  /\ joinsToday' = [joinsToday EXCEPT ![s] = 0]
  /\ joins' = [joins EXCEPT ![s] = 0] /\ unbooked' = [unbooked EXCEPT ![s] = 0]
  /\ UNCHANGED <<roster, member, admin, age, discovered, rejected, leavesToday, joining, round, leaves,
                 promoted, incidents>>

LeavesExpire(s) ==
  /\ leavesToday[s] > 0
  /\ leavesToday' = [leavesToday EXCEPT ![s] = 0]
  /\ leaves' = [leaves EXCEPT ![s] = 0]
  /\ UNCHANGED <<roster, member, admin, age, discovered, rejected, joinsToday, joining, round, joins,
                 unbooked, promoted, incidents>>

\* Seven days without a message, or a message.
GroupAges(g) ==
  /\ "governor" \in roster.loops
  /\ age' \in {[age EXCEPT ![g] = 0], [age EXCEPT ![g] = IF @ = 2 THEN 2 ELSE @ + 1]}
  /\ age' # age
  /\ UNCHANGED <<roster, member, admin, discovered, rejected, joinsToday, leavesToday, joining, round,
                 joins, unbooked, leaves, promoted, incidents>>

Promote(s, g) ==
  /\ Incident
  /\ <<s, g>> \in member \ admin
  /\ admin' = admin \cup {<<s, g>>}
  /\ promoted' = promoted \cup Loops \X {s} \X {g}
  /\ UNCHANGED <<roster, member, age, discovered, rejected, joinsToday, leavesToday, joining, round,
                 joins, unbooked, leaves>>

\* A validator finds that the group has nothing to do with Forex.
Reject(g) ==
  /\ g \in roster.bad \ rejected
  /\ rejected' = rejected \cup {g}
  /\ UNCHANGED <<roster, member, admin, age, discovered, joinsToday, leavesToday, joining, round, joins,
                 unbooked, leaves, promoted, incidents>>

GroupStep ==
  \/ \E a \in Loops : LoopStep(a)
  \/ \E s \in Sessions : JoinsExpire(s) \/ LeavesExpire(s)
  \/ \E g \in Groups : GroupAges(g) \/ Reject(g) \/ \E s \in Sessions : Promote(s, g)
=============================================================================
