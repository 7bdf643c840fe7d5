--------------------------- MODULE LinkDiscovery ----------------------------
(***************************************************************************)
(* How links get into the validation queues.  Radar, the graph expander,   *)
(* the searches, the spider, the seed intake and the validator itself each *)
(* follow a route of single Redis commands and SQL statements: ask whether *)
(* the link is known, claim it, push it, and insert a stub of the lead.    *)
(* The routes differ in their order, and in what they call known.          *)
(***************************************************************************)
EXTENDS CrawlStore

CONSTANTS
  Producers,    \* the services that only discover
  Routes,       \* [Producers -> SUBSET Ways]: the routes each service has
  SeedWorker    \* seed_intake_worker

Ways == {"radar", "scan", "forward", "graph", "recommendation", "search", "spider", "join"}

ASSUME DiscoveryAssumption ==
  /\ Producers \subseteq Processes
  /\ Routes \in [Producers -> SUBSET Ways]
  /\ SeedWorker \in Processes \ Producers

VARIABLES
  hand,         \* the link each service has in its hands, and how far it is
  marked        \* seeds that the worker marked processed and nobody committed

discovery == <<hand, marked>>

\* A channel that radar hears of in a group.
RadarRoute == <<"check", "claim", "push", "stub">>
\* A mention or link in a post that the validator reads, and a forwarded post.
ScanRoute == <<"check", "claim", "tally", "push", "stub">>
ForwardRoute == <<"stub", "tally", "check", "claim", "push">>
\* An edge that the graph expander comes upon, and a recommendation of Telegram.
GraphRoute == <<"stub", "count", "check", "claim", "push">>
RecommendationRoute == <<"stub", "check", "tally", "claim", "push">>
\* The directory, global and post searches of the scavenger.
SearchRoute == <<"count", "push">>
\* The web discovery.
SpiderRoute == <<"reserve", "tally", "push">>
\* Radar has joined a group that it popped from discovered_groups.
JoinRoute == <<"push">>

Route == [way \in Ways |->
  CASE way = "radar"          -> RadarRoute
    [] way = "scan"           -> ScanRoute
    [] way = "forward"        -> ForwardRoute
    [] way = "graph"          -> GraphRoute
    [] way = "recommendation" -> RecommendationRoute
    [] way = "search"         -> SearchRoute
    [] way = "spider"         -> SpiderRoute
    [] way = "join"           -> JoinRoute]

HandState == [way : Ways \cup {None}, step : 1..5, ch : Channels \cup {None},
              src : Channels \cup {None}]
EmptyHand == [way |-> None, step |-> 1, ch |-> None, src |-> None]

DiscoveryTypeOK ==
  /\ hand \in [Processes -> HandState]
  /\ marked \subseteq Channels

DiscoveryInit ==
  /\ hand = [p \in Processes |-> EmptyHand]
  /\ marked = {}

Empty(p) == hand[p].way = None
Doing(p, what) == ~Empty(p) /\ Route[hand[p].way][hand[p].step] = what

HandOf(way, c, source) == [way |-> way, step |-> 1, ch |-> c, src |-> source]

LetGo(p) == hand' = [hand EXCEPT ![p] = EmptyHand]
NextStage(p) ==
  IF hand[p].step = Len(Route[hand[p].way]) THEN LetGo(p)
                                            ELSE hand' = [hand EXCEPT ![p].step = @ + 1]

\* The source names a group of rejected_groups_set only if the payload holds it
\* as that set does, without an "@": the graph expander and the forwards add one.
SourceOf(p) == IF hand[p].way \in {"radar", "scan", "join"} THEN hand[p].src ELSE None

-----------------------------------------------------------------------------
\* A service comes upon a link to c.  The graph expander looks at leads only.
FindLink(p, way, c, source) ==
  /\ Empty(p) /\ Queued < setup.queue
  /\ c # source
  /\ way \in {"graph", "recommendation"} => source # None /\ leads[source].status \notin {"none", "rejected"}
  /\ hand' = [hand EXCEPT ![p] = HandOf(way, c, source)]
  /\ UNCHANGED <<store, marked>>

\* SISMEMBER seen_channels: a known link is not pushed; radar and the
\* validator's scan still insert the stub.
CheckSeen(p) ==
  /\ Doing(p, "check")
  /\ IF hand[p].ch \notin seen THEN NextStage(p)
     ELSE IF hand[p].way \in {"radar", "scan"} THEN hand' = [hand EXCEPT ![p].step = Len(Route[hand[p].way])]
     ELSE LetGo(p)
  /\ UNCHANGED <<store, marked>>

\* SADD seen_channels, whatever it returns.
ClaimSeen(p) ==
  /\ Doing(p, "claim")
  /\ seen' = seen \cup {hand[p].ch}
  /\ NextStage(p)
  /\ UNCHANGED <<setup, database, queues, counted, spidered, badGroups, cache, leader,
                 posts, observed, faults, marked>>

\* record_candidate_discovery: INCR, and whoever gets 1 goes on.
CountFirst(p) ==
  /\ Doing(p, "count")
  /\ counted' = counted \cup {hand[p].ch}
  /\ IF hand[p].ch \in counted THEN LetGo(p) ELSE NextStage(p)
  /\ UNCHANGED <<setup, database, queues, seen, spidered, badGroups, cache, leader,
                 posts, observed, faults, marked>>

\* record_candidate_discovery whose answer is not looked at.
Tally(p) ==
  /\ Doing(p, "tally")
  /\ counted' = counted \cup {hand[p].ch}
  /\ NextStage(p)
  /\ UNCHANGED <<setup, database, queues, seen, spidered, badGroups, cache, leader,
                 posts, observed, faults, marked>>

\* SET NX spider:enqueued, for a day.
Reserve(p) ==
  /\ Doing(p, "reserve")
  /\ spidered' = spidered \cup {hand[p].ch}
  /\ IF hand[p].ch \in spidered THEN LetGo(p) ELSE NextStage(p)
  /\ UNCHANGED <<setup, database, queues, seen, counted, badGroups, cache, leader,
                 posts, observed, faults, marked>>

\* Slip: a link is let go while the queues are not empty.
SlipPushLink(p, q) ==
  /\ Doing(p, "push")
  /\ IF Queued = 0 THEN PushRight(q, LinkTo(hand[p].ch, SourceOf(p))) ELSE UNCHANGED queues
  /\ NextStage(p)
  /\ UNCHANGED <<setup, database, marks, cache, leader, posts, observed, faults, marked>>

PushLink(p, q) ==
  /\ Doing(p, "push")
  /\ PushRight(q, LinkTo(hand[p].ch, SourceOf(p)))
  /\ NextStage(p)
  /\ UNCHANGED <<setup, database, marks, cache, leader, posts, observed, faults, marked>>

\* insert_stub_lead, insert_or_get_target_lead.
StubLink(p) ==
  /\ Doing(p, "stub")
  /\ leads' = [leads EXCEPT ![hand[p].ch] = Stubbed(@)]
  /\ NextStage(p)
  /\ UNCHANGED <<setup, jobs, blacklist, redis, posts, observed, faults, marked>>

\* The key that p has set keeps others from the link, which p has not pushed.
Claimed(p) ==
  /\ ~Empty(p)
  /\ \E i \in 1..(hand[p].step - 1) :
       Route[hand[p].way][i] \in {"claim", "count", "tally", "reserve"}
  /\ \A i \in 1..(hand[p].step - 1) : Route[hand[p].way][i] # "push"

\* The service dies, or the next command raises: it starts again without the link.
LoseLink(p) ==
  /\ ~Empty(p)
  /\ Fault
  /\ LetGo(p)
  /\ dropped' = IF Claimed(p) THEN dropped \cup {hand[p].ch} ELSE dropped
  /\ UNCHANGED <<setup, database, redis, posts, read, cut, unsaved, pushes, handled, lapsed,
                 redisFailed, marked>>

-----------------------------------------------------------------------------
\* Seed intake.

\* One seed of the batch: a script checks, claims and pushes at once; then the
\* row is marked, in a transaction that nobody commits.
EnqueueSeed(c, q) ==
  /\ c \in setup.seeds \ marked
  /\ seen' = seen \cup {c}
  /\ IF c \in seen THEN UNCHANGED queues ELSE PushRight(q, LinkTo(c, None))
  /\ marked' = marked \cup {c}
  /\ UNCHANGED <<setup, database, counted, spidered, badGroups, cache, leader, posts,
                 observed, faults, hand>>

\* The script raises: the seed stays as it is.  Or the worker dies or loses its
\* connection: the marks are gone with the transaction.
SeedFault ==
  /\ Fault
  /\ marked' = {}
  /\ UNCHANGED <<setup, database, redis, posts, observed, hand>>

-----------------------------------------------------------------------------
\* The 24 hours of a spider:enqueued key pass, or the 30 days of a count.
ReserveExpires(c) ==
  /\ setup.expiring /\ c \in spidered
  /\ spidered' = spidered \ {c}
  /\ UNCHANGED <<setup, database, queues, seen, counted, badGroups, cache, leader,
                 posts, observed, faults, discovery>>

CountExpires(c) ==
  /\ setup.expiring /\ c \in counted
  /\ counted' = counted \ {c}
  /\ UNCHANGED <<setup, database, queues, seen, spidered, badGroups, cache, leader,
                 posts, observed, faults, discovery>>

\* One step with the link in the hands of p.
HandStep(p) ==
  \/ CheckSeen(p) \/ ClaimSeen(p) \/ CountFirst(p) \/ Tally(p) \/ Reserve(p)
  \/ \E q \in Tiers : PushLink(p, q)
  \/ StubLink(p)

DiscoveryStep(p) ==
  \/ \E way \in Routes[p], c \in setup.found, source \in setup.known \cup {None} :
       FindLink(p, way, c, source)
  \/ HandStep(p)
  \/ LoseLink(p)

SeedStep ==
  \/ \E c \in Channels, q \in Tiers : EnqueueSeed(c, q)
  \/ SeedFault
=============================================================================
