--------------------------- MODULE LinkValidation ---------------------------
(***************************************************************************)
(* The validator: it takes the next entry of the queues, decides what the  *)
(* channel is, and writes the verdict down.                                *)
(*                                                                         *)
(* process_link makes all its decisions from the page, the entity and the  *)
(* posts it fetched; what follows is a fixed list of writes, to three      *)
(* stores, one by one.  An inspection therefore ends in a plan, and every  *)
(* later step carries out the head of the plan.  Which plan the texts lead *)
(* to is left open.                                                        *)
(***************************************************************************)
EXTENDS LinkDiscovery

CONSTANT Validators

ASSUME ValidationAssumption ==
  /\ Validators \subseteq Processes /\ Validators \cap (Producers \cup {SeedWorker}) = {}

VARIABLE val    \* what each validator is doing

ValidatorAt == {"idle", "checkout", "lookup", "cache", "gate", "inspect", "writes"}

\* The writes of process_link.
Writes == {"blacklist", "reject", "accept", "stub", "extract", "shun", "save",
           "advance", "cacheId", "cacheName", "cacheMark", "complete", "log",
           "fail", "punish", "cool"}

\* mark: where the fetch began; low, top: the posts fetched are low + 1 .. top.
ValidatorState ==
  [at : ValidatorAt, job : Jobs \cup {None}, ch : Channels \cup {None},
   src : Channels \cup {None}, mark : Mark, low : Mark, top : Mark,
   plan : Seq(Writes), links : SUBSET Channels]

IdleValidator == [at |-> "idle", job |-> None, ch |-> None, src |-> None, mark |-> 0,
                  low |-> 0, top |-> 0, plan |-> <<>>, links |-> {}]

ValidationTypeOK == val \in [Validators -> ValidatorState]
ValidationInit   == val = [v \in Validators |-> IdleValidator]

Busy(v)      == val[v].at # "idle"
ValAt(v, where) == val[v].at = where
\* The head of the plan, when no link of the post before it is in hand.
Now(v, what) == ValAt(v, "writes") /\ Empty(v) /\ Head(val[v].plan) = what

End(v) == /\ val' = [val EXCEPT ![v] = IdleValidator]
          /\ handled' = handled \cup {val[v].ch}

\* Set out to write `plan`; what none of its writes needs is forgotten.
Planned(v, plan, low, top, links) ==
  LET needs(w) == \E i \in 1..Len(plan) : plan[i] = w IN
  [val[v] EXCEPT !.at = "writes", !.src = None, !.plan = plan,
     !.mark = IF needs("save") \/ needs("cacheMark") THEN @ ELSE 0,
     !.low = IF needs("save") THEN low ELSE 0,
     !.top = IF needs("save") THEN top ELSE 0,
     !.links = IF needs("extract") THEN links ELSE {}]

\* Carry out `plan`, which may be empty.
Follow(v, plan) ==
  IF plan = <<>> THEN End(v)
  ELSE val' = [val EXCEPT ![v] = Planned(v, plan, 0, 0, {})] /\ UNCHANGED handled

Done(v) ==
  IF Len(val[v].plan) = 1 THEN End(v)
  ELSE val' = [val EXCEPT ![v].plan = Tail(@)] /\ UNCHANGED handled

-----------------------------------------------------------------------------
\* The plans.

Malformed     == <<"blacklist", "fail">>
Blacklisted   == <<"reject", "fail">>
BadSource     == <<"blacklist", "reject">>
InCoolDown    == <<>>

\* HTTP pre-filter, or the entity: not there, spam; neither group nor channel.
Refused       == {<<"blacklist", "reject">>, <<"blacklist">>}
\* process_http_fallback: inactive but in the niche or not, or hardly Arabic.
\* Any other channel makes it fail on a name it does not define.
FromWebPage   == {<<"accept">>, <<"reject">>, <<"stub", "reject">>}
\* The exception handler of process_link; the second is for a flood wait.
Failure       == {<<"fail", "punish">>, <<"fail", "cool">>}

NoPosts       == <<"reject">>
UpToDate      == <<"complete", "cacheMark">>
\* Fewer than 3 of the fetched posts are of the last 72 hours.
Inactive      == {<<"accept", "complete", "cacheMark">>, <<"reject", "fail">>}
Group         == {<<"stub", "reject", "shun", "fail">>, <<"stub", "accept", "extract">>}
Disqualified  == {<<"stub", "extract", "blacklist", "reject">>,
                  <<"stub", "extract", "reject">>, <<"stub", "extract", "blacklist">>}
\* Slip: the watermark moves on before the lead is saved.
SlipSaved     == <<"stub", "extract", "advance", "cacheId", "cacheName", "save",
                   "complete", "advance", "cacheId", "log">>
Saved         == <<"stub", "extract", "save", "advance", "cacheId", "cacheName",
                   "complete", "advance", "cacheId", "log">>
\* What remains of it when the lead is not saved: the same, but by the name only,
\* as there is no id.
Unsaved       == <<"advance", "cacheName", "complete", "cacheName", "log">>

\* What the posts fetched, if there are any, may lead to.
Judged(mark, low, top) ==
  IF top > low      THEN Inactive \cup Group \cup Disqualified \cup {Saved}
  ELSE IF mark > 0  THEN {UpToDate}
                    ELSE Inactive \cup {NoPosts}

\* The writes outside a try block of their own.  What the judgement between the
\* links and the save raises counts with "extract".
Unguarded == {"blacklist", "reject", "accept", "stub", "extract", "shun", "log"}

-----------------------------------------------------------------------------
\* From the queue to the inspection.

\* BLPOP: the first entry of the first list that has one; it is in no store now.
Pop(v) ==
  /\ ValAt(v, "idle")
  /\ \E q \in QueueNames :
       /\ queues[q] # <<>>
       /\ \A r \in QueueNames : Rank[r] < Rank[q] => queues[r] = <<>>
       /\ queues' = [queues EXCEPT ![q] = Tail(@)]
       /\ val' = [val EXCEPT ![v] = LET p == Head(queues[q]) IN
            [IdleValidator EXCEPT !.at = "checkout", !.job = p.job, !.ch = p.channel,
                                  !.src = p.source, !.mark = p.mark]]
  /\ UNCHANGED <<setup, database, marks, cache, leader, posts, observed, faults, discovery>>

\* mark_job_running, whatever the status is, or nothing if it fails; then the
\* link is parsed.
Checkout(v) ==
  /\ ValAt(v, "checkout")
  /\ \/ jobs' = JobSet(val[v].job, "running") /\ UNCHANGED faults
     \/ Fault /\ UNCHANGED jobs
  /\ IF val[v].ch \in setup.malformed THEN Follow(v, Malformed)
     ELSE /\ val' = [val EXCEPT ![v].at = IF val[v].mark = 0 THEN "lookup" ELSE "gate"]
          /\ UNCHANGED handled
  /\ UNCHANGED <<setup, leads, blacklist, redis, posts, read, cut, unsaved, pushes, dropped, lapsed,
                 redisFailed, discovery>>

\* get_watermark by name: the cache, or else the table, or else 0.
LookupMark(v) ==
  /\ ValAt(v, "lookup")
  /\ LET c == val[v].ch
         cached == cache[c]["name"]
     IN \/ /\ val' = [val EXCEPT
                ![v].mark = IF cached # NoMark THEN cached ELSE leads[c].mark,
                ![v].at = IF cached = NoMark /\ leads[c].status # "none" THEN "cache"
                                                                       ELSE "gate"]
           /\ UNCHANGED faults
        \/ Fault /\ val' = [val EXCEPT ![v].at = "gate"]
  /\ UNCHANGED <<setup, database, redis, posts, observed, discovery>>

CacheMark(v) ==
  /\ ValAt(v, "cache")
  /\ cache' = [cache EXCEPT ![val[v].ch]["name"] = val[v].mark]
  /\ val' = [val EXCEPT ![v].at = "gate"]
  /\ UNCHANGED <<setup, database, queues, marks, leader, posts, observed, faults, discovery>>

\* Slip: nobody asks for the blacklist.
SlipGate(v) ==
  /\ ValAt(v, "gate")
  /\ IF val[v].src \in badGroups THEN Follow(v, BadSource)
     ELSE \/ val' = [val EXCEPT ![v].at = "inspect"] /\ UNCHANGED handled
          \/ val[v].job = None /\ leads[val[v].ch].scanned /\ Follow(v, InCoolDown)
  /\ UNCHANGED <<setup, database, redis, posts, read, cut, unsaved, pushes, dropped, lapsed,
                 redisFailed, faults, discovery>>

\* is_blacklisted, rejected_groups_set, check_rescan_cooldown.  Whether the last
\* scan of a channel is recent is left open.
Gate(v) ==
  /\ ValAt(v, "gate")
  /\ LET c == val[v].ch IN
       IF c \in blacklist THEN Follow(v, Blacklisted)
       ELSE IF val[v].src \in badGroups THEN Follow(v, BadSource)
       ELSE \/ val' = [val EXCEPT ![v].at = "inspect"] /\ UNCHANGED handled
            \/ val[v].job = None /\ leads[c].scanned /\ Follow(v, InCoolDown)
  /\ UNCHANGED <<setup, database, redis, posts, read, cut, unsaved, pushes, dropped, lapsed,
                 redisFailed, faults, discovery>>

\* No session is free, or the entity cannot be resolved: the link is let go.
GiveUp(v) ==
  /\ ValAt(v, "inspect")
  /\ Fault
  /\ val' = [val EXCEPT ![v] = IdleValidator]
  /\ dropped' = dropped \cup {val[v].ch}
  /\ UNCHANGED <<setup, database, redis, posts, read, cut, unsaved, pushes, handled, lapsed,
                 redisFailed, discovery>>

\* process_http_fallback inserts a stub and then fails on a name it does not
\* define: the inspection goes on without the web page.
WebPageFails(v) ==
  /\ ValAt(v, "inspect")
  /\ leads' = [leads EXCEPT ![val[v].ch] = Stubbed(@)]
  /\ UNCHANGED <<setup, jobs, blacklist, redis, posts, observed, faults, discovery, val>>

\* A verdict before any post was fetched.
Dismiss(v, plan) ==
  /\ ValAt(v, "inspect")
  /\ Follow(v, plan)
  /\ UNCHANGED <<setup, database, redis, posts, read, cut, unsaved, pushes, dropped, lapsed,
                 redisFailed, faults, discovery>>

\* The newest `budget` posts after the mark, and what they lead to.
Fetch(v, budget) ==
  /\ ValAt(v, "inspect")
  /\ LET c   == val[v].ch
         top == Higher(posts[c], val[v].mark)
         low == Higher(top - budget, val[v].mark)
     IN \E plan \in Judged(val[v].mark, low, top) :
          val' = [val EXCEPT ![v] = Planned(v, plan, low, top, setup.links[c])]
  /\ UNCHANGED <<store, discovery>>

\* A shutdown: execute_request returns None, which reads as "no posts".
FetchNothing(v) ==
  /\ ValAt(v, "inspect")
  /\ Fault
  /\ LET m == val[v].mark IN
       \E plan \in Judged(m, m, m) :
         val' = [val EXCEPT ![v] = Planned(v, plan, m, m, {})]
  /\ UNCHANGED <<setup, database, redis, posts, observed, discovery>>

-----------------------------------------------------------------------------
\* The writes.

\* add_to_blacklist.
Blacklist(v) ==
  /\ Now(v, "blacklist")
  /\ blacklist' = blacklist \cup {val[v].ch}
  /\ leads' = [leads EXCEPT ![val[v].ch] = Rejected(@)]
  /\ Done(v)
  /\ UNCHANGED <<setup, jobs, redis, posts, read, cut, unsaved, pushes, dropped, lapsed,
                 redisFailed, faults, discovery>>

\* upsert_lead.
Upsert(v) ==
  /\ Now(v, "reject") \/ Now(v, "punish") \/ Now(v, "accept")
  /\ leads' = [leads EXCEPT ![val[v].ch] =
                 Upserted(@, IF Head(val[v].plan) = "accept" THEN "new" ELSE "rejected")]
  /\ Done(v)
  /\ UNCHANGED <<setup, jobs, blacklist, redis, posts, read, cut, unsaved, pushes, dropped, lapsed,
                 redisFailed, faults, discovery>>

\* insert_stub_lead of the channel itself.
Stub(v) ==
  /\ Now(v, "stub")
  /\ leads' = [leads EXCEPT ![val[v].ch] = Stubbed(@)]
  /\ Done(v)
  /\ UNCHANGED <<setup, jobs, blacklist, redis, posts, read, cut, unsaved, pushes, dropped, lapsed,
                 redisFailed, faults, discovery>>

\* The next link or forward in the fetched posts is taken in hand.
Extract(v, c, way) ==
  /\ Now(v, "extract")
  /\ c \in val[v].links /\ way \in {"scan", "forward"}
  /\ hand' = [hand EXCEPT ![v] = HandOf(way, c, val[v].ch)]
  /\ val' = [val EXCEPT ![v].links = @ \ {c}]
  /\ UNCHANGED <<store, marked>>

Extracted(v) ==
  /\ Now(v, "extract")
  /\ val[v].links = {}
  /\ Done(v)
  /\ UNCHANGED <<setup, database, redis, posts, read, cut, unsaved, pushes, dropped, lapsed,
                 redisFailed, faults, discovery>>

\* A group that is not about forex: rejected_groups_set.
Shun(v) ==
  /\ Now(v, "shun")
  /\ badGroups' = badGroups \cup {val[v].ch}
  /\ Done(v)
  /\ UNCHANGED <<setup, database, queues, seen, counted, spidered, cache, leader, posts,
                 read, cut, unsaved, pushes, dropped, lapsed, redisFailed, faults, discovery>>

\* upsert_lead_v5, and the next next_crawl_at with it.
Save(v) ==
  /\ Now(v, "save")
  /\ \E status \in {"new", "rejected"} :
       leads' = [leads EXCEPT ![val[v].ch] = [Upserted(@, status) EXCEPT !.due = FALSE]]
  /\ read' = [read EXCEPT ![val[v].ch] = @ \cup ((val[v].low + 1)..val[v].top)]
  /\ cut' = [cut EXCEPT ![val[v].ch] = @ \cup ((val[v].mark + 1)..val[v].low)]
  /\ Done(v)
  /\ UNCHANGED <<setup, jobs, blacklist, redis, posts, unsaved, pushes, dropped, lapsed,
                 redisFailed, faults, discovery>>

\* upsert_lead_v5 swallows the error of its statement and returns None.  Snapshot
\* and contacts are left out, but the crawl counts as a success: the watermark
\* moves past posts that no lead has.
SaveFails(v) ==
  /\ Now(v, "save")
  /\ Fault
  /\ unsaved' = [unsaved EXCEPT ![val[v].ch] = @ \cup ((val[v].mark + 1)..val[v].top)]
  /\ val' = [val EXCEPT ![v].plan = Unsaved]
  /\ UNCHANGED <<setup, database, redis, posts, read, cut, pushes, handled, dropped, lapsed,
                 redisFailed, discovery>>

\* update_watermark in the table, which never goes back; an error is logged.
AdvanceMark(v) ==
  /\ Now(v, "advance")
  /\ \/ /\ leads' = [leads EXCEPT ![val[v].ch].mark = Higher(@, val[v].top)]
        /\ UNCHANGED faults
     \/ Fault /\ UNCHANGED leads
  /\ Done(v)
  /\ UNCHANGED <<setup, jobs, blacklist, redis, posts, read, cut, unsaved, pushes, dropped, lapsed,
                 redisFailed, discovery>>

\* update_watermark in the cache: the last one wins, higher or lower; an error
\* is logged.
CacheSet(v, what, k, mark) ==
  /\ Now(v, what)
  /\ \/ /\ cache' = IF mark = 0 THEN cache ELSE [cache EXCEPT ![val[v].ch][k] = mark]
        /\ UNCHANGED faults
     \/ Fault /\ UNCHANGED cache
  /\ Done(v)
  /\ UNCHANGED <<setup, database, queues, marks, leader, posts, read, cut, unsaved, pushes, dropped,
                 lapsed, redisFailed, discovery>>

CacheAdvanced(v) == \/ CacheSet(v, "cacheId", "id", val[v].top)
                    \/ CacheSet(v, "cacheName", "name", val[v].top)
                    \/ CacheSet(v, "cacheMark", "name", val[v].mark)

\* An error ends record_crawl_result, and its update_watermark with it.
AfterReport(plan) ==
  IF Head(plan) = "fail" THEN Tail(plan)
  ELSE IF "log" \in {plan[i] : i \in 1..Len(plan)} THEN <<"log">> ELSE <<>>

\* Slip: a status that the table does not know.
SlipCloseJob(v) ==
  /\ Now(v, "complete") \/ Now(v, "fail")
  /\ jobs' = JobSet(val[v].job, "done")
  /\ Done(v)
  /\ UNCHANGED <<setup, leads, blacklist, redis, posts, read, cut, unsaved, pushes, dropped, lapsed,
                 redisFailed, faults, discovery>>

\* record_crawl_result, for a crawl job only: its row, whatever its status is by now.  Failures
\* are counted in the lead whose id is the channel's name: in none.
CloseJob(v) ==
  /\ Now(v, "complete") \/ Now(v, "fail")
  /\ \/ /\ jobs' = JobSet(val[v].job, IF Head(val[v].plan) = "complete" THEN "completed"
                                                                      ELSE "failed")
        /\ Done(v)
        /\ UNCHANGED faults
     \/ /\ Fault
        /\ Follow(v, AfterReport(val[v].plan))
        /\ UNCHANGED jobs
  /\ UNCHANGED <<setup, leads, blacklist, redis, posts, read, cut, unsaved, pushes, dropped, lapsed,
                 redisFailed, discovery>>

\* A flood wait: last_scan is set, so that the link is not taken up again soon.
CoolOff(v) ==
  /\ Now(v, "cool")
  /\ leads' = [leads EXCEPT ![val[v].ch].scanned = leads[val[v].ch].status # "none"]
  /\ Done(v)
  /\ UNCHANGED <<setup, jobs, blacklist, redis, posts, read, cut, unsaved, pushes, dropped, lapsed,
                 redisFailed, faults, discovery>>

\* upsert_discovery_source, insert_post: nothing that is modelled.
Log(v) ==
  /\ Now(v, "log")
  /\ Done(v)
  /\ UNCHANGED <<setup, database, redis, posts, read, cut, unsaved, pushes, dropped, lapsed,
                 redisFailed, faults, discovery>>

\* A statement or the judgement raises: the handler takes over.
Raise(v, plan) ==
  /\ ValAt(v, "writes") /\ Head(val[v].plan) \in Unguarded
  /\ Fault
  /\ val' = [val EXCEPT ![v] = Planned(v, plan, 0, 0, {})]
  /\ LetGo(v)
  /\ dropped' = IF Claimed(v) THEN dropped \cup {hand[v].ch} ELSE dropped
  /\ UNCHANGED <<setup, database, redis, posts, read, cut, unsaved, pushes, handled, lapsed,
                 redisFailed, marked>>

\* The process dies and starts again: what it had popped is gone.
ValidatorCrash(v) ==
  /\ Busy(v)
  /\ Fault
  /\ val' = [val EXCEPT ![v] = IdleValidator]
  /\ LetGo(v)
  /\ dropped' = dropped \cup {val[v].ch} \cup IF Claimed(v) THEN {hand[v].ch} ELSE {}
  /\ UNCHANGED <<setup, database, redis, posts, read, cut, unsaved, pushes, handled, lapsed,
                 redisFailed, marked>>

ValidatorStep(v) ==
  \/ Pop(v) \/ Checkout(v) \/ LookupMark(v) \/ CacheMark(v) \/ Gate(v) \/ GiveUp(v)
  \/ \E plan \in Refused \cup FromWebPage \cup Failure : Dismiss(v, plan)
  \/ WebPageFails(v) \/ FetchNothing(v)
  \/ \E budget \in Budgets : Fetch(v, budget)
  \/ Blacklist(v) \/ Upsert(v) \/ Stub(v)
  \/ \E c \in Channels, way \in {"scan", "forward"} : Extract(v, c, way)
  \/ HandStep(v) /\ UNCHANGED val
  \/ Extracted(v) \/ Shun(v) \/ Save(v) \/ SaveFails(v)
  \/ AdvanceMark(v) \/ CacheAdvanced(v) \/ CloseJob(v) \/ CoolOff(v)
  \/ Log(v) \/ \E plan \in Failure : Raise(v, plan)
  \/ ValidatorCrash(v)
=============================================================================
