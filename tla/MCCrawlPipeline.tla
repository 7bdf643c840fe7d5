-------------------------- MODULE MCCrawlPipeline ---------------------------
EXTENDS CrawlPipeline, TLC

CONSTANTS a, b, j1, j2, s1, e1, v1, v2, radar, graph, search, spider, seed

MCRoutes == (radar :> {"radar", "join"} @@ graph :> {"graph", "recommendation"}
             @@ search :> {"search"} @@ spider :> {"spider"})

Plain == [run |-> {}, known |-> {}, malformed |-> {}, seeds |-> {}, found |-> {},
          links |-> [c \in Channels |-> {}], rows |-> "tuple",
          jobs |-> {}, posts |-> [c \in Channels |-> 0], queue |-> 1, expiring |-> FALSE, faults |-> 0]

\* Both scheduling loops on one channel, and one loop whose commands fail.
TwoSchedulers == [Plain EXCEPT !.run = {s1, e1}, !.known = {a}, !.jobs = {j1, j2}]
OneScheduler  == [Plain EXCEPT !.run = {s1}, !.known = {a}, !.jobs = {j1, j2}, !.faults = 1]

\* A scheduler and a validator: the watermarks and the jobs; the same with both
\* loops, and with a crash or a failure.
CrawlLoop     == [Plain EXCEPT !.run = {s1, v1}, !.known = {a}, !.jobs = {j1}, !.posts[a] = 1]
TwoLoops      == [CrawlLoop EXCEPT !.run = {s1, e1, v1}, !.posts[a] = 0]
FailingLoop   == [CrawlLoop EXCEPT !.posts[a] = 0, !.faults = 1]
LossyLoop     == [CrawlLoop EXCEPT !.faults = 1]

\* Two validators that are handed the same channel.
TwoValidators == [Plain EXCEPT !.run = {v1, v2, search, spider}, !.found = {a},
                    !.posts[a] = 1]

\* A channel that advertises another; crashes; a link that cannot be parsed.
Scan          == [Plain EXCEPT !.run = {v1, seed}, !.seeds = {a}, !.posts[a] = 2, !.faults = 1,
                    !.links = [c \in Channels |-> IF c = a THEN Channels \ {a} ELSE {}]]
BadLink       == [Scan EXCEPT !.malformed = {b}]

\* A group that is found to be about something else, and a link found in it.
BadGroup      == [Plain EXCEPT !.run = {v1, radar, seed}, !.known = {b}, !.seeds = {b},
                    !.found = {a}, !.posts[b] = 1]

\* Services that find the same channels at once.
Discovery     == [Plain EXCEPT !.run = {radar, graph}, !.known = {a}, !.found = {a, b},
                    !.queue = 2, !.faults = 1]
Searches      == [Plain EXCEPT !.run = {search, spider, seed}, !.found = {a}, !.seeds = {a},
                    !.expiring = TRUE, !.faults = 1]

CrawlSetups == {TwoSchedulers, OneScheduler, LossyLoop, TwoLoops, TwoValidators, Scan, BadLink,
                BadGroup, Discovery, Searches}
LiveSetups  == {FailingLoop}
DueSetups   == {[CrawlLoop EXCEPT !.rows = "dict", !.posts[a] = 0]}
=============================================================================
