-------------------------- MODULE MCAccountWorkers ---------------------------
EXTENDS AccountWorkers, TLC

CONSTANTS ann, bob, v, e, m, user, own, other, t1, t2, h1, h2, g1, g2

MCPrimary == (v :> own @@ e :> other @@ m :> own)
MCClients == (v :> {user, own, other} @@ e :> {other} @@ m :> {own, other})

\* The replies alone: one worker that asks for nothing.
Alone(n) == [run |-> {v}, on |-> [t \in Tasks |-> v], ask |-> [t \in Tasks |-> {}], upsets |-> n]

Quiet == [rows |-> 0, contact |-> [r \in Rows |-> ann], known |-> {}, quiet |-> {},
          fallback |-> FALSE, unreachable |-> {}, delay |-> 1,
          writes |-> 0, failures |-> 0, switches |-> 0]

Generic == [want |-> None, outbound |-> FALSE]

\* Two rows of a contact who writes twice.
Answers  == [Quiet EXCEPT !.rows = 2, !.writes = 2, !.fallback = TRUE, !.known = {1}]
Crashes  == [Answers EXCEPT !.rows = 1, !.writes = 1]
Fails    == [Answers EXCEPT !.rows = 1, !.failures = 1]
\* A contact that cannot be reached is in the way of another one.
Poison   == [Answers EXCEPT !.contact[1] = bob, !.writes = 1, !.unreachable = {bob}]
\* Follow-ups.
Silence  == [Quiet EXCEPT !.rows = 2, !.contact[1] = bob, !.writes = 1]
Dies     == [Silence EXCEPT !.rows = 1]
Blind    == [Silence EXCEPT !.unreachable = {ann}]
Errors   == [Silence EXCEPT !.rows = 1, !.failures = 2, !.switches = 1]
Stops    == [Silence EXCEPT !.switches = 1]
Hurry    == [Silence EXCEPT !.delay = 0, !.fallback = TRUE, !.contact[1] = ann]

\* Workers on the accounts; v turns to the account of e when its own fails.
Pooled(run, w, ask1, ask2, n) ==
  [run |-> run, on |-> (t1 :> v @@ t2 :> w), ask |-> (t1 :> ask1 @@ t2 :> ask2), upsets |-> n]

Borrows  == Pooled({v, e}, e, {Generic}, {}, 2)
Together == Pooled({v}, v, {Generic}, {Generic}, 1)
Prefers  == Pooled({v, e}, e, {[want |-> user, outbound |-> TRUE]}, {[want |-> own, outbound |-> FALSE]}, 1)

\* Memberships.
Apart == [radar |-> m, joiner |-> None, loops |-> {}, links |-> {}, member |-> {}, admin |-> {},
          bad |-> {}, incidents |-> 0]
Radio(ask, n) == [run |-> {m}, on |-> [t \in Tasks |-> m], ask |-> (t1 :> ask @@ t2 :> {}), upsets |-> n]
Asks(s) == [want |-> s, outbound |-> FALSE]

\* Two accounts of the radar join, one in place of the other.
Joins    == [Apart EXCEPT !.joiner = t1, !.links = {g1, g2}, !.incidents = 1]
Rotates  == Radio({Asks(own), Asks(other)}, 2)
\* A group is joined, rejected, left, and joined by another account.
Rejects  == [Apart EXCEPT !.joiner = t1, !.loops = {"cleaner"}, !.links = {g1}, !.bad = {g1, g2},
                          !.member = {<<own, g1>>, <<own, g2>>}, !.admin = {<<own, g2>>},
                          !.incidents = 1]
Calm     == Radio({Asks(own)}, 1)
\* The validator, on two accounts.
Governs  == [Apart EXCEPT !.loops = {"governor"}, !.admin = {<<user, g2>>}, !.incidents = 1,
                          !.member = {<<own, g1>>, <<own, g2>>, <<user, g2>>}]

MCDeployments ==
  {<<Alone(0), x, Apart>> : x \in {Answers, Fails, Poison, Silence, Blind, Errors, Stops, Hurry}}
    \cup {<<Alone(1), x, Apart>> : x \in {Crashes, Dies}}
    \cup {<<x, Quiet, Apart>> : x \in {Borrows, Together, Prefers}}
    \cup {<<Rotates, Quiet, Joins>>, <<Calm, Quiet, Rejects>>, <<Alone(0), Quiet, Governs>>}
MCPools == {x[1] : x \in MCDeployments}
MCScenes == {x[2] : x \in MCDeployments}
MCRosters == {x[3] : x \in MCDeployments}
=============================================================================
