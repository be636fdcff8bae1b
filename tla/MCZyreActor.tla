----------------------------- MODULE MCZyreActor -----------------------------
(***************************************************************************)
(* Values of the constants for the run of ZyreActor.                       *)
(***************************************************************************)
EXTENDS ZyreActor

CONSTANTS p1, p2

MCOrder == <<p1, p2>>
MCTimeout == {-1, 0}

Apart == [p \in Peer |-> IF p = p1 THEN 0 ELSE 1]
Together == [p \in Peer |-> 0]

NoSteps == [k \in BudgetKinds |-> 0]

Quietly == [steps |-> NoSteps, prompt |-> FALSE, bucket |-> Apart, place |-> Apart,
            full |-> {}, calls |-> {}, says |-> {}, cast |-> {}]

\* The life of a node: configured, started and stopped in any order.
Lifecycle ==
    [Quietly EXCEPT
        !.steps["config"] = 4, !.cast = {p1},
        !.calls = {"SET PORT", "SET ENDPOINT", "GOSSIP", "GOSSIP UNPUBLISH",
                   "REQUIRE PEER", "SET OTHER", "START", "STOP", "$TERM"}]

\* Commands, queries and messages without frames.
Commands ==
    [Quietly EXCEPT !.steps = [NoSteps EXCEPT !["group"] = 2, !["query"] = 2, !["empty"] = 1],
                    !.calls = Calls \cup Posts]

\* A peer that says all sorts of things, to an application that asks.
Talk ==
    [Quietly EXCEPT
        !.steps = [NoSteps EXCEPT !["config"] = 2, !["query"] = 1, !["discover"] = 1,
                                  !["message"] = 2],
        !.calls = {"GOSSIP", "START", "GROUP PEERS"}, !.says = Ids, !.cast = {p1}]

\* A peer whose mailbox is full, and a peer at the endpoint of another.
Cut ==
    [Quietly EXCEPT
        !.steps = [NoSteps EXCEPT !["config"] = 1, !["group"] = 1, !["query"] = 1,
                                  !["discover"] = 1, !["message"] = 2],
        !.full = {p1}, !.calls = {"START", "WHISPER", "PEER ENDPOINT", "PEER HEADER"},
        !.says = {"HELLO", "PING"}, !.cast = {p1}]
Purge ==
    [Quietly EXCEPT
        !.steps = [NoSteps EXCEPT !["config"] = 1, !["discover"] = 1, !["message"] = 3],
        !.place = Together, !.calls = {"START"}, !.says = {"HELLO"}, !.cast = {p1, p2}]

\* A group with elections, whose messages find a mailbox full.
Contest ==
    [Quietly EXCEPT
        !.steps = [NoSteps EXCEPT !["config"] = 1, !["group"] = 2, !["message"] = 3],
        !.full = {p1}, !.calls = {"START", "SET CONTEST", "JOIN"},
        !.says = {"HELLO"}, !.cast = {p1, p2}]

\* Peers that come, answer PINGs and go while the clock runs.
Reaping(cast, tune, prompt, bucket) ==
    [Quietly EXCEPT
        !.steps = [NoSteps EXCEPT !["config"] = 1, !["discover"] = Cardinality(cast),
                                  !["tune"] = tune, !["message"] = 1, !["die"] = 1,
                                  !["tick"] = Unlimited],
        !.prompt = prompt, !.bucket = bucket,
        !.calls = {"START", "SET EVASIVE TIMEOUT", "SET EXPIRED TIMEOUT"},
        !.says = {"HELLO"}, !.cast = cast]

\* One peer, and traffic without end.
Noise ==
    [Reaping(Peer, 0, FALSE, Apart) EXCEPT
        !.steps["discover"] = 1, !.steps["message"] = Unlimited, !.says = {"PING"}]

\* A peer that is disconnected by a PING, and may say HELLO again.
Evaded ==
    {[Reaping({p1}, 0, TRUE, Apart) EXCEPT !.full = {p1}, !.steps["message"] = 2],
     [Reaping({p1}, 0, FALSE, Apart) EXCEPT !.full = {p1}]}

MCBudgets ==
    {Lifecycle, Commands, Talk, Cut, Purge, Contest, Noise,
     Reaping({p1, p2}, 0, TRUE, Apart), Reaping({p1, p2}, 0, TRUE, Together),
     Reaping({p1}, 1, TRUE, Apart), Reaping({p1}, 1, FALSE, Apart)} \cup Evaded

MCUnlimited == -1

=============================================================================
