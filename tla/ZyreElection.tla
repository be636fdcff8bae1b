---------------------------- MODULE ZyreElection ----------------------------
(***************************************************************************)
(* Leader election in one group: src/src/zyre_election.c and the places of *)
(* src/src/zyre_node.c that start, serve, abort and finish an election.    *)
(*                                                                         *)
(* A node that contests answers every change of the group with a wave of   *)
(* ELECT messages for itself; everybody supports the lowest challenger it  *)
(* has heard of and echoes to the peer it heard of it from (its father)    *)
(* once all its group has supported the challenger; the challenger that    *)
(* gets all echoes sends LEADER, which everybody repeats once.             *)
(*                                                                         *)
(* Uuids are compared with strcmp; here they are numbers.  Links are       *)
(* reliable, and a node meets a peer once: what a link can do is ZyreNode's*)
(* subject.  What matters of removal is that a node that died is removed   *)
(* by each of the others at a time of its own.                             *)
(***************************************************************************)
EXTENDS Naturals, Sequences, FiniteSets

CONSTANTS
    Node,       \* uuids
    None,       \* NULL
    Contender,  \* nodes that contest from the start
    Late,       \* nodes that have met nobody yet when the behaviour starts
    Joined,     \* those of them that are in the group already
    Patient,    \* TRUE: the group changes only when the last change is settled
    Prompt,     \* TRUE: a JOIN takes no longer than the same JOIN to another
                \* member and an ELECT from there, one after the other
    Budget      \* bound: how often each kind of event happens

BudgetKinds == {"contest", "join", "leave", "die"}

ASSUME NodeAssumption ==
    /\ Node \subseteq Nat /\ IsFiniteSet(Node)
    /\ None \notin Node
    /\ Contender \subseteq Node /\ Joined \subseteq Late /\ Late \subseteq Node
    /\ Patient \in BOOLEAN /\ Prompt \in BOOLEAN

ASSUME BudgetAssumption == Budget \in [BudgetKinds -> Nat]

VARIABLES
    node,       \* node[n]: the zyre_node_t of n and its zyre_group_t
    budget      \* what is left of Budget

vars == <<node, budget>>

-----------------------------------------------------------------------------
Command == {"HELLO", "JOIN", "LEAVE", "ELECT", "LEADER"}

\* id: the challenger of ELECT, the leader of LEADER.  joined: HELLO lists the
\* group.
Message == [command: Command, id: Node \cup {None}, joined: BOOLEAN]

Plain(command) == [command |-> command, id |-> None, joined |-> FALSE]
HelloMsg(joined) == [command |-> "HELLO", id |-> None, joined |-> joined]
Elect(id) == [command |-> "ELECT", id |-> id, joined |-> FALSE]
Leader(id) == [command |-> "LEADER", id |-> id, joined |-> FALSE]

\* zyre_election_t; caw is the current active wave.
Election == [caw: Node \cup {None}, father: Node \cup {None},
             erec: Nat, lrec: Nat]
NoElection == [caw |-> None, father |-> None, erec |-> 0, lrec |-> 0]

NodeState == [
    uuid: Node,
    alive: BOOLEAN,
    contest: BOOLEAN,
    member: BOOLEAN,                    \* the group is one of own_groups
    peers: SUBSET Node,
    ready: SUBSET Node,
    group: SUBSET Node,                 \* group->peers
    running: BOOLEAN,                   \* group->election is not NULL
    election: Election,
    leader: Node \cup {None},           \* group->leader
    announced: Node \cup {None},        \* the last LEADER event
    mailbox: [Node -> Seq(Message)]]    \* sent and not yet received

NewNode(n, peers) == [
    uuid |-> n, alive |-> TRUE, contest |-> n \in Contender, member |-> n \in Joined,
    peers |-> peers, ready |-> peers, group |-> {},
    running |-> FALSE, election |-> NoElection,
    leader |-> None, announced |-> None,
    mailbox |-> [m \in Node |-> <<>>]]

-----------------------------------------------------------------------------
\* Helpers: from the record of a node to the record they leave behind.

\* zyre_peer_send, zyre_group_send
Send(self, S, msg) ==
    [self EXCEPT !.mailbox =
        [r \in Node |-> IF r \in S \cap self.peers THEN Append(@[r], msg) ELSE @[r]]]

\* A contender answers a change of the group: the running election is
\* discarded, a new one challenges for itself.
StartElection(self) ==
    Send([self EXCEPT !.running = TRUE,
                      !.election = [NoElection EXCEPT !.caw = self.uuid],
                      !.leader = None],
         self.group, Elect(self.uuid))

\* "LEADER (because alone)"
LeadAlone(self) ==
    [self EXCEPT !.running = FALSE, !.election = NoElection,
                 !.leader = None, !.announced = self.uuid]

ErecComplete(self) == self.election.erec = Cardinality(self.group)
LrecComplete(self) == self.election.lrec = Cardinality(self.group)

\* zyre_node_require_peer for a peer not met before
RequirePeer(self, m) ==
    Send([self EXCEPT !.peers = @ \cup {m}], {m}, HelloMsg(self.member))

\* Variant: the group's contest flag is not looked at.
RemovePeer_AnyMember(self, p, leader) ==
    LET restart == self.member /\ leader = p
        settled == IF ~restart THEN self
                   ELSE IF Cardinality(self.group) = 1 THEN LeadAlone(self)
                   ELSE StartElection(self)
    IN  [settled EXCEPT !.peers = @ \ {p}, !.ready = @ \ {p}, !.group = @ \ {p}]

\* zyre_node_remove_peer: the election is settled first, with the peer still
\* in the group.  leader: the peer group->leader points to.
RemovePeer(self, p, leader) ==
    LET restart == /\ self.member /\ self.contest
                   /\ leader = p \/ (self.running /\ ~LrecComplete(self))
        settled == IF ~restart THEN self
                   ELSE IF Cardinality(self.group) = 1 THEN LeadAlone(self)
                   ELSE StartElection(self)
    IN  [settled EXCEPT !.peers = @ \ {p}, !.ready = @ \ {p}, !.group = @ \ {p}]

\* The peers a pointer to p may stand for: once p is freed, nobody or the peer
\* that was allocated in its place.
Pointed(self, p) ==
    IF p \in self.peers \cup {None} THEN {p} ELSE self.peers \cup {None}

-----------------------------------------------------------------------------
\* Nothing is under way: all that was sent is received, the dead are removed.
Settled ==
    \A n \in Node : node[n].alive =>
        /\ \A m \in Node : node[m].mailbox[n] = <<>>
        /\ \A p \in node[n].peers : node[p].alive

\* No JOIN is on its way to r.
NoJoinFor(r) ==
    \A n \in Node : \A i \in DOMAIN node[n].mailbox[r] :
        node[n].mailbox[r][i].command # "JOIN"

\* Everybody knows everybody else who is alive, too.
Quiet ==
    /\ Settled
    /\ \A n \in Node : node[n].alive => {m \in Node \ {n} : node[m].alive} = node[n].peers

\* Bound: a change of the group is one of those Budget allows.
Spend(kind) ==
    /\ Patient => Settled
    /\ budget[kind] > 0
    /\ budget' = [budget EXCEPT ![kind] = @ - 1]

Become(n, self) == node' = [node EXCEPT ![n] = self]

\* SET CONTEST
SetContest(n) ==
    /\ node[n].alive /\ ~node[n].contest
    /\ Spend("contest")
    /\ Become(n, [node[n] EXCEPT !.contest = TRUE])

Join(n) ==
    /\ node[n].alive /\ ~node[n].member
    /\ Spend("join")
    /\ Become(n, Send([node[n] EXCEPT !.member = TRUE], node[n].peers, Plain("JOIN")))

\* The election and the leader of the group are left as they are.
Leave(n) ==
    /\ node[n].alive /\ node[n].member
    /\ Spend("leave")
    /\ Become(n, Send([node[n] EXCEPT !.member = FALSE], node[n].peers, Plain("LEAVE")))

\* $TERM, or the process dies: what it has not received is gone.
Die(n) ==
    /\ node[n].alive
    /\ Spend("die")
    /\ node' = [m \in Node |-> IF m = n THEN [node[n] EXCEPT !.alive = FALSE]
                               ELSE [node[m] EXCEPT !.mailbox[n] = <<>>]]

\* A beacon of m, whom n has not met.
Discover(n, m) ==
    /\ n # m /\ node[n].alive /\ node[m].alive /\ m \notin node[n].peers
    /\ Patient => Settled
    /\ Become(n, RequirePeer(node[n], m))
    /\ UNCHANGED budget

\* The beacon with port zero, or the reaper.
Remove(n, p) ==
    /\ node[n].alive /\ p \in node[n].peers /\ ~node[p].alive
    /\ \E leader \in Pointed(node[n], node[n].leader) :
          Become(n, RemovePeer(node[n], p, leader))
    /\ UNCHANGED budget

\* What a dead process had not sent.
Discard(s, r) ==
    /\ ~node[s].alive
    /\ node[s].mailbox[r] # <<>>
    /\ node' = [node EXCEPT ![s].mailbox[r] = SubSeq(@, 1, Len(@) - 1)]
    /\ UNCHANGED budget

-----------------------------------------------------------------------------
\* zyre_node_recv_peer

Front(s, r) == Head(node[s].mailbox[r])

Receive(s, r, command) ==
    /\ node[r].alive
    /\ node[s].mailbox[r] # <<>>
    /\ Front(s, r).command = command
    /\ command = "HELLO" \/ s \in node[r].ready
    /\ UNCHANGED budget

Handle(s, r, self) ==
    node' = [node EXCEPT ![s].mailbox[r] = Tail(@), ![r] = self]

\* The peer is not known or not ready.
RecvIgnored(s, r) ==
    /\ node[r].alive
    /\ node[s].mailbox[r] # <<>>
    /\ Front(s, r).command # "HELLO" /\ s \notin node[r].ready
    /\ Handle(s, r, node[r])
    /\ UNCHANGED budget

\* HELLO does not look at own_groups: whoever contests starts an election.
RecvHello(s, r) ==
    /\ Receive(s, r, "HELLO")
    /\ LET met == IF s \in node[r].peers THEN node[r] ELSE RequirePeer(node[r], s)
           self == [met EXCEPT
                        !.ready = @ \cup {s},
                        !.group = IF Front(s, r).joined THEN @ \cup {s} ELSE @]
       IN Handle(s, r, IF Front(s, r).joined /\ self.contest
                       THEN StartElection(self) ELSE self)

\* Variant: a group that has its leader holds no election for a newcomer.
RecvJoin_KeepLeader(s, r) ==
    /\ Receive(s, r, "JOIN")
    /\ LET self == [node[r] EXCEPT !.group = @ \cup {s}]
       IN Handle(s, r, IF self.member /\ self.contest /\ self.announced = None
                       THEN StartElection(self) ELSE self)

RecvJoin(s, r) ==
    /\ Receive(s, r, "JOIN")
    /\ LET self == [node[r] EXCEPT !.group = @ \cup {s}]
       IN Handle(s, r, IF self.member /\ self.contest
                       THEN StartElection(self) ELSE self)

\* Variant: a voter that leaves takes its vote back, whether it has voted or not.
RecvLeave_Uncount(s, r) ==
    /\ Receive(s, r, "LEAVE")
    /\ Handle(s, r, [node[r] EXCEPT !.group = @ \ {s}, !.election.erec = @ - 1])

\* Only the leader's LEAVE restarts the election.
RecvLeave(s, r) ==
    /\ Receive(s, r, "LEAVE")
    /\ \E leader \in Pointed(node[r], node[r].leader) :
          LET self == [node[r] EXCEPT !.group = @ \ {s}]
          IN Handle(s, r, IF ~(self.member /\ self.contest /\ leader = s) THEN self
                          ELSE IF self.group = {} THEN LeadAlone(self)
                          ELSE StartElection(self))

\* Variant: the father is told what it has told us.
Support_ToFather(self, s, challenger) ==
    IF self.election.caw = None \/ challenger < self.election.caw
    THEN Send([self EXCEPT !.running = TRUE,
                           !.election = [caw |-> challenger, father |-> s,
                                         erec |-> 0, lrec |-> 0]],
              self.group, Elect(challenger))
    ELSE self

\* A lower challenger: the wave restarts with it, s is the father.
Support(self, s, challenger) ==
    IF self.election.caw = None \/ challenger < self.election.caw
    THEN Send([self EXCEPT !.running = TRUE,
                           !.election = [caw |-> challenger, father |-> s,
                                         erec |-> 0, lrec |-> 0]],
              self.group \ {s}, Elect(challenger))
    ELSE self

\* All of the group support the wave: the challenger decides, everybody else
\* echoes to its father.
Echo(self, father) ==
    IF ~ErecComplete(self) THEN self
    ELSE IF self.election.caw = self.uuid
    THEN Send(self, self.group, Leader(self.election.caw))
    ELSE Send(self, {father}, Elect(self.election.caw))

\* zyre_group_require_election: no membership or contest is asked for.
RecvElect(s, r) ==
    /\ Receive(s, r, "ELECT")
    /\ Prompt => NoJoinFor(r)
    /\ LET challenger == Front(s, r).id
           self == Support(node[r], s, challenger)
       IN \E father \in Pointed(self, self.election.father) :
             Handle(s, r, IF self.election.caw = challenger
                          THEN Echo([self EXCEPT !.election.erec = @ + 1], father)
                          ELSE self)

\* Everybody has confirmed: the election is over.  A leader that is no peer
\* any more is not announced.
Finish(self, leader) ==
    IF ~LrecComplete(self) THEN self
    ELSE [self EXCEPT
            !.running = FALSE, !.election = NoElection,
            !.leader = IF leader \in self.peers THEN leader ELSE @,
            !.announced = IF leader \in self.peers \cup {self.uuid} THEN leader ELSE @]

\* Variant: LEADER is not repeated.
Confirm_Silent(self, leader) == Finish([self EXCEPT !.election.lrec = @ + 1], leader)

\* LEADER is repeated, with the own wave in it, before the first one counts.
Confirm(self, leader) ==
    LET repeated == IF self.uuid # leader /\ self.election.lrec = 0
                    THEN Send(self, self.group, Leader(self.election.caw)) ELSE self
    IN  Finish([repeated EXCEPT !.election.lrec = @ + 1], leader)

RecvLeader(s, r) ==
    /\ Receive(s, r, "LEADER")
    /\ Handle(s, r, IF node[r].election.caw = None
                    THEN [node[r] EXCEPT !.running = TRUE]
                    ELSE Confirm(node[r], Front(s, r).id))

Recv(s, r) ==
    \/ RecvIgnored(s, r) \/ RecvHello(s, r) \/ RecvJoin(s, r) \/ RecvLeave(s, r)
    \/ RecvElect(s, r) \/ RecvLeader(s, r)

-----------------------------------------------------------------------------
Init ==
    /\ node = [n \in Node |->
                  NewNode(n, IF n \in Late THEN {} ELSE Node \ ({n} \cup Late))]
    /\ budget = Budget

Next ==
    \E n \in Node :
        \/ SetContest(n) \/ Join(n) \/ Leave(n) \/ Die(n)
        \/ \E m \in Node :
              Discover(n, m) \/ Remove(n, m) \/ Recv(m, n) \/ Discard(m, n)

Spec == Init /\ [][Next]_vars

\* The poll loop, the beacons, and the reaper: while one of them is due somewhere,
\* one of them happens somewhere.
Fairness ==
    WF_vars(\E n, m \in Node : Recv(m, n) \/ Discover(n, m) \/ Remove(n, m))

FairSpec == Spec /\ Fairness

-----------------------------------------------------------------------------
TypeOK ==
    /\ node \in [Node -> NodeState]
    /\ budget \in [BudgetKinds -> Nat]

Voter == {n \in Node : node[n].alive /\ node[n].member}

\* When all is quiet the members of the group have the same leader, or none at
\* all; one of them if two of them have contested from the start.
\* zyre.c, zyre_set_contest_in_group: "This ensures that a consent for a leader
\* is reached within a group even though not every peer is contesting for
\* leadership."
Consent ==
    Quiet => \E k \in Voter \cup {None} :
        /\ \A n \in Voter : node[n].announced = k
        /\ Cardinality(Voter \cap Contender) > 1 => k # None

\* No peer is counted twice in a wave, nor one of an earlier election in a
\* later one: the counters never pass the size of the group, so the tests for
\* equality of zyre_election_erec_complete and _lrec_complete are never jumped
\* over.
CountsWithinGroup ==
    \A n \in Node : node[n].alive =>
        /\ node[n].election.erec <= Cardinality(node[n].group)
        /\ node[n].election.lrec <= Cardinality(node[n].group)

\* "If this option is not set the peer will still participate in elections but
\* never gets elected": whatever is delayed, stale or restarted, the LEADER an
\* application hears of is a node that contests.
OnlyContendersLead ==
    \A n \in Node : node[n].announced # None => node[node[n].announced].contest

\* Every election ends: the waves die out, and nobody is left with an election
\* that waits for messages nobody will send.
ElectionsEnd == <>[](Quiet /\ \A n \in Node : node[n].alive => ~node[n].running)
=============================================================================
