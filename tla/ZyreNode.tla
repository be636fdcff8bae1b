------------------------------ MODULE ZyreNode ------------------------------
(***************************************************************************)
(* A network of Zyre nodes: src/src/zyre_node.c (the actor), zyre_peer.c   *)
(* (the peer object) and zyre_group.c (the group object).                  *)
(*                                                                         *)
(* Every node is one thread that handles one input at a time: an API       *)
(* command, a message of its ROUTER inbox, a UDP beacon, a gossip tuple or *)
(* the reaper's tick.  Each handler is one action here.  The functions the *)
(* handlers share are operators that map the record of a node (the fields  *)
(* of zyre_node_t and of its zyre_peer_t objects) to the record they leave *)
(* behind; several of them in a row make a handler.                        *)
(*                                                                         *)
(* A peer is identified by its uuid (an element of Node).  A process that  *)
(* restarts gets a fresh uuid, so a restart on the same endpoint is a      *)
(* second element of Node with the same EndpointOf.                        *)
(*                                                                         *)
(* No group is contested in this module: elections are ZyreElection's.     *)
(***************************************************************************)
EXTENDS Naturals, Sequences, FiniteSets

CONSTANTS
    Node,           \* uuids of the nodes that ever run
    Group,          \* group names
    Endpoint,       \* TCP endpoints
    EndpointOf,     \* the endpoint a node binds and says in its HELLO
    Gossip,         \* TRUE: gossip discovery; FALSE: UDP beacons
    SeqMod,         \* sequence numbers are uint16_t: 65536 in the code
    StatusMod,      \* status counters are bytes: 256 in the code
    Hwm,            \* messages a mailbox holds before EAGAIN
    MaxQueue,       \* bound: messages under way to one endpoint
    Budget          \* bound: how often each API call and each fault happens

BudgetKinds == {"group", "data", "require", "halt", "suspect", "ping", "drop",
                "refuse"}

ASSUME NodeAssumption == IsFiniteSet(Node)

ASSUME EndpointAssumption ==
    /\ EndpointOf \in [Node -> Endpoint]
    /\ Gossip \in BOOLEAN

ASSUME WidthAssumption ==
    /\ SeqMod \in Nat /\ SeqMod > 1
    /\ StatusMod \in Nat /\ StatusMod > 1
    /\ Hwm \in Nat /\ Hwm > 0
    /\ MaxQueue \in Nat

ASSUME BudgetAssumption == Budget \in [BudgetKinds -> Nat]

VARIABLES
    node,       \* node[n]: the zyre_node_t of n
    air,        \* beacons of nodes that are gone, still in socket buffers
    published,  \* tuples of the gossip network, by the uuid that is their key
    budget      \* what is left of Budget

vars == <<node, air, published, budget>>

-----------------------------------------------------------------------------
\* Messages and the record of a node.

Sequence == 0 .. SeqMod - 1
Status == 0 .. StatusMod - 1
Command == {"HELLO", "WHISPER", "SHOUT", "JOIN", "LEAVE", "PING", "PING_OK",
            "GOODBYE"}

\* A ZRE message.  groups: the groups of HELLO, the one group of SHOUT, JOIN
\* and LEAVE.  to is not on the wire: it is the uuid whose mailbox it left by.
Message == [command: Command, sequence: Sequence, status: Status,
            groups: SUBSET Group, to: Node]

Msg(command, status, groups) ==
    [command |-> command, status |-> status, groups |-> groups]

\* Beacons that outlive their sender: port 0 (live = FALSE) or not.
Beacon == [to: Node, from: Node, live: BOOLEAN]

Life == {"created", "running", "stopped", "dead", "aborted"}

NodeState == [
    life: Life,                               \* "running": the inbox is polled
    own_groups: SUBSET Group,
    status: Status,
    peers: SUBSET Node,                       \* keys of self->peers
    connected: SUBSET Node,                   \* peers with a mailbox
    ready: SUBSET Node,                       \* peers that said HELLO
    entered: SUBSET Node,                     \* ENTER posted and no EXIT since
    sent_sequence: [Node -> Sequence],
    want_sequence: [Node -> Sequence],
    peer_status: [Node -> Status],
    peer_groups: [Group -> SUBSET Node],
    heard: SUBSET Node,                       \* tuples zgossip has delivered
    mailbox: [Endpoint -> Seq(Message)]]      \* sent and not yet received

NewNode == [
    life |-> "created", own_groups |-> {}, status |-> 0,
    peers |-> {}, connected |-> {}, ready |-> {}, entered |-> {},
    sent_sequence |-> [m \in Node |-> 0],
    want_sequence |-> [m \in Node |-> 0],
    peer_status |-> [m \in Node |-> 0],
    peer_groups |-> [g \in Group |-> {}],
    heard |-> {},
    mailbox |-> [e \in Endpoint |-> <<>>]]

\* Mutant of NextStatus: a counter that does not wrap.
NextStatus_Wide(x) == x + 1

\* Unsigned counters wrap: (uint16_t) (x + 1), (byte) (x + 1).
NextSequence(x) == IF x + 1 = SeqMod THEN 0 ELSE x + 1
NextStatus(x) == IF x + 1 = StatusMod THEN 0 ELSE x + 1

-----------------------------------------------------------------------------
\* zyre_peer.c

\* zyre_peer_disconnect: nothing happens to a peer that is not connected, so
\* such a peer stays ready if it was.
Disconnect(self, S) ==
    [self EXCEPT !.connected = @ \ S,
                 !.ready = @ \ (S \cap self.connected)]

\* Messages queued in the mailbox that is open now.  Every mailbox starts with
\* a HELLO, so what precedes the last HELLO left by mailboxes since destroyed.
Backlog(q) ==
    Cardinality({i \in DOMAIN q :
        \A j \in DOMAIN q : j > i => q[j].command # "HELLO"})

Full(self, e) == Backlog(self.mailbox[e]) >= Hwm

\* The connected peers of S behind endpoint e (at most one: see OneMailbox).
At(self, S, e) == {s \in S \cap self.connected : EndpointOf[s] = e}

\* zyre_peer_send to every peer of S: sequenced, appended to the peer's
\* mailbox; EAGAIN on a full mailbox disconnects the peer.
Send(self, S, msg) ==
    [Disconnect(self, {s \in S : Full(self, EndpointOf[s])}) EXCEPT
        !.sent_sequence = [s \in Node |->
            IF s \in S \cap self.connected THEN NextSequence(@[s]) ELSE @[s]],
        !.mailbox = [e \in Endpoint |->
            IF At(self, S, e) = {} \/ Full(self, e)
            THEN @[e]
            ELSE LET s == CHOOSE s \in At(self, S, e) : TRUE
                 IN Append(@[e], [command |-> msg.command,
                                  status |-> msg.status,
                                  groups |-> msg.groups,
                                  sequence |-> NextSequence(self.sent_sequence[s]),
                                  to |-> s])]]

\* zyre_peer_messages_lost: the comparison it makes.
InSequence(self, s, msg) ==
    msg.sequence = IF msg.command = "HELLO" THEN 1
                   ELSE NextSequence(self.want_sequence[s])

-----------------------------------------------------------------------------
\* zyre_node.c: helpers

\* Mutant of RemovePeers: the peer is disconnected and stays in the table.
RemovePeers_KeepPeer(self, S) == Disconnect(self, S)

\* Mutant of RemovePeers: the peer stays in its groups.
RemovePeers_KeepGroups(self, S) ==
    [self EXCEPT
        !.peers = @ \ S, !.connected = @ \ S, !.ready = @ \ S,
        !.entered = @ \ S]

\* Mutant of RemovePeers: no EXIT event.
RemovePeers_NoExit(self, S) ==
    [self EXCEPT
        !.peers = @ \ S, !.connected = @ \ S, !.ready = @ \ S,
        !.sent_sequence = [s \in Node |-> IF s \in S THEN 0 ELSE @[s]],
        !.want_sequence = [s \in Node |-> IF s \in S THEN 0 ELSE @[s]],
        !.peer_status = [s \in Node |-> IF s \in S THEN 0 ELSE @[s]],
        !.peer_groups = [g \in Group |-> @[g] \ S]]

\* zyre_node_remove_peer for every peer of S: EXIT, out of every group, freed.  Left
\* out: the UNPUBLISH that the draft API sends to zgossip (zyre_node.c:932).
RemovePeers(self, S) ==
    [self EXCEPT
        !.peers = @ \ S, !.connected = @ \ S, !.ready = @ \ S,
        !.entered = @ \ S,
        !.sent_sequence = [s \in Node |-> IF s \in S THEN 0 ELSE @[s]],
        !.want_sequence = [s \in Node |-> IF s \in S THEN 0 ELSE @[s]],
        !.peer_status = [s \in Node |-> IF s \in S THEN 0 ELSE @[s]],
        !.peer_groups = [g \in Group |-> @[g] \ S]]

\* Mutant of ConnectPeer: HELLO is sent without being counted.
ConnectPeer_Uncounted(self, m) ==
    [self EXCEPT
        !.peers = @ \cup {m}, !.connected = @ \cup {m},
        !.mailbox[EndpointOf[m]] =
            Append(@, [command |-> "HELLO", status |-> self.status,
                       groups |-> self.own_groups, sequence |-> 1, to |-> m])]

\* Mutant of ConnectPeer: a connected peer is heard before it says HELLO.
ConnectPeer_Ready(self, m) ==
    [ConnectPeer_Uncounted(self, m) EXCEPT !.ready = @ \cup {m},
                                           !.sent_sequence[m] = 1]

\* zyre_peer_new, zyre_peer_connect and HELLO as the mailbox's first message.
ConnectPeer(self, m) ==
    [self EXCEPT
        !.peers = @ \cup {m}, !.connected = @ \cup {m},
        !.sent_sequence[m] = 1,
        !.mailbox[EndpointOf[m]] =
            Append(@, [command |-> "HELLO", status |-> self.status,
                       groups |-> self.own_groups, sequence |-> 1, to |-> m])]

\* Mutant of RequirePeer: no purge of the endpoint.
RequirePeer_NoPurge(self, m, connects) ==
    IF m \in self.peers \/ ~connects THEN self ELSE ConnectPeer(self, m)

\* zyre_node_require_peer: a known uuid is left as it is, whatever its state;
\* for a new one, mailboxes to the same endpoint are destroyed first, and the
\* peer is forgotten at once if no socket can be had or connected.
RequirePeer(self, m, connects) ==
    LET purged == Disconnect(self, At(self, Node, EndpointOf[m]))
    IN  IF m \in self.peers THEN self
        ELSE IF connects THEN ConnectPeer(purged, m) ELSE purged

\* zyre_node_join_peer_group and zyre_node_leave_peer_group
JoinPeerGroup(self, s, g) ==
    [self EXCEPT !.peer_groups[g] = @ \cup {s},
                 !.peer_status[s] = NextStatus(@)]

\* Mutant of LeavePeerGroup: the peer stays in the group.
LeavePeerGroup_Stay(self, s, g) == [self EXCEPT !.peer_status[s] = NextStatus(@)]

LeavePeerGroup(self, s, g) ==
    [self EXCEPT !.peer_groups[g] = @ \ {s},
                 !.peer_status[s] = NextStatus(@)]

\* Mutant of EnterPeer: HELLO does not restart the numbering.
EnterPeer_NoReset(self, s, msg) ==
    [self EXCEPT
        !.ready = @ \cup {s}, !.entered = @ \cup {s},
        !.want_sequence[s] = NextSequence(@),
        !.peer_groups = [g \in Group |->
            IF g \in msg.groups THEN @[g] \cup {s} ELSE @[g]],
        !.peer_status[s] = msg.status]

\* Mutant of EnterPeer: the status is taken before the groups are joined.
EnterPeer_StatusFirst(self, s, msg) ==
    [self EXCEPT
        !.ready = @ \cup {s}, !.entered = @ \cup {s},
        !.want_sequence[s] = 1,
        !.peer_groups = [g \in Group |->
            IF g \in msg.groups THEN @[g] \cup {s} ELSE @[g]],
        !.peer_status[s] =
            (msg.status + Cardinality(msg.groups)) % StatusMod]

\* HELLO from s once s is a peer: ready, ENTER, the listed groups, the status.
EnterPeer(self, s, msg) ==
    [self EXCEPT
        !.ready = @ \cup {s}, !.entered = @ \cup {s},
        !.want_sequence[s] = 1,
        !.peer_groups = [g \in Group |->
            IF g \in msg.groups THEN @[g] \cup {s} ELSE @[g]],
        !.peer_status[s] = msg.status]

\* HELLO branch of zyre_node_recv_peer: an obsolete (ready) peer is removed
\* and required again, which answers with a HELLO of our own.
Hello(self, s, msg, connects) ==
    LET current == RequirePeer(
            IF s \in self.ready THEN RemovePeers(self, {s}) ELSE self, s, connects)
    IN  IF s \notin current.peers THEN current
        ELSE IF ~InSequence(current, s, msg) THEN RemovePeers(current, {s})
        ELSE EnterPeer(current, s, msg)

-----------------------------------------------------------------------------
\* The environment of a handler.

Alive(n) == node[n].life \in {"created", "running", "stopped"}
Bound(n) == node[n].life \in {"running", "stopped"}

\* Bound: n does nothing that may send to S while a queue to it is full.
Room(n, S) == \A s \in S : Len(node[n].mailbox[EndpointOf[s]]) < MaxQueue

Spend(kind, k) ==
    /\ budget[kind] >= k
    /\ budget' = [budget EXCEPT ![kind] = @ - k]

\* zyre_peer_connect fails at most Budget.refuse times.
Connect(connects) == IF connects THEN UNCHANGED budget ELSE Spend("refuse", 1)

Become(n, self) == node' = [node EXCEPT ![n] = self]

-----------------------------------------------------------------------------
\* Commands of the application: zyre_node_recv_api.

\* START.  A node whose beacon was destroyed by STOP has a port already and
\* never configures the new one, so only gossip brings a stopped node back.
Start(n) ==
    /\ \/ node[n].life = "created"
       \/ Gossip /\ node[n].life = "stopped"
    /\ \A m \in Node \ {n} : Bound(m) => EndpointOf[m] # EndpointOf[n]
    /\ node' = [node EXCEPT ![n].life = "running"]
    /\ published' = IF Gossip THEN published \cup {n} ELSE published
    /\ UNCHANGED <<air, budget>>

\* Beacons of n that may reach the nodes listening now, after n has gone.
Trail(n, lives) ==
    {b \in Beacon : /\ ~Gossip /\ b.from = n /\ b.live \in lives
                     /\ b.to # n /\ node[b.to].life = "running"}

\* STOP: GOODBYE to all peers (gossip), a beacon with port zero (UDP); the
\* inbox is not polled any more, everything else goes on.
Stop(n) ==
    /\ node[n].life = "running"
    /\ Room(n, node[n].peers)
    /\ Spend("halt", 1)
    /\ Become(n, [(IF Gossip THEN Send(node[n], node[n].peers, Msg("GOODBYE", 0, {}))
                   ELSE node[n]) EXCEPT !.life = "stopped"])
    /\ air' = air \cup Trail(n, {TRUE, FALSE})
    /\ UNCHANGED published

\* $TERM, or the process dies: the sockets are gone, nobody is told.
Destroy(n) ==
    /\ Bound(n)
    /\ Spend("halt", 1)
    /\ Become(n, [NewNode EXCEPT !.life = "dead", !.mailbox = node[n].mailbox])
    /\ air' = {b \in air : b.to # n} \cup Trail(n, {TRUE})
    /\ UNCHANGED published

Join(n, g) ==
    /\ Alive(n)
    /\ g \notin node[n].own_groups
    /\ Room(n, node[n].peers)
    /\ Spend("group", 1)
    /\ LET status == NextStatus(node[n].status)
           self == [node[n] EXCEPT !.own_groups = @ \cup {g}, !.status = status]
       IN Become(n, Send(self, self.peers, Msg("JOIN", status, {g})))
    /\ UNCHANGED <<air, published>>

Leave(n, g) ==
    /\ Alive(n)
    /\ g \in node[n].own_groups
    /\ Room(n, node[n].peers)
    /\ Spend("group", 1)
    /\ LET status == NextStatus(node[n].status)
           self == [node[n] EXCEPT !.own_groups = @ \ {g}, !.status = status]
       IN Become(n, Send(self, self.peers, Msg("LEAVE", status, {g})))
    /\ UNCHANGED <<air, published>>

Whisper(n, m) ==
    /\ Alive(n)
    /\ m \in node[n].peers
    /\ Room(n, {m})
    /\ Spend("data", 1)
    /\ Become(n, Send(node[n], {m}, Msg("WHISPER", 0, {})))
    /\ UNCHANGED <<air, published>>

Shout(n, g) ==
    /\ Alive(n)
    /\ node[n].peer_groups[g] # {}
    /\ Room(n, node[n].peer_groups[g])
    /\ Spend("data", 1)
    /\ Become(n, Send(node[n], node[n].peer_groups[g], Msg("SHOUT", 0, {g})))
    /\ UNCHANGED <<air, published>>

\* REQUIRE PEER, for a node with an endpoint of its own.
RequirePeerCommand(n, m) ==
    /\ Bound(n)
    /\ EndpointOf[m] # EndpointOf[n]
    /\ Room(n, {m})
    /\ budget.require > 0
    /\ \E connects \in BOOLEAN :
          /\ connects \/ budget.refuse > 0
          /\ budget' = [budget EXCEPT !.require = @ - 1,
                                      !.refuse = IF connects THEN @ ELSE @ - 1]
          /\ Become(n, RequirePeer(node[n], m, connects))
    /\ UNCHANGED <<air, published>>

-----------------------------------------------------------------------------
\* Messages from other peers: zyre_node_recv_peer.  The identity frame tells
\* the sender, so s is known to the handler.

Arriving(s, r) == node[s].mailbox[EndpointOf[r]]
Front(s, r) == Head(Arriving(s, r))
Taken(s, r) == [node EXCEPT ![s].mailbox[EndpointOf[r]] = Tail(@)]

\* The inbox of r is polled and the next message of s is one of commands.
Receive(s, r, commands) ==
    /\ node[r].life = "running"
    /\ Arriving(s, r) # <<>>
    /\ Front(s, r).command \in commands
    /\ UNCHANGED <<air, published>>

\* The message is gone from the network, r is left in state self.
Finish(s, r, self) == node' = [Taken(s, r) EXCEPT ![r] = self]
Handle(s, r, self) == Finish(s, r, self) /\ UNCHANGED budget

\* Mutant of OwnEndpointHello: the endpoint is not compared.
OwnEndpointHello_Any(s, r) == s \in node[r].connected \ node[r].ready

\* A HELLO is ignored if its peer, not ready, has our own endpoint.
OwnEndpointHello(s, r) ==
    /\ s \in node[r].connected \ node[r].ready
    /\ EndpointOf[s] = EndpointOf[r]

RecvHello(s, r) ==
    /\ Receive(s, r, {"HELLO"})
    /\ ~OwnEndpointHello(s, r)
    /\ Room(r, {s})
    /\ \E connects \in BOOLEAN :
          /\ Connect(connects)
          /\ Finish(s, r, Hello(Taken(s, r)[r], s, Front(s, r), connects))

\* Any other command of a peer we do not know or that did not say HELLO.
RecvIgnored(s, r) ==
    /\ Receive(s, r, Command)
    /\ IF Front(s, r).command = "HELLO" THEN OwnEndpointHello(s, r)
                                        ELSE s \notin node[r].ready
    /\ Handle(s, r, Taken(s, r)[r])

\* A gap in the sequence: the peer is removed, and said HELLO to again only
\* when discovery (or its own HELLO) brings it back.
RecvLost(s, r) ==
    /\ Receive(s, r, Command \ {"HELLO"})
    /\ s \in node[r].ready
    /\ ~InSequence(node[r], s, Front(s, r))
    /\ Handle(s, r, RemovePeers(Taken(s, r)[r], {s}))

\* r accepts the message; the state of r once messages_lost has counted it.
Accept(s, r, commands) ==
    /\ Receive(s, r, commands)
    /\ s \in node[r].ready
    /\ InSequence(node[r], s, Front(s, r))

Counted(s, r) ==
    [Taken(s, r)[r] EXCEPT !.want_sequence[s] = NextSequence(@)]

\* WHISPER and SHOUT go to the application, PING_OK only resets the timers.
RecvData(s, r) ==
    /\ Accept(s, r, {"WHISPER", "SHOUT", "PING_OK"})
    /\ Handle(s, r, Counted(s, r))

RecvPing(s, r) ==
    /\ Accept(s, r, {"PING"})
    /\ Room(r, {s})
    /\ Handle(s, r, Send(Counted(s, r), {s}, Msg("PING_OK", 0, {})))

\* JOIN and LEAVE end in assert (zre_msg_status (msg) == zyre_peer_status (peer)):
\* a failed assertion aborts the process.
Checked(self, s, msg) ==
    IF msg.status = self.peer_status[s] THEN self
    ELSE [NewNode EXCEPT !.life = "aborted", !.mailbox = self.mailbox]

RecvJoin(s, r) ==
    /\ Accept(s, r, {"JOIN"})
    /\ \E g \in Front(s, r).groups :
          Handle(s, r, Checked(JoinPeerGroup(Counted(s, r), s, g), s, Front(s, r)))

RecvLeave(s, r) ==
    /\ Accept(s, r, {"LEAVE"})
    /\ \E g \in Front(s, r).groups :
          Handle(s, r, Checked(LeavePeerGroup(Counted(s, r), s, g), s, Front(s, r)))

\* In UDP mode the beacon with port zero does the job.
RecvGoodbye(s, r) ==
    /\ Accept(s, r, {"GOODBYE"})
    /\ Handle(s, r, IF Gossip THEN RemovePeers(Counted(s, r), {s})
                              ELSE Counted(s, r))

RecvPeer(s, r) ==
    \/ RecvHello(s, r) \/ RecvIgnored(s, r) \/ RecvLost(s, r)
    \/ RecvData(s, r) \/ RecvPing(s, r)
    \/ RecvJoin(s, r) \/ RecvLeave(s, r) \/ RecvGoodbye(s, r)

-----------------------------------------------------------------------------
\* Discovery.  zbeacon never delivers a node's own beacons.

\* A beacon of a running node, broadcast every second.
RecvBeacon(n, m) ==
    /\ ~Gossip
    /\ n # m
    /\ node[n].life = "running" /\ node[m].life = "running"
    /\ Room(n, {m})
    /\ \E connects \in BOOLEAN :
          /\ Connect(connects)
          /\ Become(n, RequirePeer(node[n], m, connects))
    /\ UNCHANGED <<air, published>>

\* A beacon left behind by a node that stopped or died: with its port it
\* still introduces the node, with port zero it removes it.
RecvLateBeacon(n, b) ==
    /\ b.to = n /\ node[n].life = "running"
    /\ Room(n, {b.from})
    /\ \E connects \in IF b.live THEN BOOLEAN ELSE {TRUE} :
          /\ Connect(connects)
          /\ Become(n, IF b.live THEN RequirePeer(node[n], b.from, connects)
                       ELSE RemovePeers(node[n], {b.from} \cap node[n].peers))
    /\ air' = air \ {b}
    /\ UNCHANGED published

\* zgossip delivers every tuple once, in no particular order, for as long as
\* the node lives: STOP leaves the gossip actor in the poller.
RecvGossip(n, m) ==
    /\ n # m
    /\ Bound(n) /\ m \in published \ node[n].heard
    /\ Room(n, {m})
    /\ \E connects \in BOOLEAN :
          /\ Connect(connects)
          /\ LET self == [node[n] EXCEPT !.heard = @ \cup {m}]
             IN Become(n, IF EndpointOf[m] = EndpointOf[n] THEN self
                          ELSE RequirePeer(self, m, connects))
    /\ UNCHANGED <<air, published>>

-----------------------------------------------------------------------------
\* The reaper: zyre_node_ping_peer for every peer.

\* The timers of m run out however long n waits: n does not read its inbox, or
\* nothing is under way between the two and no PING would get an answer that
\* n heeds.
Silent(n, m) ==
    \/ node[n].life = "stopped"
    \/ /\ Arriving(m, n) = <<>>
       /\ \/ node[m].life # "running"
          \/ /\ Arriving(n, m) = <<>>
             /\ \/ n \notin node[m].connected \cap node[m].ready
                \/ m \notin node[n].connected \cap node[n].ready

\* One pass: the peers in expired have been quiet for expired_timeout and are
\* removed, those in evasive for evasive_timeout and are pinged.  A peer that
\* is not silent expires only when the network or the node stalls: suspect.
Reap(n, expired, evasive) ==
    /\ Bound(n)
    /\ expired \cup evasive # {} /\ expired \cap evasive = {}
    /\ Room(n, evasive)
    /\ LET wronged == Cardinality({m \in expired : ~Silent(n, m)})
       IN /\ budget.suspect >= wronged /\ budget.ping >= Cardinality(evasive)
          /\ budget' = [budget EXCEPT !.suspect = @ - wronged,
                                      !.ping = @ - Cardinality(evasive)]
    /\ Become(n, Send(RemovePeers(node[n], expired), evasive, Msg("PING", 0, {})))
    /\ UNCHANGED <<air, published>>

ReapSilent(n) == Reap(n, {m \in node[n].peers : Silent(n, m)}, {})

-----------------------------------------------------------------------------
\* The network (external): libzmq between a DEALER mailbox and a ROUTER inbox.

Without(q, i) == SubSeq(q, 1, i - 1) \o SubSeq(q, i + 1, Len(q))

\* A mailbox was destroyed with messages in it, or the receiver is gone: the
\* newest messages of a dead mailbox, or the oldest for a dead receiver (not
\* those for one that has yet to bind: they wait for it).
Stale(s, e, i) ==
    LET q == node[s].mailbox[e]
    IN  \/ i < Len(q) /\ q[i + 1].command = "HELLO"
        \/ i = Len(q) /\ At(node[s], Node, e) = {}
        \/ /\ i = 1
          /\ \E d \in Node : EndpointOf[d] = e /\ node[d].life \in {"dead", "aborted"}
          /\ \A m \in Node : Bound(m) => EndpointOf[m] # e

Discard(s, e) ==
    /\ \E i \in DOMAIN node[s].mailbox[e] :
          /\ Stale(s, e, i)
          /\ node' = [node EXCEPT ![s].mailbox[e] = Without(@, i)]
    /\ UNCHANGED <<air, published, budget>>

\* A TCP connection breaks and DEALER reconnects: what was in flight is lost,
\* what the mailbox queues afterwards is not.
Drop(s, e) ==
    /\ Spend("drop", 1)
    /\ \E i \in DOMAIN node[s].mailbox[e] :
          node' = [node EXCEPT ![s].mailbox[e] = Without(@, i)]
    /\ UNCHANGED <<air, published>>

-----------------------------------------------------------------------------
Init ==
    /\ node = [n \in Node |-> NewNode]
    /\ air = {}
    /\ published = {}
    /\ budget = Budget

Api(n) ==
    \/ Start(n) \/ Stop(n) \/ Destroy(n)
    \/ \E g \in Group : Join(n, g) \/ Leave(n, g) \/ Shout(n, g)
    \/ \E m \in Node : Whisper(n, m) \/ RequirePeerCommand(n, m)

Discover(n) ==
    \/ \E m \in Node : RecvBeacon(n, m) \/ RecvGossip(n, m)
    \/ \E b \in air : RecvLateBeacon(n, b)

Reaper(n) ==
    \E expired, evasive \in SUBSET node[n].peers : Reap(n, expired, evasive)

Network(s) == \E e \in Endpoint : Discard(s, e) \/ Drop(s, e)

Next ==
    \E n \in Node :
        \/ Api(n) \/ Discover(n) \/ Reaper(n) \/ Network(n)
        \/ \E s \in Node : RecvPeer(s, n)

Spec == Init /\ [][Next]_vars

\* The actor's loop serves every socket that stays readable and runs the
\* reaper when there is nothing to read; nodes keep broadcasting.
Fairness ==
    /\ \A s, r \in Node : WF_vars(RecvPeer(s, r))
    /\ \A n, m \in Node : WF_vars(RecvBeacon(n, m)) /\ WF_vars(RecvGossip(n, m))
    /\ \A n \in Node : WF_vars(ReapSilent(n))

FairSpec == Spec /\ Fairness

-----------------------------------------------------------------------------
\* Properties.

\* Every variable has the type its C counterpart has.
TypeOK ==
    /\ node \in [Node -> NodeState]
    /\ air \subseteq Beacon
    /\ published \subseteq Node
    /\ budget \in [BudgetKinds -> Nat]

\* zyre_group_t keeps raw zyre_peer_t pointers that zyre_group_send follows:
\* whoever is in a group, connected or ready is still in the peers table,
\* through every removal, purge and repeated HELLO.
NoDanglingPeer ==
    \A n \in Node :
        /\ node[n].connected \cup node[n].ready \cup node[n].entered
              \subseteq node[n].peers
        /\ \A g \in Group : node[n].peer_groups[g] \subseteq node[n].peers

\* zyre_node_require_peer purges previous peers on the same endpoint: a node
\* never has two mailboxes open to one endpoint.
OneMailbox ==
    \A n \in Node : \A s, t \in node[n].connected :
        EndpointOf[s] = EndpointOf[t] => s = t

\* The application gets ENTER before any other event of a peer: whoever may
\* send JOIN, LEAVE, WHISPER or SHOUT (ready) or sits in a group was announced,
\* and was not taken back by EXIT.
AnnouncedFirst ==
    \A n \in Node :
        /\ node[n].ready \subseteq node[n].entered
        /\ \A g \in Group : node[n].peer_groups[g] \subseteq node[n].entered

\* As long as no connection has broken no gap is ever seen in a peer's sequence,
\* however removals, purges, full mailboxes and repeated HELLOs cut the stream
\* of messages: the HELLO of a new mailbox always comes between two numberings.
NothingLost ==
    budget.drop = Budget.drop =>
        \A s, r \in Node :
            (Arriving(s, r) # <<>> /\ s \in node[r].ready)
                => InSequence(node[r], s, Front(s, r))

\* assert (zre_msg_status (msg) == zyre_peer_status (peer)) never fails.
StatusAssertHolds == \A n \in Node : node[n].life # "aborted"

\* The groups of s and its status as r will have them when it has handled what
\* is under way: a HELLO says them all, JOIN and LEAVE change one.
CaughtUp(r, s) ==
    LET q == Arriving(s, r)
        after[k \in 0 .. Len(q)] ==
            IF k = 0
            THEN [groups |-> {g \in Group : s \in node[r].peer_groups[g]},
                  status |-> node[r].peer_status[s]]
            ELSE CASE q[k].command = "HELLO" ->
                        [groups |-> q[k].groups, status |-> q[k].status]
                   [] q[k].command = "JOIN" ->
                        [groups |-> after[k - 1].groups \cup q[k].groups,
                         status |-> NextStatus(after[k - 1].status)]
                   [] q[k].command = "LEAVE" ->
                        [groups |-> after[k - 1].groups \ q[k].groups,
                         status |-> NextStatus(after[k - 1].status)]
                   [] OTHER -> after[k - 1]
    IN  after[Len(q)]

\* What r knows of the groups of s differs from what s has joined and not left
\* only by the messages under way: a SHOUT goes to no one but the members and
\* those whose LEAVE is still to come, and misses only those whose JOIN is.
ViewCatchesUp ==
    \A r, s \in Node :
        (/\ r # s /\ node[r].life = "running" /\ node[s].life = "running"
         /\ r \in node[s].connected
         /\ \/ s \in node[r].ready
            \/ \E i \in DOMAIN Arriving(s, r) : Arriving(s, r)[i].command = "HELLO")
            => CaughtUp(r, s) = [groups |-> node[s].own_groups,
                                 status |-> node[s].status]

\* What reaches a node over a mailbox that is still open is never ignored: the
\* sender said HELLO over it first, and the receiver has kept the peer.
NeverIgnored ==
    \A s, r \in Node :
        (/\ node[r].life = "running" /\ node[s].life = "running"
         /\ r \in node[s].connected
         /\ Arriving(s, r) # <<>> /\ Front(s, r).command # "HELLO")
            => s \in node[r].ready

\* A running node and another that keeps running end up connected and ready to
\* each other for good: the handshake settles.
Met(n, m) ==
    (n # m /\ node[n].life = "running" /\ node[m].life = "running")
        => m \in node[n].connected \cap node[n].ready
Converges == \A n, m \in Node : <>[]Met(n, m)

\* The handshake ends: there is not for ever a HELLO under way to a node that
\* has shaken hands with its sender already (it would remove the sender, and
\* answer with a HELLO that does the same to it).
Repeated(s, r) ==
    /\ node[r].life = "running" /\ s \in node[r].ready
    /\ Arriving(s, r) # <<>> /\ Front(s, r).command = "HELLO"
HandshakeEnds == <>[](\A s, r \in Node : ~Repeated(s, r))

\* Who is gone is forgotten in the end, and leaves every group.
Gone(n, m) ==
    (node[n].life = "running" /\ ~Bound(m)) => m \notin node[n].peers
Forgets == \A n, m \in Node : <>[]Gone(n, m)

-----------------------------------------------------------------------------
\* What the application is told of a peer: nothing before ENTER and after EXIT.
ViewOf(r, s) ==
    IF s \in node[r].entered
    THEN [known |-> TRUE, version |-> node[r].peer_status[s],
          groups |-> {g \in Group : s \in node[r].peer_groups[g]}]
    ELSE [known |-> FALSE, version |-> 0, groups |-> {}]

Presence == INSTANCE ZyrePresence WITH
    MaxVersion <- StatusMod - 1,
    up <- {n \in Node : Alive(n)},
    own <- [n \in Node |-> node[n].own_groups],
    version <- [n \in Node |-> node[n].status],
    view <- [r \in Node |-> [s \in Node |-> ViewOf(r, s)]]

\* The nodes keep what ZyrePresence promises: ENTER and EXIT alternate, JOIN
\* and LEAVE follow the peer's own changes one by one and in order, never
\* ahead of them and exact once the numbers agree, through removals, repeated
\* HELLOs and restarts of the numbering.
KeepsPromise == Presence!Spec

=============================================================================
