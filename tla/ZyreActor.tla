------------------------------ MODULE ZyreActor ------------------------------
(***************************************************************************)
(* One node as its application sees it: zyre.c writes commands to a pipe   *)
(* and waits for replies, zyre_node_actor (zyre_node.c) polls the pipe and *)
(* its sockets, reaps silent peers when nothing else happens, and writes   *)
(* events to a second pipe, which zyre_event.c takes apart.  Both pipes    *)
(* block who writes to them when they are full.                            *)
(*                                                                         *)
(* Time is counted in ticks; a deadline is kept as the ticks left until it.*)
(***************************************************************************)
EXTENDS Integers, Sequences, FiniteSets

CONSTANTS
    Peer, Group, Name,
    Null,           \* NULL
    DefaultName,    \* the name made from the UUID
    Order,          \* the peers as the hash table is iterated
    Hwm,            \* commands or events a pipe holds
    Reap,           \* REAP_INTERVAL
    Evasive,        \* evasive_timeout of a new node
    Expired,        \* expired_timeout of a new node
    Timeout,        \* arguments of the timeout setters
    InboxBound,     \* bound: messages waiting in the inbox
    Unlimited,      \* a number of steps without bound
    Budgets         \* bounds: how often each kind of step happens; the commands
                    \* that are called, the messages and the peers that come;
                    \* whether the clock waits for whoever has work to do; the
                    \* bucket of the hash table each peer is in; its endpoint;
                    \* the peers whose mailbox may be full

BudgetKinds == {"config", "group", "query", "tune", "empty",
                "discover", "message", "die", "tick"}

Calls == {"UUID", "NAME", "SET ENDPOINT", "START", "STOP", "PEERS",
          "GROUP PEERS", "PEER ENDPOINT", "PEER HEADER", "PEER GROUPS",
          "OWN GROUPS", "$TERM"}
Posts == {"SET NAME", "SET PORT", "SET EVASIVE TIMEOUT", "SET EXPIRED TIMEOUT",
          "SET CONTEST", "SET OTHER", "GOSSIP", "GOSSIP UNPUBLISH", "WHISPER",
          "SHOUT", "JOIN", "LEAVE", "REQUIRE PEER", "DUMP"}
Ids == {"HELLO", "WHISPER", "SHOUT", "JOIN", "LEAVE", "PING", "PING_OK",
        "ELECT", "LEADER", "GOODBYE"}

ASSUME PeerAssumption ==
    /\ Order \in Seq(Peer)
    /\ \A p \in Peer : \E i \in DOMAIN Order : Order[i] = p

ASSUME NumberAssumption ==
    /\ Hwm \in Nat \ {0} /\ Reap \in Nat /\ InboxBound \in Nat
    /\ Evasive \in Nat /\ Expired \in Nat /\ Timeout \subseteq Int

Least(a, b) == IF a < b THEN a ELSE b
Most(a, b) == IF a < b THEN b ELSE a

ASSUME ValueAssumption ==
    /\ DefaultName \in Name
    /\ Group # {} /\ Null \notin Peer \cup Group \cup Name

\* NULL is neither a message nor the reason of an abort.
ASSUME NullAssumption ==
    /\ Null \notin {"beacon", "gossip", "port", "endpoint", "unpublish", "require"}
    /\ \A name \in Calls \cup Posts,
          arg \in Peer \cup Group \cup Name \cup Timeout \cup {Null, 0, 1} :
            Null # [name |-> name, arg |-> arg]

ASSUME BudgetAssumption ==
    /\ Unlimited \in Int \ Nat
    /\ Budgets \subseteq [steps: [BudgetKinds -> Nat \cup {Unlimited}],
                          calls: SUBSET (Calls \cup Posts),
                          says: SUBSET Ids, cast: SUBSET Peer,
                          prompt: BOOLEAN, bucket: [Peer -> Nat],
                          place: [Peer -> Nat], full: SUBSET Peer]

\* A peer that answers may have to wait while others of its bucket are reaped,
\* one at a time: with REAP_INTERVAL and the timeouts of a new node (1000, 5000
\* and 30000) that takes less than its expiry for up to 25 peers to a bucket.
ASSUME BucketAssumption ==
    /\ 0 < Reap /\ 0 < Evasive
    /\ \A b \in Budgets : b.prompt => \A p \in Peer :
            Evasive + Least(Evasive, Reap)
                        * Cardinality({q \in Peer : b.bucket[q] = b.bucket[p]}) <= Expired

VARIABLES
    calling,    \* the command whose reply the application waits for
    half,       \* a command whose last frame has not been sent
    pipe,       \* commands on their way to the node
    replies,    \* replies on their way back
    answer,     \* the last reply taken
    events,     \* events on their way to the application
    seen,       \* the last event taken apart
    view,       \* what the events taken so far say of the peers
    asked,      \* what the application has asked for
    node,       \* zyre_node_t
    peers,      \* its peers
    members,    \* its groups
    todo,       \* what the handler at work has still to write
    slept,      \* ticks since last_reaped_at
    failed,     \* the assertion that has aborted the process
    inbox,      \* messages of peers
    pings,      \* peers that have a PING to answer
    dead,       \* peers that are gone
    limits      \* the choice from Budgets, and what is left of it

app == <<calling, half, answer, seen, view, asked>>
pipes == <<pipe, replies, events>>
actor == <<node, peers, members, slept, failed>>
world == <<inbox, pings, dead>>
vars == <<app, pipes, actor, todo, world, limits>>

CanSpend(kind) == limits.steps[kind] # 0
Spend(kind) ==
    /\ CanSpend(kind)
    /\ limits' = IF limits.steps[kind] = Unlimited THEN limits
                 ELSE [limits EXCEPT !.steps[kind] = @ - 1]

-----------------------------------------------------------------------------
(***************************************************************************)
(* Commands, replies, events.                                              *)
(***************************************************************************)
Command(name, arg) == [name |-> name, arg |-> arg]

Reply(kind, value) == [to |-> "pipe", kind |-> kind, value |-> value]
Event(frames) == [to |-> "outbox", frames |-> frames]

\* The frames of an event; a peer's name, headers and endpoint go with it.
Enter(p) == Event(<<"ENTER", p, <<"name", p>>, <<"headers", p>>, <<"at", p>> >>)
Exit(p) == Event(<<"EXIT", p, <<"name", p>> >>)
Quiet(type, p) == Event(<<type, p, <<"name", p>> >>)
Member(type, p, g) == Event(<<type, p, <<"name", p>>, g>>)
Stopped(n) == Event(<<"STOP", Null, n>>)

Blank == [type |-> Null, peer |-> Null, headers |-> Null, addr |-> Null,
          group |-> Null, msg |-> Null]

Frame(frames, i) == IF i <= Len(frames) THEN frames[i] ELSE Null

\* Variant: the address is taken before the headers.
EventNew_AddressFirst(frames) ==
    LET e == [Blank EXCEPT !.type = frames[1], !.peer = frames[2]]
    IN  CASE e.type = "ENTER" ->
                [e EXCEPT !.headers = Frame(frames, 5), !.addr = Frame(frames, 4)]
          [] e.type \in {"JOIN", "LEAVE", "LEADER"} ->
                [e EXCEPT !.group = Frame(frames, 4)]
          [] e.type = "WHISPER" -> [e EXCEPT !.msg = SubSeq(frames, 4, Len(frames))]
          [] e.type = "SHOUT" -> [e EXCEPT !.group = Frame(frames, 4),
                                           !.msg = SubSeq(frames, 5, Len(frames))]
          [] OTHER -> e

\* zyre_event_new
EventNew(frames) ==
    LET e == [Blank EXCEPT !.type = frames[1], !.peer = frames[2]]
    IN  CASE e.type = "ENTER" ->
                [e EXCEPT !.headers = Frame(frames, 4), !.addr = Frame(frames, 5)]
          [] e.type \in {"JOIN", "LEAVE", "LEADER"} ->
                [e EXCEPT !.group = Frame(frames, 4)]
          [] e.type = "WHISPER" -> [e EXCEPT !.msg = SubSeq(frames, 4, Len(frames))]
          [] e.type = "SHOUT" -> [e EXCEPT !.group = Frame(frames, 4),
                                           !.msg = SubSeq(frames, 5, Len(frames))]
          [] OTHER -> e

\* A view is what an application would note down of the events it reads.
NoView == [at |-> [p \in Peer |-> Null], headers |-> [p \in Peer |-> Null],
           groups |-> [g \in Group |-> {}]]

Note(v, e) ==
    CASE e.type = "ENTER" -> [v EXCEPT !.at[e.peer] = e.addr,
                                       !.headers[e.peer] = e.headers]
      [] e.type = "EXIT" ->
            [at |-> [v.at EXCEPT ![e.peer] = Null],
             headers |-> [v.headers EXCEPT ![e.peer] = Null],
             groups |-> [g \in Group |-> v.groups[g] \ {e.peer}]]
      [] e.type = "JOIN" -> [v EXCEPT !.groups[e.group] = @ \cup {e.peer}]
      [] e.type = "LEAVE" -> [v EXCEPT !.groups[e.group] = @ \ {e.peer}]
      [] OTHER -> v

-----------------------------------------------------------------------------
(***************************************************************************)
(* The application's thread, zyre.c.                                       *)
(***************************************************************************)
Free == calling = Null /\ failed = Null /\ ~node.terminated

\* A message without frames leaves the command before it unfinished, and what
\* is sent next becomes its content.
Write(c) ==
    /\ Len(pipe) < Hwm /\ c.name \in limits.calls
    /\ pipe' = Append(pipe, IF half = Null THEN c ELSE half)
    /\ half' = Null

Post(c) ==
    /\ Free
    /\ Write(c)
    /\ UNCHANGED <<calling, replies, answer, events, seen, view, actor, todo, world>>

Call(c) ==
    /\ Free
    /\ Write(c)
    /\ calling' = c
    /\ UNCHANGED <<replies, answer, events, seen, view, actor, todo, world>>

\* A command whose content has no frames is not finished.
PostHalf(c) ==
    /\ Spend("empty") /\ Free
    /\ half' = IF half = Null THEN c ELSE half
    /\ asked' = [asked EXCEPT !.empty = TRUE]
    /\ UNCHANGED <<calling, answer, seen, view, pipes, actor, todo, world>>

\* zyre_whisper and zyre_shout, of a message without frames or with some
Whisper ==
    \E p \in Peer :
        \/ Spend("group") /\ Post(Command("WHISPER", p)) /\ UNCHANGED asked
        \/ PostHalf(Command("WHISPER", p))
Shout ==
    \E g \in Group :
        \/ Spend("group") /\ Post(Command("SHOUT", g)) /\ UNCHANGED asked
        \/ PostHalf(Command("SHOUT", g))

\* zyre_whispers, zyre_shouts
Whispers ==
    \E p \in Peer : Spend("group") /\ Post(Command("WHISPER", p)) /\ UNCHANGED asked
Shouts ==
    \E g \in Group : Spend("group") /\ Post(Command("SHOUT", g)) /\ UNCHANGED asked

\* The documented order: the port, or the endpoint and gossip, and only then
\* the start, once.
InOrder(holds) == asked.careful /\ holds

\* zyre_set_name
SetName ==
    /\ Spend("group")
    /\ \E n \in Name : /\ Post(Command("SET NAME", n))
                      /\ asked' = [asked EXCEPT !.name = n]

PostOther == Spend("config") /\ Post(Command("SET OTHER", Null)) /\ UNCHANGED asked

\* zyre_set_header, zyre_set_verbose
SetHeader == PostOther
\* zyre_set_beacon_peer_port
SetBeaconPeerPort == PostOther
\* zyre_set_interval
SetInterval == PostOther
\* zyre_set_advertised_endpoint, zyre_set_zcert, zyre_set_zap_domain
SetCurve == PostOther

\* zyre_set_port
SetPort ==
    /\ Spend("config")
    /\ \E n \in {0, 1} :
        /\ Post(Command("SET PORT", n))
        /\ asked' = [asked EXCEPT !.port = n, !.careful = InOrder(~asked.gossip)]

PostTimeout(name) ==
    /\ Spend("tune")
    /\ \E t \in Timeout : Post(Command(name, t))
    /\ asked' = [asked EXCEPT !.tuned = TRUE]

\* zyre_set_evasive_timeout, zyre_set_silent_timeout, zyre_set_expired_timeout
SetEvasiveTimeout == PostTimeout("SET EVASIVE TIMEOUT")
SetSilentTimeout == PostTimeout("SET EVASIVE TIMEOUT")
SetExpiredTimeout == PostTimeout("SET EXPIRED TIMEOUT")

\* zyre_set_contest_in_group
SetContestInGroup ==
    \E g \in Group : Spend("group") /\ Post(Command("SET CONTEST", g)) /\ UNCHANGED asked

\* zyre_require_peer
RequirePeerCall ==
    /\ Spend("config")
    /\ \E p \in Peer : Post(Command("REQUIRE PEER", p))
    /\ asked' = [asked EXCEPT !.careful = InOrder(asked.endpoint)]

PostGossip ==
    /\ Spend("config")
    /\ Post(Command("GOSSIP", Null))
    /\ asked' = [asked EXCEPT !.gossip = TRUE, !.careful = InOrder(~asked.running),
                             !.port = IF asked.gossip THEN @ ELSE 0]

\* zyre_gossip_bind
GossipBind == PostGossip
\* zyre_gossip_connect, zyre_gossip_connect_curve
GossipConnect == PostGossip

\* zyre_gossip_unpublish
GossipUnpublishCall ==
    /\ Spend("config")
    /\ Post(Command("GOSSIP UNPUBLISH", Null))
    /\ asked' = [asked EXCEPT !.careful = InOrder(asked.gossip)]

\* zyre_join, zyre_leave
Join ==
    /\ Spend("group")
    /\ \E g \in Group : /\ Post(Command("JOIN", g))
                       /\ asked' = [asked EXCEPT !.groups = @ \cup {g}]
Leave ==
    /\ Spend("group")
    /\ \E g \in Group : /\ Post(Command("LEAVE", g))
                       /\ asked' = [asked EXCEPT !.groups = @ \ {g}]

\* zyre_set_endpoint, zyre_start, zyre_stop; their replies tell asked more.
SetEndpoint ==
    /\ Spend("config") /\ Call(Command("SET ENDPOINT", Null))
    /\ asked' = [asked EXCEPT !.careful = InOrder(~asked.running)]
Start ==
    /\ Spend("config") /\ Call(Command("START", Null))
    /\ asked' = [asked EXCEPT
            !.careful = InOrder(~asked.running /\ (asked.port = 0 => asked.gossip))]
Stop ==
    /\ Spend("config") /\ Call(Command("STOP", Null))
    /\ asked' = [asked EXCEPT !.stopped = TRUE]

\* zyre_destroy
Destroy == Spend("config") /\ Call(Command("$TERM", Null)) /\ UNCHANGED asked

Ask(name, arg) == Spend("query") /\ Call(Command(name, arg)) /\ UNCHANGED asked

\* zyre_uuid, zyre_name
Uuid == Ask("UUID", Null)
NameOf == Ask("NAME", Null)
\* zyre_peers, zyre_peers_by_group
Peers == Ask("PEERS", Null)
PeersByGroup == \E g \in Group : Ask("GROUP PEERS", g)
\* zyre_peer_address, zyre_peer_header_value
PeerAddress == \E p \in Peer : Ask("PEER ENDPOINT", p)
PeerHeaderValue == \E p \in Peer : Ask("PEER HEADER", p)
\* zyre_own_groups, zyre_peer_groups
OwnGroups == Ask("OWN GROUPS", Null)
PeerGroups == Ask("PEER GROUPS", Null)
\* zyre_print
Dump == Spend("query") /\ Post(Command("DUMP", Null)) /\ UNCHANGED asked

\* The call returns with the reply that is there, whatever it is.
Return ==
    /\ calling # Null /\ replies # <<>>
    /\ LET r == Head(replies)
       IN  /\ answer' = [to |-> calling, kind |-> r.kind, value |-> r.value]
           /\ asked' = [asked EXCEPT
                !.endpoint = \/ @
                             \/ r.kind = "SET ENDPOINT" /\ r.value = 0
                             \/ r.kind = "START" /\ r.value = 0 /\ asked.port = 0,
                !.gossip = @ \/ r.kind = "SET ENDPOINT",
                !.port = IF r.kind = "SET ENDPOINT" /\ ~asked.gossip THEN 0 ELSE @,
                !.running = CASE r.kind = "START" -> r.value = 0
                              [] r.kind = "STOP" -> FALSE
                              [] OTHER -> @]
    /\ replies' = Tail(replies)
    /\ calling' = Null
    /\ UNCHANGED <<half, pipe, events, seen, view, actor, todo, world, limits>>

\* zyre_event_new
TakeEvent ==
    /\ Free /\ events # <<>>
    /\ seen' = EventNew(Head(events))
    /\ view' = Note(view, EventNew(Head(events)))
    /\ events' = Tail(events)
    /\ UNCHANGED <<calling, half, answer, asked, pipe, replies, actor, todo, world, limits>>

\* zyre_event_get_msg
GetMsg ==
    /\ Free /\ seen.msg # Null
    /\ seen' = [seen EXCEPT !.msg = Null]
    /\ UNCHANGED <<calling, half, answer, view, asked, pipes, actor, todo, world, limits>>

-----------------------------------------------------------------------------
(***************************************************************************)
(* The node's thread, zyre_node_actor.  A handler runs in one step up to   *)
(* what it writes to the pipes, which follows in steps of its own as the   *)
(* pipes have room; the node does nothing else meanwhile.                  *)
(***************************************************************************)
Running == todo = <<>> /\ failed = Null /\ ~node.terminated

\* Variant: the pipe of events is not bounded.
Flush_Unbounded ==
    /\ todo # <<>>
    /\ IF Head(todo).to = "pipe"
       THEN replies' = Append(replies, Head(todo)) /\ UNCHANGED events
       ELSE events' = Append(events, Head(todo).frames) /\ UNCHANGED replies
    /\ todo' = Tail(todo)
    /\ UNCHANGED <<pipe, app, actor, world, limits>>

Flush ==
    /\ todo # <<>>
    /\ \/ /\ Head(todo).to = "pipe"
          /\ replies' = Append(replies, Head(todo))
          /\ UNCHANGED events
       \/ /\ Head(todo).to = "outbox" /\ Len(events) < Hwm
          /\ events' = Append(events, Head(todo).frames)
          /\ UNCHANGED replies
    /\ todo' = Tail(todo)
    /\ UNCHANGED <<pipe, app, actor, world, limits>>

Blocked == todo # <<>> /\ Head(todo).to = "outbox" /\ Len(events) = Hwm

Only(n, out) == node' = n /\ todo' = out /\ UNCHANGED <<peers, members, failed>>
Abort(reason) == failed' = reason /\ UNCHANGED <<node, todo, peers, members>>

\* A peer is open while its mailbox is connected, and met once the node has its
\* headers; neither follows from the other.
Unknown == [state |-> "unknown", open |-> FALSE, met |-> FALSE,
            evasive |-> 0, expired |-> 0]

\* zyre_peer_connect, zyre_peer_disconnect
Connected == [state |-> "known", open |-> TRUE, met |-> FALSE,
              evasive |-> 0, expired |-> 0]
CutOff(peer) == [peer EXCEPT !.state = "known", !.open = FALSE]

\* zyre_peer_set_ready, zyre_peer_set_headers
Greeted(peer) == [peer EXCEPT !.state = "ready", !.met = TRUE]

\* What remains of a deadline is counted down to where no test tells it apart.
Refreshed(peer) == [peer EXCEPT !.evasive = Most(node.evasive, -Reap),
                                !.expired = Most(node.expired, 0)]

\* Variant: the peer is deleted.
Disconnected_Deleted(table, gone) ==
    [p \in Peer |-> IF p \in gone /\ table[p].open THEN Unknown ELSE table[p]]

\* Nobody is told, and the groups keep the peers that are disconnected.
Disconnected(table, gone) ==
    [p \in Peer |-> IF p \in gone /\ table[p].open THEN CutOff(table[p]) ELSE table[p]]

Open == {p \in Peer : peers[p].open}

\* Of those sent something, the ones that zyre_peer_send finds at EAGAIN.
Full(to) == SUBSET (to \cap Open \cap limits.full)

Tells(to, n, out) ==
    /\ \E full \in Full(to) : peers' = Disconnected(peers, full)
    /\ node' = n /\ todo' = out
    /\ UNCHANGED <<members, failed>>

\* zyre_node_require_peer, which disconnects whoever has the same endpoint before
\* it connects: TRUE for ok when zyre_peer_connect succeeds.
RequirePeer(table, p, ok) ==
    IF table[p].state # "unknown" THEN table
    ELSE [Disconnected(table, {q \in Peer : limits.place[q] = limits.place[p]})
            EXCEPT ![p] = IF ok THEN Refreshed(Connected) ELSE Unknown]

\* Variant: the groups are left as they are.
WithoutPeers_InGroups(gone) == members

\* zyre_node_remove_peer, of the groups
WithoutPeers(gone) ==
    [g \in DOMAIN members \cup (IF gone = {} THEN {} ELSE node.groups) |->
        IF g \in DOMAIN members THEN members[g] \ gone ELSE {}]

RequireGroup(g) == IF g \in DOMAIN members THEN members
                   ELSE [h \in DOMAIN members \cup {g} |->
                            IF h = g THEN {} ELSE members[h]]

ApiUuid(c) == c.name = "UUID" /\ Only(node, <<Reply("UUID", Null)>>)
ApiName(c) == c.name = "NAME" /\ Only(node, <<Reply("NAME", node.name)>>)
ApiSetName(c) == c.name = "SET NAME" /\ Only([node EXCEPT !.name = c.arg], <<>>)
ApiSetOther(c) == c.name \in {"SET OTHER", "DUMP"} /\ Only(node, <<>>)
ApiSetPort(c) == c.name = "SET PORT" /\ Only([node EXCEPT !.beaconPort = c.arg], <<>>)

ApiSetTimeout(c) ==
    \/ c.name = "SET EVASIVE TIMEOUT" /\ Only([node EXCEPT !.evasive = c.arg], <<>>)
    \/ c.name = "SET EXPIRED TIMEOUT" /\ Only([node EXCEPT !.expired = c.arg], <<>>)

ApiSetContest(c) ==
    /\ c.name = "SET CONTEST"
    /\ node' = [node EXCEPT !.contest = @ \cup {c.arg}]
    /\ members' = RequireGroup(c.arg)
    /\ todo' = <<>>
    /\ UNCHANGED <<peers, failed>>

\* Variant: the beacon is still started.
GossipStart_KeepPort == [node EXCEPT !.gossip = TRUE]

\* zyre_node_gossip_start
GossipStart == IF node.gossip THEN node
               ELSE [node EXCEPT !.gossip = TRUE, !.beaconPort = 0]

\* Variant: a bind that fails is not signalled.
ApiSetEndpoint_Silent(c) ==
    /\ c.name = "SET ENDPOINT"
    /\ \/ Only([GossipStart EXCEPT !.endpoint = TRUE], <<Reply("SET ENDPOINT", 0)>>)
       \/ Only(GossipStart, <<>>)

ApiSetEndpoint(c) ==
    /\ c.name = "SET ENDPOINT"
    /\ \/ Only([GossipStart EXCEPT !.endpoint = TRUE], <<Reply("SET ENDPOINT", 0)>>)
       \/ Only(GossipStart, <<Reply("SET ENDPOINT", 1)>>)

ApiGossip(c) == c.name = "GOSSIP" /\ Only(GossipStart, <<>>)

ApiGossipUnpublish(c) ==
    /\ c.name = "GOSSIP UNPUBLISH"
    /\ IF node.gossip THEN Only(node, <<>>) ELSE Abort("unpublish")

\* zyre_node_start
ApiStart(c) ==
    /\ c.name = "START"
    /\ \/ /\ node.beaconPort # 0
          /\ \/ node.beacon /\ Abort("beacon")
             \/ /\ ~node.beacon
                /\ \/ Only([node EXCEPT !.beacon = TRUE], <<Reply("START", 0)>>)
                   \/ Only(node, <<Reply("START", 1)>>)
       \/ /\ node.beaconPort = 0
          /\ \/ ~node.endpoint /\ Abort("port")
             \/ ~node.gossip /\ Abort("gossip")
             \/ /\ node.gossip
                /\ Only([node EXCEPT !.endpoint = TRUE, !.port = @ \/ ~node.endpoint,
                                     !.polled = @ \cup {"gossip", "inbox"}],
                        <<Reply("START", 0)>>)

\* Variant: the poller keeps the beacon that is destroyed.
ApiStop_KeepBeacon(c) ==
    /\ c.name = "STOP"
    /\ Tells(IF node.gossip THEN Peer ELSE {},
             [node EXCEPT !.beacon = FALSE, !.polled = @ \ {"inbox"}],
             <<Stopped(node.name), Reply("STOP", 0)>>)

\* zyre_node_stop: GOODBYE goes to every peer, with gossip.
ApiStop(c) ==
    /\ c.name = "STOP"
    /\ Tells(IF node.gossip THEN Peer ELSE {},
             [node EXCEPT !.beacon = FALSE, !.polled = @ \ {"inbox", "beacon"}],
             <<Stopped(node.name), Reply("STOP", 0)>>)

ApiSend(c) ==
    \/ c.name = "WHISPER" /\ Tells({c.arg}, node, <<>>)
    \/ c.name = "SHOUT" /\ Tells(IF c.arg \in DOMAIN members THEN members[c.arg] ELSE {},
                                node, <<>>)

\* Variant: a group joined before the start is forgotten.
ApiJoin_Started(c) ==
    /\ c.name = "JOIN"
    /\ Tells(IF c.arg \in node.groups THEN {} ELSE Peer,
             IF node.port THEN [node EXCEPT !.groups = @ \cup {c.arg}] ELSE node, <<>>)

\* JOIN and LEAVE go to every peer, if the group was not or is one's own.
ApiJoin(c) ==
    /\ c.name = "JOIN"
    /\ Tells(IF c.arg \in node.groups THEN {} ELSE Peer,
             [node EXCEPT !.groups = @ \cup {c.arg}], <<>>)
ApiLeave(c) ==
    /\ c.name = "LEAVE"
    /\ Tells(IF c.arg \in node.groups THEN Peer ELSE {},
             [node EXCEPT !.groups = @ \ {c.arg}], <<>>)

\* The endpoint is compared with the node's own, which may be NULL.
ApiRequirePeer(c) ==
    /\ c.name = "REQUIRE PEER"
    /\ \/ ~node.endpoint /\ Abort("require")
       \/ /\ node.endpoint
          /\ \E ok \in BOOLEAN : peers' = RequirePeer(peers, c.arg, ok)
          /\ todo' = <<>>
          /\ UNCHANGED <<node, members, failed>>

Known == {p \in Peer : peers[p].state # "unknown"}

ApiPeers(c) == c.name = "PEERS" /\ Only(node, <<Reply("PEERS", Known)>>)

\* Variant: an unknown group is not answered.
ApiGroupPeers_KnownOnly(c) ==
    /\ c.name = "GROUP PEERS"
    /\ Only(node, IF c.arg \in DOMAIN members
                  THEN <<Reply("GROUP PEERS", members[c.arg])>> ELSE <<>>)

ApiGroupPeers(c) ==
    /\ c.name = "GROUP PEERS"
    /\ Only(node, <<Reply("GROUP PEERS", IF c.arg \in DOMAIN members
                                         THEN members[c.arg] ELSE Null)>>)

ApiPeerEndpoint(c) ==
    /\ c.name = "PEER ENDPOINT"
    /\ Only(node, <<Reply("PEER ENDPOINT", IF c.arg \in Open THEN <<"at", c.arg>>
                                           ELSE Null)>>)

\* The headers come with the HELLO, and stay when the peer is disconnected.
ApiPeerHeader(c) ==
    /\ c.name = "PEER HEADER"
    /\ Only(node, <<Reply("PEER HEADER",
                          IF peers[c.arg].met THEN <<"headers", c.arg>> ELSE Null)>>)

ApiPeerGroups(c) ==
    c.name = "PEER GROUPS" /\ Only(node, <<Reply("PEER GROUPS", DOMAIN members)>>)
ApiOwnGroups(c) ==
    c.name = "OWN GROUPS" /\ Only(node, <<Reply("OWN GROUPS", node.groups)>>)
ApiTerm(c) ==
    c.name = "$TERM" /\ Only([node EXCEPT !.terminated = TRUE], <<Reply("$TERM", 0)>>)

\* zyre_node_recv_api
RecvApi ==
    /\ Running /\ pipe # <<>>
    /\ LET c == Head(pipe)
       IN  \/ ApiUuid(c) \/ ApiName(c) \/ ApiSetName(c) \/ ApiSetOther(c)
           \/ ApiSetPort(c) \/ ApiSetTimeout(c) \/ ApiSetContest(c)
           \/ ApiSetEndpoint(c) \/ ApiGossip(c) \/ ApiGossipUnpublish(c)
           \/ ApiStart(c) \/ ApiStop(c) \/ ApiSend(c)
           \/ ApiJoin(c) \/ ApiLeave(c) \/ ApiRequirePeer(c)
           \/ ApiPeers(c) \/ ApiGroupPeers(c) \/ ApiPeerEndpoint(c)
           \/ ApiPeerHeader(c) \/ ApiPeerGroups(c) \/ ApiOwnGroups(c)
           \/ ApiTerm(c)
    /\ pipe' = Tail(pipe)
    /\ UNCHANGED <<replies, events, slept, app, world, limits>>

\* A message: who sent it, what it is, the groups it names, and whether the
\* one before it was lost.
Message == [peer: Peer, groups: SUBSET Group, lost: BOOLEAN,
            id: Ids]

\* The events of f[1], f[2] ... f[n] in turn, each a sequence.
Joined(f, n) ==
    LET upto[k \in 0 .. n] == IF k = 0 THEN <<>> ELSE upto[k - 1] \o f[k]
    IN  upto[n]

\* Variant: only the ping timer is set.
Answering_NotExpired(p) ==
    [peers EXCEPT ![p].evasive = Most(node.evasive, -Reap)]

\* zyre_peer_refresh
Answering(p) == [peers EXCEPT ![p] = Refreshed(@)]

Outcome(next, groups, out) ==
    peers' = next /\ members' = groups /\ todo' = out /\ UNCHANGED <<node, failed>>

\* A handler that sends: some of the mailboxes may be full.
Sending(to, next, groups, out) ==
    \E full \in Full(to) : Outcome(Disconnected(next, full), groups, out)

\* Those an election in these groups may send to.
Electorate(table, groups) == UNION {table[g] : g \in groups \cap node.contest}

Ignored == Outcome(peers, members, <<>>)

\* zyre_node_remove_peer, which may start elections in the node's own groups
Removed(p) ==
    Sending(Electorate(members, node.groups), [peers EXCEPT ![p] = Unknown],
            WithoutPeers({p}), <<Exit(p)>>)

\* A HELLO names at most one group here, so that the JOINs have one order.
Joins(p, groups) == IF groups = {} THEN <<>>
                    ELSE <<Member("JOIN", p, CHOOSE g \in groups : TRUE)>>

\* A peer that is ready says HELLO again: it is removed and required anew.  One
\* that was disconnected is found in the table, and is ready without a mailbox.
RecvHello(m) ==
    LET p == m.peer
        again == peers[p].state = "ready"
        left == IF again THEN [peers EXCEPT ![p] = Unknown] ELSE peers
        gone == IF again THEN WithoutPeers({p}) ELSE members
        bye == IF again THEN <<Exit(p)>> ELSE <<>>
        joined == [g \in DOMAIN gone \cup m.groups |->
                      (IF g \in DOMAIN gone THEN gone[g] ELSE {})
                      \cup (IF g \in m.groups THEN {p} ELSE {})]
        voters == IF again THEN Electorate(members, node.groups) ELSE {}
    IN  /\ m.id = "HELLO"
        /\ \E ok \in BOOLEAN :
              LET found == RequirePeer(left, p, ok)
                  fresh == IF peers[p].state = "known" THEN {} ELSE {p}
              IN  \/ /\ found[p].state = "unknown"
                     /\ Sending(voters, found, gone, bye)
                  \/ /\ found[p].state # "unknown"
                     /\ Sending((voters \cup Electorate(joined, m.groups)) \ fresh,
                                [found EXCEPT ![p] = Refreshed(Greeted(@))],
                                joined, bye \o <<Enter(p)>> \o Joins(p, m.groups))

RecvUnready(m) == m.id # "HELLO" /\ peers[m.peer].state # "ready" /\ Ignored

Accepted(m) == m.id # "HELLO" /\ peers[m.peer].state = "ready" /\ ~m.lost

RecvLost(m) ==
    m.id # "HELLO" /\ peers[m.peer].state = "ready" /\ m.lost /\ Removed(m.peer)

RecvData(m) ==
    /\ Accepted(m)
    /\ \/ /\ m.id = "WHISPER"
          /\ Outcome(Answering(m.peer), members,
                <<Event(<<"WHISPER", m.peer, <<"name", m.peer>>, "content">>)>>)
       \/ /\ m.id = "SHOUT"
          /\ \E g \in m.groups :
                Outcome(Answering(m.peer), members,
                    <<Event(<<"SHOUT", m.peer, <<"name", m.peer>>, g, "content">>)>>)

RecvPing(m) ==
    /\ Accepted(m)
    /\ \/ m.id = "PING" /\ Sending({m.peer}, Answering(m.peer), members, <<>>)
       \/ m.id = "PING_OK" /\ Outcome(Answering(m.peer), members, <<>>)

RecvJoin(m) ==
    /\ Accepted(m) /\ m.id = "JOIN"
    /\ \E g \in m.groups :
        LET joined == [RequireGroup(g) EXCEPT ![g] = @ \cup {m.peer}]
        IN  Sending(Electorate(joined, {g} \cap node.groups), Answering(m.peer),
                    joined, <<Member("JOIN", m.peer, g)>>)

RecvLeave(m) ==
    /\ Accepted(m) /\ m.id = "LEAVE"
    /\ \E g \in m.groups :
        LET left == [RequireGroup(g) EXCEPT ![g] = @ \ {m.peer}]
        IN  Sending(Electorate(left, {g} \cap node.groups), Answering(m.peer),
                    left, <<Member("LEAVE", m.peer, g)>>)

\* The election behind it is ZyreElection's; here it ends now or later.  An ELECT
\* may be passed on to the group, or back to the father, who may be outside it.
RecvElection(m) ==
    /\ Accepted(m)
    /\ \E g \in m.groups :
        \/ /\ m.id = "ELECT"
           /\ Sending(Open, Answering(m.peer), RequireGroup(g), <<>>)
        \/ /\ m.id = "LEADER"
           /\ \E out \in {<<>>} \cup {<<Member("LEADER", p, g)>> : p \in Known} :
                Sending(RequireGroup(g)[g], Answering(m.peer), RequireGroup(g), out)

RecvGoodbye(m) ==
    /\ Accepted(m) /\ m.id = "GOODBYE"
    /\ \/ node.gossip /\ Removed(m.peer)
       \/ ~node.gossip /\ Outcome(Answering(m.peer), members, <<>>)

\* The poller looks at the pipe first.
Polls(socket) == Running /\ pipe = <<>> /\ socket \in node.polled

\* zyre_node_recv_peer
RecvPeer ==
    /\ Polls("inbox") /\ inbox # <<>>
    /\ LET m == Head(inbox)
       IN  \/ RecvHello(m) \/ RecvUnready(m) \/ RecvLost(m) \/ RecvData(m)
           \/ RecvPing(m) \/ RecvJoin(m) \/ RecvLeave(m) \/ RecvElection(m)
           \/ RecvGoodbye(m)
    /\ inbox' = Tail(inbox)
    /\ UNCHANGED <<pipes, slept, app, pings, dead, limits>>

\* zyre_node_recv_beacon, zyre_node_recv_gossip
Discover ==
    /\ Spend("discover")
    /\ \E p \in limits.cast :
        \/ /\ Polls("beacon") \/ Polls("gossip")
           /\ \E ok \in BOOLEAN : Outcome(RequirePeer(peers, p, ok), members, <<>>)
        \/ /\ Polls("beacon")
           /\ IF p \in Known THEN Removed(p) ELSE Ignored
    /\ UNCHANGED <<pipes, slept, app, world>>

\* The first thing zyre_node_actor does in a round, until there is a port.  It
\* is tried in vain while the interface is not available.
StartBeacon ==
    /\ Running /\ node.beacon /\ ~node.port
    /\ \/ node.endpoint /\ Abort("endpoint")
       \/ /\ ~node.endpoint
          /\ Only([node EXCEPT !.port = TRUE, !.endpoint = TRUE,
                               !.polled = @ \cup {"beacon", "inbox"}], <<>>)
    /\ UNCHANGED <<pipes, slept, app, world, limits>>

\* s_reap_interval, of unsigned numbers
Interval ==
    LET unsigned == {t \in {node.evasive, node.expired} : t >= 0}
    IN  IF \E t \in unsigned : t < Reap
        THEN CHOOSE t \in unsigned : \A u \in unsigned : t <= u
        ELSE Reap

\* zhash_delete of the peer at the cursor ends the walk through its bucket.
Visited(i) ==
    \A k \in 1 .. i - 1 :
        ~(/\ limits.bucket[Order[k]] = limits.bucket[Order[i]]
          /\ Order[k] \in Known /\ peers[Order[k]].expired <= 0)

\* zyre_node_ping_peer
PingPeer(p) ==
    CASE p \notin Known -> <<>>
      [] p \in Known /\ peers[p].expired <= 0 -> <<Exit(p)>>
      [] p \in Known /\ peers[p].expired > 0 /\ peers[p].evasive > 0 -> <<>>
      [] p \in Known /\ peers[p].expired > 0 /\ peers[p].evasive <= 0 ->
            <<Quiet("EVASIVE", p)>>
            \o IF peers[p].evasive <= -Interval THEN <<Quiet("SILENT", p)>> ELSE <<>>

Reached == {Order[i] : i \in {j \in DOMAIN Order : Visited(j)}}

\* Variant: a peer that has never said HELLO does not expire.
Overdue_Ready ==
    {p \in Known \cap Reached : peers[p].state = "ready" /\ peers[p].expired <= 0}

Overdue == {p \in Known \cap Reached : peers[p].expired <= 0}
Evading == {p \in Known \cap Reached : peers[p].expired > 0 /\ peers[p].evasive <= 0}

ReapDue ==
    /\ Running /\ slept >= Interval
    /\ pipe = <<>> /\ ("inbox" \in node.polled => inbox = <<>>)

\* The poll has expired with nothing to read.  A peer may be disconnected by its
\* PING, or by the elections that follow a removal.
ReapPeers ==
    /\ ReapDue
    /\ \E full \in Full(Evading),
          more \in Full(IF Overdue = {} THEN {} ELSE Electorate(members, node.groups)) :
        /\ Outcome(Disconnected([p \in Peer |-> IF p \in Overdue THEN Unknown ELSE peers[p]],
                                full \cup more),
                   WithoutPeers(Overdue),
                   Joined([i \in DOMAIN Order |->
                              IF Visited(i) THEN PingPeer(Order[i]) ELSE <<>>],
                          Len(Order)))
        /\ pings' = pings \cup ((Evading \cap Open) \ (dead \cup full))
    /\ slept' = 0
    /\ UNCHANGED <<pipes, app, inbox, dead, limits>>

-----------------------------------------------------------------------------
(***************************************************************************)
(* The peers and the clock.                                                *)
(***************************************************************************)
Say ==
    /\ Spend("message") /\ Len(inbox) < InboxBound
    /\ \E m \in Message :
        /\ m.peer \in limits.cast \ dead /\ m.id \in limits.says
        /\ \E g \in Group : m.groups \subseteq {g}
        /\ m.id \in {"SHOUT", "JOIN", "LEAVE", "ELECT", "LEADER"} => m.groups # {}
        /\ m.id \in {"WHISPER", "PING", "PING_OK", "GOODBYE"} => m.groups = {}
        /\ m.lost => m.id = "PING"
        /\ inbox' = Append(inbox, m)
    /\ UNCHANGED <<pipes, app, actor, todo, pings, dead>>

\* A PING to a peer that was disconnected since may have gone with the mailbox.
AnswerPing ==
    /\ \E p \in pings :
        /\ \/ /\ Len(inbox) < InboxBound
              /\ inbox' = Append(inbox, [peer |-> p, groups |-> {}, lost |-> FALSE,
                                         id |-> "PING_OK"])
           \/ ~peers[p].open /\ UNCHANGED inbox
        /\ pings' = pings \ {p}
    /\ UNCHANGED <<pipes, app, actor, todo, dead, limits>>

Die ==
    /\ Spend("die")
    /\ \E p \in limits.cast \ dead : dead' = dead \cup {p} /\ pings' = pings \ {p}
    /\ UNCHANGED <<pipes, app, actor, todo, inbox>>

Tick ==
    /\ Spend("tick")
    /\ limits.prompt => /\ pipe = <<>> /\ todo = <<>> /\ pings = {}
                        /\ ~(ReapDue /\ slept > 0)
                        /\ "inbox" \in node.polled => inbox = <<>>
    /\ slept' = Least(slept + 1, Reap)
    /\ peers' = [p \in Peer |->
            IF p \in Known
            THEN [peers[p] EXCEPT !.evasive = Most(@ - 1, -Reap),
                                  !.expired = Most(@ - 1, 0)]
            ELSE peers[p]]
    /\ UNCHANGED <<pipes, app, node, members, failed, todo, world>>

-----------------------------------------------------------------------------
\* zyre_new, zyre_node_new
Init ==
    /\ calling = Null /\ half = Null /\ answer = Null /\ seen = Blank /\ view = NoView
    /\ asked = [name |-> DefaultName, groups |-> {}, port |-> 1, gossip |-> FALSE,
                endpoint |-> FALSE, running |-> FALSE, stopped |-> FALSE,
                tuned |-> FALSE, empty |-> FALSE, careful |-> TRUE]
    /\ pipe = <<>> /\ replies = <<>> /\ events = <<>>
    /\ node = [name |-> DefaultName, groups |-> {}, beaconPort |-> 1,
               beacon |-> FALSE, port |-> FALSE, endpoint |-> FALSE,
               gossip |-> FALSE, contest |-> {}, polled |-> {}, evasive |-> Evasive,
               expired |-> Expired, terminated |-> FALSE]
    /\ peers = [p \in Peer |-> Unknown]
    /\ members = [g \in {} |-> {}]
    /\ todo = <<>> /\ slept = 0 /\ failed = Null
    /\ inbox = <<>> /\ pings = {} /\ dead = {}
    /\ limits \in Budgets

Round == Flush \/ RecvApi \/ RecvPeer \/ ReapPeers

Next ==
    \/ Whisper \/ Shout \/ Whispers \/ Shouts \/ SetName \/ SetHeader
    \/ SetBeaconPeerPort \/ SetInterval \/ SetCurve \/ SetPort
    \/ SetEvasiveTimeout \/ SetSilentTimeout \/ SetExpiredTimeout
    \/ SetContestInGroup \/ RequirePeerCall \/ GossipBind \/ GossipConnect
    \/ GossipUnpublishCall \/ Join \/ Leave \/ SetEndpoint \/ Start \/ Stop \/ Destroy
    \/ Uuid \/ NameOf \/ Peers \/ PeersByGroup \/ PeerAddress \/ PeerHeaderValue
    \/ OwnGroups \/ PeerGroups \/ Dump
    \/ Return \/ TakeEvent \/ GetMsg
    \/ Round \/ Discover \/ StartBeacon
    \/ Say \/ AnswerPing \/ Die \/ Tick

Spec == Init /\ [][Next]_vars

\* The node's thread runs, the application takes the replies it waits for and
\* reads its events when it is not waiting, peers answer, time passes.
Fairness ==
    /\ WF_vars(Round) /\ WF_vars(Return) /\ WF_vars(TakeEvent)
    /\ WF_vars(AnswerPing) /\ SF_vars(Tick)

FairSpec == Spec /\ Fairness

-----------------------------------------------------------------------------
(***************************************************************************)
(* Properties.                                                             *)
(***************************************************************************)
Ticks == Timeout \cup {Evasive, Expired}
NodeState == [name: Name, groups: SUBSET Group, beaconPort: {0, 1},
              beacon: BOOLEAN, port: BOOLEAN, endpoint: BOOLEAN, gossip: BOOLEAN,
              contest: SUBSET Group, polled: SUBSET {"inbox", "beacon", "gossip"},
              evasive: Ticks, expired: Ticks, terminated: BOOLEAN]
PeerState == [state: {"unknown", "known", "ready"}, open: BOOLEAN, met: BOOLEAN,
              evasive: Int, expired: Nat]

\* The node's state stays well-typed, and so does what its handlers leave to
\* be written and what the application has asked for.
TypeOK ==
    /\ node \in NodeState
    /\ peers \in [Peer -> PeerState]
    /\ DOMAIN members \subseteq Group /\ \A g \in DOMAIN members : members[g] \subseteq Peer
    /\ slept \in Nat
    /\ pings \subseteq Peer \ dead /\ dead \subseteq Peer
    /\ inbox \in Seq(Message)
    /\ asked.groups \subseteq Group /\ asked.name \in Name
    /\ Len(pipe) <= Hwm /\ Len(events) <= Hwm

IsReply(out) == out.to = "pipe"

\* While a call waits, its command, its reply to be written or its reply is
\* on the way, and it is the only one; otherwise none is.  The reply that is
\* taken is the one to the call, even after a message without frames.
Paired ==
    LET waiting == {i \in DOMAIN pipe : pipe[i].name \in Calls}
        written == {i \in DOMAIN todo : IsReply(todo[i])}
    IN  /\ (calling # Null /\ failed = Null /\ ~asked.empty) =>
              \/ /\ waiting = {Len(pipe)} /\ pipe[Len(pipe)] = calling
                 /\ written = {} /\ replies = <<>>
              \/ /\ waiting = {} /\ replies = <<>>
                 /\ \E i \in written : written = {i} /\ todo[i].kind = calling.name
              \/ /\ waiting = {} /\ written = {}
                 /\ Len(replies) = 1 /\ replies[1].kind = calling.name
        /\ calling = Null => waiting = {} /\ written = {} /\ replies = <<>>
        /\ answer # Null => answer.kind = answer.to.name

\* What a query answers takes in every command posted before it.
ReadsItsWrites ==
    (replies # <<>> /\ ~asked.empty) =>
        /\ replies[1].kind = "OWN GROUPS" => replies[1].value = asked.groups
        /\ replies[1].kind = "NAME" => replies[1].value = asked.name

\* What is on its way to the application: the events written and not taken, and
\* what a handler has still to write, its reply included.
Coming == [i \in 1 .. Len(events) |-> Event(events[i])] \o todo

\* What the application notes down of what is written to it.
Learns(v, out) == IF IsReply(out) THEN v ELSE Note(v, EventNew(out.frames))

\* An application that reads its events keeps exactly the peers that were
\* announced and are still in the node's table, with their headers and endpoints,
\* and who is in which group.  Those are all the peers that are ready, and those
\* that were disconnected since without an event: at EAGAIN, or because another
\* peer was found at their endpoint.
ViewFollows ==
    LET after[k \in 0 .. Len(Coming)] ==
            IF k = 0 THEN view ELSE Learns(after[k - 1], Coming[k])
        final == after[Len(Coming)]
        met == {p \in Peer : peers[p].met}
    IN  /\ final.at = [p \in Peer |-> IF p \in met THEN <<"at", p>> ELSE Null]
        /\ final.headers = [p \in Peer |-> IF p \in met THEN <<"headers", p>> ELSE Null]
        /\ final.groups = [g \in Group |->
                              IF g \in DOMAIN members THEN members[g] ELSE {}]
        /\ \A g \in DOMAIN members : members[g] \subseteq met
        /\ {p \in Peer : peers[p].state = "ready"} \subseteq met /\ met \subseteq Known

\* No assertion of the node fails while the application keeps to the
\* documented order of its calls and sends no message without frames, which may
\* swallow one of them; "port" apart, which is for want of ports.
CarefulNeverAborts == (asked.careful /\ ~asked.empty) => failed \in {Null, "port"}

\* The poller holds no actor that was destroyed or never made, and a node that
\* is reachable is listening until it is stopped.
PollsWhatItHas ==
    /\ "beacon" \in node.polled => node.beacon
    /\ "gossip" \in node.polled => node.gossip
    /\ (node.port /\ ~asked.stopped) => "inbox" \in node.polled

\* As long as everybody is prompt, a peer that answers and whose mailbox is
\* connected is neither expired nor, unless it shares its bucket of the hash
\* table, called silent.
LivePeerKept ==
    (limits.prompt /\ ReapDue /\ ~asked.tuned /\ ~asked.stopped) =>
        \A p \in Open \ dead : peers[p].state = "ready" =>
            /\ p \notin Overdue
            /\ (\A q \in Peer \ {p} : limits.bucket[q] # limits.bucket[p]) =>
                    (p \in Evading => peers[p].evasive > -Interval)

Over == failed # Null \/ node.terminated

\* A call returns, unless the node waits for the application to read an event
\* while the application waits for the node, or the command was swallowed by
\* a message without frames before it.
Answered == (calling # Null) ~> (calling = Null \/ Blocked \/ Over \/ asked.empty)

\* Once the peers pause, one that is gone, or that the node does not listen to
\* because it was disconnected or has not said HELLO, is removed unless it says
\* HELLO, whatever the timeouts are set to and whoever shares its bucket of the
\* hash table.
SilentRemoved ==
    (/\ <>[]("inbox" \in node.polled => inbox = <<>>)
     /\ limits.steps["tick"] = Unlimited) =>
        \A p \in Peer : (p \in Known /\ (p \in dead \/ peers[p].state # "ready"))
                            ~> (\/ p \notin Known \/ Over \/ (Blocked /\ calling # Null)
                                \/ p \notin dead /\ peers[p].state = "ready")

=============================================================================
