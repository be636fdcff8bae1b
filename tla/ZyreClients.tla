----------------------------- MODULE ZyreClients ------------------------------
(***************************************************************************)
(* The programs that come with Zyre and its self tests, over the service   *)
(* the node gives them: perf_local and perf_remote, zpinger, ztester_beacon *)
(* and ztester_gossip, the examples chat and minimal, the tests of zyre.c  *)
(* and zyre_event.c.                                                       *)
(*                                                                         *)
(* The first part is the node as its client sees it: groups, mailboxes     *)
(* that keep the order, events in a queue.  ZyreNode models it in full;    *)
(* here nobody fails, sequence numbers are right and PING is left out.  A  *)
(* command takes effect at the call: commands and events are the only ties *)
(* between a client and its node, so a command that waits in the pipe is   *)
(* the same as a client that calls later.                                  *)
(*                                                                         *)
(* Each behaviour is one program with its processes (Programs).  A sleep   *)
(* lasts until what the sleeper sent has arrived (minimal) or the network  *)
(* is calm (the self tests): the programs count on it.                     *)
(***************************************************************************)
EXTENDS Integers, Sequences, FiniteSets, Functions, SequencesExt

CONSTANTS
    Node,           \* processes with a node: 1 .. 3
    Programs,       \* choices of a role for each of them
    Tests,          \* self tests to run, names of scripts
    MaxMessage,     \* perf_local's max_message
    Rounds,         \* minimal's ten rounds
    MaxNodes,       \* a tester's actors
    MaxIterations,  \* a tester's max_iterations
    Lines,          \* bound: lines typed into a chat
    Moves           \* bound: random joins and leaves of a tester's actor

\* Who runs its own node, joins a room and talks; an actor of a tester; the
\* self tests' node; nobody.
Messages == {"local", "remote", "pinger", "chat", "minimal"}
Roles    == Messages \cup {"tester", "tested", "none"}

\* The self tests run alone, their nodes are 1 and 2.
ASSUME Alone ==
    /\ Programs \subseteq [Node -> Roles]
    /\ \A program \in Programs : \A n \in Node : program[n] = "tested" =>
        /\ program[1] = "tested" /\ program[2] = "tested"
        /\ \A m \in Node : program[m] \in {"tested", "none"}
    /\ Tests \subseteq {"zyre", "event", "beacon", "gossip"}

\* perf_local takes whoever enters for a remote: it runs with perf_remotes only.
ASSUME Apart ==
    \A program \in Programs : \A l \in Node : program[l] = "local" =>
        \A m \in Node \ {l} : program[m] \in {"remote", "none"}

ASSUME Bounds ==
    /\ IsFiniteSet(Node) /\ Node = 1 .. Cardinality(Node) /\ {1, 2} \subseteq Node
    /\ \A n \in {MaxMessage, Rounds, MaxIterations, Lines, Moves} : n \in Nat
    /\ MaxNodes \in Nat \ {0}

VARIABLES
    role,       \* role[n]: the program process n runs
    node,       \* node[n]: its Zyre node
    app,        \* app[n]: its own state
    main        \* the main thread of a tester or of the self tests

vars == <<role, node, app, main>>

-------------------------------------------------------------------------------
(* The service *)

\* No group, no text.
Blank == "-"

Msg(id, group, text) == [id |-> id, group |-> group, text |-> text]
Hello(groups) == [id |-> "HELLO", groups |-> groups]
Event(type, peer, group, text) ==
    [type |-> type, peer |-> peer, group |-> group, text |-> text]

\* out[m]: what is under way to m; due: peers whose evasive timer is short
NoNode ==
    [state |-> "new", own |-> {}, peers |-> {}, ready |-> {},
     member |-> [m \in Node |-> {}], out |-> [m \in Node |-> <<>>],
     events |-> <<>>, impatient |-> FALSE, due |-> {}]

Put(s, to, msg) ==
    [s EXCEPT !.out = [m \in Node |-> IF m \in to THEN Append(@[m], msg) ELSE @[m]]]
Tell(s, event) == [s EXCEPT !.events = Append(@, event)]

Start(s) == [s EXCEPT !.state = "up"]

Join(s, g) ==
    IF g \in s.own THEN s
    ELSE Put([s EXCEPT !.own = @ \cup {g}], s.peers, Msg("JOIN", g, Blank))

Leave(s, g) ==
    IF g \notin s.own THEN s
    ELSE Put([s EXCEPT !.own = @ \ {g}], s.peers, Msg("LEAVE", g, Blank))

Whisper(s, m, text) == Put(s, s.peers \cap {m}, Msg("WHISPER", Blank, text))

InGroup(s, g) == {m \in Node : g \in s.member[m]}
Shout(s, g, text) == Put(s, InGroup(s, g), Msg("SHOUT", g, text))

\* GOODBYE goes out with gossip; with beacons the peers hear it otherwise.
Stop(n, s, gossip) ==
    LET said == IF gossip THEN Put(s, s.peers, Msg("GOODBYE", Blank, Blank)) ELSE s
    IN Tell([said EXCEPT !.state = "stopped"], Event("STOP", n, Blank, Blank))

\* What has not left the mailboxes may be lost with them.
Destroyed(s, kept) ==
    [NoNode EXCEPT !.state = "gone",
                   !.out = [m \in Node |-> SubSeq(s.out[m], 1, kept[m])]]
Keeps(s) ==
    {[m \in Node |-> Len(s.out[m])], [m \in Node |-> 0]}
Destroy(n) ==
    \E kept \in Keeps(node[n]) : node' = [node EXCEPT ![n] = Destroyed(@, kept)]

\* As in RequirePeer, without the groups.
RequirePeer_NoGroups(s, m) ==
    IF m \in s.peers THEN s
    ELSE Put([s EXCEPT !.peers = @ \cup {m}], {m}, Hello({}))

RequirePeer(s, m) ==
    IF m \in s.peers THEN s
    ELSE Put([s EXCEPT !.peers = @ \cup {m}], {m}, Hello(s.own))

\* As in RemovePeer, without zyre_node_delete_peer.
RemovePeer_KeepGroups(s, m) ==
    Tell([s EXCEPT !.peers = @ \ {m}, !.ready = @ \ {m}, !.due = @ \ {m}, !.out[m] = <<>>],
         Event("EXIT", m, Blank, Blank))

RemovePeer(s, m) ==
    Tell([s EXCEPT !.peers = @ \ {m}, !.ready = @ \ {m}, !.due = @ \ {m},
                   !.member[m] = {}, !.out[m] = <<>>],
         Event("EXIT", m, Blank, Blank))

\* One JOIN event for each of the groups.
JoinPeerGroups(s, m, groups) ==
    LET order == SetToSeq(groups)
        joins == [i \in 1 .. Cardinality(groups) |-> Event("JOIN", m, order[i], Blank)]
    IN [s EXCEPT !.member[m] = @ \cup groups, !.events = @ \o joins]

\* As in RecvHello, ENTER after the JOINs.
RecvHello_JoinFirst(s, m, msg) ==
    Tell([JoinPeerGroups(RequirePeer(s, m), m, msg.groups) EXCEPT !.ready = @ \cup {m}],
         Event("ENTER", m, Blank, Blank))

RecvHello(s, m, msg) ==
    JoinPeerGroups(
        Tell([RequirePeer(s, m) EXCEPT !.ready = @ \cup {m}],
             Event("ENTER", m, Blank, Blank)), m, msg.groups)

RecvFromReady(s, m, msg) ==
    CASE msg.id = "JOIN" -> JoinPeerGroups(s, m, {msg.group})
      [] msg.id = "LEAVE" ->
            Tell([s EXCEPT !.member[m] = @ \ {msg.group}], Event("LEAVE", m, msg.group, Blank))
      [] msg.id = "GOODBYE" -> RemovePeer(s, m)
      [] msg.id \in {"WHISPER", "SHOUT"} -> Tell(s, Event(msg.id, m, msg.group, msg.text))

Refresh(s, m) ==
    IF s.impatient /\ m \in s.peers THEN [s EXCEPT !.due = @ \cup {m}] ELSE s

Recv(s, m, msg) ==
    Refresh(CASE msg.id = "HELLO" -> RecvHello(s, m, msg)
              [] msg.id # "HELLO" /\ m \in s.ready -> RecvFromReady(s, m, msg)
              [] OTHER -> s, m)

\* A beacon or a gossip tuple of m reaches n.
Discover(n, m) ==
    /\ n # m /\ node[n].state = "up" /\ node[m].state = "up"
    /\ m \notin node[n].peers
    /\ node' = [node EXCEPT ![n] = RequirePeer(@, m)]
    /\ UNCHANGED <<role, app, main>>

Deliver(m, n) ==
    /\ node[n].state = "up" /\ node[m].out[n] # <<>>
    /\ LET popped == [node EXCEPT ![m].out[n] = Tail(@)]
       IN node' = [popped EXCEPT ![n] = Recv(@, m, Head(node[m].out[n]))]
    /\ UNCHANGED <<role, app, main>>

\* The beacon of a node that stops, or the silence of one that has gone.
Expire(n, m) ==
    /\ node[n].state = "up" /\ m \in node[n].peers
    /\ node[m].state \in {"stopped", "gone"}
    /\ node' = [node EXCEPT ![n] = RemovePeer(@, m)]
    /\ UNCHANGED <<role, app, main>>

PingPeer(s, m) == Tell([s EXCEPT !.due = @ \ {m}], Event("EVASIVE", m, Blank, Blank))

Evasive(n, m) ==
    /\ node[n].state = "up" /\ m \in node[n].due
    /\ node' = [node EXCEPT ![n] = PingPeer(@, m)]
    /\ UNCHANGED <<role, app, main>>

-------------------------------------------------------------------------------
(* A process: it starts its node, joins its group and takes events.        *)

\* pipe: commands from the main thread; peers, hello, sent, got: the counters
\* of perf_local, sent and got those of minimal and of a tester's actor too.
NewApp == [at |-> "new", pipe |-> <<>>, peers |-> <<>>, hello |-> 0, sent |-> 0, got |-> 0]

Locals    == {n \in Node : role[n] = "local"}
Remotes   == {n \in Node : role[n] = "remote"}
MaxNode   == Cardinality(Remotes)
Room(n) ==
    CASE role[n] = "chat" -> "CHAT" [] role[n] = "minimal" -> "GROUP" [] OTHER -> "GLOBAL"

At(n, program, at) == role[n] = program /\ app[n].at = at
Waiting(n) == node[n].events # <<>>
First(n) == Head(node[n].events)
Taken(s) == [s EXCEPT !.events = Tail(@)]

\* n goes on with application state a and node s.
Goes(n, a, s) ==
    /\ app' = [app EXCEPT ![n] = a]
    /\ node' = [node EXCEPT ![n] = s]
    /\ UNCHANGED <<role, main>>

\* n destroys its node and ends.
Ends(n) ==
    /\ app' = [app EXCEPT ![n].at = "done"]
    /\ Destroy(n)
    /\ UNCHANGED <<role, main>>

\* perf_remote runs first (perf_remote.c:19), and its main thread starts one
\* node after the other.
Begin(n) ==
    /\ role[n] \in Messages /\ app[n].at = "new"
    /\ \A m \in Node : role[m] = "remote" =>
        /\ role[n] = "local" => app[m].at = "run"
        /\ role[n] = "remote" /\ m < n => app[m].at # "new"
    /\ Goes(n, [app[n] EXCEPT !.at = "join"], Start(node[n]))

JoinRoom(n) ==
    /\ role[n] \in Messages /\ app[n].at = "join"
    /\ Goes(n, [app[n] EXCEPT !.at = "run"], Join(node[n], Room(n)))

-------------------------------------------------------------------------------
(* perf_local *)

GreetingsDone(a) == Len(a.peers) = MaxNode /\ a.hello = MaxNode

\* Counts the ENTERs and the greetings up to the number of remotes.
Greet(a, event) ==
    LET counted ==
        CASE event.type = "ENTER" /\ Len(a.peers) < MaxNode ->
                [a EXCEPT !.peers = Append(@, event.peer)]
          [] event.type = "WHISPER" /\ a.hello < MaxNode /\ event.text = "R:HELLO" ->
                [a EXCEPT !.hello = @ + 1]
          [] OTHER -> a
    IN IF GreetingsDone(counted) THEN [counted EXCEPT !.at = "WHISPER"] ELSE counted

LocalGreets(n) ==
    /\ At(n, "local", "run") /\ Waiting(n)
    /\ Goes(n, Greet(app[n], First(n)), Taken(node[n]))

\* The two measurements: at is the type of event that is counted.
ToSend(at)  == IF at = "WHISPER" THEN MaxMessage ELSE MaxMessage \div MaxNode
Expected(at) == IF at = "WHISPER" THEN MaxMessage ELSE (MaxMessage \div MaxNode) * MaxNode
Answer(at)  == IF at = "WHISPER" THEN "R:WHISPER" ELSE "R:SHOUT"

Sends(n, at, drain) ==
    /\ At(n, "local", at) /\ app[n].sent < ToSend(at)
    /\ Goes(n, [app[n] EXCEPT !.at = drain, !.sent = @ + 1],
            IF at = "WHISPER"
            THEN Whisper(node[n], app[n].peers[(app[n].sent % MaxNode) + 1], "S:WHISPER")
            ELSE Shout(node[n], "GLOBAL", "S:SHOUT"))

\* s_node_recv
NodeRecv(a, at, event) ==
    IF event.type = at /\ event.text = Answer(at) THEN [a EXCEPT !.got = @ + 1] ELSE a

Drains(n, at, drain) ==
    /\ At(n, "local", drain)
    /\ IF Waiting(n)
       THEN Goes(n, NodeRecv(app[n], at, First(n)), Taken(node[n]))
       ELSE Goes(n, [app[n] EXCEPT !.at = at], node[n])

Awaits(n, at) ==
    /\ At(n, "local", at) /\ app[n].sent = ToSend(at) /\ app[n].got < Expected(at)
    /\ Waiting(n)
    /\ Goes(n, NodeRecv(app[n], at, First(n)), Taken(node[n]))

Measured(n, at) == At(n, "local", at) /\ app[n].sent = ToSend(at) /\ app[n].got >= Expected(at)

SecondMeasurement(n) ==
    /\ Measured(n, "WHISPER")
    /\ Goes(n, [app[n] EXCEPT !.at = "SHOUT", !.sent = 0, !.got = 0], node[n])

LocalEnds(n) == Measured(n, "SHOUT") /\ Ends(n)

PerfLocal(n) ==
    \/ LocalGreets(n) \/ SecondMeasurement(n) \/ LocalEnds(n)
    \/ Sends(n, "WHISPER", "whispered") \/ Drains(n, "WHISPER", "whispered")
    \/ Sends(n, "SHOUT", "shouted") \/ Drains(n, "SHOUT", "shouted")
    \/ Awaits(n, "WHISPER") \/ Awaits(n, "SHOUT")

-------------------------------------------------------------------------------
(* perf_remote, zpinger *)

\* As in RemoteAnswer, to_group kept when the text is not S:SHOUT.
RemoteAnswer_KeepGroup(s, event) ==
    CASE event.type = "ENTER" -> Whisper(s, event.peer, "R:HELLO")
      [] event.type = "WHISPER" /\ event.text = "S:WHISPER" -> Whisper(s, event.peer, "R:WHISPER")
      [] event.type = "SHOUT" -> Shout(s, event.group, "R:SHOUT")
      [] OTHER -> s

RemoteAnswer(s, event) ==
    CASE event.type = "ENTER" -> Whisper(s, event.peer, "R:HELLO")
      [] event.type = "WHISPER" /\ event.text = "S:WHISPER" -> Whisper(s, event.peer, "R:WHISPER")
      [] event.type = "SHOUT" /\ event.text = "S:SHOUT" -> Shout(s, event.group, "R:SHOUT")
      [] OTHER -> s

RemoteTakes(n) ==
    /\ At(n, "remote", "run") /\ Waiting(n)
    /\ Goes(n, app[n], RemoteAnswer(Taken(node[n]), First(n)))

\* The user stops perf_remote when perf_local has reported.
RemoteStopped(n) ==
    /\ At(n, "remote", "run") /\ \A l \in Locals : app[l].at = "done"
    /\ Ends(n)

\* As in PingerAnswer, answering SHOUT as well.
PingerAnswer_Shout(s, event) ==
    CASE event.type = "ENTER" -> Whisper(s, event.peer, "Hello")
      [] event.type \in {"WHISPER", "SHOUT"} -> Shout(s, "GLOBAL", "Hello")
      [] OTHER -> s

PingerAnswer(s, event) ==
    CASE event.type = "ENTER" -> Whisper(s, event.peer, "Hello")
      [] event.type = "WHISPER" -> Shout(s, "GLOBAL", "Hello")
      [] OTHER -> s

PingerTakes(n) ==
    /\ At(n, "pinger", "run") /\ Waiting(n)
    /\ Goes(n, app[n], PingerAnswer(Taken(node[n]), First(n)))

PingerInterrupted(n) == At(n, "pinger", "run") /\ Ends(n)

-------------------------------------------------------------------------------
(* chat: main types lines into the pipe of chat_actor.  minimal            *)

TypeLine(n) ==
    /\ role[n] = "chat" /\ app[n].at = "run" /\ app[n].got < Lines
    /\ "$TERM" \notin Range(app[n].pipe)
    /\ Goes(n, [app[n] EXCEPT !.pipe = Append(@, "SHOUT"), !.got = @ + 1], node[n])

EndOfFile(n) ==
    /\ role[n] = "chat" /\ app[n].at = "run"
    /\ "$TERM" \notin Range(app[n].pipe)
    /\ Goes(n, [app[n] EXCEPT !.pipe = Append(@, "$TERM")], node[n])

ChatCommand(n) ==
    /\ At(n, "chat", "run") /\ app[n].pipe # <<>>
    /\ LET a == [app[n] EXCEPT !.pipe = Tail(@)]
       IN IF Head(app[n].pipe) = "$TERM"
          THEN Goes(n, [a EXCEPT !.at = "stop"], node[n])
          ELSE Goes(n, [a EXCEPT !.sent = @ + 1], Shout(node[n], "CHAT", "line"))

ChatPrints(n) ==
    /\ At(n, "chat", "run") /\ Waiting(n)
    /\ Goes(n, app[n], Taken(node[n]))

\* zyre_stop, with beacons, and zyre_destroy
Stops(n) ==
    /\ role[n] \in {"chat", "minimal"} /\ app[n].at = "stop"
    /\ Goes(n, [app[n] EXCEPT !.at = "destroy"], Stop(n, node[n], FALSE))
Closes(n) ==
    /\ role[n] \in {"chat", "minimal"} /\ app[n].at = "destroy"
    /\ Ends(n)

MinimalShouts(n) ==
    /\ At(n, "minimal", "run") /\ app[n].sent < Rounds
    /\ Goes(n, [app[n] EXCEPT !.at = "sleep"], Shout(node[n], "GROUP", "Hello"))

MinimalSleeps(n) ==
    /\ At(n, "minimal", "sleep") /\ \A m \in Node : node[m].state = "up" => node[n].out[m] = <<>>
    /\ Goes(n, [app[n] EXCEPT !.at = "recv"], node[n])

\* As in MinimalReceives, a round lasting until a SHOUT is read.
MinimalReceives_Shout(n) ==
    /\ At(n, "minimal", "recv") /\ Waiting(n)
    /\ LET rounds == app[n].sent + IF First(n).type = "SHOUT" THEN 1 ELSE 0
           at == CASE rounds = app[n].sent -> "recv"
                   [] rounds = Rounds -> "stop"
                   [] OTHER -> "run"
       IN Goes(n, [app[n] EXCEPT !.at = at, !.sent = rounds], Taken(node[n]))

MinimalReceives(n) ==
    /\ At(n, "minimal", "recv") /\ Waiting(n)
    /\ Goes(n, [app[n] EXCEPT !.at = IF app[n].sent + 1 = Rounds THEN "stop" ELSE "run",
                              !.sent = @ + 1],
            Taken(node[n]))

Minimal(n) == MinimalShouts(n) \/ MinimalSleeps(n) \/ MinimalReceives(n)

-------------------------------------------------------------------------------
(* ztester_gossip and ztester_beacon: main toggles its actors at random,   *)
(* each of them answers events at random.                                  *)

Random == "GROUP"      \* one of the groups an actor joins and leaves

Replies(s, event) ==
    CASE event.type \in {"ENTER", "EXIT"} -> {Whisper(s, event.peer, "counter")}
      [] event.type = "WHISPER" -> {s, Whisper(s, event.peer, "counter")}
      [] event.type = "SHOUT" ->
            LET toPeer == {s, Whisper(s, event.peer, "counter")}
            IN toPeer \cup {Shout(t, event.group, "counter") : t \in toPeer}
      [] OTHER -> {s}

ActorTakes(n) ==
    /\ At(n, "tester", "run") /\ Waiting(n)
    /\ \E s \in Replies(Taken(node[n]), First(n)) : Goes(n, app[n], s)

ActorMoves(n) ==
    /\ At(n, "tester", "run") /\ app[n].sent < Moves
    /\ \E s \in {Join(node[n], Random), Leave(node[n], Random)} :
        Goes(n, [app[n] EXCEPT !.sent = @ + 1], s)

\* zpoller_wait returns NULL when its time is up, too.
ActorGivesUp(n) ==
    /\ At(n, "tester", "run") /\ ~Waiting(n) /\ app[n].pipe = <<>>
    /\ Ends(n)

ActorTerm(n) ==
    /\ At(n, "tester", "run") /\ app[n].pipe # <<>>
    /\ Ends(n)

None == 0
Actors == 1 .. MaxNodes
Testing == \E n \in Node : role[n] = "tester"
Fresh == {n \in Node : role[n] = "tester" /\ app[n].at = "new"}
Free == Testing /\ main.at = "run" /\ main.waits = None

ToggleOn(i) ==
    /\ Free /\ main.count < MaxIterations /\ main.actor[i] = None
    /\ \E n \in Fresh :
        /\ \A m \in Fresh : n <= m
        /\ app' = [app EXCEPT ![n].at = "run"]
        /\ node' = [node EXCEPT ![n] = Start(@)]
        /\ main' = [main EXCEPT !.actor[i] = n, !.count = @ + 1]
    /\ UNCHANGED role

\* zactor_destroy: sends $TERM and waits for the end of the actor.
Terminate(i) ==
    /\ app' = [app EXCEPT ![main.actor[i]].pipe = Append(@, "$TERM")]
    /\ UNCHANGED <<role, node>>

ToggleOff(i) ==
    /\ Free /\ main.count < MaxIterations /\ main.actor[i] # None
    /\ main' = [main EXCEPT !.waits = i, !.count = @ + 1]
    /\ Terminate(i)

StopRemaining(i) ==
    /\ Free /\ main.count = MaxIterations
    /\ main.actor[i] # None /\ \A j \in Actors : j < i => main.actor[j] = None
    /\ main' = [main EXCEPT !.waits = i]
    /\ Terminate(i)

ActorEnded(i) ==
    /\ Testing /\ main.waits = i /\ app[main.actor[i]].at = "done"
    /\ main' = [main EXCEPT !.waits = None, !.actor[i] = None]
    /\ UNCHANGED <<role, app, node>>

TesterEnds ==
    /\ Free /\ main.count = MaxIterations /\ \A i \in Actors : main.actor[i] = None
    /\ main' = [main EXCEPT !.at = "done"]
    /\ UNCHANGED <<role, app, node>>

Tester ==
    \/ \E i \in Actors : ToggleOn(i) \/ ToggleOff(i) \/ StopRemaining(i) \/ ActorEnded(i)
    \/ TesterEnds

-------------------------------------------------------------------------------
(* The self tests: one thread with two nodes.  A script is a sequence of   *)
(* calls, of the events it asserts and of the sizes it asserts.            *)

Do(n, what) == [n |-> n, what |-> what]
With(n, what, arg) == [n |-> n, what |-> what, arg |-> arg]
Expect(n, types) == [i \in 1 .. Len(types) |-> With(n, "expect", types[i])]
Sleep == Do(1, "sleep")

Met ==
    << Do(1, "start"), Do(2, "start"), With(1, "join", "GLOBAL"), With(2, "join", "GLOBAL"),
       Sleep >>

Interconnect ==
    Met \o << With(1, "peers", 1), With(1, "join", "one"), With(2, "join", "two"), Sleep,
              With(1, "own_groups", 2), With(1, "peer_groups", 2), With(2, "headers", 1),
              Do(1, "shout") >>

Patience ==
    << Do(1, "set_evasive_timeout"), Do(1, "shout"), Do(2, "shout") >>
    \o Expect(1, <<"SHOUT">>) \o Expect(2, <<"SHOUT">>) \o Expect(1, <<"EVASIVE">>)

ZyreTest ==
    Interconnect
    \o Expect(2, <<"ENTER", "JOIN", "JOIN", "SHOUT">>) \o Expect(1, <<"ENTER", "JOIN", "JOIN">>)
    \o Patience
    \o << Do(2, "stop") >> \o Expect(2, <<"STOP">>)
    \o << Do(1, "stop"), Do(1, "destroy"), Do(2, "destroy") >>

Parted ==
    << With(1, "leave", "GLOBAL"), With(2, "leave", "GLOBAL"), Do(1, "stop"), Do(2, "stop"),
       Sleep, Do(1, "destroy"), Do(2, "destroy") >>

CurveBeaconTest ==
    Met \o << Do(1, "shout") >> \o Expect(2, <<"ENTER", "JOIN", "SHOUT">>) \o Parted

CurveGossipTest == Met \o << Do(1, "shout") >> \o Expect(2, <<"ENTER">>) \o Parted

\* JOIN and SHOUT are read as long as they are what comes.
EventTest ==
    << Do(1, "start"), With(1, "join", "GLOBAL"), Do(2, "start"), With(2, "join", "GLOBAL"),
       Sleep, Do(1, "shout"), Sleep >>
    \o Expect(2, <<"ENTER">>)
    \o << With(2, "tolerate", "JOIN"), With(2, "tolerate", "SHOUT"),
          Do(1, "destroy"), Do(2, "destroy") >>

Script ==
    CASE main.test = "zyre" -> ZyreTest [] main.test = "beacon" -> CurveBeaconTest
      [] main.test = "gossip" -> CurveGossipTest [] main.test = "event" -> EventTest
      [] OTHER -> <<>>

Running == main.test # "none" /\ main.at = "run" /\ ~main.failed
Line == Script[main.count + 1]

\* The script goes on to its next line unless an assert fails.
Asserted(holds, lines) ==
    /\ main' = [main EXCEPT !.count = @ + lines, !.failed = ~holds,
                            !.at = IF main.count + lines = Len(Script) THEN "done" ELSE "run"]
    /\ UNCHANGED <<role, app>>

Called(s, n, call) ==
    CASE call.what = "start" -> Start(s)
      [] call.what = "join" -> Join(s, call.arg)
      [] call.what = "leave" -> Leave(s, call.arg)
      [] call.what = "shout" -> Shout(s, "GLOBAL", "Hello, World")
      [] call.what = "set_evasive_timeout" -> [s EXCEPT !.impatient = TRUE]
      [] call.what = "stop" -> Stop(n, s, main.test # "beacon")

TestCalls ==
    /\ Running /\ Line.what \in {"start", "join", "leave", "shout", "set_evasive_timeout", "stop"}
    /\ node' = [node EXCEPT ![Line.n] = Called(@, Line.n, Line)]
    /\ Asserted(TRUE, 1)

TestDestroys ==
    /\ Running /\ Line.what = "destroy"
    /\ Destroy(Line.n)
    /\ Asserted(TRUE, 1)

Calm ==
    \A n, m \in Node : (n # m /\ node[n].state = "up" /\ node[m].state = "up")
                            => m \in node[n].ready /\ node[n].out[m] = <<>>

TestSleeps == Running /\ Line.what = "sleep" /\ Calm /\ Asserted(TRUE, 1) /\ UNCHANGED node

TestReceives ==
    /\ Running /\ Line.what \in {"expect", "tolerate"} /\ Waiting(Line.n)
    /\ node' = [node EXCEPT ![Line.n] = Taken(@)]
    /\ LET matches == First(Line.n).type = Line.arg
           last == Line.arg = "SHOUT"
       IN IF Line.what = "expect" THEN Asserted(matches, 1)
          ELSE Asserted(TRUE, IF matches \/ last THEN 1 ELSE 2)

TestChecks ==
    /\ Running
    /\ LET s == node[Line.n]
       IN \/ Line.what = "peers" /\ Asserted(Cardinality(s.peers) = Line.arg, 1)
          \/ Line.what = "own_groups" /\ Asserted(Cardinality(s.own) = Line.arg, 1)
          \/ /\ Line.what = "peer_groups"
             /\ Asserted(Cardinality(UNION Range(s.member)) = Line.arg, 1)
          \/ Line.what = "headers" /\ Asserted(Line.arg \in s.ready, 1)
    /\ UNCHANGED node

SelfTest == TestCalls \/ TestDestroys \/ TestSleeps \/ TestReceives \/ TestChecks

-------------------------------------------------------------------------------
Init ==
    /\ role \in Programs
    /\ node = [n \in Node |-> NoNode]
    /\ app = [n \in Node |-> NewApp]
    /\ \E test \in IF \E n \in Node : role[n] = "tested" THEN Tests ELSE {"none"} :
        main = [at |-> "run", test |-> test, count |-> 0, failed |-> FALSE,
                actor |-> [i \in Actors |-> None], waits |-> None]

Network(n) ==
    \/ \E m \in Node : Discover(n, m) \/ Deliver(m, n) \/ Expire(n, m) \/ Evasive(n, m)

\* What a process does as long as it is scheduled.
Program(n) ==
    \/ Begin(n) \/ JoinRoom(n) \/ PerfLocal(n) \/ RemoteTakes(n) \/ RemoteStopped(n)
    \/ PingerTakes(n) \/ ChatCommand(n) \/ ChatPrints(n) \/ Stops(n) \/ Closes(n)
    \/ Minimal(n) \/ ActorTakes(n)

\* What the user, chance or the clock decides.
Chance(n) ==
    \/ PingerInterrupted(n) \/ TypeLine(n) \/ EndOfFile(n) \/ ActorMoves(n) \/ ActorGivesUp(n)

Work == SelfTest \/ \E n \in Node : Network(n) \/ Program(n)

Next == Work \/ Tester \/ \E n \in Node : ActorTerm(n) \/ Chance(n)

\* Something goes on as long as there is work.  A tester's actor that has both
\* events and $TERM waiting takes $TERM at last: zpoller_wait returns the first
\* of its readers that is ready, the pipe.
Fairness ==
    /\ WF_vars(Work) /\ WF_vars(Tester)
    /\ \A n \in Node : WF_vars(ActorTerm(n))

Spec == Init /\ [][Next]_vars /\ Fairness

-------------------------------------------------------------------------------
(* Properties *)

\* Programs, mailboxes and queues stay within what the scripts and bounds allow.
TypeOK ==
    /\ \A n \in Node :
        /\ node[n].state \in {"new", "up", "stopped", "gone"}
        /\ node[n].ready \subseteq node[n].peers /\ node[n].peers \subseteq Node \ {n}
        /\ \A m \in Node : node[n].member[m] # {} => m \in node[n].ready
    /\ main.count \in 0 .. (MaxIterations + Len(Script))

\* The asserts of zyre_test and zyre_event_test hold in whatever order the
\* threads of the two nodes run, as long as the sleeps suffice: ENTER comes
\* first, then the JOINs, then the SHOUT (zyre.c:842).
AssertsHold == ~main.failed

\* Whoever whispers is known as a member of GLOBAL by the time the WHISPER is
\* read, an actor of a tester excepted: it went behind the HELLO or JOIN.  zpinger
\* answers a greeting with a SHOUT that reaches the greeter, perf_local measures
\* with SHOUTs that reach all it counted.
GreetersAreMembers ==
    \A n \in Node : Waiting(n) =>
        LET event == First(n)
        IN event.type = "WHISPER" /\ role[event.peer] # "tester" /\ event.peer \in node[n].ready
            => event.peer \in InGroup(node[n], "GLOBAL")

Count(q, x) == Cardinality({i \in DOMAIN q : q[i] = x})

Question(at) == IF at = "WHISPER" THEN "S:WHISPER" ELSE "S:SHOUT"
Addressed(at) == IF at = "WHISPER" THEN Blank ELSE "GLOBAL"

\* Questions to m and its answers, on the wire and in the queues.
Underway(n, m, at) ==
    Count(node[n].out[m], Msg(at, Addressed(at), Question(at)))
    + Count(node[m].events, Event(at, n, Addressed(at), Question(at)))
    + Count(node[m].out[n], Msg(at, Addressed(at), Answer(at)))
    + Count(node[n].events, Event(at, m, Addressed(at), Answer(at)))

\* Those of all remotes: the k-th of m is the pair of m and k.
Pending(n, at) == Cardinality(UNION {{m} \X (1 .. Underway(n, m, at)) : m \in Remotes})

Measuring(n) ==
    CASE app[n].at \in {"WHISPER", "whispered"} -> "WHISPER"
      [] app[n].at \in {"SHOUT", "shouted"} -> "SHOUT"
      [] OTHER -> "none"

\* Every question perf_local has sent is answered once by each remote it went
\* to and counted once: what is counted and what is under way make up for what
\* was sent, through both measurements.
NothingMiscounted ==
    \A n \in Locals : Measuring(n) # "none" =>
        app[n].got + Pending(n, Measuring(n))
            = app[n].sent * (IF Measuring(n) = "SHOUT" THEN MaxNode ELSE 1)

Ended(n) ==
    /\ role[n] \in {"local", "minimal"} => app[n].at = "done"
    /\ role[n] = "chat" => "$TERM" \notin Range(app[n].pipe) /\ app[n].at \notin {"stop", "destroy"}

\* perf_local, minimal, the testers and the self tests come to their end, and a
\* chat once its input has: nobody waits for an event that does not come.
ProgramsEnd ==
    <>[](/\ \A n \in Node : Ended(n)
         /\ Testing \/ main.test # "none" => main.at = "done")

Quiet ==
    \A n \in Node : node[n].state = "up" =>
        /\ node[n].events = <<>>
        /\ \A m \in Node : node[m].state = "up" => node[n].out[m] = <<>>

\* The greetings of zpinger and the answers of perf_remote die out: an answer
\* is not answered in turn.
ConversationEnds ==
    <>[]((\E n \in Node : role[n] \in {"pinger", "remote"}) => Quiet)

=============================================================================
