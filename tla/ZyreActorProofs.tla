--------------------------- MODULE ZyreActorProofs ---------------------------
(***************************************************************************)
(* ZyreActor's state stays well-typed, its pipes stay within their bounds  *)
(* and the poller refers only to what the node has, for any peers, groups, *)
(* timeouts, sizes of the pipes and choice of budgets.                     *)
(*                                                                         *)
(* The poller's third fact relates the node to its application: a node     *)
(* that was never told to stop listens once it has a port.  STOP is told   *)
(* apart when it is called and acted on when it is read, so the invariant  *)
(* says of the pipe in between that it holds a STOP only after the call.   *)
(***************************************************************************)
EXTENDS ZyreActor, WellFoundedInduction, TLAPS

NoArg == {"SET OTHER", "DUMP", "GOSSIP", "GOSSIP UNPUBLISH", "UUID", "NAME",
          "SET ENDPOINT", "START", "STOP", "PEERS", "PEER GROUPS", "OWN GROUPS",
          "$TERM"}

\* The commands of the front-end, each with its argument.
Commands ==
    [name: {"SET NAME"}, arg: Name]
    \cup [name: {"SET PORT"}, arg: {0, 1}]
    \cup [name: {"SET EVASIVE TIMEOUT", "SET EXPIRED TIMEOUT"}, arg: Timeout]
    \cup [name: {"SHOUT", "JOIN", "LEAVE", "SET CONTEST", "GROUP PEERS"}, arg: Group]
    \cup [name: {"WHISPER", "REQUIRE PEER", "PEER ENDPOINT", "PEER HEADER"}, arg: Peer]
    \cup [name: NoArg, arg: {Null}]

Asked == [name: Name, groups: SUBSET Group, port: {0, 1}, gossip: BOOLEAN,
          endpoint: BOOLEAN, running: BOOLEAN, stopped: BOOLEAN, tuned: BOOLEAN,
          empty: BOOLEAN, careful: BOOLEAN]

Limits == [steps: [BudgetKinds -> Nat \cup {Unlimited}],
           calls: SUBSET (Calls \cup Posts), says: SUBSET Ids, cast: SUBSET Peer,
           prompt: BOOLEAN, bucket: [Peer -> Nat], place: [Peer -> Nat],
           full: SUBSET Peer]

\* The application's half of the invariant.
AppOK ==
    /\ asked \in Asked
    /\ half = Null \/ (half \in Commands /\ half.name \in {"WHISPER", "SHOUT"})
    /\ pipe \in Seq(Commands) /\ Len(pipe) <= Hwm
    /\ \A i \in 1 .. Len(pipe) : pipe[i].name = "STOP" => asked.stopped

EventsOK == (\E S : events \in Seq(S)) /\ Len(events) <= Hwm

\* The node's half.
NodeOK ==
    /\ node \in NodeState
    /\ "beacon" \in node.polled => node.beacon
    /\ "gossip" \in node.polled => node.gossip

Listening == (node.port /\ ~asked.stopped) => "inbox" \in node.polled

PeersOK == peers \in [Peer -> PeerState]

MembersOK ==
    /\ DOMAIN members \subseteq Group
    /\ \A g \in DOMAIN members : members[g] \subseteq Peer

WorldOK ==
    /\ inbox \in Seq(Message)
    /\ pings \subseteq Peer \ dead
    /\ dead \subseteq Peer

\* The inductive invariant.
IInv ==
    /\ AppOK /\ EventsOK
    /\ NodeOK /\ Listening /\ PeersOK /\ MembersOK /\ slept \in Nat
    /\ WorldOK
    /\ limits \in Limits

-----------------------------------------------------------------------------
\* The invariant gives the two properties.
LEMMA InvariantSuffices == IInv => TypeOK /\ PollsWhatItHas
BY DEF IInv, AppOK, EventsOK, NodeOK, Listening, PeersOK, MembersOK, WorldOK,
       TypeOK, PollsWhatItHas, Asked

\* A new node and its application satisfy it.
LEMMA InitInvariant == Init => IInv
<1> SUFFICES ASSUME Init PROVE IInv
    OBVIOUS
<1> USE DEF Init
<1>1. AppOK
    BY ValueAssumption, NumberAssumption DEF AppOK, Asked
<1>2. EventsOK
  <2>1. events \in Seq({})
      OBVIOUS
  <2> QED BY <2>1, NumberAssumption DEF EventsOK
<1>3. NodeOK /\ Listening
    BY ValueAssumption DEF NodeOK, Listening, NodeState, Ticks
<1>4. PeersOK
    BY DEF PeersOK, PeerState, Unknown
<1>5. MembersOK /\ WorldOK /\ slept \in Nat
    BY DEF MembersOK, WorldOK
<1>6. limits \in Limits
    BY BudgetAssumption DEF Limits
<1> QED BY <1>1, <1>2, <1>3, <1>4, <1>5, <1>6 DEF IInv

-----------------------------------------------------------------------------
(***************************************************************************)
(* The application.                                                        *)
(***************************************************************************)
\* Spending a step leaves the limits limits.
LEMMA SpendLimits ==
    ASSUME limits \in Limits, NEW kind \in BudgetKinds, Spend(kind)
    PROVE  limits' \in Limits
<1> DEFINE n == limits.steps[kind]
<1>1. n \in Nat \cup {Unlimited} /\ n # 0
    BY DEF Limits, Spend, CanSpend
<1>2. CASE n = Unlimited
    BY <1>2 DEF Spend
<1>3. CASE n # Unlimited
  <2>1. n - 1 \in Nat
      BY <1>1, <1>3
  <2>2. limits' = [limits EXCEPT !.steps = [limits.steps EXCEPT ![kind] = n - 1]]
      BY <1>3 DEF Spend, Limits
  <2> QED BY <2>1, <2>2 DEF Limits
<1> QED BY <1>2, <1>3

\* A command is written, the whole of it or the half one before it.
LEMMA WriteKeeps ==
    ASSUME AppOK, NEW c \in Commands, Write(c), asked' \in Asked,
           asked.stopped => asked'.stopped, c.name = "STOP" => asked'.stopped
    PROVE  AppOK'
<1> DEFINE d == IF half = Null THEN c ELSE half
<1>1. d \in Commands /\ (d.name = "STOP" => asked'.stopped)
    BY DEF AppOK
<1>2. pipe' = Append(pipe, d) /\ half' = Null /\ Len(pipe) < Hwm
    BY DEF Write
<1>3. /\ pipe' \in Seq(Commands) /\ Len(pipe') = Len(pipe) + 1 /\ Len(pipe) \in Nat
      /\ \A i \in 1 .. Len(pipe) : pipe'[i] = pipe[i]
      /\ pipe'[Len(pipe) + 1] = d
    BY <1>1, <1>2 DEF AppOK
<1>4. \A i \in 1 .. Len(pipe') : pipe'[i].name = "STOP" => asked'.stopped
  <2>1. ASSUME NEW i \in 1 .. Len(pipe'), pipe'[i].name = "STOP"
        PROVE  asked'.stopped
    <3>1. CASE i \in 1 .. Len(pipe)
        BY <2>1, <3>1, <1>3 DEF AppOK
    <3>2. CASE i = Len(pipe) + 1
        BY <2>1, <3>2, <1>3, <1>1
    <3> QED BY <3>1, <3>2, <1>3
  <2> QED BY <2>1
<1> QED BY <1>2, <1>3, <1>4, NumberAssumption DEF AppOK

\* What an action of the application does not touch.
AppOnly == UNCHANGED <<events, actor, todo, world>>

\* The node's half follows when only the application moves on.
LEMMA AppKeeps ==
    ASSUME IInv, AppOnly, AppOK', limits' \in Limits,
           asked.stopped => asked'.stopped
    PROVE  IInv'
<1> USE DEF AppOnly, actor, world
<1>1. EventsOK' /\ NodeOK' /\ PeersOK' /\ MembersOK' /\ slept' \in Nat /\ WorldOK'
    BY DEF IInv, EventsOK, NodeOK, PeersOK, MembersOK, WorldOK
<1>2. Listening'
    BY DEF IInv, Listening, AppOK, Asked
<1> QED BY <1>1, <1>2 DEF IInv

\* Post and Call write a command.
LEMMA CommandKeeps ==
    ASSUME IInv, NEW c \in Commands, Post(c) \/ Call(c), limits' \in Limits,
           asked' \in Asked, asked.stopped => asked'.stopped,
           c.name = "STOP" => asked'.stopped
    PROVE  IInv'
<1>1. Write(c) /\ AppOnly
    BY DEF Post, Call, AppOnly
<1>2. AppOK'
    BY <1>1, WriteKeeps DEF IInv
<1> QED BY <1>1, <1>2, AppKeeps

\* A command that asks for nothing but itself.
LEMMA PlainKeeps ==
    ASSUME IInv, NEW c \in Commands, Post(c) \/ Call(c), c.name # "STOP",
           NEW kind \in BudgetKinds, Spend(kind), UNCHANGED asked
    PROVE  IInv'
<1>1. limits' \in Limits
    BY SpendLimits DEF IInv
<1>2. asked' \in Asked /\ (asked.stopped => asked'.stopped)
    BY DEF IInv, AppOK
<1> QED BY <1>1, <1>2, CommandKeeps

\* A command that is left unfinished.
LEMMA HalfKeeps ==
    ASSUME IInv, NEW c \in Commands, c.name \in {"WHISPER", "SHOUT"}, PostHalf(c)
    PROVE  IInv'
<1>1. limits' \in Limits
    BY SpendLimits DEF IInv, PostHalf, BudgetKinds
<1>2. asked' \in Asked /\ asked'.stopped = asked.stopped
    BY DEF IInv, AppOK, Asked, PostHalf
<1>3. UNCHANGED pipe /\ (half' = c \/ half' = half)
    BY DEF PostHalf, pipes
<1>4. AppOK'
    BY <1>2, <1>3 DEF IInv, AppOK
<1>5. AppOnly
    BY DEF PostHalf, AppOnly, pipes
<1> QED BY <1>1, <1>2, <1>4, <1>5, AppKeeps

\* Every command carries an argument of its kind.
LEMMA CommandsOfGroups ==
    ASSUME NEW g \in Group,
           NEW name \in {"SHOUT", "JOIN", "LEAVE", "SET CONTEST", "GROUP PEERS"}
    PROVE  Command(name, g) \in Commands /\ Command(name, g).name = name
BY DEF Command, Commands

LEMMA CommandsOfPeers ==
    ASSUME NEW p \in Peer,
           NEW name \in {"WHISPER", "REQUIRE PEER", "PEER ENDPOINT", "PEER HEADER"}
    PROVE  Command(name, p) \in Commands /\ Command(name, p).name = name
BY DEF Command, Commands

LEMMA CommandsOfTimeouts ==
    ASSUME NEW t \in Timeout,
           NEW name \in {"SET EVASIVE TIMEOUT", "SET EXPIRED TIMEOUT"}
    PROVE  Command(name, t) \in Commands /\ Command(name, t).name = name
BY DEF Command, Commands

LEMMA CommandsWithoutArgument ==
    ASSUME NEW name \in NoArg
    PROVE  Command(name, Null) \in Commands /\ Command(name, Null).name = name
BY DEF Command, Commands

\* The messages, with frames or without.
LEMMA SendsKeep ==
    ASSUME IInv, Whisper \/ Shout \/ Whispers \/ Shouts
    PROVE  IInv'
<1>1. ASSUME NEW p \in Peer, Spend("group"), Post(Command("WHISPER", p)), UNCHANGED asked
      PROVE  IInv'
    BY <1>1, CommandsOfPeers, PlainKeeps DEF BudgetKinds
<1>2. ASSUME NEW g \in Group, Spend("group"), Post(Command("SHOUT", g)), UNCHANGED asked
      PROVE  IInv'
    BY <1>2, CommandsOfGroups, PlainKeeps DEF BudgetKinds
<1>3. ASSUME NEW p \in Peer, PostHalf(Command("WHISPER", p))
      PROVE  IInv'
    BY <1>3, CommandsOfPeers, HalfKeeps
<1>4. ASSUME NEW g \in Group, PostHalf(Command("SHOUT", g))
      PROVE  IInv'
    BY <1>4, CommandsOfGroups, HalfKeeps
<1> QED BY <1>1, <1>2, <1>3, <1>4 DEF Whisper, Shout, Whispers, Shouts

\* The settings that are only passed on.
LEMMA PassedOnKeep ==
    ASSUME IInv,
           SetHeader \/ SetBeaconPeerPort \/ SetInterval \/ SetCurve
           \/ SetContestInGroup \/ Destroy \/ Dump
    PROVE  IInv'
<1> USE DEF BudgetKinds
<1>1. CASE PostOther
    BY <1>1, CommandsWithoutArgument, PlainKeeps DEF PostOther, NoArg
<1>2. CASE SetContestInGroup
    BY <1>2, CommandsOfGroups, PlainKeeps DEF SetContestInGroup
<1>3. CASE Destroy
    BY <1>3, CommandsWithoutArgument, PlainKeeps DEF Destroy, NoArg
<1>4. CASE Dump
    BY <1>4, CommandsWithoutArgument, PlainKeeps DEF Dump, NoArg
<1> QED BY <1>1, <1>2, <1>3, <1>4
        DEF SetHeader, SetBeaconPeerPort, SetInterval, SetCurve

\* The queries.
LEMMA QueriesKeep ==
    ASSUME IInv,
           Uuid \/ NameOf \/ Peers \/ PeersByGroup \/ PeerAddress
           \/ PeerHeaderValue \/ OwnGroups \/ PeerGroups
    PROVE  IInv'
<1>1. ASSUME NEW name \in NoArg \ {"STOP"}, Ask(name, Null)
      PROVE  IInv'
    BY <1>1, CommandsWithoutArgument, PlainKeeps DEF Ask, BudgetKinds
<1>2. CASE Uuid \/ NameOf \/ Peers \/ OwnGroups \/ PeerGroups
    BY <1>1, <1>2 DEF Uuid, NameOf, Peers, OwnGroups, PeerGroups, NoArg
<1>3. CASE PeersByGroup
    BY <1>3, CommandsOfGroups, PlainKeeps DEF PeersByGroup, Ask, BudgetKinds
<1>4. CASE PeerAddress \/ PeerHeaderValue
    BY <1>4, CommandsOfPeers, PlainKeeps
       DEF PeerAddress, PeerHeaderValue, Ask, BudgetKinds
<1> QED BY <1>2, <1>3, <1>4

\* What the application notes down when it calls stays well-typed, and it does
\* not forget that it has called STOP.
Noted == asked' \in Asked /\ (asked.stopped => asked'.stopped)

LEMMA NotesOfNames ==
    ASSUME asked \in Asked, NEW n \in Name, asked' = [asked EXCEPT !.name = n]
    PROVE  Noted
BY DEF Asked, Noted

LEMMA NotesOfGroups ==
    ASSUME asked \in Asked, NEW S \in SUBSET Group, asked' = [asked EXCEPT !.groups = S]
    PROVE  Noted
BY DEF Asked, Noted

LEMMA NotesOfOrder ==
    ASSUME asked \in Asked, NEW b \in BOOLEAN, asked' = [asked EXCEPT !.careful = b]
    PROVE  Noted
BY DEF Asked, Noted

LEMMA NotesOfPorts ==
    ASSUME asked \in Asked, NEW n \in {0, 1}, NEW b \in BOOLEAN, NEW o \in BOOLEAN,
           \/ asked' = [asked EXCEPT !.port = n, !.careful = b]
           \/ asked' = [asked EXCEPT !.gossip = o, !.careful = b, !.port = n]
    PROVE  Noted
BY DEF Asked, Noted

\* A setting whose argument is kept in mind.
LEMMA SettingsKeep ==
    ASSUME IInv,
           SetName \/ SetPort \/ PostTimeout("SET EVASIVE TIMEOUT")
           \/ PostTimeout("SET EXPIRED TIMEOUT") \/ Join \/ Leave
    PROVE  IInv'
<1> USE DEF BudgetKinds
<1>1. asked \in Asked
    BY DEF IInv, AppOK
<1>2. ASSUME NEW kind \in BudgetKinds, Spend(kind), NEW c \in Commands, Post(c),
             c.name # "STOP", Noted
      PROVE  IInv'
    BY <1>2, SpendLimits, CommandKeeps DEF Noted, IInv
<1>3. CASE SetName
  <2>1. PICK n \in Name : Post(Command("SET NAME", n)) /\ asked' = [asked EXCEPT !.name = n]
      BY <1>3 DEF SetName
  <2>2. Command("SET NAME", n) \in Commands /\ Command("SET NAME", n).name # "STOP"
      BY DEF Command, Commands
  <2> QED BY <1>1, <1>2, <1>3, <2>1, <2>2, NotesOfNames DEF SetName
<1>4. CASE SetPort
  <2>1. PICK n \in {0, 1} :
            /\ Post(Command("SET PORT", n))
            /\ asked' = [asked EXCEPT !.port = n, !.careful = InOrder(~asked.gossip)]
      BY <1>4 DEF SetPort
  <2>2. Command("SET PORT", n) \in Commands /\ Command("SET PORT", n).name # "STOP"
      BY DEF Command, Commands
  <2>3. InOrder(~asked.gossip) \in BOOLEAN
      BY DEF InOrder
  <2> QED BY <1>1, <1>2, <1>4, <2>1, <2>2, <2>3, NotesOfPorts DEF SetPort
<1>5. ASSUME NEW name \in {"SET EVASIVE TIMEOUT", "SET EXPIRED TIMEOUT"}, PostTimeout(name)
      PROVE  IInv'
  <2>1. PICK t \in Timeout : Post(Command(name, t))
      BY <1>5 DEF PostTimeout
  <2>2. Noted
      BY <1>1, <1>5 DEF PostTimeout, Noted, Asked
  <2> QED BY <1>2, <1>5, <2>1, <2>2, CommandsOfTimeouts DEF PostTimeout
<1>6. CASE Join \/ Leave
  <2>1. PICK g \in Group, S \in SUBSET Group :
            /\ Post(Command("JOIN", g)) \/ Post(Command("LEAVE", g))
            /\ asked' = [asked EXCEPT !.groups = S]
    <3>1. asked.groups \subseteq Group
        BY <1>1 DEF Asked
    <3>2. CASE Join
        BY <3>1, <3>2 DEF Join
    <3>3. CASE Leave
        BY <3>1, <3>3 DEF Leave
    <3> QED BY <1>6, <3>2, <3>3
  <2> QED BY <1>1, <1>2, <1>6, <2>1, NotesOfGroups, CommandsOfGroups DEF Join, Leave
<1> QED BY <1>3, <1>4, <1>5, <1>6

\* The calls that set a node up, in whatever order.
LEMMA SetUpKeeps ==
    ASSUME IInv,
           RequirePeerCall \/ PostGossip \/ GossipUnpublishCall
           \/ SetEndpoint \/ Start \/ Stop
    PROVE  IInv'
<1> USE DEF BudgetKinds
<1>1. asked \in Asked
    BY DEF IInv, AppOK
<1>2. ASSUME NEW c \in Commands, Spend("config"), Post(c) \/ Call(c), Noted,
             c.name = "STOP" => asked'.stopped
      PROVE  IInv'
    BY <1>2, SpendLimits, CommandKeeps DEF Noted, IInv
<1>3. ASSUME NEW name \in NoArg, Spend("config"), Noted,
             Post(Command(name, Null)) \/ Call(Command(name, Null)),
             name = "STOP" => asked'.stopped
      PROVE  IInv'
    BY <1>2, <1>3, CommandsWithoutArgument
<1>4. CASE RequirePeerCall
  <2>1. PICK p \in Peer : Post(Command("REQUIRE PEER", p))
      BY <1>4 DEF RequirePeerCall
  <2>2. InOrder(asked.endpoint) \in BOOLEAN
      BY DEF InOrder
  <2>3. Noted
      BY <1>1, <1>4, <2>2, NotesOfOrder DEF RequirePeerCall
  <2> QED BY <1>2, <1>4, <2>1, <2>3, CommandsOfPeers DEF RequirePeerCall
<1>5. CASE PostGossip
  <2>1. InOrder(~asked.running) \in BOOLEAN
        /\ (IF asked.gossip THEN asked.port ELSE 0) \in {0, 1}
      BY <1>1 DEF InOrder, Asked
  <2>2. Noted
      BY <1>1, <1>5, <2>1, NotesOfPorts DEF PostGossip
  <2> QED BY <1>3, <1>5, <2>2 DEF PostGossip, NoArg
<1>6. CASE GossipUnpublishCall
  <2>1. InOrder(asked.gossip) \in BOOLEAN
      BY DEF InOrder
  <2>2. Noted
      BY <1>1, <1>6, <2>1, NotesOfOrder DEF GossipUnpublishCall
  <2> QED BY <1>3, <1>6, <2>2 DEF GossipUnpublishCall, NoArg
<1>7. CASE SetEndpoint
  <2>1. InOrder(~asked.running) \in BOOLEAN
      BY DEF InOrder
  <2>2. Noted
      BY <1>1, <1>7, <2>1, NotesOfOrder DEF SetEndpoint
  <2> QED BY <1>3, <1>7, <2>2 DEF SetEndpoint, NoArg
<1>8. CASE Start
  <2>1. InOrder(~asked.running /\ (asked.port = 0 => asked.gossip)) \in BOOLEAN
      BY DEF InOrder
  <2>2. Noted
      BY <1>1, <1>8, <2>1, NotesOfOrder DEF Start
  <2> QED BY <1>3, <1>8, <2>2 DEF Start, NoArg
<1>9. CASE Stop
  <2>1. Noted /\ asked'.stopped
      BY <1>1, <1>9 DEF Stop, Noted, Asked
  <2> QED BY <1>3, <1>9, <2>1 DEF Stop, NoArg
<1> QED BY <1>4, <1>5, <1>6, <1>7, <1>8, <1>9

\* A reply is taken, an event is read.
LEMMA ReadsKeep ==
    ASSUME IInv, Return \/ TakeEvent \/ GetMsg
    PROVE  IInv'
<1>1. CASE Return
  <2>1. PICK b1 \in BOOLEAN, b2 \in BOOLEAN, b3 \in BOOLEAN, n \in {0, 1} :
            asked' = [asked EXCEPT !.endpoint = b1, !.gossip = b2,
                                   !.port = n, !.running = b3]
    <3> DEFINE r == Head(replies)
               e == \/ asked.endpoint
                    \/ r.kind = "SET ENDPOINT" /\ r.value = 0
                    \/ r.kind = "START" /\ r.value = 0 /\ asked.port = 0
               o == asked.gossip \/ r.kind = "SET ENDPOINT"
               n == IF r.kind = "SET ENDPOINT" /\ ~asked.gossip THEN 0 ELSE asked.port
               u == CASE r.kind = "START" -> r.value = 0
                      [] r.kind = "STOP" -> FALSE
                      [] OTHER -> asked.running
    <3>1. e \in BOOLEAN /\ o \in BOOLEAN
        OBVIOUS
    <3>2. n \in {0, 1} /\ asked.running \in BOOLEAN
        BY DEF IInv, AppOK, Asked
    <3>3. u \in BOOLEAN
        BY <3>2
    <3>4. asked' = [asked EXCEPT !.endpoint = e, !.gossip = o, !.port = n, !.running = u]
        BY <1>1 DEF Return
    <3> QED BY <3>1, <3>2, <3>3, <3>4
  <2>2. asked' \in Asked /\ asked'.stopped = asked.stopped
      BY <2>1 DEF IInv, AppOK, Asked
  <2>3. AppOK' /\ AppOnly /\ limits' \in Limits
      BY <1>1, <2>2 DEF Return, IInv, AppOK, AppOnly
  <2> QED BY <2>2, <2>3, AppKeeps
<1>2. CASE TakeEvent
  <2>1. EventsOK'
      BY <1>2, NumberAssumption DEF TakeEvent, IInv, EventsOK
  <2>2. AppOK' /\ NodeOK' /\ Listening' /\ PeersOK' /\ MembersOK'
        /\ slept' \in Nat /\ WorldOK' /\ limits' \in Limits
      BY <1>2 DEF TakeEvent, IInv, AppOK, NodeOK, Listening, PeersOK, MembersOK,
                  WorldOK, actor, world
  <2> QED BY <2>1, <2>2 DEF IInv
<1>3. CASE GetMsg
  <2>1. AppOK' /\ AppOnly /\ limits' \in Limits /\ asked' = asked
      BY <1>3 DEF GetMsg, IInv, AppOK, AppOnly, pipes
  <2> QED BY <2>1, AppKeeps
<1> QED BY <1>1, <1>2, <1>3

-----------------------------------------------------------------------------
(***************************************************************************)
(* The node: what it writes, and the commands it reads.                    *)
(***************************************************************************)
\* A reply or an event is written, if there is room for it.
LEMMA FlushKeeps ==
    ASSUME IInv, Flush
    PROVE  IInv'
<1>1. EventsOK'
  <2>1. CASE UNCHANGED events
      BY <2>1 DEF IInv, EventsOK
  <2>2. CASE Len(events) < Hwm /\ events' = Append(events, Head(todo).frames)
    <3> DEFINE f == Head(todo).frames
    <3>1. PICK S : events \in Seq(S)
        BY DEF IInv, EventsOK
    <3>2. events \in Seq(S \cup {f}) /\ f \in S \cup {f}
        BY <3>1
    <3> HIDE DEF f
    <3>3. Append(events, f) \in Seq(S \cup {f}) /\ Len(Append(events, f)) = Len(events) + 1
        BY <3>2
    <3>4. Len(events) \in Nat
        BY <3>1
    <3> QED BY <2>2, <3>3, <3>4, NumberAssumption DEF EventsOK, f
  <2> QED BY <2>1, <2>2 DEF Flush
<1>2. AppOK' /\ NodeOK' /\ Listening' /\ PeersOK' /\ MembersOK'
      /\ slept' \in Nat /\ WorldOK' /\ limits' \in Limits
    BY DEF Flush, IInv, AppOK, NodeOK, Listening, PeersOK, MembersOK,
           WorldOK, actor, world, app
<1> QED BY <1>1, <1>2 DEF IInv

\* What the node's half says after a step that leaves the application alone.
NodeNext == NodeOK' /\ Listening' /\ PeersOK' /\ MembersOK'

\* Each command has an argument its handler can use.
LEMMA ArgumentsFit ==
    ASSUME NEW c \in Commands
    PROVE  /\ c.name = "SET NAME" => c.arg \in Name
           /\ c.name = "SET PORT" => c.arg \in {0, 1}
           /\ c.name \in {"SET EVASIVE TIMEOUT", "SET EXPIRED TIMEOUT"} => c.arg \in Timeout
           /\ c.name \in {"JOIN", "LEAVE", "SET CONTEST"} => c.arg \in Group
           /\ c.name = "REQUIRE PEER" => c.arg \in Peer
BY DEF Commands, NoArg

\* The handlers that answer or pass on and leave the node alone.
LEMMA UntouchedKeep ==
    ASSUME IInv, UNCHANGED <<node, peers, members, asked>>
    PROVE  NodeNext
BY DEF IInv, NodeNext, NodeOK, Listening, PeersOK, MembersOK

\* The handlers that only set something of the node.
LEMMA OnlyKeeps ==
    ASSUME IInv, NEW n \in NodeState, NEW out, Only(n, out), UNCHANGED asked,
           "beacon" \in n.polled => n.beacon,
           "gossip" \in n.polled => n.gossip,
           (n.port /\ ~asked.stopped) => "inbox" \in n.polled
    PROVE  NodeNext
BY DEF IInv, NodeNext, NodeOK, Listening, PeersOK, MembersOK, Only

\* What becomes of an entry of the table.
LEMMA EntriesAre ==
    /\ Unknown \in PeerState /\ Unknown.state = "unknown" /\ ~Unknown.open /\ ~Unknown.met
    /\ Connected \in PeerState /\ Connected.state = "known" /\ Connected.open /\ ~Connected.met
    /\ \A q \in PeerState :
          /\ CutOff(q) \in PeerState /\ CutOff(q).state = "known" /\ ~CutOff(q).open
          /\ CutOff(q).met = q.met
          /\ CutOff(q).evasive = q.evasive /\ CutOff(q).expired = q.expired
          /\ Greeted(q) \in PeerState /\ Greeted(q).state = "ready" /\ Greeted(q).met
          /\ Greeted(q).open = q.open
<1>1. /\ Unknown \in PeerState /\ Unknown.state = "unknown" /\ ~Unknown.open /\ ~Unknown.met
      /\ Connected \in PeerState /\ Connected.state = "known" /\ Connected.open /\ ~Connected.met
    BY DEF Unknown, Connected, PeerState
<1>2. ASSUME NEW q \in PeerState
      PROVE  /\ CutOff(q) \in PeerState /\ CutOff(q).state = "known" /\ ~CutOff(q).open
             /\ CutOff(q).met = q.met
             /\ CutOff(q).evasive = q.evasive /\ CutOff(q).expired = q.expired
    BY DEF CutOff, PeerState
<1>3. ASSUME NEW q \in PeerState
      PROVE  /\ Greeted(q) \in PeerState /\ Greeted(q).state = "ready" /\ Greeted(q).met
             /\ Greeted(q).open = q.open
    BY DEF Greeted, PeerState
<1> QED BY <1>1, <1>2, <1>3

\* A peer is disconnected, or is as it was.
LEMMA DisconnectedIs ==
    ASSUME NEW table \in [Peer -> PeerState], NEW gone
    PROVE  /\ Disconnected(table, gone) \in [Peer -> PeerState]
           /\ \A p \in Peer :
                 \/ Disconnected(table, gone)[p] = table[p]
                 \/ /\ p \in gone /\ table[p].open
                    /\ Disconnected(table, gone)[p] = CutOff(table[p])
           /\ \A p \in Peer : /\ Disconnected(table, gone)[p].met = table[p].met
                              /\ Disconnected(table, gone)[p].evasive = table[p].evasive
                              /\ Disconnected(table, gone)[p].expired = table[p].expired
<1>1. ASSUME NEW p \in Peer
      PROVE  /\ CutOff(table[p]) \in PeerState
             /\ CutOff(table[p]).met = table[p].met
             /\ CutOff(table[p]).evasive = table[p].evasive
             /\ CutOff(table[p]).expired = table[p].expired
  <2>1. table[p] \in PeerState
      OBVIOUS
  <2> QED BY <2>1, EntriesAre
<1> QED BY <1>1 DEF Disconnected

\* The handlers that set something of the node and send.
LEMMA TellsKeep ==
    ASSUME IInv, NEW n \in NodeState, NEW to, NEW out, Tells(to, n, out), UNCHANGED asked,
           "beacon" \in n.polled => n.beacon,
           "gossip" \in n.polled => n.gossip,
           (n.port /\ ~asked.stopped) => "inbox" \in n.polled
    PROVE  NodeNext
<1>1. node' = n /\ UNCHANGED members
    BY DEF Tells
<1>2. PICK full : peers' = Disconnected(peers, full)
    BY DEF Tells
<1>3. peers' \in [Peer -> PeerState]
  <2>1. peers \in [Peer -> PeerState]
      BY DEF IInv, PeersOK
  <2>2. Disconnected(peers, full) \in [Peer -> PeerState]
      BY <2>1, DisconnectedIs
  <2> QED BY <1>2, <2>2
<1> QED BY <1>1, <1>3 DEF IInv, NodeNext, NodeOK, Listening, PeersOK, MembersOK

\* A setting that concerns neither the port nor the poller.
LEMMA SettingKept ==
    ASSUME IInv, NEW n \in NodeState, NEW to, NEW out, Only(n, out) \/ Tells(to, n, out),
           UNCHANGED asked,
           n.polled = node.polled, n.beacon = node.beacon, n.port = node.port,
           node.gossip => n.gossip
    PROVE  NodeNext
BY OnlyKeeps, TellsKeep DEF IInv, NodeOK, Listening

\* Gossip puts an end to beacons, and is not given up.
LEMMA GossipKept ==
    ASSUME NodeOK
    PROVE  /\ GossipStart \in NodeState
           /\ GossipStart.polled = node.polled /\ GossipStart.beacon = node.beacon
           /\ GossipStart.port = node.port /\ GossipStart.gossip
BY DEF NodeOK, NodeState, GossipStart

\* A new group is empty.
LEMMA GroupsGrow ==
    ASSUME MembersOK, NEW g \in Group
    PROVE  /\ DOMAIN RequireGroup(g) \subseteq Group /\ g \in DOMAIN RequireGroup(g)
           /\ \A h \in DOMAIN RequireGroup(g) : RequireGroup(g)[h] \subseteq Peer
BY DEF MembersOK, RequireGroup

\* Peers that go leave only peers behind.
LEMMA GroupsShrink ==
    ASSUME MembersOK, NodeOK, NEW gone
    PROVE  /\ DOMAIN WithoutPeers(gone) \subseteq Group
           /\ \A h \in DOMAIN WithoutPeers(gone) : WithoutPeers(gone)[h] \subseteq Peer
BY DEF MembersOK, NodeOK, NodeState, WithoutPeers

\* A peer's timers are set to the node's timeouts.
LEMMA TimersSet ==
    ASSUME NodeOK
    PROVE  /\ Unknown \in PeerState
           /\ \A q \in PeerState : /\ Refreshed(q) \in PeerState
                                  /\ Refreshed(q).state = q.state
                                  /\ Refreshed(q).open = q.open
                                  /\ Refreshed(q).met = q.met
<1>1. node.evasive \in Int /\ node.expired \in Int /\ Reap \in Int
  <2>1. Ticks \subseteq Int /\ Reap \in Int
      BY NumberAssumption DEF Ticks
  <2>2. node.evasive \in Ticks /\ node.expired \in Ticks
      BY DEF NodeOK, NodeState
  <2> QED BY <2>1, <2>2
<1> DEFINE e == Most(node.evasive, -Reap)
           x == Most(node.expired, 0)
<1>2. e \in Int /\ x \in Nat
    BY <1>1 DEF Most
<1>3. \A q \in PeerState : Refreshed(q) = [q EXCEPT !.evasive = e, !.expired = x]
    BY DEF Refreshed
<1> HIDE DEF e, x
<1>4. \A q \in PeerState : /\ Refreshed(q) \in PeerState
                           /\ Refreshed(q).state = q.state
                           /\ Refreshed(q).open = q.open
                           /\ Refreshed(q).met = q.met
    BY <1>2, <1>3 DEF PeerState
<1>5. Unknown \in PeerState
    BY DEF Unknown, PeerState
<1> QED BY <1>4, <1>5

\* A peer that was just connected to.
NewPeer == Refreshed(Connected)

\* A peer is found: it is in the table, or it could not be connected to; and who
\* had its endpoint is disconnected.
LEMMA PeersGrow ==
    ASSUME NodeOK, NEW table \in [Peer -> PeerState], NEW p \in Peer, NEW ok \in BOOLEAN
    PROVE  /\ NewPeer \in PeerState /\ NewPeer.state = "known" /\ ~NewPeer.met
           /\ RequirePeer(table, p, ok) \in [Peer -> PeerState]
           /\ table[p].state # "unknown" => RequirePeer(table, p, ok) = table
           /\ table[p].state = "unknown" =>
                 RequirePeer(table, p, ok)[p] = IF ok THEN NewPeer ELSE Unknown
           /\ \A q \in Peer \ {p} :
                 \/ RequirePeer(table, p, ok)[q] = table[q]
                 \/ /\ table[q].open
                    /\ RequirePeer(table, p, ok)[q] = CutOff(table[q])
<1> DEFINE gone == {q \in Peer : limits.place[q] = limits.place[p]}
<1>2. NewPeer \in PeerState /\ NewPeer.state = "known" /\ ~NewPeer.met /\ Unknown \in PeerState
    BY EntriesAre, TimersSet DEF NewPeer
<1>3. RequirePeer(table, p, ok)
          = IF table[p].state # "unknown" THEN table
            ELSE [Disconnected(table, gone) EXCEPT ![p] = IF ok THEN NewPeer ELSE Unknown]
    BY DEF RequirePeer, NewPeer
<1> HIDE DEF gone
<1> DEFINE cut == Disconnected(table, gone)
<1>4. /\ cut \in [Peer -> PeerState]
      /\ \A q \in Peer : cut[q] # table[q] => table[q].open /\ cut[q] = CutOff(table[q])
  <2>1. cut \in [Peer -> PeerState]
      BY DisconnectedIs
  <2>2. ASSUME NEW q \in Peer, cut[q] # table[q]
        PROVE  table[q].open /\ cut[q] = CutOff(table[q])
      BY <2>2, DisconnectedIs
  <2> HIDE DEF cut
  <2> QED BY <2>1, <2>2
<1> HIDE DEF cut
<1>5. CASE table[p].state # "unknown"
    BY <1>2, <1>3, <1>5
<1>6. CASE table[p].state = "unknown"
  <2>1. RequirePeer(table, p, ok) = [cut EXCEPT ![p] = IF ok THEN NewPeer ELSE Unknown]
      BY <1>3, <1>6 DEF cut
  <2> QED BY <1>2, <1>4, <1>6, <2>1
<1> QED BY <1>5, <1>6

\* The handler of each command keeps the node's half.
LEMMA ApiKeeps ==
    ASSUME IInv, NEW c \in Commands, UNCHANGED asked,
           c.name = "STOP" => asked.stopped,
           \/ ApiUuid(c) \/ ApiName(c) \/ ApiSetName(c) \/ ApiSetOther(c)
           \/ ApiSetPort(c) \/ ApiSetTimeout(c) \/ ApiSetContest(c)
           \/ ApiSetEndpoint(c) \/ ApiGossip(c) \/ ApiGossipUnpublish(c)
           \/ ApiStart(c) \/ ApiStop(c) \/ ApiSend(c)
           \/ ApiJoin(c) \/ ApiLeave(c) \/ ApiRequirePeer(c)
           \/ ApiPeers(c) \/ ApiGroupPeers(c) \/ ApiPeerEndpoint(c)
           \/ ApiPeerHeader(c) \/ ApiPeerGroups(c) \/ ApiOwnGroups(c)
           \/ ApiTerm(c)
    PROVE  NodeNext
<1>1. NodeOK /\ Listening /\ PeersOK /\ MembersOK /\ node \in NodeState
    BY DEF IInv, NodeOK
<1>2. ASSUME NEW out, Only(node, out)
      PROVE  NodeNext
    BY <1>2, UntouchedKeep DEF Only
<1>3. ASSUME NEW reason, Abort(reason)
      PROVE  NodeNext
    BY <1>3, UntouchedKeep DEF Abort
<1>4. CASE \/ ApiUuid(c) \/ ApiName(c) \/ ApiSetOther(c)
           \/ ApiPeers(c) \/ ApiGroupPeers(c) \/ ApiPeerEndpoint(c)
           \/ ApiPeerHeader(c) \/ ApiPeerGroups(c) \/ ApiOwnGroups(c)
           \/ ApiGossipUnpublish(c)
    BY <1>2, <1>3, <1>4
       DEF ApiUuid, ApiName, ApiSetOther, ApiPeers, ApiGroupPeers,
           ApiPeerEndpoint, ApiPeerHeader, ApiPeerGroups, ApiOwnGroups,
           ApiGossipUnpublish
<1>12. CASE ApiSend(c)
  <2>1. PICK to : Tells(to, node, <<>>)
      BY <1>12 DEF ApiSend
  <2> QED BY <1>1, <2>1, SettingKept
<1>5. CASE ApiSetName(c) \/ ApiSetPort(c) \/ ApiSetTimeout(c) \/ ApiTerm(c)
  <2>1. ASSUME NEW n \in NodeState, NEW out, Only(n, out),
               n.polled = node.polled, n.beacon = node.beacon,
               n.port = node.port, n.gossip = node.gossip
        PROVE  NodeNext
      BY <2>1, SettingKept
  <2>2. CASE ApiSetName(c)
    <3> DEFINE n == [node EXCEPT !.name = c.arg]
    <3>1. /\ n \in NodeState /\ n.polled = node.polled /\ n.beacon = node.beacon
          /\ n.port = node.port /\ n.gossip = node.gossip
        BY <1>1, <2>2, ArgumentsFit DEF ApiSetName, NodeState
    <3>2. Only(n, <<>>)
        BY <2>2 DEF ApiSetName
    <3> HIDE DEF n
    <3> QED BY <2>1, <3>1, <3>2
  <2>3. CASE ApiSetPort(c)
    <3> DEFINE n == [node EXCEPT !.beaconPort = c.arg]
    <3>1. /\ n \in NodeState /\ n.polled = node.polled /\ n.beacon = node.beacon
          /\ n.port = node.port /\ n.gossip = node.gossip
        BY <1>1, <2>3, ArgumentsFit DEF ApiSetPort, NodeState
    <3>2. Only(n, <<>>)
        BY <2>3 DEF ApiSetPort
    <3> HIDE DEF n
    <3> QED BY <2>1, <3>1, <3>2
  <2>4. CASE ApiSetTimeout(c)
    <3> DEFINE n == [node EXCEPT !.evasive = c.arg]
               m == [node EXCEPT !.expired = c.arg]
    <3>1. c.arg \in Ticks
        BY <2>4, ArgumentsFit DEF ApiSetTimeout, Ticks
    <3>2. /\ n \in NodeState /\ n.polled = node.polled /\ n.beacon = node.beacon
          /\ n.port = node.port /\ n.gossip = node.gossip
        BY <1>1, <3>1 DEF NodeState
    <3>3. /\ m \in NodeState /\ m.polled = node.polled /\ m.beacon = node.beacon
          /\ m.port = node.port /\ m.gossip = node.gossip
        BY <1>1, <3>1 DEF NodeState
    <3>4. Only(n, <<>>) \/ Only(m, <<>>)
        BY <2>4 DEF ApiSetTimeout
    <3> HIDE DEF n, m
    <3> QED BY <2>1, <3>2, <3>3, <3>4
  <2>5. CASE ApiTerm(c)
    <3> DEFINE n == [node EXCEPT !.terminated = TRUE]
    <3>1. /\ n \in NodeState /\ n.polled = node.polled /\ n.beacon = node.beacon
          /\ n.port = node.port /\ n.gossip = node.gossip
        BY <1>1 DEF NodeState
    <3>2. Only(n, <<Reply("$TERM", 0)>>)
        BY <2>5 DEF ApiTerm
    <3> HIDE DEF n
    <3> QED BY <2>1, <3>1, <3>2
  <2> QED BY <1>5, <2>2, <2>3, <2>4, <2>5
<1>6. CASE ApiJoin(c) \/ ApiLeave(c)
  <2>1. PICK S \in SUBSET Group : \E to : Tells(to, [node EXCEPT !.groups = S], <<>>)
    <3>1. node.groups \subseteq Group /\ c.arg \in Group
        BY <1>1, <1>6, ArgumentsFit DEF NodeState, ApiJoin, ApiLeave
    <3>2. CASE ApiJoin(c)
        BY <3>1, <3>2 DEF ApiJoin
    <3>3. CASE ApiLeave(c)
        BY <3>1, <3>3 DEF ApiLeave
    <3> QED BY <1>6, <3>2, <3>3
  <2> DEFINE n == [node EXCEPT !.groups = S]
  <2>2. /\ n \in NodeState /\ n.polled = node.polled /\ n.beacon = node.beacon
        /\ n.port = node.port /\ n.gossip = node.gossip
      BY <1>1 DEF NodeState
  <2> HIDE DEF n
  <2> QED BY <2>1, <2>2, SettingKept DEF n
<1>7. CASE ApiSetEndpoint(c) \/ ApiGossip(c)
  <2>1. PICK n \in NodeState :
            /\ \E out : Only(n, out)
            /\ n.polled = node.polled /\ n.beacon = node.beacon
            /\ n.port = node.port /\ n.gossip
    <3>1. CASE ApiGossip(c)
        BY <1>1, <3>1, GossipKept DEF ApiGossip
    <3>2. CASE ApiSetEndpoint(c)
      <4> DEFINE n == [GossipStart EXCEPT !.endpoint = TRUE]
      <4>1. /\ n \in NodeState /\ n.polled = node.polled /\ n.beacon = node.beacon
            /\ n.port = node.port /\ n.gossip
          BY <1>1, GossipKept DEF NodeState
      <4>2. \E out : Only(n, out) \/ Only(GossipStart, out)
          BY <3>2 DEF ApiSetEndpoint
      <4> HIDE DEF n
      <4> QED BY <1>1, <4>1, <4>2, GossipKept
    <3> QED BY <1>7, <3>1, <3>2
  <2> QED BY <2>1, SettingKept
<1>8. CASE ApiStart(c)
  <2>1. CASE Only([node EXCEPT !.beacon = TRUE], <<Reply("START", 0)>>)
    <3> DEFINE n == [node EXCEPT !.beacon = TRUE]
    <3>1. /\ n \in NodeState /\ n.polled = node.polled /\ n.beacon
          /\ n.port = node.port /\ n.gossip = node.gossip
        BY <1>1 DEF NodeState
    <3> HIDE DEF n
    <3> QED BY <1>1, <2>1, <3>1, OnlyKeeps DEF n, NodeOK, Listening
  <2>2. CASE node.gossip /\ Only([node EXCEPT !.endpoint = TRUE,
                                              !.port = @ \/ ~node.endpoint,
                                              !.polled = @ \cup {"gossip", "inbox"}],
                                 <<Reply("START", 0)>>)
    <3> DEFINE b == node.port \/ ~node.endpoint
               n == [node EXCEPT !.endpoint = TRUE, !.port = b,
                                 !.polled = node.polled \cup {"gossip", "inbox"}]
    <3>1. b \in BOOLEAN
        OBVIOUS
    <3> HIDE DEF b
    <3>2. /\ n \in NodeState /\ n.polled = node.polled \cup {"gossip", "inbox"}
          /\ n.beacon = node.beacon /\ n.gossip = node.gossip
        BY <1>1, <3>1 DEF NodeState
    <3>3. Only(n, <<Reply("START", 0)>>)
        BY <2>2 DEF b
    <3> HIDE DEF n
    <3> QED BY <1>1, <2>2, <3>2, <3>3, OnlyKeeps DEF NodeOK
  <2> QED BY <1>2, <1>3, <1>8, <2>1, <2>2 DEF ApiStart
<1>9. CASE ApiStop(c)
  <2> DEFINE n == [node EXCEPT !.beacon = FALSE, !.polled = node.polled \ {"inbox", "beacon"}]
  <2>1. /\ n \in NodeState /\ n.polled = node.polled \ {"inbox", "beacon"}
        /\ n.gossip = node.gossip
      BY <1>1 DEF NodeState
  <2>2. \E to, out : Tells(to, n, out)
      BY <1>9 DEF ApiStop
  <2>3. asked.stopped
      BY <1>9 DEF ApiStop
  <2> HIDE DEF n
  <2> QED BY <1>1, <2>1, <2>2, <2>3, TellsKeep DEF NodeOK
<1>10. CASE ApiSetContest(c)
  <2>1. c.arg \in Group
      BY <1>10, ArgumentsFit DEF ApiSetContest
  <2> DEFINE n == [node EXCEPT !.contest = node.contest \cup {c.arg}]
  <2>2. members' = RequireGroup(c.arg) /\ node' = n /\ UNCHANGED peers
      BY <1>10 DEF ApiSetContest
  <2>3. MembersOK'
      BY <1>1, <2>1, <2>2, GroupsGrow DEF MembersOK
  <2>4. /\ n \in NodeState /\ n.polled = node.polled /\ n.beacon = node.beacon
        /\ n.port = node.port /\ n.gossip = node.gossip
      BY <1>1, <2>1 DEF NodeState
  <2> HIDE DEF n
  <2> QED BY <1>1, <2>2, <2>3, <2>4 DEF NodeNext, NodeOK, Listening, PeersOK
<1>11. CASE ApiRequirePeer(c)
  <2>1. c.arg \in Peer
      BY <1>11, ArgumentsFit DEF ApiRequirePeer
  <2>2. CASE \E ok \in BOOLEAN : peers' = RequirePeer(peers, c.arg, ok)
             /\ UNCHANGED <<node, members>>
    <3>1. PICK ok \in BOOLEAN : peers' = RequirePeer(peers, c.arg, ok)
        BY <2>2
    <3>2. RequirePeer(peers, c.arg, ok) \in [Peer -> PeerState]
        BY <1>1, <2>1, PeersGrow DEF PeersOK
    <3>3. PeersOK'
        BY <3>1, <3>2 DEF PeersOK
    <3> QED BY <1>1, <2>2, <3>3 DEF NodeNext, NodeOK, Listening, MembersOK
  <2> QED BY <1>3, <1>11, <2>2 DEF ApiRequirePeer
<1> QED BY <1>4, <1>5, <1>6, <1>7, <1>8, <1>9, <1>10, <1>11, <1>12

\* A command leaves the pipe.
LEMMA RecvApiKeeps ==
    ASSUME IInv, RecvApi
    PROVE  IInv'
<1> DEFINE c == Head(pipe)
<1>1. /\ pipe \in Seq(Commands) /\ pipe # <<>> /\ pipe' = Tail(pipe)
      /\ UNCHANGED <<half, asked, events, slept, world, limits>>
    BY DEF IInv, AppOK, RecvApi, app
<1>2. c \in Commands /\ (c.name = "STOP" => asked.stopped)
  <2>1. c \in Commands /\ c = pipe[1] /\ 1 \in 1 .. Len(pipe)
      BY <1>1
  <2> QED BY <2>1 DEF IInv, AppOK
<1>3. AppOK'
  <2>1. /\ Tail(pipe) \in Seq(Commands) /\ Len(Tail(pipe)) = Len(pipe) - 1
        /\ \A i \in 1 .. Len(Tail(pipe)) : Tail(pipe)[i] = pipe[i + 1]
      BY <1>1
  <2>2. Len(pipe) \in Nat /\ Len(pipe) <= Hwm
      BY <1>1 DEF IInv, AppOK
  <2>3. \A i \in 1 .. Len(pipe') : pipe'[i].name = "STOP" => asked'.stopped
      BY <1>1, <2>1, <2>2 DEF IInv, AppOK
  <2> QED BY <1>1, <2>1, <2>2, <2>3, NumberAssumption DEF IInv, AppOK
<1>4. NodeNext
  <2> HIDE DEF c
  <2> QED BY <1>1, <1>2, ApiKeeps DEF RecvApi, c
<1>5. EventsOK' /\ WorldOK' /\ slept' \in Nat /\ limits' \in Limits
    BY <1>1 DEF IInv, EventsOK, WorldOK, world
<1> QED BY <1>3, <1>4, <1>5 DEF IInv, NodeNext

-----------------------------------------------------------------------------
(***************************************************************************)
(* The node: messages, discovery, the beacon and the reaper.               *)
(***************************************************************************)
\* What a handler that leaves the node alone has to keep.
LEMMA OutcomeKeeps ==
    ASSUME IInv, UNCHANGED asked, NEW next \in [Peer -> PeerState], NEW groups, NEW out,
           DOMAIN groups \subseteq Group,
           \A g \in DOMAIN groups : groups[g] \subseteq Peer,
           Outcome(next, groups, out)
    PROVE  NodeNext
BY DEF IInv, NodeNext, Outcome, NodeOK, Listening, PeersOK, MembersOK

\* So does one that sends: some of its peers are disconnected.
LEMMA SendingKeeps ==
    ASSUME IInv, UNCHANGED asked, NEW next \in [Peer -> PeerState], NEW groups, NEW out,
           DOMAIN groups \subseteq Group,
           \A g \in DOMAIN groups : groups[g] \subseteq Peer,
           NEW to, Sending(to, next, groups, out)
    PROVE  NodeNext
<1>1. PICK full : Outcome(Disconnected(next, full), groups, out)
    BY DEF Sending
<1>2. Disconnected(next, full) \in [Peer -> PeerState]
    BY DisconnectedIs
<1> QED BY <1>1, <1>2, OutcomeKeeps

\* A peer that is removed is forgotten in every group.
LEMMA RemovedKeeps ==
    ASSUME IInv, UNCHANGED asked, NEW p \in Peer, Removed(p)
    PROVE  NodeNext
<1>1. NodeOK /\ PeersOK /\ MembersOK
    BY DEF IInv
<1>2. [peers EXCEPT ![p] = Unknown] \in [Peer -> PeerState]
    BY <1>1, TimersSet DEF PeersOK
<1> QED BY <1>1, <1>2, GroupsShrink, SendingKeeps DEF Removed

\* What a HELLO finds and leaves: the peer removed when it was ready, and then
\* required, whose entry is Met when it comes to be ready.
Left(p) == IF peers[p].state = "ready" THEN [peers EXCEPT ![p] = Unknown] ELSE peers
Gone(p) == IF peers[p].state = "ready" THEN WithoutPeers({p}) ELSE members
Bye(p) == IF peers[p].state = "ready" THEN <<Exit(p)>> ELSE <<>>
AndJoined(m) == [g \in DOMAIN Gone(m.peer) \cup m.groups |->
                    (IF g \in DOMAIN Gone(m.peer) THEN Gone(m.peer)[g] ELSE {})
                    \cup (IF g \in m.groups THEN {m.peer} ELSE {})]
Met(table, p) == [table EXCEPT ![p] = Refreshed(Greeted(table[p]))]

LEMMA HelloShape ==
    ASSUME NEW m, RecvHello(m)
    PROVE  /\ m.id = "HELLO"
           /\ \E ok \in BOOLEAN : \E full :
                 LET found == RequirePeer(Left(m.peer), m.peer, ok)
                 IN  \/ /\ found[m.peer].state = "unknown"
                        /\ Outcome(Disconnected(found, full), Gone(m.peer), Bye(m.peer))
                     \/ /\ found[m.peer].state # "unknown"
                        /\ peers[m.peer].state # "known" => m.peer \notin full
                        /\ Outcome(Disconnected(Met(found, m.peer), full), AndJoined(m),
                                   Bye(m.peer) \o <<Enter(m.peer)>>
                                               \o Joins(m.peer, m.groups))
<1> DEFINE p == m.peer
           again == peers[p].state = "ready"
           voters == IF again THEN Electorate(members, node.groups) ELSE {}
           fresh == IF peers[p].state = "known" THEN {} ELSE {p}
           more == Electorate(AndJoined(m), m.groups)
<1>1. PICK ok \in BOOLEAN :
          LET found == RequirePeer(Left(p), p, ok)
          IN  \/ /\ found[p].state = "unknown"
                 /\ Sending(voters, found, Gone(p), Bye(p))
              \/ /\ found[p].state # "unknown"
                 /\ Sending((voters \cup more) \ fresh, Met(found, p), AndJoined(m),
                            Bye(p) \o <<Enter(p)>> \o Joins(p, m.groups))
    BY DEF RecvHello, Left, Gone, Bye, AndJoined, Met
<1> DEFINE found == RequirePeer(Left(p), p, ok)
<1>2. CASE /\ found[p].state = "unknown"
           /\ Sending(voters, found, Gone(p), Bye(p))
    BY <1>2 DEF Sending, RecvHello
<1>3. CASE /\ found[p].state # "unknown"
           /\ Sending((voters \cup more) \ fresh, Met(found, p), AndJoined(m),
                      Bye(p) \o <<Enter(p)>> \o Joins(p, m.groups))
  <2> HIDE DEF found, voters, more
  <2>1. PICK full \in Full((voters \cup more) \ fresh) :
            Outcome(Disconnected(Met(found, p), full), AndJoined(m),
                    Bye(p) \o <<Enter(p)>> \o Joins(p, m.groups))
      BY <1>3 DEF Sending
  <2>2. peers[p].state # "known" => p \notin full
      BY <2>1 DEF Full
  <2>3. m.id = "HELLO"
      BY DEF RecvHello
  <2> QED BY <1>3, <2>1, <2>2, <2>3 DEF found
<1> QED BY <1>1, <1>2, <1>3

\* The tables of peers and groups a HELLO leaves.
LEMMA HelloTables ==
    ASSUME NodeOK, PeersOK, MembersOK, NEW m \in Message, NEW ok \in BOOLEAN
    PROVE  LET found == RequirePeer(Left(m.peer), m.peer, ok)
           IN  /\ Left(m.peer) \in [Peer -> PeerState]
               /\ found \in [Peer -> PeerState]
               /\ Met(found, m.peer) \in [Peer -> PeerState]
               /\ Met(found, m.peer)[m.peer].state = "ready"
               /\ Met(found, m.peer)[m.peer].met
               /\ \A q \in Peer \ {m.peer} : Met(found, m.peer)[q] = found[q]
               /\ DOMAIN Gone(m.peer) \subseteq Group
               /\ \A g \in DOMAIN Gone(m.peer) : Gone(m.peer)[g] \subseteq Peer
               /\ DOMAIN AndJoined(m) \subseteq Group
               /\ \A g \in DOMAIN AndJoined(m) : AndJoined(m)[g] \subseteq Peer
<1> DEFINE p == m.peer
           found == RequirePeer(Left(p), p, ok)
           greeted == Greeted(found[p])
<1>1. p \in Peer /\ m.groups \subseteq Group
    BY DEF Message
<1>2. Left(p) \in [Peer -> PeerState]
    BY <1>1, TimersSet DEF PeersOK, Left
<1>3. found \in [Peer -> PeerState]
    BY <1>1, <1>2, PeersGrow
<1> HIDE DEF found
<1>4. greeted \in PeerState /\ greeted.state = "ready" /\ greeted.met
  <2>1. found[p] \in PeerState
      BY <1>1, <1>3
  <2> QED BY <2>1, EntriesAre
<1> HIDE DEF greeted
<1>5. /\ Refreshed(greeted) \in PeerState /\ Refreshed(greeted).state = "ready"
      /\ Refreshed(greeted).met
    BY <1>4, TimersSet
<1>6. Met(found, p) = [found EXCEPT ![p] = Refreshed(greeted)]
    BY DEF Met, greeted
<1>7. DOMAIN Gone(p) \subseteq Group /\ \A g \in DOMAIN Gone(p) : Gone(p)[g] \subseteq Peer
    BY <1>1, GroupsShrink DEF MembersOK, Gone
<1>8. DOMAIN AndJoined(m) \subseteq Group
      /\ \A g \in DOMAIN AndJoined(m) : AndJoined(m)[g] \subseteq Peer
    BY <1>1, <1>7 DEF AndJoined
<1> QED BY <1>1, <1>2, <1>3, <1>5, <1>6, <1>7, <1>8 DEF found

\* A HELLO replaces a peer that is ready, or makes it so.
LEMMA HelloKeeps ==
    ASSUME IInv, UNCHANGED asked, NEW m \in Message, RecvHello(m)
    PROVE  NodeNext
<1>1. NodeOK /\ PeersOK /\ MembersOK
    BY DEF IInv
<1>2. PICK ok \in BOOLEAN : \E full :
          LET found == RequirePeer(Left(m.peer), m.peer, ok)
          IN  \/ \E out : Outcome(Disconnected(found, full), Gone(m.peer), out)
              \/ \E out : Outcome(Disconnected(Met(found, m.peer), full), AndJoined(m), out)
    BY HelloShape
<1> QED BY <1>1, <1>2, HelloTables, DisconnectedIs, OutcomeKeeps

\* The message of a peer that is ready renews its timers; some change a group.
LEMMA AcceptedKeep ==
    ASSUME IInv, UNCHANGED asked, NEW m \in Message,
           RecvData(m) \/ RecvPing(m) \/ RecvJoin(m) \/ RecvLeave(m) \/ RecvElection(m)
    PROVE  NodeNext
<1>1. /\ NodeOK /\ PeersOK /\ MembersOK
      /\ m.peer \in Peer /\ m.groups \subseteq Group
    BY DEF IInv, Message
<1>2. Answering(m.peer) \in [Peer -> PeerState]
    BY <1>1, TimersSet DEF PeersOK, Answering
<1>3. ASSUME NEW out, Outcome(Answering(m.peer), members, out)
      PROVE  NodeNext
    BY <1>1, <1>2, <1>3, OutcomeKeeps DEF MembersOK
<1>4. CASE RecvData(m) \/ RecvPing(m)
  <2>1. CASE Sending({m.peer}, Answering(m.peer), members, <<>>)
      BY <1>1, <1>2, <2>1, SendingKeeps DEF MembersOK
  <2> QED BY <1>3, <1>4, <2>1 DEF RecvData, RecvPing
<1>5. ASSUME NEW g \in Group, NEW S \in SUBSET Peer, NEW out, NEW to,
             Sending(to, Answering(m.peer), [RequireGroup(g) EXCEPT ![g] = S], out)
      PROVE  NodeNext
  <2> DEFINE groups == [RequireGroup(g) EXCEPT ![g] = S]
  <2>1. DOMAIN groups \subseteq Group /\ \A h \in DOMAIN groups : groups[h] \subseteq Peer
      BY <1>1, GroupsGrow
  <2> HIDE DEF groups
  <2> QED BY <1>2, <1>5, <2>1, SendingKeeps DEF groups
<1>6. \A g \in Group : RequireGroup(g)[g] \subseteq Peer
    BY <1>1, GroupsGrow
<1>7. CASE RecvJoin(m)
  <2>1. PICK g \in m.groups :
            \E to, out : Sending(to, Answering(m.peer),
                                 [RequireGroup(g) EXCEPT ![g] = RequireGroup(g)[g] \cup {m.peer}],
                                 out)
      BY <1>7 DEF RecvJoin
  <2>2. RequireGroup(g)[g] \cup {m.peer} \in SUBSET Peer /\ g \in Group
      BY <1>1, <1>6
  <2> QED BY <1>5, <2>1, <2>2
<1>8. CASE RecvLeave(m)
  <2>1. PICK g \in m.groups :
            \E to, out : Sending(to, Answering(m.peer),
                                 [RequireGroup(g) EXCEPT ![g] = RequireGroup(g)[g] \ {m.peer}],
                                 out)
      BY <1>8 DEF RecvLeave
  <2>2. RequireGroup(g)[g] \ {m.peer} \in SUBSET Peer /\ g \in Group
      BY <1>1, <1>6
  <2> QED BY <1>5, <2>1, <2>2
<1>9. CASE RecvElection(m)
  <2>1. PICK g \in m.groups :
            \E to, out : Sending(to, Answering(m.peer), RequireGroup(g), out)
      BY <1>9 DEF RecvElection
  <2> QED BY <1>1, <1>2, <2>1, GroupsGrow, SendingKeeps
<1> QED BY <1>4, <1>7, <1>8, <1>9

\* A message leaves the inbox.
LEMMA RecvPeerKeeps ==
    ASSUME IInv, RecvPeer
    PROVE  IInv'
<1> DEFINE m == Head(inbox)
<1>1. /\ inbox \in Seq(Message) /\ inbox # <<>> /\ inbox' = Tail(inbox)
      /\ UNCHANGED <<pipes, slept, app, pings, dead, limits>>
    BY DEF IInv, WorldOK, RecvPeer
<1>2. m \in Message /\ Tail(inbox) \in Seq(Message)
    BY <1>1
<1>3. \/ RecvHello(m) \/ RecvUnready(m) \/ RecvLost(m) \/ RecvData(m)
      \/ RecvPing(m) \/ RecvJoin(m) \/ RecvLeave(m) \/ RecvElection(m)
      \/ RecvGoodbye(m)
    BY DEF RecvPeer
<1> HIDE DEF m
<1>4. m.peer \in Peer /\ PeersOK /\ MembersOK /\ NodeOK
    BY <1>2 DEF Message, IInv
<1>5. UNCHANGED asked
    BY <1>1 DEF app
<1>6. NodeNext
  <2>1. CASE RecvUnready(m)
      BY <1>5, <2>1, UntouchedKeep DEF RecvUnready, Ignored, Outcome
  <2>2. CASE RecvLost(m)
      BY <1>4, <1>5, <2>2, RemovedKeeps DEF RecvLost
  <2>3. CASE RecvGoodbye(m)
    <3>1. CASE Removed(m.peer)
        BY <1>4, <1>5, <3>1, RemovedKeeps
    <3>2. CASE Outcome(Answering(m.peer), members, <<>>)
      <4>1. Answering(m.peer) \in [Peer -> PeerState]
          BY <1>4, TimersSet DEF PeersOK, Answering
      <4> QED BY <1>4, <1>5, <3>2, <4>1, OutcomeKeeps DEF MembersOK
    <3> QED BY <2>3, <3>1, <3>2 DEF RecvGoodbye
  <2>4. CASE RecvHello(m)
      BY <1>2, <1>5, <2>4, HelloKeeps
  <2>5. CASE RecvData(m) \/ RecvPing(m) \/ RecvJoin(m) \/ RecvLeave(m) \/ RecvElection(m)
      BY <1>2, <1>5, <2>5, AcceptedKeep
  <2> QED BY <1>3, <2>1, <2>2, <2>3, <2>4, <2>5
<1>7. AppOK' /\ EventsOK' /\ slept' \in Nat /\ limits' \in Limits
    BY <1>1 DEF IInv, AppOK, EventsOK, app, pipes
<1>8. WorldOK'
    BY <1>1, <1>2 DEF IInv, WorldOK
<1> QED BY <1>6, <1>7, <1>8 DEF IInv, NodeNext

\* A beacon or gossip names a peer.
LEMMA DiscoverKeeps ==
    ASSUME IInv, Discover
    PROVE  IInv'
<1>1. Spend("discover") /\ UNCHANGED <<pipes, slept, app, world>>
    BY DEF Discover
<1>2. UNCHANGED asked
    BY <1>1 DEF app
<1>3. NodeOK /\ PeersOK /\ MembersOK
    BY DEF IInv
<1>4. PICK p \in Peer :
          \/ \E ok \in BOOLEAN : Outcome(RequirePeer(peers, p, ok), members, <<>>)
          \/ Removed(p)
          \/ Ignored
  <2>1. limits.cast \subseteq Peer
      BY DEF IInv, Limits
  <2> QED BY <2>1 DEF Discover
<1>5. NodeNext
  <2>1. CASE \E ok \in BOOLEAN : Outcome(RequirePeer(peers, p, ok), members, <<>>)
      BY <1>2, <1>3, <2>1, PeersGrow, OutcomeKeeps DEF MembersOK, PeersOK
  <2>2. CASE Removed(p)
      BY <1>2, <2>2, RemovedKeeps
  <2>3. CASE Ignored
      BY <1>2, <2>3, UntouchedKeep DEF Ignored, Outcome
  <2> QED BY <1>4, <2>1, <2>2, <2>3
<1>6. AppOK' /\ EventsOK' /\ slept' \in Nat /\ WorldOK'
    BY <1>1 DEF IInv, AppOK, EventsOK, WorldOK, app, pipes, world
<1>7. limits' \in Limits
    BY <1>1, SpendLimits DEF IInv, BudgetKinds
<1> QED BY <1>5, <1>6, <1>7 DEF IInv, NodeNext

\* The node gets its port, and listens; or it has an endpoint already.
LEMMA StartBeaconKeeps ==
    ASSUME IInv, StartBeacon
    PROVE  IInv'
<1>1. UNCHANGED <<pipes, slept, app, world, limits>>
    BY DEF StartBeacon
<1>2. UNCHANGED asked
    BY <1>1 DEF app
<1>3. NodeNext
  <2>1. CASE Abort("endpoint")
      BY <1>2, <2>1, UntouchedKeep DEF Abort
  <2>2. CASE node.beacon /\ Only([node EXCEPT !.port = TRUE, !.endpoint = TRUE,
                                              !.polled = @ \cup {"beacon", "inbox"}], <<>>)
    <3> DEFINE n == [node EXCEPT !.port = TRUE, !.endpoint = TRUE,
                                 !.polled = node.polled \cup {"beacon", "inbox"}]
    <3>1. /\ n \in NodeState /\ n.polled = node.polled \cup {"beacon", "inbox"}
          /\ n.beacon = node.beacon /\ n.gossip = node.gossip
        BY DEF IInv, NodeOK, NodeState
    <3>2. Only(n, <<>>)
        BY <2>2
    <3> HIDE DEF n
    <3> QED BY <1>2, <2>2, <3>1, <3>2, OnlyKeeps DEF IInv, NodeOK
  <2> QED BY <2>1, <2>2 DEF StartBeacon
<1>4. AppOK' /\ EventsOK' /\ slept' \in Nat /\ WorldOK' /\ limits' \in Limits
    BY <1>1 DEF IInv, AppOK, EventsOK, WorldOK, app, pipes, world
<1> QED BY <1>3, <1>4 DEF IInv, NodeNext

\* The reaper forgets the peers that are overdue and pings those that are late.
LEMMA ReapPeersKeeps ==
    ASSUME IInv, ReapPeers
    PROVE  IInv'
<1> DEFINE next == [p \in Peer |-> IF p \in Overdue THEN Unknown ELSE peers[p]]
<1>1. UNCHANGED <<pipes, app, inbox, dead, limits>> /\ slept' = 0
    BY DEF ReapPeers
<1>2. UNCHANGED asked
    BY <1>1 DEF app
<1>3. NodeOK /\ PeersOK /\ MembersOK
    BY DEF IInv
<1>4. next \in [Peer -> PeerState]
    BY <1>3, TimersSet DEF PeersOK
<1>5. \E out, full : Outcome(Disconnected(next, full), WithoutPeers(Overdue), out)
    BY DEF ReapPeers
<1> HIDE DEF next
<1>6. NodeNext
    BY <1>2, <1>3, <1>4, <1>5, GroupsShrink, OutcomeKeeps, DisconnectedIs
<1>7. AppOK' /\ EventsOK' /\ slept' \in Nat /\ limits' \in Limits
    BY <1>1 DEF IInv, AppOK, EventsOK, app, pipes
<1>8. WorldOK'
  <2>1. Evading \subseteq Peer
        /\ \E full : pings' = pings \cup ((Evading \cap Open) \ (dead \cup full))
      BY DEF Evading, Known, ReapPeers
  <2> QED BY <1>1, <2>1 DEF IInv, WorldOK
<1> QED BY <1>6, <1>7, <1>8 DEF IInv, NodeNext

-----------------------------------------------------------------------------
(***************************************************************************)
(* The peers and the clock.                                                *)
(***************************************************************************)
\* Peers speak, answer and die.
LEMMA WorldKeeps ==
    ASSUME IInv, Say \/ AnswerPing \/ Die
    PROVE  IInv'
<1>1. UNCHANGED <<pipes, app, actor>>
    BY DEF Say, AnswerPing, Die
<1>2. AppOK' /\ EventsOK' /\ NodeOK' /\ Listening' /\ PeersOK' /\ MembersOK'
      /\ slept' \in Nat
    BY <1>1 DEF IInv, AppOK, EventsOK, NodeOK, Listening, PeersOK, MembersOK,
                app, pipes, actor
<1>3. WorldOK' /\ limits' \in Limits
  <2>1. CASE Say
    <3>1. PICK m \in Message : inbox' = Append(inbox, m)
        BY <2>1 DEF Say
    <3>2. WorldOK'
        BY <2>1, <3>1 DEF Say, IInv, WorldOK
    <3>3. limits' \in Limits
        BY <2>1, SpendLimits DEF Say, IInv, BudgetKinds
    <3> QED BY <3>2, <3>3
  <2>2. CASE AnswerPing
    <3>1. PICK p \in pings :
              /\ \/ inbox' = Append(inbox, [peer |-> p, groups |-> {}, lost |-> FALSE,
                                            id |-> "PING_OK"])
                 \/ inbox' = inbox
              /\ pings' = pings \ {p}
        BY <2>2 DEF AnswerPing
    <3>2. [peer |-> p, groups |-> {}, lost |-> FALSE, id |-> "PING_OK"] \in Message
        BY DEF IInv, WorldOK, Message, Ids
    <3>3. WorldOK' /\ limits' = limits
        BY <2>2, <3>1, <3>2 DEF AnswerPing, IInv, WorldOK
    <3> QED BY <3>3 DEF IInv
  <2>3. CASE Die
    <3>1. PICK p \in limits.cast \ dead : dead' = dead \cup {p} /\ pings' = pings \ {p}
        BY <2>3 DEF Die
    <3>2. p \in Peer
        BY DEF IInv, Limits
    <3>3. WorldOK'
        BY <2>3, <3>1, <3>2 DEF Die, IInv, WorldOK
    <3>4. limits' \in Limits
        BY <2>3, SpendLimits DEF Die, IInv, BudgetKinds
    <3> QED BY <3>3, <3>4
  <2> QED BY <2>1, <2>2, <2>3
<1> QED BY <1>2, <1>3 DEF IInv

\* Time passes.
LEMMA TickKeeps ==
    ASSUME IInv, Tick
    PROVE  IInv'
<1>1. UNCHANGED <<pipes, app, node, members, world>>
    BY DEF Tick
<1>2. AppOK' /\ EventsOK' /\ NodeOK' /\ Listening' /\ MembersOK' /\ WorldOK'
    BY <1>1 DEF IInv, AppOK, EventsOK, NodeOK, Listening, MembersOK, WorldOK,
                app, pipes, world
<1>3. slept' \in Nat
  <2>1. slept \in Nat /\ Reap \in Nat /\ slept' = Least(slept + 1, Reap)
      BY NumberAssumption DEF IInv, Tick
  <2> QED BY <2>1 DEF Least
<1>4. PeersOK'
  <2>1. ASSUME NEW q \in PeerState
        PROVE  [q EXCEPT !.evasive = Most(@ - 1, -Reap), !.expired = Most(@ - 1, 0)]
                    \in PeerState
    <3>1. Most(q.evasive - 1, -Reap) \in Int /\ Most(q.expired - 1, 0) \in Nat
        BY NumberAssumption DEF Most, PeerState
    <3> QED BY <3>1 DEF PeerState
  <2>2. peers \in [Peer -> PeerState]
      BY DEF IInv, PeersOK
  <2> QED BY <2>1, <2>2 DEF Tick, PeersOK
<1>5. limits' \in Limits
    BY SpendLimits DEF Tick, IInv, BudgetKinds
<1> QED BY <1>2, <1>3, <1>4, <1>5 DEF IInv

-----------------------------------------------------------------------------
\* Every step keeps the invariant.
LEMMA StepKeeps == IInv /\ [Next]_vars => IInv'
<1> SUFFICES ASSUME IInv, [Next]_vars PROVE IInv'
    OBVIOUS
<1>1. CASE UNCHANGED vars
    BY <1>1 DEF vars, app, pipes, actor, world, IInv, AppOK, EventsOK, NodeOK,
                Listening, PeersOK, MembersOK, WorldOK
<1>2. CASE Whisper \/ Shout \/ Whispers \/ Shouts
    BY <1>2, SendsKeep
<1>3. CASE \/ SetHeader \/ SetBeaconPeerPort \/ SetInterval \/ SetCurve
           \/ SetContestInGroup \/ Destroy \/ Dump
    BY <1>3, PassedOnKeep
<1>4. CASE \/ Uuid \/ NameOf \/ Peers \/ PeersByGroup \/ PeerAddress
           \/ PeerHeaderValue \/ OwnGroups \/ PeerGroups
    BY <1>4, QueriesKeep
<1>5. CASE \/ SetName \/ SetPort \/ SetEvasiveTimeout \/ SetSilentTimeout
           \/ SetExpiredTimeout \/ Join \/ Leave
    BY <1>5, SettingsKeep DEF SetEvasiveTimeout, SetSilentTimeout, SetExpiredTimeout
<1>6. CASE \/ RequirePeerCall \/ GossipBind \/ GossipConnect
           \/ GossipUnpublishCall \/ SetEndpoint \/ Start \/ Stop
    BY <1>6, SetUpKeeps DEF GossipBind, GossipConnect
<1>7. CASE Return \/ TakeEvent \/ GetMsg
    BY <1>7, ReadsKeep
<1>8. CASE Round
    BY <1>8, FlushKeeps, RecvApiKeeps, RecvPeerKeeps, ReapPeersKeeps DEF Round
<1>9. CASE Discover \/ StartBeacon
    BY <1>9, DiscoverKeeps, StartBeaconKeeps
<1>10. CASE Say \/ AnswerPing \/ Die \/ Tick
    BY <1>10, WorldKeeps, TickKeeps
<1> QED BY <1>1, <1>2, <1>3, <1>4, <1>5, <1>6, <1>7, <1>8, <1>9, <1>10 DEF Next

\* The invariant holds of every behaviour: of the commands in the pipe, of the
\* node's tables and of what its poller holds.
THEOREM Invariant == Spec => []IInv
BY InitInvariant, StepKeeps, PTL DEF Spec

\* Whatever the application calls, in whatever order, and whatever the peers
\* say, the node's tables stay well-typed and neither pipe holds more than its
\* high-water mark: nothing is dropped from them, the writer waits.
THEOREM TypeCorrect == Spec => []TypeOK
BY Invariant, InvariantSuffices, PTL

\* The poller of zyre_node_actor never holds a beacon or gossip actor that has
\* been destroyed or was never made, and a node with a port that has not been
\* told to stop listens to its inbox.
THEOREM PollerSound == Spec => []PollsWhatItHas
BY Invariant, InvariantSuffices, PTL

-----------------------------------------------------------------------------
(***************************************************************************)
(* What an application may rely on when it calls a node, for any peers,    *)
(* groups, timeouts, sizes of the pipes and choice of budgets: every call  *)
(* gets its own reply (Paired), a reply knows of all that was posted       *)
(* before the call (ReadsItsWrites), the documented order of the calls     *)
(* keeps the node from its assertions (CarefulNeverAborts), and the events *)
(* add up to what the node's tables say (ViewFollows).                     *)
(***************************************************************************)

-----------------------------------------------------------------------------
(***************************************************************************)
(* The steps, by what they do to the two pipes and to asked.               *)
(***************************************************************************)
\* What the application notes down when it writes c.
Notes(c) ==
    CASE c.name = "SET NAME" -> [asked EXCEPT !.name = c.arg]
      [] c.name = "SET PORT" ->
            [asked EXCEPT !.port = c.arg, !.careful = InOrder(~asked.gossip)]
      [] c.name \in {"SET EVASIVE TIMEOUT", "SET EXPIRED TIMEOUT"} ->
            [asked EXCEPT !.tuned = TRUE]
      [] c.name = "REQUIRE PEER" -> [asked EXCEPT !.careful = InOrder(asked.endpoint)]
      [] c.name = "GOSSIP" ->
            [asked EXCEPT !.gossip = TRUE, !.careful = InOrder(~asked.running),
                          !.port = IF asked.gossip THEN @ ELSE 0]
      [] c.name = "GOSSIP UNPUBLISH" -> [asked EXCEPT !.careful = InOrder(asked.gossip)]
      [] c.name = "JOIN" -> [asked EXCEPT !.groups = @ \cup {c.arg}]
      [] c.name = "LEAVE" -> [asked EXCEPT !.groups = @ \ {c.arg}]
      [] c.name = "SET ENDPOINT" -> [asked EXCEPT !.careful = InOrder(~asked.running)]
      [] c.name = "START" ->
            [asked EXCEPT
                !.careful = InOrder(~asked.running /\ (asked.port = 0 => asked.gossip))]
      [] c.name = "STOP" -> [asked EXCEPT !.stopped = TRUE]
      [] OTHER -> asked

Posted(c) == c \in Commands /\ c.name \in Posts /\ Post(c) /\ asked' = Notes(c)
Called(c) == c \in Commands /\ c.name \in Calls /\ Call(c) /\ asked' = Notes(c)

\* What the application's thread does with the pipe of commands.
Writes ==
    \/ \E c \in Commands : Posted(c) \/ Called(c)
    \/ \E c : PostHalf(c)

LEMMA SendsWrite ==
    ASSUME Whisper \/ Shout \/ Whispers \/ Shouts
    PROVE  Writes
<1>1. ASSUME NEW p \in Peer, Post(Command("WHISPER", p)), UNCHANGED asked
      PROVE  Posted(Command("WHISPER", p)) /\ Command("WHISPER", p) \in Commands
  <2>1. Command("WHISPER", p) \in Commands /\ Command("WHISPER", p).name = "WHISPER"
    BY CommandsOfPeers
  <2> QED BY <1>1, <2>1 DEF Posted, Notes, Posts
<1>2. ASSUME NEW g \in Group, Post(Command("SHOUT", g)), UNCHANGED asked
      PROVE  Posted(Command("SHOUT", g)) /\ Command("SHOUT", g) \in Commands
  <2>1. Command("SHOUT", g) \in Commands /\ Command("SHOUT", g).name = "SHOUT"
    BY CommandsOfGroups
  <2> QED BY <1>2, <2>1 DEF Posted, Notes, Posts
<1>3. CASE Whisper
  BY <1>1, <1>3 DEF Whisper, Writes
<1>4. CASE Shout
  BY <1>2, <1>4 DEF Shout, Writes
<1>5. CASE Whispers
  BY <1>1, <1>5 DEF Whispers, Writes
<1>6. CASE Shouts
  BY <1>2, <1>6 DEF Shouts, Writes
<1> QED BY <1>3, <1>4, <1>5, <1>6

LEMMA PassedOnWrite ==
    ASSUME SetHeader \/ SetBeaconPeerPort \/ SetInterval \/ SetCurve
           \/ SetContestInGroup \/ Destroy \/ Dump
    PROVE  Writes
<1>1. CASE PostOther
  <2> DEFINE c == Command("SET OTHER", Null)
  <2>1. c \in Commands /\ c.name = "SET OTHER"
    BY CommandsWithoutArgument DEF NoArg
  <2>2. Post(c) /\ UNCHANGED asked
    BY <1>1 DEF PostOther
  <2> HIDE DEF c
  <2>3. Posted(c)
    BY <2>1, <2>2 DEF Posted, Notes, Posts
  <2> QED BY <2>1, <2>3 DEF Writes
<1>2. CASE SetContestInGroup
  <2>1. PICK g \in Group : Post(Command("SET CONTEST", g)) /\ UNCHANGED asked
    BY <1>2 DEF SetContestInGroup
  <2> DEFINE c == Command("SET CONTEST", g)
  <2>2. c \in Commands /\ c.name = "SET CONTEST"
    BY CommandsOfGroups
  <2> HIDE DEF c
  <2>3. Posted(c)
    BY <2>1, <2>2 DEF Posted, Notes, Posts, c
  <2> QED BY <2>2, <2>3 DEF Writes
<1>3. CASE Destroy
  <2> DEFINE c == Command("$TERM", Null)
  <2>1. c \in Commands /\ c.name = "$TERM"
    BY CommandsWithoutArgument DEF NoArg
  <2>2. Call(c) /\ UNCHANGED asked
    BY <1>3 DEF Destroy
  <2> HIDE DEF c
  <2>3. Called(c)
    BY <2>1, <2>2 DEF Called, Notes, Calls
  <2> QED BY <2>1, <2>3 DEF Writes
<1>4. CASE Dump
  <2> DEFINE c == Command("DUMP", Null)
  <2>1. c \in Commands /\ c.name = "DUMP"
    BY CommandsWithoutArgument DEF NoArg
  <2>2. Post(c) /\ UNCHANGED asked
    BY <1>4 DEF Dump
  <2> HIDE DEF c
  <2>3. Posted(c)
    BY <2>1, <2>2 DEF Posted, Notes, Posts
  <2> QED BY <2>1, <2>3 DEF Writes
<1> QED BY <1>1, <1>2, <1>3, <1>4
        DEF SetHeader, SetBeaconPeerPort, SetInterval, SetCurve

LEMMA QueriesWrite ==
    ASSUME Uuid \/ NameOf \/ Peers \/ PeersByGroup \/ PeerAddress
           \/ PeerHeaderValue \/ OwnGroups \/ PeerGroups
    PROVE  Writes
<1>1. ASSUME NEW c \in Commands, c.name \in Calls,
             c.name \notin {"SET ENDPOINT", "START", "STOP"}, Call(c), UNCHANGED asked
      PROVE  Writes
  <2>1. Called(c)
    BY <1>1 DEF Called, Notes, Calls
  <2> QED BY <2>1 DEF Writes
<1>2. ASSUME NEW name \in {"UUID", "NAME", "PEERS", "OWN GROUPS", "PEER GROUPS"},
             Ask(name, Null)
      PROVE  Writes
  <2>1. Command(name, Null) \in Commands /\ Command(name, Null).name = name
    BY CommandsWithoutArgument DEF NoArg
  <2> QED BY <1>1, <1>2, <2>1 DEF Ask, Calls
<1>3. CASE PeersByGroup
  <2>1. PICK g \in Group : Ask("GROUP PEERS", g)
    BY <1>3 DEF PeersByGroup
  <2>2. Command("GROUP PEERS", g) \in Commands /\ Command("GROUP PEERS", g).name = "GROUP PEERS"
    BY CommandsOfGroups
  <2> QED BY <1>1, <2>1, <2>2 DEF Ask, Calls
<1>4. CASE PeerAddress \/ PeerHeaderValue
  <2>1. PICK p \in Peer, name \in {"PEER ENDPOINT", "PEER HEADER"} : Ask(name, p)
    BY <1>4 DEF PeerAddress, PeerHeaderValue
  <2>2. Command(name, p) \in Commands /\ Command(name, p).name = name
    BY CommandsOfPeers
  <2> QED BY <1>1, <2>1, <2>2 DEF Ask, Calls
<1> QED BY <1>2, <1>3, <1>4 DEF Uuid, NameOf, Peers, OwnGroups, PeerGroups

LEMMA SettingsWrite ==
    ASSUME SetName \/ SetPort \/ PostTimeout("SET EVASIVE TIMEOUT")
           \/ PostTimeout("SET EXPIRED TIMEOUT") \/ Join \/ Leave
    PROVE  Writes
<1>1. ASSUME NEW c \in Commands, c.name \in Posts, Post(c), asked' = Notes(c)
      PROVE  Writes
  BY <1>1 DEF Posted, Writes
<1>2. CASE SetName
  <2>1. PICK n \in Name : Post(Command("SET NAME", n)) /\ asked' = [asked EXCEPT !.name = n]
    BY <1>2 DEF SetName
  <2> DEFINE c == Command("SET NAME", n)
  <2>2. c \in Commands /\ c.name = "SET NAME" /\ c.arg = n
    BY DEF Command, Commands
  <2> HIDE DEF c
  <2>3. asked' = Notes(c)
    BY <2>1, <2>2 DEF Notes
  <2> QED BY <1>1, <2>1, <2>2, <2>3 DEF c, Posts
<1>3. CASE SetPort
  <2>1. PICK n \in {0, 1} :
            /\ Post(Command("SET PORT", n))
            /\ asked' = [asked EXCEPT !.port = n, !.careful = InOrder(~asked.gossip)]
    BY <1>3 DEF SetPort
  <2> DEFINE c == Command("SET PORT", n)
  <2>2. c \in Commands /\ c.name = "SET PORT" /\ c.arg = n
    BY DEF Command, Commands
  <2> HIDE DEF c
  <2>3. asked' = Notes(c)
    BY <2>1, <2>2 DEF Notes
  <2> QED BY <1>1, <2>1, <2>2, <2>3 DEF c, Posts
<1>4. ASSUME NEW name \in {"SET EVASIVE TIMEOUT", "SET EXPIRED TIMEOUT"}, PostTimeout(name)
      PROVE  Writes
  <2>1. PICK t \in Timeout : Post(Command(name, t))
    BY <1>4 DEF PostTimeout
  <2> DEFINE c == Command(name, t)
  <2>2. c \in Commands /\ c.name = name
    BY CommandsOfTimeouts
  <2> HIDE DEF c
  <2>3. asked' = Notes(c)
    BY <1>4, <2>2 DEF Notes, PostTimeout
  <2> QED BY <1>1, <2>1, <2>2, <2>3 DEF c, Posts
<1>5. CASE Join \/ Leave
  <2>1. PICK g \in Group, name \in {"JOIN", "LEAVE"} :
            /\ Post(Command(name, g))
            /\ name = "JOIN" => asked' = [asked EXCEPT !.groups = @ \cup {g}]
            /\ name = "LEAVE" => asked' = [asked EXCEPT !.groups = @ \ {g}]
    BY <1>5 DEF Join, Leave
  <2> DEFINE c == Command(name, g)
  <2>2. c \in Commands /\ c.name = name /\ c.arg = g
    BY CommandsOfGroups DEF Command
  <2> HIDE DEF c
  <2>3. asked' = Notes(c)
    BY <2>1, <2>2 DEF Notes
  <2> QED BY <1>1, <2>1, <2>2, <2>3 DEF c, Posts
<1> QED BY <1>2, <1>3, <1>4, <1>5

LEMMA SetUpWrites ==
    ASSUME RequirePeerCall \/ PostGossip \/ GossipUnpublishCall
           \/ SetEndpoint \/ Start \/ Stop
    PROVE  Writes
<1>1. ASSUME NEW c \in Commands, \/ c.name \in Posts /\ Post(c)
                                 \/ c.name \in Calls /\ Call(c),
             asked' = Notes(c)
      PROVE  Writes
  BY <1>1 DEF Posted, Called, Writes
<1>2. CASE RequirePeerCall
  <2>1. PICK p \in Peer : Post(Command("REQUIRE PEER", p))
    BY <1>2 DEF RequirePeerCall
  <2> DEFINE c == Command("REQUIRE PEER", p)
  <2>2. c \in Commands /\ c.name = "REQUIRE PEER"
    BY CommandsOfPeers
  <2> HIDE DEF c
  <2>3. asked' = Notes(c)
    BY <1>2, <2>2 DEF Notes, RequirePeerCall
  <2> QED BY <1>1, <2>1, <2>2, <2>3 DEF c, Posts
<1>3. ASSUME NEW name \in {"GOSSIP", "GOSSIP UNPUBLISH"}, Post(Command(name, Null)),
             name = "GOSSIP" => PostGossip, name = "GOSSIP UNPUBLISH" => GossipUnpublishCall
      PROVE  Writes
  <2> DEFINE c == Command(name, Null)
  <2>2. c \in Commands /\ c.name = name
    BY CommandsWithoutArgument DEF NoArg
  <2> HIDE DEF c
  <2>3. asked' = Notes(c)
    BY <1>3, <2>2 DEF Notes, PostGossip, GossipUnpublishCall
  <2> QED BY <1>1, <1>3, <2>2, <2>3 DEF c, Posts
<1>4. CASE PostGossip \/ GossipUnpublishCall
  <2>1. PostGossip => Post(Command("GOSSIP", Null))
    BY DEF PostGossip
  <2>2. GossipUnpublishCall => Post(Command("GOSSIP UNPUBLISH", Null))
    BY DEF GossipUnpublishCall
  <2> QED BY <1>3, <1>4, <2>1, <2>2
<1>5. ASSUME NEW name \in {"SET ENDPOINT", "START", "STOP"}, Call(Command(name, Null)),
             name = "SET ENDPOINT" => SetEndpoint, name = "START" => Start,
             name = "STOP" => Stop
      PROVE  Writes
  <2> DEFINE c == Command(name, Null)
  <2>2. c \in Commands /\ c.name = name
    BY CommandsWithoutArgument DEF NoArg
  <2> HIDE DEF c
  <2>3. asked' = Notes(c)
    BY <1>5, <2>2 DEF Notes, SetEndpoint, Start, Stop
  <2> QED BY <1>1, <1>5, <2>2, <2>3 DEF c, Calls
<1>6. CASE SetEndpoint \/ Start \/ Stop
  <2>1. SetEndpoint => Call(Command("SET ENDPOINT", Null))
    BY DEF SetEndpoint
  <2>2. Start => Call(Command("START", Null))
    BY DEF Start
  <2>3. Stop => Call(Command("STOP", Null))
    BY DEF Stop
  <2> QED BY <1>5, <1>6, <2>1, <2>2, <2>3
<1> QED BY <1>2, <1>4, <1>6

\* The node's handlers that are not about a command, and the world.
NodeStep == RecvPeer \/ ReapPeers \/ Discover \/ StartBeacon
WorldStep == Say \/ AnswerPing \/ Die \/ Tick

LEMMA NextShape ==
    ASSUME Next
    PROVE  \/ Writes
           \/ Return \/ TakeEvent \/ GetMsg
           \/ Flush \/ RecvApi \/ NodeStep
           \/ WorldStep
<1>1. CASE Whisper \/ Shout \/ Whispers \/ Shouts
  BY <1>1, SendsWrite
<1>2. CASE \/ SetHeader \/ SetBeaconPeerPort \/ SetInterval \/ SetCurve
           \/ SetContestInGroup \/ Destroy \/ Dump
  BY <1>2, PassedOnWrite
<1>3. CASE \/ Uuid \/ NameOf \/ Peers \/ PeersByGroup \/ PeerAddress
           \/ PeerHeaderValue \/ OwnGroups \/ PeerGroups
  BY <1>3, QueriesWrite
<1>4. CASE \/ SetName \/ SetPort \/ SetEvasiveTimeout \/ SetSilentTimeout
           \/ SetExpiredTimeout \/ Join \/ Leave
  BY <1>4, SettingsWrite DEF SetEvasiveTimeout, SetSilentTimeout, SetExpiredTimeout
<1>5. CASE \/ RequirePeerCall \/ GossipBind \/ GossipConnect
           \/ GossipUnpublishCall \/ SetEndpoint \/ Start \/ Stop
  BY <1>5, SetUpWrites DEF GossipBind, GossipConnect
<1> QED BY <1>1, <1>2, <1>3, <1>4, <1>5 DEF Next, Round, NodeStep, WorldStep

-----------------------------------------------------------------------------
(***************************************************************************)
(* The reaper writes the events of its peers one after the other: Joined,  *)
(* by induction over the peers.                                            *)
(***************************************************************************)
LEMMA LeastElement ==
    ASSUME NEW T \in SUBSET Nat, T # {}
    PROVE  \E m \in T : \A k \in T : m <= k
<1> DEFINE R == OpToRel(<, Nat)
<1>1. IsWellFoundedOn(R, Nat)
  BY NatLessThanWellFounded
<1>2. \A x, y \in Nat : <<y, x>> \in R <=> y < x
  BY DEF OpToRel
<1> HIDE DEF R
<1>3. \E x \in T : \A y \in T : ~(<<y, x>> \in R)
  BY <1>1, WFMin
<1>4. PICK x \in T : \A y \in T : ~(<<y, x>> \in R)
  BY <1>3
<1>5. \A y \in T : ~(y < x)
  BY <1>2, <1>4
<1>6. \A a, b \in Nat : ~(a < b) => b <= a
  OBVIOUS
<1> QED BY <1>5, <1>6

\* A set of numbers that holds i, and with every number below n the next one.
LEMMA Climb ==
    ASSUME NEW S, NEW i \in Nat, NEW n \in Nat, i \in S,
           \A k \in i .. n - 1 : k \in S => k + 1 \in S
    PROVE  \A k \in i .. n : k \in S
<1> DEFINE T == {k \in Nat : i <= k /\ k <= n /\ k \notin S}
<1> SUFFICES ASSUME T # {} PROVE FALSE
  OBVIOUS
<1>1. PICK m \in T : \A k \in T : m <= k
  BY LeastElement
<1>2. m # i /\ m \in Nat /\ i <= m /\ m <= n /\ m \notin S
  BY <1>1
<1>3. m - 1 \in i .. n - 1 /\ m - 1 \in Nat
  BY <1>2
<1>4. m - 1 \in S
  BY <1>1, <1>3
<1> QED BY <1>2, <1>3, <1>4

Cat(s, t) == s \o t
IsJoined(h, f, n) ==
    h = [k \in 0 .. n |-> IF k = 0 THEN <<>> ELSE Cat(h[k - 1], f[k])]

LEMMA JoinedExists ==
    ASSUME NEW f, NEW n \in Nat
    PROVE  \E h : IsJoined(h, f, n)
<1> DEFINE S == {k \in Nat : \E h : IsJoined(h, f, k)}
<1>1. 0 \in S
  <2> DEFINE h == [k \in 0 .. 0 |-> <<>>]
  <2>1. h = [k \in 0 .. 0 |-> IF k = 0 THEN <<>> ELSE Cat(h[k - 1], f[k])]
    OBVIOUS
  <2> QED BY <2>1 DEF IsJoined
<1>2. ASSUME NEW k \in 0 .. n - 1, k \in S PROVE k + 1 \in S
  <2>1. PICK h : IsJoined(h, f, k)
    BY <1>2
  <2> DEFINE g == [j \in 0 .. k + 1 |-> IF j = k + 1 THEN Cat(h[k], f[k + 1]) ELSE h[j]]
  <2>2. \A j \in 0 .. k : h[j] = IF j = 0 THEN <<>> ELSE Cat(h[j - 1], f[j])
    BY <2>1 DEF IsJoined
  <2>3. ASSUME NEW j \in 0 .. k + 1
        PROVE  g[j] = IF j = 0 THEN <<>> ELSE Cat(g[j - 1], f[j])
    <3>1. CASE j = k + 1
      <4>1. j # 0 /\ j - 1 = k /\ g[k] = h[k] /\ g[j] = Cat(h[k], f[k + 1])
        BY <3>1
      <4> QED BY <3>1, <4>1
    <3>2. CASE j # k + 1
      <4>1. j \in 0 .. k /\ g[j] = h[j] /\ (j # 0 => g[j - 1] = h[j - 1])
        BY <3>2
      <4> QED BY <2>2, <4>1
    <3> QED BY <3>1, <3>2
  <2>4. g = [j \in 0 .. k + 1 |-> g[j]]
    OBVIOUS
  <2> HIDE DEF g
  <2>5. g = [j \in 0 .. k + 1 |-> IF j = 0 THEN <<>> ELSE Cat(g[j - 1], f[j])]
    BY <2>3, <2>4
  <2>6. IsJoined(g, f, k + 1)
    BY <2>5 DEF IsJoined
  <2> QED BY <2>6
<1> HIDE DEF S
<1>3. n \in S
  BY <1>1, <1>2, Climb
<1> QED BY <1>3 DEF S

LEMMA JoinedIs ==
    ASSUME NEW f, NEW n \in Nat
    PROVE  \E h : IsJoined(h, f, n) /\ Joined(f, n) = h[n]
<1> DEFINE R(h) == h = [k \in 0 .. n |-> IF k = 0 THEN <<>> ELSE Cat(h[k - 1], f[k])]
           upto == CHOOSE h : R(h)
<1>1. Joined(f, n) = upto[n]
  BY DEF Joined, Cat
<1>2. \E h : R(h)
  BY JoinedExists DEF IsJoined
<1>3. R(upto)
  BY <1>2
<1> HIDE DEF upto
<1>4. IsJoined(upto, f, n)
  BY <1>3 DEF IsJoined
<1> HIDE DEF R
<1> QED BY <1>1, <1>4

LEMMA JoinedSteps ==
    ASSUME NEW f, NEW n \in Nat, NEW h, IsJoined(h, f, n)
    PROVE  /\ h[0] = <<>>
           /\ \A k \in 0 .. n - 1 : h[k + 1] = Cat(h[k], f[k + 1])
<1>1. \A k \in 0 .. n : h[k] = IF k = 0 THEN <<>> ELSE Cat(h[k - 1], f[k])
  BY DEF IsJoined
<1>2. 0 \in 0 .. n
  OBVIOUS
<1>3. ASSUME NEW k \in 0 .. n - 1 PROVE h[k + 1] = Cat(h[k], f[k + 1])
  <2>1. k + 1 \in 0 .. n /\ k + 1 # 0 /\ (k + 1) - 1 = k
    OBVIOUS
  <2> QED BY <1>1, <2>1
<1> QED BY <1>1, <1>2, <1>3

LEMMA JoinedType ==
    ASSUME NEW S, NEW n \in Nat, NEW f, \A i \in 1 .. n : f[i] \in Seq(S)
    PROVE  Joined(f, n) \in Seq(S)
<1>1. PICK h : IsJoined(h, f, n) /\ Joined(f, n) = h[n]
  BY JoinedIs
<1>2. h[0] = <<>> /\ \A k \in 0 .. n - 1 : h[k + 1] = Cat(h[k], f[k + 1])
  BY <1>1, JoinedSteps
<1> DEFINE T == {k \in Nat : h[k] \in Seq(S)}
<1>3. 0 \in T
  <2>1. <<>> \in Seq(S)
    OBVIOUS
  <2> QED BY <1>2, <2>1
<1>4. ASSUME NEW k \in 0 .. n - 1, k \in T PROVE k + 1 \in T
  <2>1. k + 1 \in 1 .. n /\ h[k] \in Seq(S) /\ k + 1 \in Nat
    BY <1>4
  <2>2. h[k + 1] = Cat(h[k], f[k + 1]) /\ f[k + 1] \in Seq(S)
    BY <1>2, <2>1
  <2>3. \A s, t \in Seq(S) : Cat(s, t) \in Seq(S)
    BY DEF Cat
  <2> QED BY <2>1, <2>2, <2>3
<1> HIDE DEF T
<1>5. \A k \in 0 .. n : k \in T
  <2>1. 0 \in Nat /\ \A k \in 0 .. n - 1 : k \in T => k + 1 \in T
    BY <1>4
  <2> QED BY <1>3, <2>1, Climb
<1> QED BY <1>1, <1>5 DEF T

-----------------------------------------------------------------------------
(***************************************************************************)
(* What the node has to write: events, or the reply to a call.             *)
(***************************************************************************)
News ==
    {Enter(p) : p \in Peer} \cup {Exit(p) : p \in Peer}
    \cup {Quiet(type, p) : type \in {"EVASIVE", "SILENT"}, p \in Peer}
    \cup {Member(type, p, g) : type \in {"JOIN", "LEAVE", "LEADER"}, p \in Peer, g \in Group}
    \cup {Event(<<"WHISPER", p, <<"name", p>>, "content">>) : p \in Peer}
    \cup {Event(<<"SHOUT", p, <<"name", p>>, g, "content">>) : p \in Peer, g \in Group}
    \cup {Stopped(n) : n \in Name}

LEMMA NewsAreEvents == \A e \in News : e.to = "outbox" /\ ~IsReply(e)
BY DEF News, Enter, Exit, Quiet, Member, Event, Stopped, IsReply

\* The reply to a call of this name with this value, after the STOP event if it
\* is the reply to STOP.
Says(out, name, value) ==
    \/ out = <<Reply(name, value)>>
    \/ name = "STOP" /\ \E n \in Name : out = <<Stopped(n), Reply(name, value)>>

\* A handler of the node that is not about a command leaves only events.
LEMMA RecvPeerNews ==
    ASSUME IInv, RecvPeer
    PROVE  todo' \in Seq(News) /\ UNCHANGED <<node, failed>>
<1> DEFINE m == Head(inbox)
<1>1. m \in Message
  BY DEF IInv, WorldOK, RecvPeer
<1>2. \/ RecvHello(m) \/ RecvUnready(m) \/ RecvLost(m) \/ RecvData(m)
      \/ RecvPing(m) \/ RecvJoin(m) \/ RecvLeave(m) \/ RecvElection(m)
      \/ RecvGoodbye(m)
  BY DEF RecvPeer
<1> HIDE DEF m
<1>3. m.peer \in Peer /\ m.groups \subseteq Group
  BY <1>1 DEF Message
<1>4. ASSUME NEW next, NEW groups, NEW out \in Seq(News), Outcome(next, groups, out)
      PROVE  todo' \in Seq(News) /\ UNCHANGED <<node, failed>>
  BY <1>4 DEF Outcome
<1>4a. ASSUME NEW to, NEW next, NEW groups, NEW out \in Seq(News),
              Sending(to, next, groups, out)
       PROVE  todo' \in Seq(News) /\ UNCHANGED <<node, failed>>
  BY <1>4a DEF Sending, Outcome
<1>5. <<>> \in Seq(News) /\ \A e \in News : <<e>> \in Seq(News)
  OBVIOUS
<1>6. CASE RecvHello(m)
  <2>1. Exit(m.peer) \in News /\ Enter(m.peer) \in News
    BY <1>3 DEF News
  <2>2. Joins(m.peer, m.groups) \in Seq(News)
    <3>1. CASE m.groups = {}
      BY <3>1 DEF Joins
    <3>2. CASE m.groups # {}
      <4>1. PICK g \in Group : g = CHOOSE h \in m.groups : TRUE
        BY <1>3, <3>2
      <4>2. Joins(m.peer, m.groups) = <<Member("JOIN", m.peer, g)>>
        BY <3>2, <4>1 DEF Joins
      <4>3. Member("JOIN", m.peer, g) \in News
        BY <1>3 DEF News
      <4> QED BY <1>5, <4>2, <4>3
    <3> QED BY <3>1, <3>2
  <2> DEFINE out == Bye(m.peer) \o <<Enter(m.peer)>> \o Joins(m.peer, m.groups)
  <2>3. Bye(m.peer) \in Seq(News)
    BY <1>5, <2>1 DEF Bye
  <2>4. \E next, groups : Outcome(next, groups, Bye(m.peer)) \/ Outcome(next, groups, out)
    BY <1>6, HelloShape
  <2>5. out \in Seq(News)
    BY <1>5, <2>1, <2>2, <2>3
  <2> HIDE DEF out
  <2> QED BY <1>4, <2>3, <2>4, <2>5
<1>7. CASE RecvUnready(m) \/ RecvPing(m)
  BY <1>4, <1>4a, <1>5, <1>7 DEF RecvUnready, Ignored, RecvPing
<1>8. Exit(m.peer) \in News
  BY <1>3 DEF News
<1>9. CASE RecvLost(m) \/ RecvGoodbye(m)
  BY <1>4, <1>4a, <1>5, <1>8, <1>9 DEF RecvLost, RecvGoodbye, Removed
<1>10. CASE RecvData(m)
  <2>1. Event(<<"WHISPER", m.peer, <<"name", m.peer>>, "content">>) \in News
    BY <1>3 DEF News
  <2>2. ASSUME NEW g \in m.groups
        PROVE  Event(<<"SHOUT", m.peer, <<"name", m.peer>>, g, "content">>) \in News
    BY <1>3 DEF News
  <2> QED BY <1>4, <1>5, <1>10, <2>1, <2>2 DEF RecvData
<1>11. CASE RecvJoin(m) \/ RecvLeave(m)
  <2>1. \A g \in m.groups : /\ Member("JOIN", m.peer, g) \in News
                            /\ Member("LEAVE", m.peer, g) \in News
    BY <1>3 DEF News
  <2> QED BY <1>4a, <1>5, <1>11, <2>1 DEF RecvJoin, RecvLeave
<1>12. CASE RecvElection(m)
  <2>1. \A g \in m.groups, p \in Known : Member("LEADER", p, g) \in News
    BY <1>3 DEF News, Known
  <2>2. PICK g \in m.groups :
            \E to, next, groups, out :
                /\ Sending(to, next, groups, out)
                /\ out = <<>> \/ \E p \in Known : out = <<Member("LEADER", p, g)>>
    BY <1>12 DEF RecvElection
  <2> QED BY <1>4a, <1>5, <2>1, <2>2
<1> QED BY <1>2, <1>6, <1>7, <1>9, <1>10, <1>11, <1>12

LEMMA PingNews ==
    ASSUME IInv, NEW p \in Peer
    PROVE  PingPeer(p) \in Seq(News)
<1>1. Exit(p) \in News /\ Quiet("EVASIVE", p) \in News /\ Quiet("SILENT", p) \in News
  BY DEF News
<1> DEFINE quiet == IF peers[p].evasive <= -Interval THEN <<Quiet("SILENT", p)>> ELSE <<>>
<1>2. quiet \in Seq(News)
  BY <1>1
<1>3. peers[p].expired \in Int /\ peers[p].evasive \in Int
  BY DEF IInv, PeersOK, PeerState
<1>4. \/ PingPeer(p) = <<>>
      \/ PingPeer(p) = <<Exit(p)>>
      \/ PingPeer(p) = <<Quiet("EVASIVE", p)>> \o quiet
  <2> HIDE DEF quiet
  <2> QED BY <1>3 DEF PingPeer, quiet
<1> HIDE DEF quiet
<1>5. \A e \in News : <<e>> \in Seq(News) /\ <<e>> \o quiet \in Seq(News)
  BY <1>2
<1>6. <<>> \in Seq(News)
  OBVIOUS
<1> QED BY <1>1, <1>4, <1>5, <1>6

LEMMA ReapPeersNews ==
    ASSUME IInv, ReapPeers
    PROVE  todo' \in Seq(News) /\ UNCHANGED <<node, failed>>
<1> DEFINE f == [i \in DOMAIN Order |-> IF Visited(i) THEN PingPeer(Order[i]) ELSE <<>>]
<1>1. Order \in Seq(Peer) /\ Len(Order) \in Nat /\ DOMAIN Order = 1 .. Len(Order)
  BY PeerAssumption
<1>2. \A p \in Peer : PingPeer(p) \in Seq(News)
  BY PingNews
<1>3. \A i \in 1 .. Len(Order) : f[i] \in Seq(News)
  BY <1>1, <1>2
<1>4. \E next, groups : Outcome(next, groups, Joined(f, Len(Order)))
  BY DEF ReapPeers
<1> HIDE DEF f
<1>5. Joined(f, Len(Order)) \in Seq(News)
  BY <1>1, <1>3, JoinedType
<1> QED BY <1>4, <1>5 DEF Outcome

LEMMA DiscoverNews ==
    ASSUME IInv, Discover
    PROVE  todo' \in Seq(News) /\ UNCHANGED <<node, failed>>
<1>1. PICK p \in Peer :
          \/ \E ok \in BOOLEAN : Outcome(RequirePeer(peers, p, ok), members, <<>>)
          \/ Removed(p)
          \/ Ignored
  <2>1. limits.cast \subseteq Peer
    BY DEF IInv, Limits
  <2> QED BY <2>1 DEF Discover
<1>2. Exit(p) \in News
  BY DEF News
<1>2a. \A e \in News : <<e>> \in Seq(News)
  OBVIOUS
<1>3. todo' = <<>> \/ todo' = <<Exit(p)>>
  BY <1>1 DEF Removed, Ignored, Sending, Outcome
<1>4. UNCHANGED <<node, failed>>
  BY <1>1 DEF Removed, Ignored, Sending, Outcome
<1>5. <<>> \in Seq(News)
  OBVIOUS
<1> QED BY <1>2, <1>2a, <1>3, <1>4, <1>5

LEMMA StartBeaconNews ==
    ASSUME StartBeacon
    PROVE  /\ todo' = <<>> /\ Running /\ node.beacon /\ ~node.port
           /\ \/ node.endpoint /\ failed' = "endpoint" /\ UNCHANGED node
              \/ /\ failed' = failed
                 /\ node' = [node EXCEPT !.port = TRUE, !.endpoint = TRUE,
                                         !.polled = @ \cup {"beacon", "inbox"}]
BY DEF StartBeacon, Abort, Only, Running

\* Between them: nothing is said about the pipes nor by the application.
LEMMA NodeStepNews ==
    ASSUME IInv, NodeStep
    PROVE  /\ todo' \in Seq(News)
           /\ UNCHANGED <<app, pipes>>
           /\ Running
           /\ StartBeacon \/ UNCHANGED <<node, failed>>
<1>1. CASE RecvPeer
  BY <1>1, RecvPeerNews DEF RecvPeer, Polls
<1>2. CASE ReapPeers
  BY <1>2, ReapPeersNews DEF ReapPeers, ReapDue
<1>3. CASE Discover
  BY <1>3, DiscoverNews DEF Discover, Polls
<1>4. CASE StartBeacon
  <2>1. <<>> \in Seq(News)
    OBVIOUS
  <2> QED BY <1>4, <2>1, StartBeaconNews DEF StartBeacon
<1> QED BY <1>1, <1>2, <1>3, <1>4 DEF NodeStep

-----------------------------------------------------------------------------
(***************************************************************************)
(* What the handlers of the commands leave to be written.                  *)
(***************************************************************************)
Handled(c) ==
    \/ ApiUuid(c) \/ ApiName(c) \/ ApiSetName(c) \/ ApiSetOther(c)
    \/ ApiSetPort(c) \/ ApiSetTimeout(c) \/ ApiSetContest(c)
    \/ ApiSetEndpoint(c) \/ ApiGossip(c) \/ ApiGossipUnpublish(c)
    \/ ApiStart(c) \/ ApiStop(c) \/ ApiSend(c)
    \/ ApiJoin(c) \/ ApiLeave(c) \/ ApiRequirePeer(c)
    \/ ApiPeers(c) \/ ApiGroupPeers(c) \/ ApiPeerEndpoint(c)
    \/ ApiPeerHeader(c) \/ ApiPeerGroups(c) \/ ApiOwnGroups(c)
    \/ ApiTerm(c)

Aborts == failed' # Null /\ todo' = todo /\ UNCHANGED node

LEMMA AbortsDo ==
    ASSUME NEW reason \in {"beacon", "gossip", "port", "endpoint", "unpublish", "require"},
           Abort(reason)
    PROVE  Aborts /\ failed' = reason
BY NullAssumption DEF Abort, Aborts

\* What is posted leaves nothing to be written.
LEMMA PostsAreSilent ==
    ASSUME NEW c, c.name \in Posts, Handled(c)
    PROVE  Aborts \/ (todo' = <<>> /\ failed' = failed)
<1>1. CASE \/ ApiSetName(c) \/ ApiSetOther(c) \/ ApiSetPort(c) \/ ApiSetTimeout(c)
           \/ ApiSetContest(c) \/ ApiGossip(c) \/ ApiSend(c) \/ ApiJoin(c) \/ ApiLeave(c)
  BY <1>1 DEF ApiSetName, ApiSetOther, ApiSetPort, ApiSetTimeout, ApiSetContest,
              ApiGossip, ApiSend, ApiJoin, ApiLeave, Only, Tells
<1>2. CASE ApiGossipUnpublish(c)
  BY <1>2, AbortsDo DEF ApiGossipUnpublish, Only
<1>3. CASE ApiRequirePeer(c)
  BY <1>3, AbortsDo DEF ApiRequirePeer
<1>4. c.name \notin {"UUID", "NAME", "SET ENDPOINT", "START", "STOP", "PEERS",
                     "GROUP PEERS", "PEER ENDPOINT", "PEER HEADER", "PEER GROUPS",
                     "OWN GROUPS", "$TERM"}
  BY DEF Posts
<1>5. ~ \/ ApiUuid(c) \/ ApiName(c) \/ ApiSetEndpoint(c) \/ ApiStart(c) \/ ApiStop(c)
        \/ ApiPeers(c) \/ ApiGroupPeers(c) \/ ApiPeerEndpoint(c)
        \/ ApiPeerHeader(c) \/ ApiPeerGroups(c) \/ ApiOwnGroups(c) \/ ApiTerm(c)
  BY <1>4 DEF ApiUuid, ApiName, ApiSetEndpoint, ApiStart, ApiStop, ApiPeers, ApiGroupPeers,
              ApiPeerEndpoint, ApiPeerHeader, ApiPeerGroups, ApiOwnGroups, ApiTerm
<1> QED BY <1>1, <1>2, <1>3, <1>5 DEF Handled

\* What is called leaves its own reply, with the value its handler finds.
LEMMA CallsAnswer ==
    ASSUME NodeOK, NEW c \in Commands, c.name \in Calls, Handled(c)
    PROVE  \/ Aborts /\ c.name = "START"
           \/ /\ failed' = failed
              /\ \E value : /\ Says(todo', c.name, value)
                            /\ c.name = "OWN GROUPS" => value = node.groups
                            /\ c.name = "NAME" => value = node.name
<1>1. ASSUME NEW n, NEW value, Only(n, <<Reply(c.name, value)>>)
      PROVE  failed' = failed /\ Says(todo', c.name, value)
  BY <1>1 DEF Only, Says
<1>2. CASE ApiUuid(c) \/ ApiPeers(c) \/ ApiPeerGroups(c)
  BY <1>1, <1>2 DEF ApiUuid, ApiPeers, ApiPeerGroups
<1>3. CASE ApiName(c) \/ ApiOwnGroups(c) \/ ApiTerm(c)
  BY <1>1, <1>3 DEF ApiName, ApiOwnGroups, ApiTerm
<1>4. CASE ApiGroupPeers(c) \/ ApiPeerEndpoint(c) \/ ApiPeerHeader(c)
  BY <1>1, <1>4 DEF ApiGroupPeers, ApiPeerEndpoint, ApiPeerHeader
<1>5. CASE ApiSetEndpoint(c)
  BY <1>1, <1>5 DEF ApiSetEndpoint
<1>6. CASE ApiStart(c)
  <2>1. c.name = "START"
    BY <1>6 DEF ApiStart
  <2>2. \/ Abort("beacon") \/ Abort("port") \/ Abort("gossip")
        \/ \E n, value : Only(n, <<Reply("START", value)>>)
    BY <1>6 DEF ApiStart
  <2> QED BY <1>1, <2>1, <2>2, AbortsDo
<1>7. CASE ApiStop(c)
  <2>1. node.name \in Name
    BY DEF NodeOK, NodeState
  <2>2. c.name = "STOP" /\ failed' = failed /\ todo' = <<Stopped(node.name), Reply("STOP", 0)>>
    BY <1>7 DEF ApiStop, Tells
  <2> QED BY <2>1, <2>2 DEF Says
<1>8. ~ \/ ApiSetName(c) \/ ApiSetOther(c) \/ ApiSetPort(c) \/ ApiSetTimeout(c)
        \/ ApiSetContest(c) \/ ApiGossip(c) \/ ApiGossipUnpublish(c) \/ ApiSend(c)
        \/ ApiJoin(c) \/ ApiLeave(c) \/ ApiRequirePeer(c)
  BY DEF Calls, ApiSetName, ApiSetOther, ApiSetPort, ApiSetTimeout, ApiSetContest,
         ApiGossip, ApiGossipUnpublish, ApiSend, ApiJoin, ApiLeave, ApiRequirePeer
<1> QED BY <1>2, <1>3, <1>4, <1>5, <1>6, <1>7, <1>8 DEF Handled

-----------------------------------------------------------------------------
(***************************************************************************)
(* The phases of a call: it waits in the pipe behind what was posted, its  *)
(* reply waits to be written, its reply waits to be read.  A call is lost  *)
(* when the node has aborted, or when a message without frames before it   *)
(* has taken its frames.                                                   *)
(***************************************************************************)
NoCalls(n) == \A i \in 1 .. n : pipe[i].name \notin Calls

\* Nothing is on its way but events.
Silent == todo \in Seq(News) /\ replies = <<>>

Idle == calling = Null /\ NoCalls(Len(pipe)) /\ Silent
Sent == /\ calling # Null /\ pipe # <<>> /\ pipe[Len(pipe)] = calling
        /\ NoCalls(Len(pipe) - 1) /\ Silent
Worked(value) ==
    calling # Null /\ pipe = <<>> /\ replies = <<>> /\ Says(todo, calling.name, value)
Replied(value) ==
    /\ calling # Null /\ pipe = <<>> /\ todo \in Seq(News)
    /\ replies = <<Reply(calling.name, value)>>
Lost == calling # Null /\ NoCalls(Len(pipe)) /\ Silent /\ (asked.empty \/ failed # Null)

Told(value) == Worked(value) \/ Replied(value)

Phase == Idle \/ Sent \/ (\E value : Told(value)) \/ Lost

\* The invariant behind Paired.
Pairs ==
    /\ half # Null => asked.empty
    /\ calling # Null => calling \in Commands /\ calling.name \in Calls
    /\ answer # Null => answer.kind = answer.to.name
    /\ Phase

LEMMA NewsHoldNoReply ==
    ASSUME NEW out \in Seq(News), NEW i \in DOMAIN out
    PROVE  ~IsReply(out[i])
BY NewsAreEvents

LEMMA PhasesPair ==
    ASSUME AppOK, Pairs
    PROVE  Paired
<1> DEFINE waiting == {i \in DOMAIN pipe : pipe[i].name \in Calls}
           written == {i \in DOMAIN todo : IsReply(todo[i])}
           Waits == waiting = {Len(pipe)} /\ pipe[Len(pipe)] = calling
                    /\ written = {} /\ replies = <<>>
           Written == waiting = {} /\ replies = <<>>
                      /\ \E i \in written : written = {i} /\ todo[i].kind = calling.name
           Back == waiting = {} /\ written = {}
                   /\ Len(replies) = 1 /\ replies[1].kind = calling.name
           Nothing == waiting = {} /\ written = {} /\ replies = <<>>
<1>1. pipe \in Seq(Commands) /\ Len(pipe) \in Nat /\ DOMAIN pipe = 1 .. Len(pipe)
  BY DEF AppOK
<1>2. ASSUME todo \in Seq(News) PROVE written = {}
  BY <1>2, NewsHoldNoReply
<1>3. ASSUME NoCalls(Len(pipe)) PROVE waiting = {}
  BY <1>1, <1>3 DEF NoCalls
<1>4. CASE Idle
  <2>1. Nothing /\ calling = Null
    BY <1>2, <1>3, <1>4 DEF Idle, Silent
  <2> QED BY <2>1 DEF Paired, Pairs
<1>5. CASE Sent
  <2>1. pipe # <<>> /\ pipe[Len(pipe)] = calling /\ calling.name \in Calls /\ calling # Null
    BY <1>5 DEF Sent, Pairs
  <2>2. Len(pipe) \in 1 .. Len(pipe)
    BY <1>1, <2>1
  <2>3. \A n \in Nat : \A i \in 1 .. n : i # n => i \in 1 .. n - 1
    OBVIOUS
  <2>4. waiting = {Len(pipe)}
    BY <1>1, <1>5, <2>1, <2>2, <2>3 DEF Sent, NoCalls
  <2>5. Waits
    BY <1>2, <1>5, <2>1, <2>4 DEF Sent, Silent
  <2> QED BY <2>1, <2>5 DEF Paired, Pairs
<1>6. ASSUME NEW value, Told(value) PROVE Paired
  <2>1. waiting = {} /\ calling # Null
    BY <1>6 DEF Told, Worked, Replied
  <2>2. CASE Worked(value)
    <3> DEFINE r == Reply(calling.name, value)
    <3>1. IsReply(r) /\ r.kind = calling.name /\ \A n \in Name : ~IsReply(Stopped(n))
      BY DEF Reply, IsReply, Stopped, Event
    <3>2. PICK i \in {1, 2} : /\ i \in DOMAIN todo /\ todo[i] = r
                              /\ \A j \in DOMAIN todo : j # i => ~IsReply(todo[j])
      <4>1. CASE todo = <<r>>
        <5>1. 1 \in DOMAIN todo /\ todo[1] = r /\ \A j \in DOMAIN todo : j = 1
          BY <4>1
        <5> QED BY <5>1
      <4>2. ASSUME NEW n \in Name, todo = <<Stopped(n), r>>
            PROVE  \E i \in {1, 2} : /\ i \in DOMAIN todo /\ todo[i] = r
                                     /\ \A j \in DOMAIN todo : j # i => ~IsReply(todo[j])
        <5> DEFINE s == Stopped(n)
        <5>1. ~IsReply(s) /\ todo = <<s, r>>
          BY <3>1, <4>2
        <5> HIDE DEF s, r
        <5>2. 2 \in DOMAIN todo /\ todo[2] = r /\ todo[1] = s
              /\ \A j \in DOMAIN todo : j = 1 \/ j = 2
          BY <5>1
        <5> QED BY <5>1, <5>2
      <4> QED BY <2>2, <4>1, <4>2 DEF Worked, Says
    <3> HIDE DEF r
    <3>3. written = {i} /\ i \in written /\ todo[i].kind = calling.name
      BY <3>1, <3>2
    <3>4. Written
      BY <2>1, <2>2, <3>3 DEF Worked
    <3> QED BY <2>1, <3>4 DEF Paired, Pairs
  <2>3. CASE Replied(value)
    <3>1. Len(replies) = 1 /\ replies[1].kind = calling.name
      BY <2>3 DEF Replied, Reply
    <3>2. Back
      BY <1>2, <2>1, <2>3, <3>1 DEF Replied
    <3> QED BY <2>1, <3>2 DEF Paired, Pairs
  <2> QED BY <1>6, <2>2, <2>3 DEF Told
<1>7. CASE Lost
  BY <1>7 DEF Lost, Paired, Pairs
<1> QED BY <1>4, <1>5, <1>6, <1>7 DEF Pairs, Phase

LEMMA PipeGrows ==
    ASSUME AppOK, NEW d \in Commands, pipe' = Append(pipe, d)
    PROVE  /\ Len(pipe) \in Nat /\ Len(pipe') = Len(pipe) + 1 /\ pipe' # <<>>
           /\ pipe'[Len(pipe) + 1] = d
           /\ \A i \in 1 .. Len(pipe) : pipe'[i] = pipe[i]
BY DEF AppOK

LEMMA PipeShrinks ==
    ASSUME AppOK, pipe # <<>>, pipe' = Tail(pipe)
    PROVE  /\ Len(pipe) \in Nat \ {0} /\ Len(pipe') = Len(pipe) - 1
           /\ Head(pipe) = pipe[1] /\ Head(pipe) \in Commands
           /\ \A i \in 1 .. Len(pipe) - 1 : pipe'[i] = pipe[i + 1]
           /\ Len(pipe) = 1 => pipe' = <<>>
BY DEF AppOK

LEMMA NotesKeepEmpty ==
    ASSUME asked \in Asked, NEW c
    PROVE  Notes(c).empty = asked.empty /\ Notes(c).running = asked.running
BY DEF Asked, Notes

LEMMA CommandsAreNotNull ==
    ASSUME NEW c \in Commands
    PROVE  c # Null /\ c.name \in Calls \cup Posts
<1>1. c.name \in Calls \cup Posts
  BY DEF Commands, NoArg, Calls, Posts
<1>2. c = [name |-> c.name, arg |-> c.arg]
  BY DEF Commands
<1>3. c.arg \in Peer \cup Group \cup Name \cup Timeout \cup {Null, 0, 1}
  BY DEF Commands
<1> QED BY <1>1, <1>2, <1>3, NullAssumption

\* The application writes: it is idle, and the call it writes is sent, unless a
\* message without frames takes its place.
LEMMA WritesPair ==
    ASSUME IInv, Pairs, Writes
    PROVE  Pairs'
<1>1. AppOK /\ asked \in Asked
  BY DEF IInv, AppOK
<1>2. Idle
  <2>1. calling = Null
    BY DEF Writes, Posted, Called, Post, Call, PostHalf, Free
  <2> QED BY <2>1 DEF Pairs, Phase, Sent, Told, Worked, Replied, Lost
<1>3. ASSUME NEW c \in Commands, Write(c)
      PROVE  /\ half' = Null
             /\ half = Null => pipe' = Append(pipe, c)
             /\ half # Null => pipe' = Append(pipe, half) /\ half \in Commands
                               /\ half.name \notin Calls /\ asked.empty
  BY <1>1, <1>3 DEF Write, AppOK, Calls, Pairs
<1>4. ASSUME NEW d \in Commands, pipe' = Append(pipe, d), d.name \notin Calls
      PROVE  NoCalls(Len(pipe))'
  <2>1. /\ Len(pipe) \in Nat /\ Len(pipe') = Len(pipe) + 1
        /\ pipe'[Len(pipe) + 1] = d
        /\ \A i \in 1 .. Len(pipe) : pipe'[i] = pipe[i]
    BY <1>1, <1>4, PipeGrows
  <2>2. \A i \in 1 .. Len(pipe) : pipe[i].name \notin Calls
    BY <1>2 DEF Idle, NoCalls
  <2>3. \A i \in 1 .. Len(pipe') : i = Len(pipe) + 1 \/ i \in 1 .. Len(pipe)
    BY <2>1
  <2>4. \A i \in 1 .. Len(pipe') : pipe'[i].name \notin Calls
    BY <1>4, <2>1, <2>2, <2>3
  <2> QED BY <2>4 DEF NoCalls
<1>5. ASSUME NEW c \in Commands, Posted(c)
      PROVE  Pairs'
  <2>1. Write(c) /\ UNCHANGED <<calling, replies, answer, todo>> /\ asked' = Notes(c)
        /\ c.name \in Posts
    BY <1>5 DEF Posted, Post
  <2>2. c.name \notin Calls
    BY <2>1 DEF Calls, Posts
  <2>3. NoCalls(Len(pipe))' /\ half' = Null
    BY <1>3, <1>4, <2>1, <2>2
  <2>4. Idle'
    BY <1>2, <2>1, <2>3 DEF Idle, Silent
  <2> QED BY <2>1, <2>3, <2>4, <1>2 DEF Pairs, Phase, Idle
<1>6. ASSUME NEW c \in Commands, Called(c)
      PROVE  Pairs'
  <2>1. Write(c) /\ calling' = c /\ UNCHANGED <<replies, answer, todo, actor>>
        /\ asked' = Notes(c) /\ c.name \in Calls /\ c # Null
    BY <1>6, CommandsAreNotNull DEF Called, Call
  <2>2. Silent'
    BY <1>2, <2>1 DEF Idle, Silent
  <2>3. CASE half = Null
    <3>1. pipe' = Append(pipe, c)
      BY <1>3, <2>1, <2>3
    <3>2. /\ Len(pipe) \in Nat /\ Len(pipe') = Len(pipe) + 1 /\ pipe' # <<>>
          /\ pipe'[Len(pipe) + 1] = c
          /\ \A i \in 1 .. Len(pipe) : pipe'[i] = pipe[i]
      BY <1>1, <3>1, PipeGrows
    <3>3. Len(pipe') - 1 = Len(pipe) /\ pipe'[Len(pipe')] = c
      BY <3>2
    <3>4. \A i \in 1 .. Len(pipe') - 1 : pipe'[i].name \notin Calls
      BY <1>2, <3>2, <3>3 DEF Idle, NoCalls
    <3>5. Sent'
      BY <2>1, <2>2, <3>2, <3>3, <3>4 DEF Sent, NoCalls
    <3> QED BY <1>3, <2>1, <3>5 DEF Pairs, Phase
  <2>4. CASE half # Null
    <3>1. NoCalls(Len(pipe))' /\ asked.empty /\ half' = Null
      BY <1>3, <1>4, <2>1, <2>4
    <3>2. asked'.empty
      BY <1>1, <2>1, <3>1, NotesKeepEmpty
    <3>3. Lost'
      BY <2>1, <2>2, <3>1, <3>2 DEF Lost
    <3> QED BY <2>1, <3>1, <3>3 DEF Pairs, Phase
  <2> QED BY <2>3, <2>4
<1>7. ASSUME NEW c, PostHalf(c)
      PROVE  Pairs'
  <2>1. asked' = [asked EXCEPT !.empty = TRUE] /\ UNCHANGED <<calling, answer, pipes, todo>>
    BY <1>7 DEF PostHalf
  <2>2. asked'.empty
    BY <1>1, <2>1 DEF Asked
  <2>3. Idle'
    BY <1>2, <2>1 DEF Idle, Silent, NoCalls, pipes
  <2> QED BY <1>2, <2>1, <2>2, <2>3 DEF Pairs, Phase, Idle
<1> QED BY <1>5, <1>6, <1>7 DEF Writes

\* What neither pipe is touched by.
LEMMA StillPairs ==
    ASSUME Pairs, UNCHANGED <<calling, half, pipe, replies, todo, answer>>,
           asked.empty => asked'.empty, failed # Null => failed' # Null
    PROVE  Pairs'
<1>1. Phase'
  BY DEF Pairs, Phase, Idle, Sent, Told, Worked, Replied, Lost, Silent, NoCalls
<1> QED BY <1>1 DEF Pairs

\* The application reads its reply, or an event.
LEMMA ReadsPair ==
    ASSUME IInv, Pairs, Return \/ TakeEvent \/ GetMsg
    PROVE  Pairs'
<1>1. CASE Return
  <2>1. calling # Null /\ replies # <<>>
    BY <1>1 DEF Return
  <2>2. PICK value : Replied(value)
    BY <2>1 DEF Pairs, Phase, Idle, Sent, Told, Worked, Lost, Silent
  <2> DEFINE r == Reply(calling.name, value)
  <2>3. r.kind = calling.name
    BY DEF Reply
  <2>4. replies = <<r>> /\ pipe = <<>> /\ todo \in Seq(News)
    BY <2>2 DEF Replied
  <2> HIDE DEF r
  <2>5. Head(replies) = r /\ Tail(replies) = <<>>
    BY <2>4
  <2>6. /\ answer' = [to |-> calling, kind |-> r.kind, value |-> r.value]
        /\ replies' = <<>> /\ calling' = Null /\ UNCHANGED <<half, pipe, todo>>
    BY <1>1, <2>5 DEF Return
  <2>7. asked'.empty = asked.empty
    BY <1>1 DEF Return, IInv, AppOK, Asked
  <2>8. Idle'
    BY <2>4, <2>6 DEF Idle, Silent, NoCalls
  <2>9. answer'.kind = answer'.to.name
    BY <2>3, <2>6
  <2> QED BY <2>6, <2>7, <2>8, <2>9 DEF Pairs, Phase
<1>2. CASE TakeEvent
  <2>1. UNCHANGED <<calling, half, pipe, replies, todo, answer, asked, failed>>
    BY <1>2 DEF TakeEvent, actor
  <2> QED BY <2>1, StillPairs
<1>3. CASE GetMsg
  <2>1. UNCHANGED <<calling, half, pipe, replies, todo, answer, asked, failed>>
    BY <1>3 DEF GetMsg, actor, pipes
  <2> QED BY <2>1, StillPairs
<1> QED BY <1>1, <1>2, <1>3

\* The node writes the next thing it has to write.
LEMMA FlushPairs ==
    ASSUME IInv, Pairs, Flush
    PROVE  Pairs'
<1>1. todo # <<>> /\ todo' = Tail(todo) /\ UNCHANGED <<calling, half, pipe, answer, asked, failed>>
  BY DEF Flush, app, actor
<1>2. \/ Head(todo).to = "pipe" /\ replies' = Append(replies, Head(todo))
      \/ Head(todo).to = "outbox" /\ UNCHANGED replies
  BY DEF Flush
<1>3. ASSUME todo \in Seq(News) PROVE todo' \in Seq(News) /\ UNCHANGED replies
  <2>1. Head(todo) \in News /\ Tail(todo) \in Seq(News)
    BY <1>1, <1>3
  <2>2. Head(todo).to # "pipe"
    BY <2>1, NewsAreEvents
  <2> QED BY <1>1, <1>2, <2>1, <2>2
<1>4. CASE Idle
  BY <1>1, <1>3, <1>4 DEF Idle, Silent, NoCalls, Pairs, Phase
<1>5. CASE Sent
  BY <1>1, <1>3, <1>5 DEF Sent, Silent, NoCalls, Pairs, Phase
<1>6. CASE Lost
  BY <1>1, <1>3, <1>6 DEF Lost, Silent, NoCalls, Pairs, Phase
<1>7. ASSUME NEW value, Replied(value) PROVE Pairs'
  BY <1>1, <1>3, <1>7 DEF Replied, Told, Pairs, Phase
<1>8. ASSUME NEW value, Worked(value) PROVE Pairs'
  <2> DEFINE r == Reply(calling.name, value)
  <2>1. r.to = "pipe"
    BY DEF Reply
  <2>2. CASE todo = <<r>>
    <3>1. Head(todo) = r /\ todo' = <<>> /\ replies = <<>>
      BY <1>1, <1>8, <2>2 DEF Worked
    <3>2. Head(todo).to = "pipe"
      BY <2>1, <3>1
    <3>3. replies' = Append(<<>>, r)
      BY <1>2, <3>1, <3>2
    <3> HIDE DEF r
    <3>4. replies' = <<r>> /\ <<>> \in Seq(News)
      BY <3>3
    <3>5. Replied(value)'
      BY <1>1, <1>8, <3>1, <3>4 DEF Worked, Replied, r
    <3> QED BY <1>1, <3>5 DEF Pairs, Phase, Told
  <2>3. ASSUME NEW n \in Name, calling.name = "STOP", todo = <<Stopped(n), r>> PROVE Pairs'
    <3> DEFINE s == Stopped(n)
    <3>1. s.to = "outbox" /\ todo = <<s, r>>
      BY <2>3 DEF Stopped, Event
    <3> HIDE DEF r, s
    <3>2. Head(todo) = s /\ Tail(todo) = <<r>>
      BY <3>1
    <3>3. todo' = <<r>> /\ UNCHANGED replies
      BY <1>1, <1>2, <3>1, <3>2
    <3>4. Worked(value)'
      BY <1>1, <1>8, <3>3 DEF Worked, Says, r
    <3> QED BY <1>1, <3>4 DEF Pairs, Phase, Told
  <2>4. \/ todo = <<r>>
        \/ calling.name = "STOP" /\ \E n \in Name : todo = <<Stopped(n), r>>
    BY <1>8 DEF Worked, Says
  <2> QED BY <2>2, <2>3, <2>4
<1> QED BY <1>4, <1>5, <1>6, <1>7, <1>8 DEF Pairs, Phase, Told

\* The node reads a command.
LEMMA RecvApiPairs ==
    ASSUME IInv, Pairs, RecvApi
    PROVE  Pairs'
<1> DEFINE c == Head(pipe)
<1>1. AppOK /\ NodeOK
  BY DEF IInv
<1>2. todo = <<>> /\ failed = Null /\ pipe # <<>> /\ pipe' = Tail(pipe) /\ Handled(c)
      /\ UNCHANGED <<calling, half, answer, asked, replies>>
  BY DEF RecvApi, Running, Handled, app
<1>3. /\ Len(pipe) \in Nat \ {0} /\ Len(pipe') = Len(pipe) - 1
      /\ c = pipe[1] /\ c \in Commands
      /\ \A i \in 1 .. Len(pipe) - 1 : pipe'[i] = pipe[i + 1]
      /\ Len(pipe) = 1 => pipe' = <<>>
  BY <1>1, <1>2, PipeShrinks
<1> HIDE DEF c
<1>4. ASSUME c.name \notin Calls PROVE Silent => Silent'
  <2>1. c.name \in Posts
    BY <1>3, <1>4, CommandsAreNotNull
  <2>2. todo' = <<>>
    BY <1>2, <2>1, PostsAreSilent DEF Aborts
  <2> QED BY <1>2, <2>2 DEF Silent
<1>5. ASSUME NoCalls(Len(pipe)) PROVE NoCalls(Len(pipe))' /\ c.name \notin Calls
  <2>1. \A n \in Nat \ {0} : 1 \in 1 .. n /\ \A i \in 1 .. n - 1 : i + 1 \in 1 .. n
    OBVIOUS
  <2>2. \A i \in 1 .. Len(pipe') : pipe'[i].name \notin Calls
    BY <1>3, <1>5, <2>1 DEF NoCalls
  <2> QED BY <1>3, <1>5, <2>1, <2>2 DEF NoCalls
<1>6. CASE Idle
  <2>1. Idle'
    BY <1>2, <1>4, <1>5, <1>6 DEF Idle
  <2> QED BY <1>2, <2>1 DEF Pairs, Phase
<1>7. CASE Lost
  <2>1. Lost'
    BY <1>2, <1>4, <1>5, <1>7 DEF Lost
  <2> QED BY <1>2, <2>1 DEF Pairs, Phase
<1>8. CASE Sent
  <2>1. CASE Len(pipe) = 1
    <3>1. c = calling /\ c.name \in Calls /\ pipe' = <<>> /\ calling # Null /\ replies = <<>>
      BY <1>3, <1>8, <2>1 DEF Sent, Pairs, Silent
    <3>2. CASE Aborts
      <4>1. NoCalls(Len(pipe))'
        BY <3>1 DEF NoCalls
      <4>2. Lost'
        BY <1>2, <1>8, <3>1, <3>2, <4>1 DEF Lost, Aborts, Sent, Silent
      <4> QED BY <1>2, <4>2 DEF Pairs, Phase
    <3>3. CASE \E value : Says(todo', c.name, value)
      <4>1. PICK value : Says(todo', calling.name, value)
        BY <3>1, <3>3
      <4>2. Worked(value)'
        BY <1>2, <3>1, <4>1 DEF Worked
      <4> QED BY <1>2, <4>2 DEF Pairs, Phase, Told
    <3> QED BY <1>1, <1>2, <1>3, <3>1, <3>2, <3>3, CallsAnswer
  <2>2. CASE Len(pipe) # 1
    <3>1. \A n \in Nat \ {0, 1} : /\ 1 \in 1 .. n - 1 /\ n - 1 \in 1 .. n - 1 /\ (n - 1) + 1 = n
                                  /\ \A i \in 1 .. (n - 1) - 1 : i \in 1 .. n - 1 /\ i + 1 \in 1 .. n - 1
      OBVIOUS
    <3>2. Len(pipe) \in Nat \ {0, 1}
      BY <1>3, <2>2
    <3>3. c.name \notin Calls
      BY <1>3, <1>8, <3>1, <3>2 DEF Sent, NoCalls
    <3>4. NoCalls(Len(pipe) - 1)'
      BY <1>3, <1>8, <3>1, <3>2 DEF Sent, NoCalls
    <3>5. pipe'[Len(pipe')] = calling
      BY <1>3, <1>8, <3>1, <3>2 DEF Sent
    <3>6. pipe' # <<>>
      BY <1>3, <3>2
    <3>7. Sent'
      BY <1>2, <1>4, <1>8, <3>3, <3>4, <3>5, <3>6 DEF Sent
    <3> QED BY <1>2, <3>7 DEF Pairs, Phase
  <2> QED BY <2>1, <2>2
<1>9. ~ \E value : Told(value)
  BY <1>2 DEF Told, Worked, Replied
<1> QED BY <1>6, <1>7, <1>8, <1>9 DEF Pairs, Phase

\* The node handles anything else, or the world moves on.
LEMMA NodeStepPairs ==
    ASSUME IInv, Pairs, NodeStep
    PROVE  Pairs'
<1>1. todo' \in Seq(News) /\ UNCHANGED <<app, pipes>> /\ Running
  BY NodeStepNews
<1>2. UNCHANGED <<calling, half, answer, asked, pipe, replies>> /\ failed = Null /\ todo = <<>>
  BY <1>1 DEF app, pipes, Running
<1>3. ~ \E value : Worked(value)
  <2>1. ASSUME NEW r, NEW s PROVE <<r>> # <<>> /\ <<s, r>> # <<>>
    OBVIOUS
  <2> QED BY <1>2, <2>1 DEF Worked, Says
<1>4. Phase'
  BY <1>1, <1>2, <1>3
     DEF Pairs, Phase, Idle, Sent, Told, Replied, Lost, Silent, NoCalls
<1> QED BY <1>2, <1>4 DEF Pairs

LEMMA WorldPairs ==
    ASSUME Pairs, WorldStep
    PROVE  Pairs'
<1>1. UNCHANGED <<app, pipes, todo, failed>>
  BY DEF WorldStep, Say, AnswerPing, Die, Tick, actor
<1>2. UNCHANGED <<calling, half, pipe, replies, todo, answer, asked, failed>>
  BY <1>1 DEF app, pipes
<1> QED BY <1>2, StillPairs

\* A new node has nothing to say to its application, nor it to the node.
LEMMA InitPairs == Init => Pairs
<1>1. <<>> \in Seq(News)
  OBVIOUS
<1> QED BY <1>1 DEF Init, Pairs, Phase, Idle, Silent, NoCalls

LEMMA NextPairs == IInv /\ Pairs /\ [Next]_vars => Pairs'
<1> SUFFICES ASSUME IInv, Pairs, [Next]_vars PROVE Pairs'
  OBVIOUS
<1>1. CASE UNCHANGED vars
  BY <1>1, StillPairs DEF vars, app, pipes, actor
<1> QED BY <1>1, NextShape, WritesPair, ReadsPair, FlushPairs, RecvApiPairs,
           NodeStepPairs, WorldPairs

\* A call of zyre.c that waits on the pipe of a node waits for one reply, which
\* is the reply to that call: it is in the pipe, or the node has its reply to
\* write, or its reply is there, and nobody else's is.  This holds of any order
\* of calls, of whatever the peers do meanwhile and of either pipe being full;
\* only an abort or a message without frames leaves a call without its reply,
\* and no call ever takes the reply of another.
THEOREM CallsGetTheirReply == Spec => []Paired
<1>1. IInv /\ Pairs => Paired
  BY PhasesPair DEF IInv
<1>2. Spec => []Pairs
  BY Invariant, InitPairs, NextPairs, PTL DEF Spec
<1> QED BY <1>1, <1>2, Invariant, PTL

-----------------------------------------------------------------------------
(***************************************************************************)
(* Where the value of a reply comes from: a handler has found it with      *)
(* nothing left in the pipe, and neither the node's answer nor what was    *)
(* asked changes before the call returns.                                  *)
(***************************************************************************)
LEMMA NewsSayNothing ==
    ASSUME NEW out \in Seq(News), NEW name, NEW value
    PROVE  ~Says(out, name, value)
<1> DEFINE r == Reply(name, value)
<1>1. IsReply(r)
  BY DEF IsReply, Reply
<1>2. \A i \in DOMAIN out : ~IsReply(out[i])
  BY NewsHoldNoReply
<1>3. ASSUME out = <<r>> PROVE FALSE
  <2> HIDE DEF r
  <2>1. 1 \in DOMAIN out /\ out[1] = r
    BY <1>3
  <2> QED BY <1>1, <1>2, <2>1
<1>4. ASSUME NEW s, out = <<s, r>> PROVE FALSE
  <2> HIDE DEF r
  <2>1. 2 \in DOMAIN out /\ out[2] = r
    BY <1>4
  <2> QED BY <1>1, <1>2, <2>1
<1> QED BY <1>3, <1>4 DEF Says

LEMMA SaysOneThing ==
    ASSUME NEW out, NEW name, NEW v, NEW w, Says(out, name, v), Says(out, name, w)
    PROVE  v = w
<1> DEFINE r == Reply(name, v)
           q == Reply(name, w)
<1>1. r.value = v /\ q.value = w
  BY DEF Reply
<1>2. out = <<r>> \/ \E s : out = <<s, r>>
  BY DEF Says
<1>3. out = <<q>> \/ \E s : out = <<s, q>>
  BY DEF Says
<1> HIDE DEF r, q
<1>4. r = q
  <2>1. CASE out = <<r>>
    <3>1. Len(out) = 1 /\ out[1] = r
      BY <2>1
    <3>2. ~ \E s : out = <<s, q>>
      BY <3>1
    <3> QED BY <1>3, <3>1, <3>2
  <2>2. ASSUME NEW s, out = <<s, r>> PROVE r = q
    <3>1. Len(out) = 2 /\ out[2] = r
      BY <2>2
    <3>2. out # <<q>>
      BY <3>1
    <3>3. \A t : out = <<t, q>> => out[2] = q
      OBVIOUS
    <3> QED BY <1>3, <3>1, <3>2, <3>3
  <2> QED BY <1>2, <2>1, <2>2
<1> QED BY <1>1, <1>4

\* The node has just found the value of the reply to the only command there is.
Answers(value) ==
    /\ RecvApi /\ calling \in Commands /\ calling.name \in Calls
    /\ pipe = <<calling>> /\ pipe' = <<>> /\ Handled(calling)
    /\ Says(todo', calling.name, value)

LEMMA FlushTells ==
    ASSUME Pairs, Flush, NEW value, Told(value)'
    PROVE  Told(value) /\ UNCHANGED <<calling, asked, node, failed>>
<1>1. todo # <<>> /\ todo' = Tail(todo) /\ UNCHANGED <<calling, pipe, asked, failed, node>>
  BY DEF Flush, app, actor
<1>2. \/ Head(todo).to = "pipe" /\ replies' = Append(replies, Head(todo))
      \/ Head(todo).to = "outbox" /\ UNCHANGED replies
  BY DEF Flush
<1>3. \/ replies' = <<>> /\ Says(todo', calling.name, value)
      \/ todo' \in Seq(News) /\ replies' = <<Reply(calling.name, value)>>
  BY <1>1 DEF Told, Worked, Replied
<1>4. ASSUME todo \in Seq(News) PROVE todo' \in Seq(News) /\ UNCHANGED replies
  <2>1. Head(todo) \in News /\ Tail(todo) \in Seq(News)
    BY <1>1, <1>4
  <2>2. Head(todo).to # "pipe"
    BY <2>1, NewsAreEvents
  <2> QED BY <1>1, <1>2, <2>1, <2>2
<1>5. ~Silent
  <2> SUFFICES ASSUME Silent PROVE FALSE
    OBVIOUS
  <2>1. todo' \in Seq(News) /\ replies' = <<>>
    BY <1>4 DEF Silent
  <2>2. <<Reply(calling.name, value)>> # <<>>
    OBVIOUS
  <2> QED BY <1>3, <2>1, <2>2, NewsSayNothing
<1>6. PICK v : Told(v)
  BY <1>5 DEF Pairs, Phase, Idle, Sent, Lost
<1>7. CASE Replied(v)
  BY <1>1, <1>3, <1>4, <1>7, NewsSayNothing DEF Replied, Told
<1>8. CASE Worked(v)
  <2> DEFINE r == Reply(calling.name, v)
             q == Reply(calling.name, value)
  <2>1. r.to = "pipe" /\ r.value = v /\ q.value = value
    BY DEF Reply
  <2>2. CASE todo = <<r>>
    <3>1. Head(todo) = r /\ todo' = <<>> /\ replies = <<>>
      BY <1>1, <1>8, <2>2 DEF Worked
    <3>2. Head(todo).to = "pipe"
      BY <2>1, <3>1
    <3>3. replies' = Append(<<>>, r)
      BY <1>2, <3>1, <3>2
    <3> HIDE DEF r
    <3>4. replies' = <<r>> /\ <<r>> # <<>>
      BY <3>3
    <3>5. replies' = <<q>>
      BY <1>3, <3>4
    <3> HIDE DEF q
    <3>6. r = q
      BY <3>4, <3>5
    <3> QED BY <1>1, <1>8, <2>1, <3>6 DEF Told
  <2>3. ASSUME NEW n \in Name, calling.name = "STOP", todo = <<Stopped(n), r>>
        PROVE  Told(value)
    <3> DEFINE s == Stopped(n)
    <3>1. s.to = "outbox" /\ todo = <<s, r>>
      BY <2>3 DEF Stopped, Event
    <3> HIDE DEF r, s
    <3>2. Head(todo) = s /\ Tail(todo) = <<r>>
      BY <3>1
    <3>3. todo' = <<r>> /\ replies' = <<>>
      BY <1>1, <1>2, <1>8, <3>1, <3>2 DEF Worked
    <3>4. Says(todo', calling.name, v)
      BY <3>3 DEF Says, r
    <3>5. <<q>> # <<>>
      OBVIOUS
    <3>6. Says(todo', calling.name, value)
      BY <1>3, <3>3, <3>5
    <3>7. v = value
      BY <3>4, <3>6, SaysOneThing
    <3> QED BY <1>8, <3>7 DEF Told
  <2>4. \/ todo = <<r>>
        \/ calling.name = "STOP" /\ \E n \in Name : todo = <<Stopped(n), r>>
    BY <1>8 DEF Worked, Says
  <2>5. Told(value)
    BY <2>2, <2>3, <2>4
  <2> QED BY <1>1, <2>5
<1> QED BY <1>1, <1>6, <1>7, <1>8 DEF Told

LEMMA RecvApiTells ==
    ASSUME IInv, Pairs, RecvApi, NEW value, Told(value)'
    PROVE  Answers(value) /\ UNCHANGED <<calling, asked>>
<1> DEFINE c == Head(pipe)
<1>1. AppOK
  BY DEF IInv
<1>2. todo = <<>> /\ failed = Null /\ pipe # <<>> /\ pipe' = Tail(pipe) /\ Handled(c)
      /\ UNCHANGED <<calling, half, answer, asked, replies>>
  BY DEF RecvApi, Running, Handled, app
<1>3. /\ Len(pipe) \in Nat \ {0} /\ Len(pipe') = Len(pipe) - 1
      /\ c = pipe[1] /\ c \in Commands
      /\ pipe \in Seq(Commands)
  BY <1>1, <1>2, PipeShrinks DEF AppOK
<1> HIDE DEF c
<1>4. pipe' = <<>> /\ calling # Null
  BY <1>2 DEF Told, Worked, Replied
<1>5. Len(pipe) = 1
  BY <1>3, <1>4
<1>6. \A v : ~Told(v)
  BY <1>2 DEF Told, Worked, Replied
<1>7. Sent \/ Lost
  BY <1>4, <1>6 DEF Pairs, Phase, Idle
<1>8. replies' = <<>> /\ Silent
  BY <1>2, <1>7 DEF Sent, Lost, Silent
<1>9. Says(todo', calling.name, value)
  <2>1. <<Reply(calling.name, value)>> # <<>>
    OBVIOUS
  <2> QED BY <1>2, <1>8, <2>1 DEF Told, Worked, Replied
<1>10. Sent
  <2> SUFFICES ASSUME Lost PROVE FALSE
    BY <1>7
  <2>1. c.name \notin Calls
    BY <1>3, <1>5 DEF Lost, NoCalls
  <2>2. c.name \in Posts
    BY <1>3, <2>1, CommandsAreNotNull
  <2>3. todo' = <<>>
    BY <1>2, <2>2, PostsAreSilent DEF Aborts
  <2>4. todo' \in Seq(News)
    BY <2>3
  <2> QED BY <1>9, <2>4, NewsSayNothing
<1>11. c = calling
  BY <1>3, <1>5, <1>10 DEF Sent
<1>12. pipe = <<calling>>
  <2>1. \A s \in Seq(Commands) : Len(s) = 1 => s = <<s[1]>>
    OBVIOUS
  <2> QED BY <1>3, <1>5, <1>11, <2>1
<1> QED BY <1>2, <1>4, <1>9, <1>11, <1>12 DEF Pairs, Answers

LEMMA ToldSteps ==
    ASSUME IInv, Pairs, [Next]_vars, NEW value, Told(value)'
    PROVE  /\ UNCHANGED <<calling, asked>>
           /\ \/ Answers(value)
              \/ Told(value) /\ (UNCHANGED <<node, failed>> \/ StartBeacon)
<1>1. calling' # Null /\ pipe' = <<>>
  BY DEF Told, Worked, Replied
<1>2. ASSUME UNCHANGED <<calling, asked, pipe, replies, todo, node, failed>>
      PROVE  UNCHANGED <<calling, asked>> /\ Told(value) /\ UNCHANGED <<node, failed>>
  BY <1>2 DEF Told, Worked, Replied
<1>3. CASE UNCHANGED vars
  BY <1>2, <1>3 DEF vars, app, pipes, actor
<1>4. CASE Writes
  <2>1. ASSUME NEW c \in Commands, Write(c) PROVE pipe' # <<>>
    <3>1. PICK d \in Commands : pipe' = Append(pipe, d)
      BY <2>1 DEF Write, IInv, AppOK
    <3> QED BY <3>1, PipeGrows DEF IInv
  <2>2. ASSUME NEW c, PostHalf(c) PROVE calling' = Null
    BY <2>2 DEF PostHalf, Free
  <2> QED BY <1>1, <1>4, <2>1, <2>2 DEF Writes, Posted, Called, Post, Call
<1>5. CASE Return
  BY <1>1, <1>5 DEF Return
<1>6. CASE TakeEvent \/ GetMsg
  BY <1>2, <1>6 DEF TakeEvent, GetMsg, actor, pipes
<1>7. CASE Flush
  BY <1>7, FlushTells
<1>8. CASE RecvApi
  BY <1>8, RecvApiTells
<1>9. CASE NodeStep
  <2>1. todo' \in Seq(News) /\ UNCHANGED <<app, pipes>> /\ todo = <<>>
        /\ (StartBeacon \/ UNCHANGED <<node, failed>>)
    BY <1>9, NodeStepNews DEF Running
  <2>2. Replied(value)'
    BY <2>1, NewsSayNothing DEF Told, Worked
  <2>3. todo \in Seq(News)
    BY <2>1
  <2>4. Told(value)
    BY <2>1, <2>2, <2>3 DEF Replied, Told, app, pipes
  <2> QED BY <2>1, <2>4 DEF app
<1>10. CASE WorldStep
  BY <1>2, <1>10 DEF WorldStep, Say, AnswerPing, Die, Tick, actor, app, pipes
<1> QED BY <1>3, <1>4, <1>5, <1>6, <1>7, <1>8, <1>9, <1>10, NextShape

-----------------------------------------------------------------------------
(***************************************************************************)
(* What the node will hold once it has read the pipe: of the commands      *)
(* about a matter, C, the last one counts, and must be one of G; when      *)
(* there is none, what the node holds must already be right.               *)
(***************************************************************************)
IsLast(s, C, i) == s[i] \in C /\ \A j \in i + 1 .. Len(s) : s[j] \notin C
Follows(s, C, G, right) ==
    /\ \A i \in 1 .. Len(s) : IsLast(s, C, i) => s[i] \in G
    /\ (\A i \in 1 .. Len(s) : s[i] \notin C) => right

LEMMA FollowsNothing ==
    ASSUME NEW C, NEW G, NEW right
    PROVE  Follows(<<>>, C, G, right) <=> right
BY DEF Follows

LEMMA FollowsAbout ==
    ASSUME NEW S, NEW s \in Seq(S), NEW c \in S, NEW C, NEW G, NEW right,
           c \in C, c \in G
    PROVE  Follows(Append(s, c), C, G, right)
<1> DEFINE t == Append(s, c)
           n == Len(s)
<1>1. n \in Nat /\ Len(t) = n + 1 /\ t[n + 1] = c /\ \A i \in 1 .. n : t[i] = s[i]
  OBVIOUS
<1> HIDE DEF t, n
<1>2. n + 1 \in 1 .. Len(t) /\ t[n + 1] \in C
  BY <1>1
<1>3. ASSUME NEW i \in 1 .. Len(t), IsLast(t, C, i) PROVE t[i] \in G
  <2>1. ~(n + 1 \in i + 1 .. Len(t))
    BY <1>2, <1>3 DEF IsLast
  <2>2. i = n + 1
    BY <1>1, <2>1
  <2> QED BY <1>1, <2>2
<1>4. Follows(t, C, G, right)
  BY <1>2, <1>3 DEF Follows
<1> QED BY <1>4 DEF t

LEMMA FollowsOther ==
    ASSUME NEW S, NEW s \in Seq(S), NEW c \in S, NEW C, NEW G, NEW right, NEW now,
           c \notin C, Follows(s, C, G, right), right => now
    PROVE  Follows(Append(s, c), C, G, now)
<1> DEFINE t == Append(s, c)
           n == Len(s)
<1>1. n \in Nat /\ Len(t) = n + 1 /\ t[n + 1] = c /\ \A i \in 1 .. n : t[i] = s[i]
  OBVIOUS
<1>2. /\ \A i \in 1 .. n : IsLast(s, C, i) => s[i] \in G
      /\ (\A i \in 1 .. n : s[i] \notin C) => right
  BY DEF Follows
<1>3. n = Len(s)
  OBVIOUS
<1> HIDE DEF t, n
<1>4. ASSUME NEW i \in 1 .. Len(t), IsLast(t, C, i) PROVE t[i] \in G
  <2>1. i # n + 1
    BY <1>1, <1>4 DEF IsLast
  <2>2. i \in 1 .. n /\ t[i] = s[i]
    BY <1>1, <2>1
  <2>3. \A j \in i + 1 .. n : j \in i + 1 .. Len(t) /\ j \in 1 .. n
    BY <1>1, <2>2
  <2>4. IsLast(s, C, i)
    BY <1>1, <1>3, <1>4, <2>2, <2>3 DEF IsLast
  <2> QED BY <1>2, <2>2, <2>4
<1>5. ASSUME \A i \in 1 .. Len(t) : t[i] \notin C PROVE now
  <2>1. \A i \in 1 .. n : i \in 1 .. Len(t)
    BY <1>1
  <2> QED BY <1>1, <1>2, <1>5, <2>1
<1>6. Follows(t, C, G, now)
  BY <1>4, <1>5 DEF Follows
<1> QED BY <1>6 DEF t

\* The node reads the first command: what it holds becomes right if that was the
\* last one about the matter, and stays right if it was about something else.
LEMMA FollowsRead ==
    ASSUME NEW S, NEW s \in Seq(S), s # <<>>, NEW C, NEW G, NEW right, NEW now,
           Follows(s, C, G, right),
           Head(s) \in C /\ Head(s) \in G => now,
           Head(s) \notin C /\ right => now
    PROVE  Follows(Tail(s), C, G, now)
<1> DEFINE t == Tail(s)
           n == Len(s)
<1>1. /\ n \in Nat \ {0} /\ Len(t) = n - 1 /\ Head(s) = s[1]
      /\ \A i \in 1 .. n - 1 : t[i] = s[i + 1]
  OBVIOUS
<1>2. /\ \A i \in 1 .. n : IsLast(s, C, i) => s[i] \in G
      /\ (\A i \in 1 .. n : s[i] \notin C) => right
  BY DEF Follows
<1>3. n = Len(s)
  OBVIOUS
<1> HIDE DEF t, n
<1>4. ASSUME NEW i \in 1 .. Len(t), IsLast(t, C, i) PROVE t[i] \in G
  <2>1. i \in 1 .. n - 1 /\ i + 1 \in 1 .. n /\ t[i] = s[i + 1]
    BY <1>1, <1>4
  <2>2. ASSUME NEW j \in (i + 1) + 1 .. n PROVE s[j] \notin C
    <3>1. j - 1 \in i + 1 .. Len(t) /\ j - 1 \in 1 .. n - 1 /\ (j - 1) + 1 = j
      BY <1>1, <2>1, <2>2
    <3>2. t[j - 1] = s[j] /\ t[j - 1] \notin C
      BY <1>1, <1>4, <3>1 DEF IsLast
    <3> QED BY <3>2
  <2>3. IsLast(s, C, i + 1)
    BY <1>3, <1>4, <2>1, <2>2 DEF IsLast
  <2> QED BY <1>2, <2>1, <2>3
<1>5. ASSUME \A i \in 1 .. Len(t) : t[i] \notin C PROVE now
  <2>1. ASSUME NEW j \in 2 .. n PROVE s[j] \notin C
    <3>1. j - 1 \in 1 .. Len(t) /\ j - 1 \in 1 .. n - 1 /\ (j - 1) + 1 = j
      BY <1>1, <2>1
    <3> QED BY <1>1, <1>5, <3>1
  <2>2. CASE s[1] \in C
    <3>1. IsLast(s, C, 1)
      BY <1>3, <2>1, <2>2 DEF IsLast
    <3>2. 1 \in 1 .. n
      BY <1>1
    <3> QED BY <1>1, <1>2, <2>2, <3>1, <3>2
  <2>3. CASE s[1] \notin C
    <3>1. \A j \in 1 .. n : j = 1 \/ j \in 2 .. n
      BY <1>1
    <3> QED BY <1>1, <1>2, <2>1, <2>3, <3>1
  <2> QED BY <2>2, <2>3
<1>6. Follows(t, C, G, now)
  BY <1>4, <1>5 DEF Follows
<1> QED BY <1>6 DEF t

-----------------------------------------------------------------------------
(***************************************************************************)
(* What a handler sets of the node.                                        *)
(***************************************************************************)
Setting == {"SET NAME", "SET PORT", "JOIN", "LEAVE", "GOSSIP", "SET ENDPOINT",
            "START", "STOP"}

StartSets ==
    \/ /\ node.beaconPort # 0 /\ failed' = failed
       /\ \/ ~node.beacon /\ node' = [node EXCEPT !.beacon = TRUE]
             /\ todo' = <<Reply("START", 0)>>
          \/ node' = node /\ todo' = <<Reply("START", 1)>>
    \/ /\ node.beaconPort = 0 /\ node.gossip /\ failed' = failed
       /\ node' = [node EXCEPT !.endpoint = TRUE, !.port = @ \/ ~node.endpoint,
                               !.polled = @ \cup {"gossip", "inbox"}]
       /\ todo' = <<Reply("START", 0)>>

Sets(c) ==
    /\ c.name = "SET NAME" => node' = [node EXCEPT !.name = c.arg]
    /\ c.name = "SET PORT" => node' = [node EXCEPT !.beaconPort = c.arg]
    /\ c.name = "JOIN" => node' = [node EXCEPT !.groups = @ \cup {c.arg}]
    /\ c.name = "LEAVE" => node' = [node EXCEPT !.groups = @ \ {c.arg}]
    /\ c.name = "GOSSIP" => node' = GossipStart
    /\ c.name = "SET ENDPOINT" =>
          \/ node' = [GossipStart EXCEPT !.endpoint = TRUE]
             /\ todo' = <<Reply("SET ENDPOINT", 0)>>
          \/ node' = GossipStart /\ todo' = <<Reply("SET ENDPOINT", 1)>>
    /\ c.name = "START" => Aborts \/ StartSets
    /\ c.name = "STOP" => node' = [node EXCEPT !.beacon = FALSE,
                                               !.polled = @ \ {"inbox", "beacon"}]
    /\ c.name \notin Setting =>
          \/ node' = node
          \/ \E t : \/ node' = [node EXCEPT !.evasive = t]
                   \/ node' = [node EXCEPT !.expired = t]
                   \/ node' = [node EXCEPT !.contest = t]
          \/ node' = [node EXCEPT !.terminated = TRUE]

LEMMA HandlersSet ==
    ASSUME NEW c, Handled(c)
    PROVE  Sets(c)
<1>1. CASE \/ ApiUuid(c) \/ ApiName(c) \/ ApiSetOther(c) \/ ApiSend(c) \/ ApiPeers(c)
           \/ ApiPeerGroups(c) \/ ApiOwnGroups(c)
  BY <1>1 DEF ApiUuid, ApiName, ApiSetOther, ApiSend, ApiPeers, ApiPeerGroups,
              ApiOwnGroups, Only, Tells, Sets, Setting
<1>2. CASE ApiGroupPeers(c) \/ ApiPeerEndpoint(c) \/ ApiPeerHeader(c)
  BY <1>2 DEF ApiGroupPeers, ApiPeerEndpoint, ApiPeerHeader, Only, Sets, Setting
<1>2a. CASE ApiSetContest(c)
  <2>1. c.name = "SET CONTEST" /\ \E t : node' = [node EXCEPT !.contest = t]
    BY <1>2a DEF ApiSetContest
  <2> QED BY <2>1 DEF Sets, Setting
<1>3. CASE ApiSetName(c)
  BY <1>3 DEF ApiSetName, Only, Sets, Setting
<1>4. CASE ApiSetPort(c)
  BY <1>4 DEF ApiSetPort, Only, Sets, Setting
<1>5. CASE ApiSetTimeout(c)
  <2>1. c.name \in {"SET EVASIVE TIMEOUT", "SET EXPIRED TIMEOUT"}
        /\ \/ node' = [node EXCEPT !.evasive = c.arg]
           \/ node' = [node EXCEPT !.expired = c.arg]
    BY <1>5 DEF ApiSetTimeout, Only
  <2> QED BY <2>1 DEF Sets, Setting
<1>6. CASE ApiTerm(c)
  BY <1>6 DEF ApiTerm, Only, Sets, Setting
<1>7. CASE ApiJoin(c) \/ ApiLeave(c)
  BY <1>7 DEF ApiJoin, ApiLeave, Tells, Sets, Setting
<1>8. CASE ApiGossip(c)
  BY <1>8 DEF ApiGossip, Only, Sets, Setting
<1>9. CASE ApiSetEndpoint(c)
  BY <1>9 DEF ApiSetEndpoint, Only, Sets, Setting
<1>10. CASE ApiStart(c)
  <2>1. c.name = "START"
    BY <1>10 DEF ApiStart
  <2>2. Aborts \/ StartSets
    BY <1>10, AbortsDo DEF ApiStart, StartSets, Only
  <2> QED BY <2>1, <2>2 DEF Sets, Setting
<1>11. CASE ApiStop(c)
  BY <1>11 DEF ApiStop, Tells, Sets, Setting
<1>12. CASE ApiGossipUnpublish(c) \/ ApiRequirePeer(c)
  <2>1. c.name \in {"GOSSIP UNPUBLISH", "REQUIRE PEER"} /\ node' = node
    BY <1>12 DEF ApiGossipUnpublish, ApiRequirePeer, Only, Abort
  <2> QED BY <2>1 DEF Sets, Setting
<1> QED BY <1>1, <1>2, <1>2a, <1>3, <1>4, <1>5, <1>6, <1>7, <1>8, <1>9, <1>10, <1>11, <1>12
        DEF Handled

\* What is not set stays.
LEMMA HandlersLeave ==
    ASSUME NodeOK, NEW c \in Commands, Handled(c)
    PROVE  /\ c.name # "SET NAME" => node'.name = node.name
           /\ c.name \notin {"JOIN", "LEAVE"} => node'.groups = node.groups
           /\ c.name \notin Setting =>
                /\ node'.beaconPort = node.beaconPort /\ node'.gossip = node.gossip
                /\ node'.beacon = node.beacon /\ node'.endpoint = node.endpoint
                /\ node'.port = node.port
           /\ c.name \in {"SET NAME", "JOIN", "LEAVE"} =>
                /\ node'.beaconPort = node.beaconPort /\ node'.gossip = node.gossip
                /\ node'.beacon = node.beacon /\ node'.endpoint = node.endpoint
                /\ node'.port = node.port
<1>1. Sets(c) /\ node \in NodeState
  BY HandlersSet DEF NodeOK
<1>2. GossipStart.name = node.name /\ GossipStart.groups = node.groups
      /\ GossipStart \in NodeState
  BY <1>1 DEF GossipStart, NodeState
<1>3. CASE c.name \notin Setting
  BY <1>1, <1>3 DEF Sets, NodeState, Setting
<1>4. CASE c.name \in {"SET NAME", "SET PORT", "JOIN", "LEAVE", "STOP"}
  BY <1>1, <1>4 DEF Sets, NodeState, Setting
<1>5. CASE c.name \in {"GOSSIP", "SET ENDPOINT"}
  BY <1>1, <1>2, <1>5 DEF Sets, NodeState, Setting
<1>6. CASE c.name = "START"
  BY <1>1, <1>6 DEF Sets, StartSets, Aborts, NodeState, Setting
<1> QED BY <1>3, <1>4, <1>5, <1>6 DEF Setting

\* What the application writes, when it has sent no message without frames.
LEMMA WritesAppend ==
    ASSUME IInv, Pairs, Writes, ~asked'.empty
    PROVE  /\ ~asked.empty /\ calling = Null /\ failed = Null
           /\ UNCHANGED <<node, failed, replies, todo>>
           /\ \E c \in Commands : /\ pipe' = Append(pipe, c) /\ asked' = Notes(c)
                                  /\ IF c.name \in Calls THEN calling' = c ELSE UNCHANGED calling
<1>1. asked \in Asked
  BY DEF IInv, AppOK
<1>2. ASSUME NEW c, PostHalf(c) PROVE FALSE
  BY <1>1, <1>2 DEF PostHalf, Asked
<1>3. PICK c \in Commands : Posted(c) \/ Called(c)
  BY <1>2 DEF Writes
<1>4. Write(c) /\ asked' = Notes(c) /\ Free /\ UNCHANGED <<replies, todo, actor>>
  BY <1>3 DEF Posted, Called, Post, Call
<1>5. ~asked.empty
  BY <1>1, <1>4, NotesKeepEmpty
<1>6. half = Null
  BY <1>5 DEF Pairs
<1>7. pipe' = Append(pipe, c)
  BY <1>4, <1>6 DEF Write
<1>8. IF c.name \in Calls THEN calling' = c ELSE UNCHANGED calling
  BY <1>3 DEF Posted, Called, Post, Call, Posts, Calls
<1> QED BY <1>4, <1>5, <1>7, <1>8 DEF Free, actor

-----------------------------------------------------------------------------
(***************************************************************************)
(* The node catches up with its application: once it has read what is in   *)
(* the pipe it has the groups and the name that the application has asked  *)
(* for, so that the reply to a query, which it works out when the pipe is  *)
(* empty, has them.                                                        *)
(***************************************************************************)
AboutGroup(g) == {c \in Commands : c.name \in {"JOIN", "LEAVE"} /\ c.arg = g}
AboutName == {c \in Commands : c.name = "SET NAME"}

GroupFollows(g) ==
    Follows(pipe, AboutGroup(g), {c \in Commands : c.name = "JOIN" <=> g \in asked.groups},
            g \in node.groups <=> g \in asked.groups)
NameFollows ==
    Follows(pipe, AboutName, {c \in Commands : c.arg = asked.name}, node.name = asked.name)
ValueIs(value) ==
    /\ calling.name = "OWN GROUPS" => value = asked.groups
    /\ calling.name = "NAME" => value = asked.name

CatchesUp ==
    ~asked.empty => /\ \A g \in Group : GroupFollows(g)
                    /\ NameFollows
                    /\ \A value : Told(value) => ValueIs(value)

\* What is noted down of names and groups.
LEMMA NotesSay ==
    ASSUME asked \in Asked, NEW c \in Commands
    PROVE  /\ Notes(c).name = IF c.name = "SET NAME" THEN c.arg ELSE asked.name
           /\ Notes(c).groups = CASE c.name = "JOIN" -> asked.groups \cup {c.arg}
                                  [] c.name = "LEAVE" -> asked.groups \ {c.arg}
                                  [] OTHER -> asked.groups
BY DEF Asked, Notes

LEMMA WritesFollow ==
    ASSUME IInv, Pairs, CatchesUp, Writes, ~asked'.empty
    PROVE  (\A g \in Group : GroupFollows(g))' /\ NameFollows'
<1>1. pipe \in Seq(Commands) /\ asked \in Asked
  BY DEF IInv, AppOK
<1>2. ~asked.empty /\ UNCHANGED node
  BY WritesAppend
<1>3. PICK c \in Commands : pipe' = Append(pipe, c) /\ asked' = Notes(c)
  BY WritesAppend
<1>4. /\ asked'.name = IF c.name = "SET NAME" THEN c.arg ELSE asked.name
      /\ asked'.groups = CASE c.name = "JOIN" -> asked.groups \cup {c.arg}
                           [] c.name = "LEAVE" -> asked.groups \ {c.arg}
                           [] OTHER -> asked.groups
  BY <1>1, <1>3, NotesSay
<1>5. ASSUME NEW g \in Group PROVE GroupFollows(g)'
  <2> DEFINE G == {d \in Commands : d.name = "JOIN" <=> g \in asked.groups}
             H == {d \in Commands : d.name = "JOIN" <=> g \in asked'.groups}
             now == g \in node.groups <=> g \in asked'.groups
  <2>1. Follows(pipe, AboutGroup(g), G, g \in node.groups <=> g \in asked.groups)
    BY <1>2 DEF CatchesUp, GroupFollows
  <2>2. CASE c \in AboutGroup(g)
    <3>1. c \in H
      BY <1>4, <2>2 DEF AboutGroup
    <3> HIDE DEF H, now
    <3>2. Follows(Append(pipe, c), AboutGroup(g), H, now)
      BY <1>1, <2>2, <3>1, FollowsAbout
    <3> QED BY <1>2, <1>3, <3>2 DEF GroupFollows, H, now
  <2>3. CASE c \notin AboutGroup(g)
    <3>1. g \in asked'.groups <=> g \in asked.groups
      BY <1>4, <2>3 DEF AboutGroup
    <3>2. G = H
      BY <3>1
    <3> HIDE DEF G
    <3>3. Follows(Append(pipe, c), AboutGroup(g), G, now)
      <4>1. (g \in node.groups <=> g \in asked.groups) => now
        BY <3>1
      <4> HIDE DEF now
      <4> QED BY <1>1, <2>1, <2>3, <4>1, FollowsOther
    <3> QED BY <1>2, <1>3, <3>2, <3>3 DEF GroupFollows
  <2> QED BY <2>2, <2>3
<1>6. NameFollows'
  <2> DEFINE G == {d \in Commands : d.arg = asked.name}
             H == {d \in Commands : d.arg = asked'.name}
             now == node.name = asked'.name
  <2>1. Follows(pipe, AboutName, G, node.name = asked.name)
    BY <1>2 DEF CatchesUp, NameFollows
  <2>2. CASE c \in AboutName
    <3>1. c \in H
      BY <1>4, <2>2 DEF AboutName
    <3> HIDE DEF H, now
    <3>2. Follows(Append(pipe, c), AboutName, H, now)
      BY <1>1, <2>2, <3>1, FollowsAbout
    <3> QED BY <1>2, <1>3, <3>2 DEF NameFollows, H, now
  <2>3. CASE c \notin AboutName
    <3>1. asked'.name = asked.name
      BY <1>4, <2>3 DEF AboutName
    <3>2. G = H
      BY <3>1
    <3> HIDE DEF G
    <3>3. Follows(Append(pipe, c), AboutName, G, now)
      <4>1. (node.name = asked.name) => now
        BY <3>1
      <4> HIDE DEF now
      <4> QED BY <1>1, <2>1, <2>3, <4>1, FollowsOther
    <3> QED BY <1>2, <1>3, <3>2, <3>3 DEF NameFollows
  <2> QED BY <2>2, <2>3
<1> QED BY <1>5, <1>6

LEMMA RecvApiFollows ==
    ASSUME IInv, Pairs, CatchesUp, RecvApi, ~asked'.empty
    PROVE  (\A g \in Group : GroupFollows(g))' /\ NameFollows'
<1> DEFINE c == Head(pipe)
<1>1. pipe \in Seq(Commands) /\ AppOK /\ NodeOK
  BY DEF IInv, AppOK
<1>2. pipe # <<>> /\ pipe' = Tail(pipe) /\ Handled(c) /\ UNCHANGED asked
  BY DEF RecvApi, Handled, app
<1>3. c \in Commands
  BY <1>1, <1>2
<1>4. c = Head(pipe)
  OBVIOUS
<1> HIDE DEF c
<1>5. Sets(c) /\ node \in NodeState
  BY <1>1, <1>2, HandlersSet DEF NodeOK
<1>6. /\ c.name # "SET NAME" => node'.name = node.name
      /\ c.name \notin {"JOIN", "LEAVE"} => node'.groups = node.groups
  BY <1>1, <1>2, <1>3, HandlersLeave
<1>7. /\ c.name = "SET NAME" => node'.name = c.arg
      /\ c.name = "JOIN" => node'.groups = node.groups \cup {c.arg}
      /\ c.name = "LEAVE" => node'.groups = node.groups \ {c.arg}
  BY <1>5 DEF Sets, NodeState
<1>8. ASSUME NEW g \in Group PROVE GroupFollows(g)'
  <2> DEFINE G == {d \in Commands : d.name = "JOIN" <=> g \in asked.groups}
             right == g \in node.groups <=> g \in asked.groups
             now == g \in node'.groups <=> g \in asked.groups
  <2>1. Follows(pipe, AboutGroup(g), G, right)
    BY <1>2 DEF CatchesUp, GroupFollows
  <2>2. c \in AboutGroup(g) /\ c \in G => now
    BY <1>7 DEF AboutGroup
  <2>3. c \notin AboutGroup(g) /\ right => now
    BY <1>3, <1>6, <1>7 DEF AboutGroup
  <2> HIDE DEF G, right, now
  <2>4. Follows(Tail(pipe), AboutGroup(g), G, now)
    BY <1>1, <1>2, <1>4, <2>1, <2>2, <2>3, FollowsRead
  <2> QED BY <1>2, <2>4 DEF GroupFollows, G, now
<1>9. NameFollows'
  <2> DEFINE G == {d \in Commands : d.arg = asked.name}
             right == node.name = asked.name
             now == node'.name = asked.name
  <2>1. Follows(pipe, AboutName, G, right)
    BY <1>2 DEF CatchesUp, NameFollows
  <2>2. c \in AboutName /\ c \in G => now
    BY <1>7 DEF AboutName
  <2>3. c \notin AboutName /\ right => now
    BY <1>3, <1>6 DEF AboutName
  <2> HIDE DEF G, right, now
  <2>4. Follows(Tail(pipe), AboutName, G, now)
    BY <1>1, <1>2, <1>4, <2>1, <2>2, <2>3, FollowsRead
  <2> QED BY <1>2, <2>4 DEF NameFollows, G, now
<1> QED BY <1>8, <1>9

\* A reply knows what its handler knew, with nothing left in the pipe.
LEMMA ValuesFollow ==
    ASSUME IInv, Pairs, CatchesUp, [Next]_vars, ~asked.empty, NEW value, Told(value)'
    PROVE  ValueIs(value)'
<1>1. UNCHANGED <<calling, asked>>
  BY ToldSteps
<1>2. CASE Told(value)
  BY <1>1, <1>2 DEF CatchesUp, ValueIs
<1>3. CASE Answers(value)
  <2>1. NodeOK /\ calling \in Commands /\ calling.name \in Calls /\ Handled(calling)
        /\ Says(todo', calling.name, value) /\ pipe' = <<>> /\ todo = <<>> /\ RecvApi
    BY <1>3 DEF Answers, IInv, RecvApi, Running
  <2>2. ~Aborts
    <3>1. <<Reply(calling.name, value)>> # <<>>
          /\ \A n \in Name : <<Stopped(n), Reply(calling.name, value)>> # <<>>
      OBVIOUS
    <3> QED BY <2>1, <3>1 DEF Aborts, Says
  <2>3. PICK v : /\ Says(todo', calling.name, v)
                 /\ calling.name = "OWN GROUPS" => v = node.groups
                 /\ calling.name = "NAME" => v = node.name
    BY <2>1, <2>2, CallsAnswer
  <2>4. v = value
    BY <2>1, <2>3, SaysOneThing
  <2>5. (\A g \in Group : GroupFollows(g))' /\ NameFollows'
    BY <1>1, <2>1, RecvApiFollows
  <2>6. node'.name = node.name \/ calling.name # "NAME"
    BY <2>1, HandlersLeave
  <2>7. node'.groups = node.groups \/ calling.name # "OWN GROUPS"
    BY <2>1, HandlersLeave
  <2>8. node'.name = asked.name
    BY <1>1, <2>1, <2>5, FollowsNothing DEF NameFollows
  <2>9. \A g \in Group : g \in node'.groups <=> g \in asked.groups
    BY <1>1, <2>1, <2>5, FollowsNothing DEF GroupFollows
  <2>10. node.groups \subseteq Group /\ asked.groups \subseteq Group
    BY DEF IInv, NodeOK, NodeState, AppOK, Asked
  <2>11. calling.name = "OWN GROUPS" => node.groups = asked.groups
    BY <2>7, <2>9, <2>10
  <2> QED BY <1>1, <2>3, <2>4, <2>6, <2>8, <2>11 DEF ValueIs
<1> QED BY <1>2, <1>3, ToldSteps

\* What is asked and what the node holds change in no other way.
LEMMA OthersFollow ==
    ASSUME IInv, Pairs, CatchesUp, ~asked.empty,
           Return \/ TakeEvent \/ GetMsg \/ Flush \/ NodeStep \/ WorldStep \/ UNCHANGED vars
    PROVE  (\A g \in Group : GroupFollows(g))' /\ NameFollows'
<1>1. /\ asked'.name = asked.name /\ asked'.groups = asked.groups
      /\ node'.name = node.name /\ node'.groups = node.groups /\ pipe' = pipe
  <2>1. CASE Return
    BY <2>1 DEF Return, IInv, AppOK, Asked, actor
  <2>2. CASE TakeEvent \/ GetMsg \/ Flush
    BY <2>2 DEF TakeEvent, GetMsg, Flush, actor, app, pipes
  <2>3. CASE NodeStep
    <3>1. UNCHANGED <<app, pipes>> /\ (StartBeacon \/ UNCHANGED <<node, failed>>)
      BY <2>3, NodeStepNews
    <3>2. CASE StartBeacon
      BY <3>1, <3>2, StartBeaconNews DEF IInv, NodeOK, NodeState, app, pipes
    <3> QED BY <3>1, <3>2 DEF app, pipes
  <2>4. CASE WorldStep
    BY <2>4 DEF WorldStep, Say, AnswerPing, Die, Tick, actor, app, pipes
  <2>5. CASE UNCHANGED vars
    BY <2>5 DEF vars, app, pipes, actor
  <2> QED BY <2>1, <2>2, <2>3, <2>4, <2>5
<1>2. (\A g \in Group : GroupFollows(g)) /\ NameFollows
  BY DEF CatchesUp
<1>3. ASSUME NEW g \in Group PROVE GroupFollows(g)'
  BY <1>1, <1>2 DEF GroupFollows
<1>4. NameFollows'
  BY <1>1, <1>2 DEF NameFollows
<1> QED BY <1>3, <1>4

LEMMA EmptyStays ==
    ASSUME IInv, Pairs, [Next]_vars, ~asked'.empty
    PROVE  ~asked.empty
<1>1. CASE Writes
  BY <1>1, WritesAppend
<1>2. CASE Return
  BY <1>2 DEF Return, IInv, AppOK, Asked
<1>3. CASE TakeEvent \/ GetMsg \/ Flush \/ RecvApi \/ WorldStep \/ UNCHANGED vars
  BY <1>3 DEF TakeEvent, GetMsg, Flush, RecvApi, WorldStep, Say, AnswerPing, Die, Tick,
              vars, app
<1>4. CASE NodeStep
  BY <1>4, NodeStepNews DEF app
<1> QED BY <1>1, <1>2, <1>3, <1>4, NextShape

LEMMA InitCatchesUp == Init => CatchesUp
<1> SUFFICES ASSUME Init PROVE CatchesUp
  OBVIOUS
<1>1. pipe = <<>> /\ asked.name = node.name /\ asked.groups = node.groups
  BY DEF Init
<1>2. \A g \in Group : GroupFollows(g)
  BY <1>1, FollowsNothing DEF GroupFollows
<1>3. NameFollows
  BY <1>1, FollowsNothing DEF NameFollows
<1>4. \A value : ~Told(value)
  BY DEF Init, Told, Worked, Replied
<1> QED BY <1>2, <1>3, <1>4 DEF CatchesUp

LEMMA NextCatchesUp == IInv /\ Pairs /\ CatchesUp /\ [Next]_vars => CatchesUp'
<1> SUFFICES ASSUME IInv, Pairs, CatchesUp, [Next]_vars, ~asked'.empty
             PROVE  /\ (\A g \in Group : GroupFollows(g))'
                    /\ NameFollows'
                    /\ \A value : Told(value)' => ValueIs(value)'
  BY DEF CatchesUp
<1>1. ~asked.empty
  BY EmptyStays
<1>2. (\A g \in Group : GroupFollows(g))' /\ NameFollows'
  BY <1>1, NextShape, WritesFollow, RecvApiFollows, OthersFollow
<1>3. ASSUME NEW value, Told(value)' PROVE ValueIs(value)'
  BY <1>1, <1>3, ValuesFollow
<1> QED BY <1>2, <1>3

LEMMA CaughtUpReads == Pairs /\ CatchesUp => ReadsItsWrites
<1> SUFFICES ASSUME Pairs, CatchesUp, replies # <<>>, ~asked.empty
             PROVE  /\ replies[1].kind = "OWN GROUPS" => replies[1].value = asked.groups
                    /\ replies[1].kind = "NAME" => replies[1].value = asked.name
  BY DEF ReadsItsWrites
<1>1. PICK value : Replied(value)
  BY DEF Pairs, Phase, Idle, Sent, Told, Worked, Lost, Silent
<1>2. replies[1].kind = calling.name /\ replies[1].value = value
  BY <1>1 DEF Replied, Reply
<1>3. ValueIs(value)
  BY <1>1 DEF CatchesUp, Told
<1> QED BY <1>2, <1>3 DEF ValueIs

\* A query answers with everything that was posted before it: the reply to
\* zyre_own_groups is the groups joined and not left since, and the reply to
\* zyre_name the name set last, for commands that are still in the pipe when
\* the query is written and whatever the node handles between them.
THEOREM RepliesKnowWhatWasPosted == Spec => []ReadsItsWrites
<1>1. Spec => []Pairs
  BY Invariant, InitPairs, NextPairs, PTL DEF Spec
<1>2. Spec => []CatchesUp
  BY <1>1, Invariant, InitCatchesUp, NextCatchesUp, PTL DEF Spec
<1> QED BY <1>1, <1>2, CaughtUpReads, PTL

-----------------------------------------------------------------------------
(***************************************************************************)
(* The documented order of the calls: what the pipe, the node and a reply  *)
(* on its way say as long as the application has kept to it.               *)
(***************************************************************************)
In(name) == \E i \in 1 .. Len(pipe) : pipe[i].name = name
Asks(name) == calling # Null /\ calling.name = name

\* A node that gossips was told to, and knows its port; nobody sets another.
GossipIsAsked ==
    /\ In("GOSSIP") => asked.gossip
    /\ node.gossip => asked.gossip \/ Asks("SET ENDPOINT")
    /\ asked.gossip => node.gossip \/ In("GOSSIP")
UnpublishFollowsGossip ==
    \A j \in 1 .. Len(pipe) : pipe[j].name = "GOSSIP UNPUBLISH" =>
        node.gossip \/ \E i \in 1 .. j - 1 : pipe[i].name = "GOSSIP"
PortPrecedesGossip ==
    /\ node.gossip => node.beaconPort = 0 /\ ~In("SET PORT")
    /\ \A j \in 1 .. Len(pipe) : \A i \in 1 .. j - 1 :
            pipe[i].name = "GOSSIP" => pipe[j].name # "SET PORT"

AboutPort == {c \in Commands : c.name = "SET PORT"}
PortFollows ==
    (~asked.gossip /\ ~node.gossip) =>
        Follows(pipe, AboutPort, {c \in Commands : c.arg = asked.port},
                node.beaconPort = asked.port)

\* A peer is required of a node with an endpoint, which has a port or gossips.
EndpointIsThere ==
    /\ asked.endpoint \/ In("REQUIRE PEER") => node.endpoint
    /\ node.endpoint /\ ~node.port => node.gossip

\* A node with a beacon was started, or is about to say so, and does not gossip.
BeaconIsAsked ==
    node.beacon =>
        /\ asked.running \/ (Asks("START") /\ pipe = <<>>)
        /\ ~node.gossip /\ ~In("GOSSIP") /\ ~In("SET ENDPOINT")

StartIsInOrder ==
    Asks("START") => ~asked.running /\ (asked.port = 0 => asked.gossip)

\* What the reply to a call will tell the application is so.
Truthful(value) ==
    /\ Asks("SET ENDPOINT") => node.gossip /\ (value = 0 => node.endpoint)
    /\ Asks("START") => /\ value = 0 /\ asked.port = 0 => node.endpoint
                        /\ value # 0 => ~node.beacon
    /\ Asks("STOP") => ~node.beacon

InStep ==
    /\ GossipIsAsked /\ UnpublishFollowsGossip /\ PortPrecedesGossip /\ PortFollows
    /\ EndpointIsThere /\ BeaconIsAsked /\ StartIsInOrder
    /\ \A value : Told(value) => Truthful(value)

\* The invariant behind CarefulNeverAborts.
Orderly == (asked.careful /\ ~asked.empty) => failed = "port" \/ (failed = Null /\ InStep)

LEMMA InGrows ==
    ASSUME AppOK, NEW c \in Commands, pipe' = Append(pipe, c), NEW name
    PROVE  In(name)' <=> In(name) \/ c.name = name
<1>1. /\ Len(pipe) \in Nat /\ Len(pipe') = Len(pipe) + 1
      /\ pipe'[Len(pipe) + 1] = c
      /\ \A i \in 1 .. Len(pipe) : pipe'[i] = pipe[i]
  BY PipeGrows
<1>2. Len(pipe) + 1 \in 1 .. Len(pipe') /\ \A i \in 1 .. Len(pipe) : i \in 1 .. Len(pipe')
  BY <1>1
<1>3. \A i \in 1 .. Len(pipe') : i = Len(pipe) + 1 \/ i \in 1 .. Len(pipe)
  BY <1>1
<1> QED BY <1>1, <1>2, <1>3 DEF In

LEMMA InShrinks ==
    ASSUME AppOK, pipe # <<>>, pipe' = Tail(pipe), NEW name
    PROVE  In(name) <=> In(name)' \/ Head(pipe).name = name
<1>1. /\ Len(pipe) \in Nat \ {0} /\ Len(pipe') = Len(pipe) - 1
      /\ Head(pipe) = pipe[1]
      /\ \A i \in 1 .. Len(pipe) - 1 : pipe'[i] = pipe[i + 1]
  BY PipeShrinks
<1>2. 1 \in 1 .. Len(pipe) /\ \A i \in 1 .. Len(pipe') : i + 1 \in 1 .. Len(pipe)
  BY <1>1
<1>3. ASSUME NEW i \in 1 .. Len(pipe), i # 1
      PROVE  i - 1 \in 1 .. Len(pipe') /\ pipe'[i - 1] = pipe[i]
  <2>1. i - 1 \in 1 .. Len(pipe) - 1 /\ (i - 1) + 1 = i
    BY <1>1, <1>3
  <2> QED BY <1>1, <2>1
<1> QED BY <1>1, <1>2, <1>3 DEF In

LEMMA NotesOrder ==
    ASSUME asked \in Asked, NEW c \in Commands, Notes(c).careful
    PROVE  /\ asked.careful
           /\ c.name = "SET PORT" => ~asked.gossip /\ Notes(c).port = c.arg
           /\ c.name \notin {"SET PORT", "GOSSIP"} => Notes(c).port = asked.port
           /\ Notes(c).gossip <=> asked.gossip \/ c.name = "GOSSIP"
           /\ c.name \in {"GOSSIP", "SET ENDPOINT"} => ~asked.running
           /\ c.name = "GOSSIP UNPUBLISH" => asked.gossip
           /\ c.name = "REQUIRE PEER" => asked.endpoint
           /\ c.name = "START" => ~asked.running /\ (asked.port = 0 => asked.gossip)
           /\ Notes(c).endpoint = asked.endpoint /\ Notes(c).running = asked.running
BY DEF Asked, Notes, InOrder

\* The application writes what is in order.
LEMMA WritesInStep ==
    ASSUME IInv, Pairs, InStep, Writes, ~asked'.empty, asked'.careful
    PROVE  InStep'
<1>1. AppOK /\ asked \in Asked /\ pipe \in Seq(Commands)
  BY DEF IInv, AppOK
<1>2. calling = Null /\ UNCHANGED node
  BY WritesAppend
<1>3. PICK c \in Commands : /\ pipe' = Append(pipe, c) /\ asked' = Notes(c)
                            /\ IF c.name \in Calls THEN calling' = c ELSE UNCHANGED calling
  BY WritesAppend
<1>4. /\ asked.careful
      /\ c.name = "SET PORT" => ~asked.gossip /\ asked'.port = c.arg
      /\ c.name \notin {"SET PORT", "GOSSIP"} => asked'.port = asked.port
      /\ asked'.gossip <=> asked.gossip \/ c.name = "GOSSIP"
      /\ c.name \in {"GOSSIP", "SET ENDPOINT"} => ~asked.running
      /\ c.name = "GOSSIP UNPUBLISH" => asked.gossip
      /\ c.name = "REQUIRE PEER" => asked.endpoint
      /\ c.name = "START" => ~asked.running /\ (asked.port = 0 => asked.gossip)
      /\ asked'.endpoint = asked.endpoint /\ asked'.running = asked.running
  BY <1>1, <1>3, NotesOrder
<1>5. \A name : In(name)' <=> In(name) \/ c.name = name
  BY <1>1, <1>3, InGrows
<1>6. /\ Len(pipe) \in Nat /\ Len(pipe') = Len(pipe) + 1 /\ pipe' # <<>>
      /\ pipe'[Len(pipe) + 1] = c
      /\ \A i \in 1 .. Len(pipe) : pipe'[i] = pipe[i]
  BY <1>1, <1>3, PipeGrows
<1>7. \A i \in 1 .. Len(pipe') : i = Len(pipe) + 1 \/ i \in 1 .. Len(pipe)
  BY <1>6
<1>8. \A name : ~Asks(name)
  BY <1>2 DEF Asks
<1>9. node.gossip => asked.gossip
  BY <1>8 DEF InStep, GossipIsAsked
<1>10. GossipIsAsked'
  BY <1>2, <1>4, <1>5, <1>9 DEF InStep, GossipIsAsked
<1>11. UnpublishFollowsGossip'
  <2>1. ASSUME NEW j \in 1 .. Len(pipe'), pipe'[j].name = "GOSSIP UNPUBLISH", ~node.gossip
        PROVE  \E i \in 1 .. j - 1 : pipe'[i].name = "GOSSIP"
    <3>1. \A i \in 1 .. j - 1 : i \in 1 .. Len(pipe)
      BY <1>6
    <3>2. CASE j \in 1 .. Len(pipe)
      BY <1>6, <2>1, <3>1, <3>2 DEF InStep, UnpublishFollowsGossip
    <3>3. CASE j = Len(pipe) + 1
      <4>1. asked.gossip
        BY <1>4, <1>6, <2>1, <3>3
      <4>2. PICK i \in 1 .. Len(pipe) : pipe[i].name = "GOSSIP"
        BY <2>1, <4>1 DEF InStep, GossipIsAsked, In
      <4>3. i \in 1 .. j - 1
        BY <1>6, <3>3
      <4> QED BY <1>6, <4>2, <4>3
    <3> QED BY <1>7, <3>2, <3>3
  <2> QED BY <1>2, <2>1 DEF UnpublishFollowsGossip
<1>12. PortPrecedesGossip'
  <2>1. ASSUME NEW j \in 1 .. Len(pipe'), NEW i \in 1 .. j - 1, pipe'[i].name = "GOSSIP"
        PROVE  pipe'[j].name # "SET PORT"
    <3>1. i \in 1 .. Len(pipe)
      BY <1>6
    <3>2. CASE j \in 1 .. Len(pipe)
      BY <1>6, <2>1, <3>1, <3>2 DEF InStep, PortPrecedesGossip
    <3>3. CASE j = Len(pipe) + 1
      <4>1. In("GOSSIP")
        BY <1>6, <2>1, <3>1 DEF In
      <4>2. asked.gossip
        BY <4>1 DEF InStep, GossipIsAsked
      <4> QED BY <1>4, <1>6, <3>3, <4>2
    <3> QED BY <1>7, <3>2, <3>3
  <2>2. node'.gossip => node'.beaconPort = 0 /\ ~In("SET PORT")'
    BY <1>2, <1>4, <1>5, <1>9 DEF InStep, PortPrecedesGossip
  <2> QED BY <2>1, <2>2 DEF PortPrecedesGossip
<1>13. PortFollows'
  <2> DEFINE G == {d \in Commands : d.arg = asked.port}
             H == {d \in Commands : d.arg = asked'.port}
             right == node.beaconPort = asked.port
             now == node.beaconPort = asked'.port
  <2> SUFFICES ASSUME ~asked'.gossip, ~node.gossip
               PROVE  Follows(pipe', AboutPort, H, now)
    BY <1>2 DEF PortFollows
  <2>1. Follows(pipe, AboutPort, G, right)
    BY <1>4 DEF InStep, PortFollows
  <2>2. CASE c.name = "SET PORT"
    <3>1. c \in AboutPort /\ c \in H
      BY <1>4, <2>2 DEF AboutPort
    <3> HIDE DEF H, now
    <3> QED BY <1>1, <1>3, <3>1, FollowsAbout
  <2>3. CASE c.name # "SET PORT"
    <3>1. c \notin AboutPort /\ asked'.port = asked.port
      BY <1>4, <2>3 DEF AboutPort
    <3>2. G = H /\ (right => now)
      BY <3>1
    <3> HIDE DEF G, H, right, now
    <3> QED BY <1>1, <1>3, <2>1, <3>1, <3>2, FollowsOther
  <2> QED BY <2>2, <2>3
<1>14. EndpointIsThere'
  BY <1>2, <1>4, <1>5 DEF InStep, EndpointIsThere
<1>15. BeaconIsAsked'
  BY <1>2, <1>4, <1>5, <1>8 DEF InStep, BeaconIsAsked
<1>16. StartIsInOrder'
  <2>1. Asks("START")' => c.name = "START"
    BY <1>2, <1>3 DEF Asks
  <2> QED BY <1>4, <2>1 DEF StartIsInOrder
<1>17. ASSUME NEW value, Told(value)' PROVE Truthful(value)'
  BY <1>6, <1>17 DEF Told, Worked, Replied
<1> QED BY <1>10, <1>11, <1>12, <1>13, <1>14, <1>15, <1>16, <1>17 DEF InStep

\* A call returns: what its reply says is noted.
LEMMA ReturnInStep ==
    ASSUME IInv, Pairs, InStep, Return
    PROVE  InStep'
<1>1. asked \in Asked /\ calling # Null /\ replies # <<>>
  BY DEF IInv, AppOK, Return
<1>2. PICK value : Replied(value)
  BY <1>1 DEF Pairs, Phase, Idle, Sent, Told, Worked, Lost, Silent
<1> DEFINE r == Reply(calling.name, value)
<1>3. r.kind = calling.name /\ r.value = value
  BY DEF Reply
<1>4. replies = <<r>> /\ pipe = <<>>
  BY <1>2 DEF Replied
<1> HIDE DEF r
<1>5. Head(replies) = r
  BY <1>4
<1>6. /\ calling' = Null /\ UNCHANGED <<pipe, node>>
      /\ asked' = [asked EXCEPT
              !.endpoint = \/ @
                           \/ r.kind = "SET ENDPOINT" /\ r.value = 0
                           \/ r.kind = "START" /\ r.value = 0 /\ asked.port = 0,
              !.gossip = @ \/ r.kind = "SET ENDPOINT",
              !.port = IF r.kind = "SET ENDPOINT" /\ ~asked.gossip THEN 0 ELSE @,
              !.running = CASE r.kind = "START" -> r.value = 0
                            [] r.kind = "STOP" -> FALSE
                            [] OTHER -> @]
  BY <1>5 DEF Return, actor
<1>7. /\ asked'.endpoint <=> \/ asked.endpoint
                             \/ calling.name = "SET ENDPOINT" /\ value = 0
                             \/ calling.name = "START" /\ value = 0 /\ asked.port = 0
      /\ asked'.gossip <=> asked.gossip \/ calling.name = "SET ENDPOINT"
      /\ calling.name # "SET ENDPOINT" => asked'.port = asked.port
      /\ calling.name = "START" => (asked'.running <=> value = 0)
      /\ calling.name \notin {"START", "STOP"} => asked'.running = asked.running
  BY <1>1, <1>3, <1>6 DEF Asked
<1>8. Truthful(value) /\ \A name : Asks(name) <=> calling.name = name
  BY <1>1, <1>2 DEF InStep, Told, Asks
<1>9. /\ \A name : ~Asks(name)' /\ ~In(name) /\ ~In(name)'
      /\ \A v : ~Told(v)'
  BY <1>4, <1>6 DEF Asks, In, Told, Worked, Replied
<1>10. GossipIsAsked'
  BY <1>6, <1>7, <1>8, <1>9 DEF InStep, GossipIsAsked, Truthful
<1>11. UnpublishFollowsGossip' /\ PortPrecedesGossip'
  <2>1. \A j \in 1 .. Len(pipe') : FALSE
    BY <1>4, <1>6
  <2>2. node'.gossip => node'.beaconPort = 0
    BY <1>6 DEF InStep, PortPrecedesGossip
  <2> QED BY <1>9, <2>1, <2>2 DEF UnpublishFollowsGossip, PortPrecedesGossip
<1>12. PortFollows'
  BY <1>6, <1>7 DEF InStep, PortFollows
<1>13. EndpointIsThere'
  BY <1>6, <1>7, <1>8, <1>9 DEF InStep, EndpointIsThere, Truthful
<1>14. BeaconIsAsked'
  BY <1>6, <1>7, <1>8, <1>9 DEF InStep, BeaconIsAsked, Truthful
<1>15. StartIsInOrder'
  BY <1>9 DEF StartIsInOrder
<1> QED BY <1>9, <1>10, <1>11, <1>12, <1>13, <1>14, <1>15 DEF InStep

\* What a handler does to what the documented order is about.
LEMMA HandlersDo ==
    ASSUME NodeOK, NEW c \in Commands, Handled(c)
    PROVE  /\ node'.gossip <=> node.gossip \/ c.name \in {"GOSSIP", "SET ENDPOINT"}
           /\ c.name = "SET PORT" => node'.beaconPort = c.arg
           /\ (c.name \in {"GOSSIP", "SET ENDPOINT"} /\ ~node.gossip) => node'.beaconPort = 0
           /\ (c.name \notin {"SET PORT", "GOSSIP", "SET ENDPOINT"} \/
                 (c.name # "SET PORT" /\ node.gossip)) => node'.beaconPort = node.beaconPort
           /\ node.endpoint => node'.endpoint
           /\ node'.endpoint => \/ node.endpoint \/ c.name = "SET ENDPOINT"
                                \/ (c.name = "START" /\ node.gossip)
           /\ node.port => node'.port
           /\ node'.beacon => \/ node.beacon /\ c.name # "STOP"
                              \/ c.name = "START" /\ node.beaconPort # 0
<1>1. Sets(c) /\ node \in NodeState
  BY HandlersSet DEF NodeOK
<1>2. /\ GossipStart \in NodeState /\ GossipStart.gossip
      /\ GossipStart.beaconPort = IF node.gossip THEN node.beaconPort ELSE 0
      /\ GossipStart.endpoint = node.endpoint /\ GossipStart.beacon = node.beacon
      /\ GossipStart.port = node.port
  BY <1>1 DEF GossipStart, NodeState
<1>3. CASE c.name \notin Setting \/ c.name \in {"SET NAME", "JOIN", "LEAVE"}
  <2>1. /\ node'.beaconPort = node.beaconPort /\ node'.gossip = node.gossip
        /\ node'.beacon = node.beacon /\ node'.endpoint = node.endpoint
        /\ node'.port = node.port
    BY <1>3, HandlersLeave
  <2>2. c.name \notin {"SET PORT", "GOSSIP", "SET ENDPOINT", "START", "STOP"}
    BY <1>3 DEF Setting
  <2> QED BY <2>1, <2>2
<1>4. CASE c.name \in {"SET PORT", "STOP"}
  BY <1>1, <1>4 DEF Sets, NodeState
<1>5. CASE c.name = "GOSSIP"
  BY <1>1, <1>2, <1>5 DEF Sets
<1>6. CASE c.name = "SET ENDPOINT"
  <2>1. node' = GossipStart \/ node' = [GossipStart EXCEPT !.endpoint = TRUE]
    BY <1>1, <1>6 DEF Sets
  <2> DEFINE n == GossipStart
  <2>2. n \in NodeState
    BY <1>2
  <2> HIDE DEF n
  <2>3. \/ node' = n
        \/ /\ node'.gossip = n.gossip /\ node'.beaconPort = n.beaconPort
           /\ node'.beacon = n.beacon /\ node'.port = n.port /\ node'.endpoint
    BY <2>1, <2>2 DEF NodeState, n
  <2> QED BY <1>2, <1>6, <2>3 DEF n
<1>7. CASE c.name = "START"
  <2>1. Aborts \/ StartSets
    BY <1>1, <1>7 DEF Sets
  <2> QED BY <1>1, <1>7, <2>1 DEF StartSets, Aborts, NodeState
<1> QED BY <1>3, <1>4, <1>5, <1>6, <1>7 DEF Setting

\* A call that is read is the one that waits, and there is nothing behind it.
LEMMA HeadCall ==
    ASSUME IInv, Pairs, RecvApi, ~asked.empty, Head(pipe).name \in Calls
    PROVE  calling # Null /\ calling = Head(pipe) /\ pipe' = <<>>
<1> DEFINE c == Head(pipe)
<1>1. AppOK /\ pipe # <<>> /\ pipe' = Tail(pipe) /\ todo = <<>> /\ failed = Null
  BY DEF IInv, RecvApi, Running
<1>2. /\ Len(pipe) \in Nat \ {0} /\ c = pipe[1] /\ c.name \in Calls
      /\ Len(pipe) = 1 => pipe' = <<>>
  BY <1>1, PipeShrinks
<1>3. 1 \in 1 .. Len(pipe) /\ (Len(pipe) # 1 => 1 \in 1 .. Len(pipe) - 1)
  <2>1. \A n \in Nat \ {0} : 1 \in 1 .. n /\ (n # 1 => 1 \in 1 .. n - 1)
    OBVIOUS
  <2> QED BY <1>2, <2>1
<1>4. Sent
  BY <1>1, <1>2, <1>3 DEF Pairs, Phase, Idle, Lost, Told, Worked, Replied, NoCalls
<1>5. Len(pipe) = 1
  BY <1>2, <1>3, <1>4 DEF Sent, NoCalls
<1> QED BY <1>2, <1>4, <1>5 DEF Sent

\* Only three handlers hold assertions.
LEMMA WhoAborts ==
    ASSUME NEW c, Handled(c)
    PROVE  \/ failed' = failed
           \/ c.name = "GOSSIP UNPUBLISH" /\ ApiGossipUnpublish(c)
           \/ c.name = "REQUIRE PEER" /\ ApiRequirePeer(c)
           \/ c.name = "START" /\ ApiStart(c)
<1>1. CASE \/ ApiUuid(c) \/ ApiName(c) \/ ApiSetName(c) \/ ApiSetOther(c)
           \/ ApiSetPort(c) \/ ApiSetTimeout(c) \/ ApiSetContest(c)
           \/ ApiSetEndpoint(c) \/ ApiGossip(c)
  BY <1>1 DEF ApiUuid, ApiName, ApiSetName, ApiSetOther, ApiSetPort, ApiSetTimeout,
              ApiSetContest, ApiSetEndpoint, ApiGossip, Only
<1>2. CASE \/ ApiStop(c) \/ ApiSend(c) \/ ApiJoin(c) \/ ApiLeave(c)
           \/ ApiPeers(c) \/ ApiGroupPeers(c) \/ ApiPeerEndpoint(c)
           \/ ApiPeerHeader(c) \/ ApiPeerGroups(c) \/ ApiOwnGroups(c)
           \/ ApiTerm(c)
  BY <1>2 DEF ApiStop, ApiSend, ApiJoin, ApiLeave, ApiPeers, ApiGroupPeers,
              ApiPeerEndpoint, ApiPeerHeader, ApiPeerGroups, ApiOwnGroups, ApiTerm, Only,
              Tells
<1>3. CASE ApiGossipUnpublish(c) \/ ApiRequirePeer(c) \/ ApiStart(c)
  BY <1>3 DEF ApiGossipUnpublish, ApiRequirePeer, ApiStart
<1> QED BY <1>1, <1>2, <1>3 DEF Handled

\* A node that reads START has no beacon, and a port unless it gossips.
LEMMA StartReads ==
    ASSUME IInv, Pairs, InStep, RecvApi, ~asked.empty, Head(pipe).name = "START"
    PROVE  /\ ~node.beacon /\ (node.beaconPort = 0 => node.gossip)
           /\ ~node.gossip => node.beaconPort = asked.port
<1>1. AppOK /\ pipe # <<>> /\ pipe' = Tail(pipe) /\ failed = Null
  BY DEF IInv, RecvApi, Running
<1>2. Asks("START") /\ pipe' = <<>>
  BY HeadCall DEF Asks, Calls
<1>3. ~asked.running /\ (asked.port = 0 => asked.gossip)
  BY <1>2 DEF InStep, StartIsInOrder
<1>4. ~node.beacon
  BY <1>1, <1>3 DEF InStep, BeaconIsAsked
<1>5. ~In("GOSSIP") /\ ~In("SET PORT")
  <2>1. ~In("GOSSIP")' /\ ~In("SET PORT")'
    BY <1>2 DEF In
  <2> QED BY <1>1, <2>1, InShrinks
<1>6. ASSUME ~node.gossip PROVE node.beaconPort = asked.port /\ ~asked.gossip
  <2>1. ~asked.gossip
    BY <1>5, <1>6 DEF InStep, GossipIsAsked
  <2>2. Follows(pipe, AboutPort, {d \in Commands : d.arg = asked.port},
                node.beaconPort = asked.port)
    BY <1>6, <2>1 DEF InStep, PortFollows
  <2>3. \A i \in 1 .. Len(pipe) : pipe[i] \notin AboutPort
    BY <1>5 DEF In, AboutPort
  <2> QED BY <2>1, <2>2, <2>3 DEF Follows
<1> QED BY <1>3, <1>4, <1>6

\* No handler aborts, but for want of a port.
LEMMA HandlersInOrder ==
    ASSUME IInv, Pairs, InStep, RecvApi, ~asked.empty
    PROVE  failed' \in {Null, "port"}
<1> DEFINE c == Head(pipe)
<1>1. AppOK /\ pipe # <<>> /\ pipe' = Tail(pipe) /\ Handled(c) /\ failed = Null /\ NodeOK
  BY DEF IInv, RecvApi, Running, Handled
<1>2. /\ Len(pipe) \in Nat \ {0} /\ c = pipe[1] /\ c \in Commands /\ 1 \in 1 .. Len(pipe)
  BY <1>1, PipeShrinks
<1>3. \A name : c.name = name => In(name)
  BY <1>2 DEF In
<1>4. c.name \in Calls => calling # Null /\ calling = c /\ pipe' = <<>>
  BY HeadCall
<1> HIDE DEF c
<1>5. ASSUME c.name = "GOSSIP UNPUBLISH", ApiGossipUnpublish(c)
      PROVE  failed' = failed
  <2>1. 1 .. 1 - 1 = {}
    OBVIOUS
  <2>2. node.gossip
    BY <1>2, <1>5, <2>1 DEF InStep, UnpublishFollowsGossip
  <2> QED BY <1>5, <2>2 DEF ApiGossipUnpublish, Only
<1>6. ASSUME c.name = "REQUIRE PEER", ApiRequirePeer(c)
      PROVE  failed' = failed
  <2>1. node.endpoint
    BY <1>3, <1>6 DEF InStep, EndpointIsThere
  <2> QED BY <1>6, <2>1 DEF ApiRequirePeer
<1>7. ASSUME c.name = "START", ApiStart(c)
      PROVE  failed' \in {Null, "port"}
  <2>1. ~node.beacon /\ (node.beaconPort = 0 => node.gossip)
    BY <1>7, StartReads DEF c
  <2> QED BY <1>1, <1>7, <2>1 DEF ApiStart, Only, Abort
<1> QED BY <1>1, <1>5, <1>6, <1>7, WhoAborts

LEMMA OneIsNotZero == 1 # 0
OBVIOUS

\* The reply that a handler leaves tells the truth.
LEMMA AnswersAreTrue ==
    ASSUME IInv, Pairs, InStep, RecvApi, ~asked.empty, NEW value, Told(value)'
    PROVE  Truthful(value)'
<1>1. Answers(value) /\ UNCHANGED <<calling, asked>>
  BY RecvApiTells
<1>2. /\ NodeOK /\ calling \in Commands /\ Handled(calling) /\ Head(pipe) = calling
      /\ Says(todo', calling.name, value) /\ todo = <<>>
  BY <1>1 DEF Answers, IInv, RecvApi, Running
<1>3. Sets(calling) /\ node \in NodeState
  BY <1>2, HandlersSet DEF NodeOK
<1>4. \A v : Says(todo', calling.name, v) => value = v
  BY <1>2, SaysOneThing
<1>5. ~Aborts
  <2>1. <<Reply(calling.name, value)>> # <<>>
        /\ \A n \in Name : <<Stopped(n), Reply(calling.name, value)>> # <<>>
    OBVIOUS
  <2> QED BY <1>2, <2>1 DEF Aborts, Says
<1>6. Asks("SET ENDPOINT")' => node'.gossip /\ (value = 0 => node'.endpoint)
  <2> SUFFICES ASSUME calling.name = "SET ENDPOINT"
               PROVE  node'.gossip /\ (value = 0 => node'.endpoint)
    BY <1>1 DEF Asks
  <2>1. node'.gossip
    BY <1>2, HandlersDo
  <2>2. \/ node' = [GossipStart EXCEPT !.endpoint = TRUE]
        \/ todo' = <<Reply("SET ENDPOINT", 1)>>
    BY <1>3 DEF Sets
  <2>3. node' = [GossipStart EXCEPT !.endpoint = TRUE] => node'.endpoint
    BY <1>3 DEF GossipStart, NodeState
  <2>4. todo' = <<Reply("SET ENDPOINT", 1)>> => value = 1
    BY <1>4 DEF Says
  <2>5. node'.endpoint \/ value = 1
    BY <2>2, <2>3, <2>4, Zenon
  <2> QED BY <2>1, <2>5, OneIsNotZero, Zenon
<1>7. Asks("START")' => /\ value = 0 /\ asked'.port = 0 => node'.endpoint
                        /\ value # 0 => ~node'.beacon
  <2> SUFFICES ASSUME calling.name = "START"
               PROVE  /\ value = 0 /\ asked.port = 0 => node'.endpoint
                      /\ value # 0 => ~node'.beacon
    BY <1>1 DEF Asks
  <2>1. ~node.beacon /\ (~node.gossip => node.beaconPort = asked.port)
    BY <1>2, StartReads
  <2>2. node.gossip => node.beaconPort = 0
    BY DEF InStep, PortPrecedesGossip
  <2>3. todo' = <<Reply("START", 0)>> => value = 0
    BY <1>4 DEF Says
  <2>4. todo' = <<Reply("START", 1)>> => value = 1
    BY <1>4 DEF Says
  <2>5. StartSets
    BY <1>3, <1>5 DEF Sets
  <2>6. CASE node.beaconPort # 0
    <3>1. asked.port # 0
      BY <2>1, <2>2, <2>6
    <3>2. todo' = <<Reply("START", 0)>> \/ (node' = node /\ todo' = <<Reply("START", 1)>>)
      BY <2>5, <2>6 DEF StartSets
    <3> QED BY <2>1, <2>3, <2>4, <3>1, <3>2
  <2>7. CASE node.beaconPort = 0
    <3>1. node'.endpoint /\ todo' = <<Reply("START", 0)>>
      BY <1>3, <2>5, <2>7 DEF StartSets, NodeState
    <3> QED BY <2>3, <3>1
  <2> QED BY <2>6, <2>7
<1>8. Asks("STOP")' => ~node'.beacon
  BY <1>1, <1>3 DEF Asks, Sets, NodeState
<1> QED BY <1>6, <1>7, <1>8 DEF Truthful

\* The node reads a command that was written in order.
LEMMA RecvApiInStep ==
    ASSUME IInv, Pairs, InStep, RecvApi, ~asked.empty
    PROVE  InStep'
<1> DEFINE c == Head(pipe)
<1>1. AppOK /\ pipe \in Seq(Commands) /\ pipe # <<>> /\ pipe' = Tail(pipe) /\ Handled(c)
      /\ NodeOK /\ UNCHANGED <<calling, asked>>
  BY DEF IInv, AppOK, RecvApi, Handled, app
<1>2. /\ Len(pipe) \in Nat \ {0} /\ Len(pipe') = Len(pipe) - 1
      /\ c = pipe[1] /\ c \in Commands
      /\ \A i \in 1 .. Len(pipe) - 1 : pipe'[i] = pipe[i + 1]
  BY <1>1, PipeShrinks
<1>3. \A name : In(name) <=> In(name)' \/ c.name = name
  BY <1>1, InShrinks
<1>4. c.name \in Calls => calling # Null /\ calling = c /\ pipe' = <<>>
  BY HeadCall
<1>5. c.name = "START" => /\ ~node.beacon /\ (node.beaconPort = 0 => node.gossip)
                          /\ ~node.gossip => node.beaconPort = asked.port
  BY StartReads
<1>6. c = Head(pipe)
  OBVIOUS
<1> HIDE DEF c
<1>7. /\ node'.gossip <=> node.gossip \/ c.name \in {"GOSSIP", "SET ENDPOINT"}
      /\ c.name = "SET PORT" => node'.beaconPort = c.arg
      /\ (c.name \in {"GOSSIP", "SET ENDPOINT"} /\ ~node.gossip) => node'.beaconPort = 0
      /\ (c.name \notin {"SET PORT", "GOSSIP", "SET ENDPOINT"} \/
            (c.name # "SET PORT" /\ node.gossip)) => node'.beaconPort = node.beaconPort
      /\ node.endpoint => node'.endpoint
      /\ node'.endpoint => \/ node.endpoint \/ c.name = "SET ENDPOINT"
                           \/ (c.name = "START" /\ node.gossip)
      /\ node.port => node'.port
      /\ node'.beacon => \/ node.beacon /\ c.name # "STOP"
                         \/ c.name = "START" /\ node.beaconPort # 0
  BY <1>1, <1>2, HandlersDo
<1>8. \A name : Asks(name)' <=> Asks(name)
  BY <1>1 DEF Asks
<1>9. \A name : name \in Calls /\ c.name = name => Asks(name) /\ pipe' = <<>>
  BY <1>4 DEF Asks
<1>10. c.name = "SET ENDPOINT" => Asks("SET ENDPOINT") /\ pipe' = <<>>
  BY <1>9 DEF Calls
<1>11. c.name = "START" => Asks("START") /\ pipe' = <<>>
  BY <1>9 DEF Calls
<1>12. pipe' = <<>> => \A name : ~In(name)'
  BY DEF In
<1>13. GossipIsAsked'
  <2>1. In("GOSSIP")' => asked'.gossip
    BY <1>1, <1>3 DEF InStep, GossipIsAsked
  <2>2. node'.gossip => asked'.gossip \/ Asks("SET ENDPOINT")'
    BY <1>1, <1>3, <1>7, <1>8, <1>10 DEF InStep, GossipIsAsked
  <2>3. asked'.gossip => node'.gossip \/ In("GOSSIP")'
    BY <1>1, <1>3, <1>7 DEF InStep, GossipIsAsked
  <2> QED BY <2>1, <2>2, <2>3 DEF GossipIsAsked
<1>14. \A j \in 1 .. Len(pipe') : /\ j + 1 \in 1 .. Len(pipe) /\ pipe'[j] = pipe[j + 1]
                                  /\ \A i \in 1 .. (j + 1) - 1 : i = 1 \/ i - 1 \in 1 .. j - 1
                                  /\ \A i \in 1 .. j - 1 : i + 1 \in 1 .. (j + 1) - 1
                                  /\ 1 \in 1 .. (j + 1) - 1
  BY <1>2
<1>15. UnpublishFollowsGossip'
  <2>1. ASSUME NEW j \in 1 .. Len(pipe'), pipe'[j].name = "GOSSIP UNPUBLISH", ~node'.gossip
        PROVE  \E i \in 1 .. j - 1 : pipe'[i].name = "GOSSIP"
    <3>1. ~node.gossip /\ c.name # "GOSSIP"
      BY <1>7, <2>1
    <3>2. PICK i \in 1 .. (j + 1) - 1 : pipe[i].name = "GOSSIP"
      BY <1>14, <2>1, <3>1 DEF InStep, UnpublishFollowsGossip
    <3>3. i # 1
      BY <1>2, <3>1, <3>2
    <3>4. i - 1 \in 1 .. j - 1 /\ i - 1 \in 1 .. Len(pipe) - 1 /\ (i - 1) + 1 = i
      BY <1>2, <3>3
    <3> QED BY <1>2, <3>2, <3>4
  <2> QED BY <2>1 DEF UnpublishFollowsGossip
<1>16. PortPrecedesGossip'
  <2>1. ASSUME NEW j \in 1 .. Len(pipe'), NEW i \in 1 .. j - 1, pipe'[i].name = "GOSSIP"
        PROVE  pipe'[j].name # "SET PORT"
    <3>1. i \in 1 .. Len(pipe')
      BY <1>2
    <3>2. i + 1 \in 1 .. (j + 1) - 1 /\ j + 1 \in 1 .. Len(pipe)
          /\ pipe[i + 1].name = "GOSSIP" /\ pipe'[j] = pipe[j + 1]
      BY <1>14, <2>1, <3>1
    <3> QED BY <3>2 DEF InStep, PortPrecedesGossip
  <2>2. ASSUME c.name = "GOSSIP" PROVE ~In("SET PORT")'
    <3> SUFFICES ASSUME NEW j \in 1 .. Len(pipe'), pipe'[j].name = "SET PORT" PROVE FALSE
      BY DEF In
    <3>1. j + 1 \in 1 .. Len(pipe) /\ pipe[j + 1].name = "SET PORT"
      BY <1>14
    <3>2. 1 \in 1 .. (j + 1) - 1
      BY <1>14
    <3> QED BY <1>2, <2>2, <3>1, <3>2 DEF InStep, PortPrecedesGossip
  <2>3. node.gossip => c.name # "SET PORT" /\ node.beaconPort = 0 /\ ~In("SET PORT")'
    BY <1>3 DEF InStep, PortPrecedesGossip
  <2>4. node'.gossip => node'.beaconPort = 0
    BY <1>7, <2>3
  <2>5. node'.gossip => ~In("SET PORT")'
    BY <1>7, <1>10, <1>12, <2>2, <2>3
  <2> QED BY <2>1, <2>4, <2>5 DEF PortPrecedesGossip
<1>17. PortFollows'
  <2> DEFINE G == {d \in Commands : d.arg = asked.port}
             right == node.beaconPort = asked.port
             now == node'.beaconPort = asked.port
  <2> SUFFICES ASSUME ~asked.gossip, ~node'.gossip
               PROVE  Follows(pipe', AboutPort, G, now)
    BY <1>1 DEF PortFollows
  <2>1. ~node.gossip /\ c.name \notin {"GOSSIP", "SET ENDPOINT"}
    BY <1>7
  <2>2. Follows(pipe, AboutPort, G, right)
    BY <2>1 DEF InStep, PortFollows
  <2>3. c \in AboutPort /\ c \in G => now
    BY <1>7 DEF AboutPort
  <2>4. c \notin AboutPort /\ right => now
    BY <1>2, <1>7, <2>1 DEF AboutPort
  <2> HIDE DEF G, right, now
  <2> QED BY <1>1, <1>6, <2>2, <2>3, <2>4, FollowsRead
<1>18. EndpointIsThere'
  <2>1. asked'.endpoint \/ In("REQUIRE PEER")' => node'.endpoint
    BY <1>1, <1>3, <1>7 DEF InStep, EndpointIsThere
  <2>2. node'.endpoint /\ ~node'.port => node'.gossip
    BY <1>7 DEF InStep, EndpointIsThere
  <2> QED BY <2>1, <2>2 DEF EndpointIsThere
<1>19. BeaconIsAsked'
  <2> SUFFICES ASSUME node'.beacon
               PROVE  /\ asked'.running \/ (Asks("START")' /\ pipe' = <<>>)
                      /\ ~node'.gossip /\ ~In("GOSSIP")' /\ ~In("SET ENDPOINT")'
    BY DEF BeaconIsAsked
  <2>1. CASE c.name = "START"
    <3>1. node.beaconPort # 0
      BY <1>5, <1>7, <2>1
    <3>2. ~node.gossip
      BY <3>1 DEF InStep, PortPrecedesGossip
    <3> QED BY <1>7, <1>8, <1>11, <1>12, <2>1, <3>2
  <2>2. CASE c.name # "START"
    <3>1. node.beacon
      BY <1>7, <2>2
    <3>2. asked.running
      BY <1>1, <3>1 DEF InStep, BeaconIsAsked
    <3>3. ~node.gossip /\ ~In("GOSSIP") /\ ~In("SET ENDPOINT")
      BY <3>1 DEF InStep, BeaconIsAsked
    <3> QED BY <1>1, <1>3, <1>7, <3>2, <3>3
  <2> QED BY <2>1, <2>2
<1>20. StartIsInOrder'
  BY <1>1, <1>8 DEF InStep, StartIsInOrder
<1>21. ASSUME NEW value, Told(value)' PROVE Truthful(value)'
  BY <1>21, AnswersAreTrue
<1> QED BY <1>13, <1>15, <1>16, <1>17, <1>18, <1>19, <1>20, <1>21 DEF InStep

\* The other steps do not change what is in order; a beacon that starts finds no
\* endpoint, and makes one.
LEMMA OthersInStep ==
    ASSUME IInv, Pairs, InStep, [Next]_vars, failed = Null,
           TakeEvent \/ GetMsg \/ Flush \/ NodeStep \/ WorldStep \/ UNCHANGED vars
    PROVE  failed' = Null /\ InStep'
<1>1. ASSUME StartBeacon
      PROVE  failed' = Null /\ UNCHANGED <<pipe, calling, asked>>
             /\ node' = [node EXCEPT !.port = TRUE, !.endpoint = TRUE,
                                     !.polled = @ \cup {"beacon", "inbox"}]
  <2>1. node.beacon /\ ~node.port
    BY <1>1, StartBeaconNews
  <2>2. ~node.endpoint
    BY <2>1 DEF InStep, BeaconIsAsked, EndpointIsThere
  <2>3. UNCHANGED <<pipe, calling, asked>>
    BY <1>1 DEF StartBeacon, app, pipes
  <2> QED BY <1>1, <2>2, <2>3, StartBeaconNews
<1>2. UNCHANGED <<pipe, calling, asked>> /\ (StartBeacon \/ UNCHANGED <<node, failed>>)
  <2>1. CASE TakeEvent \/ GetMsg \/ Flush
    BY <2>1 DEF TakeEvent, GetMsg, Flush, app, actor, pipes
  <2>2. CASE NodeStep
    BY <2>2, NodeStepNews DEF app, pipes
  <2>3. CASE WorldStep
    BY <2>3 DEF WorldStep, Say, AnswerPing, Die, Tick, app, actor, pipes
  <2>4. CASE UNCHANGED vars
    BY <2>4 DEF vars, app, actor, pipes
  <2> QED BY <2>1, <2>2, <2>3, <2>4
<1>3. /\ failed' = Null /\ UNCHANGED <<pipe, calling, asked>>
      /\ node'.gossip = node.gossip /\ node'.beacon = node.beacon
      /\ node'.beaconPort = node.beaconPort
      /\ node.endpoint => node'.endpoint
      /\ node.port => node'.port
      /\ node'.endpoint => node.endpoint \/ node'.port
  <2>1. node \in NodeState
    BY DEF IInv, NodeOK
  <2>2. CASE StartBeacon
    BY <1>1, <2>1, <2>2 DEF NodeState
  <2>3. CASE UNCHANGED <<node, failed>>
    BY <1>2, <2>3
  <2> QED BY <1>2, <2>2, <2>3
<1>4. \A name : (In(name)' <=> In(name)) /\ (Asks(name)' <=> Asks(name))
  BY <1>3 DEF In, Asks
<1>5. GossipIsAsked'
  BY <1>3, <1>4 DEF InStep, GossipIsAsked
<1>6. UnpublishFollowsGossip' /\ PortPrecedesGossip'
  BY <1>3, <1>4 DEF InStep, UnpublishFollowsGossip, PortPrecedesGossip
<1>7. PortFollows'
  BY <1>3 DEF InStep, PortFollows
<1>8. EndpointIsThere'
  BY <1>3, <1>4 DEF InStep, EndpointIsThere
<1>9. BeaconIsAsked' /\ StartIsInOrder'
  BY <1>3, <1>4 DEF InStep, BeaconIsAsked, StartIsInOrder
<1>10. ASSUME NEW value, Told(value)' PROVE Truthful(value)'
  <2>1. ~RecvApi
    <3>1. ASSUME RecvApi PROVE FALSE
      <4>1. pipe # <<>> /\ pipe' = Tail(pipe)
        BY <3>1 DEF RecvApi
      <4>2. Len(pipe') = Len(pipe) - 1 /\ Len(pipe) \in Nat
        BY <4>1, PipeShrinks DEF IInv
      <4> QED BY <1>3, <4>2
    <3> QED BY <3>1
  <2>2. Told(value)
    BY <1>10, <2>1, ToldSteps DEF Answers
  <2>3. Truthful(value)
    BY <2>2 DEF InStep
  <2> QED BY <1>3, <1>4, <2>3 DEF Truthful
<1> QED BY <1>3, <1>5, <1>6, <1>7, <1>8, <1>9, <1>10 DEF InStep

\* The order once broken stays broken.
LEMMA CarefulStays ==
    ASSUME IInv, Pairs, [Next]_vars, ~asked'.empty, asked'.careful
    PROVE  asked.careful
<1>1. asked \in Asked
  BY DEF IInv, AppOK
<1>2. CASE Writes
  <2>1. PICK c \in Commands : asked' = Notes(c)
    BY <1>2, WritesAppend
  <2> QED BY <1>1, <2>1, NotesOrder
<1>3. CASE Return
  BY <1>1, <1>3 DEF Return, Asked
<1>4. CASE TakeEvent \/ GetMsg \/ Flush \/ RecvApi \/ WorldStep \/ UNCHANGED vars
  BY <1>4 DEF TakeEvent, GetMsg, Flush, RecvApi, WorldStep, Say, AnswerPing, Die, Tick,
              vars, app
<1>5. CASE NodeStep
  BY <1>5, NodeStepNews DEF app
<1> QED BY <1>2, <1>3, <1>4, <1>5, NextShape

LEMMA InitOrderly == Init => Orderly
<1> SUFFICES ASSUME Init PROVE InStep /\ failed = Null
  BY DEF Orderly
<1>1. pipe = <<>> /\ calling = Null /\ failed = Null
      /\ ~node.gossip /\ ~node.beacon /\ ~node.endpoint /\ ~asked.gossip /\ ~asked.endpoint
      /\ node.beaconPort = asked.port
  BY DEF Init
<1>2. \A name : ~In(name) /\ ~Asks(name)
  BY <1>1 DEF In, Asks
<1>3. \A value : ~Told(value)
  BY <1>1 DEF Told, Worked, Replied
<1>4. UnpublishFollowsGossip /\ PortPrecedesGossip
  <2>1. \A j \in 1 .. Len(pipe) : FALSE
    BY <1>1
  <2> QED BY <1>1, <2>1 DEF UnpublishFollowsGossip, PortPrecedesGossip
<1>5. PortFollows
  BY <1>1, FollowsNothing DEF PortFollows
<1> QED BY <1>1, <1>2, <1>3, <1>4, <1>5
        DEF InStep, GossipIsAsked, EndpointIsThere, BeaconIsAsked, StartIsInOrder

LEMMA NextOrderly == IInv /\ Pairs /\ Orderly /\ [Next]_vars => Orderly'
<1> SUFFICES ASSUME IInv, Pairs, Orderly, [Next]_vars, asked'.careful, ~asked'.empty
             PROVE  failed' = "port" \/ (failed' = Null /\ InStep')
  BY DEF Orderly
<1>1. asked.careful /\ ~asked.empty
  BY CarefulStays, EmptyStays
<1>2. CASE failed = "port"
  <2>1. failed # Null
    BY <1>2, NullAssumption
  <2>2. ~Writes /\ ~RecvApi /\ ~NodeStep
    BY <2>1, WritesAppend, NodeStepNews DEF RecvApi, Running
  <2>3. failed' = failed
    BY <2>2, NextShape
       DEF Return, TakeEvent, GetMsg, Flush, WorldStep, Say, AnswerPing, Die, Tick, actor, vars
  <2> QED BY <1>2, <2>3
<1>3. CASE failed = Null /\ InStep
  <2>1. CASE Writes
    BY <1>3, <2>1, WritesInStep, WritesAppend
  <2>2. CASE Return
    BY <1>3, <2>2, ReturnInStep DEF Return, actor
  <2>3. CASE RecvApi
    BY <1>1, <1>3, <2>3, HandlersInOrder, RecvApiInStep
  <2>4. CASE TakeEvent \/ GetMsg \/ Flush \/ NodeStep \/ WorldStep \/ UNCHANGED vars
    BY <1>3, <2>4, OthersInStep
  <2> QED BY <2>1, <2>2, <2>3, <2>4, NextShape
<1> QED BY <1>1, <1>2, <1>3 DEF Orderly

\* An application that keeps to the documented order of the calls (the port, or
\* the endpoint and gossip, then one start at a time; peers required once there
\* is an endpoint, nothing unpublished without gossip) never meets an assertion
\* of zyre_node.c: not of zyre_node_start, zyre_node_recv_api nor of the start of
\* the beacon, whatever it has posted ahead of the node and however often it
\* stops and starts again.  What is left is the want of ports.
THEOREM OrderPreventsAborts == Spec => []CarefulNeverAborts
<1>1. Spec => []Pairs
  BY Invariant, InitPairs, NextPairs, PTL DEF Spec
<1>2. Spec => []Orderly
  BY <1>1, Invariant, InitOrderly, NextOrderly, PTL DEF Spec
<1>3. Orderly => CarefulNeverAborts
  BY DEF Orderly, CarefulNeverAborts
<1> QED BY <1>2, <1>3, PTL

-----------------------------------------------------------------------------
(***************************************************************************)
(* What an application makes of a sequence of what is written to it, one   *)
(* by one: views that lead from one to the next.                           *)
(***************************************************************************)
IsBuilt(h, v, c) ==
    h = [k \in 0 .. Len(c) |-> IF k = 0 THEN v ELSE Learns(h[k - 1], c[k])]

\* Who reads c with the view v ends with the view w.
LeadsTo(v, c, w) == \E h : IsBuilt(h, v, c) /\ h[Len(c)] = w

LEMMA BuiltSteps ==
    ASSUME NEW h, NEW v, NEW c, Len(c) \in Nat
    PROVE  IsBuilt(h, v, c) <=>
                /\ h = [k \in 0 .. Len(c) |-> h[k]]
                /\ h[0] = v
                /\ \A k \in 1 .. Len(c) : h[k] = Learns(h[k - 1], c[k])
<1>1. ASSUME IsBuilt(h, v, c)
      PROVE  /\ h = [k \in 0 .. Len(c) |-> h[k]]
             /\ \A k \in 0 .. Len(c) : h[k] = IF k = 0 THEN v ELSE Learns(h[k - 1], c[k])
  BY <1>1 DEF IsBuilt
<1>2. ASSUME IsBuilt(h, v, c)
      PROVE  h[0] = v /\ \A k \in 1 .. Len(c) : h[k] = Learns(h[k - 1], c[k])
  <2>1. 0 \in 0 .. Len(c) /\ \A k \in 1 .. Len(c) : k \in 0 .. Len(c) /\ k # 0
    OBVIOUS
  <2> QED BY <1>1, <1>2, <2>1
<1>3. ASSUME h = [k \in 0 .. Len(c) |-> h[k]], h[0] = v,
             \A k \in 1 .. Len(c) : h[k] = Learns(h[k - 1], c[k])
      PROVE  IsBuilt(h, v, c)
  <2>1. \A k \in 0 .. Len(c) : k # 0 => k \in 1 .. Len(c)
    OBVIOUS
  <2>2. \A k \in 0 .. Len(c) : h[k] = IF k = 0 THEN v ELSE Learns(h[k - 1], c[k])
    BY <1>3, <2>1
  <2> QED BY <1>3, <2>2 DEF IsBuilt
<1> QED BY <1>1, <1>2, <1>3

LEMMA BuiltOnce ==
    ASSUME NEW c, Len(c) \in Nat, NEW v, NEW h, NEW g, IsBuilt(h, v, c), IsBuilt(g, v, c)
    PROVE  h[Len(c)] = g[Len(c)]
<1> DEFINE S == {k \in Nat : h[k] = g[k]}
<1>1. /\ h[0] = v /\ \A k \in 1 .. Len(c) : h[k] = Learns(h[k - 1], c[k])
      /\ g[0] = v /\ \A k \in 1 .. Len(c) : g[k] = Learns(g[k - 1], c[k])
  BY BuiltSteps
<1>2. 0 \in S
  BY <1>1
<1>3. ASSUME NEW k \in 0 .. Len(c) - 1, k \in S PROVE k + 1 \in S
  <2>1. k + 1 \in 1 .. Len(c) /\ (k + 1) - 1 = k /\ k + 1 \in Nat
    OBVIOUS
  <2> QED BY <1>1, <1>3, <2>1
<1> HIDE DEF S
<1>4. \A k \in 0 .. Len(c) : k \in S
  <2>1. 0 \in Nat /\ \A k \in 0 .. Len(c) - 1 : k \in S => k + 1 \in S
    BY <1>3
  <2> QED BY <1>2, <2>1, Climb
<1>5. Len(c) \in S
  BY <1>4
<1> QED BY <1>5 DEF S

LEMMA LeadsNowhere ==
    ASSUME NEW v
    PROVE  LeadsTo(v, <<>>, v)
<1> DEFINE h == [k \in 0 .. 0 |-> v]
<1>1. Len(<<>>) = 0 /\ h = [k \in 0 .. 0 |-> h[k]] /\ h[0] = v
  OBVIOUS
<1> HIDE DEF h
<1>2. IsBuilt(h, v, <<>>)
  BY <1>1, BuiltSteps
<1> QED BY <1>1, <1>2 DEF LeadsTo

LEMMA LeadsOn ==
    ASSUME NEW v, NEW o
    PROVE  LeadsTo(v, <<o>>, Learns(v, o))
<1> DEFINE h == [k \in 0 .. 1 |-> IF k = 0 THEN v ELSE Learns(v, o)]
<1>1. /\ Len(<<o>>) = 1 /\ <<o>>[1] = o
      /\ h = [k \in 0 .. 1 |-> h[k]] /\ h[0] = v /\ h[1] = Learns(v, o)
  OBVIOUS
<1> HIDE DEF h
<1>2. \A k \in 1 .. 1 : h[k] = Learns(h[k - 1], <<o>>[k])
  <2>1. \A k \in 1 .. 1 : k = 1 /\ k - 1 = 0
    OBVIOUS
  <2> QED BY <1>1, <2>1
<1>3. IsBuilt(h, v, <<o>>)
  BY <1>1, <1>2, BuiltSteps
<1> QED BY <1>1, <1>3 DEF LeadsTo

LEMMA LeadsThrough ==
    ASSUME NEW S, NEW c \in Seq(S), NEW d \in Seq(S), NEW v, NEW w, NEW x,
           LeadsTo(v, c, w), LeadsTo(w, d, x)
    PROVE  LeadsTo(v, c \o d, x)
<1>1. PICK h : IsBuilt(h, v, c) /\ h[Len(c)] = w
  BY DEF LeadsTo
<1>2. PICK g : IsBuilt(g, w, d) /\ g[Len(d)] = x
  BY DEF LeadsTo
<1> DEFINE m == Len(c)
           n == Len(d)
           f == [k \in 0 .. m + n |-> IF k <= m THEN h[k] ELSE g[k - m]]
<1>3. m \in Nat /\ n \in Nat /\ Len(c \o d) = m + n
  OBVIOUS
<1>4. /\ h[0] = v /\ \A k \in 1 .. m : h[k] = Learns(h[k - 1], c[k])
      /\ g[0] = w /\ \A k \in 1 .. n : g[k] = Learns(g[k - 1], d[k])
  BY <1>1, <1>2, <1>3, BuiltSteps
<1>5. /\ \A k \in 1 .. m : (c \o d)[k] = c[k]
      /\ \A k \in m + 1 .. m + n : (c \o d)[k] = d[k - m]
  OBVIOUS
<1> DEFINE e == c \o d
<1> HIDE DEF m, n, e
<1>6. f[0] = v /\ f[m] = w /\ f[m + n] = x /\ f = [k \in 0 .. m + n |-> f[k]]
  <2>1. CASE n = 0
    BY <1>1, <1>2, <1>3, <1>4, <2>1 DEF m, n
  <2>2. CASE n # 0
    BY <1>1, <1>2, <1>3, <1>4, <2>2 DEF m, n
  <2> QED BY <2>1, <2>2
<1>7. ASSUME NEW k \in 1 .. m + n PROVE f[k] = Learns(f[k - 1], e[k])
  <2>1. CASE k <= m
    <3>1. k \in 1 .. m /\ f[k] = h[k] /\ f[k - 1] = h[k - 1]
      BY <1>3, <2>1
    <3> QED BY <1>4, <1>5, <3>1 DEF e
  <2>2. CASE k > m
    <3>1. k \in m + 1 .. m + n /\ k - m \in 1 .. n /\ f[k] = g[k - m]
      BY <1>3, <2>2
    <3>2. f[k - 1] = g[(k - m) - 1]
      <4>1. CASE k = m + 1
        <5>1. k - 1 = m /\ (k - m) - 1 = 0
          BY <1>3, <4>1
        <5> QED BY <1>4, <1>6, <5>1
      <4>2. CASE k # m + 1
        <5>1. k - 1 \in 0 .. m + n /\ ~(k - 1 <= m) /\ (k - 1) - m = (k - m) - 1
          BY <1>3, <2>2, <4>2
        <5> QED BY <5>1
      <4> QED BY <4>1, <4>2
    <3> QED BY <1>4, <1>5, <3>1, <3>2 DEF e
  <2> QED BY <1>3, <2>1, <2>2
<1> HIDE DEF f
<1>8. Len(e) = m + n /\ m + n \in Nat
  BY <1>3 DEF e
<1>9. IsBuilt(f, v, e)
  BY <1>6, <1>7, <1>8, BuiltSteps
<1> QED BY <1>6, <1>8, <1>9 DEF LeadsTo, e

\* The first is read.
LEMMA LeadsPast ==
    ASSUME NEW S, NEW c \in Seq(S), c # <<>>, NEW v, NEW w, LeadsTo(v, c, w)
    PROVE  LeadsTo(Learns(v, c[1]), Tail(c), w)
<1>1. PICK h : IsBuilt(h, v, c) /\ h[Len(c)] = w
  BY DEF LeadsTo
<1> DEFINE n == Len(c)
           d == Tail(c)
           f == [k \in 0 .. n - 1 |-> h[k + 1]]
<1>2. n \in Nat \ {0} /\ Len(d) = n - 1 /\ \A k \in 1 .. n - 1 : d[k] = c[k + 1]
  OBVIOUS
<1>3. h[0] = v /\ \A k \in 1 .. n : h[k] = Learns(h[k - 1], c[k])
  BY <1>1, <1>2, BuiltSteps
<1> HIDE DEF n, d
<1>4. f[0] = Learns(v, c[1])
  <2>1. 1 \in 1 .. n /\ 1 - 1 = 0 /\ 0 + 1 = 1 /\ 0 \in 0 .. n - 1
    BY <1>2
  <2> QED BY <1>3, <2>1
<1>5. ASSUME NEW k \in 1 .. n - 1 PROVE f[k] = Learns(f[k - 1], d[k])
  <2>1. /\ k \in 0 .. n - 1 /\ k - 1 \in 0 .. n - 1 /\ k + 1 \in 1 .. n
        /\ (k + 1) - 1 = k /\ (k - 1) + 1 = k
    BY <1>2
  <2> QED BY <1>2, <1>3, <2>1
<1>6. f[n - 1] = w /\ f = [k \in 0 .. n - 1 |-> f[k]]
  BY <1>1, <1>2 DEF n
<1> HIDE DEF f
<1>7. Len(d) \in Nat /\ f = [k \in 0 .. Len(d) |-> f[k]]
      /\ \A k \in 1 .. Len(d) : f[k] = Learns(f[k - 1], d[k])
  <2>1. Len(d) = n - 1 /\ Len(d) \in Nat
    BY <1>2
  <2>2. f = [k \in 0 .. Len(d) |-> f[k]]
    BY <1>6, <2>1
  <2>3. \A k \in 1 .. n - 1 : f[k] = Learns(f[k - 1], d[k])
    BY <1>5
  <2> QED BY <2>1, <2>2, <2>3
<1>8. IsBuilt(f, Learns(v, c[1]), d)
  <2> DEFINE a == Learns(v, c[1])
  <2>1. f[0] = a
    BY <1>4
  <2> HIDE DEF a
  <2>2. IsBuilt(f, a, d)
    BY <1>7, <2>1, BuiltSteps
  <2> QED BY <2>2 DEF a
<1> QED BY <1>2, <1>6, <1>8 DEF LeadsTo, d

\* The last is not there any more, and says nothing of the peers.
LEMMA LeadsShort ==
    ASSUME NEW S, NEW c \in Seq(S), NEW o, IsReply(o), NEW v, NEW w,
           LeadsTo(v, c \o <<o>>, w)
    PROVE  LeadsTo(v, c, w)
<1> DEFINE n == Len(c)
           e == c \o <<o>>
<1>1. PICK h : IsBuilt(h, v, e) /\ h[Len(e)] = w
  BY DEF LeadsTo
<1> DEFINE f == [k \in 0 .. n |-> h[k]]
<1>2. /\ n \in Nat /\ Len(e) = n + 1 /\ e[n + 1] = o /\ n + 1 \in Nat
      /\ \A k \in 1 .. n : e[k] = c[k]
  OBVIOUS
<1> HIDE DEF n, e
<1>3. h[0] = v /\ \A k \in 1 .. n + 1 : h[k] = Learns(h[k - 1], e[k])
  <2>1. Len(e) \in Nat
    BY <1>2
  <2> QED BY <1>1, <1>2, <2>1, BuiltSteps
<1>4. f[n] = w
  <2>1. n + 1 \in 1 .. n + 1 /\ (n + 1) - 1 = n /\ n \in 0 .. n
    BY <1>2
  <2>2. h[n + 1] = Learns(h[n], o)
    BY <1>2, <1>3, <2>1
  <2> QED BY <1>1, <1>2, <2>1, <2>2 DEF Learns
<1>5. f[0] = v /\ f = [k \in 0 .. n |-> f[k]]
  BY <1>2, <1>3
<1>6. ASSUME NEW k \in 1 .. n PROVE f[k] = Learns(f[k - 1], c[k])
  <2>1. k \in 0 .. n /\ k - 1 \in 0 .. n /\ k \in 1 .. n + 1
    BY <1>2
  <2> QED BY <1>2, <1>3, <2>1
<1> HIDE DEF f
<1>7. IsBuilt(f, v, c)
  BY <1>2, <1>5, <1>6, BuiltSteps DEF n
<1> QED BY <1>4, <1>7 DEF LeadsTo, n

-----------------------------------------------------------------------------
(***************************************************************************)
(* What each event makes of a view.                                        *)
(***************************************************************************)
View(at, headers, groups) == [at |-> at, headers |-> headers, groups |-> groups]

\* A view of the peers in R, with these groups.
ViewOf(R, groups) ==
    View([p \in Peer |-> IF p \in R THEN <<"at", p>> ELSE Null],
         [p \in Peer |-> IF p \in R THEN <<"headers", p>> ELSE Null],
         groups)

Grouped(m) == [g \in Group |-> IF g \in DOMAIN m THEN m[g] ELSE {}]

\* The peers that were announced and are still in the table.
Announced(ps) == {p \in Peer : ps[p].met}

\* What the node's tables say.
Shown == ViewOf(Announced(peers), Grouped(members))

\* Who is ready was announced, who was announced is in the table, and the groups
\* hold nobody else.
Fits(ps, groups) ==
    /\ \A p \in Peer : /\ ps[p].state = "ready" => ps[p].met
                       /\ ps[p].met => ps[p].state # "unknown"
    /\ \A g \in Group : groups[g] \subseteq Announced(ps)

Fitting == Fits(peers, Grouped(members))

\* A view with one of its parts replaced.
LEMMA ViewChanges ==
    ASSUME NEW v, NEW at, NEW headers, NEW groups, v = View(at, headers, groups), NEW x
    PROVE  /\ v.at = at /\ v.headers = headers /\ v.groups = groups
           /\ [v EXCEPT !.at = x] = View(x, headers, groups)
           /\ [v EXCEPT !.headers = x] = View(at, x, groups)
           /\ [v EXCEPT !.groups = x] = View(at, headers, x)
<1>1. v.at = at /\ v.headers = headers /\ v.groups = groups
  BY DEF View
<1>2. [v EXCEPT !.at = x] = View(x, headers, groups)
  BY DEF View
<1>3. [v EXCEPT !.headers = x] = View(at, x, groups)
  BY DEF View
<1>4. [v EXCEPT !.groups = x] = View(at, headers, x)
  BY DEF View
<1> QED BY <1>1, <1>2, <1>3, <1>4

LEMMA EnterTakenApart ==
    ASSUME NEW p
    PROVE  /\ EventNew(Enter(p).frames).type = "ENTER"
           /\ EventNew(Enter(p).frames).peer = p
           /\ EventNew(Enter(p).frames).headers = <<"headers", p>>
           /\ EventNew(Enter(p).frames).addr = <<"at", p>>
<1> DEFINE f == Enter(p).frames
<1>1. /\ f[1] = "ENTER" /\ f[2] = p /\ f[4] = <<"headers", p>> /\ f[5] = <<"at", p>>
      /\ Len(f) = 5
  BY DEF Enter, Event
<1> HIDE DEF f
<1>2. Frame(f, 4) = <<"headers", p>> /\ Frame(f, 5) = <<"at", p>>
  BY <1>1 DEF Frame
<1> DEFINE e == [Blank EXCEPT !.type = f[1], !.peer = f[2]]
<1>3. e = [type |-> "ENTER", peer |-> p, headers |-> Null, addr |-> Null,
           group |-> Null, msg |-> Null]
  <2>1. [Blank EXCEPT !.type = "ENTER"] =
            [type |-> "ENTER", peer |-> Null, headers |-> Null, addr |-> Null,
             group |-> Null, msg |-> Null]
    BY DEF Blank
  <2>2. e = [[Blank EXCEPT !.type = "ENTER"] EXCEPT !.peer = p]
    BY <1>1
  <2> HIDE DEF e
  <2> QED BY <2>1, <2>2
<1>4. EventNew(f) = [e EXCEPT !.headers = Frame(f, 4), !.addr = Frame(f, 5)]
  BY <1>3 DEF EventNew
<1> HIDE DEF e
<1> QED BY <1>2, <1>3, <1>4 DEF f

LEMMA ExitTakenApart ==
    ASSUME NEW p
    PROVE  EventNew(Exit(p).frames).type = "EXIT" /\ EventNew(Exit(p).frames).peer = p
BY DEF Exit, Event, EventNew, Blank, Frame

LEMMA MembersTakenApart ==
    ASSUME NEW type \in {"JOIN", "LEAVE", "LEADER"}, NEW p, NEW g
    PROVE  /\ EventNew(Member(type, p, g).frames).type = type
           /\ EventNew(Member(type, p, g).frames).peer = p
           /\ EventNew(Member(type, p, g).frames).group = g
BY DEF Member, Event, EventNew, Blank, Frame

LEMMA LearnsEnter ==
    ASSUME NEW R, NEW G, NEW p \in Peer
    PROVE  Learns(ViewOf(R, G), Enter(p)) = ViewOf(R \cup {p}, G)
<1> DEFINE e == EventNew(Enter(p).frames)
           v == ViewOf(R, G)
<1>1. /\ e.type = "ENTER" /\ e.peer = p
      /\ e.headers = <<"headers", p>> /\ e.addr = <<"at", p>>
  BY EnterTakenApart
<1>2. ~IsReply(Enter(p))
  BY DEF IsReply, Enter, Event
<1> HIDE DEF e
<1>3. Note(v, e) = [v EXCEPT !.at[p] = <<"at", p>>, !.headers[p] = <<"headers", p>>]
  BY <1>1 DEF Note
<1>4. /\ [v.at EXCEPT ![p] = <<"at", p>>]
            = [q \in Peer |-> IF q \in R \cup {p} THEN <<"at", q>> ELSE Null]
      /\ [v.headers EXCEPT ![p] = <<"headers", p>>]
            = [q \in Peer |-> IF q \in R \cup {p} THEN <<"headers", q>> ELSE Null]
  BY DEF ViewOf, View
<1>5. [v EXCEPT !.at[p] = <<"at", p>>, !.headers[p] = <<"headers", p>>]
        = View([v.at EXCEPT ![p] = <<"at", p>>], [v.headers EXCEPT ![p] = <<"headers", p>>], G)
  <2> DEFINE A == [v.at EXCEPT ![p] = <<"at", p>>]
             H == [v.headers EXCEPT ![p] = <<"headers", p>>]
             u == [v EXCEPT !.at = A]
  <2>1. v = View(v.at, v.headers, G)
    BY DEF ViewOf, View
  <2> SUFFICES [u EXCEPT !.headers = [u.headers EXCEPT ![p] = <<"headers", p>>]]
                    = View(A, H, G)
    OBVIOUS
  <2>2. u = View(A, v.headers, G)
    <3> HIDE DEF A, v
    <3> QED BY <2>1, ViewChanges
  <2>3. u.headers = v.headers
    <3> HIDE DEF u, A, v
    <3> QED BY <2>2, ViewChanges
  <2>4. [u EXCEPT !.headers = H] = View(A, H, G)
    <3> HIDE DEF u, A, v, H
    <3> QED BY <2>2, ViewChanges
  <2> HIDE DEF u, v
  <2> QED BY <2>3, <2>4
<1> QED BY <1>2, <1>3, <1>4, <1>5 DEF Learns, e, ViewOf

LEMMA LearnsExit ==
    ASSUME NEW R, NEW G, NEW p \in Peer
    PROVE  Learns(ViewOf(R, G), Exit(p)) = ViewOf(R \ {p}, [g \in Group |-> G[g] \ {p}])
<1> DEFINE e == EventNew(Exit(p).frames)
           v == ViewOf(R, G)
<1>1. e.type = "EXIT" /\ e.peer = p
  BY ExitTakenApart
<1>2. ~IsReply(Exit(p))
  BY DEF IsReply, Exit, Event
<1> HIDE DEF e
<1>3. Note(v, e) = View([v.at EXCEPT ![p] = Null], [v.headers EXCEPT ![p] = Null],
                        [g \in Group |-> v.groups[g] \ {p}])
  BY <1>1 DEF Note, View
<1>4. /\ [v.at EXCEPT ![p] = Null]
            = [q \in Peer |-> IF q \in R \ {p} THEN <<"at", q>> ELSE Null]
      /\ [v.headers EXCEPT ![p] = Null]
            = [q \in Peer |-> IF q \in R \ {p} THEN <<"headers", q>> ELSE Null]
      /\ v.groups = G
  BY DEF ViewOf, View
<1> QED BY <1>2, <1>3, <1>4 DEF Learns, e, ViewOf

\* G with the set S for the group g.
With(G, g, S) == [G EXCEPT ![g] = S]

LEMMA MembersAreEvents ==
    ASSUME NEW type \in {"JOIN", "LEAVE", "LEADER"}, NEW p, NEW g
    PROVE  ~IsReply(Member(type, p, g))
BY DEF IsReply, Member, Event

LEMMA GroupReplaced ==
    ASSUME NEW R, NEW G, NEW g, NEW S
    PROVE  [ViewOf(R, G) EXCEPT !.groups[g] = S] = ViewOf(R, With(G, g, S))
           /\ ViewOf(R, G).groups = G
<1> DEFINE at == [q \in Peer |-> IF q \in R THEN <<"at", q>> ELSE Null]
           headers == [q \in Peer |-> IF q \in R THEN <<"headers", q>> ELSE Null]
           v == ViewOf(R, G)
<1>1. v = View(at, headers, G) /\ \A H : ViewOf(R, H) = View(at, headers, H)
  BY DEF ViewOf
<1> HIDE DEF v, at, headers
<1>2. v.groups = G /\ \A H : [v EXCEPT !.groups = H] = ViewOf(R, H)
  BY <1>1, ViewChanges
<1> QED BY <1>2 DEF With, v

LEMMA LearnsJoin ==
    ASSUME NEW R, NEW G, NEW p \in Peer, NEW g \in Group
    PROVE  Learns(ViewOf(R, G), Member("JOIN", p, g)) = ViewOf(R, With(G, g, G[g] \cup {p}))
<1> DEFINE v == ViewOf(R, G)
           o == Member("JOIN", p, g)
<1>1. /\ ~IsReply(o)
      /\ EventNew(o.frames).type = "JOIN"
      /\ EventNew(o.frames).peer = p /\ EventNew(o.frames).group = g
  BY MembersTakenApart, MembersAreEvents
<1> HIDE DEF o
<1>2. Learns(v, o) = [v EXCEPT !.groups[g] = v.groups[g] \cup {p}]
  <2> HIDE DEF v
  <2> QED BY <1>1 DEF Learns, Note
<1>3. v.groups = G /\ \A S : [v EXCEPT !.groups[g] = S] = ViewOf(R, With(G, g, S))
  BY GroupReplaced
<1> HIDE DEF v
<1> QED BY <1>2, <1>3 DEF o, v

LEMMA LearnsLeave ==
    ASSUME NEW R, NEW G, NEW p \in Peer, NEW g \in Group
    PROVE  Learns(ViewOf(R, G), Member("LEAVE", p, g)) = ViewOf(R, With(G, g, G[g] \ {p}))
<1> DEFINE v == ViewOf(R, G)
           o == Member("LEAVE", p, g)
<1>1. /\ ~IsReply(o)
      /\ EventNew(o.frames).type = "LEAVE"
      /\ EventNew(o.frames).peer = p /\ EventNew(o.frames).group = g
  BY MembersTakenApart, MembersAreEvents
<1> HIDE DEF o
<1>2. Learns(v, o) = [v EXCEPT !.groups[g] = v.groups[g] \ {p}]
  <2> HIDE DEF v
  <2> QED BY <1>1 DEF Learns, Note
<1>3. v.groups = G /\ \A S : [v EXCEPT !.groups[g] = S] = ViewOf(R, With(G, g, S))
  BY GroupReplaced
<1> HIDE DEF v
<1> QED BY <1>2, <1>3 DEF o, v

LEMMA LearnsLeader ==
    ASSUME NEW v, NEW p \in Peer, NEW g \in Group
    PROVE  Learns(v, Member("LEADER", p, g)) = v
BY MembersTakenApart, MembersAreEvents DEF Learns, Note

\* Events that say nothing of who is there, and replies.
Other ==
    {Quiet(type, p) : type \in {"EVASIVE", "SILENT"}, p \in Peer}
    \cup {Event(<<"WHISPER", p, <<"name", p>>, "content">>) : p \in Peer}
    \cup {Event(<<"SHOUT", p, <<"name", p>>, g, "content">>) : p \in Peer, g \in Group}
    \cup {Stopped(n) : n \in Name}

LEMMA LearnsNothing ==
    ASSUME NEW v, NEW o, o \in Other \/ IsReply(o)
    PROVE  Learns(v, o) = v
<1>1. ASSUME EventNew(o.frames).type \notin {"ENTER", "EXIT", "JOIN", "LEAVE"}
      PROVE  Learns(v, o) = v
  BY <1>1 DEF Learns, Note
<1>2. ASSUME NEW p, NEW type \in {"EVASIVE", "SILENT"}, o = Quiet(type, p)
      PROVE  Learns(v, o) = v
  <2>1. EventNew(o.frames).type = type
    BY <1>2 DEF Quiet, Event, EventNew, Blank
  <2> QED BY <1>1, <2>1
<1>3. ASSUME NEW n, o = Stopped(n) PROVE Learns(v, o) = v
  <2>1. EventNew(o.frames).type = "STOP"
    BY <1>3 DEF Stopped, Event, EventNew, Blank
  <2> QED BY <1>1, <2>1
<1>4. ASSUME NEW p, o = Event(<<"WHISPER", p, <<"name", p>>, "content">>)
      PROVE  Learns(v, o) = v
  <2>1. EventNew(o.frames).type = "WHISPER"
    BY <1>4 DEF Event, EventNew, Blank
  <2> QED BY <1>1, <2>1
<1>5. ASSUME NEW p, NEW g, o = Event(<<"SHOUT", p, <<"name", p>>, g, "content">>)
      PROVE  Learns(v, o) = v
  <2>1. EventNew(o.frames).type = "SHOUT"
    BY <1>5 DEF Event, EventNew, Blank
  <2> QED BY <1>1, <2>1
<1>6. CASE IsReply(o)
  BY <1>6 DEF Learns
<1>7. CASE o \in Other
  <2> DEFINE Q == {Quiet(type, p) : type \in {"EVASIVE", "SILENT"}, p \in Peer}
             W == {Event(<<"WHISPER", p, <<"name", p>>, "content">>) : p \in Peer}
             Shouted(p, g) == Event(<<"SHOUT", p, <<"name", p>>, g, "content">>)
             T == {Shouted(p, g) : p \in Peer, g \in Group}
             E == {Stopped(n) : n \in Name}
  <2>1. o \in Q \cup W \cup T \cup E
    BY <1>7 DEF Other
  <2>2. CASE o \in Q
    BY <1>2, <2>2
  <2>3. CASE o \in W
    BY <1>4, <2>3
  <2>4. CASE o \in T
    <3>1. \A p, g : o = Shouted(p, g) => Learns(v, o) = v
      BY <1>5
    <3> HIDE DEF Shouted
    <3> QED BY <2>4, <3>1
  <2>5. CASE o \in E
    BY <1>3, <2>5
  <2> HIDE DEF Q, W, T, E
  <2> QED BY <2>1, <2>2, <2>3, <2>4, <2>5
<1> QED BY <1>6, <1>7

-----------------------------------------------------------------------------
(***************************************************************************)
(* What each change of the tables makes of what they say.                  *)
(***************************************************************************)
LEMMA EntrySet ==
    ASSUME NEW table \in [Peer -> PeerState], NEW G, Fits(table, G), NEW p \in Peer,
           NEW x \in PeerState, x.state = "ready" => x.met, x.met => x.state # "unknown"
    PROVE  LET next == [table EXCEPT ![p] = x]
               all == IF x.met THEN Announced(table) \cup {p} ELSE Announced(table) \ {p}
           IN  /\ next \in [Peer -> PeerState]
               /\ Announced(next) = all
               /\ \A H : (\A g \in Group : H[g] \subseteq all) => Fits(next, H)
<1> DEFINE next == [table EXCEPT ![p] = x]
           all == IF x.met THEN Announced(table) \cup {p} ELSE Announced(table) \ {p}
<1>1. next \in [Peer -> PeerState] /\ \A q \in Peer : next[q] = IF q = p THEN x ELSE table[q]
  OBVIOUS
<1> HIDE DEF next
<1>2. Announced(next) = all
  BY <1>1 DEF Announced
<1>3. \A q \in Peer : /\ next[q].state = "ready" => next[q].met
                      /\ next[q].met => next[q].state # "unknown"
  BY <1>1 DEF Fits
<1> HIDE DEF all
<1>4. ASSUME NEW H, \A g \in Group : H[g] \subseteq all PROVE Fits(next, H)
  BY <1>2, <1>3, <1>4 DEF Fits
<1> QED BY <1>1, <1>2, <1>4 DEF next, all

\* Whoever is disconnected stays announced, and in its groups.
LEMMA DisconnectedFits ==
    ASSUME NEW table \in [Peer -> PeerState], NEW gone
    PROVE  /\ Announced(Disconnected(table, gone)) = Announced(table)
           /\ \A G : Fits(table, G) => Fits(Disconnected(table, gone), G)
<1> DEFINE next == Disconnected(table, gone)
<1>1. \A p \in Peer : next[p].met = table[p].met
  BY DisconnectedIs
<1>2. \A p \in Peer : next[p].state = table[p].state \/ next[p].state = "known"
  <2>1. ASSUME NEW p \in Peer PROVE next[p] = table[p] \/ next[p] = CutOff(table[p])
    BY DisconnectedIs
  <2>2. \A p \in Peer : CutOff(table[p]).state = "known"
    BY EntriesAre
  <2> HIDE DEF next
  <2> QED BY <2>1, <2>2
<1> HIDE DEF next
<1>3. Announced(next) = Announced(table)
  BY <1>1 DEF Announced
<1>4. ASSUME NEW G, Fits(table, G) PROVE Fits(next, G)
  BY <1>1, <1>2, <1>3, <1>4 DEF Fits
<1> QED BY <1>3, <1>4 DEF next

LEMMA PeerLeaves ==
    ASSUME NEW table \in [Peer -> PeerState], NEW G, Fits(table, G), NEW p \in Peer
    PROVE  /\ [table EXCEPT ![p] = Unknown] \in [Peer -> PeerState]
           /\ Announced([table EXCEPT ![p] = Unknown]) = Announced(table) \ {p}
           /\ \A H : (\A g \in Group : H[g] \subseteq G[g] \ {p})
                      => Fits([table EXCEPT ![p] = Unknown], H)
<1>1. Unknown \in PeerState /\ Unknown.state # "ready" /\ ~Unknown.met
  BY EntriesAre
<1>2. \A g \in Group : G[g] \subseteq Announced(table)
  BY DEF Fits
<1> DEFINE x == Unknown
           next == [table EXCEPT ![p] = x]
           all == IF x.met THEN Announced(table) \cup {p} ELSE Announced(table) \ {p}
<1> HIDE DEF x
<1>3. /\ next \in [Peer -> PeerState] /\ Announced(next) = all
      /\ \A H : (\A g \in Group : H[g] \subseteq all) => Fits(next, H)
  BY <1>1, EntrySet DEF x
<1>4. all = Announced(table) \ {p}
  BY <1>1 DEF x
<1> HIDE DEF next, all
<1>5. ASSUME NEW H, \A g \in Group : H[g] \subseteq G[g] \ {p} PROVE Fits(next, H)
  BY <1>2, <1>3, <1>4, <1>5
<1> QED BY <1>3, <1>4, <1>5 DEF next, x

LEMMA PeerAnswers ==
    ASSUME NodeOK, NEW table \in [Peer -> PeerState], NEW G, Fits(table, G), NEW p \in Peer
    PROVE  LET next == [table EXCEPT ![p] = Refreshed(table[p])]
           IN  /\ next \in [Peer -> PeerState]
               /\ Announced(next) = Announced(table)
               /\ Fits(next, G)
<1> DEFINE x == Refreshed(table[p])
<1>1. table[p] \in PeerState
  OBVIOUS
<1>2. x \in PeerState /\ x.state = table[p].state /\ x.met = table[p].met
  BY <1>1, TimersSet
<1>3. Announced(table) = IF x.met THEN Announced(table) \cup {p} ELSE Announced(table) \ {p}
  BY <1>2 DEF Announced
<1> HIDE DEF x
<1>4. (x.state = "ready" => x.met) /\ (x.met => x.state # "unknown")
  BY <1>2 DEF Fits
<1>5. \A g \in Group : G[g] \subseteq Announced(table)
  BY DEF Fits
<1> DEFINE next == [table EXCEPT ![p] = x]
           all == IF x.met THEN Announced(table) \cup {p} ELSE Announced(table) \ {p}
<1>6. /\ next \in [Peer -> PeerState] /\ Announced(next) = all
      /\ \A H : (\A g \in Group : H[g] \subseteq all) => Fits(next, H)
  BY <1>2, <1>4, EntrySet
<1> HIDE DEF next, all
<1>7. all = Announced(table)
  BY <1>3 DEF all
<1> QED BY <1>5, <1>6, <1>7 DEF next, x

LEMMA PeerMeets ==
    ASSUME NodeOK, NEW table \in [Peer -> PeerState], NEW G, Fits(table, G), NEW p \in Peer
    PROVE  /\ Met(table, p) \in [Peer -> PeerState]
           /\ Announced(Met(table, p)) = Announced(table) \cup {p}
           /\ \A H : (\A g \in Group : H[g] \subseteq G[g] \cup {p}) => Fits(Met(table, p), H)
<1> DEFINE x == Refreshed(Greeted(table[p]))
           all == IF x.met THEN Announced(table) \cup {p} ELSE Announced(table) \ {p}
<1>1. table[p] \in PeerState
  OBVIOUS
<1>2. Greeted(table[p]) \in PeerState
      /\ Greeted(table[p]).state = "ready" /\ Greeted(table[p]).met
  BY <1>1, EntriesAre
<1>3. x \in PeerState /\ x.state = "ready" /\ x.met
  BY <1>2, TimersSet
<1>4. Met(table, p) = [table EXCEPT ![p] = x]
  BY DEF Met
<1> HIDE DEF x
<1>5. /\ Met(table, p) \in [Peer -> PeerState] /\ Announced(Met(table, p)) = all
      /\ \A H : (\A g \in Group : H[g] \subseteq all) => Fits(Met(table, p), H)
  <2> DEFINE next == [table EXCEPT ![p] = x]
  <2>1. /\ next \in [Peer -> PeerState] /\ Announced(next) = all
        /\ \A H : (\A g \in Group : H[g] \subseteq all) => Fits(next, H)
    BY <1>3, EntrySet
  <2>2. Met(table, p) = next
    BY <1>4
  <2> HIDE DEF next, all
  <2> QED BY <2>1, <2>2
<1>6. all = Announced(table) \cup {p}
  BY <1>3
<1> HIDE DEF all
<1>7. ASSUME NEW H, \A g \in Group : H[g] \subseteq G[g] \cup {p}
      PROVE  Fits(Met(table, p), H)
  <2>1. \A g \in Group : G[g] \subseteq Announced(table)
    BY DEF Fits
  <2> QED BY <1>5, <1>6, <1>7, <2>1
<1> QED BY <1>5, <1>6, <1>7

\* A peer that is required was announced before, or is not yet.
LEMMA RequiredFits ==
    ASSUME NodeOK, NEW table \in [Peer -> PeerState], NEW G, Fits(table, G), NEW p \in Peer,
           NEW ok \in BOOLEAN
    PROVE  /\ RequirePeer(table, p, ok) \in [Peer -> PeerState]
           /\ Announced(RequirePeer(table, p, ok)) = Announced(table)
           /\ Fits(RequirePeer(table, p, ok), G)
<1> DEFINE next == RequirePeer(table, p, ok)
<1>1. next \in [Peer -> PeerState]
  BY PeersGrow
<1>2. CASE table[p].state # "unknown"
  BY <1>1, <1>2, PeersGrow
<1>3. CASE table[p].state = "unknown"
  <2>1. next[p].state # "ready" /\ ~next[p].met
    BY <1>3, PeersGrow, EntriesAre
  <2>2. ~table[p].met
    BY <1>3 DEF Fits
  <2>3. ASSUME NEW q \in Peer \ {p}
        PROVE  /\ next[q].met = table[q].met
               /\ next[q].state = table[q].state \/ next[q].state = "known"
    <3>1. next[q] = table[q] \/ next[q] = CutOff(table[q])
      BY PeersGrow
    <3>2. CutOff(table[q]).state = "known" /\ CutOff(table[q]).met = table[q].met
      BY EntriesAre
    <3> HIDE DEF next
    <3> QED BY <3>1, <3>2
  <2> HIDE DEF next
  <2>4. Announced(next) = Announced(table)
    BY <2>1, <2>2, <2>3 DEF Announced
  <2>5. Fits(next, G)
    BY <2>1, <2>2, <2>3, <2>4 DEF Fits
  <2> QED BY <1>1, <2>4, <2>5 DEF next
<1> QED BY <1>2, <1>3

LEMMA GroupedAfter ==
    ASSUME NodeOK, MembersOK
    PROVE  /\ \A S \in SUBSET Peer :
                Grouped(WithoutPeers(S)) = [g \in Group |-> Grouped(members)[g] \ S]
           /\ \A g \in Group : /\ g \in DOMAIN RequireGroup(g)
                               /\ Grouped(RequireGroup(g)) = Grouped(members)
<1>1. node.groups \subseteq Group
  BY DEF NodeOK, NodeState
<1>2. ASSUME NEW S \in SUBSET Peer
      PROVE  Grouped(WithoutPeers(S)) = [g \in Group |-> Grouped(members)[g] \ S]
  <2> DEFINE D == DOMAIN members \cup (IF S = {} THEN {} ELSE node.groups)
  <2>1. /\ DOMAIN WithoutPeers(S) = D
        /\ \A g \in D : WithoutPeers(S)[g] = IF g \in DOMAIN members
                                             THEN members[g] \ S ELSE {}
    BY DEF WithoutPeers
  <2>2. \A g \in DOMAIN members : g \in D
    OBVIOUS
  <2> HIDE DEF D
  <2> QED BY <2>1, <2>2 DEF Grouped
<1>3. ASSUME NEW g \in Group
      PROVE  g \in DOMAIN RequireGroup(g) /\ Grouped(RequireGroup(g)) = Grouped(members)
  BY DEF RequireGroup, Grouped
<1> QED BY <1>2, <1>3

LEMMA GroupedExcept ==
    ASSUME NEW m, NEW g \in Group, g \in DOMAIN m, NEW X
    PROVE  Grouped(With(m, g, X)) = With(Grouped(m), g, X)
BY DEF Grouped, With

LEMMA GroupedIn ==
    ASSUME NEW m, NEW g \in Group, g \in DOMAIN m
    PROVE  Grouped(m)[g] = m[g]
BY DEF Grouped

-----------------------------------------------------------------------------
(***************************************************************************)
(* The invariant: the view, taken through what is on its way, is what the  *)
(* tables say.                                                             *)
(***************************************************************************)
WrittenEvents == [i \in 1 .. Len(events) |-> Event(events[i])]

Follow == LeadsTo(view, Coming, Shown)

\* A HELLO names one group at most, and so does everything else.
OneGroup == \A i \in 1 .. Len(inbox) : \E g \in Group : inbox[i].groups \subseteq {g}

Formed(out) == out \in Seq(News) \/ \E name, value : Says(out, name, value)
Wellformed == Formed(todo)

LEMMA PairsWellformed == Pairs => Wellformed
BY DEF Pairs, Phase, Idle, Sent, Told, Worked, Replied, Lost, Silent, Wellformed, Formed

LEMMA FormedType ==
    ASSUME NEW out, Formed(out)
    PROVE  \E S : out \in Seq(S)
<1>1. CASE out \in Seq(News)
  BY <1>1
<1>2. ASSUME NEW name, NEW value, Says(out, name, value)
      PROVE  \E S : out \in Seq(S)
  <2>1. CASE out = <<Reply(name, value)>>
    <3>1. out \in Seq({Reply(name, value)})
      BY <2>1
    <3> QED BY <3>1
  <2>2. ASSUME NEW n \in Name, out = <<Stopped(n), Reply(name, value)>>
        PROVE  \E S : out \in Seq(S)
    <3>1. out \in Seq({Stopped(n), Reply(name, value)})
      BY <2>2
    <3> QED BY <3>1
  <2> QED BY <1>2, <2>1, <2>2 DEF Says
<1> QED BY <1>1, <1>2 DEF Formed

LEMMA WrittenType ==
    ASSUME EventsOK
    PROVE  /\ \E S : WrittenEvents \in Seq(S)
           /\ Len(WrittenEvents) = Len(events) /\ Len(events) \in Nat
           /\ \A i \in 1 .. Len(events) : WrittenEvents[i] = Event(events[i])
<1>1. PICK S : events \in Seq(S)
  BY DEF EventsOK
<1> DEFINE T == {Event(events[i]) : i \in 1 .. Len(events)}
<1>2. Len(events) \in Nat
  BY <1>1
<1>3. WrittenEvents \in [1 .. Len(events) -> T]
  BY DEF WrittenEvents
<1> HIDE DEF T
<1>4. WrittenEvents \in Seq(T) /\ Len(WrittenEvents) = Len(events)
  BY <1>2, <1>3
<1> QED BY <1>2, <1>4 DEF WrittenEvents

LEMMA ComingType ==
    ASSUME EventsOK, Wellformed
    PROVE  \E S : /\ WrittenEvents \in Seq(S) /\ todo \in Seq(S) /\ Coming \in Seq(S)
                  /\ Coming = WrittenEvents \o todo
<1>1. PICK S : WrittenEvents \in Seq(S)
  BY WrittenType
<1>2. PICK T : todo \in Seq(T)
  BY FormedType DEF Wellformed
<1>3. WrittenEvents \in Seq(S \cup T) /\ todo \in Seq(S \cup T)
  BY <1>1, <1>2
<1>4. Coming = WrittenEvents \o todo
  BY DEF Coming, WrittenEvents
<1>5. \A U : \A s, t \in Seq(U) : s \o t \in Seq(U)
  OBVIOUS
<1> QED BY <1>3, <1>4, <1>5

LEMMA FollowSuffices ==
    ASSUME EventsOK, Wellformed, Follow, PeersOK, MembersOK, Fitting
    PROVE  ViewFollows
<1> DEFINE R(h) == h = [k \in 0 .. Len(Coming) |->
                            IF k = 0 THEN view ELSE Learns(h[k - 1], Coming[k])]
           after == CHOOSE h : R(h)
           final == after[Len(Coming)]
<1>1. PICK h : R(h) /\ h[Len(Coming)] = Shown
  BY DEF Follow, LeadsTo, IsBuilt
<1>2. R(after)
  BY <1>1
<1>3. Len(Coming) \in Nat
  BY ComingType
<1>4. final = Shown
  <2> HIDE DEF after
  <2>1. IsBuilt(h, view, Coming) /\ IsBuilt(after, view, Coming)
    BY <1>1, <1>2 DEF IsBuilt
  <2> QED BY <1>1, <1>3, <2>1, BuiltOnce
<1> DEFINE met == Announced(peers)
<1>5. ViewFollows <=>
        /\ final.at = [p \in Peer |-> IF p \in met THEN <<"at", p>> ELSE Null]
        /\ final.headers = [p \in Peer |-> IF p \in met THEN <<"headers", p>> ELSE Null]
        /\ final.groups = [g \in Group |->
                              IF g \in DOMAIN members THEN members[g] ELSE {}]
        /\ \A g \in DOMAIN members : members[g] \subseteq met
        /\ {p \in Peer : peers[p].state = "ready"} \subseteq met /\ met \subseteq Known
  BY DEF ViewFollows, Announced
<1>6. \A g \in DOMAIN members : members[g] \subseteq met
  <2>1. ASSUME NEW g \in DOMAIN members PROVE members[g] \subseteq met
    <3>1. g \in Group /\ Grouped(members)[g] = members[g]
      BY DEF MembersOK, Grouped
    <3> QED BY <3>1 DEF Fitting, Fits
  <2> QED BY <2>1
<1>7. {p \in Peer : peers[p].state = "ready"} \subseteq met /\ met \subseteq Known
  BY DEF Fitting, Fits, Announced, Known
<1> HIDE DEF final, met
<1> QED BY <1>4, <1>5, <1>6, <1>7 DEF Shown, ViewOf, View, Grouped, met

\* What is left to be written after nothing was: it leads from what the tables
\* said to what they say now.
LEMMA FollowOn ==
    ASSUME EventsOK, Follow, todo = <<>>, Wellformed',
           UNCHANGED <<events, view>>, LeadsTo(Shown, todo', Shown')
    PROVE  Follow'
<1>1. PICK S : WrittenEvents \in Seq(S)
  BY WrittenType
<1>2. PICK T : todo' \in Seq(T)
  BY FormedType DEF Wellformed
<1>3. WrittenEvents \in Seq(S \cup T) /\ todo' \in Seq(S \cup T)
  BY <1>1, <1>2
<1>4. Coming = WrittenEvents /\ Coming' = WrittenEvents \o todo'
  BY <1>1 DEF Coming, WrittenEvents
<1>5. LeadsTo(view, WrittenEvents, Shown)
  BY <1>4 DEF Follow
<1>6. LeadsTo(view, WrittenEvents \o todo', Shown')
  BY <1>3, <1>5, LeadsThrough
<1> QED BY <1>4, <1>6 DEF Follow, LeadsTo, IsBuilt, Learns

\* A handler ends with these tables, but for the peers it found at EAGAIN.
Ends(next, groups, out) ==
    \E last : /\ last = next \/ \E full : last = Disconnected(next, full)
              /\ Outcome(last, groups, out)

LEMMA SendingEnds ==
    ASSUME NEW next, NEW groups, NEW out,
           Outcome(next, groups, out) \/ \E to : Sending(to, next, groups, out)
    PROVE  Ends(next, groups, out)
<1>1. CASE Outcome(next, groups, out)
  BY <1>1 DEF Ends
<1>2. ASSUME NEW to, Sending(to, next, groups, out) PROVE Ends(next, groups, out)
  <2>1. PICK full : Outcome(Disconnected(next, full), groups, out)
    BY <1>2 DEF Sending
  <2> QED BY <2>1 DEF Ends
<1> QED BY <1>1, <1>2

LEMMA EndsShow ==
    ASSUME NEW next \in [Peer -> PeerState], NEW groups, NEW out, Ends(next, groups, out),
           Fits(next, Grouped(groups))
    PROVE  /\ Fitting' /\ Shown' = ViewOf(Announced(next), Grouped(groups))
           /\ todo' = out
<1>1. PICK last : /\ last = next \/ \E full : last = Disconnected(next, full)
                  /\ Outcome(last, groups, out)
  BY DEF Ends
<1>2. Announced(last) = Announced(next) /\ Fits(last, Grouped(groups))
  BY <1>1, DisconnectedFits
<1>3. peers' = last /\ members' = groups /\ todo' = out
  BY <1>1 DEF Outcome
<1>4. Shown' = ViewOf(Announced(peers'), Grouped(members'))
  BY DEF Shown, ViewOf, View, Announced, Grouped
<1>5. Fitting' <=> Fits(peers', Grouped(members'))
  BY DEF Fitting, Fits, Announced, Grouped
<1> QED BY <1>2, <1>3, <1>4, <1>5

\* What is written leads from what the tables said to what they say now.
Led == LeadsTo(Shown, todo', Shown') /\ Fitting'

\* A HELLO: who was ready leaves, enters and joins the group it names.
LEMMA HelloLeads ==
    ASSUME NodeOK, PeersOK, MembersOK, Fitting, NEW m \in Message,
           NEW h \in Group, m.groups \subseteq {h}, RecvHello(m)
    PROVE  Led
<1> DEFINE p == m.peer
           again == peers[p].state = "ready"
           G == Grouped(members)
           R == IF again THEN Announced(peers) \ {p} ELSE Announced(peers)
           H == IF again THEN [g \in Group |-> G[g] \ {p}] ELSE G
           left == ViewOf(R, H)
<1>0. p \in Peer /\ m.groups \subseteq Group /\ peers \in [Peer -> PeerState] /\ Fits(peers, G)
  BY DEF Message, PeersOK, Fitting
<1>1. PICK ok \in BOOLEAN : \E full :
          LET found == RequirePeer(Left(p), p, ok)
          IN  \/ Outcome(Disconnected(found, full), Gone(p), Bye(p))
              \/ Outcome(Disconnected(Met(found, p), full), AndJoined(m),
                         Bye(p) \o <<Enter(p)>> \o Joins(p, m.groups))
  BY HelloShape
<1> DEFINE found == RequirePeer(Left(p), p, ok)
           out == Bye(p) \o <<Enter(p)>> \o Joins(p, m.groups)
<1>2. Ends(found, Gone(p), Bye(p)) \/ Ends(Met(found, p), AndJoined(m), out)
  BY <1>1 DEF Ends
<1>3. LeadsTo(Shown, Bye(p), left) /\ Grouped(Gone(p)) = H
  <2>1. CASE again
    <3>1. LeadsTo(Shown, <<Exit(p)>>, Learns(Shown, Exit(p)))
      BY LeadsOn
    <3>2. Learns(Shown, Exit(p)) = left
      BY <1>0, <2>1, LearnsExit DEF Shown
    <3>3. {p} \in SUBSET Peer
      BY <1>0
    <3>4. Grouped(Gone(p)) = H
      BY <2>1, <3>3, GroupedAfter DEF Gone
    <3> QED BY <2>1, <3>1, <3>2, <3>4 DEF Bye
  <2>2. CASE ~again
    BY <2>2, LeadsNowhere DEF Shown, Bye, Gone
  <2> QED BY <2>1, <2>2
<1>4. Left(p) \in [Peer -> PeerState] /\ Announced(Left(p)) = R /\ Fits(Left(p), H)
  <2>1. CASE again
    <3>1. Left(p) = [peers EXCEPT ![p] = Unknown]
      BY <2>1 DEF Left
    <3>2. R = Announced(peers) \ {p} /\ \A g \in Group : H[g] \subseteq G[g] \ {p}
      BY <2>1
    <3> HIDE DEF R, H, G
    <3>3. peers \in [Peer -> PeerState] /\ Fits(peers, G) /\ p \in Peer
      BY <1>0 DEF G
    <3> DEFINE next == [peers EXCEPT ![p] = Unknown]
    <3>4. /\ next \in [Peer -> PeerState] /\ Announced(next) = Announced(peers) \ {p}
          /\ Fits(next, H)
      BY <3>2, <3>3, PeerLeaves
    <3> HIDE DEF next
    <3> QED BY <3>1, <3>2, <3>4 DEF next
  <2>2. CASE ~again
    BY <1>0, <2>2 DEF Left
  <2> QED BY <2>1, <2>2
<1> HIDE DEF R, H
<1>5. found \in [Peer -> PeerState] /\ Announced(found) = R /\ Fits(found, H)
  BY <1>0, <1>4, RequiredFits
<1> HIDE DEF found
<1>6. /\ Met(found, p) \in [Peer -> PeerState] /\ Announced(Met(found, p)) = R \cup {p}
      /\ \A J : (\A g \in Group : J[g] \subseteq H[g] \cup {p}) => Fits(Met(found, p), J)
  BY <1>0, <1>5, PeerMeets
<1>7. Bye(p) \in Seq(News) /\ <<Enter(p)>> \in Seq(News) /\ Joins(p, m.groups) \in Seq(News)
  <2>1. Exit(p) \in News /\ Enter(p) \in News /\ Member("JOIN", p, h) \in News
    BY <1>0 DEF News
  <2>2. Joins(p, m.groups) = <<>> \/ Joins(p, m.groups) = <<Member("JOIN", p, h)>>
    BY DEF Joins
  <2>3. <<>> \in Seq(News) /\ \A e \in News : <<e>> \in Seq(News)
    OBVIOUS
  <2> QED BY <2>1, <2>2, <2>3 DEF Bye
<1>8. CASE Ends(found, Gone(p), Bye(p))
  BY <1>3, <1>5, <1>8, EndsShow DEF Led
<1>9. CASE Ends(Met(found, p), AndJoined(m), out)
  <2> DEFINE J == Grouped(AndJoined(m))
             entered == ViewOf(R \cup {p}, H)
             joined == ViewOf(R \cup {p}, J)
  <2>1. \A g \in Group : J[g] = H[g] \cup (IF g \in m.groups THEN {p} ELSE {})
    <3>1. \A g \in Group : H[g] = IF g \in DOMAIN Gone(p) THEN Gone(p)[g] ELSE {}
      BY <1>3 DEF Grouped
    <3>2. \A g \in Group : J[g] = IF g \in DOMAIN AndJoined(m) THEN AndJoined(m)[g] ELSE {}
      BY DEF Grouped
    <3> HIDE DEF J
    <3> QED BY <3>1, <3>2 DEF AndJoined
  <2>2. J = [g \in Group |-> J[g]] /\ H = [g \in Group |-> H[g]]
    <3>1. J = [g \in Group |-> J[g]]
      BY DEF Grouped
    <3>2. H = [g \in Group |-> H[g]]
      BY <1>3 DEF Grouped
    <3> QED BY <3>1, <3>2
  <2> HIDE DEF J
  <2>3. Fitting' /\ Shown' = joined /\ todo' = out
    <3>1. \A g \in Group : J[g] \subseteq H[g] \cup {p}
      BY <2>1
    <3>2. Fits(Met(found, p), J)
      BY <1>6, <3>1
    <3> QED BY <1>6, <1>9, <3>2, EndsShow DEF J
  <2>4. LeadsTo(left, <<Enter(p)>>, entered)
    BY <1>0, LeadsOn, LearnsEnter
  <2>5. LeadsTo(entered, Joins(p, m.groups), joined)
    <3>1. CASE m.groups = {}
      <4>1. J = H
        BY <2>1, <2>2, <3>1
      <4>2. Joins(p, m.groups) = <<>>
        BY <3>1 DEF Joins
      <4> QED BY <4>1, <4>2, LeadsNowhere
    <3>2. CASE m.groups # {}
      <4>1. m.groups = {h}
        BY <3>2
      <4>2. J = With(H, h, H[h] \cup {p})
        BY <2>1, <2>2, <4>1 DEF With
      <4>3. Joins(p, m.groups) = <<Member("JOIN", p, h)>>
        BY <4>1 DEF Joins
      <4>4. Learns(entered, Member("JOIN", p, h)) = joined
        BY <1>0, <4>2, LearnsJoin
      <4> HIDE DEF entered, joined
      <4> QED BY <4>3, <4>4, LeadsOn
    <3> QED BY <3>1, <3>2
  <2> HIDE DEF left, entered, joined
  <2>6. LeadsTo(Shown, Bye(p) \o <<Enter(p)>>, entered)
    BY <1>3, <1>7, <2>4, LeadsThrough
  <2>7. Bye(p) \o <<Enter(p)>> \in Seq(News)
    BY <1>7
  <2>8. LeadsTo(Shown, (Bye(p) \o <<Enter(p)>>) \o Joins(p, m.groups), joined)
    BY <1>7, <2>5, <2>6, <2>7, LeadsThrough
  <2> QED BY <2>3, <2>8 DEF Led
<1> QED BY <1>2, <1>8, <1>9

\* A handler that changes neither who is there nor who is in a group.
LEMMA QuietLeads ==
    ASSUME NEW next \in [Peer -> PeerState], NEW groups, NEW out, Ends(next, groups, out),
           Announced(next) = Announced(peers), Grouped(groups) = Grouped(members),
           Fits(next, Grouped(members)),
           out = <<>> \/ \E o : out = <<o>> /\ Learns(Shown, o) = Shown
    PROVE  Led
<1>1. Shown' = Shown /\ todo' = out /\ Fitting'
  BY EndsShow DEF Shown
<1> QED BY <1>1, LeadsNowhere, LeadsOn DEF Led

LEMMA RemovedLeads ==
    ASSUME NodeOK, PeersOK, MembersOK, Fitting, NEW p \in Peer, Removed(p)
    PROVE  Led
<1> DEFINE next == [peers EXCEPT ![p] = Unknown]
           G == Grouped(members)
           H == [g \in Group |-> G[g] \ {p}]
<1>1. Ends(next, WithoutPeers({p}), <<Exit(p)>>)
  BY SendingEnds DEF Removed
<1>2. next \in [Peer -> PeerState] /\ Announced(next) = Announced(peers) \ {p} /\ Fits(next, H)
  <2>1. peers \in [Peer -> PeerState] /\ Fits(peers, G)
    BY DEF PeersOK, Fitting
  <2>2. \A g \in Group : H[g] \subseteq G[g] \ {p}
    OBVIOUS
  <2> HIDE DEF G, H
  <2> QED BY <2>1, <2>2, PeerLeaves
<1>3. Grouped(WithoutPeers({p})) = H
  <2>1. {p} \in SUBSET Peer
    OBVIOUS
  <2> QED BY <2>1, GroupedAfter
<1>4. Learns(Shown, Exit(p)) = ViewOf(Announced(peers) \ {p}, H)
  BY LearnsExit DEF Shown
<1> HIDE DEF next, H
<1>5. Fitting' /\ Shown' = ViewOf(Announced(peers) \ {p}, H) /\ todo' = <<Exit(p)>>
  BY <1>1, <1>2, <1>3, EndsShow
<1> QED BY <1>4, <1>5, LeadsOn DEF Led

\* The sender of a message that is accepted.
LEMMA AnsweringFits ==
    ASSUME NodeOK, PeersOK, Fitting, NEW p \in Peer
    PROVE  /\ Answering(p) \in [Peer -> PeerState]
           /\ Announced(Answering(p)) = Announced(peers)
           /\ Fits(Answering(p), Grouped(members))
BY PeerAnswers DEF PeersOK, Fitting, Answering

\* A JOIN or a LEAVE that is accepted.
LEMMA MemberLeads ==
    ASSUME NodeOK, PeersOK, MembersOK, Fitting, NEW p \in Peer, peers[p].state = "ready",
           NEW g \in Group, NEW type \in {"JOIN", "LEAVE"}, NEW S,
           S = IF type = "JOIN" THEN RequireGroup(g)[g] \cup {p} ELSE RequireGroup(g)[g] \ {p},
           Ends(Answering(p), [RequireGroup(g) EXCEPT ![g] = S], <<Member(type, p, g)>>)
    PROVE  Led
<1> DEFINE m == RequireGroup(g)
           o == Member(type, p, g)
           G == Grouped(members)
           R == Announced(peers)
<1>1. g \in DOMAIN m /\ Grouped(m) = G
  BY GroupedAfter
<1> HIDE DEF m
<1>2. m[g] = G[g]
  BY <1>1, GroupedIn
<1>3. Grouped([m EXCEPT ![g] = S]) = With(G, g, S)
  <2>1. Grouped(With(m, g, S)) = With(Grouped(m), g, S)
    BY <1>1, GroupedExcept
  <2>2. With(m, g, S) = [m EXCEPT ![g] = S]
    BY DEF With
  <2> HIDE DEF G
  <2> QED BY <1>1, <2>1, <2>2
<1>4. p \in R /\ \A h \in Group : G[h] \subseteq R
  BY DEF Fitting, Fits, Announced
<1>5. Announced(Answering(p)) = R /\ Answering(p) \in [Peer -> PeerState]
      /\ Fits(Answering(p), G)
  BY AnsweringFits
<1>6. \A h \in Group : With(G, g, S)[h] \subseteq R
  <2>1. S \subseteq G[g] \cup {p}
    BY <1>2 DEF m
  <2>2. \A h \in Group : With(G, g, S)[h] = IF h = g THEN S ELSE G[h]
    BY DEF With, Grouped
  <2> QED BY <1>4, <2>1, <2>2
<1>7. Fits(Answering(p), With(G, g, S))
  BY <1>5, <1>6 DEF Fits
<1>8. Learns(ViewOf(R, G), o) = ViewOf(R, With(G, g, S))
  <2>1. CASE type = "JOIN"
    BY <1>2, <2>1, LearnsJoin DEF m
  <2>2. CASE type = "LEAVE"
    BY <1>2, <2>2, LearnsLeave DEF m
  <2> QED BY <2>1, <2>2
<1>9. Fitting' /\ Shown' = ViewOf(R, With(G, g, S)) /\ todo' = <<o>>
  BY <1>3, <1>5, <1>7, EndsShow DEF m
<1>10. Learns(Shown, o) = Shown'
  BY <1>8, <1>9 DEF Shown
<1> HIDE DEF o
<1> QED BY <1>9, <1>10, LeadsOn DEF Led

LEMMA RecvPeerLeads ==
    ASSUME IInv, OneGroup, Fitting, RecvPeer
    PROVE  Led
<1> DEFINE m == Head(inbox)
           p == m.peer
           G == Grouped(members)
<1>0. NodeOK /\ PeersOK /\ MembersOK
  BY DEF IInv
<1>1. inbox \in Seq(Message) /\ inbox # <<>>
  BY DEF IInv, WorldOK, RecvPeer
<1>2. m \in Message /\ m = inbox[1] /\ 1 \in 1 .. Len(inbox)
  BY <1>1
<1>3. p \in Peer /\ m.groups \subseteq Group
  BY <1>2 DEF Message
<1>4. PICK h \in Group : m.groups \subseteq {h}
  BY <1>2 DEF OneGroup
<1>5. \/ RecvHello(m) \/ RecvUnready(m) \/ RecvLost(m) \/ RecvData(m)
      \/ RecvPing(m) \/ RecvJoin(m) \/ RecvLeave(m) \/ RecvElection(m)
      \/ RecvGoodbye(m)
  BY DEF RecvPeer
<1> HIDE DEF m
<1>6. /\ Answering(p) \in [Peer -> PeerState] /\ Announced(Answering(p)) = Announced(peers)
      /\ Fits(Answering(p), G)
  BY <1>0, <1>3, AnsweringFits
<1>7. ASSUME NEW o, o \in Other, Outcome(Answering(p), members, <<o>>)
      PROVE  Led
  BY <1>6, <1>7, LearnsNothing, QuietLeads, SendingEnds
<1>8. ASSUME \/ Outcome(Answering(p), members, <<>>)
             \/ \E to : Sending(to, Answering(p), members, <<>>)
      PROVE  Led
  BY <1>6, <1>8, QuietLeads, SendingEnds
<1>8a. ASSUME Ignored PROVE Led
  BY <1>0, <1>8a, QuietLeads, SendingEnds DEF Ignored, PeersOK, Fitting
<1>9. CASE RecvHello(m)
  BY <1>0, <1>2, <1>4, <1>9, HelloLeads
<1>10. CASE RecvUnready(m) \/ RecvPing(m)
  BY <1>8, <1>8a, <1>10 DEF RecvUnready, RecvPing
<1>11. CASE RecvLost(m) \/ RecvGoodbye(m)
  BY <1>0, <1>3, <1>8, <1>11, RemovedLeads DEF RecvLost, RecvGoodbye
<1>12. CASE RecvData(m)
  <2>1. Event(<<"WHISPER", p, <<"name", p>>, "content">>) \in Other
    BY <1>3 DEF Other
  <2>2. \A g \in m.groups : Event(<<"SHOUT", p, <<"name", p>>, g, "content">>) \in Other
    BY <1>3 DEF Other
  <2> QED BY <1>7, <1>12, <2>1, <2>2 DEF RecvData
<1>13. CASE RecvJoin(m)
  <2>1. PICK g \in m.groups :
            \E to : Sending(to, Answering(p),
                            [RequireGroup(g) EXCEPT ![g] = RequireGroup(g)[g] \cup {p}],
                            <<Member("JOIN", p, g)>>)
    BY <1>13 DEF RecvJoin
  <2>2. peers[p].state = "ready"
    BY <1>13 DEF RecvJoin, Accepted
  <2> DEFINE S == RequireGroup(g)[g] \cup {p}
  <2>3. Ends(Answering(p), [RequireGroup(g) EXCEPT ![g] = S], <<Member("JOIN", p, g)>>)
    BY <2>1, SendingEnds
  <2>4. g \in Group
    BY <1>3
  <2>5. S = IF "JOIN" = "JOIN" THEN RequireGroup(g)[g] \cup {p} ELSE RequireGroup(g)[g] \ {p}
    OBVIOUS
  <2> HIDE DEF S
  <2> QED BY <1>0, <1>3, <2>2, <2>3, <2>4, <2>5, MemberLeads
<1>14. CASE RecvLeave(m)
  <2>1. PICK g \in m.groups :
            \E to : Sending(to, Answering(p),
                            [RequireGroup(g) EXCEPT ![g] = RequireGroup(g)[g] \ {p}],
                            <<Member("LEAVE", p, g)>>)
    BY <1>14 DEF RecvLeave
  <2>2. peers[p].state = "ready"
    BY <1>14 DEF RecvLeave, Accepted
  <2> DEFINE S == RequireGroup(g)[g] \ {p}
  <2>3. Ends(Answering(p), [RequireGroup(g) EXCEPT ![g] = S], <<Member("LEAVE", p, g)>>)
    BY <2>1, SendingEnds
  <2>4. g \in Group
    BY <1>3
  <2>5. S = IF "LEAVE" = "JOIN" THEN RequireGroup(g)[g] \cup {p} ELSE RequireGroup(g)[g] \ {p}
    OBVIOUS
  <2> HIDE DEF S
  <2> QED BY <1>0, <1>3, <2>2, <2>3, <2>4, <2>5, MemberLeads
<1>15. CASE RecvElection(m)
  <2>1. PICK g \in m.groups :
            \E out \in {<<>>} \cup {<<Member("LEADER", q, g)>> : q \in Known} :
                \E to : Sending(to, Answering(p), RequireGroup(g), out)
    BY <1>15 DEF RecvElection
  <2>2. g \in Group
    BY <1>3
  <2>3. Grouped(RequireGroup(g)) = G
    BY <1>0, <2>2, GroupedAfter
  <2>4. ASSUME NEW out \in {<<>>} \cup {<<Member("LEADER", q, g)>> : q \in Known}
        PROVE  out = <<>> \/ \E o : out = <<o>> /\ Learns(Shown, o) = Shown
    <3>1. \A q \in Known : q \in Peer
      BY DEF Known
    <3> QED BY <2>2, <2>4, <3>1, LearnsLeader
  <2> QED BY <1>6, <2>1, <2>3, <2>4, QuietLeads, SendingEnds
<1> QED BY <1>5, <1>9, <1>10, <1>11, <1>12, <1>13, <1>14, <1>15

LEMMA DiscoverLeads ==
    ASSUME IInv, Fitting, Discover
    PROVE  Led
<1>1. NodeOK /\ PeersOK /\ MembersOK /\ limits.cast \subseteq Peer
      /\ peers \in [Peer -> PeerState] /\ Fits(peers, Grouped(members))
  BY DEF IInv, Limits, PeersOK, Fitting
<1>2. PICK p \in Peer :
          \/ \E ok \in BOOLEAN : Outcome(RequirePeer(peers, p, ok), members, <<>>)
          \/ Removed(p)
          \/ Ignored
  BY <1>1 DEF Discover
<1>3. ASSUME NEW ok \in BOOLEAN, Outcome(RequirePeer(peers, p, ok), members, <<>>)
      PROVE  Led
  <2>1. /\ RequirePeer(peers, p, ok) \in [Peer -> PeerState]
        /\ Announced(RequirePeer(peers, p, ok)) = Announced(peers)
        /\ Fits(RequirePeer(peers, p, ok), Grouped(members))
    BY <1>1, RequiredFits
  <2> QED BY <1>3, <2>1, QuietLeads, SendingEnds
<1>4. CASE Removed(p)
  BY <1>1, <1>4, RemovedLeads
<1>5. CASE Ignored
  BY <1>1, <1>5, QuietLeads, SendingEnds DEF Ignored
<1> QED BY <1>2, <1>3, <1>4, <1>5

\* The reaper, over the peers in their order.
LEMMA PingLeads ==
    ASSUME IInv, NEW p \in Peer, NEW R, NEW G
    PROVE  LeadsTo(ViewOf(R, G), PingPeer(p),
                   IF p \in Known /\ peers[p].expired <= 0
                   THEN ViewOf(R \ {p}, [g \in Group |-> G[g] \ {p}])
                   ELSE ViewOf(R, G))
<1> DEFINE v == ViewOf(R, G)
           e == Quiet("EVASIVE", p)
           s == Quiet("SILENT", p)
           quiet == IF peers[p].evasive <= -Interval THEN <<s>> ELSE <<>>
<1>1. peers[p].expired \in Int /\ peers[p].evasive \in Int
  BY DEF IInv, PeersOK, PeerState
<1>2. e \in Other /\ s \in Other
  BY DEF Other
<1>3. CASE p \in Known /\ peers[p].expired <= 0
  <2>1. PingPeer(p) = <<Exit(p)>>
    BY <1>1, <1>3 DEF PingPeer
  <2> QED BY <1>3, <2>1, LeadsOn, LearnsExit
<1>4. CASE ~(p \in Known /\ peers[p].expired <= 0)
  <2>1. \/ PingPeer(p) = <<>>
        \/ PingPeer(p) = <<e>> \o quiet
    <3> HIDE DEF quiet
    <3> QED BY <1>1, <1>4 DEF PingPeer, quiet
  <2>2. LeadsTo(v, <<>>, v)
    BY LeadsNowhere
  <2>3. LeadsTo(v, <<e>>, v) /\ LeadsTo(v, <<s>>, v)
    <3>1. Learns(v, e) = v /\ Learns(v, s) = v
      BY <1>2, LearnsNothing
    <3> HIDE DEF v, e, s
    <3>2. LeadsTo(v, <<e>>, Learns(v, e)) /\ LeadsTo(v, <<s>>, Learns(v, s))
      BY LeadsOn
    <3> QED BY <3>1, <3>2
  <2> HIDE DEF v, e, s
  <2>4. LeadsTo(v, quiet, v)
    BY <2>2, <2>3
  <2>5. <<e>> \in Seq({e, s}) /\ quiet \in Seq({e, s})
    <3>1. <<e>> \in Seq({e, s}) /\ <<s>> \in Seq({e, s}) /\ <<>> \in Seq({e, s})
      OBVIOUS
    <3> QED BY <3>1
  <2> HIDE DEF quiet
  <2>6. LeadsTo(v, <<e>> \o quiet, v)
    BY <2>3, <2>4, <2>5, LeadsThrough
  <2>7. LeadsTo(v, PingPeer(p), v)
    BY <2>1, <2>2, <2>6
  <2> QED BY <1>4, <2>7 DEF v
<1> QED BY <1>3, <1>4

LEMMA ReapLeads ==
    ASSUME IInv, Fitting, ReapPeers
    PROVE  Led
<1> DEFINE f == [i \in DOMAIN Order |-> IF Visited(i) THEN PingPeer(Order[i]) ELSE <<>>]
           n == Len(Order)
           Goes(j) == Visited(j) /\ Order[j] \in Known /\ peers[Order[j]].expired <= 0
           Reaped(k) == {Order[j] : j \in {i \in 1 .. k : Goes(i)}}
           R == Announced(peers)
           G == Grouped(members)
           W(k) == ViewOf(R \ Reaped(k), [g \in Group |-> G[g] \ Reaped(k)])
           next == [p \in Peer |-> IF p \in Overdue THEN Unknown ELSE peers[p]]
<1>1. /\ n \in Nat /\ DOMAIN Order = 1 .. n /\ \A i \in 1 .. n : Order[i] \in Peer
      /\ Order \in Seq(Peer)
  BY PeerAssumption
<1>2. PICK h : IsJoined(h, f, n) /\ Joined(f, n) = h[n]
  BY <1>1, JoinedIs
<1>3. h[0] = <<>> /\ \A k \in 0 .. n - 1 : h[k + 1] = Cat(h[k], f[k + 1])
  BY <1>1, <1>2, JoinedSteps
<1>4. \A i \in 1 .. n : f[i] = IF Visited(i) THEN PingPeer(Order[i]) ELSE <<>>
  BY <1>1
<1>5. \A i \in 1 .. n : f[i] \in Seq(News)
  <2>1. \A p \in Peer : PingPeer(p) \in Seq(News)
    BY PingNews
  <2>2. <<>> \in Seq(News)
    OBVIOUS
  <2> QED BY <1>1, <1>4, <2>1, <2>2
<1>6. Ends(next, WithoutPeers(Overdue), Joined(f, n))
  <2>1. \E full : Outcome(Disconnected(next, full), WithoutPeers(Overdue), Joined(f, n))
    BY DEF ReapPeers
  <2> QED BY <2>1 DEF Ends
<1> HIDE DEF f
<1> DEFINE T == {k \in Nat : h[k] \in Seq(News) /\ LeadsTo(Shown, h[k], W(k))}
<1>7. 0 \in T
  <2>1. Reaped(0) = {}
    <3>1. \A i : i \notin 1 .. 0
      OBVIOUS
    <3> HIDE DEF Goes
    <3> QED BY <3>1
  <2>2. W(0) = Shown
    <3>1. G = [g \in Group |-> G[g]]
      BY DEF Grouped
    <3>2. R \ {} = R /\ \A g \in Group : G[g] \ {} = G[g]
      OBVIOUS
    <3> HIDE DEF G, R, Reaped
    <3>3. W(0) = ViewOf(R, G)
      BY <2>1, <3>1, <3>2
    <3> QED BY <3>3 DEF Shown, R, G
  <2>3. <<>> \in Seq(News)
    OBVIOUS
  <2> HIDE DEF W
  <2> QED BY <1>3, <2>2, <2>3, LeadsNowhere
<1>8. ASSUME NEW k \in 0 .. n - 1, k \in T PROVE k + 1 \in T
  <2> DEFINE i == k + 1
             p == Order[i]
  <2>1. i \in 1 .. n /\ i \in Nat /\ h[i] = Cat(h[k], f[i]) /\ p \in Peer
    BY <1>1, <1>3
  <2>2. h[k] \in Seq(News) /\ LeadsTo(Shown, h[k], W(k)) /\ f[i] \in Seq(News)
    BY <1>5, <1>8, <2>1
  <2>3. Reaped(i) = IF Goes(i) THEN Reaped(k) \cup {p} ELSE Reaped(k)
    <3>1. \A j : j \in 1 .. i <=> j \in 1 .. k \/ j = i
      BY <1>8
    <3> HIDE DEF Goes
    <3> QED BY <3>1
  <2>4. LeadsTo(W(k), f[i], W(i))
    <3>1. CASE Goes(i)
      <4>1. f[i] = PingPeer(p) /\ p \in Known /\ peers[p].expired <= 0
        BY <1>4, <2>1, <3>1
      <4>2. Reaped(i) = Reaped(k) \cup {p}
        BY <2>3, <3>1
      <4> DEFINE S == R \ Reaped(k)
                 H == [g \in Group |-> G[g] \ Reaped(k)]
      <4> HIDE DEF Reaped
      <4>3. /\ S \ {p} = R \ Reaped(i)
            /\ [g \in Group |-> H[g] \ {p}] = [g \in Group |-> G[g] \ Reaped(i)]
        BY <4>2
      <4> HIDE DEF S, H
      <4>4. LeadsTo(ViewOf(S, H), PingPeer(p),
                    ViewOf(S \ {p}, [g \in Group |-> H[g] \ {p}]))
        BY <2>1, <4>1, PingLeads
      <4> QED BY <4>1, <4>3, <4>4 DEF S, H
    <3>2. CASE ~Goes(i)
      <4>1. Reaped(i) = Reaped(k)
        BY <2>3, <3>2
      <4> HIDE DEF Reaped
      <4>2. W(i) = W(k)
        BY <4>1
      <4>3. CASE Visited(i)
        <5>1. f[i] = PingPeer(p) /\ ~(p \in Known /\ peers[p].expired <= 0)
          BY <1>4, <2>1, <3>2, <4>3
        <5> DEFINE S == R \ Reaped(k)
                   H == [g \in Group |-> G[g] \ Reaped(k)]
        <5> HIDE DEF S, H
        <5>2. LeadsTo(ViewOf(S, H), PingPeer(p), ViewOf(S, H))
          BY <2>1, <5>1, PingLeads
        <5> QED BY <4>2, <5>1, <5>2 DEF S, H
      <4>4. CASE ~Visited(i)
        <5>1. f[i] = <<>>
          BY <1>4, <2>1, <4>4
        <5> HIDE DEF W
        <5> QED BY <4>2, <5>1, LeadsNowhere
      <4> QED BY <4>3, <4>4
    <3> QED BY <3>1, <3>2
  <2> HIDE DEF W, i
  <2>5. LeadsTo(Shown, Cat(h[k], f[i]), W(i))
    BY <2>2, <2>4, LeadsThrough DEF Cat
  <2>6. Cat(h[k], f[i]) \in Seq(News)
    BY <2>2 DEF Cat
  <2>7. i \in T
    BY <2>1, <2>5, <2>6
  <2> QED BY <2>7 DEF i
<1>9. n \in T
  <2> HIDE DEF T
  <2>1. 0 \in Nat /\ \A k \in 0 .. n - 1 : k \in T => k + 1 \in T
    BY <1>8
  <2>2. \A k \in 0 .. n : k \in T
    BY <1>1, <1>7, <2>1, Climb
  <2> QED BY <1>1, <2>2
<1>10. Reaped(n) = Overdue
  BY <1>1 DEF Overdue, Reached
<1> HIDE DEF Reaped
<1>11. /\ next \in [Peer -> PeerState] /\ Announced(next) = R \ Overdue
       /\ Fits(next, [g \in Group |-> G[g] \ Overdue])
  <2>0. Fits(peers, G) /\ peers \in [Peer -> PeerState]
    BY DEF Fitting, IInv, PeersOK
  <2>1. Unknown \in PeerState /\ Unknown.state = "unknown" /\ ~Unknown.met
    BY EntriesAre
  <2>2. /\ next \in [Peer -> PeerState]
        /\ \A p \in Peer : next[p] = IF p \in Overdue THEN Unknown ELSE peers[p]
    BY <2>0, <2>1
  <2> HIDE DEF next
  <2>3. Announced(next) = R \ Overdue
    BY <2>1, <2>2 DEF Announced
  <2>4. \A g \in Group : [k \in Group |-> G[k] \ Overdue][g] \subseteq R \ Overdue
    BY <2>0 DEF Fits
  <2>5. \A p \in Peer : /\ next[p].state = "ready" => next[p].met
                        /\ next[p].met => next[p].state # "unknown"
    BY <2>0, <2>1, <2>2 DEF Fits
  <2> QED BY <2>2, <2>3, <2>4, <2>5 DEF Fits
<1>12. Grouped(WithoutPeers(Overdue)) = [g \in Group |-> G[g] \ Overdue]
  <2>1. NodeOK /\ MembersOK /\ Overdue \in SUBSET Peer
    BY DEF IInv, Overdue, Known
  <2> QED BY <2>1, GroupedAfter
<1>14. Fitting' /\ Shown' = W(n) /\ todo' = h[n]
  <2> DEFINE H == [g \in Group |-> G[g] \ Overdue]
             all == R \ Overdue
             groups == WithoutPeers(Overdue)
             out == Joined(f, n)
  <2>1. W(n) = ViewOf(all, H) /\ out = h[n]
    BY <1>2, <1>10
  <2>2. next \in [Peer -> PeerState] /\ Announced(next) = all /\ Fits(next, H)
    BY <1>11
  <2>3. Grouped(groups) = H /\ Ends(next, groups, out)
    BY <1>6, <1>12
  <2> HIDE DEF H, all, W, next, groups, out
  <2>4. Fitting' /\ Shown' = ViewOf(all, H) /\ todo' = out
    BY <2>2, <2>3, EndsShow
  <2> QED BY <2>1, <2>4
<1> HIDE DEF W
<1> QED BY <1>9, <1>14 DEF Led

\* A command changes neither who is there nor who is in which group.
LEMMA HandlersShow ==
    ASSUME NodeOK, PeersOK, MembersOK, Fitting, NEW c \in Commands, Handled(c)
    PROVE  Shown' = Shown /\ Fitting'
<1>0. peers \in [Peer -> PeerState] /\ Fits(peers, Grouped(members))
  BY DEF PeersOK, Fitting
<1>1. ASSUME Announced(peers') = Announced(peers), Fits(peers', Grouped(members)),
             Grouped(members') = Grouped(members)
      PROVE  Shown' = Shown /\ Fitting'
  <2>1. Shown' = ViewOf(Announced(peers'), Grouped(members'))
    BY DEF Shown, ViewOf, View, Announced, Grouped
  <2>2. Fitting' <=> Fits(peers', Grouped(members'))
    BY DEF Fitting, Fits, Announced, Grouped
  <2> QED BY <1>1, <2>1, <2>2 DEF Shown
<1>2. CASE ApiSetContest(c)
  <2>1. c.arg \in Group /\ peers' = peers /\ members' = RequireGroup(c.arg)
    BY <1>2, ArgumentsFit DEF ApiSetContest
  <2>2. Grouped(members') = Grouped(members)
    BY <2>1, GroupedAfter
  <2> QED BY <1>0, <1>1, <2>1, <2>2
<1>3. CASE ApiRequirePeer(c)
  <2>1. c.arg \in Peer
    BY <1>3, ArgumentsFit DEF ApiRequirePeer
  <2>2. members' = members
        /\ (peers' = peers \/ \E ok \in BOOLEAN : peers' = RequirePeer(peers, c.arg, ok))
    BY <1>3 DEF ApiRequirePeer, Abort
  <2>3. Announced(peers') = Announced(peers) /\ Fits(peers', Grouped(members))
    BY <1>0, <2>1, <2>2, RequiredFits
  <2> QED BY <1>1, <2>2, <2>3
<1>4. CASE ApiStop(c) \/ ApiSend(c) \/ ApiJoin(c) \/ ApiLeave(c)
  <2>1. members' = members /\ \E full : peers' = Disconnected(peers, full)
    BY <1>4 DEF ApiStop, ApiSend, ApiJoin, ApiLeave, Tells
  <2> QED BY <1>0, <1>1, <2>1, DisconnectedFits
<1>5. CASE ~ \/ ApiSetContest(c) \/ ApiRequirePeer(c) \/ ApiStop(c) \/ ApiSend(c)
             \/ ApiJoin(c) \/ ApiLeave(c)
  <2>1. (\E n, out : Only(n, out)) \/ (\E reason : Abort(reason))
    BY <1>5 DEF Handled, ApiUuid, ApiName, ApiSetName, ApiSetOther, ApiSetPort,
           ApiSetTimeout, ApiSetEndpoint, ApiGossip, ApiGossipUnpublish, ApiStart,
           ApiPeers, ApiGroupPeers, ApiPeerEndpoint,
           ApiPeerHeader, ApiPeerGroups, ApiOwnGroups, ApiTerm
  <2>2. peers' = peers /\ members' = members
    BY <2>1 DEF Only, Abort
  <2> QED BY <1>0, <1>1, <2>2
<1> QED BY <1>2, <1>3, <1>4, <1>5

\* Nor does a reply say anything of the peers.
LEMMA AnswersLead ==
    ASSUME NEW v, NEW name, NEW value, NEW out, Says(out, name, value)
    PROVE  LeadsTo(v, out, v)
<1> DEFINE r == Reply(name, value)
<1>1. IsReply(r)
  BY DEF IsReply, Reply
<1>2. CASE out = <<r>>
  BY <1>1, <1>2, LeadsOn, LearnsNothing
<1>3. ASSUME NEW n \in Name, out = <<Stopped(n), r>>
      PROVE  LeadsTo(v, out, v)
  <2> DEFINE s == Stopped(n)
  <2>1. s \in Other
    BY DEF Other
  <2>2. Learns(v, s) = v /\ Learns(v, r) = v
    BY <1>1, <2>1, LearnsNothing
  <2> HIDE DEF s, r
  <2>3. LeadsTo(v, <<s>>, v) /\ LeadsTo(v, <<r>>, v)
    BY <2>2, LeadsOn
  <2>4. <<s>> \in Seq({s, r}) /\ <<r>> \in Seq({s, r}) /\ <<s>> \o <<r>> = <<s, r>>
    <3>1. <<s>> \in Seq({s, r}) /\ <<r>> \in Seq({s, r})
      OBVIOUS
    <3> DEFINE t == <<s>> \o <<r>>
    <3>2. Len(t) = 2 /\ t[1] = s /\ t[2] = r
      OBVIOUS
    <3>3. t \in Seq({s, r})
      BY <3>1
    <3> HIDE DEF t
    <3>4. t = <<s, r>>
      BY <3>2, <3>3
    <3> QED BY <3>1, <3>4 DEF t
  <2>5. LeadsTo(v, <<s>> \o <<r>>, v)
    BY <2>3, <2>4, LeadsThrough
  <2> QED BY <1>3, <2>4, <2>5 DEF s, r
<1> QED BY <1>2, <1>3 DEF Says

LEMMA ApiStepFollows ==
    ASSUME IInv, Fitting, Follow, RecvApi
    PROVE  Follow' /\ Fitting'
<1> DEFINE c == Head(pipe)
<1>1. NodeOK /\ PeersOK /\ MembersOK /\ AppOK /\ EventsOK
  BY DEF IInv
<1>2. pipe # <<>> /\ todo = <<>> /\ Handled(c) /\ UNCHANGED <<events, view>>
  BY DEF RecvApi, Running, Handled, app
<1>3. c \in Commands /\ c.name \in Calls \cup Posts
  <2>1. c \in Commands
    BY <1>1, <1>2 DEF AppOK
  <2> QED BY <2>1, CommandsAreNotNull
<1> HIDE DEF c
<1>4. Shown' = Shown /\ Fitting'
  BY <1>1, <1>2, <1>3, HandlersShow
<1>5. todo' = <<>> \/ \E name, value : Says(todo', name, value)
  <2>1. CASE c.name \in Posts
    BY <1>2, <2>1, PostsAreSilent DEF Aborts
  <2>2. CASE c.name \in Calls
    BY <1>1, <1>2, <1>3, <2>2, CallsAnswer DEF Aborts
  <2> QED BY <1>3, <2>1, <2>2
<1>6. Formed(todo')
  <2>1. <<>> \in Seq(News)
    OBVIOUS
  <2> QED BY <1>5, <2>1 DEF Formed
<1>7. LeadsTo(Shown, todo', Shown')
  BY <1>4, <1>5, AnswersLead, LeadsNowhere
<1> QED BY <1>1, <1>2, <1>4, <1>6, <1>7, FollowOn DEF Wellformed

LEMMA NodeStepFollows ==
    ASSUME IInv, OneGroup, Fitting, Follow, NodeStep
    PROVE  Follow' /\ Fitting'
<1>1. todo' \in Seq(News) /\ UNCHANGED <<events, view>> /\ todo = <<>> /\ EventsOK
  BY NodeStepNews DEF pipes, app, Running, IInv
<1>2. Led
  <2>1. CASE StartBeacon
    <3>1. todo' = <<>> /\ peers' = peers /\ members' = members
      BY <2>1, StartBeaconNews DEF StartBeacon, Abort, Only
    <3>2. Shown' = Shown /\ Fitting'
      BY <3>1 DEF Shown, ViewOf, View, Announced, Grouped, Fitting, Fits
    <3> QED BY <3>1, <3>2, LeadsNowhere DEF Led
  <2> QED BY <2>1, RecvPeerLeads, ReapLeads, DiscoverLeads DEF NodeStep
<1>3. Formed(todo')
  BY <1>1 DEF Formed
<1> QED BY <1>1, <1>2, <1>3, FollowOn DEF Wellformed, Led

\* The node writes what it has to write, its reply last.
LEMMA FormedHead ==
    ASSUME NEW out, Formed(out), out # <<>>
    PROVE  \/ /\ Head(out).to = "outbox" /\ ~IsReply(Head(out))
              /\ Head(out) = Event(Head(out).frames)
           \/ IsReply(Head(out)) /\ out = <<Head(out)>> /\ Tail(out) = <<>>
<1>1. CASE out \in Seq(News)
  <2> DEFINE e == Head(out)
  <2>1. e \in News
    BY <1>1
  <2> HIDE DEF e
  <2>2. e.to = "outbox" /\ ~IsReply(e)
    BY <2>1, NewsAreEvents
  <2>3. e = Event(e.frames)
    BY <2>1 DEF News, Enter, Exit, Quiet, Member, Stopped, Event
  <2> QED BY <2>2, <2>3 DEF e
<1>2. ASSUME NEW name, NEW value, out = <<Reply(name, value)>>
      PROVE  IsReply(Head(out)) /\ out = <<Head(out)>> /\ Tail(out) = <<>>
  <2> DEFINE r == Reply(name, value)
  <2>1. IsReply(r)
    BY DEF IsReply, Reply
  <2> HIDE DEF r
  <2>2. out = <<r>>
    BY <1>2 DEF r
  <2> QED BY <2>1, <2>2
<1>3. ASSUME NEW name, NEW value, NEW n \in Name, out = <<Stopped(n), Reply(name, value)>>
      PROVE  /\ Head(out).to = "outbox" /\ ~IsReply(Head(out))
             /\ Head(out) = Event(Head(out).frames)
  <2> DEFINE s == Stopped(n)
             r == Reply(name, value)
  <2>1. s.to = "outbox" /\ ~IsReply(s) /\ s = Event(s.frames)
    BY DEF IsReply, Stopped, Event
  <2> HIDE DEF s, r
  <2>2. out = <<s, r>>
    BY <1>3 DEF r, s
  <2>3. Head(out) = s
    BY <2>2
  <2> QED BY <2>1, <2>3
<1> QED BY <1>1, <1>2, <1>3 DEF Formed, Says

LEMMA AppendApart ==
    ASSUME NEW S, NEW w \in Seq(S), NEW e
    PROVE  /\ Append(w, e) = [i \in 1 .. Len(w) + 1 |-> Append(w, e)[i]]
           /\ Append(w, e)[Len(w) + 1] = e
           /\ \A i \in 1 .. Len(w) : Append(w, e)[i] = w[i]
<1>1. w \in Seq(S \cup {e}) /\ e \in S \cup {e}
  OBVIOUS
<1>2. Append(w, e) \in Seq(S \cup {e}) /\ Len(Append(w, e)) = Len(w) + 1
  BY <1>1
<1>3. Append(w, e) = [i \in 1 .. Len(w) + 1 |-> Append(w, e)[i]]
  <2> DEFINE T == S \cup {e}
             q == Append(w, e)
             n == Len(w) + 1
  <2>1. q \in Seq(T) /\ Len(q) = n
    BY <1>2
  <2> HIDE DEF T, q, n
  <2>2. q = [i \in 1 .. n |-> q[i]]
    BY <2>1
  <2> QED BY <2>2 DEF q, n
<1>4. Append(w, e)[Len(w) + 1] = e
  OBVIOUS
<1>5. \A i \in 1 .. Len(w) : Append(w, e)[i] = w[i]
  OBVIOUS
<1> QED BY <1>3, <1>4, <1>5

LEMMA EventWritten ==
    ASSUME EventsOK, NEW e, e = Event(e.frames), events' = Append(events, e.frames)
    PROVE  WrittenEvents' = Append(WrittenEvents, e)
<1>1. PICK S : events \in Seq(S)
  BY DEF EventsOK
<1> DEFINE n == Len(events)
           T == S \cup {e.frames}
<1>2. n \in Nat /\ events \in Seq(T) /\ e.frames \in T
  BY <1>1
<1>3. /\ Len(events') = n + 1 /\ events'[n + 1] = e.frames
      /\ \A i \in 1 .. n : events'[i] = events[i]
  <2> HIDE DEF T, n
  <2> QED BY <1>2 DEF n
<1>4. Len(WrittenEvents) = n /\ \A i \in 1 .. n : WrittenEvents[i] = Event(events[i])
  BY WrittenType
<1>5. \E U : WrittenEvents \in Seq(U)
  BY WrittenType
<1> HIDE DEF n, T
<1> DEFINE W == WrittenEvents
           f == Append(W, e)
<1>6. /\ f = [i \in 1 .. n + 1 |-> f[i]] /\ f[n + 1] = e
      /\ \A i \in 1 .. n : f[i] = W[i]
  <2>1. PICK U : W \in Seq(U)
    BY <1>5
  <2> HIDE DEF W
  <2> QED BY <1>4, <2>1, AppendApart DEF W
<1> HIDE DEF f, W
<1>7. \A i \in 1 .. n + 1 : f[i] = Event(events'[i])
  <2>1. \A i \in 1 .. n + 1 : i \in 1 .. n \/ i = n + 1
    BY <1>2
  <2> QED BY <1>3, <1>4, <1>6, <2>1 DEF W
<1>8. WrittenEvents' = [i \in 1 .. n + 1 |-> Event(events'[i])]
  BY <1>3 DEF WrittenEvents, Event
<1> QED BY <1>6, <1>7, <1>8 DEF f, W

LEMMA WrittenOn ==
    ASSUME NEW S, NEW w \in Seq(S), NEW t \in Seq(S), t # <<>>
    PROVE  Append(w, Head(t)) \o Tail(t) = w \o t
OBVIOUS

LEMMA FlushFollows ==
    ASSUME EventsOK, Wellformed, Fitting, Follow, Flush
    PROVE  Follow' /\ Fitting'
<1>1. todo # <<>> /\ todo' = Tail(todo) /\ view' = view /\ Shown' = Shown
  BY DEF Flush, app, actor, Shown
<1>0. Fitting'
  BY DEF Flush, actor, Fitting
<1>2. \/ Head(todo).to = "pipe" /\ events' = events
      \/ Head(todo).to = "outbox" /\ events' = Append(events, Head(todo).frames)
  BY DEF Flush
<1>3. PICK S : /\ WrittenEvents \in Seq(S) /\ todo \in Seq(S) /\ Coming \in Seq(S)
               /\ Coming = WrittenEvents \o todo
  BY ComingType
<1>4. Coming' = WrittenEvents' \o todo'
  BY DEF Coming, WrittenEvents, Event
<1> DEFINE e == Head(todo)
<1>5. CASE /\ e.to = "outbox" /\ ~IsReply(e) /\ e = Event(e.frames)
  <2>1. events' = Append(events, e.frames)
    BY <1>2, <1>5
  <2> HIDE DEF e
  <2>2. WrittenEvents' = Append(WrittenEvents, e)
    BY <1>5, <2>1, EventWritten
  <2>3. Coming' = Append(WrittenEvents, Head(todo)) \o Tail(todo)
    BY <1>1, <1>4, <2>2 DEF e
  <2>4. Coming' = Coming
    BY <1>1, <1>3, <2>3, WrittenOn
  <2> QED BY <1>0, <1>1, <2>4 DEF Follow
<1>6. CASE IsReply(e) /\ todo = <<e>> /\ Tail(todo) = <<>>
  <2>1. IsReply(e) /\ todo = <<e>>
    BY <1>6
  <2>2. events' = events
    BY <1>2, <1>6 DEF IsReply
  <2> HIDE DEF e
  <2>3. WrittenEvents' = WrittenEvents /\ todo' = <<>>
    BY <1>1, <1>6, <2>2 DEF WrittenEvents
  <2>4. Coming' = WrittenEvents
    BY <1>3, <1>4, <2>3
  <2>5. LeadsTo(view, WrittenEvents \o <<e>>, Shown)
    BY <1>3, <2>1 DEF Follow
  <2>6. LeadsTo(view, WrittenEvents, Shown)
    BY <1>3, <2>1, <2>5, LeadsShort
  <2> QED BY <1>0, <1>1, <2>4, <2>6 DEF Follow
<1> QED BY <1>0, <1>1, <1>5, <1>6, FormedHead DEF Wellformed

LEMMA TailElements ==
    ASSUME NEW S, NEW w \in Seq(S), w # <<>>
    PROVE  Tail(w) = [i \in 1 .. Len(w) - 1 |-> w[i + 1]]
<1> DEFINE n == Len(w) - 1
           t == Tail(w)
<1>1. t \in Seq(S) /\ Len(t) = n /\ \A i \in 1 .. n : t[i] = w[i + 1]
  OBVIOUS
<1> HIDE DEF n, t
<1>2. t = [i \in 1 .. n |-> t[i]]
  BY <1>1
<1>3. t = [i \in 1 .. n |-> w[i + 1]]
  BY <1>1, <1>2
<1> QED BY <1>3 DEF n, t

\* The application reads an event, and notes down what it says.
LEMMA EventRead ==
    ASSUME EventsOK, events # <<>>, events' = Tail(events)
    PROVE  /\ WrittenEvents # <<>> /\ WrittenEvents[1] = Event(Head(events))
           /\ WrittenEvents' = Tail(WrittenEvents)
<1>1. PICK S : events \in Seq(S)
  BY DEF EventsOK
<1>2. PICK U : WrittenEvents \in Seq(U)
  BY WrittenType
<1> DEFINE n == Len(events)
           W == WrittenEvents
<1>3. /\ n \in Nat \ {0} /\ Head(events) = events[1] /\ Len(events') = n - 1
      /\ \A i \in 1 .. n - 1 : events'[i] = events[i + 1]
  BY <1>1
<1>4. Len(W) = n /\ \A i \in 1 .. n : W[i] = Event(events[i])
  BY WrittenType
<1> HIDE DEF n
<1>5. W # <<>> /\ 1 \in 1 .. n
  <2> HIDE DEF W
  <2>1. Len(<<>>) = 0
    OBVIOUS
  <2> QED BY <1>3, <1>4, <2>1
<1>6. Tail(W) = [i \in 1 .. n - 1 |-> W[i + 1]]
  <2> HIDE DEF W
  <2>1. W \in Seq(U)
    BY <1>2 DEF W
  <2> QED BY <1>4, <1>5, <2>1, TailElements
<1>7. \A i \in 1 .. n - 1 : W[i + 1] = Event(events'[i])
  <2> HIDE DEF W
  <2>1. \A i \in 1 .. n - 1 : i + 1 \in 1 .. n
    BY <1>3
  <2> QED BY <1>3, <1>4, <2>1
<1>8. WrittenEvents' = [i \in 1 .. n - 1 |-> Event(events'[i])]
  BY <1>3 DEF WrittenEvents, Event
<1>9. WrittenEvents' = Tail(W)
  <2> HIDE DEF W
  <2> QED BY <1>6, <1>7, <1>8
<1> QED BY <1>3, <1>4, <1>5, <1>9

LEMMA TailApart ==
    ASSUME NEW S, NEW w \in Seq(S), NEW t \in Seq(S), w # <<>>
    PROVE  w \o t # <<>> /\ (w \o t)[1] = w[1] /\ Tail(w \o t) = Tail(w) \o t
<1>1. w \o t # <<>> /\ (w \o t)[1] = w[1]
  OBVIOUS
<1>2. Tail(w \o t) = Tail(w) \o t
  OBVIOUS
<1> QED BY <1>1, <1>2

LEMMA TakeEventFollows ==
    ASSUME EventsOK, Wellformed, Fitting, Follow, TakeEvent
    PROVE  Follow' /\ Fitting'
<1>1. /\ events # <<>> /\ events' = Tail(events) /\ todo' = todo /\ Shown' = Shown
      /\ view' = Note(view, EventNew(Head(events)))
  BY DEF TakeEvent, actor, Shown
<1>0. Fitting'
  BY DEF TakeEvent, actor, Fitting
<1>2. PICK S : /\ WrittenEvents \in Seq(S) /\ todo \in Seq(S) /\ Coming \in Seq(S)
               /\ Coming = WrittenEvents \o todo
  BY ComingType
<1>3. Coming' = WrittenEvents' \o todo'
  BY DEF Coming, WrittenEvents, Event
<1>4. /\ WrittenEvents # <<>> /\ WrittenEvents[1] = Event(Head(events))
      /\ WrittenEvents' = Tail(WrittenEvents)
  BY <1>1, EventRead
<1>5. Coming # <<>> /\ Coming[1] = Event(Head(events)) /\ Coming' = Tail(Coming)
  BY <1>1, <1>2, <1>3, <1>4, TailApart
<1>6. Learns(view, Coming[1]) = view'
  BY <1>1, <1>5 DEF Learns, IsReply, Event
<1>7. LeadsTo(Learns(view, Coming[1]), Tail(Coming), Shown)
  BY <1>2, <1>5, LeadsPast DEF Follow
<1> QED BY <1>0, <1>1, <1>5, <1>6, <1>7 DEF Follow

LEMMA OthersKeepFollowing ==
    ASSUME PeersOK, Fitting, Follow, Writes \/ Return \/ GetMsg \/ WorldStep \/ UNCHANGED vars
    PROVE  Follow' /\ Fitting'
<1>1. UNCHANGED <<events, todo, view, members>>
  BY DEF Writes, Posted, Called, Post, Call, PostHalf, Return, GetMsg, WorldStep, Say,
         AnswerPing, Die, Tick, app, pipes, actor, vars
<1>2. \A p \in Peer : peers'[p].met = peers[p].met /\ peers'[p].state = peers[p].state
  <2>1. CASE Tick
    <3>1. ASSUME NEW p \in Peer
          PROVE  peers'[p].state = peers[p].state /\ peers'[p].met = peers[p].met
      <4>1. peers[p] \in PeerState
        BY DEF PeersOK
      <4> QED BY <2>1, <4>1 DEF Tick, PeerState
    <3> QED BY <3>1
  <2>2. CASE ~Tick
    <3>1. peers' = peers
      BY <2>2 DEF Writes, Posted, Called, Post, Call, PostHalf, Return, GetMsg, WorldStep,
             Say, AnswerPing, Die, app, pipes, actor, vars
    <3> QED BY <3>1
  <2> QED BY <2>1, <2>2
<1>3. Announced(peers') = Announced(peers)
  BY <1>2 DEF Announced
<1>4. Coming' = Coming /\ Shown' = Shown
  BY <1>1, <1>3 DEF Coming, Shown, Announced
<1>5. Fitting'
  <2>1. Fits(peers', Grouped(members))
    BY <1>2, <1>3 DEF Fitting, Fits
  <2>2. Fitting' <=> Fits(peers', Grouped(members'))
    BY DEF Fitting, Fits, Announced, Grouped
  <2> QED BY <1>1, <2>1, <2>2
<1> QED BY <1>1, <1>4, <1>5 DEF Follow

LEMMA InboxKeepsOneGroup ==
    ASSUME IInv, OneGroup, Next
    PROVE  OneGroup'
<1>1. inbox \in Seq(Message)
  BY DEF IInv, WorldOK
<1>2. ASSUME NEW m \in Message, NEW g \in Group, m.groups \subseteq {g},
             inbox' = Append(inbox, m)
      PROVE  OneGroup'
  <2>1. /\ Len(inbox) \in Nat /\ Len(inbox') = Len(inbox) + 1
        /\ inbox'[Len(inbox) + 1] = m /\ \A i \in 1 .. Len(inbox) : inbox'[i] = inbox[i]
    BY <1>1, <1>2
  <2>2. \A i \in 1 .. Len(inbox') : i \in 1 .. Len(inbox) \/ i = Len(inbox) + 1
    BY <2>1
  <2> QED BY <1>2, <2>1, <2>2 DEF OneGroup
<1>3. CASE Say
  BY <1>2, <1>3 DEF Say
<1>4. CASE AnswerPing
  <2>0. CASE inbox' = inbox
    BY <2>0 DEF OneGroup
  <2> SUFFICES ASSUME inbox' # inbox PROVE OneGroup'
    BY <2>0
  <2>1. PICK p \in pings :
            inbox' = Append(inbox, [peer |-> p, groups |-> {}, lost |-> FALSE,
                                    id |-> "PING_OK"])
    BY <1>4 DEF AnswerPing
  <2> DEFINE m == [peer |-> p, groups |-> {}, lost |-> FALSE, id |-> "PING_OK"]
  <2>2. p \in Peer
    BY DEF IInv, WorldOK
  <2>3. m \in Message /\ m.groups = {}
    BY <2>2 DEF Message, Ids
  <2>4. PICK g \in Group : TRUE
    BY ValueAssumption
  <2> HIDE DEF m
  <2>5. m.groups \subseteq {g} /\ inbox' = Append(inbox, m)
    BY <2>1, <2>3 DEF m
  <2> QED BY <1>2, <2>3, <2>4, <2>5
<1>5. CASE RecvPeer
  <2>1. inbox # <<>> /\ inbox' = Tail(inbox)
    BY <1>5 DEF RecvPeer
  <2>2. /\ Len(inbox) \in Nat /\ Len(inbox') = Len(inbox) - 1
        /\ \A i \in 1 .. Len(inbox') : inbox'[i] = inbox[i + 1]
    BY <1>1, <2>1
  <2>3. \A i \in 1 .. Len(inbox') : i + 1 \in 1 .. Len(inbox)
    BY <2>2
  <2> QED BY <2>2, <2>3 DEF OneGroup
<1>6. CASE \/ Writes \/ Return \/ TakeEvent \/ GetMsg \/ Flush \/ RecvApi
           \/ ReapPeers \/ Discover \/ StartBeacon \/ Die \/ Tick
  <2>1. inbox' = inbox
    BY <1>6 DEF Writes, Posted, Called, Post, Call, PostHalf, Return, TakeEvent, GetMsg,
           Flush, RecvApi, ReapPeers, Discover, StartBeacon, Die, Tick, world
  <2> QED BY <2>1 DEF OneGroup
<1> QED BY <1>3, <1>4, <1>5, <1>6, NextShape DEF NodeStep, WorldStep

LEMMA InitFollows == Init => OneGroup /\ Follow /\ Fitting
<1> SUFFICES ASSUME Init PROVE OneGroup /\ Follow /\ Fitting
  OBVIOUS
<1>1. OneGroup
  <2>1. Len(inbox) = 0
    BY DEF Init
  <2> QED BY <2>1 DEF OneGroup
<1>2. Coming = <<>>
  <2>1. events = <<>> /\ todo = <<>>
    BY DEF Init
  <2>2. Len(events) = 0 /\ 1 .. 0 = {}
    BY <2>1
  <2> DEFINE W == [i \in 1 .. Len(events) |-> Event(events[i])]
  <2>3. W = <<>>
    BY <2>2
  <2> HIDE DEF W
  <2>4. <<>> \o <<>> = <<>>
    OBVIOUS
  <2>5. Coming = W \o todo
    BY DEF Coming, W
  <2> QED BY <2>1, <2>3, <2>4, <2>5
<1>3. view = Shown
  <2>1. Announced(peers) = {}
    BY DEF Init, Announced, Unknown
  <2>2. Grouped(members) = [g \in Group |-> {}]
    BY DEF Init, Grouped
  <2>3. view = NoView
    BY DEF Init
  <2> QED BY <2>1, <2>2, <2>3 DEF Shown, ViewOf, View, NoView
<1>4. Follow
  BY <1>2, <1>3, LeadsNowhere DEF Follow
<1>5. Fitting
  <2>1. \A p \in Peer : peers[p].state = "unknown" /\ ~peers[p].met
    BY DEF Init, Unknown
  <2>2. Grouped(members) = [g \in Group |-> {}]
    BY DEF Init, Grouped
  <2> QED BY <2>1, <2>2 DEF Fitting, Fits
<1> QED BY <1>1, <1>4, <1>5

LEMMA NextFollows ==
    IInv /\ Pairs /\ OneGroup /\ Follow /\ Fitting /\ [Next]_vars
        => OneGroup' /\ Follow' /\ Fitting'
<1> SUFFICES ASSUME IInv, Pairs, OneGroup, Follow, Fitting, [Next]_vars
             PROVE  OneGroup' /\ Follow' /\ Fitting'
  OBVIOUS
<1>1. Wellformed /\ EventsOK /\ PeersOK
  BY PairsWellformed DEF IInv
<1>2. CASE UNCHANGED vars
  <2>1. OneGroup'
    BY <1>2 DEF OneGroup, vars, world
  <2> QED BY <1>1, <1>2, <2>1, OthersKeepFollowing
<1>3. CASE Next
  <2>1. OneGroup'
    BY <1>3, InboxKeepsOneGroup
  <2>2. Follow' /\ Fitting'
    BY <1>1, <1>3, NextShape, FlushFollows, TakeEventFollows, ApiStepFollows,
       NodeStepFollows, OthersKeepFollowing
  <2> QED BY <2>1, <2>2
<1> QED BY <1>2, <1>3

\* What an application builds from the events of its node - who is there, with
\* which headers and endpoint, who is in which group - is, once it has read those
\* written and those the node is about to write, what the tables of the node say:
\* the peers that were announced and have not been removed since, and who is in
\* which group.  That takes in every peer that is ready, however it came to be so,
\* and beyond them only those that a full mailbox or a peer at the same endpoint
\* has disconnected, of which nobody is told.
THEOREM EventsTellTheTables == Spec => []ViewFollows
<1>1. Spec => []Pairs
  BY Invariant, InitPairs, NextPairs, PTL DEF Spec
<1>2. Spec => [](OneGroup /\ Follow /\ Fitting)
  BY <1>1, Invariant, InitFollows, NextFollows, PTL DEF Spec
<1>3. IInv /\ Pairs /\ Follow /\ Fitting => ViewFollows
  BY PairsWellformed, FollowSuffices DEF IInv
<1> QED BY <1>1, <1>2, <1>3, Invariant, PTL

=============================================================================
