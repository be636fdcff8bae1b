--------------------------- MODULE ZyreNodeProofs ---------------------------
(***************************************************************************)
(* Every handler leaves the node's tables consistent, and what a mailbox   *)
(* holds follows on what its receiver has read, for any number of nodes,   *)
(* groups and endpoints and any budget of faults: a lemma for each         *)
(* function of the C code, a step for each handler.                        *)
(***************************************************************************)
EXTENDS ZyreNode, FiniteSetTheorems, TLAPS

\* The tables of one node: the inductive part of the invariants, per record.
Sound(self) ==
    /\ self \in NodeState
    /\ self.connected \subseteq self.peers
    /\ self.ready \subseteq self.entered
    /\ self.entered \subseteq self.peers
    /\ \A g \in Group : self.peer_groups[g] \subseteq self.entered
    /\ \A s, t \in self.connected : EndpointOf[s] = EndpointOf[t] => s = t

\* What Send is given: a command that is not yet sequenced.
Draft == [command: Command, status: Status, groups: SUBSET Group]

-----------------------------------------------------------------------------
\* Counters of fixed width stay within their width.
LEMMA NextSequenceType ==
    ASSUME NEW x \in Sequence PROVE NextSequence(x) \in Sequence
BY WidthAssumption DEF NextSequence, Sequence

LEMMA NextStatusType ==
    ASSUME NEW x \in Status PROVE NextStatus(x) \in Status
BY WidthAssumption DEF NextStatus, Status

\* A mailbox queue stays a queue of messages when one is taken from it.
LEMMA TailType ==
    ASSUME NEW q \in Seq(Message), q # <<>>
    PROVE  Tail(q) \in Seq(Message) /\ Head(q) \in Message
OBVIOUS

LEMMA WithoutType ==
    ASSUME NEW q \in Seq(Message), NEW i \in DOMAIN q
    PROVE  Without(q, i) \in Seq(Message)
<1>1. i \in 1 .. Len(q) /\ Len(q) \in Nat
  OBVIOUS
<1>2. SubSeq(q, 1, i - 1) \in Seq(Message)
  BY <1>1
<1>3. SubSeq(q, i + 1, Len(q)) \in Seq(Message)
  BY <1>1
<1> QED BY <1>2, <1>3 DEF Without

\* Replacing one mailbox queue leaves the tables as they are.
LEMMA QueueSound ==
    ASSUME NEW self, Sound(self), NEW e \in Endpoint, NEW q \in Seq(Message)
    PROVE  Sound([self EXCEPT !.mailbox[e] = q])
BY DEF Sound, NodeState

-----------------------------------------------------------------------------
\* zyre_peer_disconnect
LEMMA DisconnectSound ==
    ASSUME NEW self, Sound(self), NEW S
    PROVE  /\ Sound(Disconnect(self, S))
           /\ Disconnect(self, S).peers = self.peers
           /\ Disconnect(self, S).connected = self.connected \ S
BY DEF Disconnect, Sound, NodeState

\* zyre_peer_send to any set of peers
LEMMA SendSound ==
    ASSUME NEW self, Sound(self), NEW S \in SUBSET Node, NEW msg \in Draft
    PROVE  Sound(Send(self, S, msg))
<1> DEFINE full == {s \in S : Full(self, EndpointOf[s])}
           cut == Disconnect(self, full)
           seq == [s \in Node |->
                     IF s \in S \cap self.connected
                     THEN NextSequence(cut.sent_sequence[s])
                     ELSE cut.sent_sequence[s]]
           next(e) == LET s == CHOOSE s \in At(self, S, e) : TRUE
                      IN [command |-> msg.command, status |-> msg.status,
                          groups |-> msg.groups,
                          sequence |-> NextSequence(self.sent_sequence[s]),
                          to |-> s]
           box == [e \in Endpoint |->
                     IF At(self, S, e) = {} \/ Full(self, e)
                     THEN cut.mailbox[e]
                     ELSE Append(cut.mailbox[e], next(e))]
<1>1. Sound(cut)
  BY DisconnectSound
<1>2. seq \in [Node -> Sequence]
  <2>1. \A s \in Node : cut.sent_sequence[s] \in Sequence
    BY <1>1 DEF Sound, NodeState
  <2> QED BY <2>1, NextSequenceType
<1>3. \A e \in Endpoint : At(self, S, e) # {} => next(e) \in Message
  <2> SUFFICES ASSUME NEW e \in Endpoint, At(self, S, e) # {}
               PROVE  next(e) \in Message
    OBVIOUS
  <2>1. PICK s \in At(self, S, e) : s = CHOOSE t \in At(self, S, e) : TRUE
    OBVIOUS
  <2>2. s \in Node
    BY <2>1 DEF At
  <2>3. NextSequence(self.sent_sequence[s]) \in Sequence
    BY <2>2, NextSequenceType DEF Sound, NodeState
  <2> QED BY <2>1, <2>2, <2>3 DEF Message, Draft
<1>4. box \in [Endpoint -> Seq(Message)]
  <2>1. \A e \in Endpoint : cut.mailbox[e] \in Seq(Message)
    BY <1>1 DEF Sound, NodeState
  <2>2. \A e \in Endpoint : At(self, S, e) # {}
                               => Append(cut.mailbox[e], next(e)) \in Seq(Message)
    BY <1>3, <2>1
  <2> QED BY <2>1, <2>2
<1>5. Send(self, S, msg) = [cut EXCEPT !.sent_sequence = seq, !.mailbox = box]
  BY DEF Send
<1> HIDE DEF cut, seq, box
<1> QED BY <1>1, <1>2, <1>4, <1>5 DEF Sound, NodeState

-----------------------------------------------------------------------------
\* zyre_node_remove_peer
LEMMA RemovePeersSound ==
    ASSUME NEW self, Sound(self), NEW S
    PROVE  /\ Sound(RemovePeers(self, S))
           /\ RemovePeers(self, S).peers = self.peers \ S
<1>1. 0 \in Sequence /\ 0 \in Status
  BY WidthAssumption DEF Sequence, Status
<1> QED BY <1>1 DEF RemovePeers, Sound, NodeState

\* zyre_peer_connect: the endpoint must have been purged.
LEMMA ConnectPeerSound ==
    ASSUME NEW self, Sound(self), NEW m \in Node,
           \A s \in self.connected : EndpointOf[s] # EndpointOf[m]
    PROVE  Sound(ConnectPeer(self, m)) /\ m \in ConnectPeer(self, m).peers
<1> DEFINE hello == [command |-> "HELLO", status |-> self.status,
                     groups |-> self.own_groups, sequence |-> 1, to |-> m]
           box == [self.mailbox EXCEPT ![EndpointOf[m]] = Append(@, hello)]
           seq == [self.sent_sequence EXCEPT ![m] = 1]
<1>1. 1 \in Sequence /\ EndpointOf[m] \in Endpoint
  BY WidthAssumption, EndpointAssumption DEF Sequence
<1>2. hello \in Message
  BY <1>1 DEF Message, Command, Sound, NodeState
<1>3. box \in [Endpoint -> Seq(Message)]
  BY <1>1, <1>2 DEF Sound, NodeState
<1>4. seq \in [Node -> Sequence]
  BY <1>1 DEF Sound, NodeState
<1>5. ConnectPeer(self, m) =
        [self EXCEPT !.peers = @ \cup {m}, !.connected = @ \cup {m},
                     !.sent_sequence = seq, !.mailbox = box]
  BY DEF ConnectPeer, Sound, NodeState
<1> DEFINE new == ConnectPeer(self, m)
<1>6. /\ new \in NodeState
      /\ new.peers = self.peers \cup {m}
      /\ new.connected = self.connected \cup {m}
      /\ new.ready = self.ready /\ new.entered = self.entered
      /\ new.peer_groups = self.peer_groups
  <2> HIDE DEF box, seq
  <2>1. /\ self.peers \cup {m} \in SUBSET Node
        /\ self.connected \cup {m} \in SUBSET Node
    BY DEF Sound, NodeState
  <2> QED BY <1>3, <1>4, <1>5, <2>1 DEF Sound, NodeState
<1>7. \A s, t \in new.connected : EndpointOf[s] = EndpointOf[t] => s = t
  BY <1>6 DEF Sound
<1> HIDE DEF new
<1>8. Sound(new) /\ m \in new.peers
  BY <1>6, <1>7 DEF Sound
<1> QED BY <1>8 DEF new

\* zyre_node_require_peer: the purge makes room for the new mailbox.
LEMMA RequirePeerSound ==
    ASSUME NEW self, Sound(self), NEW m \in Node, NEW connects
    PROVE  Sound(RequirePeer(self, m, connects))
<1> DEFINE old == At(self, Node, EndpointOf[m])
           purged == Disconnect(self, old)
<1>1. Sound(purged) /\ purged.connected = self.connected \ old
  BY DisconnectSound
<1>2. \A s \in purged.connected : EndpointOf[s] # EndpointOf[m]
  BY <1>1 DEF At, Sound, NodeState
<1>3. Sound(ConnectPeer(purged, m))
  BY <1>1, <1>2, ConnectPeerSound
<1> QED BY <1>1, <1>3 DEF RequirePeer

\* zyre_node_join_peer_group and zyre_node_leave_peer_group
LEMMA JoinPeerGroupSound ==
    ASSUME NEW self, Sound(self), NEW s \in self.entered, NEW g \in Group
    PROVE  Sound(JoinPeerGroup(self, s, g))
<1>1. s \in Node
  BY DEF Sound, NodeState
<1>2. [self.peer_status EXCEPT ![s] = NextStatus(@)] \in [Node -> Status]
  BY <1>1, NextStatusType DEF Sound, NodeState
<1> DEFINE them == self.peer_groups[g] \cup {s}
<1>3. [self.peer_groups EXCEPT ![g] = them] \in [Group -> SUBSET Node]
  BY <1>1 DEF Sound, NodeState
<1>4. \A h \in Group :
         [self.peer_groups EXCEPT ![g] = them][h] \subseteq self.entered
  BY DEF Sound, NodeState
<1> DEFINE pg == [self.peer_groups EXCEPT ![g] = them]
           ps == [self.peer_status EXCEPT ![s] = NextStatus(@)]
           new == [self EXCEPT !.peer_groups = pg, !.peer_status = ps]
<1>5. JoinPeerGroup(self, s, g) = new
  BY DEF JoinPeerGroup
<1> HIDE DEF pg, ps
<1>6. new \in NodeState
  BY <1>2, <1>3 DEF Sound, NodeState, pg, ps
<1>7. \A h \in Group : new.peer_groups[h] \subseteq new.entered
  BY <1>4 DEF Sound, NodeState, pg
<1> QED BY <1>5, <1>6, <1>7 DEF Sound, NodeState

LEMMA LeavePeerGroupSound ==
    ASSUME NEW self, Sound(self), NEW s \in Node, NEW g \in Group
    PROVE  Sound(LeavePeerGroup(self, s, g))
<1>1. [self.peer_status EXCEPT ![s] = NextStatus(@)] \in [Node -> Status]
  BY NextStatusType DEF Sound, NodeState
<1> QED BY <1>1 DEF LeavePeerGroup, Sound, NodeState

\* The end of the HELLO branch
LEMMA EnterPeerSound ==
    ASSUME NEW self, Sound(self), NEW s \in self.peers, NEW msg \in Message
    PROVE  Sound(EnterPeer(self, s, msg))
<1>1. 1 \in Sequence /\ s \in Node
  BY WidthAssumption DEF Sequence, Sound, NodeState
<1> DEFINE want == [self.want_sequence EXCEPT ![s] = 1]
           groups == [g \in Group |-> IF g \in msg.groups
                                      THEN self.peer_groups[g] \cup {s}
                                      ELSE self.peer_groups[g]]
           status == [self.peer_status EXCEPT ![s] = msg.status]
<1>2. /\ want \in [Node -> Sequence] /\ status \in [Node -> Status]
      /\ groups \in [Group -> SUBSET Node]
  BY <1>1 DEF Sound, NodeState, Message
<1>3. \A g \in Group : groups[g] \subseteq self.entered \cup {s}
  BY DEF Sound
<1>4. EnterPeer(self, s, msg) =
        [self EXCEPT !.ready = @ \cup {s}, !.entered = @ \cup {s},
                     !.want_sequence = want, !.peer_groups = groups,
                     !.peer_status = status]
  BY DEF EnterPeer, Sound, NodeState
<1> DEFINE new == EnterPeer(self, s, msg)
<1>5. /\ new \in NodeState
      /\ new.peers = self.peers /\ new.connected = self.connected
      /\ new.ready = self.ready \cup {s}
      /\ new.entered = self.entered \cup {s}
      /\ new.peer_groups = groups
  <2> HIDE DEF want, groups, status
  <2>1. /\ self.ready \cup {s} \in SUBSET Node
        /\ self.entered \cup {s} \in SUBSET Node
    BY <1>1 DEF Sound, NodeState
  <2> QED BY <1>2, <1>4, <2>1 DEF Sound, NodeState
<1> HIDE DEF new, groups
<1>6. Sound(new)
  BY <1>3, <1>5 DEF Sound
<1> QED BY <1>6 DEF new

LEMMA HelloSound ==
    ASSUME NEW self, Sound(self), NEW s \in Node, NEW msg \in Message,
           NEW connects
    PROVE  Sound(Hello(self, s, msg, connects))
<1> DEFINE fresh == IF s \in self.ready THEN RemovePeers(self, {s}) ELSE self
           current == RequirePeer(fresh, s, connects)
<1>1. Sound(fresh)
  BY RemovePeersSound
<1>2. Sound(current)
  BY <1>1, RequirePeerSound
<1> HIDE DEF current
<1>3. Sound(RemovePeers(current, {s}))
  BY <1>2, RemovePeersSound
<1>4. s \in current.peers => Sound(EnterPeer(current, s, msg))
  BY <1>2, EnterPeerSound
<1> USE DEF current
<1> QED BY <1>2, <1>3, <1>4 DEF Hello

-----------------------------------------------------------------------------
\* The inductive invariant: TypeOK, with the tables of every node sound.
IInv ==
    /\ node \in [Node -> NodeState]
    /\ \A n \in Node : Sound(node[n])
    /\ air \subseteq Beacon
    /\ published \subseteq Node
    /\ budget \in [BudgetKinds -> Nat]

LEMMA IInvImplies ==
    IInv => TypeOK /\ NoDanglingPeer /\ OneMailbox /\ AnnouncedFirst
<1> SUFFICES ASSUME IInv
             PROVE  TypeOK /\ NoDanglingPeer /\ OneMailbox /\ AnnouncedFirst
  OBVIOUS
<1>1. TypeOK
  BY DEF IInv, TypeOK
<1>2. NoDanglingPeer
  <2> SUFFICES ASSUME NEW n \in Node
               PROVE  /\ node[n].connected \cup node[n].ready \cup node[n].entered
                            \subseteq node[n].peers
                      /\ \A g \in Group : node[n].peer_groups[g] \subseteq node[n].peers
    BY DEF NoDanglingPeer
  <2>1. Sound(node[n])
    BY DEF IInv
  <2> QED BY <2>1 DEF Sound
<1>3. OneMailbox
  BY DEF IInv, OneMailbox, Sound
<1>4. AnnouncedFirst
  BY DEF IInv, AnnouncedFirst, Sound
<1> QED BY <1>1, <1>2, <1>3, <1>4

LEMMA NewNodeSound ==
    ASSUME NEW l \in Life, NEW box \in [Endpoint -> Seq(Message)]
    PROVE  Sound([NewNode EXCEPT !.life = l, !.mailbox = box])
<1>1. 0 \in Sequence /\ 0 \in Status
  BY WidthAssumption DEF Sequence, Status
<1>2. "created" \in Life
  BY DEF Life
<1>3. [e \in Endpoint |-> <<>>] \in [Endpoint -> Seq(Message)]
  OBVIOUS
<1> QED BY <1>1, <1>2, <1>3 DEF NewNode, Sound, NodeState

LEMMA InitInvariant == Init => IInv
<1> SUFFICES ASSUME Init PROVE IInv
  OBVIOUS
<1>1. 0 \in Sequence /\ 0 \in Status /\ "created" \in Life
  BY WidthAssumption DEF Sequence, Status, Life
<1>2. [e \in Endpoint |-> <<>>] \in [Endpoint -> Seq(Message)]
  OBVIOUS
<1>3. Sound(NewNode)
  BY <1>1, <1>2 DEF NewNode, Sound, NodeState
<1> QED BY <1>3, BudgetAssumption DEF Init, IInv, Sound

\* A step that puts a sound record in the place of one node is harmless.
LEMMA BecomeSound ==
    ASSUME IInv, NEW n \in Node, NEW self, Sound(self), Become(n, self)
    PROVE  node' \in [Node -> NodeState] /\ \A m \in Node : Sound(node'[m])
BY DEF Become, IInv, Sound

\* So is one that takes a message from s and leaves r in a sound state.
LEMMA TakenSound ==
    ASSUME IInv, NEW s \in Node, NEW r \in Node, Arriving(s, r) # <<>>
    PROVE  /\ Taken(s, r) \in [Node -> NodeState]
           /\ \A m \in Node : Sound(Taken(s, r)[m])
           /\ Front(s, r) \in Message
           /\ Taken(s, r)[r].peers = node[r].peers
           /\ Taken(s, r)[r].ready = node[r].ready
           /\ Taken(s, r)[r].entered = node[r].entered
<1>1. EndpointOf[r] \in Endpoint
  BY EndpointAssumption
<1>2. Arriving(s, r) \in Seq(Message)
  BY <1>1 DEF Arriving, IInv, NodeState
<1>3. Tail(Arriving(s, r)) \in Seq(Message) /\ Front(s, r) \in Message
  BY <1>2, TailType DEF Front
<1> DEFINE new == [node[s] EXCEPT !.mailbox[EndpointOf[r]] = Tail(Arriving(s, r))]
<1>4. Sound(new)
  BY <1>1, <1>3, QueueSound DEF IInv
<1>5. Taken(s, r) = [node EXCEPT ![s] = new]
  BY DEF Taken, Arriving, IInv, NodeState
<1>6. /\ new.peers = node[s].peers /\ new.ready = node[s].ready
      /\ new.entered = node[s].entered
  BY DEF IInv, NodeState
<1> HIDE DEF new
<1> QED BY <1>3, <1>4, <1>5, <1>6 DEF IInv, Sound

LEMMA FinishSound ==
    ASSUME IInv, NEW s \in Node, NEW r \in Node, Arriving(s, r) # <<>>,
           NEW self, Sound(self), Finish(s, r, self)
    PROVE  node' \in [Node -> NodeState] /\ \A m \in Node : Sound(node'[m])
<1>1. /\ Taken(s, r) \in [Node -> NodeState]
      /\ \A m \in Node : Sound(Taken(s, r)[m])
  BY TakenSound
<1> QED BY <1>1 DEF Finish, Sound

\* Spending from the budget keeps its type.
LEMMA SpendType ==
    ASSUME IInv, NEW k \in BudgetKinds, Spend(k, 1)
    PROVE  budget' \in [BudgetKinds -> Nat]
BY DEF IInv, Spend

LEMMA ConnectType ==
    ASSUME IInv, NEW connects \in BOOLEAN, Connect(connects)
    PROVE  budget' \in [BudgetKinds -> Nat]
BY SpendType DEF Connect, IInv, BudgetKinds

\* Accepting a message counts it and changes nothing else.
LEMMA CountedSound ==
    ASSUME IInv, NEW s \in Node, NEW r \in Node, Arriving(s, r) # <<>>
    PROVE  /\ Sound(Counted(s, r))
           /\ Counted(s, r).entered = node[r].entered
           /\ Front(s, r) \in Message
<1> DEFINE old == Taken(s, r)[r]
           want == [old.want_sequence EXCEPT ![s] = NextSequence(@)]
<1>1. Sound(old) /\ old.entered = node[r].entered /\ Front(s, r) \in Message
  BY TakenSound
<1>2. want \in [Node -> Sequence]
  BY <1>1, NextSequenceType DEF Sound, NodeState
<1>3. Counted(s, r) = [old EXCEPT !.want_sequence = want]
  BY <1>1 DEF Counted, Sound, NodeState
<1> HIDE DEF old, want
<1> QED BY <1>1, <1>2, <1>3 DEF Sound, NodeState

LEMMA CheckedSound ==
    ASSUME NEW self, Sound(self), NEW s, NEW msg
    PROVE  Sound(Checked(self, s, msg))
<1>1. self.mailbox \in [Endpoint -> Seq(Message)] /\ "aborted" \in Life
  BY DEF Sound, NodeState, Life
<1> QED BY <1>1, NewNodeSound DEF Checked

LEMMA MsgType ==
    ASSUME NEW c \in Command, NEW st \in Status, NEW gs \in SUBSET Group
    PROVE  Msg(c, st, gs) \in Draft
BY DEF Msg, Draft

LEMMA ZeroStatus == 0 \in Status
BY WidthAssumption DEF Status

-----------------------------------------------------------------------------
\* One lemma per source of input.

LEMMA ApiInvariant ==
    ASSUME IInv, NEW n \in Node, Api(n)
    PROVE  IInv'
<1>0. Sound(node[n]) /\ node[n] \in NodeState
  BY DEF IInv
<1>1. CASE Start(n)
  <2>1. Sound([node[n] EXCEPT !.life = "running"])
    BY <1>0 DEF Sound, NodeState, Life
  <2>2. Become(n, [node[n] EXCEPT !.life = "running"])
    BY <1>1 DEF Start, Become
  <2> QED BY <1>1, <2>1, <2>2, BecomeSound DEF Start, IInv
<1>2. CASE Stop(n)
  <2> DEFINE self == IF Gossip
                     THEN Send(node[n], node[n].peers, Msg("GOODBYE", 0, {}))
                     ELSE node[n]
  <2>1. Msg("GOODBYE", 0, {}) \in Draft
    BY ZeroStatus, MsgType DEF Command
  <2>2. Sound(self)
    BY <1>0, <2>1, SendSound DEF NodeState
  <2> HIDE DEF self
  <2>3. Sound([self EXCEPT !.life = "stopped"])
    BY <2>2 DEF Sound, NodeState, Life
  <2>4. Become(n, [self EXCEPT !.life = "stopped"])
    BY <1>2 DEF Stop, self
  <2>5. air' \subseteq Beacon
    BY <1>2, <1>0 DEF Stop, Trail, IInv
  <2> QED BY <1>2, <2>3, <2>4, <2>5, BecomeSound, SpendType
          DEF Stop, IInv, BudgetKinds
<1>3. CASE Destroy(n)
  <2>1. Sound([NewNode EXCEPT !.life = "dead", !.mailbox = node[n].mailbox])
    BY <1>0, NewNodeSound DEF NodeState, Life
  <2>2. air' \subseteq Beacon
    BY <1>3, <1>0 DEF Destroy, Trail, IInv
  <2> QED BY <1>3, <2>1, <2>2, BecomeSound, SpendType
          DEF Destroy, IInv, BudgetKinds
<1>4. ASSUME NEW g \in Group, Join(n, g) PROVE IInv'
  <2> DEFINE status == NextStatus(node[n].status)
             self == [node[n] EXCEPT !.own_groups = @ \cup {g}, !.status = status]
  <2>1. status \in Status
    BY <1>0, NextStatusType DEF NodeState
  <2>2. node[n].own_groups \cup {g} \in SUBSET Group
    BY <1>0 DEF NodeState
  <2>3. Sound(self)
    <3> HIDE DEF status
    <3> QED BY <1>0, <2>1, <2>2 DEF Sound, NodeState
  <2>4. Msg("JOIN", status, {g}) \in Draft
    BY <2>1, MsgType DEF Command
  <2>5. Sound(Send(self, self.peers, Msg("JOIN", status, {g})))
    <3>1. self.peers \in SUBSET Node
      BY <2>3 DEF Sound, NodeState
    <3> HIDE DEF self
    <3> QED BY <2>3, <2>4, <3>1, SendSound
  <2>6. Become(n, Send(self, self.peers, Msg("JOIN", status, {g})))
    BY <1>4 DEF Join
  <2> QED BY <1>4, <2>5, <2>6, BecomeSound, SpendType DEF Join, IInv, BudgetKinds
<1>5. ASSUME NEW g \in Group, Leave(n, g) PROVE IInv'
  <2> DEFINE status == NextStatus(node[n].status)
             self == [node[n] EXCEPT !.own_groups = @ \ {g}, !.status = status]
  <2>1. status \in Status
    BY <1>0, NextStatusType DEF NodeState
  <2>2. node[n].own_groups \ {g} \in SUBSET Group
    BY <1>0 DEF NodeState
  <2>3. Sound(self)
    <3> HIDE DEF status
    <3> QED BY <1>0, <2>1, <2>2 DEF Sound, NodeState
  <2>4. Msg("LEAVE", status, {g}) \in Draft
    BY <2>1, MsgType DEF Command
  <2>5. Sound(Send(self, self.peers, Msg("LEAVE", status, {g})))
    <3>1. self.peers \in SUBSET Node
      BY <2>3 DEF Sound, NodeState
    <3> HIDE DEF self
    <3> QED BY <2>3, <2>4, <3>1, SendSound
  <2>6. Become(n, Send(self, self.peers, Msg("LEAVE", status, {g})))
    BY <1>5 DEF Leave
  <2> QED BY <1>5, <2>5, <2>6, BecomeSound, SpendType DEF Leave, IInv, BudgetKinds
<1>6. ASSUME NEW g \in Group, Shout(n, g) PROVE IInv'
  <2>1. Msg("SHOUT", 0, {g}) \in Draft
    BY ZeroStatus, MsgType DEF Command
  <2>2. Sound(Send(node[n], node[n].peer_groups[g], Msg("SHOUT", 0, {g})))
    BY <1>0, <2>1, SendSound DEF NodeState
  <2> QED BY <1>6, <2>2, BecomeSound, SpendType DEF Shout, IInv, BudgetKinds
<1>7. ASSUME NEW m \in Node, Whisper(n, m) PROVE IInv'
  <2>1. Msg("WHISPER", 0, {}) \in Draft
    BY ZeroStatus, MsgType DEF Command
  <2>2. Sound(Send(node[n], {m}, Msg("WHISPER", 0, {})))
    BY <1>0, <2>1, SendSound
  <2> QED BY <1>7, <2>2, BecomeSound, SpendType DEF Whisper, IInv, BudgetKinds
<1>8. ASSUME NEW m \in Node, RequirePeerCommand(n, m) PROVE IInv'
  <2>1. PICK connects \in BOOLEAN :
          /\ connects \/ budget.refuse > 0
          /\ budget' = [budget EXCEPT !.require = @ - 1,
                                      !.refuse = IF connects THEN @ ELSE @ - 1]
          /\ Become(n, RequirePeer(node[n], m, connects))
    BY <1>8 DEF RequirePeerCommand
  <2>2. budget' \in [BudgetKinds -> Nat]
    <3>1. budget.require > 0 /\ budget \in [BudgetKinds -> Nat]
      BY <1>8 DEF RequirePeerCommand, IInv
    <3>2. budget.require - 1 \in Nat
      BY <3>1 DEF BudgetKinds
    <3>3. (IF connects THEN budget.refuse ELSE budget.refuse - 1) \in Nat
      BY <2>1, <3>1 DEF BudgetKinds
    <3> QED BY <2>1, <3>1, <3>2, <3>3 DEF BudgetKinds
  <2>3. Sound(RequirePeer(node[n], m, connects))
    BY <1>0, RequirePeerSound
  <2> QED BY <1>8, <2>1, <2>2, <2>3, BecomeSound DEF RequirePeerCommand, IInv
<1> QED BY <1>1, <1>2, <1>3, <1>4, <1>5, <1>6, <1>7, <1>8 DEF Api

LEMMA RecvPeerInvariant ==
    ASSUME IInv, NEW s \in Node, NEW r \in Node, RecvPeer(s, r)
    PROVE  IInv'
<1> DEFINE m == Front(s, r)
           old == Taken(s, r)[r]
           new == Counted(s, r)
<1>1. Arriving(s, r) # <<>> /\ UNCHANGED <<air, published>>
  BY DEF RecvPeer, RecvHello, RecvIgnored, RecvLost, RecvData, RecvPing,
         RecvJoin, RecvLeave, RecvGoodbye, Accept, Receive
<1>2. /\ Sound(old) /\ m \in Message
      /\ old.peers = node[r].peers /\ old.ready = node[r].ready
  BY <1>1, TakenSound
<1>3. Sound(new) /\ new.entered = node[r].entered
  BY <1>1, CountedSound
<1>4. ASSUME NEW self, Sound(self), Handle(s, r, self) PROVE IInv'
  BY <1>1, <1>4, FinishSound DEF Handle, IInv
<1>5. s \in node[r].ready => s \in new.entered
  BY <1>3 DEF IInv, Sound
<1>6. m.groups \subseteq Group
  BY <1>2 DEF Message
<1> HIDE DEF m, old, new
<1>7. CASE RecvHello(s, r)
  <2>1. PICK connects \in BOOLEAN :
          Connect(connects) /\ Finish(s, r, Hello(old, s, m, connects))
    BY <1>7 DEF RecvHello, old, m
  <2>2. Sound(Hello(old, s, m, connects))
    BY <1>2, HelloSound
  <2> QED BY <1>1, <2>1, <2>2, FinishSound, ConnectType DEF IInv
<1>8. CASE RecvIgnored(s, r)
  BY <1>2, <1>4, <1>8 DEF RecvIgnored, old
<1>9. CASE RecvLost(s, r)
  <2>1. Sound(RemovePeers(old, {s}))
    BY <1>2, RemovePeersSound
  <2> QED BY <1>4, <1>9, <2>1 DEF RecvLost, old
<1>10. CASE RecvData(s, r)
  BY <1>3, <1>4, <1>10 DEF RecvData, new
<1>11. CASE RecvPing(s, r)
  <2>1. Msg("PING_OK", 0, {}) \in Draft
    BY ZeroStatus, MsgType DEF Command
  <2>2. Sound(Send(new, {s}, Msg("PING_OK", 0, {})))
    BY <1>3, <2>1, SendSound
  <2> QED BY <1>4, <1>11, <2>2 DEF RecvPing, new
<1>12. CASE RecvJoin(s, r)
  <2>1. PICK g \in m.groups : Handle(s, r, Checked(JoinPeerGroup(new, s, g), s, m))
    BY <1>12 DEF RecvJoin, new, m
  <2>2. s \in new.entered /\ g \in Group
    BY <1>5, <1>6, <1>12 DEF RecvJoin, Accept
  <2>3. Sound(JoinPeerGroup(new, s, g))
    BY <1>3, <2>2, JoinPeerGroupSound
  <2>4. Sound(Checked(JoinPeerGroup(new, s, g), s, m))
    BY <2>3, CheckedSound
  <2> QED BY <1>4, <2>1, <2>4
<1>13. CASE RecvLeave(s, r)
  <2>1. PICK g \in m.groups : Handle(s, r, Checked(LeavePeerGroup(new, s, g), s, m))
    BY <1>13 DEF RecvLeave, new, m
  <2>2. Sound(LeavePeerGroup(new, s, g))
    BY <1>3, <1>6, LeavePeerGroupSound
  <2>3. Sound(Checked(LeavePeerGroup(new, s, g), s, m))
    BY <2>2, CheckedSound
  <2> QED BY <1>4, <2>1, <2>3
<1>14. CASE RecvGoodbye(s, r)
  <2>1. Sound(RemovePeers(new, {s}))
    BY <1>3, RemovePeersSound
  <2>2. Sound(IF Gossip THEN RemovePeers(new, {s}) ELSE new)
    BY <1>3, <2>1
  <2> QED BY <1>4, <1>14, <2>2 DEF RecvGoodbye, new
<1> QED BY <1>7, <1>8, <1>9, <1>10, <1>11, <1>12, <1>13, <1>14 DEF RecvPeer

LEMMA DiscoverInvariant ==
    ASSUME IInv, NEW n \in Node, Discover(n)
    PROVE  IInv'
<1>0. Sound(node[n]) /\ node[n] \in NodeState
  BY DEF IInv
<1>1. ASSUME NEW m \in Node, RecvBeacon(n, m) PROVE IInv'
  <2>1. PICK connects \in BOOLEAN :
          Connect(connects) /\ Become(n, RequirePeer(node[n], m, connects))
    BY <1>1 DEF RecvBeacon
  <2>2. Sound(RequirePeer(node[n], m, connects))
    BY <1>0, RequirePeerSound
  <2> QED BY <1>1, <2>1, <2>2, BecomeSound, ConnectType DEF RecvBeacon, IInv
<1>2. ASSUME NEW m \in Node, RecvGossip(n, m) PROVE IInv'
  <2> DEFINE self == [node[n] EXCEPT !.heard = @ \cup {m}]
  <2>1. PICK connects \in BOOLEAN :
          /\ Connect(connects)
          /\ Become(n, IF EndpointOf[m] = EndpointOf[n] THEN self
                       ELSE RequirePeer(self, m, connects))
    BY <1>2 DEF RecvGossip
  <2>2. Sound(self)
    BY <1>0 DEF Sound, NodeState
  <2> HIDE DEF self
  <2>3. Sound(IF EndpointOf[m] = EndpointOf[n] THEN self
              ELSE RequirePeer(self, m, connects))
    BY <2>2, RequirePeerSound
  <2> QED BY <1>2, <2>1, <2>3, BecomeSound, ConnectType DEF RecvGossip, IInv
<1>3. ASSUME NEW b \in air, RecvLateBeacon(n, b) PROVE IInv'
  <2>0. b.from \in Node /\ b.live \in BOOLEAN
    BY DEF IInv, Beacon
  <2>1. PICK connects \in BOOLEAN :
          /\ Connect(connects)
          /\ Become(n, IF b.live THEN RequirePeer(node[n], b.from, connects)
                       ELSE RemovePeers(node[n], {b.from} \cap node[n].peers))
    BY <1>3 DEF RecvLateBeacon
  <2>2. Sound(IF b.live THEN RequirePeer(node[n], b.from, connects)
              ELSE RemovePeers(node[n], {b.from} \cap node[n].peers))
    BY <1>0, <2>0, RequirePeerSound, RemovePeersSound
  <2> QED BY <1>3, <2>1, <2>2, BecomeSound, ConnectType DEF RecvLateBeacon, IInv
<1> QED BY <1>1, <1>2, <1>3 DEF Discover

LEMMA ReaperInvariant ==
    ASSUME IInv, NEW n \in Node, Reaper(n)
    PROVE  IInv'
<1>0. Sound(node[n]) /\ node[n] \in NodeState
  BY DEF IInv
<1>1. PICK expired \in SUBSET node[n].peers, evasive \in SUBSET node[n].peers :
        Reap(n, expired, evasive)
  BY DEF Reaper
<1> DEFINE wronged == Cardinality({m \in expired : ~Silent(n, m)})
           pinged == Cardinality(evasive)
<1>2. expired \in SUBSET Node /\ evasive \in SUBSET Node
  BY <1>0 DEF NodeState
<1>3. wronged \in Nat /\ pinged \in Nat
  <2>1. IsFiniteSet({m \in expired : ~Silent(n, m)}) /\ IsFiniteSet(evasive)
    BY <1>2, NodeAssumption, FS_Subset
  <2> QED BY <2>1, FS_CardinalityType
<1>4. budget' \in [BudgetKinds -> Nat]
  <2>1. /\ budget.suspect >= wronged /\ budget.ping >= pinged
        /\ budget' = [budget EXCEPT !.suspect = @ - wronged, !.ping = @ - pinged]
    BY <1>1 DEF Reap
  <2> HIDE DEF wronged, pinged
  <2>2. budget \in [BudgetKinds -> Nat]
    BY DEF IInv
  <2>3. budget.suspect - wronged \in Nat /\ budget.ping - pinged \in Nat
    BY <1>3, <2>1, <2>2 DEF BudgetKinds
  <2> QED BY <2>1, <2>2, <2>3 DEF BudgetKinds
<1>5. Msg("PING", 0, {}) \in Draft
  BY ZeroStatus, MsgType DEF Command
<1>6. Sound(Send(RemovePeers(node[n], expired), evasive, Msg("PING", 0, {})))
  BY <1>0, <1>2, <1>5, RemovePeersSound, SendSound
<1> QED BY <1>1, <1>4, <1>6, BecomeSound DEF Reap, IInv

LEMMA NetworkInvariant ==
    ASSUME IInv, NEW s \in Node, Network(s)
    PROVE  IInv'
<1>1. PICK e \in Endpoint : Discard(s, e) \/ Drop(s, e)
  BY DEF Network
<1>2. PICK i \in DOMAIN node[s].mailbox[e] :
        node' = [node EXCEPT ![s].mailbox[e] = Without(@, i)]
  BY <1>1 DEF Discard, Drop
<1> DEFINE q == node[s].mailbox[e]
           self == [node[s] EXCEPT !.mailbox[e] = Without(q, i)]
<1>3. Without(q, i) \in Seq(Message)
  BY <1>2, WithoutType DEF IInv, NodeState
<1>4. Sound(self)
  BY <1>3, QueueSound DEF IInv
<1>5. Become(s, self)
  BY <1>2 DEF Become, IInv, NodeState
<1>6. budget' \in [BudgetKinds -> Nat]
  BY <1>1, SpendType DEF Discard, Drop, IInv, BudgetKinds
<1> HIDE DEF self
<1> QED BY <1>1, <1>4, <1>5, <1>6, BecomeSound DEF Discard, Drop, IInv

\* Every step of every node, and of the network between them.
LEMMA NextInvariant == IInv /\ [Next]_vars => IInv'
<1> SUFFICES ASSUME IInv, [Next]_vars PROVE IInv'
  OBVIOUS
<1>1. CASE UNCHANGED vars
  BY <1>1 DEF vars, IInv, Sound
<1>2. ASSUME NEW n \in Node, Api(n) \/ Discover(n) \/ Reaper(n) \/ Network(n)
      PROVE  IInv'
  BY <1>2, ApiInvariant, DiscoverInvariant, ReaperInvariant, NetworkInvariant
<1>3. ASSUME NEW n \in Node, NEW s \in Node, RecvPeer(s, n) PROVE IInv'
  BY <1>3, RecvPeerInvariant
<1> QED BY <1>1, <1>2, <1>3 DEF Next

\* The types and the consistency of the peer, mailbox and group tables hold
\* for good: zyre_node_remove_peer, zyre_node_require_peer and the HELLO branch
\* of zyre_node_recv_peer leave no group with a freed peer, no endpoint with
\* two mailboxes and no event of a peer that was not announced.
THEOREM Invariant == Spec => []IInv
<1>1. Init => IInv
  BY InitInvariant
<1>2. IInv /\ [Next]_vars => IInv'
  BY NextInvariant
<1> QED BY <1>1, <1>2, PTL DEF Spec

\* Counters keep their width, tables hold nodes, queues hold messages.
THEOREM TypeCorrect == Spec => []TypeOK
<1>1. IInv => TypeOK
  BY IInvImplies
<1> QED BY <1>1, Invariant, PTL

\* Whoever is in a group, connected or ready is in the peers table, so the
\* pointers zyre_group_send follows are never dangling.
THEOREM NoDanglingPeers == Spec => []NoDanglingPeer
<1>1. IInv => NoDanglingPeer
  BY IInvImplies
<1> QED BY <1>1, Invariant, PTL

\* The purge of zyre_node_require_peer leaves at most one open mailbox per
\* endpoint, whatever uuids discovery announces for it.
THEOREM OneMailboxPerEndpoint == Spec => []OneMailbox
<1>1. IInv => OneMailbox
  BY IInvImplies
<1> QED BY <1>1, Invariant, PTL

\* ENTER comes before every other event of a peer.
THEOREM EnterComesFirst == Spec => []AnnouncedFirst
<1>1. IInv => AnnouncedFirst
  BY IInvImplies
<1> QED BY <1>1, Invariant, PTL

-----------------------------------------------------------------------------
(***************************************************************************)
(* What a mailbox holds, for any number of nodes, groups and endpoints, any *)
(* widths of the counters and any high-water mark: as long as no connection *)
(* has broken, no receiver ever sees a gap, and the status assertion of     *)
(* JOIN and LEAVE never fails.                                             *)
(*                                                                         *)
(* Both results say of the front of a queue how it relates to the receiver *)
(* and neither is inductive: what is at the front tomorrow is in the middle*)
(* of the queue today, and what is sent tomorrow follows on what was sent  *)
(* last.  The invariant therefore says of every queue that each message    *)
(* follows on the one before, or is the HELLO of a new mailbox (Stream);   *)
(* of the sender that it goes on where the queue of its open mailbox ends  *)
(* (EndsWith); and of a receiver that heard a HELLO that the queue goes on *)
(* where it stands (Begins, Through).                                      *)
(***************************************************************************)

-----------------------------------------------------------------------------
(***************************************************************************)
(* Queues.                                                                 *)
(***************************************************************************)
\* The messages that name a status.
Tells(m) == m.command \in {"HELLO", "JOIN", "LEAVE"}

\* Nothing between i and j names a status.
Silence(q, i, j) == \A k \in DOMAIN q : i < k /\ k < j => ~Tells(q[k])

\* A HELLO starts the numbers, each other message has the next one; a JOIN or
\* a LEAVE has the status that follows on the one named last.
Stream(q) ==
    /\ \A i \in DOMAIN q : q[i].command = "HELLO" => q[i].sequence = 1
    /\ \A i, j \in DOMAIN q : (j = i + 1 /\ q[j].command # "HELLO")
          => q[j].sequence = NextSequence(q[i].sequence)
    /\ \A i, j \in DOMAIN q :
          (i < j /\ Tells(q[i]) /\ q[j].command \in {"JOIN", "LEAVE"} /\ Silence(q, i, j))
             => q[j].status = NextStatus(q[i].status)

\* The last number in the queue is n and the last status named is x.
EndsWith(q, n, x) ==
    /\ q # <<>> => q[Len(q)].sequence = n
    /\ \A i \in DOMAIN q : (Tells(q[i]) /\ Silence(q, i, Len(q) + 1)) => q[i].status = x

\* The queue starts with a HELLO or goes on from the number w and the status y.
Begins(q, w, y) ==
    /\ q # <<>> => q[1].command = "HELLO" \/ q[1].sequence = NextSequence(w)
    /\ \A j \in DOMAIN q :
          (q[j].command \in {"JOIN", "LEAVE"} /\ Silence(q, 0, j))
             => q[j].status = NextStatus(y)

\* Who has w and y and handles the queue has n and x, as far as the queue does
\* not say so itself.
Through(q, w, y, n, x) ==
    /\ q = <<>> => w = n
    /\ Silence(q, 0, Len(q) + 1) => y = x

\* A sequenced message is sent over the mailbox that is open.
LEMMA AppendStream ==
    ASSUME NEW q \in Seq(Message), NEW m \in Message, NEW n, NEW x, NEW z,
           Stream(q), EndsWith(q, n, x),
           m.command # "HELLO", m.sequence = NextSequence(n),
           IF Tells(m) THEN m.status = NextStatus(x) /\ z = m.status ELSE z = x
    PROVE  /\ Stream(Append(q, m)) /\ EndsWith(Append(q, m), NextSequence(n), z)
           /\ \A w, y : (Begins(q, w, y) /\ Through(q, w, y, n, x))
                 => /\ Begins(Append(q, m), w, y)
                    /\ Through(Append(q, m), w, y, NextSequence(n), z)
<1> DEFINE p == Append(q, m)
           l == Len(q)
<1>1. /\ l \in Nat /\ Len(p) = l + 1 /\ DOMAIN q = 1 .. l /\ DOMAIN p = 1 .. l + 1
      /\ p \in Seq(Message) /\ p # <<>>
      /\ \A i \in 1 .. l : p[i] = q[i]
      /\ p[l + 1] = m
      /\ q = <<>> <=> l = 0
  OBVIOUS
<1> HIDE DEF p, l
<1>2. \A i, j \in 0 .. l + 1 : Silence(p, i, j) <=> Silence(q, i, j)
  BY <1>1 DEF Silence
<1>3. Silence(p, 0, l + 2) <=> (Silence(q, 0, l + 1) /\ ~Tells(m))
  BY <1>1 DEF Silence
<1>4. \A i \in 1 .. l : Silence(p, i, l + 2) <=> (Silence(q, i, l + 1) /\ ~Tells(m))
  BY <1>1 DEF Silence
<1>5. Stream(p)
  <2>1. \A i \in DOMAIN p : p[i].command = "HELLO" => p[i].sequence = 1
    BY <1>1 DEF Stream
  <2>2. ASSUME NEW i \in DOMAIN p, NEW j \in DOMAIN p, j = i + 1, p[j].command # "HELLO"
        PROVE  p[j].sequence = NextSequence(p[i].sequence)
    <3>1. CASE j \in 1 .. l
      BY <1>1, <2>2, <3>1 DEF Stream
    <3>2. CASE j = l + 1
      <4>1. i = l /\ q # <<>> /\ p[i] = q[l]
        BY <1>1, <2>2, <3>2
      <4> QED BY <1>1, <3>2, <4>1 DEF EndsWith, l
    <3> QED BY <1>1, <3>1, <3>2
  <2>3. ASSUME NEW i \in DOMAIN p, NEW j \in DOMAIN p, i < j, Tells(p[i]),
               p[j].command \in {"JOIN", "LEAVE"}, Silence(p, i, j)
        PROVE  p[j].status = NextStatus(p[i].status)
    <3>0. i \in 1 .. l /\ p[i] = q[i] /\ Silence(q, i, j)
      BY <1>1, <1>2, <2>3
    <3>1. CASE j \in 1 .. l
      BY <1>1, <2>3, <3>0, <3>1 DEF Stream
    <3>2. CASE j = l + 1
      <4>1. q[i].status = x
        BY <1>1, <2>3, <3>0, <3>2 DEF EndsWith, l
      <4>2. Tells(m)
        BY <1>1, <2>3, <3>2 DEF Tells
      <4> QED BY <1>1, <3>0, <3>2, <4>1, <4>2
    <3> QED BY <1>1, <3>1, <3>2
  <2> QED BY <2>1, <2>2, <2>3 DEF Stream
<1>6. EndsWith(p, NextSequence(n), z)
  <2>1. p[Len(p)].sequence = NextSequence(n)
    BY <1>1
  <2>2. ASSUME NEW i \in DOMAIN p, Tells(p[i]), Silence(p, i, Len(p) + 1)
        PROVE  p[i].status = z
    <3>1. CASE i = l + 1
      BY <1>1, <2>2, <3>1
    <3>2. CASE i \in 1 .. l
      <4>1. Silence(q, i, l + 1) /\ ~Tells(m)
        BY <1>1, <1>4, <2>2, <3>2
      <4> QED BY <1>1, <2>2, <3>2, <4>1 DEF EndsWith, l
    <3> QED BY <1>1, <3>1, <3>2
  <2> QED BY <2>1, <2>2 DEF EndsWith
<1>7. ASSUME NEW w, NEW y, Begins(q, w, y), Through(q, w, y, n, x)
      PROVE  Begins(p, w, y) /\ Through(p, w, y, NextSequence(n), z)
  <2>1. p[1].command = "HELLO" \/ p[1].sequence = NextSequence(w)
    <3>1. CASE l = 0
      BY <1>1, <1>7, <3>1 DEF Through
    <3>2. CASE l # 0
      BY <1>1, <1>7, <3>2 DEF Begins
    <3> QED BY <3>1, <3>2
  <2>2. ASSUME NEW j \in DOMAIN p, p[j].command \in {"JOIN", "LEAVE"}, Silence(p, 0, j)
        PROVE  p[j].status = NextStatus(y)
    <3>0. Silence(q, 0, j)
      BY <1>1, <1>2, <2>2
    <3>1. CASE j \in 1 .. l
      BY <1>1, <1>7, <2>2, <3>0, <3>1 DEF Begins
    <3>2. CASE j = l + 1
      <4>1. y = x
        BY <1>7, <3>0, <3>2 DEF Through, l
      <4>2. Tells(m)
        BY <1>1, <2>2, <3>2 DEF Tells
      <4> QED BY <1>1, <3>2, <4>1, <4>2
    <3> QED BY <1>1, <3>1, <3>2
  <2>3. Silence(p, 0, Len(p) + 1) => y = z
    BY <1>1, <1>3, <1>7 DEF Through, l
  <2> QED BY <1>1, <2>1, <2>2, <2>3 DEF Begins, Through
<1> QED BY <1>5, <1>6, <1>7 DEF p

\* The HELLO of a new mailbox.
LEMMA HelloStream ==
    ASSUME NEW q \in Seq(Message), NEW m \in Message, Stream(q),
           m.command = "HELLO", m.sequence = 1
    PROVE  /\ Stream(Append(q, m)) /\ EndsWith(Append(q, m), 1, m.status)
           /\ \A w, y : Begins(q, w, y) => Begins(Append(q, m), w, y)
           /\ \A w, y, n, x : Through(Append(q, m), w, y, n, x)
<1> DEFINE p == Append(q, m)
           l == Len(q)
<1>1. /\ l \in Nat /\ Len(p) = l + 1 /\ DOMAIN q = 1 .. l /\ DOMAIN p = 1 .. l + 1
      /\ p \in Seq(Message) /\ p # <<>>
      /\ \A i \in 1 .. l : p[i] = q[i]
      /\ p[l + 1] = m
      /\ q = <<>> <=> l = 0
  OBVIOUS
<1> HIDE DEF p, l
<1>2. \A i, j \in 0 .. l + 1 : Silence(p, i, j) <=> Silence(q, i, j)
  BY <1>1 DEF Silence
<1>3. \A i \in 0 .. l : ~Silence(p, i, l + 2)
  BY <1>1 DEF Silence, Tells
<1>4. Stream(p)
  <2>1. \A i \in DOMAIN p : p[i].command = "HELLO" => p[i].sequence = 1
    BY <1>1 DEF Stream
  <2>2. ASSUME NEW i \in DOMAIN p, NEW j \in DOMAIN p, j = i + 1, p[j].command # "HELLO"
        PROVE  p[j].sequence = NextSequence(p[i].sequence)
    BY <1>1, <2>2 DEF Stream
  <2>3. ASSUME NEW i \in DOMAIN p, NEW j \in DOMAIN p, i < j, Tells(p[i]),
               p[j].command \in {"JOIN", "LEAVE"}, Silence(p, i, j)
        PROVE  p[j].status = NextStatus(p[i].status)
    <3>1. j \in 1 .. l /\ i \in 1 .. l
      BY <1>1, <2>3
    <3>2. Silence(q, i, j)
      BY <1>2, <2>3, <3>1, <1>1
    <3> QED BY <1>1, <2>3, <3>1, <3>2 DEF Stream
  <2> QED BY <2>1, <2>2, <2>3 DEF Stream
<1>5. EndsWith(p, 1, m.status)
  BY <1>1, <1>3 DEF EndsWith
<1>6. ASSUME NEW w, NEW y, Begins(q, w, y) PROVE Begins(p, w, y)
  <2>1. p[1].command = "HELLO" \/ p[1].sequence = NextSequence(w)
    BY <1>1, <1>6 DEF Begins
  <2>2. ASSUME NEW j \in DOMAIN p, p[j].command \in {"JOIN", "LEAVE"}, Silence(p, 0, j)
        PROVE  p[j].status = NextStatus(y)
    <3>1. j \in 1 .. l
      BY <1>1, <2>2
    <3> QED BY <1>1, <1>2, <1>6, <2>2, <3>1 DEF Begins
  <2> QED BY <2>1, <2>2 DEF Begins
<1>7. \A w, y, n, x : Through(p, w, y, n, x)
  BY <1>1, <1>3 DEF Through
<1> QED BY <1>4, <1>5, <1>6, <1>7 DEF p

\* The front of the queue is taken by the receiver: what it names is what the
\* receiver has afterwards.
LEMMA TailStream ==
    ASSUME NEW q \in Seq(Message), q # <<>>, Stream(q), NEW y
    PROVE  LET z == IF Tells(q[1]) THEN q[1].status ELSE y
           IN  /\ Stream(Tail(q))
               /\ (q[1].command = "HELLO" \/ \E w : Begins(q, w, y))
                     => Begins(Tail(q), q[1].sequence, z)
               /\ \A n, x : EndsWith(q, n, x) => EndsWith(Tail(q), n, x)
               /\ \A n, x : (EndsWith(q, n, x) /\ (Silence(q, 0, Len(q) + 1) => y = x))
                                => Through(Tail(q), q[1].sequence, z, n, x)
<1> DEFINE p == Tail(q)
           l == Len(q)
           z == IF Tells(q[1]) THEN q[1].status ELSE y
<1>1. /\ l \in Nat \ {0} /\ Len(p) = l - 1 /\ DOMAIN q = 1 .. l /\ DOMAIN p = 1 .. l - 1
      /\ p \in Seq(Message)
      /\ \A i \in 1 .. l - 1 : p[i] = q[i + 1]
      /\ p = <<>> <=> l = 1
  <2>1. l \in Nat \ {0} /\ DOMAIN q = 1 .. l
    OBVIOUS
  <2>2. p \in Seq(Message) /\ Len(p) = l - 1 /\ DOMAIN p = 1 .. Len(p)
    OBVIOUS
  <2>3. \A i \in 1 .. l - 1 : p[i] = q[i + 1]
    OBVIOUS
  <2>4. p = <<>> <=> Len(p) = 0
    <3>1. \A t \in Seq(Message) : t = <<>> <=> Len(t) = 0
      OBVIOUS
    <3> HIDE DEF p
    <3> QED BY <2>2, <3>1
  <2> HIDE DEF p, l
  <2> QED BY <2>1, <2>2, <2>3, <2>4
<1> HIDE DEF p, l
<1>2. \A i, j \in 0 .. l : Silence(p, i, j) <=> Silence(q, i + 1, j + 1)
  <2> SUFFICES ASSUME NEW i \in 0 .. l, NEW j \in 0 .. l
               PROVE  Silence(p, i, j) <=> Silence(q, i + 1, j + 1)
    OBVIOUS
  <2>1. ASSUME Silence(p, i, j) PROVE Silence(q, i + 1, j + 1)
    <3>1. ASSUME NEW k \in DOMAIN q, i + 1 < k, k < j + 1 PROVE ~Tells(q[k])
      <4>1. k - 1 \in DOMAIN p /\ i < k - 1 /\ k - 1 < j /\ p[k - 1] = q[k]
        BY <1>1, <3>1
      <4> QED BY <2>1, <4>1 DEF Silence
    <3> QED BY <3>1 DEF Silence
  <2>2. ASSUME Silence(q, i + 1, j + 1) PROVE Silence(p, i, j)
    <3>1. ASSUME NEW k \in DOMAIN p, i < k, k < j PROVE ~Tells(p[k])
      <4>1. k + 1 \in DOMAIN q /\ i + 1 < k + 1 /\ k + 1 < j + 1 /\ p[k] = q[k + 1]
        BY <1>1, <3>1
      <4> QED BY <2>2, <4>1 DEF Silence
    <3> QED BY <3>1 DEF Silence
  <2> QED BY <2>1, <2>2
<1>3. \A j \in 1 .. l + 1 : Silence(q, 0, j) <=> (Silence(q, 1, j) /\ (j > 1 => ~Tells(q[1])))
  BY <1>1 DEF Silence
<1>4. Stream(p)
  <2>1. \A i \in DOMAIN p : p[i].command = "HELLO" => p[i].sequence = 1
    <3>1. \A i \in DOMAIN p : i + 1 \in DOMAIN q /\ p[i] = q[i + 1]
      BY <1>1
    <3> QED BY <3>1 DEF Stream
  <2>2. ASSUME NEW i \in DOMAIN p, NEW j \in DOMAIN p, j = i + 1, p[j].command # "HELLO"
        PROVE  p[j].sequence = NextSequence(p[i].sequence)
    <3>1. i + 1 \in DOMAIN q /\ j + 1 \in DOMAIN q /\ p[i] = q[i + 1] /\ p[j] = q[j + 1]
      BY <1>1
    <3> QED BY <2>2, <3>1 DEF Stream
  <2>3. ASSUME NEW i \in DOMAIN p, NEW j \in DOMAIN p, i < j, Tells(p[i]),
               p[j].command \in {"JOIN", "LEAVE"}, Silence(p, i, j)
        PROVE  p[j].status = NextStatus(p[i].status)
    <3>1. /\ i + 1 \in DOMAIN q /\ j + 1 \in DOMAIN q /\ i + 1 < j + 1
          /\ p[i] = q[i + 1] /\ p[j] = q[j + 1] /\ i \in 0 .. l /\ j \in 0 .. l
      BY <1>1, <2>3
    <3>2. Silence(q, i + 1, j + 1)
      BY <1>2, <2>3, <3>1
    <3> QED BY <2>3, <3>1, <3>2 DEF Stream
  <2> QED BY <2>1, <2>2, <2>3 DEF Stream
<1>5. ASSUME q[1].command = "HELLO" \/ \E w : Begins(q, w, y)
      PROVE  Begins(p, q[1].sequence, z)
  <2>1. p # <<>> => p[1].command = "HELLO" \/ p[1].sequence = NextSequence(q[1].sequence)
    <3> SUFFICES ASSUME l # 1, p[1].command # "HELLO"
                 PROVE  p[1].sequence = NextSequence(q[1].sequence)
      BY <1>1
    <3>1. 1 \in DOMAIN q /\ 2 \in DOMAIN q /\ 2 = 1 + 1 /\ p[1] = q[2]
      BY <1>1
    <3> QED BY <3>1 DEF Stream
  <2>2. ASSUME NEW j \in DOMAIN p, p[j].command \in {"JOIN", "LEAVE"}, Silence(p, 0, j)
        PROVE  p[j].status = NextStatus(z)
    <3>1. /\ j + 1 \in DOMAIN q /\ p[j] = q[j + 1] /\ j \in 0 .. l /\ 0 \in 0 .. l
          /\ 1 < j + 1 /\ 1 \in DOMAIN q /\ j + 1 \in 1 .. l + 1
      BY <1>1
    <3>2. Silence(q, 1, j + 1)
      BY <1>2, <2>2, <3>1
    <3>3. CASE Tells(q[1])
      BY <2>2, <3>1, <3>2, <3>3 DEF Stream
    <3>4. CASE ~Tells(q[1])
      <4>1. q[1].command # "HELLO"
        BY <3>4 DEF Tells
      <4>2. PICK w : Begins(q, w, y)
        BY <1>5, <4>1
      <4>3. Silence(q, 0, j + 1)
        BY <1>3, <3>1, <3>2, <3>4
      <4> QED BY <2>2, <3>1, <3>4, <4>2, <4>3 DEF Begins
    <3> QED BY <3>3, <3>4
  <2> QED BY <2>1, <2>2 DEF Begins
<1>6. ASSUME NEW n, NEW x, EndsWith(q, n, x) PROVE EndsWith(p, n, x)
  <2>1. p # <<>> => p[Len(p)].sequence = n
    BY <1>1, <1>6 DEF EndsWith, l
  <2>2. ASSUME NEW i \in DOMAIN p, Tells(p[i]), Silence(p, i, Len(p) + 1)
        PROVE  p[i].status = x
    <3>1. /\ i + 1 \in DOMAIN q /\ p[i] = q[i + 1] /\ i \in 0 .. l
          /\ Len(p) + 1 = l /\ l \in 0 .. l
      BY <1>1
    <3>2. Silence(q, i + 1, l + 1)
      BY <1>2, <2>2, <3>1
    <3> QED BY <1>6, <2>2, <3>1, <3>2 DEF EndsWith, l
  <2> QED BY <2>1, <2>2 DEF EndsWith
<1>7. ASSUME NEW n, NEW x, EndsWith(q, n, x), Silence(q, 0, l + 1) => y = x
      PROVE  Through(p, q[1].sequence, z, n, x)
  <2>1. p = <<>> => q[1].sequence = n
    BY <1>1, <1>7 DEF EndsWith, l
  <2>2. ASSUME Silence(p, 0, Len(p) + 1) PROVE z = x
    <3>1. Silence(q, 1, l + 1) /\ 1 \in DOMAIN q /\ l + 1 \in 1 .. l + 1
      <4>1. Len(p) + 1 = l /\ l \in 0 .. l /\ 0 \in 0 .. l
        BY <1>1
      <4> QED BY <1>1, <1>2, <2>2, <4>1
    <3>2. CASE Tells(q[1])
      BY <1>7, <3>1, <3>2 DEF EndsWith, l
    <3>3. CASE ~Tells(q[1])
      BY <1>3, <1>7, <3>1, <3>3
    <3> QED BY <3>2, <3>3
  <2> QED BY <2>1, <2>2 DEF Through
<1> QED BY <1>4, <1>5, <1>6, <1>7 DEF p, l

\* A message is taken out of the queue.
LEMMA WithoutIndex ==
    ASSUME NEW q \in Seq(Message), NEW i \in DOMAIN q
    PROVE  LET p == Without(q, i)
               l == Len(q)
           IN  /\ l \in Nat /\ i \in 1 .. l /\ DOMAIN q = 1 .. l
               /\ Len(p) = l - 1 /\ DOMAIN p = 1 .. l - 1
               /\ p = <<>> <=> l = 1
               /\ \A j \in 1 .. i - 1 : p[j] = q[j]
               /\ \A j \in i .. l - 1 : p[j] = q[j + 1]
<1> DEFINE p == Without(q, i)
           l == Len(q)
           a == SubSeq(q, 1, i - 1)
           b == SubSeq(q, i + 1, l)
<1>1. l \in Nat /\ i \in 1 .. l /\ DOMAIN q = 1 .. l
  OBVIOUS
<1>2. a \in Seq(Message) /\ Len(a) = i - 1 /\ \A j \in 1 .. i - 1 : a[j] = q[j]
  BY <1>1
<1>3. b \in Seq(Message) /\ Len(b) = l - i /\ \A j \in 1 .. l - i : b[j] = q[i + j]
  BY <1>1
<1>4. p = a \o b
  BY DEF Without
<1> HIDE DEF a, b, p, l
<1>5. /\ p \in Seq(Message) /\ Len(p) = l - 1
      /\ \A j \in 1 .. i - 1 : p[j] = a[j]
      /\ \A j \in i .. l - 1 : p[j] = b[j - (i - 1)]
  <2>0. a \in Seq(Message) /\ b \in Seq(Message)
    BY <1>2, <1>3
  <2>1. a \o b \in Seq(Message) /\ Len(a \o b) = Len(a) + Len(b)
    BY <2>0
  <2>2. \A j \in 1 .. Len(a) + Len(b) :
           (a \o b)[j] = IF j <= Len(a) THEN a[j] ELSE b[j - Len(a)]
    BY <2>0
  <2>3. i \in Nat /\ i - 1 \in Nat /\ l - i \in Nat /\ (i - 1) + (l - i) = l - 1
    BY <1>1
  <2>4. p \in Seq(Message) /\ Len(p) = l - 1
    BY <1>2, <1>3, <1>4, <2>1, <2>3
  <2>5. ASSUME NEW j \in 1 .. i - 1 PROVE p[j] = a[j]
    <3>1. j \in 1 .. Len(a) + Len(b) /\ j <= Len(a)
      BY <1>2, <1>3, <2>3
    <3> QED BY <1>4, <2>2, <3>1
  <2>6. ASSUME NEW j \in i .. l - 1 PROVE p[j] = b[j - (i - 1)]
    <3>1. j \in 1 .. Len(a) + Len(b) /\ ~(j <= Len(a)) /\ Len(a) = i - 1
      BY <1>2, <1>3, <2>3
    <3> QED BY <1>4, <2>2, <3>1
  <2> QED BY <2>4, <2>5, <2>6
<1>6. \A j \in i .. l - 1 : p[j] = q[j + 1]
  <2> SUFFICES ASSUME NEW j \in i .. l - 1 PROVE p[j] = q[j + 1]
    OBVIOUS
  <2>1. j - (i - 1) \in 1 .. l - i /\ i + (j - (i - 1)) = j + 1
    BY <1>1
  <2> QED BY <1>3, <1>5, <2>1
<1>7. p = <<>> <=> Len(p) = 0
  <2>1. \A t \in Seq(Message) : t = <<>> <=> Len(t) = 0
    OBVIOUS
  <2> QED BY <1>5, <2>1
<1>8. p = <<>> <=> l = 1
  BY <1>1, <1>5, <1>7
<1> QED BY <1>1, <1>2, <1>5, <1>6, <1>8 DEF p, l

\* What is stale goes: the end of a mailbox before its successor, the end of one
\* that is closed, the front of what nobody will receive.
LEMMA WithoutStream ==
    ASSUME NEW q \in Seq(Message), NEW i \in DOMAIN q, Stream(q),
           (i < Len(q) /\ q[i + 1].command = "HELLO") \/ i = Len(q) \/ i = 1
    PROVE  LET p == Without(q, i)
           IN  /\ Stream(p)
               /\ i # Len(q) \/ i = 1 => \A n, x : EndsWith(q, n, x) => EndsWith(p, n, x)
               /\ (i < Len(q) /\ q[i + 1].command = "HELLO") =>
                     /\ \A w, y : Begins(q, w, y) => Begins(p, w, y)
                     /\ \A w, y, n, x : Through(p, w, y, n, x)
               /\ i = Len(q) => \A w, y : Begins(q, w, y) => Begins(p, w, y)
<1> DEFINE p == Without(q, i)
           l == Len(q)
<1>1. /\ l \in Nat /\ i \in 1 .. l /\ DOMAIN q = 1 .. l
      /\ Len(p) = l - 1 /\ DOMAIN p = 1 .. l - 1
      /\ p = <<>> <=> l = 1
      /\ q # <<>>
      /\ \A j \in 1 .. i - 1 : p[j] = q[j]
      /\ \A j \in i .. l - 1 : p[j] = q[j + 1]
  <2>1. q # <<>>
    OBVIOUS
  <2> HIDE DEF p, l
  <2>2. /\ l \in Nat /\ i \in 1 .. l /\ DOMAIN q = 1 .. l
        /\ Len(p) = l - 1 /\ DOMAIN p = 1 .. l - 1
        /\ p = <<>> <=> l = 1
        /\ \A j \in 1 .. i - 1 : p[j] = q[j]
        /\ \A j \in i .. l - 1 : p[j] = q[j + 1]
    BY WithoutIndex DEF p, l
  <2> QED BY <2>1, <2>2
<1>2. (i < l /\ q[i + 1].command = "HELLO") \/ i = l \/ i = 1
  OBVIOUS
<1> HIDE DEF p, l
<1>3. \A a, b \in 0 .. i : Silence(p, a, b) <=> Silence(q, a, b)
  BY <1>1 DEF Silence
<1>4. \A a \in i - 1 .. l, b \in i .. l : Silence(p, a, b) <=> Silence(q, a + 1, b + 1)
  <2> SUFFICES ASSUME NEW a \in i - 1 .. l, NEW b \in i .. l
               PROVE  Silence(p, a, b) <=> Silence(q, a + 1, b + 1)
    OBVIOUS
  <2>1. ASSUME Silence(p, a, b) PROVE Silence(q, a + 1, b + 1)
    <3>1. ASSUME NEW k \in DOMAIN q, a + 1 < k, k < b + 1 PROVE ~Tells(q[k])
      <4>1. k - 1 \in DOMAIN p /\ a < k - 1 /\ k - 1 < b /\ p[k - 1] = q[k]
        BY <1>1, <3>1
      <4> QED BY <2>1, <4>1 DEF Silence
    <3> QED BY <3>1 DEF Silence
  <2>2. ASSUME Silence(q, a + 1, b + 1) PROVE Silence(p, a, b)
    <3>1. ASSUME NEW k \in DOMAIN p, a < k, k < b PROVE ~Tells(p[k])
      <4>1. k + 1 \in DOMAIN q /\ a + 1 < k + 1 /\ k + 1 < b + 1 /\ p[k] = q[k + 1]
        BY <1>1, <3>1
      <4> QED BY <2>2, <4>1 DEF Silence
    <3> QED BY <3>1 DEF Silence
  <2> QED BY <2>1, <2>2
\* Nothing reaches across the place where the message was.
<1>5. ASSUME NEW a \in 0 .. l - 1, NEW b \in 1 .. l, a < i, i < b, Silence(p, a, b)
      PROVE  i = 1 /\ a = 0
  <2>1. i # l
    BY <1>1, <1>5
  <2>2. ~(i < l /\ q[i + 1].command = "HELLO")
    <3> SUFFICES ASSUME i < l, q[i + 1].command = "HELLO" PROVE FALSE
      OBVIOUS
    <3>1. i \in DOMAIN p /\ Tells(p[i])
      BY <1>1, <1>5 DEF Tells
    <3> QED BY <1>5, <3>1 DEF Silence
  <2> QED BY <1>1, <1>2, <1>5, <2>1, <2>2
<1>6. Stream(p)
  <2>1. \A j \in DOMAIN p : p[j].command = "HELLO" => p[j].sequence = 1
    <3>1. \A j \in DOMAIN p : \E k \in DOMAIN q : p[j] = q[k]
      <4> SUFFICES ASSUME NEW j \in DOMAIN p PROVE \E k \in DOMAIN q : p[j] = q[k]
        OBVIOUS
      <4>1. CASE j < i
        BY <1>1, <4>1
      <4>2. CASE j >= i
        <5>1. j + 1 \in DOMAIN q /\ p[j] = q[j + 1]
          BY <1>1, <4>2
        <5> QED BY <5>1
      <4> QED BY <1>1, <4>1, <4>2
    <3> QED BY <3>1 DEF Stream
  <2>2. ASSUME NEW a \in DOMAIN p, NEW b \in DOMAIN p, b = a + 1, p[b].command # "HELLO"
        PROVE  p[b].sequence = NextSequence(p[a].sequence)
    <3>1. CASE b < i
      BY <1>1, <2>2, <3>1 DEF Stream
    <3>2. CASE a >= i
      <4>1. /\ a + 1 \in DOMAIN q /\ b + 1 \in DOMAIN q /\ b + 1 = (a + 1) + 1
            /\ p[a] = q[a + 1] /\ p[b] = q[b + 1]
        BY <1>1, <2>2, <3>2
      <4> QED BY <2>2, <4>1 DEF Stream
    <3>3. CASE a < i /\ b >= i
      BY <1>1, <1>2, <2>2, <3>3
    <3> QED BY <1>1, <3>1, <3>2, <3>3
  <2>3. ASSUME NEW a \in DOMAIN p, NEW b \in DOMAIN p, a < b, Tells(p[a]),
               p[b].command \in {"JOIN", "LEAVE"}, Silence(p, a, b)
        PROVE  p[b].status = NextStatus(p[a].status)
    <3>1. CASE b < i
      BY <1>1, <1>3, <2>3, <3>1 DEF Stream
    <3>2. CASE a >= i
      <4>1. /\ a + 1 \in DOMAIN q /\ b + 1 \in DOMAIN q /\ a + 1 < b + 1
            /\ p[a] = q[a + 1] /\ p[b] = q[b + 1]
            /\ a \in i - 1 .. l /\ b \in i .. l
        BY <1>1, <2>3, <3>2
      <4>2. Silence(q, a + 1, b + 1)
        BY <1>4, <2>3, <4>1
      <4> QED BY <2>3, <4>1, <4>2 DEF Stream
    <3>3. CASE a < i /\ b >= i
      <4>1. a \in 0 .. l - 1 /\ b \in 1 .. l /\ a # 0
        BY <1>1
      <4>2. b = i
        BY <1>1, <1>5, <2>3, <3>3, <4>1
      <4>3. p[b] = q[i + 1] /\ i # l /\ i # 1
        BY <1>1, <2>3, <3>3, <4>2
      <4> QED BY <1>2, <2>3, <4>3
    <3> QED BY <1>1, <3>1, <3>2, <3>3
  <2> QED BY <2>1, <2>2, <2>3 DEF Stream
<1>7. ASSUME i # l \/ i = 1, NEW n, NEW x, EndsWith(q, n, x)
      PROVE  EndsWith(p, n, x)
  <2>1. p # <<>> => p[Len(p)].sequence = n
    <3> SUFFICES ASSUME l # 1 PROVE p[l - 1].sequence = n
      BY <1>1
    <3>1. l - 1 \in i .. l - 1 /\ p[l - 1] = q[l]
      BY <1>1, <1>7
    <3> QED BY <1>1, <1>7, <3>1 DEF EndsWith, l
  <2>2. ASSUME NEW a \in DOMAIN p, Tells(p[a]), Silence(p, a, Len(p) + 1)
        PROVE  p[a].status = x
    <3>0. Len(p) + 1 = l /\ l \in i .. l /\ Silence(p, a, l)
      BY <1>1, <2>2
    <3>1. CASE a >= i
      <4>1. a + 1 \in DOMAIN q /\ p[a] = q[a + 1] /\ a \in i - 1 .. l
        BY <1>1, <3>1
      <4>2. Silence(q, a + 1, l + 1)
        BY <1>4, <3>0, <4>1
      <4> QED BY <1>7, <2>2, <4>1, <4>2 DEF EndsWith, l
    <3>2. CASE a < i
      <4>1. a \in 0 .. l - 1 /\ l \in 1 .. l /\ i < l /\ a # 0
        BY <1>1, <1>7, <3>2
      <4> QED BY <1>5, <3>0, <3>2, <4>1
    <3> QED BY <1>1, <3>1, <3>2
  <2> QED BY <2>1, <2>2 DEF EndsWith
<1>8. ASSUME i < l, q[i + 1].command = "HELLO", NEW w, NEW y, Begins(q, w, y)
      PROVE  Begins(p, w, y)
  <2>1. p[1].command = "HELLO" \/ p[1].sequence = NextSequence(w)
    <3>1. CASE i = 1
      BY <1>1, <1>8, <3>1
    <3>2. CASE i # 1
      <4>1. p[1] = q[1]
        BY <1>1, <3>2
      <4> QED BY <1>1, <1>8, <4>1 DEF Begins
    <3> QED BY <3>1, <3>2
  <2>2. ASSUME NEW j \in DOMAIN p, p[j].command \in {"JOIN", "LEAVE"}, Silence(p, 0, j)
        PROVE  p[j].status = NextStatus(y)
    <3>1. i \in DOMAIN p /\ Tells(p[i]) /\ p[i].command = "HELLO"
      BY <1>1, <1>8 DEF Tells
    <3>2. ~(i < j) /\ j # i
      BY <1>1, <2>2, <3>1 DEF Silence
    <3>3. j \in 1 .. i - 1 /\ j \in 0 .. i /\ 0 \in 0 .. i
      BY <1>1, <3>2
    <3> QED BY <1>1, <1>3, <1>8, <2>2, <3>3 DEF Begins
  <2> QED BY <2>1, <2>2 DEF Begins
<1>9. ASSUME i < l, q[i + 1].command = "HELLO"
      PROVE  \A w, y, n, x : Through(p, w, y, n, x)
  <2>1. p # <<>> /\ i \in DOMAIN p /\ Tells(p[i]) /\ 0 < i /\ i < Len(p) + 1
    BY <1>1, <1>9 DEF Tells
  <2> QED BY <2>1 DEF Through, Silence
<1>10. ASSUME i = l, NEW w, NEW y, Begins(q, w, y) PROVE Begins(p, w, y)
  <2>1. p # <<>> => p[1] = q[1]
    BY <1>1, <1>10
  <2>2. ASSUME NEW j \in DOMAIN p, p[j].command \in {"JOIN", "LEAVE"}, Silence(p, 0, j)
        PROVE  p[j].status = NextStatus(y)
    <3>1. j \in 1 .. i - 1 /\ j \in 0 .. i /\ 0 \in 0 .. i /\ j \in DOMAIN q
      BY <1>1, <1>10
    <3> QED BY <1>1, <1>3, <1>10, <2>2, <3>1 DEF Begins
  <2> QED BY <1>1, <1>10, <2>1, <2>2 DEF Begins
<1> QED BY <1>6, <1>7, <1>8, <1>9, <1>10 DEF p, l

-----------------------------------------------------------------------------
(***************************************************************************)
(* The sender.                                                             *)
(***************************************************************************)
\* The peer whose mailbox to e is open: one at most.
Open(self, e) == {t \in self.connected : EndpointOf[t] = e}

\* Every queue is a stream that ends where the sender goes on.
Mail(self) ==
    /\ Sound(self)
    /\ \A e \in Endpoint :
          /\ Stream(self.mailbox[e])
          /\ \A t \in Open(self, e) :
                EndsWith(self.mailbox[e], self.sent_sequence[t], self.status)

\* A receiver behind e that has the number w and the status y can handle what
\* is in the queue, and then what an open mailbox will add to it.
Cont(self, e, w, y) ==
    /\ Begins(self.mailbox[e], w, y)
    /\ \A t \in Open(self, e) :
          Through(self.mailbox[e], w, y, self.sent_sequence[t], self.status)

\* Whoever could follow the mailboxes of old can follow those of new.
Extends(old, new) ==
    /\ Mail(new)
    /\ \A e \in Endpoint : \A w, y : Cont(old, e, w, y) => Cont(new, e, w, y)

LEMMA ExtendsTransitive ==
    ASSUME NEW a, NEW b, NEW c, Extends(a, b), Extends(b, c)
    PROVE  Extends(a, c)
BY DEF Extends

\* Mailboxes are closed, or a field that no message depends on is changed.
LEMMA SameMail ==
    ASSUME NEW old, NEW new, Mail(old), Sound(new),
           new.mailbox = old.mailbox,
           new.connected \subseteq old.connected,
           \A t \in new.connected : new.sent_sequence[t] = old.sent_sequence[t],
           new.status = old.status \/ new.connected = {}
    PROVE  Extends(old, new)
<1>1. \A e \in Endpoint : Open(new, e) \subseteq Open(old, e)
  BY DEF Open
<1>2. \A e \in Endpoint : \A t \in Open(new, e) :
        new.status = old.status /\ new.sent_sequence[t] = old.sent_sequence[t]
  BY DEF Open
<1>3. Mail(new)
  <2> SUFFICES ASSUME NEW e \in Endpoint
               PROVE  /\ Stream(new.mailbox[e])
                      /\ \A t \in Open(new, e) :
                            EndsWith(new.mailbox[e], new.sent_sequence[t], new.status)
    BY DEF Mail
  <2>1. Stream(new.mailbox[e])
    BY DEF Mail
  <2>2. ASSUME NEW t \in Open(new, e)
        PROVE  EndsWith(new.mailbox[e], new.sent_sequence[t], new.status)
    <3>1. EndsWith(old.mailbox[e], old.sent_sequence[t], old.status)
      BY <1>1 DEF Mail
    <3> QED BY <1>2, <3>1
  <2> QED BY <2>1, <2>2
<1>4. ASSUME NEW e \in Endpoint, NEW w, NEW y, Cont(old, e, w, y) PROVE Cont(new, e, w, y)
  <2>1. Begins(new.mailbox[e], w, y)
    BY <1>4 DEF Cont
  <2>2. ASSUME NEW t \in Open(new, e)
        PROVE  Through(new.mailbox[e], w, y, new.sent_sequence[t], new.status)
    <3>1. Through(old.mailbox[e], w, y, old.sent_sequence[t], old.status)
      BY <1>1, <1>4 DEF Cont
    <3> QED BY <1>2, <3>1
  <2> QED BY <2>1, <2>2 DEF Cont
<1> QED BY <1>3, <1>4 DEF Extends

\* What a queue gains when one of its mailboxes sends.
LEMMA Mailed ==
    ASSUME NEW old, NEW new, Mail(old), NEW e \in Endpoint, NEW s \in Node, NEW m \in Message,
           s \in Open(old, e), Open(new, e) \subseteq {s},
           new.mailbox[e] = Append(old.mailbox[e], m),
           new.sent_sequence[s] = NextSequence(old.sent_sequence[s]),
           m.command # "HELLO", m.sequence = NextSequence(old.sent_sequence[s]),
           IF Tells(m) THEN m.status = NextStatus(old.status) /\ new.status = m.status
                       ELSE new.status = old.status
    PROVE  /\ Stream(new.mailbox[e])
           /\ \A t \in Open(new, e) :
                 EndsWith(new.mailbox[e], new.sent_sequence[t], new.status)
           /\ \A w, y : Cont(old, e, w, y) => Cont(new, e, w, y)
<1> DEFINE q == old.mailbox[e]
           n == old.sent_sequence[s]
           x == old.status
           z == new.status
<1>1. q \in Seq(Message) /\ Stream(q) /\ EndsWith(q, n, x)
  BY DEF Mail, Sound, NodeState
<1>2. IF Tells(m) THEN m.status = NextStatus(x) /\ z = m.status ELSE z = x
  OBVIOUS
<1>3. m.sequence = NextSequence(n) /\ m.command # "HELLO"
  OBVIOUS
<1>4. new.mailbox[e] = Append(q, m) /\ new.sent_sequence[s] = NextSequence(n)
  OBVIOUS
<1>5. \A w, y : Cont(old, e, w, y) => Begins(q, w, y) /\ Through(q, w, y, n, x)
  BY DEF Cont
<1> HIDE DEF q, n, x, z
<1>6. /\ Stream(Append(q, m)) /\ EndsWith(Append(q, m), NextSequence(n), z)
      /\ \A w, y : (Begins(q, w, y) /\ Through(q, w, y, n, x))
            => /\ Begins(Append(q, m), w, y)
               /\ Through(Append(q, m), w, y, NextSequence(n), z)
  BY <1>1, <1>2, <1>3, AppendStream
<1>7. \A t \in Open(new, e) : new.sent_sequence[t] = NextSequence(n)
  BY <1>4
<1>8. \A w, y : Cont(old, e, w, y) => Cont(new, e, w, y)
  <2> SUFFICES ASSUME NEW w, NEW y, Cont(old, e, w, y) PROVE Cont(new, e, w, y)
    OBVIOUS
  <2>1. /\ Begins(Append(q, m), w, y)
        /\ Through(Append(q, m), w, y, NextSequence(n), z)
    BY <1>5, <1>6
  <2> QED BY <1>4, <1>7, <2>1 DEF Cont, z
<1> QED BY <1>4, <1>6, <1>7, <1>8 DEF z

\* zyre_peer_send to any set of peers.  A JOIN or a LEAVE goes to every peer,
\* with the status the sender has just stepped to.
LEMMA SendExtends ==
    ASSUME NEW old, NEW mid, Mail(old), Sound(mid),
           mid.mailbox = old.mailbox, mid.connected = old.connected,
           mid.sent_sequence = old.sent_sequence,
           NEW S \in SUBSET Node, NEW msg \in Draft, msg.command # "HELLO",
           IF Tells(msg)
           THEN /\ msg.status = NextStatus(old.status) /\ mid.status = msg.status
                /\ mid.connected \subseteq S
           ELSE mid.status = old.status
    PROVE  Extends(old, Send(mid, S, msg))
<1> DEFINE new == Send(mid, S, msg)
           full == {s \in S : Full(mid, EndpointOf[s])}
<1>1. Sound(new)
  BY SendSound
<1>2. /\ new.connected = mid.connected \ full
      /\ new.status = mid.status
      /\ \A t \in Node : new.sent_sequence[t] =
            IF t \in S \cap mid.connected THEN NextSequence(mid.sent_sequence[t])
                                          ELSE mid.sent_sequence[t]
      /\ \A e \in Endpoint :
            (At(mid, S, e) = {} \/ Full(mid, e)) => new.mailbox[e] = mid.mailbox[e]
  BY DEF Send, Disconnect, Sound, NodeState
<1>3. ASSUME NEW e \in Endpoint, At(mid, S, e) # {}, ~Full(mid, e)
      PROVE  LET s == CHOOSE s \in At(mid, S, e) : TRUE
             IN new.mailbox[e] = Append(mid.mailbox[e],
                   [command |-> msg.command, status |-> msg.status, groups |-> msg.groups,
                    sequence |-> NextSequence(mid.sent_sequence[s]), to |-> s])
  BY <1>3 DEF Send, Disconnect, Sound, NodeState
<1> HIDE DEF new, full
<1>4. mid.connected \subseteq Node
  BY DEF Sound, NodeState
<1>5. ASSUME NEW e \in Endpoint
      PROVE  /\ Stream(new.mailbox[e])
             /\ \A t \in Open(new, e) :
                   EndsWith(new.mailbox[e], new.sent_sequence[t], new.status)
             /\ \A w, y : Cont(old, e, w, y) => Cont(new, e, w, y)
  <2>0. Stream(old.mailbox[e])
    BY DEF Mail
  <2>1. CASE Full(mid, e) /\ At(mid, S, e) # {}
    <3>1. \A t \in Open(new, e) : FALSE
      <4> SUFFICES ASSUME NEW t \in Open(new, e) PROVE FALSE
        OBVIOUS
      <4>1. t \in mid.connected /\ EndpointOf[t] = e /\ t \notin full
        BY <1>2 DEF Open
      <4>2. PICK s \in S : s \in mid.connected /\ EndpointOf[s] = e
        BY <2>1 DEF At
      <4>3. s = t
        BY <4>1, <4>2 DEF Sound
      <4> QED BY <2>1, <4>1, <4>2, <4>3 DEF full
    <3> QED BY <1>2, <2>0, <2>1, <3>1 DEF Cont
  <2>2. CASE At(mid, S, e) = {}
    <3>1. new.mailbox[e] = old.mailbox[e]
      BY <1>2, <2>2
    <3>2. \A t \in Open(new, e) :
            /\ t \in Open(old, e) /\ ~Tells(msg) /\ new.status = old.status
            /\ new.sent_sequence[t] = old.sent_sequence[t]
      <4> SUFFICES ASSUME NEW t \in Open(new, e)
                   PROVE  /\ t \in Open(old, e) /\ ~Tells(msg) /\ new.status = old.status
                          /\ new.sent_sequence[t] = old.sent_sequence[t]
        OBVIOUS
      <4>1. t \in mid.connected /\ EndpointOf[t] = e /\ t \in Node
        BY <1>2, <1>4 DEF Open
      <4>2. t \notin S
        BY <2>2, <4>1 DEF At
      <4> QED BY <1>2, <4>1, <4>2 DEF Open
    <3>3. \A t \in Open(old, e) : EndsWith(old.mailbox[e], old.sent_sequence[t], old.status)
      BY DEF Mail
    <3>4. ASSUME NEW w, NEW y, Cont(old, e, w, y) PROVE Cont(new, e, w, y)
      <4>1. \A t \in Open(old, e) :
               Through(old.mailbox[e], w, y, old.sent_sequence[t], old.status)
        BY <3>4 DEF Cont
      <4>2. \A t \in Open(new, e) :
               Through(new.mailbox[e], w, y, new.sent_sequence[t], new.status)
        BY <3>1, <3>2, <4>1
      <4> QED BY <3>1, <3>4, <4>2 DEF Cont
    <3>5. \A t \in Open(new, e) : EndsWith(new.mailbox[e], new.sent_sequence[t], new.status)
      BY <3>1, <3>2, <3>3
    <3> QED BY <2>0, <3>1, <3>4, <3>5
  <2>3. CASE At(mid, S, e) # {} /\ ~Full(mid, e)
    <3> DEFINE s == CHOOSE s \in At(mid, S, e) : TRUE
               m == [command |-> msg.command, status |-> msg.status, groups |-> msg.groups,
                     sequence |-> NextSequence(mid.sent_sequence[s]), to |-> s]
    <3>1. s \in S /\ s \in mid.connected /\ EndpointOf[s] = e /\ s \in Node
      <4>1. s \in At(mid, S, e)
        BY <2>3
      <4> QED BY <1>4, <4>1 DEF At
    <3>2. new.mailbox[e] = Append(old.mailbox[e], m)
      BY <1>3, <2>3
    <3> HIDE DEF s
    <3>3. m \in Message
      <4>1. NextSequence(mid.sent_sequence[s]) \in Sequence
        BY <3>1, NextSequenceType DEF Sound, NodeState
      <4> QED BY <3>1, <4>1 DEF Message, Draft
    <3>4. s \in Open(old, e) /\ Open(new, e) \subseteq {s}
      <4>1. s \in Open(old, e)
        BY <3>1 DEF Open
      <4>2. ASSUME NEW t \in Open(new, e) PROVE t = s
        <5>1. t \in mid.connected /\ EndpointOf[t] = e
          BY <1>2 DEF Open
        <5> QED BY <3>1, <5>1 DEF Sound
      <4> QED BY <4>1, <4>2
    <3>5. new.sent_sequence[s] = NextSequence(old.sent_sequence[s])
      BY <1>2, <3>1
    <3>6. /\ m.command # "HELLO" /\ m.sequence = NextSequence(old.sent_sequence[s])
          /\ Tells(m) <=> Tells(msg)
          /\ m.status = msg.status
      BY DEF Tells
    <3> HIDE DEF m
    <3>7. IF Tells(m) THEN m.status = NextStatus(old.status) /\ new.status = m.status
                      ELSE new.status = old.status
      BY <1>2, <3>6
    <3> QED BY <3>1, <3>2, <3>3, <3>4, <3>5, <3>6, <3>7, Mailed
  <2> QED BY <2>1, <2>2, <2>3
<1>6. Extends(old, new)
  BY <1>1, <1>5 DEF Extends, Mail
<1> QED BY <1>6 DEF new

\* zyre_peer_connect on an endpoint that has been purged.
LEMMA ConnectPeerExtends ==
    ASSUME NEW self, Mail(self), NEW m \in Node, Open(self, EndpointOf[m]) = {}
    PROVE  Extends(self, ConnectPeer(self, m))
<1> DEFINE new == ConnectPeer(self, m)
           hello == [command |-> "HELLO", status |-> self.status,
                     groups |-> self.own_groups, sequence |-> 1, to |-> m]
           d == EndpointOf[m]
<1>1. d \in Endpoint /\ 1 \in Sequence /\ Sound(self)
  BY EndpointAssumption, WidthAssumption DEF Sequence, Mail
<1>2. hello \in Message
  BY <1>1 DEF Message, Command, Sound, NodeState
<1>3. Sound(new)
  <2>1. \A s \in self.connected : EndpointOf[s] # EndpointOf[m]
    BY DEF Open
  <2> QED BY <1>1, <2>1, ConnectPeerSound
<1>4. /\ new.connected = self.connected \cup {m}
      /\ new.status = self.status
      /\ new.sent_sequence[m] = 1
      /\ \A t \in Node \ {m} : new.sent_sequence[t] = self.sent_sequence[t]
      /\ new.mailbox[d] = Append(self.mailbox[d], hello)
      /\ \A e \in Endpoint \ {d} : new.mailbox[e] = self.mailbox[e]
  BY <1>1 DEF ConnectPeer, Sound, NodeState
<1>5. self.mailbox[d] \in Seq(Message) /\ Stream(self.mailbox[d])
  BY <1>1 DEF Mail, Sound, NodeState
<1>6. hello.command = "HELLO" /\ hello.sequence = 1 /\ hello.status = self.status
  OBVIOUS
<1>7. self.connected \subseteq Node
  BY <1>1 DEF Sound, NodeState
<1> HIDE DEF new, hello, d
<1>8. /\ Stream(new.mailbox[d]) /\ EndsWith(new.mailbox[d], 1, self.status)
      /\ \A w, y : Begins(self.mailbox[d], w, y) => Begins(new.mailbox[d], w, y)
      /\ \A w, y, n, x : Through(new.mailbox[d], w, y, n, x)
  BY <1>2, <1>4, <1>5, <1>6, HelloStream
<1>9. \A t \in Open(new, d) : t = m
  BY <1>4 DEF Open, d
<1>10. \A e \in Endpoint \ {d} : \A t \in Open(new, e) :
         t \in Open(self, e) /\ new.sent_sequence[t] = self.sent_sequence[t]
  BY <1>4, <1>7 DEF Open, d
<1>11. ASSUME NEW e \in Endpoint
       PROVE  /\ Stream(new.mailbox[e])
              /\ \A t \in Open(new, e) :
                    EndsWith(new.mailbox[e], new.sent_sequence[t], new.status)
              /\ \A w, y : Cont(self, e, w, y) => Cont(new, e, w, y)
  <2>1. CASE e = d
    BY <1>4, <1>8, <1>9, <2>1 DEF Cont
  <2>2. CASE e # d
    <3>1. new.mailbox[e] = self.mailbox[e] /\ Stream(self.mailbox[e])
      BY <1>4, <2>2 DEF Mail
    <3>2. \A t \in Open(self, e) : EndsWith(self.mailbox[e], self.sent_sequence[t], self.status)
      BY DEF Mail
    <3>3. ASSUME NEW w, NEW y, Cont(self, e, w, y) PROVE Cont(new, e, w, y)
      <4>1. \A t \in Open(self, e) :
               Through(self.mailbox[e], w, y, self.sent_sequence[t], self.status)
        BY <3>3 DEF Cont
      <4> QED BY <1>4, <1>10, <2>2, <3>1, <3>3, <4>1 DEF Cont
    <3> QED BY <1>4, <1>10, <2>2, <3>1, <3>2, <3>3
  <2> QED BY <2>1, <2>2
<1>12. Extends(self, new)
  BY <1>3, <1>11 DEF Extends, Mail
<1> QED BY <1>12 DEF new

\* What a handler may do to the peers that said HELLO: forget them.
Keeps(old, new) ==
    /\ new.life = old.life
    /\ new.ready \subseteq old.ready
    /\ \A t \in new.ready : /\ new.want_sequence[t] = old.want_sequence[t]
                            /\ new.peer_status[t] = old.peer_status[t]

LEMMA DisconnectExtends ==
    ASSUME NEW self, Mail(self), NEW S
    PROVE  /\ Extends(self, Disconnect(self, S)) /\ Keeps(self, Disconnect(self, S))
           /\ Disconnect(self, S).connected = self.connected \ S
<1> DEFINE new == Disconnect(self, S)
<1>1. /\ Sound(new) /\ new.mailbox = self.mailbox /\ new.connected = self.connected \ S
      /\ new.sent_sequence = self.sent_sequence /\ new.status = self.status
  <2>1. Sound(self)
    BY DEF Mail
  <2> QED BY <2>1, DisconnectSound DEF Disconnect, Sound, NodeState
<1>2. Keeps(self, new)
  BY DEF Keeps, Disconnect, Mail, Sound, NodeState
<1> HIDE DEF new
<1>3. Extends(self, new)
  BY <1>1, SameMail
<1> QED BY <1>1, <1>2, <1>3 DEF new

\* zyre_node_remove_peer
LEMMA RemovePeersExtends ==
    ASSUME NEW self, Mail(self), NEW S
    PROVE  /\ Extends(self, RemovePeers(self, S)) /\ Keeps(self, RemovePeers(self, S))
           /\ RemovePeers(self, S).ready = self.ready \ S
<1> DEFINE new == RemovePeers(self, S)
<1>1. Sound(self) /\ Sound(new)
  BY RemovePeersSound DEF Mail
<1>2. /\ new.mailbox = self.mailbox /\ new.connected = self.connected \ S
      /\ new.ready = self.ready \ S /\ new.status = self.status /\ new.life = self.life
      /\ \A t \in Node \ S : /\ new.sent_sequence[t] = self.sent_sequence[t]
                             /\ new.want_sequence[t] = self.want_sequence[t]
                             /\ new.peer_status[t] = self.peer_status[t]
      /\ self.connected \subseteq Node /\ self.ready \subseteq Node
  BY <1>1 DEF RemovePeers, Sound, NodeState
<1> HIDE DEF new
<1>3. Extends(self, new)
  BY <1>1, <1>2, SameMail
<1>4. Keeps(self, new)
  BY <1>2 DEF Keeps
<1> QED BY <1>2, <1>3, <1>4 DEF new

\* zyre_node_require_peer
LEMMA RequirePeerExtends ==
    ASSUME NEW self, Mail(self), NEW m \in Node, NEW connects
    PROVE  /\ Extends(self, RequirePeer(self, m, connects))
           /\ Keeps(self, RequirePeer(self, m, connects))
<1> DEFINE old == At(self, Node, EndpointOf[m])
           purged == Disconnect(self, old)
<1>1. /\ Extends(self, purged) /\ Keeps(self, purged)
      /\ purged.connected = self.connected \ old
  BY DisconnectExtends
<1>2. Open(purged, EndpointOf[m]) = {}
  BY <1>1 DEF Open, At, Mail, Sound, NodeState
<1>3. Mail(purged)
  BY <1>1 DEF Extends
<1>4. Extends(purged, ConnectPeer(purged, m))
  BY <1>2, <1>3, ConnectPeerExtends
<1>5. Keeps(self, ConnectPeer(purged, m))
  <2> HIDE DEF purged
  <2>1. Keeps(purged, ConnectPeer(purged, m))
    BY <1>3 DEF Keeps, ConnectPeer, Mail, Sound, NodeState
  <2> QED BY <1>1, <2>1 DEF Keeps
<1>6. Extends(self, self) /\ Keeps(self, self)
  BY DEF Extends, Keeps
<1>7. Extends(self, ConnectPeer(purged, m))
  BY <1>1, <1>4, ExtendsTransitive
<1> QED BY <1>1, <1>5, <1>6, <1>7 DEF RequirePeer

LEMMA SendKeeps ==
    ASSUME NEW self, Sound(self), NEW S \in SUBSET Node, NEW msg
    PROVE  Keeps(self, Send(self, S, msg))
BY DEF Keeps, Send, Disconnect, Sound, NodeState

\* A message that names no status, sent by a node as it stands.
LEMMA PlainSend ==
    ASSUME NEW self, Mail(self), NEW S \in SUBSET Node, NEW msg \in Draft,
           msg.command # "HELLO", ~Tells(msg)
    PROVE  Extends(self, Send(self, S, msg)) /\ Keeps(self, Send(self, S, msg))
<1>1. Sound(self)
  BY DEF Mail
<1> QED BY <1>1, SendExtends, SendKeeps

\* The HELLO branch of zyre_node_recv_peer: the sender alone is new, and with
\* the number and the status of its HELLO.
LEMMA HelloExtends ==
    ASSUME NEW self, Mail(self), NEW s \in Node, NEW msg \in Message,
           msg.command = "HELLO", NEW connects
    PROVE  LET new == Hello(self, s, msg, connects)
           IN  /\ Extends(self, new)
               /\ new.life = self.life
               /\ new.ready \subseteq self.ready \cup {s}
               /\ \A t \in new.ready \ {s} :
                     /\ new.want_sequence[t] = self.want_sequence[t]
                     /\ new.peer_status[t] = self.peer_status[t]
               /\ s \in new.ready => /\ msg.sequence = 1
                                     /\ new.want_sequence[s] = 1
                                     /\ new.peer_status[s] = msg.status
<1> DEFINE fresh == IF s \in self.ready THEN RemovePeers(self, {s}) ELSE self
           current == RequirePeer(fresh, s, connects)
           new == Hello(self, s, msg, connects)
<1>1. Extends(self, fresh) /\ Keeps(self, fresh) /\ s \notin fresh.ready
  BY RemovePeersExtends DEF Extends, Keeps
<1> HIDE DEF fresh
<1>2. Extends(fresh, current) /\ Keeps(fresh, current)
  BY <1>1, RequirePeerExtends DEF Extends
<1> HIDE DEF current
<1>3. /\ Extends(self, current) /\ Keeps(self, current) /\ s \notin current.ready
      /\ Mail(current)
  <2>1. Extends(self, current)
    BY <1>1, <1>2, ExtendsTransitive
  <2> QED BY <1>1, <1>2, <2>1 DEF Keeps, Extends
<1>4. CASE new = current
  BY <1>3, <1>4 DEF Keeps
<1>5. CASE new = RemovePeers(current, {s})
  <2>1. Extends(current, new) /\ Keeps(current, new) /\ new.ready = current.ready \ {s}
    BY <1>3, <1>5, RemovePeersExtends
  <2>2. Extends(self, new)
    BY <1>3, <2>1, ExtendsTransitive
  <2> HIDE DEF new
  <2>3. Keeps(self, new)
    BY <1>3, <2>1 DEF Keeps
  <2> QED BY <2>1, <2>2, <2>3 DEF Keeps, new
<1>6. CASE s \in current.peers /\ InSequence(current, s, msg) /\ new = EnterPeer(current, s, msg)
  <2>0. Sound(current) /\ msg.sequence = 1
    BY <1>3, <1>6 DEF Mail, InSequence
  <2>1. Sound(new)
    BY <1>6, <2>0, EnterPeerSound
  <2>2. /\ new.mailbox = current.mailbox /\ new.connected = current.connected
        /\ new.sent_sequence = current.sent_sequence /\ new.status = current.status
        /\ new.life = current.life /\ new.ready = current.ready \cup {s}
        /\ \A t \in Node \ {s} : /\ new.want_sequence[t] = current.want_sequence[t]
                                 /\ new.peer_status[t] = current.peer_status[t]
        /\ new.want_sequence[s] = 1 /\ new.peer_status[s] = msg.status
        /\ current.ready \subseteq Node
    BY <1>6, <2>0 DEF EnterPeer, Sound, NodeState
  <2> HIDE DEF new
  <2>3. Extends(current, new)
    BY <1>3, <2>1, <2>2, SameMail
  <2>4. Extends(self, new)
    BY <1>3, <2>3, ExtendsTransitive
  <2> QED BY <1>3, <2>0, <2>2, <2>4 DEF Keeps, new
<1>7. \/ new = current \/ new = RemovePeers(current, {s})
      \/ /\ s \in current.peers /\ InSequence(current, s, msg)
         /\ new = EnterPeer(current, s, msg)
  BY DEF Hello, current, fresh
<1> HIDE DEF new
<1> QED BY <1>4, <1>5, <1>6, <1>7 DEF new

-----------------------------------------------------------------------------
(***************************************************************************)
(* The network.                                                            *)
(***************************************************************************)
\* Only a node that can read its inbox knows peers that said HELLO, and no two
\* such nodes have one endpoint.
OneBound(nd) ==
    /\ \A r \in Node : nd[r].ready # {} => nd[r].life \in {"running", "stopped"}
    /\ \A m, n \in Node :
          (/\ nd[m].life \in {"running", "stopped"} /\ nd[n].life \in {"running", "stopped"}
           /\ EndpointOf[m] = EndpointOf[n]) => m = n

\* r, that heard the HELLO of s, can follow it.
Linked(nd, s, r) ==
    s \in nd[r].ready =>
        Cont(nd[s], EndpointOf[r], nd[r].want_sequence[s], nd[r].peer_status[s])

Links(nd) ==
    /\ \A n \in Node : Mail(nd[n]) /\ nd[n].life # "aborted"
    /\ \A s, r \in Node : Linked(nd, s, r)

Good(nd) == OneBound(nd) /\ Links(nd)

NoDrop == budget.drop = Budget.drop

\* The inductive invariant.
LInv ==
    /\ IInv
    /\ budget.drop <= Budget.drop
    /\ NoDrop => Good(node)

\* One node is replaced.
LEMMA OneBoundStep ==
    ASSUME NEW nd, OneBound(nd), NEW n \in Node, nd \in [Node -> NodeState], NEW self,
           self.ready # {} => self.life \in {"running", "stopped"},
           \/ self.life = nd[n].life \/ self.life \notin {"running", "stopped"}
           \/ nd[n].life \in {"running", "stopped"}
           \/ \A m \in Node \ {n} : nd[m].life \in {"running", "stopped"}
                                       => EndpointOf[m] # EndpointOf[n]
    PROVE  OneBound([nd EXCEPT ![n] = self])
<1> DEFINE new == [nd EXCEPT ![n] = self]
<1>1. new[n] = self /\ \A m \in Node \ {n} : new[m] = nd[m]
  OBVIOUS
<1> HIDE DEF new
<1>2. \A r \in Node : new[r].ready # {} => new[r].life \in {"running", "stopped"}
  BY <1>1 DEF OneBound
<1>3. ASSUME NEW m \in Node, NEW k \in Node, new[m].life \in {"running", "stopped"},
             new[k].life \in {"running", "stopped"}, EndpointOf[m] = EndpointOf[k]
      PROVE  m = k
  BY <1>1, <1>3 DEF OneBound
<1> QED BY <1>2, <1>3 DEF OneBound, new

LEMMA LinksStep ==
    ASSUME NEW nd \in [Node -> NodeState], NEW n \in Node, NEW self,
           \A m \in Node : Mail(nd[m]) /\ nd[m].life # "aborted",
           \A s, r \in Node : r # n => Linked(nd, s, r),
           self.ready \subseteq Node,
           \A s \in self.ready :
              Cont(nd[s], EndpointOf[n], self.want_sequence[s], self.peer_status[s]),
           Mail(self), self.life # "aborted",
           \A r \in Node : \A w, y :
              /\ (IF r = n THEN self.ready ELSE nd[r].ready) # {}
              /\ Cont(nd[n], EndpointOf[r], w, y)
              => Cont(self, EndpointOf[r], w, y)
    PROVE  Links([nd EXCEPT ![n] = self])
<1> DEFINE new == [nd EXCEPT ![n] = self]
<1>1. new[n] = self /\ \A m \in Node \ {n} : new[m] = nd[m]
  OBVIOUS
<1> HIDE DEF new
<1>2. \A m \in Node : Mail(new[m]) /\ new[m].life # "aborted"
  BY <1>1
<1>3. ASSUME NEW s \in Node, NEW r \in Node, s \in new[r].ready
      PROVE  Cont(new[s], EndpointOf[r], new[r].want_sequence[s], new[r].peer_status[s])
  <2>1. Cont(nd[s], EndpointOf[r], new[r].want_sequence[s], new[r].peer_status[s])
    <3>1. CASE r = n
      BY <1>1, <1>3, <3>1
    <3>2. CASE r # n
      BY <1>1, <1>3, <3>2 DEF Linked
    <3> QED BY <3>1, <3>2
  <2>2. (IF r = n THEN self.ready ELSE nd[r].ready) # {}
    BY <1>1, <1>3
  <2>3. CASE s = n
    <3>1. Cont(self, EndpointOf[r], new[r].want_sequence[s], new[r].peer_status[s])
      BY <2>1, <2>2, <2>3
    <3> QED BY <1>1, <2>3, <3>1
  <2>4. CASE s # n
    BY <1>1, <2>1, <2>4
  <2> QED BY <2>3, <2>4
<1> QED BY <1>2, <1>3 DEF Links, Linked, new

\* A handler that only forgets peers and extends its mailboxes.
LEMMA BecomeGood ==
    ASSUME IInv, Good(node), NEW n \in Node, NEW self, Become(n, self),
           Extends(node[n], self), self.life # "aborted",
           self.ready \subseteq node[n].ready,
           \A t \in self.ready : /\ self.want_sequence[t] = node[n].want_sequence[t]
                                 /\ self.peer_status[t] = node[n].peer_status[t],
           self.ready # {} => self.life \in {"running", "stopped"},
           \/ self.life = node[n].life \/ self.life \notin {"running", "stopped"}
           \/ node[n].life \in {"running", "stopped"}
           \/ \A m \in Node \ {n} : node[m].life \in {"running", "stopped"}
                                       => EndpointOf[m] # EndpointOf[n]
    PROVE  Good(node')
<1>1. node \in [Node -> NodeState] /\ node[n].ready \subseteq Node
  BY DEF IInv, NodeState
<1>2. \A r \in Node : EndpointOf[r] \in Endpoint
  BY EndpointAssumption
<1>3. \A s \in self.ready :
        Cont(node[s], EndpointOf[n], self.want_sequence[s], self.peer_status[s])
  BY <1>1 DEF Good, Links, Linked
<1>4. \A r \in Node : \A w, y :
        Cont(node[n], EndpointOf[r], w, y) => Cont(self, EndpointOf[r], w, y)
  BY <1>2 DEF Extends
<1>5. Mail(self) /\ \A m \in Node : Mail(node[m]) /\ node[m].life # "aborted"
  BY DEF Extends, Good, Links
<1>6. \A s, r \in Node : Linked(node, s, r)
  BY DEF Good, Links
<1>7. Links([node EXCEPT ![n] = self])
  BY <1>1, <1>3, <1>4, <1>5, <1>6, LinksStep
<1>8. OneBound([node EXCEPT ![n] = self])
  BY <1>1, OneBoundStep DEF Good
<1> QED BY <1>7, <1>8 DEF Become, Good

\* In particular one that leaves the life of the node as it is.
LEMMA KeepsGood ==
    ASSUME IInv, Good(node), NEW n \in Node, NEW self, Become(n, self),
           Extends(node[n], self), Keeps(node[n], self)
    PROVE  Good(node')
<1>1. node[n].life # "aborted" /\ (node[n].ready # {} => node[n].life \in {"running", "stopped"})
  BY DEF Good, Links, OneBound
<1> QED BY <1>1, BecomeGood DEF Keeps

LEMMA ApiGood ==
    ASSUME IInv, Good(node), NEW n \in Node, Api(n)
    PROVE  Good(node')
<1>0. /\ Mail(node[n]) /\ Sound(node[n]) /\ node[n] \in NodeState
      /\ node[n].life # "aborted" /\ node[n].ready \subseteq Node
      /\ node[n].ready # {} => node[n].life \in {"running", "stopped"}
  BY DEF Good, Links, OneBound, IInv, NodeState
<1>1. CASE Start(n)
  <2> DEFINE self == [node[n] EXCEPT !.life = "running"]
  <2>1. Sound(self)
    BY <1>0 DEF Sound, NodeState, Life
  <2>2. /\ self.mailbox = node[n].mailbox /\ self.connected = node[n].connected
        /\ self.sent_sequence = node[n].sent_sequence /\ self.status = node[n].status
        /\ self.ready = node[n].ready /\ self.want_sequence = node[n].want_sequence
        /\ self.peer_status = node[n].peer_status /\ self.life = "running"
    BY <1>0 DEF NodeState
  <2>3. Become(n, self)
    BY <1>1 DEF Start, Become
  <2>4. \A m \in Node \ {n} : node[m].life \in {"running", "stopped"}
                                 => EndpointOf[m] # EndpointOf[n]
    BY <1>1 DEF Start, Bound
  <2> HIDE DEF self
  <2>5. Extends(node[n], self)
    BY <1>0, <2>1, <2>2, SameMail
  <2> QED BY <2>2, <2>3, <2>4, <2>5, BecomeGood
<1>2. CASE Stop(n)
  <2> DEFINE sent == IF Gossip
                     THEN Send(node[n], node[n].peers, Msg("GOODBYE", 0, {}))
                     ELSE node[n]
             self == [sent EXCEPT !.life = "stopped"]
  <2>1. /\ Msg("GOODBYE", 0, {}) \in Draft /\ Msg("GOODBYE", 0, {}).command # "HELLO"
        /\ ~Tells(Msg("GOODBYE", 0, {}))
    BY ZeroStatus, MsgType DEF Command, Msg, Tells
  <2>2. node[n].peers \in SUBSET Node
    BY <1>0 DEF NodeState
  <2>3. Extends(node[n], sent) /\ Keeps(node[n], sent)
    <3>1. Extends(node[n], node[n]) /\ Keeps(node[n], node[n])
      BY <1>0 DEF Extends, Keeps
    <3> QED BY <1>0, <2>1, <2>2, <3>1, PlainSend
  <2> HIDE DEF sent
  <2>4. Mail(sent) /\ Sound(sent)
    BY <2>3 DEF Extends, Mail
  <2>5. Sound(self)
    BY <2>4 DEF Sound, NodeState, Life
  <2>6. /\ self.mailbox = sent.mailbox /\ self.connected = sent.connected
        /\ self.sent_sequence = sent.sent_sequence /\ self.status = sent.status
        /\ self.ready = sent.ready /\ self.want_sequence = sent.want_sequence
        /\ self.peer_status = sent.peer_status /\ self.life = "stopped"
    BY <2>4 DEF Sound, NodeState
  <2>7. Become(n, self) /\ node[n].life = "running"
    BY <1>2 DEF Stop, sent
  <2> HIDE DEF self
  <2>8. Extends(node[n], self)
    <3>1. Extends(sent, self)
      BY <2>4, <2>5, <2>6, SameMail
    <3> QED BY <2>3, <3>1, ExtendsTransitive
  <2>9. /\ self.ready \subseteq node[n].ready
        /\ \A t \in self.ready : /\ self.want_sequence[t] = node[n].want_sequence[t]
                                 /\ self.peer_status[t] = node[n].peer_status[t]
    BY <2>3, <2>6 DEF Keeps
  <2> QED BY <2>6, <2>7, <2>8, <2>9, BecomeGood
<1>3. CASE Destroy(n)
  <2> DEFINE self == [NewNode EXCEPT !.life = "dead", !.mailbox = node[n].mailbox]
  <2>1. Sound(self)
    BY <1>0, NewNodeSound DEF NodeState, Life
  <2>2. /\ self.mailbox = node[n].mailbox /\ self.connected = {} /\ self.ready = {}
        /\ self.life = "dead"
    BY DEF NewNode
  <2>3. Become(n, self)
    BY <1>3 DEF Destroy
  <2> HIDE DEF self
  <2>4. Extends(node[n], self)
    BY <1>0, <2>1, <2>2, SameMail
  <2> QED BY <2>2, <2>3, <2>4, BecomeGood
<1>4. ASSUME NEW g \in Group, NEW own \in SUBSET Group, NEW command \in {"JOIN", "LEAVE"},
             LET status == NextStatus(node[n].status)
                 self == [node[n] EXCEPT !.own_groups = own, !.status = status]
             IN Become(n, Send(self, self.peers, Msg(command, status, {g})))
      PROVE  Good(node')
  <2> DEFINE status == NextStatus(node[n].status)
             self == [node[n] EXCEPT !.own_groups = own, !.status = status]
             msg == Msg(command, status, {g})
             new == Send(self, self.peers, msg)
  <2>1. status \in Status
    BY <1>0, NextStatusType DEF NodeState
  <2>2. msg \in Draft
    BY <2>1, MsgType DEF Command
  <2>3. /\ msg.command # "HELLO" /\ Tells(msg) /\ msg.status = NextStatus(node[n].status)
        /\ msg.status = status
    BY DEF Tells, Msg
  <2>4. Become(n, new)
    BY <1>4
  <2> HIDE DEF status, msg
  <2>5. Sound(self)
    BY <1>0, <2>1 DEF Sound, NodeState
  <2>6. /\ self.mailbox = node[n].mailbox /\ self.connected = node[n].connected
        /\ self.sent_sequence = node[n].sent_sequence /\ self.status = status
        /\ self.ready = node[n].ready /\ self.want_sequence = node[n].want_sequence
        /\ self.peer_status = node[n].peer_status /\ self.life = node[n].life
    BY <1>0 DEF NodeState
  <2>7. self.peers \in SUBSET Node /\ self.connected \subseteq self.peers
    BY <2>5 DEF Sound, NodeState
  <2> HIDE DEF self
  <2>8. Extends(node[n], new)
    BY <1>0, <2>2, <2>3, <2>5, <2>6, <2>7, SendExtends
  <2>9. Keeps(self, new)
    BY <2>5, <2>7, SendKeeps
  <2> HIDE DEF new
  <2>10. Keeps(node[n], new)
    BY <2>6, <2>9 DEF Keeps
  <2> QED BY <2>4, <2>8, <2>10, KeepsGood
<1>5. ASSUME NEW g \in Group, Join(n, g) \/ Leave(n, g) PROVE Good(node')
  <2>1. CASE Join(n, g)
    <3>1. node[n].own_groups \cup {g} \in SUBSET Group
      BY <1>0 DEF NodeState
    <3>2. [node[n] EXCEPT !.own_groups = @ \cup {g}, !.status = NextStatus(node[n].status)]
            = [node[n] EXCEPT !.own_groups = node[n].own_groups \cup {g},
                              !.status = NextStatus(node[n].status)]
      BY <1>0 DEF NodeState
    <3> QED BY <1>4, <2>1, <3>1, <3>2 DEF Join
  <2>2. CASE Leave(n, g)
    <3>1. node[n].own_groups \ {g} \in SUBSET Group
      BY <1>0 DEF NodeState
    <3>2. [node[n] EXCEPT !.own_groups = @ \ {g}, !.status = NextStatus(node[n].status)]
            = [node[n] EXCEPT !.own_groups = node[n].own_groups \ {g},
                              !.status = NextStatus(node[n].status)]
      BY <1>0 DEF NodeState
    <3> QED BY <1>4, <2>2, <3>1, <3>2 DEF Leave
  <2> QED BY <1>5, <2>1, <2>2
<1>6. ASSUME NEW S \in SUBSET Node, NEW msg \in Draft, msg.command # "HELLO", ~Tells(msg),
             Become(n, Send(node[n], S, msg))
      PROVE  Good(node')
  BY <1>0, <1>6, PlainSend, KeepsGood
<1>7. ASSUME NEW g \in Group, Shout(n, g) PROVE Good(node')
  <2>1. /\ Msg("SHOUT", 0, {g}) \in Draft /\ Msg("SHOUT", 0, {g}).command # "HELLO"
        /\ ~Tells(Msg("SHOUT", 0, {g})) /\ node[n].peer_groups[g] \in SUBSET Node
    BY <1>0, ZeroStatus, MsgType DEF Command, Msg, Tells, NodeState
  <2> QED BY <1>6, <1>7, <2>1 DEF Shout
<1>8. ASSUME NEW m \in Node, Whisper(n, m) PROVE Good(node')
  <2>1. /\ Msg("WHISPER", 0, {}) \in Draft /\ Msg("WHISPER", 0, {}).command # "HELLO"
        /\ ~Tells(Msg("WHISPER", 0, {})) /\ {m} \in SUBSET Node
    BY <1>0, ZeroStatus, MsgType DEF Command, Msg, Tells
  <2> QED BY <1>6, <1>8, <2>1 DEF Whisper
<1>9. ASSUME NEW m \in Node, RequirePeerCommand(n, m) PROVE Good(node')
  <2>1. PICK connects \in BOOLEAN : Become(n, RequirePeer(node[n], m, connects))
    BY <1>9 DEF RequirePeerCommand
  <2> QED BY <1>0, <2>1, RequirePeerExtends, KeepsGood
<1> QED BY <1>1, <1>2, <1>3, <1>5, <1>7, <1>8, <1>9 DEF Api

LEMMA DiscoverGood ==
    ASSUME IInv, Good(node), NEW n \in Node, Discover(n)
    PROVE  Good(node')
<1>0. Mail(node[n]) /\ Sound(node[n]) /\ node[n] \in NodeState
  BY DEF Good, Links, IInv
<1>1. ASSUME NEW m \in Node, RecvBeacon(n, m) PROVE Good(node')
  <2>1. PICK connects \in BOOLEAN : Become(n, RequirePeer(node[n], m, connects))
    BY <1>1 DEF RecvBeacon
  <2> QED BY <1>0, <2>1, RequirePeerExtends, KeepsGood
<1>2. ASSUME NEW m \in Node, RecvGossip(n, m) PROVE Good(node')
  <2> DEFINE self == [node[n] EXCEPT !.heard = @ \cup {m}]
  <2>1. PICK connects \in BOOLEAN :
          Become(n, IF EndpointOf[m] = EndpointOf[n] THEN self
                    ELSE RequirePeer(self, m, connects))
    BY <1>2 DEF RecvGossip
  <2>2. Sound(self)
    BY <1>0 DEF Sound, NodeState
  <2>3. /\ self.mailbox = node[n].mailbox /\ self.connected = node[n].connected
        /\ self.sent_sequence = node[n].sent_sequence /\ self.status = node[n].status
        /\ Keeps(node[n], self)
    BY <1>0 DEF Keeps, NodeState
  <2> HIDE DEF self
  <2>4. Extends(node[n], self)
    BY <1>0, <2>2, <2>3, SameMail
  <2>5. /\ Extends(node[n], RequirePeer(self, m, connects))
        /\ Keeps(node[n], RequirePeer(self, m, connects))
    <3>1. /\ Extends(self, RequirePeer(self, m, connects))
          /\ Keeps(self, RequirePeer(self, m, connects))
      BY <2>4, RequirePeerExtends DEF Extends
    <3>2. Keeps(node[n], RequirePeer(self, m, connects))
      BY <2>3, <3>1 DEF Keeps
    <3> QED BY <2>4, <3>1, <3>2, ExtendsTransitive
  <2> QED BY <2>1, <2>3, <2>4, <2>5, KeepsGood
<1>3. ASSUME NEW b \in air, RecvLateBeacon(n, b) PROVE Good(node')
  <2>0. b.from \in Node
    BY DEF IInv, Beacon
  <2>1. PICK connects \in BOOLEAN :
          Become(n, IF b.live THEN RequirePeer(node[n], b.from, connects)
                    ELSE RemovePeers(node[n], {b.from} \cap node[n].peers))
    BY <1>3 DEF RecvLateBeacon
  <2>2. CASE b.live
    BY <1>0, <2>0, <2>1, <2>2, RequirePeerExtends, KeepsGood
  <2>3. CASE ~b.live
    BY <1>0, <2>1, <2>3, RemovePeersExtends, KeepsGood
  <2> QED BY <2>2, <2>3
<1> QED BY <1>1, <1>2, <1>3 DEF Discover

LEMMA ReaperGood ==
    ASSUME IInv, Good(node), NEW n \in Node, Reaper(n)
    PROVE  Good(node')
<1>0. Mail(node[n]) /\ node[n].peers \subseteq Node
  BY DEF Good, Links, IInv, NodeState
<1>1. PICK expired \in SUBSET node[n].peers, evasive \in SUBSET node[n].peers :
        Become(n, Send(RemovePeers(node[n], expired), evasive, Msg("PING", 0, {})))
  BY DEF Reaper, Reap
<1> DEFINE left == RemovePeers(node[n], expired)
           new == Send(left, evasive, Msg("PING", 0, {}))
<1>2. Extends(node[n], left) /\ Keeps(node[n], left)
  BY <1>0, RemovePeersExtends
<1> HIDE DEF left
<1>3. /\ Msg("PING", 0, {}) \in Draft /\ Msg("PING", 0, {}).command # "HELLO"
      /\ ~Tells(Msg("PING", 0, {})) /\ evasive \in SUBSET Node
  BY <1>0, ZeroStatus, MsgType DEF Command, Msg, Tells
<1>4. Extends(left, new) /\ Keeps(left, new)
  BY <1>2, <1>3, PlainSend DEF Extends
<1> HIDE DEF new
<1>5. Extends(node[n], new)
  BY <1>2, <1>4, ExtendsTransitive
<1>6. Keeps(node[n], new)
  BY <1>2, <1>4 DEF Keeps
<1>7. Become(n, new)
  BY <1>1 DEF new, left
<1> QED BY <1>5, <1>6, <1>7, KeepsGood

\* libzmq throws stale messages away.
LEMMA DiscardGood ==
    ASSUME IInv, Good(node), NEW s \in Node, NEW e \in Endpoint, Discard(s, e)
    PROVE  Good(node')
<1> DEFINE q == node[s].mailbox[e]
<1>1. PICK i \in DOMAIN q :
        Stale(s, e, i) /\ node' = [node EXCEPT ![s].mailbox[e] = Without(@, i)]
  BY DEF Discard
<1> DEFINE p == Without(q, i)
           self == [node[s] EXCEPT !.mailbox[e] = p]
<1>2. /\ Mail(node[s]) /\ Sound(node[s]) /\ node[s] \in NodeState
      /\ q \in Seq(Message) /\ Stream(q) /\ p \in Seq(Message)
  BY WithoutType DEF Good, Links, Mail, Sound, NodeState
<1>3. Sound(self)
  <2> HIDE DEF p
  <2> QED BY <1>2, QueueSound
<1>4. Become(s, self)
  BY <1>1, <1>2 DEF Become, NodeState, IInv
<1>5. /\ self.connected = node[s].connected /\ self.sent_sequence = node[s].sent_sequence
      /\ self.status = node[s].status /\ self.life = node[s].life
      /\ self.ready = node[s].ready /\ self.want_sequence = node[s].want_sequence
      /\ self.peer_status = node[s].peer_status
      /\ self.mailbox[e] = p /\ \A f \in Endpoint \ {e} : self.mailbox[f] = node[s].mailbox[f]
  BY <1>2 DEF NodeState
<1>6. Keeps(node[s], self)
  BY <1>5 DEF Keeps
<1>7. \A f \in Endpoint : Open(self, f) = Open(node[s], f)
  BY <1>5 DEF Open
<1>8. \A f \in Endpoint \ {e} : \A w, y : Cont(node[s], f, w, y) => Cont(self, f, w, y)
  BY <1>5, <1>7 DEF Cont
<1>9. \/ i < Len(q) /\ q[i + 1].command = "HELLO"
      \/ i = Len(q) /\ Open(node[s], e) = {}
      \/ i = 1 /\ \A m \in Node : Bound(m) => EndpointOf[m] # e
  BY <1>1, <1>2 DEF Stale, At, Open, NodeState
<1> HIDE DEF p, self
<1>10. /\ Stream(p)
       /\ i # Len(q) \/ i = 1 => \A n, x : EndsWith(q, n, x) => EndsWith(p, n, x)
       /\ (i < Len(q) /\ q[i + 1].command = "HELLO") =>
             /\ \A w, y : Begins(q, w, y) => Begins(p, w, y)
             /\ \A w, y, n, x : Through(p, w, y, n, x)
       /\ i = Len(q) => \A w, y : Begins(q, w, y) => Begins(p, w, y)
  <2> HIDE DEF q
  <2> QED BY <1>1, <1>2, <1>9, WithoutStream DEF p
<1>11. Mail(self)
  <2> SUFFICES ASSUME NEW f \in Endpoint
               PROVE  /\ Stream(self.mailbox[f])
                      /\ \A t \in Open(self, f) :
                            EndsWith(self.mailbox[f], self.sent_sequence[t], self.status)
    BY <1>3 DEF Mail
  <2>0. /\ Stream(node[s].mailbox[f])
        /\ \A t \in Open(node[s], f) :
              EndsWith(node[s].mailbox[f], node[s].sent_sequence[t], node[s].status)
    BY <1>2 DEF Mail
  <2>1. CASE f # e
    BY <1>5, <1>7, <2>0, <2>1
  <2>2. CASE f = e
    <3>1. Open(node[s], e) # {} => i # Len(q) \/ i = 1
      <4> HIDE DEF q
      <4> QED BY <1>1, <1>2, <1>9
    <3>2. ASSUME NEW t \in Open(self, e) PROVE EndsWith(p, self.sent_sequence[t], self.status)
      <4>1. EndsWith(q, self.sent_sequence[t], self.status)
        BY <1>5, <1>7, <2>0, <2>2
      <4>2. i # Len(q) \/ i = 1
        BY <1>7, <3>1
      <4> QED BY <1>10, <4>1, <4>2
    <3> QED BY <1>5, <1>10, <2>2, <3>2
  <2> QED BY <2>1, <2>2
<1>12. ASSUME NEW w, NEW y, Cont(node[s], e, w, y),
              \/ i < Len(q) /\ q[i + 1].command = "HELLO"
              \/ i = Len(q) /\ Open(node[s], e) = {}
       PROVE  Cont(self, e, w, y)
  <2>1. Begins(q, w, y)
    BY <1>12 DEF Cont
  <2>2. Begins(p, w, y)
    BY <1>10, <1>12, <2>1
  <2>3. \A t \in Open(self, e) : Through(p, w, y, self.sent_sequence[t], self.status)
    BY <1>7, <1>10, <1>12
  <2> QED BY <1>5, <2>2, <2>3 DEF Cont
<1>13. CASE \/ i < Len(q) /\ q[i + 1].command = "HELLO"
            \/ i = Len(q) /\ Open(node[s], e) = {}
  <2>1. Extends(node[s], self)
    <3>1. \A f \in Endpoint : \A w, y : Cont(node[s], f, w, y) => Cont(self, f, w, y)
      BY <1>8, <1>12, <1>13
    <3> QED BY <1>11, <3>1 DEF Extends
  <2> QED BY <1>4, <1>6, <2>1, KeepsGood
<1>14. CASE \A m \in Node : Bound(m) => EndpointOf[m] # e
  <2>1. \A r \in Node : node[r].ready # {} => EndpointOf[r] \in Endpoint \ {e}
    BY <1>14, EndpointAssumption DEF Good, OneBound, Bound
  <2>2. \A r \in Node : \A w, y :
          /\ (IF r = s THEN self.ready ELSE node[r].ready) # {}
          /\ Cont(node[s], EndpointOf[r], w, y)
          => Cont(self, EndpointOf[r], w, y)
    BY <1>5, <1>8, <2>1
  <2>3. /\ node \in [Node -> NodeState] /\ self.ready \subseteq Node
        /\ \A m \in Node : Mail(node[m]) /\ node[m].life # "aborted"
        /\ \A t, r \in Node : Linked(node, t, r)
    BY <1>2, <1>5 DEF IInv, Good, Links, NodeState
  <2>4. \A t \in self.ready :
          Cont(node[t], EndpointOf[s], self.want_sequence[t], self.peer_status[t])
    BY <1>5, <2>3 DEF Linked
  <2>5. self.life # "aborted"
    BY <1>5, <2>3
  <2>6. Links([node EXCEPT ![s] = self])
    BY <1>11, <2>2, <2>3, <2>4, <2>5, LinksStep
  <2>7. self.ready # {} => self.life \in {"running", "stopped"}
    BY <1>5 DEF Good, OneBound
  <2>8. OneBound([node EXCEPT ![s] = self])
    BY <1>5, <2>3, <2>7, OneBoundStep DEF Good
  <2> QED BY <1>4, <2>6, <2>8 DEF Become, Good
<1> QED BY <1>9, <1>13, <1>14

\* The message leaves the queue, and nothing else changes.
LEMMA TakenFields ==
    ASSUME IInv, NEW s \in Node, NEW r \in Node, Arriving(s, r) # <<>>
    PROVE  LET e == EndpointOf[r]
               q == node[s].mailbox[e]
               mid == Taken(s, r)
           IN  /\ e \in Endpoint /\ q \in Seq(Message) /\ q # <<>> /\ Front(s, r) = q[1]
               /\ node[r] \in NodeState
               /\ mid \in [Node -> NodeState]
               /\ \A m \in Node : Sound(mid[m])
               /\ \A m \in Node \ {s} : mid[m] = node[m]
               /\ mid[s].mailbox[e] = Tail(q)
               /\ \A f \in Endpoint \ {e} : mid[s].mailbox[f] = node[s].mailbox[f]
               /\ \A m \in Node :
                     /\ mid[m].connected = node[m].connected /\ mid[m].ready = node[m].ready
                     /\ mid[m].sent_sequence = node[m].sent_sequence
                     /\ mid[m].want_sequence = node[m].want_sequence
                     /\ mid[m].peer_status = node[m].peer_status
                     /\ mid[m].status = node[m].status /\ mid[m].life = node[m].life
<1> DEFINE e == EndpointOf[r]
           q == node[s].mailbox[e]
           mid == Taken(s, r)
<1>1. /\ e \in Endpoint /\ q \in Seq(Message) /\ q # <<>> /\ Front(s, r) = q[1]
      /\ node[s] \in NodeState /\ node[r] \in NodeState
  <2>1. e \in Endpoint
    BY EndpointAssumption
  <2>2. q \in Seq(Message) /\ q # <<>>
    BY <2>1 DEF IInv, NodeState, Arriving
  <2>3. Front(s, r) = q[1]
    BY <2>2 DEF Front, Arriving
  <2> QED BY <2>1, <2>2, <2>3 DEF IInv
<1>2. /\ mid \in [Node -> NodeState]
      /\ \A m \in Node : Sound(mid[m])
      /\ \A m \in Node \ {s} : mid[m] = node[m]
      /\ mid[s].mailbox[e] = Tail(q)
      /\ \A f \in Endpoint \ {e} : mid[s].mailbox[f] = node[s].mailbox[f]
      /\ \A m \in Node :
            /\ mid[m].connected = node[m].connected /\ mid[m].ready = node[m].ready
            /\ mid[m].sent_sequence = node[m].sent_sequence
            /\ mid[m].want_sequence = node[m].want_sequence
            /\ mid[m].peer_status = node[m].peer_status
            /\ mid[m].status = node[m].status /\ mid[m].life = node[m].life
  <2>1. mid \in [Node -> NodeState] /\ \A m \in Node : Sound(mid[m])
    BY TakenSound
  <2>2. /\ \A m \in Node \ {s} : mid[m] = node[m]
        /\ mid[s] = [node[s] EXCEPT !.mailbox[e] = Tail(q)]
    BY DEF Taken, IInv
  <2>3. node[s] \in NodeState
    BY DEF IInv
  <2> HIDE DEF mid, q
  <2>4. /\ mid[s].mailbox = [node[s].mailbox EXCEPT ![e] = Tail(q)]
        /\ mid[s].connected = node[s].connected /\ mid[s].ready = node[s].ready
        /\ mid[s].sent_sequence = node[s].sent_sequence
        /\ mid[s].want_sequence = node[s].want_sequence
        /\ mid[s].peer_status = node[s].peer_status
        /\ mid[s].status = node[s].status /\ mid[s].life = node[s].life
    BY <2>2, <2>3 DEF NodeState
  <2>5. node[s].mailbox \in [Endpoint -> Seq(Message)]
    BY <2>3 DEF NodeState
  <2>6. /\ mid[s].mailbox[e] = Tail(q)
        /\ \A f \in Endpoint \ {e} : mid[s].mailbox[f] = node[s].mailbox[f]
    BY <1>1, <2>4, <2>5
  <2>7. \A m \in Node :
            /\ mid[m].connected = node[m].connected /\ mid[m].ready = node[m].ready
            /\ mid[m].sent_sequence = node[m].sent_sequence
            /\ mid[m].want_sequence = node[m].want_sequence
            /\ mid[m].peer_status = node[m].peer_status
            /\ mid[m].status = node[m].status /\ mid[m].life = node[m].life
    <3> SUFFICES ASSUME NEW m \in Node
                 PROVE  /\ mid[m].connected = node[m].connected /\ mid[m].ready = node[m].ready
                        /\ mid[m].sent_sequence = node[m].sent_sequence
                        /\ mid[m].want_sequence = node[m].want_sequence
                        /\ mid[m].peer_status = node[m].peer_status
                        /\ mid[m].status = node[m].status /\ mid[m].life = node[m].life
      OBVIOUS
    <3>1. CASE m = s
      BY <2>4, <3>1
    <3>2. CASE m # s
      BY <2>2, <3>2
    <3> QED BY <3>1, <3>2
  <2> QED BY <2>1, <2>2, <2>6, <2>7
<1> QED BY <1>1, <1>2 DEF e, q, mid

LEMMA TakenMail ==
    ASSUME IInv, Good(node), NEW s \in Node, NEW r \in Node, Arriving(s, r) # <<>>
    PROVE  \A m \in Node : Mail(Taken(s, r)[m])
<1> DEFINE e == EndpointOf[r]
           q == node[s].mailbox[e]
           mid == Taken(s, r)
<1>1. e \in Endpoint /\ q \in Seq(Message) /\ q # <<>>
  BY TakenFields
<1>2. \A m \in Node : Mail(node[m])
  BY DEF Good, Links
<1>3. /\ mid \in [Node -> NodeState]
      /\ \A m \in Node : Sound(mid[m])
      /\ \A m \in Node \ {s} : mid[m] = node[m]
      /\ mid[s].mailbox[e] = Tail(q)
      /\ \A f \in Endpoint \ {e} : mid[s].mailbox[f] = node[s].mailbox[f]
      /\ \A m \in Node :
            /\ mid[m].connected = node[m].connected /\ mid[m].ready = node[m].ready
            /\ mid[m].sent_sequence = node[m].sent_sequence
            /\ mid[m].want_sequence = node[m].want_sequence
            /\ mid[m].peer_status = node[m].peer_status
            /\ mid[m].status = node[m].status /\ mid[m].life = node[m].life
  BY TakenFields
<1> HIDE DEF mid, e
<1>5. Stream(q)
  BY <1>1, <1>2 DEF Mail
<1>6. Stream(Tail(q)) /\ \A n, x : EndsWith(q, n, x) => EndsWith(Tail(q), n, x)
  <2> HIDE DEF q
  <2> QED BY <1>1, <1>5, TailStream
<1>7. \A f \in Endpoint : Open(mid[s], f) = Open(node[s], f)
  BY <1>3 DEF Open
<1>8. Mail(mid[s])
  <2> SUFFICES ASSUME NEW f \in Endpoint
               PROVE  /\ Stream(mid[s].mailbox[f])
                      /\ \A t \in Open(mid[s], f) :
                            EndsWith(mid[s].mailbox[f], mid[s].sent_sequence[t], mid[s].status)
    BY <1>3 DEF Mail
  <2>1. /\ Stream(node[s].mailbox[f])
        /\ \A t \in Open(node[s], f) :
              EndsWith(node[s].mailbox[f], node[s].sent_sequence[t], node[s].status)
    BY <1>2 DEF Mail
  <2>2. CASE f = e
    <3>1. \A t \in Open(mid[s], e) : EndsWith(Tail(q), mid[s].sent_sequence[t], mid[s].status)
      BY <1>3, <1>6, <1>7, <2>1, <2>2
    <3> QED BY <1>3, <1>6, <2>2, <3>1
  <2>3. CASE f # e
    BY <1>3, <1>7, <2>1, <2>3
  <2> QED BY <2>2, <2>3
<1>9. \A m \in Node : Mail(mid[m])
  BY <1>2, <1>3, <1>8
<1> QED BY <1>9 DEF mid

\* r takes a message from s and goes on from the number and the status it has
\* then.
LEMMA ReceiveGood ==
    ASSUME IInv, Good(node), NEW s \in Node, NEW r \in Node, Arriving(s, r) # <<>>,
           node[r].life = "running", NEW self, Finish(s, r, self),
           Extends(Taken(s, r)[r], self),
           self.life = "running",
           self.ready \subseteq node[r].ready \cup {s},
           \A t \in self.ready \ {s} :
              /\ self.want_sequence[t] = node[r].want_sequence[t]
              /\ self.peer_status[t] = node[r].peer_status[t],
           s \in self.ready =>
              /\ Front(s, r).command = "HELLO" \/ s \in node[r].ready
              /\ self.want_sequence[s] = Front(s, r).sequence
              /\ self.peer_status[s] = IF Tells(Front(s, r)) THEN Front(s, r).status
                                       ELSE node[r].peer_status[s]
    PROVE  Good(node')
<1> DEFINE e == EndpointOf[r]
           q == node[s].mailbox[e]
           y == node[r].peer_status[s]
           mid == Taken(s, r)
           z == IF Tells(q[1]) THEN q[1].status ELSE y
           new == [mid EXCEPT ![r] = self]
<1>1. /\ e \in Endpoint /\ q \in Seq(Message) /\ q # <<>> /\ Front(s, r) = q[1]
      /\ node[r] \in NodeState
  BY TakenFields
<1>2. /\ \A m \in Node : Mail(node[m]) /\ node[m].life # "aborted"
      /\ \A t, m \in Node : Linked(node, t, m)
      /\ OneBound(node)
  BY DEF Good, Links
<1>3. /\ mid \in [Node -> NodeState]
      /\ \A m \in Node : Sound(mid[m])
      /\ \A m \in Node \ {s} : mid[m] = node[m]
      /\ mid[s].mailbox[e] = Tail(q)
      /\ \A f \in Endpoint \ {e} : mid[s].mailbox[f] = node[s].mailbox[f]
      /\ \A m \in Node :
            /\ mid[m].connected = node[m].connected /\ mid[m].ready = node[m].ready
            /\ mid[m].sent_sequence = node[m].sent_sequence
            /\ mid[m].want_sequence = node[m].want_sequence
            /\ mid[m].peer_status = node[m].peer_status
            /\ mid[m].status = node[m].status /\ mid[m].life = node[m].life
  BY TakenFields
<1>4. node' = new /\ Extends(mid[r], self)
  BY DEF Finish
<1> HIDE DEF mid, e, new
<1>5. Stream(q)
  BY <1>1, <1>2 DEF Mail
<1>6. /\ Stream(Tail(q))
      /\ (q[1].command = "HELLO" \/ \E w : Begins(q, w, y))
            => Begins(Tail(q), q[1].sequence, z)
      /\ \A n, x : EndsWith(q, n, x) => EndsWith(Tail(q), n, x)
      /\ \A n, x : (EndsWith(q, n, x) /\ (Silence(q, 0, Len(q) + 1) => y = x))
                      => Through(Tail(q), q[1].sequence, z, n, x)
  <2> HIDE DEF q, y
  <2> QED BY <1>1, <1>5, TailStream
<1>7. \A f \in Endpoint : Open(mid[s], f) = Open(node[s], f)
  BY <1>3 DEF Open
<1>9. \A m \in Node : Mail(mid[m]) /\ mid[m].life # "aborted"
  BY <1>2, <1>3, TakenMail DEF mid
\* No other node reads what is sent to this endpoint.
<1>10. ASSUME NEW t \in Node, NEW m \in Node, m # r, t \in mid[m].ready
       PROVE  Cont(mid[t], EndpointOf[m], mid[m].want_sequence[t], mid[m].peer_status[t])
  <2>1. Cont(node[t], EndpointOf[m], node[m].want_sequence[t], node[m].peer_status[t])
    BY <1>2, <1>3, <1>10 DEF Linked
  <2>2. CASE t # s
    BY <1>3, <2>1, <2>2
  <2>3. CASE t = s
    <3>1. EndpointOf[m] \in Endpoint \ {e}
      BY <1>2, <1>3, <1>10, EndpointAssumption DEF OneBound, e
    <3> QED BY <1>3, <1>7, <2>1, <2>3, <3>1 DEF Cont
  <2> QED BY <2>2, <2>3
<1>11. self.ready \subseteq Node
  BY <1>1 DEF NodeState
<1>12. ASSUME NEW t \in self.ready
       PROVE  Cont(mid[t], e, self.want_sequence[t], self.peer_status[t])
  <2>1. CASE t # s
    <3>1. t \in Node /\ t \in node[r].ready
      BY <1>11, <2>1
    <3>2. Cont(node[t], e, node[r].want_sequence[t], node[r].peer_status[t])
      BY <1>2, <3>1 DEF Linked, e
    <3> QED BY <1>3, <2>1, <3>1, <3>2
  <2>2. CASE t = s
    <3>1. self.want_sequence[s] = q[1].sequence /\ self.peer_status[s] = z
      BY <1>1, <1>12, <2>2
    <3>2. CASE q[1].command = "HELLO"
      <4>1. Begins(Tail(q), q[1].sequence, z)
        BY <1>6, <3>2
      <4>2. ~Silence(q, 0, Len(q) + 1)
        <5>1. 1 \in DOMAIN q /\ 0 < 1 /\ 1 < Len(q) + 1 /\ Tells(q[1])
          BY <1>1, <3>2 DEF Tells
        <5> QED BY <5>1 DEF Silence
      <4>3. \A u \in Open(mid[s], e) :
               Through(Tail(q), q[1].sequence, z, mid[s].sent_sequence[u], mid[s].status)
        <5>1. \A u \in Open(node[s], e) :
                 EndsWith(q, node[s].sent_sequence[u], node[s].status)
          BY <1>1, <1>2 DEF Mail
        <5> QED BY <1>1, <1>3, <1>6, <1>7, <4>2, <5>1
      <4> QED BY <1>3, <2>2, <3>1, <4>1, <4>3 DEF Cont
    <3>3. CASE s \in node[r].ready
      <4>1. Cont(node[s], e, node[r].want_sequence[s], y)
        BY <1>2, <3>3 DEF Linked, e
      <4>2. Begins(q, node[r].want_sequence[s], y)
        BY <4>1 DEF Cont
      <4>3. Begins(Tail(q), q[1].sequence, z)
        BY <1>6, <4>2
      <4>4. \A u \in Open(mid[s], e) :
               Through(Tail(q), q[1].sequence, z, mid[s].sent_sequence[u], mid[s].status)
        <5>1. \A u \in Open(node[s], e) :
                 EndsWith(q, node[s].sent_sequence[u], node[s].status)
          BY <1>1, <1>2 DEF Mail
        <5>2. \A u \in Open(node[s], e) :
                 Silence(q, 0, Len(q) + 1) => y = node[s].status
          BY <4>1 DEF Cont, Through
        <5> QED BY <1>1, <1>3, <1>6, <1>7, <5>1, <5>2
      <4> QED BY <1>3, <2>2, <3>1, <4>3, <4>4 DEF Cont
    <3> QED BY <1>1, <1>12, <2>2, <3>2, <3>3
  <2> QED BY <2>1, <2>2
<1>14. Links(new)
  <2>1. \A t, m \in Node : m # r => Linked(mid, t, m)
    BY <1>10 DEF Linked
  <2>2. \A m \in Node : \A w, v :
          Cont(mid[r], EndpointOf[m], w, v) => Cont(self, EndpointOf[m], w, v)
    BY <1>4, EndpointAssumption DEF Extends
  <2>3. Mail(self)
    BY <1>4 DEF Extends
  <2> QED BY <1>3, <1>9, <1>11, <1>12, <2>1, <2>2, <2>3, LinksStep DEF new, e
<1>15. OneBound(new)
  <2>1. OneBound(mid)
    BY <1>2, <1>3 DEF OneBound
  <2>2. mid[r].life = "running"
    BY <1>3
  <2> QED BY <1>3, <2>1, <2>2, OneBoundStep DEF new
<1> QED BY <1>4, <1>14, <1>15 DEF Good

LEMMA RecvPeerGood ==
    ASSUME IInv, Good(node), NEW s \in Node, NEW r \in Node, RecvPeer(s, r)
    PROVE  Good(node')
<1> DEFINE m == Front(s, r)
           old == Taken(s, r)[r]
           new == Counted(s, r)
<1>1. Arriving(s, r) # <<>> /\ node[r].life = "running"
  BY DEF RecvPeer, RecvHello, RecvIgnored, RecvLost, RecvData, RecvPing,
         RecvJoin, RecvLeave, RecvGoodbye, Accept, Receive
<1>2. Sound(old) /\ m \in Message /\ Sound(new)
  BY <1>1, TakenSound, CountedSound
<1>3. /\ old.ready = node[r].ready /\ old.want_sequence = node[r].want_sequence
      /\ old.peer_status = node[r].peer_status /\ old.life = "running"
  BY <1>1 DEF Taken, IInv, NodeState
<1>4. /\ new.mailbox = old.mailbox /\ new.connected = old.connected
      /\ new.sent_sequence = old.sent_sequence /\ new.status = old.status
      /\ new.ready = old.ready /\ new.life = old.life
      /\ new.peer_status = old.peer_status
      /\ new.want_sequence = [old.want_sequence EXCEPT ![s] = NextSequence(@)]
  BY <1>2 DEF Counted, Sound, NodeState
<1>5. /\ node[r].ready \subseteq Node
      /\ node[r].want_sequence \in [Node -> Sequence]
      /\ node[r].peer_status \in [Node -> Status]
  BY DEF IInv, NodeState
\* What a handler that accepts the message must leave behind.
<1>6. ASSUME NEW self, Finish(s, r, self),
             Extends(old, self),
             self.life = "running", self.ready \subseteq node[r].ready \cup {s},
             \A t \in self.ready \ {s} :
                /\ self.want_sequence[t] = node[r].want_sequence[t]
                /\ self.peer_status[t] = node[r].peer_status[t],
             s \in self.ready =>
                /\ m.command = "HELLO" \/ s \in node[r].ready
                /\ self.want_sequence[s] = m.sequence
                /\ self.peer_status[s] = IF Tells(m) THEN m.status
                                         ELSE node[r].peer_status[s]
      PROVE  Good(node')
  BY <1>1, <1>6, ReceiveGood
<1>0. Mail(old)
  BY <1>1, TakenMail
<1>7. Extends(old, new) /\ Mail(new)
  BY <1>0, <1>2, <1>4, SameMail DEF Extends
\* The status assertion: JOIN and LEAVE name the status that comes next.
<1>8. (s \in node[r].ready /\ m.command \in {"JOIN", "LEAVE"})
         => m.status = NextStatus(node[r].peer_status[s])
  <2> DEFINE q == node[s].mailbox[EndpointOf[r]]
  <2>1. q \in Seq(Message) /\ q # <<>>
    BY <1>1, EndpointAssumption DEF IInv, NodeState, Arriving
  <2>2. m = q[1] /\ 1 \in DOMAIN q
    BY <2>1 DEF Front, Arriving
  <2>3. SUFFICES ASSUME s \in node[r].ready, m.command \in {"JOIN", "LEAVE"}
                 PROVE  m.status = NextStatus(node[r].peer_status[s])
    OBVIOUS
  <2>4. Begins(q, node[r].want_sequence[s], node[r].peer_status[s])
    BY <2>3 DEF Good, Links, Linked, Cont
  <2> HIDE DEF q
  <2>5. Silence(q, 0, 1)
    <3>1. \A k \in DOMAIN q : ~(0 < k /\ k < 1)
      <4>1. DOMAIN q \subseteq Nat
        BY <2>1
      <4> QED BY <4>1
    <3> QED BY <3>1 DEF Silence
  <2> HIDE DEF m
  <2> QED BY <2>2, <2>3, <2>4, <2>5 DEF Begins
<1>9. (m.command # "HELLO" /\ InSequence(node[r], s, m))
         => NextSequence(node[r].want_sequence[s]) = m.sequence
  BY DEF InSequence
<1> HIDE DEF m, old, new
<1>10. CASE RecvHello(s, r)
  <2>1. PICK connects \in BOOLEAN : Finish(s, r, Hello(old, s, m, connects))
    BY <1>10 DEF RecvHello, old, m
  <2>2. m.command = "HELLO" /\ Tells(m)
    BY <1>10 DEF RecvHello, Receive, Tells, m
  <2> DEFINE self == Hello(old, s, m, connects)
  <2>3.    /\ Extends(old, self) /\ self.life = old.life
           /\ self.ready \subseteq old.ready \cup {s}
           /\ \A t \in self.ready \ {s} :
                 /\ self.want_sequence[t] = old.want_sequence[t]
                 /\ self.peer_status[t] = old.peer_status[t]
           /\ s \in self.ready => /\ m.sequence = 1 /\ self.want_sequence[s] = 1
                                  /\ self.peer_status[s] = m.status
    BY <1>0, <1>2, <2>2, HelloExtends
  <2> HIDE DEF self
  <2> QED BY <1>3, <1>6, <2>1, <2>2, <2>3 DEF self
<1>11. CASE RecvIgnored(s, r)
  <2>1. s \notin node[r].ready /\ Finish(s, r, old)
    BY <1>11 DEF RecvIgnored, OwnEndpointHello, Handle, old
  <2>2. Extends(old, old)
    BY <1>0 DEF Extends
  <2> QED BY <1>3, <1>6, <2>1, <2>2
<1>12. ASSUME NEW self, Handle(s, r, self), self = RemovePeers(old, {s}) PROVE Good(node')
  <2>2. /\ Extends(old, self) /\ Keeps(old, self) /\ self.ready = old.ready \ {s}
    BY <1>0, <1>12, RemovePeersExtends
  <2> QED BY <1>3, <1>6, <1>12, <2>2 DEF Handle, Keeps
\* From here on the message is accepted.
<1>13. ASSUME NEW self, Handle(s, r, self), Extends(old, self), Keeps(new, self),
              m.command # "HELLO", InSequence(node[r], s, m), s \in node[r].ready,
              ~Tells(m)
       PROVE  Good(node')
  <2>1. \A t \in self.ready \ {s} :
          /\ self.want_sequence[t] = node[r].want_sequence[t]
          /\ self.peer_status[t] = node[r].peer_status[t]
    BY <1>3, <1>4, <1>5, <1>13 DEF Keeps
  <2>2. self.life = "running" /\ self.ready \subseteq node[r].ready
    BY <1>3, <1>4, <1>13 DEF Keeps
  <2>3. s \in self.ready => /\ self.want_sequence[s] = m.sequence
                            /\ self.peer_status[s] = node[r].peer_status[s]
    BY <1>3, <1>4, <1>5, <1>9, <1>13 DEF Keeps
  <2> QED BY <1>6, <1>13, <2>1, <2>2, <2>3 DEF Handle
<1>14. CASE RecvLost(s, r)
  BY <1>12, <1>14 DEF RecvLost, old
<1>15. CASE RecvData(s, r)
  <2>1. /\ Handle(s, r, new) /\ m.command \in {"WHISPER", "SHOUT", "PING_OK"}
        /\ InSequence(node[r], s, m) /\ s \in node[r].ready
    BY <1>15 DEF RecvData, Accept, Receive, new, m
  <2>2. Keeps(new, new)
    BY DEF Keeps
  <2> QED BY <1>7, <1>13, <2>1, <2>2 DEF Tells
<1>16. CASE RecvPing(s, r)
  <2> DEFINE self == Send(new, {s}, Msg("PING_OK", 0, {}))
  <2>1. /\ Handle(s, r, self) /\ m.command = "PING"
        /\ InSequence(node[r], s, m) /\ s \in node[r].ready
    BY <1>16 DEF RecvPing, Accept, Receive, new, m
  <2>2. /\ Msg("PING_OK", 0, {}) \in Draft /\ Msg("PING_OK", 0, {}).command # "HELLO"
        /\ ~Tells(Msg("PING_OK", 0, {})) /\ {s} \in SUBSET Node
    BY ZeroStatus, MsgType DEF Command, Msg, Tells
  <2>4. Extends(new, self) /\ Keeps(new, self)
    BY <1>7, <2>2, PlainSend
  <2> HIDE DEF self
  <2>5. Extends(old, self)
    BY <1>7, <2>4, ExtendsTransitive
  <2>6. ~Tells(m) /\ m.command # "HELLO"
    BY <2>1 DEF Tells
  <2> QED BY <1>13, <2>1, <2>4, <2>5, <2>6
<1>17. ASSUME NEW self, Sound(self), Handle(s, r, Checked(self, s, m)),
              m.command \in {"JOIN", "LEAVE"},
              InSequence(node[r], s, m), s \in node[r].ready,
              self.mailbox = new.mailbox, self.connected = new.connected,
              self.sent_sequence = new.sent_sequence, self.status = new.status,
              self.ready = new.ready, self.life = new.life,
              self.want_sequence = new.want_sequence,
              self.peer_status = [new.peer_status EXCEPT ![s] = NextStatus(@)]
       PROVE  Good(node')
  <2>1. self.peer_status[s] = m.status
    BY <1>3, <1>4, <1>5, <1>8, <1>17
  <2>2. Finish(s, r, self)
    BY <1>17, <2>1 DEF Checked, Handle
  <2>4. Extends(old, self)
    <3>1. Extends(new, self)
      BY <1>7, <1>17, SameMail
    <3> QED BY <1>7, <3>1, ExtendsTransitive
  <2>5. Tells(m) /\ m.command # "HELLO"
    BY <1>17 DEF Tells
  <2>6. self.want_sequence[s] = m.sequence
    BY <1>3, <1>4, <1>5, <1>9, <1>17, <2>5
  <2>7. \A t \in self.ready \ {s} :
          /\ self.want_sequence[t] = node[r].want_sequence[t]
          /\ self.peer_status[t] = node[r].peer_status[t]
    BY <1>3, <1>4, <1>5, <1>17
  <2> QED BY <1>3, <1>4, <1>6, <1>17, <2>1, <2>2, <2>4, <2>5, <2>6, <2>7
<1>18. m.groups \subseteq Group
  BY <1>2 DEF Message
<1>19. CASE RecvJoin(s, r)
  <2>1. PICK g \in m.groups : Handle(s, r, Checked(JoinPeerGroup(new, s, g), s, m))
    BY <1>19 DEF RecvJoin, new, m
  <2>2. /\ m.command \in {"JOIN", "LEAVE"} /\ InSequence(node[r], s, m)
        /\ s \in node[r].ready
    BY <1>19 DEF RecvJoin, Accept, Receive, m
  <2>3. s \in new.entered /\ g \in Group
    BY <1>2, <1>3, <1>4, <1>18, <2>2 DEF Sound
  <2>4. Sound(JoinPeerGroup(new, s, g))
    BY <1>2, <2>3, JoinPeerGroupSound
  <2> DEFINE self == JoinPeerGroup(new, s, g)
  <2>5. /\ self.mailbox = new.mailbox /\ self.connected = new.connected
        /\ self.sent_sequence = new.sent_sequence /\ self.status = new.status
        /\ self.ready = new.ready /\ self.life = new.life
        /\ self.want_sequence = new.want_sequence
        /\ self.peer_status = [new.peer_status EXCEPT ![s] = NextStatus(@)]
    BY <1>2 DEF JoinPeerGroup, Sound, NodeState
  <2> HIDE DEF self
  <2> QED BY <1>17, <2>1, <2>2, <2>4, <2>5 DEF self
<1>20. CASE RecvLeave(s, r)
  <2>1. PICK g \in m.groups : Handle(s, r, Checked(LeavePeerGroup(new, s, g), s, m))
    BY <1>20 DEF RecvLeave, new, m
  <2>2. /\ m.command \in {"JOIN", "LEAVE"} /\ InSequence(node[r], s, m)
        /\ s \in node[r].ready
    BY <1>20 DEF RecvLeave, Accept, Receive, m
  <2>3. Sound(LeavePeerGroup(new, s, g))
    BY <1>2, <1>18, LeavePeerGroupSound
  <2> DEFINE self == LeavePeerGroup(new, s, g)
  <2>4. /\ self.mailbox = new.mailbox /\ self.connected = new.connected
        /\ self.sent_sequence = new.sent_sequence /\ self.status = new.status
        /\ self.ready = new.ready /\ self.life = new.life
        /\ self.want_sequence = new.want_sequence
        /\ self.peer_status = [new.peer_status EXCEPT ![s] = NextStatus(@)]
    BY <1>2 DEF LeavePeerGroup, Sound, NodeState
  <2> HIDE DEF self
  <2> QED BY <1>17, <2>1, <2>2, <2>3, <2>4 DEF self
<1>21. CASE RecvGoodbye(s, r)
  <2>1. /\ Handle(s, r, IF Gossip THEN RemovePeers(new, {s}) ELSE new)
        /\ m.command = "GOODBYE" /\ InSequence(node[r], s, m) /\ s \in node[r].ready
    BY <1>21 DEF RecvGoodbye, Accept, Receive, new, m
  <2>2. m.command # "HELLO" /\ ~Tells(m)
    BY <2>1 DEF Tells
  <2>5. Extends(new, RemovePeers(new, {s})) /\ Keeps(new, RemovePeers(new, {s}))
    BY <1>7, RemovePeersExtends
  <2>6. Extends(old, RemovePeers(new, {s}))
    BY <1>7, <2>5, ExtendsTransitive
  <2>7. Keeps(new, new)
    BY DEF Keeps
  <2> QED BY <1>7, <1>13, <2>1, <2>2, <2>5, <2>6, <2>7
<1> QED BY <1>10, <1>11, <1>14, <1>15, <1>16, <1>19, <1>20, <1>21 DEF RecvPeer

-----------------------------------------------------------------------------
(***************************************************************************)
(* The specification.                                                      *)
(***************************************************************************)
LEMMA InitLinks == Init => LInv
<1> SUFFICES ASSUME Init PROVE LInv
  OBVIOUS
<1>1. IInv
  BY InitInvariant
<1>2. budget.drop <= Budget.drop
  BY BudgetAssumption DEF Init, BudgetKinds
<1>3. \A n \in Node : /\ node[n].ready = {} /\ node[n].connected = {}
                      /\ node[n].life = "created"
                      /\ \A e \in Endpoint : node[n].mailbox[e] = <<>>
  BY DEF Init, NewNode
<1>4. OneBound(node)
  BY <1>3 DEF OneBound
<1>5. \A n \in Node : Mail(node[n])
  <2>1. Stream(<<>>)
    BY DEF Stream
  <2> QED BY <1>1, <1>3, <2>1 DEF Mail, IInv, Open
<1>6. Links(node)
  BY <1>3, <1>5 DEF Links, Linked
<1> QED BY <1>1, <1>2, <1>4, <1>6 DEF LInv, Good

\* Only a broken connection uses up its budget, and nothing gives it back.
LEMMA DropFalls ==
    ASSUME IInv, [Next]_vars
    PROVE  /\ budget'.drop <= budget.drop
           /\ (\E s \in Node, e \in Endpoint : Drop(s, e)) => budget'.drop < budget.drop
<1> DEFINE Kept == budget'.drop = budget.drop
<1>1. budget \in [BudgetKinds -> Nat] /\ budget.drop \in Nat
  BY DEF IInv, BudgetKinds
<1>2. ASSUME NEW kind \in BudgetKinds \ {"drop"}, Spend(kind, 1) PROVE Kept
  BY <1>1, <1>2 DEF Spend, BudgetKinds
<1>3. ASSUME NEW s \in Node, NEW e \in Endpoint, Drop(s, e)
      PROVE  budget'.drop < budget.drop
  BY <1>1, <1>3 DEF Drop, Spend, BudgetKinds
<1>4. ASSUME NEW connects \in BOOLEAN, Connect(connects) PROVE Kept
  BY <1>2, <1>4 DEF Connect, BudgetKinds
<1>5. ASSUME UNCHANGED budget PROVE Kept
  BY <1>5
<1> HIDE DEF Kept
<1>6. ASSUME NEW n \in Node, Api(n) PROVE Kept
  <2>1. ASSUME NEW m \in Node, RequirePeerCommand(n, m) PROVE Kept
    BY <1>1, <2>1 DEF RequirePeerCommand, BudgetKinds, Kept
  <2>2. Start(n) => Kept
    BY <1>5 DEF Start
  <2>3. Stop(n) \/ Destroy(n) => Kept
    BY <1>2 DEF Stop, Destroy, BudgetKinds
  <2>4. ASSUME NEW g \in Group, Join(n, g) \/ Leave(n, g) \/ Shout(n, g) PROVE Kept
    BY <1>2, <2>4 DEF Join, Leave, Shout, BudgetKinds
  <2>5. ASSUME NEW m \in Node, Whisper(n, m) PROVE Kept
    BY <1>2, <2>5 DEF Whisper, BudgetKinds
  <2> QED BY <1>6, <2>1, <2>2, <2>3, <2>4, <2>5 DEF Api
<1>7. ASSUME NEW n \in Node, Discover(n) PROVE Kept
  BY <1>4, <1>7 DEF Discover, RecvBeacon, RecvGossip, RecvLateBeacon
<1>8. ASSUME NEW n \in Node, Reaper(n) PROVE Kept
  <2>1. PICK expired \in SUBSET node[n].peers, evasive \in SUBSET node[n].peers :
          Reap(n, expired, evasive)
    BY <1>8 DEF Reaper
  <2> DEFINE wronged == Cardinality({m \in expired : ~Silent(n, m)})
             pinged == Cardinality(evasive)
  <2>2. budget' = [budget EXCEPT !.suspect = @ - wronged, !.ping = @ - pinged]
    BY <2>1 DEF Reap
  <2> HIDE DEF wronged, pinged
  <2> QED BY <1>1, <2>2 DEF BudgetKinds, Kept
<1>9. ASSUME NEW s \in Node, NEW r \in Node, RecvPeer(s, r) PROVE Kept
  <2>1. RecvHello(s, r) => Kept
    BY <1>4 DEF RecvHello
  <2>2. RecvIgnored(s, r) \/ RecvLost(s, r) \/ RecvData(s, r) \/ RecvPing(s, r) => Kept
    BY <1>5 DEF RecvIgnored, RecvLost, RecvData, RecvPing, Handle
  <2>3. RecvJoin(s, r) \/ RecvLeave(s, r) \/ RecvGoodbye(s, r) => Kept
    BY <1>5 DEF RecvJoin, RecvLeave, RecvGoodbye, Handle
  <2> QED BY <1>9, <2>1, <2>2, <2>3 DEF RecvPeer
<1>10. ASSUME NEW s \in Node, NEW e \in Endpoint, Discard(s, e) PROVE Kept
  BY <1>5, <1>10 DEF Discard
<1>11. Kept \/ \E s \in Node, e \in Endpoint : Drop(s, e)
  BY <1>5, <1>6, <1>7, <1>8, <1>9, <1>10 DEF Next, Network, vars
<1>12. budget'.drop < budget.drop => budget'.drop <= budget.drop
  <2>1. (\E s \in Node, e \in Endpoint : Drop(s, e)) => budget'.drop \in Nat
    BY <1>1 DEF Drop, Spend, BudgetKinds
  <2> QED BY <1>1, <1>3, <1>11, <2>1 DEF Kept
<1>13. Kept => budget'.drop <= budget.drop
  BY <1>1 DEF Kept
<1> QED BY <1>3, <1>11, <1>12, <1>13

\* Every step of every node, and of the network while no connection breaks.
LEMMA NextLinks == LInv /\ [Next]_vars => LInv'
<1> SUFFICES ASSUME LInv, [Next]_vars PROVE LInv'
  OBVIOUS
<1>1. IInv /\ IInv'
  BY NextInvariant DEF LInv
<1>2. /\ budget.drop \in Nat /\ budget'.drop \in Nat /\ Budget.drop \in Nat
      /\ budget.drop <= Budget.drop
  BY <1>1, BudgetAssumption DEF IInv, BudgetKinds, LInv
<1>3. /\ budget'.drop <= budget.drop
      /\ (\E s \in Node, e \in Endpoint : Drop(s, e)) => budget'.drop < budget.drop
  BY <1>1, DropFalls
<1>4. budget'.drop <= Budget.drop
  BY <1>2, <1>3
<1>5. NoDrop' => Good(node')
  <2> SUFFICES ASSUME NoDrop' PROVE Good(node')
    OBVIOUS
  <2>0. budget'.drop = Budget.drop
    BY DEF NoDrop
  <2>1. NoDrop /\ ~\E s \in Node, e \in Endpoint : Drop(s, e)
    BY <1>2, <1>3, <2>0 DEF NoDrop
  <2>2. Good(node)
    BY <2>1 DEF LInv
  <2>3. CASE UNCHANGED vars
    BY <2>2, <2>3 DEF vars
  <2>4. ASSUME NEW n \in Node, Api(n) \/ Discover(n) \/ Reaper(n) PROVE Good(node')
    BY <1>1, <2>2, <2>4, ApiGood, DiscoverGood, ReaperGood
  <2>5. ASSUME NEW s \in Node, Network(s) PROVE Good(node')
    BY <1>1, <2>1, <2>2, <2>5, DiscardGood DEF Network
  <2>6. ASSUME NEW n \in Node, NEW s \in Node, RecvPeer(s, n) PROVE Good(node')
    BY <1>1, <2>2, <2>6, RecvPeerGood
  <2> QED BY <2>3, <2>4, <2>5, <2>6 DEF Next
<1> QED BY <1>1, <1>4, <1>5 DEF LInv

LEMMA LInvImplies ==
    LInv => NothingLost /\ (NoDrop => StatusAssertHolds)
<1> SUFFICES ASSUME LInv PROVE NothingLost /\ (NoDrop => StatusAssertHolds)
  OBVIOUS
<1>1. NoDrop => StatusAssertHolds
  BY DEF LInv, Good, Links, StatusAssertHolds
<1>2. ASSUME NoDrop, NEW s \in Node, NEW r \in Node, Arriving(s, r) # <<>>,
             s \in node[r].ready
      PROVE  InSequence(node[r], s, Front(s, r))
  <2> DEFINE q == node[s].mailbox[EndpointOf[r]]
  <2>1. q \in Seq(Message) /\ q # <<>> /\ Front(s, r) = q[1] /\ EndpointOf[r] \in Endpoint
    BY <1>2, TakenFields DEF LInv
  <2>2. Begins(q, node[r].want_sequence[s], node[r].peer_status[s])
    BY <1>2 DEF LInv, Good, Links, Linked, Cont
  <2>3. Stream(q)
    BY <1>2, <2>1 DEF LInv, Good, Links, Mail
  <2> HIDE DEF q
  <2>4. 1 \in DOMAIN q
    BY <2>1
  <2>5. q[1].command = "HELLO" => q[1].sequence = 1
    BY <2>3, <2>4 DEF Stream
  <2> QED BY <2>1, <2>2, <2>5 DEF Begins, InSequence
<1> QED BY <1>1, <1>2 DEF NothingLost, NoDrop

\* Every queue is a stream of numbers and statuses, which goes on where its
\* receiver stands and ends where its sender stands, until a connection breaks.
THEOREM LinkInvariant == Spec => []LInv
BY InitLinks, NextLinks, PTL DEF Spec

\* Unless a connection breaks zyre_peer_messages_lost never finds a gap, so no
\* peer is ever removed for one: not after a purge, a full mailbox, a removal, a
\* restart or a repeated HELLO, and with any width of the sequence number.
THEOREM NothingIsLost == Spec => []NothingLost
<1>1. LInv => NothingLost
  BY LInvImplies
<1> QED BY <1>1, LinkInvariant, PTL

\* The assertion that ends JOIN and LEAVE in zyre_node_recv_peer fails only if a
\* connection has broken; that it may fail then is what the run node_loss shows.
THEOREM StatusAssertion == Spec => [](NoDrop => StatusAssertHolds)
<1>1. LInv => (NoDrop => StatusAssertHolds)
  BY LInvImplies
<1> QED BY <1>1, LinkInvariant, PTL

\* On a network whose connections do not break, no JOIN or LEAVE makes
\* zyre_node_recv_peer abort the process: the status it carries is the one the
\* receiver has counted.
THEOREM StatusAssertionHolds ==
    ASSUME Budget.drop = 0
    PROVE  Spec => []StatusAssertHolds
<1>1. LInv => StatusAssertHolds
  <2> SUFFICES ASSUME LInv PROVE StatusAssertHolds
    OBVIOUS
  <2>1. budget.drop \in Nat /\ budget.drop <= 0
    BY DEF LInv, IInv, BudgetKinds
  <2>2. NoDrop
    BY <2>1 DEF NoDrop
  <2> QED BY <2>2, LInvImplies
<1> QED BY <1>1, LinkInvariant, PTL

=============================================================================
