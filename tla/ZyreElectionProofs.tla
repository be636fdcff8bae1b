------------------------- MODULE ZyreElectionProofs -------------------------
(***************************************************************************)
(* Where the name of a leader comes from: a wave can only carry the uuid   *)
(* of a node that contests, through any interleaving of joins, departures, *)
(* restarts and late messages.  A lemma for each function of the C code,   *)
(* a step for each handler.                                                *)
(***************************************************************************)
EXTENDS ZyreElection, FiniteSetTheorems, WellFoundedInduction, TLAPS

\* Messages that name nobody, or a node of S.
Naming(S) == [command: Command, id: S \cup {None}, joined: BOOLEAN]

\* All a node knows, has announced or has sent names nodes of S only.
Clean(S, self) ==
    /\ self \in NodeState
    /\ self.contest => self.uuid \in S
    /\ self.election.caw \in S \cup {None}
    /\ self.announced \in S \cup {None}
    /\ \A r \in Node : self.mailbox[r] \in Seq(Naming(S))

\* What no handler of a message or an event changes.
Kept(self, new) == new.uuid = self.uuid /\ new.contest = self.contest

\* A handler's result in the place of self.
Heir(S, self, new) == Clean(S, new) /\ Kept(self, new)

-----------------------------------------------------------------------------
LEMMA HeirTransitive ==
    ASSUME NEW S, NEW a, NEW b, NEW c, Heir(S, a, b), Heir(S, b, c)
    PROVE  Heir(S, a, c)
BY DEF Heir, Kept

LEMMA HeirReflexive ==
    ASSUME NEW S, NEW a, Clean(S, a) PROVE Heir(S, a, a)
BY DEF Heir, Kept

\* The messages a node makes up.
LEMMA MessagesNaming ==
    ASSUME NEW S, NEW k \in S \cup {None}, NEW joined \in BOOLEAN
    PROVE  /\ Plain("JOIN") \in Naming(S) /\ Plain("LEAVE") \in Naming(S)
           /\ HelloMsg(joined) \in Naming(S)
           /\ Elect(k) \in Naming(S) /\ Leader(k) \in Naming(S)
BY DEF Plain, HelloMsg, Elect, Leader, Naming, Command

LEMMA NamingIsMessage ==
    ASSUME NEW S \in SUBSET Node PROVE Naming(S) \subseteq Message
BY DEF Naming, Message

LEMMA SeqMonotone ==
    ASSUME NEW A, NEW B, A \subseteq B, NEW q \in Seq(A) PROVE q \in Seq(B)
OBVIOUS

\* zyre_peer_send and zyre_group_send
LEMMA SendHeir ==
    ASSUME NEW S \in SUBSET Node, NEW self, Clean(S, self), NEW R,
           NEW msg \in Naming(S)
    PROVE  Heir(S, self, Send(self, R, msg))
<1> DEFINE box == [r \in Node |-> IF r \in R \cap self.peers
                                  THEN Append(self.mailbox[r], msg)
                                  ELSE self.mailbox[r]]
<1>1. \A r \in Node : box[r] \in Seq(Naming(S))
  BY DEF Clean
<1>2. \A r \in Node : box[r] \in Seq(Message)
  BY <1>1, NamingIsMessage, SeqMonotone
<1>3. Send(self, R, msg) = [self EXCEPT !.mailbox = box]
  BY DEF Send
<1>4. box \in [Node -> Seq(Message)]
  BY <1>2
<1> HIDE DEF box
<1> QED BY <1>1, <1>3, <1>4 DEF Heir, Kept, Clean, NodeState

\* The beginning of an election by a node that contests
LEMMA StartElectionHeir ==
    ASSUME NEW S \in SUBSET Node, NEW self, Clean(S, self), self.contest
    PROVE  Heir(S, self, StartElection(self))
<1> DEFINE new == [self EXCEPT !.running = TRUE,
                               !.election = [NoElection EXCEPT !.caw = self.uuid],
                               !.leader = None]
<1>1. self.uuid \in S
  BY DEF Clean
<1>2. Heir(S, self, new)
  BY <1>1 DEF Heir, Kept, Clean, NodeState, NoElection, Election
<1>3. Elect(self.uuid) \in Naming(S)
  BY <1>1, MessagesNaming
<1>4. StartElection(self) = Send(new, self.group, Elect(self.uuid))
  BY DEF StartElection
<1> HIDE DEF new
<1>5. Heir(S, new, StartElection(self))
  BY <1>2, <1>3, <1>4, SendHeir DEF Heir
<1> QED BY <1>2, <1>5, HeirTransitive

LEMMA LeadAloneHeir ==
    ASSUME NEW S \in SUBSET Node, NEW self, Clean(S, self), self.contest
    PROVE  Heir(S, self, LeadAlone(self))
BY DEF LeadAlone, Heir, Kept, Clean, NodeState, NoElection, Election

LEMMA RequirePeerHeir ==
    ASSUME NEW S \in SUBSET Node, NEW self, Clean(S, self), NEW m \in Node
    PROVE  Heir(S, self, RequirePeer(self, m))
<1> DEFINE new == [self EXCEPT !.peers = @ \cup {m}]
<1>1. Heir(S, self, new)
  <2>1. self.peers \cup {m} \in SUBSET Node
    BY DEF Clean, NodeState
  <2> QED BY <2>1 DEF Heir, Kept, Clean, NodeState
<1>2. HelloMsg(self.member) \in Naming(S)
  BY MessagesNaming DEF Clean, NodeState
<1>3. RequirePeer(self, m) = Send(new, {m}, HelloMsg(self.member))
  BY DEF RequirePeer
<1> HIDE DEF new
<1>4. Heir(S, new, RequirePeer(self, m))
  BY <1>1, <1>2, <1>3, SendHeir DEF Heir
<1> QED BY <1>1, <1>4, HeirTransitive

\* zyre_node_remove_peer
LEMMA RemovePeerHeir ==
    ASSUME NEW S \in SUBSET Node, NEW self, Clean(S, self), NEW p, NEW leader
    PROVE  Heir(S, self, RemovePeer(self, p, leader))
<1> DEFINE restart == /\ self.member /\ self.contest
                      /\ leader = p \/ (self.running /\ ~LrecComplete(self))
           settled == IF ~restart THEN self
                      ELSE IF Cardinality(self.group) = 1 THEN LeadAlone(self)
                      ELSE StartElection(self)
           new == [settled EXCEPT !.peers = @ \ {p}, !.ready = @ \ {p},
                                  !.group = @ \ {p}]
<1>1. Heir(S, self, settled)
  BY HeirReflexive, LeadAloneHeir, StartElectionHeir
<1>2. RemovePeer(self, p, leader) = new
  BY DEF RemovePeer
<1> HIDE DEF settled
<1>3. Heir(S, settled, new)
  <2>1. /\ settled.peers \ {p} \in SUBSET Node
        /\ settled.ready \ {p} \in SUBSET Node
        /\ settled.group \ {p} \in SUBSET Node
    BY <1>1 DEF Heir, Clean, NodeState
  <2> QED BY <1>1, <2>1 DEF Heir, Kept, Clean, NodeState
<1> QED BY <1>1, <1>2, <1>3, HeirTransitive

-----------------------------------------------------------------------------
\* The ELECT branch: the wave of a challenger that contests
LEMMA SupportHeir ==
    ASSUME NEW S \in SUBSET Node, NEW self, Clean(S, self), NEW s \in Node,
           NEW challenger \in S \cup {None}
    PROVE  Heir(S, self, Support(self, s, challenger))
<1> DEFINE new == [self EXCEPT !.running = TRUE,
                               !.election = [caw |-> challenger, father |-> s,
                                             erec |-> 0, lrec |-> 0]]
<1>1. Heir(S, self, new)
  BY DEF Heir, Kept, Clean, NodeState, Election
<1>2. Elect(challenger) \in Naming(S)
  BY MessagesNaming
<1>3. \/ Support(self, s, challenger) = self
      \/ Support(self, s, challenger) = Send(new, self.group \ {s}, Elect(challenger))
  BY DEF Support
<1> HIDE DEF new
<1>4. Heir(S, new, Send(new, self.group \ {s}, Elect(challenger)))
  BY <1>1, <1>2, SendHeir DEF Heir
<1> QED BY <1>1, <1>3, <1>4, HeirTransitive, HeirReflexive

LEMMA EchoHeir ==
    ASSUME NEW S \in SUBSET Node, NEW self, Clean(S, self), NEW father
    PROVE  Heir(S, self, Echo(self, father))
<1>1. /\ Elect(self.election.caw) \in Naming(S)
      /\ Leader(self.election.caw) \in Naming(S)
  BY MessagesNaming DEF Clean
<1> QED BY <1>1, SendHeir, HeirReflexive DEF Echo

\* zyre_election_increment_erec and zyre_election_increment_lrec
LEMMA CountHeir ==
    ASSUME NEW S \in SUBSET Node, NEW self, Clean(S, self)
    PROVE  /\ Heir(S, self, [self EXCEPT !.election.erec = @ + 1])
           /\ Heir(S, self, [self EXCEPT !.election.lrec = @ + 1])
<1>1. /\ self.election \in Election
      /\ self.election.erec \in Nat /\ self.election.lrec \in Nat
  BY DEF Clean, NodeState, Election
<1> DEFINE e == [self.election EXCEPT !.erec = @ + 1]
           l == [self.election EXCEPT !.lrec = @ + 1]
<1>2. e \in Election /\ e.caw = self.election.caw
  BY <1>1 DEF Election
<1>3. l \in Election /\ l.caw = self.election.caw
  BY <1>1 DEF Election
<1>4. /\ [self EXCEPT !.election.erec = @ + 1] = [self EXCEPT !.election = e]
      /\ [self EXCEPT !.election.lrec = @ + 1] = [self EXCEPT !.election = l]
  OBVIOUS
<1> HIDE DEF e, l
<1>5. Heir(S, self, [self EXCEPT !.election = e])
  BY <1>2 DEF Heir, Kept, Clean, NodeState
<1>6. Heir(S, self, [self EXCEPT !.election = l])
  BY <1>3 DEF Heir, Kept, Clean, NodeState
<1> QED BY <1>4, <1>5, <1>6

\* The LEADER branch: a leader that contests
LEMMA FinishHeir ==
    ASSUME NEW S \in SUBSET Node, NEW self, Clean(S, self),
           NEW leader \in S \cup {None}
    PROVE  Heir(S, self, Finish(self, leader))
<1>1. CASE ~LrecComplete(self)
  BY <1>1, HeirReflexive DEF Finish
<1>2. CASE LrecComplete(self)
  BY <1>2 DEF Finish, Heir, Kept, Clean, NodeState, NoElection, Election
<1> QED BY <1>1, <1>2

LEMMA ConfirmHeir ==
    ASSUME NEW S \in SUBSET Node, NEW self, Clean(S, self),
           NEW leader \in S \cup {None}
    PROVE  Heir(S, self, Confirm(self, leader))
<1> DEFINE repeated == IF self.uuid # leader /\ self.election.lrec = 0
                       THEN Send(self, self.group, Leader(self.election.caw))
                       ELSE self
           counted == [repeated EXCEPT !.election.lrec = @ + 1]
<1>1. Leader(self.election.caw) \in Naming(S)
  BY MessagesNaming DEF Clean
<1>2. Heir(S, self, repeated)
  BY <1>1, SendHeir, HeirReflexive
<1>3. Confirm(self, leader) = Finish(counted, leader)
  BY DEF Confirm
<1> HIDE DEF repeated
<1>4. Heir(S, repeated, counted)
  BY <1>2, CountHeir DEF Heir
<1> HIDE DEF counted
<1>5. Heir(S, counted, Finish(counted, leader))
  BY <1>4, FinishHeir DEF Heir
<1> QED BY <1>2, <1>3, <1>4, <1>5, HeirTransitive

-----------------------------------------------------------------------------
\* The inductive invariant: TypeOK, and only contenders are ever named.
Contesting == {n \in Node : node[n].contest}

IInv ==
    /\ node \in [Node -> NodeState]
    /\ \A n \in Node : node[n].uuid = n /\ Clean(Contesting, node[n])
    /\ budget \in [BudgetKinds -> Nat]

LEMMA IInvImplies == IInv => TypeOK /\ OnlyContendersLead
<1> SUFFICES ASSUME IInv PROVE TypeOK /\ OnlyContendersLead
  OBVIOUS
<1>1. TypeOK
  BY DEF IInv, TypeOK
<1>2. OnlyContendersLead
  BY DEF IInv, OnlyContendersLead, Clean, Contesting
<1> QED BY <1>1, <1>2

LEMMA InitInvariant == Init => IInv
<1> SUFFICES ASSUME Init PROVE IInv
  OBVIOUS
<1>1. ASSUME NEW n \in Node
      PROVE  /\ node[n] \in NodeState
             /\ node[n].uuid = n
             /\ node[n].contest = (n \in Contender)
             /\ node[n].election.caw = None
             /\ node[n].announced = None
             /\ \A r \in Node : node[n].mailbox[r] = <<>>
  <2> DEFINE peers == IF n \in Late THEN {} ELSE Node \ ({n} \cup Late)
  <2>1. node[n] = NewNode(n, peers) /\ peers \in SUBSET Node
    BY DEF Init
  <2> HIDE DEF peers
  <2> QED BY <2>1 DEF NewNode, NodeState, NoElection, Election
<1>2. node \in [Node -> NodeState]
  BY <1>1 DEF Init
<1>3. Contesting = Contender
  <2>1. \A n \in Node : node[n].contest <=> n \in Contender
    BY <1>1
  <2> QED BY <2>1, NodeAssumption DEF Contesting
<1>4. ASSUME NEW n \in Node PROVE Clean(Contesting, node[n])
  <2>0. <<>> \in Seq(Naming(Contesting))
    OBVIOUS
  <2>1. \A r \in Node : node[n].mailbox[r] \in Seq(Naming(Contesting))
    BY <1>1, <2>0
  <2>2. node[n].contest => node[n].uuid \in Contesting
    BY <1>1 DEF Contesting
  <2> QED BY <1>1, <2>1, <2>2 DEF Clean
<1> QED BY <1>1, <1>2, <1>4, BudgetAssumption DEF Init, IInv

\* Clean is about a set of names: more of them do no harm.
LEMMA CleanMonotone ==
    ASSUME NEW S, NEW T, S \subseteq T, NEW self, Clean(S, self)
    PROVE  Clean(T, self)
<1>1. Naming(S) \subseteq Naming(T)
  BY DEF Naming
<1>2. \A r \in Node : self.mailbox[r] \in Seq(Naming(T))
  BY <1>1, SeqMonotone DEF Clean
<1> QED BY <1>2 DEF Clean

\* A step that puts heirs in the places of nodes keeps the invariant.
LEMMA HeirsInvariant ==
    ASSUME IInv, budget' \in [BudgetKinds -> Nat],
           NEW next \in [Node -> NodeState], node' = next,
           \A n \in Node : Heir(Contesting, node[n], next[n])
    PROVE  IInv'
<1>1. Contesting' = Contesting
  BY DEF Contesting, Heir, Kept
<1>2. \A n \in Node : node'[n].uuid = n /\ Clean(Contesting', node'[n])
  BY <1>1 DEF IInv, Heir, Kept
<1> QED BY <1>2 DEF IInv, Clean

LEMMA BecomeInvariant ==
    ASSUME IInv, budget' \in [BudgetKinds -> Nat], NEW n \in Node, NEW self,
           Heir(Contesting, node[n], self), Become(n, self)
    PROVE  IInv'
<1> DEFINE next == [node EXCEPT ![n] = self]
<1>1. next \in [Node -> NodeState]
  BY DEF IInv, Heir, Clean
<1>2. \A m \in Node : Heir(Contesting, node[m], next[m])
  BY HeirReflexive DEF IInv
<1> QED BY <1>1, <1>2, HeirsInvariant DEF Become

\* The queue from s to r is replaced by one that names nobody new.
LEMMA QueueHeir ==
    ASSUME NEW S \in SUBSET Node, NEW self, Clean(S, self), NEW r \in Node,
           NEW q \in Seq(Naming(S))
    PROVE  Heir(S, self, [self EXCEPT !.mailbox[r] = q])
<1>1. q \in Seq(Message)
  BY NamingIsMessage, SeqMonotone
<1> DEFINE box == [self.mailbox EXCEPT ![r] = q]
<1>2. box \in [Node -> Seq(Message)] /\ \A t \in Node : box[t] \in Seq(Naming(S))
  BY <1>1 DEF Clean, NodeState
<1>3. [self EXCEPT !.mailbox[r] = q] = [self EXCEPT !.mailbox = box]
  OBVIOUS
<1> HIDE DEF box
<1> QED BY <1>2, <1>3 DEF Heir, Kept, Clean, NodeState

\* What is received was sent by a clean node.
LEMMA FrontNaming ==
    ASSUME IInv, NEW s \in Node, NEW r \in Node, node[s].mailbox[r] # <<>>
    PROVE  /\ Front(s, r) \in Naming(Contesting)
           /\ Tail(node[s].mailbox[r]) \in Seq(Naming(Contesting))
<1>1. node[s].mailbox[r] \in Seq(Naming(Contesting))
  BY DEF IInv, Clean
<1> QED BY <1>1 DEF Front

LEMMA HandleInvariant ==
    ASSUME IInv, UNCHANGED budget, NEW s \in Node, NEW r \in Node,
           node[s].mailbox[r] # <<>>,
           NEW self, Heir(Contesting, node[r], self), Handle(s, r, self)
    PROVE  IInv'
<1> DEFINE q == Tail(node[s].mailbox[r])
           sender == [node[s] EXCEPT !.mailbox[r] = q]
           next == [node EXCEPT ![s] = sender, ![r] = self]
<1>1. node' = next
  BY DEF Handle, IInv, NodeState
<1>2. Heir(Contesting, node[s], sender)
  <2>1. q \in Seq(Naming(Contesting)) /\ Contesting \in SUBSET Node
    BY FrontNaming DEF Contesting
  <2>2. Clean(Contesting, node[s])
    BY DEF IInv
  <2> HIDE DEF q
  <2> QED BY <2>1, <2>2, QueueHeir
<1> HIDE DEF sender
<1>3. next \in [Node -> NodeState]
  BY <1>2 DEF IInv, Heir, Clean
<1>4. \A m \in Node : Heir(Contesting, node[m], next[m])
  BY <1>2, HeirReflexive DEF IInv
<1> QED BY <1>1, <1>3, <1>4, HeirsInvariant DEF IInv

LEMMA SpendType ==
    ASSUME IInv, NEW k \in BudgetKinds, Spend(k)
    PROVE  budget' \in [BudgetKinds -> Nat]
BY DEF IInv, Spend

-----------------------------------------------------------------------------
\* The commands of the API, and the end of a process

LEMMA FlagHeir ==
    ASSUME NEW S, NEW self, Clean(S, self)
    PROVE  /\ Heir(S, self, [self EXCEPT !.member = TRUE])
           /\ Heir(S, self, [self EXCEPT !.member = FALSE])
           /\ Heir(S, self, [self EXCEPT !.alive = FALSE])
BY DEF Heir, Kept, Clean, NodeState

LEMMA ContestClean ==
    ASSUME NEW S, NEW self, Clean(S, self), self.uuid \in S
    PROVE  /\ Clean(S, [self EXCEPT !.contest = TRUE])
           /\ [self EXCEPT !.contest = TRUE].uuid = self.uuid
           /\ [self EXCEPT !.contest = TRUE].contest
BY DEF Clean, NodeState

LEMMA SetContestInvariant ==
    ASSUME IInv, NEW n \in Node, SetContest(n) PROVE IInv'
<1> DEFINE new == [node[n] EXCEPT !.contest = TRUE]
           next == [node EXCEPT ![n] = new]
           S == Contesting \cup {n}
<1>1. node' = next /\ budget' \in [BudgetKinds -> Nat]
  BY SpendType DEF SetContest, Become, BudgetKinds
<1>2. \A m \in Node : node[m].uuid = m /\ Clean(S, node[m])
  BY CleanMonotone DEF IInv
<1>3. new.uuid = n /\ Clean(S, new) /\ new.contest
  BY <1>2, ContestClean
<1> HIDE DEF new
<1>4. next \in [Node -> NodeState]
  BY <1>3 DEF IInv, Clean
<1>5. \A m \in Node : next[m].uuid = m /\ Clean(S, next[m])
  BY <1>2, <1>3 DEF IInv
<1>6. Contesting' = S
  BY <1>1, <1>3 DEF Contesting, IInv
<1> HIDE DEF next
<1> QED BY <1>1, <1>4, <1>5, <1>6 DEF IInv, Clean, Naming

LEMMA MembershipInvariant ==
    ASSUME IInv, NEW n \in Node, Join(n) \/ Leave(n) PROVE IInv'
<1> DEFINE joined == [node[n] EXCEPT !.member = TRUE]
           left == [node[n] EXCEPT !.member = FALSE]
<1>0. Contesting \in SUBSET Node /\ None \in Contesting \cup {None}
  BY DEF Contesting
<1>1. Plain("JOIN") \in Naming(Contesting) /\ Plain("LEAVE") \in Naming(Contesting)
  BY <1>0, MessagesNaming
<1>2. Heir(Contesting, node[n], joined) /\ Heir(Contesting, node[n], left)
  BY FlagHeir DEF IInv
<1>3. /\ Join(n) => Become(n, Send(joined, node[n].peers, Plain("JOIN")))
      /\ Leave(n) => Become(n, Send(left, node[n].peers, Plain("LEAVE")))
  BY DEF Join, Leave
<1>4. budget' \in [BudgetKinds -> Nat]
  BY SpendType DEF Join, Leave, BudgetKinds
<1> HIDE DEF joined, left
<1>5. /\ Heir(Contesting, node[n], Send(joined, node[n].peers, Plain("JOIN")))
      /\ Heir(Contesting, node[n], Send(left, node[n].peers, Plain("LEAVE")))
  BY <1>0, <1>1, <1>2, SendHeir, HeirTransitive DEF Heir
<1> QED BY <1>3, <1>4, <1>5, BecomeInvariant

LEMMA DieInvariant ==
    ASSUME IInv, NEW n \in Node, Die(n) PROVE IInv'
<1> DEFINE next == [m \in Node |-> IF m = n THEN [node[n] EXCEPT !.alive = FALSE]
                                   ELSE [node[m] EXCEPT !.mailbox[n] = <<>>]]
<1>1. node' = next /\ budget' \in [BudgetKinds -> Nat]
  BY SpendType DEF Die, BudgetKinds
<1>2. Heir(Contesting, node[n], [node[n] EXCEPT !.alive = FALSE])
  BY FlagHeir DEF IInv
<1>3. \A m \in Node : Heir(Contesting, node[m], [node[m] EXCEPT !.mailbox[n] = <<>>])
  <2>1. Contesting \in SUBSET Node /\ <<>> \in Seq(Naming(Contesting))
    BY DEF Contesting
  <2> QED BY <2>1, QueueHeir DEF IInv
<1>4. \A m \in Node : Heir(Contesting, node[m], next[m])
  BY <1>2, <1>3
<1>5. next \in [Node -> NodeState]
  BY <1>2, <1>3 DEF Heir, Clean
<1> HIDE DEF next
<1> QED BY <1>1, <1>4, <1>5, HeirsInvariant

-----------------------------------------------------------------------------
\* Discovery, removal, and what a dead process had not sent

LEMMA DiscoverInvariant ==
    ASSUME IInv, NEW n \in Node, NEW m \in Node, Discover(n, m) PROVE IInv'
<1>1. Heir(Contesting, node[n], RequirePeer(node[n], m))
  BY RequirePeerHeir DEF IInv, Contesting
<1> QED BY <1>1, BecomeInvariant DEF Discover, IInv

LEMMA RemoveInvariant ==
    ASSUME IInv, NEW n \in Node, NEW p \in Node, Remove(n, p) PROVE IInv'
<1>1. PICK leader : Become(n, RemovePeer(node[n], p, leader))
  BY DEF Remove
<1>2. Heir(Contesting, node[n], RemovePeer(node[n], p, leader))
  BY RemovePeerHeir DEF IInv, Contesting
<1> QED BY <1>1, <1>2, BecomeInvariant DEF Remove, IInv

LEMMA DiscardInvariant ==
    ASSUME IInv, NEW s \in Node, NEW r \in Node, Discard(s, r) PROVE IInv'
<1> DEFINE q == node[s].mailbox[r]
           rest == SubSeq(q, 1, Len(q) - 1)
           new == [node[s] EXCEPT !.mailbox[r] = rest]
<1>1. rest \in Seq(Naming(Contesting))
  BY DEF Discard, IInv, Clean
<1>2. Become(s, new)
  BY DEF Discard, Become, IInv, NodeState
<1>3. Contesting \in SUBSET Node /\ Clean(Contesting, node[s])
  BY DEF IInv, Contesting
<1> HIDE DEF rest
<1>4. Heir(Contesting, node[s], new)
  BY <1>1, <1>3, QueueHeir
<1> HIDE DEF new
<1> QED BY <1>2, <1>4, BecomeInvariant DEF Discard, IInv

-----------------------------------------------------------------------------
\* zyre_node_recv_peer

\* What every handler of a message of s may use.
LEMMA ReceiveFacts ==
    ASSUME IInv, NEW s \in Node, NEW r \in Node, node[s].mailbox[r] # <<>>
    PROVE  /\ Contesting \in SUBSET Node
           /\ Clean(Contesting, node[r])
           /\ Front(s, r).id \in Contesting \cup {None}
BY FrontNaming DEF IInv, Contesting, Naming

\* The group and the ready flag of a peer
LEMMA MemberHeir ==
    ASSUME NEW S, NEW self, Clean(S, self), NEW s \in Node
    PROVE  /\ Heir(S, self, [self EXCEPT !.group = @ \cup {s}])
           /\ Heir(S, self, [self EXCEPT !.group = @ \ {s}])
           /\ Heir(S, self, [self EXCEPT !.running = TRUE])
<1>1. self.group \cup {s} \in SUBSET Node /\ self.group \ {s} \in SUBSET Node
  BY DEF Clean, NodeState
<1> QED BY <1>1 DEF Heir, Kept, Clean, NodeState

LEMMA ReadyHeir ==
    ASSUME NEW S, NEW self, Clean(S, self), NEW s \in Node, NEW group \in SUBSET Node
    PROVE  Heir(S, self, [self EXCEPT !.ready = @ \cup {s}, !.group = group])
<1>1. self.ready \cup {s} \in SUBSET Node
  BY DEF Clean, NodeState
<1> QED BY <1>1 DEF Heir, Kept, Clean, NodeState

LEMMA RecvIgnoredInvariant ==
    ASSUME IInv, NEW s \in Node, NEW r \in Node, RecvIgnored(s, r) PROVE IInv'
BY ReceiveFacts, HeirReflexive, HandleInvariant DEF RecvIgnored

LEMMA RecvHelloInvariant ==
    ASSUME IInv, NEW s \in Node, NEW r \in Node, RecvHello(s, r) PROVE IInv'
<1> DEFINE met == IF s \in node[r].peers THEN node[r] ELSE RequirePeer(node[r], s)
           group == IF Front(s, r).joined THEN met.group \cup {s} ELSE met.group
           self == [met EXCEPT !.ready = @ \cup {s}, !.group = group]
           new == IF Front(s, r).joined /\ self.contest THEN StartElection(self)
                  ELSE self
<1>1. /\ Contesting \in SUBSET Node /\ Clean(Contesting, node[r])
      /\ node[s].mailbox[r] # <<>> /\ UNCHANGED budget
  BY ReceiveFacts DEF RecvHello, Receive
<1>2. Heir(Contesting, node[r], met)
  BY <1>1, RequirePeerHeir, HeirReflexive
<1>3. Handle(s, r, new)
  BY DEF RecvHello
<1> HIDE DEF met
<1>4. group \in SUBSET Node
  BY <1>2 DEF Heir, Clean, NodeState
<1> HIDE DEF group
<1>5. Heir(Contesting, met, self)
  BY <1>2, <1>4, ReadyHeir DEF Heir
<1> HIDE DEF self
<1>6. Heir(Contesting, self, new)
  BY <1>1, <1>5, StartElectionHeir, HeirReflexive DEF Heir
<1> HIDE DEF new
<1>7. Heir(Contesting, node[r], new)
  BY <1>2, <1>5, <1>6, HeirTransitive
<1> QED BY <1>1, <1>3, <1>7, HandleInvariant

LEMMA RecvJoinInvariant ==
    ASSUME IInv, NEW s \in Node, NEW r \in Node, RecvJoin(s, r) PROVE IInv'
<1> DEFINE self == [node[r] EXCEPT !.group = @ \cup {s}]
           new == IF self.member /\ self.contest THEN StartElection(self) ELSE self
<1>1. /\ Contesting \in SUBSET Node /\ Clean(Contesting, node[r])
      /\ node[s].mailbox[r] # <<>> /\ UNCHANGED budget
  BY ReceiveFacts DEF RecvJoin, Receive
<1>2. Handle(s, r, new)
  BY DEF RecvJoin
<1>3. Heir(Contesting, node[r], self)
  BY <1>1, MemberHeir
<1> HIDE DEF self
<1>4. Heir(Contesting, self, new)
  BY <1>1, <1>3, StartElectionHeir, HeirReflexive DEF Heir
<1> HIDE DEF new
<1>5. Heir(Contesting, node[r], new)
  BY <1>3, <1>4, HeirTransitive
<1> QED BY <1>1, <1>2, <1>5, HandleInvariant

LEMMA RecvLeaveInvariant ==
    ASSUME IInv, NEW s \in Node, NEW r \in Node, RecvLeave(s, r) PROVE IInv'
<1> DEFINE self == [node[r] EXCEPT !.group = @ \ {s}]
           new(leader) == IF ~(self.member /\ self.contest /\ leader = s) THEN self
                          ELSE IF self.group = {} THEN LeadAlone(self)
                          ELSE StartElection(self)
<1>1. /\ Contesting \in SUBSET Node /\ Clean(Contesting, node[r])
      /\ node[s].mailbox[r] # <<>> /\ UNCHANGED budget
  BY ReceiveFacts DEF RecvLeave, Receive
<1>2. PICK leader : Handle(s, r, new(leader))
  BY DEF RecvLeave
<1>3. Heir(Contesting, node[r], self)
  BY <1>1, MemberHeir
<1> HIDE DEF self
<1>4. Heir(Contesting, self, new(leader))
  BY <1>1, <1>3, StartElectionHeir, LeadAloneHeir, HeirReflexive DEF Heir
<1>5. Heir(Contesting, node[r], new(leader))
  BY <1>3, <1>4, HeirTransitive
<1> HIDE DEF new
<1> QED BY <1>1, <1>2, <1>5, HandleInvariant

LEMMA RecvElectInvariant ==
    ASSUME IInv, NEW s \in Node, NEW r \in Node, RecvElect(s, r) PROVE IInv'
<1> DEFINE challenger == Front(s, r).id
           self == Support(node[r], s, challenger)
           counted == [self EXCEPT !.election.erec = @ + 1]
           new(father) == IF self.election.caw = challenger
                          THEN Echo(counted, father) ELSE self
<1>1. /\ Contesting \in SUBSET Node /\ Clean(Contesting, node[r])
      /\ challenger \in Contesting \cup {None}
      /\ node[s].mailbox[r] # <<>> /\ UNCHANGED budget
  BY ReceiveFacts DEF RecvElect, Receive
<1>2. PICK father : Handle(s, r, new(father))
  BY DEF RecvElect
<1>3. Heir(Contesting, node[r], self)
  BY <1>1, SupportHeir
<1> HIDE DEF self
<1>4. Heir(Contesting, self, counted)
  BY <1>1, <1>3, CountHeir DEF Heir
<1> HIDE DEF counted
<1>5. Heir(Contesting, counted, Echo(counted, father))
  BY <1>1, <1>4, EchoHeir DEF Heir
<1>6. Heir(Contesting, node[r], new(father))
  BY <1>3, <1>4, <1>5, HeirTransitive
<1> HIDE DEF new
<1> QED BY <1>1, <1>2, <1>6, HandleInvariant

LEMMA RecvLeaderInvariant ==
    ASSUME IInv, NEW s \in Node, NEW r \in Node, RecvLeader(s, r) PROVE IInv'
<1> DEFINE new == IF node[r].election.caw = None
                  THEN [node[r] EXCEPT !.running = TRUE]
                  ELSE Confirm(node[r], Front(s, r).id)
<1>1. /\ Contesting \in SUBSET Node /\ Clean(Contesting, node[r])
      /\ Front(s, r).id \in Contesting \cup {None}
      /\ node[s].mailbox[r] # <<>> /\ UNCHANGED budget
  BY ReceiveFacts DEF RecvLeader, Receive
<1>2. Handle(s, r, new)
  BY DEF RecvLeader
<1>3. Heir(Contesting, node[r], new)
  BY <1>1, MemberHeir, ConfirmHeir
<1> HIDE DEF new
<1> QED BY <1>1, <1>2, <1>3, HandleInvariant

-----------------------------------------------------------------------------
LEMMA NextInvariant == IInv /\ [Next]_vars => IInv'
<1> SUFFICES ASSUME IInv, [Next]_vars PROVE IInv'
  OBVIOUS
<1>1. CASE UNCHANGED vars
  BY <1>1 DEF vars, IInv, Clean, Contesting
<1>2. ASSUME NEW n \in Node, SetContest(n) \/ Join(n) \/ Leave(n) \/ Die(n)
      PROVE  IInv'
  BY <1>2, SetContestInvariant, MembershipInvariant, DieInvariant
<1>3. ASSUME NEW n \in Node, NEW m \in Node,
             Discover(n, m) \/ Remove(n, m) \/ Discard(m, n)
      PROVE  IInv'
  BY <1>3, DiscoverInvariant, RemoveInvariant, DiscardInvariant
<1>4. ASSUME NEW n \in Node, NEW m \in Node, Recv(m, n) PROVE IInv'
  BY <1>4, RecvIgnoredInvariant, RecvHelloInvariant, RecvJoinInvariant,
     RecvLeaveInvariant, RecvElectInvariant, RecvLeaderInvariant DEF Recv
<1> QED BY <1>1, <1>2, <1>3, <1>4 DEF Next

\* Every wave, every message under way and every LEADER event name a node that
\* contests, whatever joins, leaves, dies or is received late.
THEOREM Invariant == Spec => []IInv
<1>1. Init => IInv
  BY InitInvariant
<1>2. IInv /\ [Next]_vars => IInv'
  BY NextInvariant
<1> QED BY <1>1, <1>2, PTL DEF Spec

\* The state of zyre_election_t and zyre_group_t stays well-typed.
THEOREM TypeCorrect == Spec => []TypeOK
<1>1. IInv => TypeOK
  BY IInvImplies
<1> QED BY <1>1, Invariant, PTL

\* zyre_set_contest_in_group: who does not contest never gets elected.
THEOREM ContendersLead == Spec => []OnlyContendersLead
<1>1. IInv => OnlyContendersLead
  BY IInvImplies
<1> QED BY <1>1, Invariant, PTL

-----------------------------------------------------------------------------
(***************************************************************************)
(* Why the members agree on a leader when nodes join one by one: the waves *)
(* of the challengers are an echo algorithm with extinction.               *)
(*                                                                         *)
(* The group goes through phases (Phase).  j joins it: if nobody in it     *)
(* contests nothing happens (Unopposed); otherwise the wave of w, its      *)
(* lowest challenger, Spreading, puts out all others and is complete when  *)
(* everybody supports w; then w is Elected and everybody confirms it.      *)
(* CInv says in which of them the nodes are, and what they have counted.   *)
(***************************************************************************)

\* Nodes that know each other join one by one and stay.  This is a condition on how
\* zyre is used and on what the network does; the code guarantees none of it.
Orderly ==
    /\ Late = {} /\ Patient /\ Prompt
    /\ Budget["leave"] = 0 /\ Budget["die"] = 0

-----------------------------------------------------------------------------
\* State functions of nd, which stands for node.

Members(nd) == {n \in Node : nd[n].member}

\* What holds all the time: everybody is alive and knows everybody.
Base(nd) ==
    /\ nd \in [Node -> NodeState]
    /\ \A n \in Node :
          /\ nd[n].uuid = n /\ nd[n].alive
          /\ nd[n].peers = Node \ {n} /\ nd[n].ready = Node \ {n}
          /\ n \in Contender => nd[n].contest

\* The JOIN of j is on its way to r.
Pending(nd, j, r) ==
    /\ nd[j].mailbox[r] # <<>>
    /\ nd[j].mailbox[r][1].command = "JOIN"

\* Everybody who has heard of j's JOIN knows all members.
Knows(nd, j) ==
    \A r \in Node :
        nd[r].group = IF Pending(nd, j, r) THEN Members(nd) \ {j, r}
                                           ELSE Members(nd) \ {r}

\* Who is no member takes no part.
Bystanders(nd) ==
    \A n \in Node \ Members(nd) :
        nd[n].announced = None /\ nd[n].election = NoElection

Common(nd, j) ==
    /\ Base(nd) /\ j \in Members(nd) /\ Knows(nd, j) /\ Bystanders(nd)

-----------------------------------------------------------------------------
\* No election is held, and all members know the same leader.
Idle(nd) ==
    /\ Base(nd) /\ Bystanders(nd)
    /\ \A n \in Node :
          /\ nd[n].group = Members(nd) \ {n}
          /\ nd[n].election = NoElection
          /\ \A r \in Node : nd[n].mailbox[r] = <<>>
    /\ \E k \in Members(nd) \cup {None} :
          /\ \A n \in Members(nd) : nd[n].announced = k
          /\ k # None => nd[k].contest
          /\ k = None => Cardinality(Members(nd) \cap Contender) <= 1

\* j joins a group without challengers.
Unopposed(nd, j) ==
    /\ Common(nd, j)
    /\ \A n \in Members(nd) \ {j} : ~nd[n].contest
    /\ \A n \in Node :
          /\ nd[n].election = NoElection /\ nd[n].announced = None
          /\ \A r \in Node :
                \/ nd[n].mailbox[r] = <<>>
                \/ n = j /\ n # r /\ nd[n].mailbox[r] = <<Plain("JOIN")>>

-----------------------------------------------------------------------------
\* s has sent its vote for w to r: to its father only when it has all others.
Voted(nd, w, s, r) ==
    /\ nd[s].election.caw = w
    /\ nd[s].election.father # r \/ ErecComplete(nd[s])

\* Those whose vote for w has arrived at r.
Votes(nd, w, r) ==
    {s \in Members(nd) \ {r} : Voted(nd, w, s, r) /\ nd[s].mailbox[r] = <<>>}

IsElect(m) == m.command = "ELECT" /\ m = Elect(m.id)

\* A queue: a JOIN first, then votes for lower and lower challengers, none lower
\* than caw; the vote for w, once cast, is the last.
LineOf(q, w, caw, voted, joins, inside, root) ==
    /\ \A i \in DOMAIN q :
          \/ q[i] = Plain("JOIN") /\ i = 1 /\ joins
          \/ /\ IsElect(q[i]) /\ inside
             /\ caw \in Node /\ q[i].id \in Node /\ caw <= q[i].id
             /\ root => q[i].id = w
    /\ \A i, k \in DOMAIN q : i < k /\ q[i].command = "ELECT" => q[k].id < q[i].id
    /\ voted /\ inside /\ q # <<>> => q[Len(q)] = Elect(w)
    /\ \A i \in DOMAIN q : q[i] = Elect(w) => voted

\* From s to r.
Line(nd, w, j, s, r) ==
    /\ s = r => nd[s].mailbox[r] = <<>>
    /\ LineOf(nd[s].mailbox[r], w, nd[s].election.caw, Voted(nd, w, s, r),
              s = j, {s, r} \subseteq Members(nd), s = w)

\* r has s's vote for c; what else s has sent it is lower.
Behind(nd, s, r, c) ==
    /\ nd[s].election.caw \in Node /\ nd[s].election.caw <= c
    /\ \A i \in DOMAIN nd[s].mailbox[r] :
          IsElect(nd[s].mailbox[r][i]) => nd[s].mailbox[r][i].id < c

\* The votes r has counted for another challenger than w: w's is not there.
Stray(nd, w, r, V) ==
    /\ V \subseteq Members(nd) \ {r, w}
    /\ Cardinality(V) = nd[r].election.erec
    /\ \A s \in V : Behind(nd, s, r, nd[r].election.caw)

\* What r has counted.
Tally(nd, w, j, r) ==
    LET e == nd[r].election
    IN  /\ Pending(nd, j, r) => e.caw = None
        /\ e.caw = None => e = NoElection
        /\ e.caw # None => w <= e.caw
        /\ e.lrec = 0
        /\ r = w /\ ~Pending(nd, j, r) => e.caw = w
        /\ e.caw = w => e.erec = Cardinality(Votes(nd, w, r))
        /\ e.caw # w => Votes(nd, w, r) = {}
        /\ e.caw \notin {None, w} => \E V \in SUBSET Node : Stray(nd, w, r, V)

\* The supporters of w are a tree with w at its root: going up from any of them
\* one leaves any set without w, and going down one leaves any set.
Supporters(nd, w) == {n \in Node : nd[n].election.caw = w}

Tree(nd, w) ==
    /\ nd[w].election.father = None
    /\ \A n \in Supporters(nd, w) \ {w} :
          nd[n].election.father \in Supporters(nd, w) \ {n}
    /\ Supporters(nd, w) # {} => w \in Supporters(nd, w)
    /\ \A S \in SUBSET Supporters(nd, w) : S # {} =>
          /\ w \notin S => \E n \in S : nd[n].election.father \notin S
          /\ \E n \in S : \A m \in S : nd[m].election.father # n

\* w is the lowest challenger of a group that j joins.
Lowest(nd, w, j) ==
    /\ w \in Members(nd) \ {j} /\ nd[w].contest
    /\ \A n \in Members(nd) \ {j} : nd[n].contest => w <= n

\* The wave of w spreads.
Spreading(nd, w, j) ==
    /\ Common(nd, j) /\ Lowest(nd, w, j)
    /\ \A s, r \in Node : Line(nd, w, j, s, r)
    /\ \A r \in Members(nd) : Tally(nd, w, j, r)
    /\ Tree(nd, w)
    /\ ~(nd[w].election.caw = w /\ ErecComplete(nd[w]))

-----------------------------------------------------------------------------
\* s has sent LEADER; r has received it.
Told(nd, w, s) ==
    s = w \/ nd[s].election.caw = None \/ nd[s].election.lrec > 0

Heard(nd, w, r) ==
    {s \in Members(nd) \ {r} : Told(nd, w, s) /\ nd[s].mailbox[r] = <<>>}

\* w has been elected, and all confirm it.
Elected(nd, w, j) ==
    /\ Common(nd, j) /\ w \in Members(nd) \ {j} /\ nd[w].contest
    /\ \A s, r \in Node :
          \/ nd[s].mailbox[r] = <<>>
          \/ /\ nd[s].mailbox[r] = <<Leader(w)>> /\ Told(nd, w, s)
             /\ s \in Members(nd) /\ r \in Members(nd) \ {s}
          \/ /\ nd[s].mailbox[r] = <<Plain("JOIN")>>
             /\ s = j /\ r \notin Members(nd)
    /\ \A r \in Members(nd) :
          LET e == nd[r].election
          IN  \/ /\ e = NoElection /\ nd[r].announced = w
                 /\ Heard(nd, w, r) = Members(nd) \ {r}
              \/ /\ e.caw = w /\ e.erec = Cardinality(nd[r].group)
                 /\ e.lrec = Cardinality(Heard(nd, w, r))
                 /\ Heard(nd, w, r) # Members(nd) \ {r}

-----------------------------------------------------------------------------
Phase(nd) ==
    \/ Idle(nd)
    \/ \E j \in Node : Unopposed(nd, j)
    \/ \E j, w \in Node : Spreading(nd, w, j)
    \/ \E j, w \in Node : Elected(nd, w, j)

CInv ==
    /\ IInv
    /\ budget["leave"] = 0 /\ budget["die"] = 0
    /\ Phase(node)

-----------------------------------------------------------------------------
\* Queues

LEMMA TailFacts ==
    ASSUME NEW q \in Seq(Message), q # <<>>
    PROVE  /\ Tail(q) \in Seq(Message) /\ Len(q) \in Nat /\ Len(q) > 0
           /\ DOMAIN q = 1 .. Len(q) /\ DOMAIN Tail(q) = 1 .. Len(q) - 1
           /\ Len(Tail(q)) = Len(q) - 1 /\ Head(q) = q[1]
           /\ \A i \in 1 .. Len(q) - 1 : Tail(q)[i] = q[i + 1]
           /\ Tail(q) = <<>> <=> Len(q) = 1
<1>1. /\ Tail(q) \in Seq(Message) /\ Len(q) \in Nat /\ Len(q) > 0
      /\ DOMAIN q = 1 .. Len(q)
      /\ Len(Tail(q)) = Len(q) - 1 /\ Head(q) = q[1]
      /\ \A i \in 1 .. Len(q) - 1 : Tail(q)[i] = q[i + 1]
  OBVIOUS
<1>2. DOMAIN Tail(q) = 1 .. Len(q) - 1
  BY <1>1
<1>3. Tail(q) = <<>> <=> Len(Tail(q)) = 0
  <2>1. \A t \in Seq(Message) : t = <<>> <=> Len(t) = 0
    OBVIOUS
  <2> QED BY <1>1, <2>1
<1> QED BY <1>1, <1>2, <1>3

LEMMA AppendFacts ==
    ASSUME NEW q \in Seq(Message), NEW m \in Message
    PROVE  /\ Append(q, m) \in Seq(Message) /\ Append(q, m) # <<>>
           /\ Len(q) \in Nat /\ DOMAIN q = 1 .. Len(q)
           /\ Len(Append(q, m)) = Len(q) + 1
           /\ DOMAIN Append(q, m) = 1 .. Len(q) + 1
           /\ \A i \in 1 .. Len(q) : Append(q, m)[i] = q[i]
           /\ Append(q, m)[Len(q) + 1] = m
OBVIOUS

LEMMA MessageTypes ==
    /\ Plain("JOIN") \in Message /\ Plain("JOIN").command = "JOIN"
    /\ \A k \in Node : /\ Elect(k) \in Message /\ Elect(k).command = "ELECT"
                       /\ Elect(k).id = k
    /\ \A k \in Node : /\ Leader(k) \in Message /\ Leader(k).command = "LEADER"
                       /\ Leader(k).id = k
BY DEF Message, Command, Plain, Elect, Leader

-----------------------------------------------------------------------------
\* What is left of a node's record when it has handled a message: what it sent
\* to R, and what no handler of an orderly election touches.
Sends(old, new, R, msg) ==
    /\ new.uuid = old.uuid /\ new.alive = old.alive
    /\ new.peers = old.peers /\ new.ready = old.ready
    /\ new.member = old.member /\ new.contest = old.contest
    /\ \A b \in Node : new.mailbox[b] = IF b \in R THEN Append(old.mailbox[b], msg)
                                                   ELSE old.mailbox[b]

\* The front of the queue from s to r is handled by r.
Passed(nd, nd2, s, r, R, msg) ==
    /\ nd2 \in [Node -> NodeState]
    /\ \A n \in Node :
          /\ nd2[n].uuid = nd[n].uuid /\ nd2[n].alive = nd[n].alive
          /\ nd2[n].peers = nd[n].peers /\ nd2[n].ready = nd[n].ready
          /\ nd2[n].member = nd[n].member /\ nd2[n].contest = nd[n].contest
    /\ \A n \in Node \ {r} :
          /\ nd2[n].group = nd[n].group /\ nd2[n].election = nd[n].election
          /\ nd2[n].announced = nd[n].announced
    /\ \A a, b \in Node :
          nd2[a].mailbox[b] = IF a = s /\ b = r THEN Tail(nd[s].mailbox[r])
                              ELSE IF a = r /\ b \in R THEN Append(nd[r].mailbox[b], msg)
                              ELSE nd[a].mailbox[b]

LEMMA MailboxOnly ==
    ASSUME NEW a \in NodeState, NEW box
    PROVE  LET c == [a EXCEPT !.mailbox = box]
           IN  /\ c.uuid = a.uuid /\ c.alive = a.alive
               /\ c.peers = a.peers /\ c.ready = a.ready
               /\ c.member = a.member /\ c.contest = a.contest
               /\ c.group = a.group /\ c.election = a.election
               /\ c.announced = a.announced /\ c.mailbox = box
BY DEF NodeState

\* r is self after it, and the queue from s is shorter.
Handled(nd, s, r, self) == [nd EXCEPT ![s].mailbox[r] = Tail(@), ![r] = self]

LEMMA HandlePassed ==
    ASSUME NEW nd \in [Node -> NodeState], NEW nd2 \in [Node -> NodeState],
           NEW s \in Node, NEW r \in Node \ {s}, NEW self, NEW R, NEW msg,
           Sends(nd[r], self, R, msg),
           nd2 = Handled(nd, s, r, self)
    PROVE  Passed(nd, nd2, s, r, R, msg) /\ nd2[r] = self
<1>1. nd2[r] = self
  BY DEF Handled
<1>2. \A n \in Node \ {r, s} : nd2[n] = nd[n]
  BY DEF Handled
<1> DEFINE box == [nd[s].mailbox EXCEPT ![r] = Tail(nd[s].mailbox[r])]
<1>3. nd2[s] = [nd[s] EXCEPT !.mailbox = box]
  BY DEF Handled
<1>4. /\ nd[s] \in NodeState /\ nd2[s] \in NodeState
      /\ nd[s].mailbox \in [Node -> Seq(Message)]
  BY DEF NodeState
<1>5. \A b \in Node : box[b] = IF b = r THEN Tail(nd[s].mailbox[r])
                               ELSE nd[s].mailbox[b]
  BY <1>4
<1> HIDE DEF box
<1>6. /\ nd2[s].uuid = nd[s].uuid /\ nd2[s].alive = nd[s].alive
      /\ nd2[s].peers = nd[s].peers /\ nd2[s].ready = nd[s].ready
      /\ nd2[s].member = nd[s].member /\ nd2[s].contest = nd[s].contest
      /\ nd2[s].group = nd[s].group /\ nd2[s].election = nd[s].election
      /\ nd2[s].announced = nd[s].announced
      /\ nd2[s].mailbox = box
  <2> DEFINE c == [nd[s] EXCEPT !.mailbox = box]
  <2>1. nd[s] \in NodeState
    BY <1>4
  <2>2. /\ c.uuid = nd[s].uuid /\ c.alive = nd[s].alive
        /\ c.peers = nd[s].peers /\ c.ready = nd[s].ready
        /\ c.member = nd[s].member /\ c.contest = nd[s].contest
        /\ c.group = nd[s].group /\ c.election = nd[s].election
        /\ c.announced = nd[s].announced /\ c.mailbox = box
    BY <2>1, MailboxOnly
  <2>3. nd2[s] = c
    BY <1>3
  <2> HIDE DEF c
  <2> QED BY <2>2, <2>3
<1>7. \A a, b \in Node :
         nd2[a].mailbox[b] = IF a = s /\ b = r THEN Tail(nd[s].mailbox[r])
                             ELSE IF a = r /\ b \in R THEN Append(nd[r].mailbox[b], msg)
                             ELSE nd[a].mailbox[b]
  <2> TAKE a, b \in Node
  <2>1. CASE a = r
    BY <1>1, <2>1 DEF Sends
  <2>2. CASE a = s
    BY <1>5, <1>6, <2>2
  <2>3. CASE a \notin {r, s}
    BY <1>2, <2>3
  <2> QED BY <2>1, <2>2, <2>3
<1>8. ASSUME NEW n \in Node
      PROVE  /\ nd2[n].uuid = nd[n].uuid /\ nd2[n].alive = nd[n].alive
             /\ nd2[n].peers = nd[n].peers /\ nd2[n].ready = nd[n].ready
             /\ nd2[n].member = nd[n].member /\ nd2[n].contest = nd[n].contest
  <2>1. CASE n = r
    BY <1>1, <2>1 DEF Sends
  <2>2. CASE n = s
    BY <1>6, <2>2
  <2>3. CASE n \notin {r, s}
    BY <1>2, <2>3
  <2> QED BY <2>1, <2>2, <2>3
<1>9. ASSUME NEW n \in Node \ {r}
      PROVE  /\ nd2[n].group = nd[n].group /\ nd2[n].election = nd[n].election
             /\ nd2[n].announced = nd[n].announced
  BY <1>2, <1>6
<1> QED BY <1>1, <1>7, <1>8, <1>9 DEF Passed

LEMMA SendSends ==
    ASSUME NEW self \in NodeState, NEW R \in SUBSET self.peers, NEW msg
    PROVE  /\ Sends(self, Send(self, R, msg), R, msg)
           /\ Send(self, R, msg).election = self.election
           /\ Send(self, R, msg).group = self.group
           /\ Send(self, R, msg).announced = self.announced
           /\ Send(self, R, msg).leader = self.leader
           /\ Send(self, R, msg).running = self.running
<1> DEFINE box == [b \in Node |-> IF b \in R \cap self.peers
                                  THEN Append(self.mailbox[b], msg)
                                  ELSE self.mailbox[b]]
<1>1. Send(self, R, msg) = [self EXCEPT !.mailbox = box]
  BY DEF Send
<1>2. \A b \in Node : box[b] = IF b \in R THEN Append(self.mailbox[b], msg)
                               ELSE self.mailbox[b]
  OBVIOUS
<1> HIDE DEF box
<1> QED BY <1>1, <1>2 DEF NodeState, Sends

LEMMA PassedBase ==
    ASSUME NEW nd, NEW nd2, NEW s \in Node, NEW r \in Node, NEW R, NEW msg,
           Passed(nd, nd2, s, r, R, msg)
    PROVE  /\ Members(nd2) = Members(nd)
           /\ Base(nd) => Base(nd2)
<1>1. Members(nd2) = Members(nd)
  BY DEF Passed, Members
<1>2. ASSUME Base(nd) PROVE Base(nd2)
  BY <1>2 DEF Passed, Base
<1> QED BY <1>1, <1>2

-----------------------------------------------------------------------------
\* What the handlers do, where no pointer dangles

LEMMA StartElectionSends ==
    ASSUME NEW self \in NodeState, self.group \subseteq self.peers
    PROVE  LET new == StartElection(self)
           IN  /\ Sends(self, new, self.group, Elect(self.uuid))
               /\ new.election = [NoElection EXCEPT !.caw = self.uuid]
               /\ new.group = self.group /\ new.announced = self.announced
<1> DEFINE e == [NoElection EXCEPT !.caw = self.uuid]
           mid == [self EXCEPT !.running = TRUE, !.election = e, !.leader = None]
<1>1. e \in Election
  BY DEF NodeState, NoElection, Election
<1> HIDE DEF e
<1>2. /\ mid \in NodeState /\ mid.uuid = self.uuid /\ mid.alive = self.alive
      /\ mid.peers = self.peers /\ mid.ready = self.ready
      /\ mid.member = self.member /\ mid.contest = self.contest
      /\ mid.group = self.group /\ mid.announced = self.announced
      /\ mid.election = e /\ mid.mailbox = self.mailbox
  BY <1>1 DEF NodeState
<1>3. StartElection(self) = Send(mid, self.group, Elect(self.uuid))
  BY DEF StartElection, e
<1> HIDE DEF mid
<1>4. self.group \in SUBSET mid.peers
  BY <1>2
<1> DEFINE new == Send(mid, self.group, Elect(self.uuid))
<1>5. /\ Sends(mid, new, self.group, Elect(self.uuid))
      /\ new.election = mid.election /\ new.group = mid.group
      /\ new.announced = mid.announced
  BY <1>2, <1>4, SendSends
<1> HIDE DEF new
<1>6. Sends(self, new, self.group, Elect(self.uuid))
  BY <1>2, <1>5 DEF Sends
<1> QED BY <1>2, <1>3, <1>5, <1>6 DEF e, new

LEMMA SendsNothing ==
    ASSUME NEW self, NEW msg PROVE Sends(self, self, {}, msg)
BY DEF Sends

LEMMA JoinOutcome ==
    ASSUME Base(node), node' \in [Node -> NodeState],
           NEW s \in Node, NEW r \in Node \ {s}, RecvJoin(s, r),
           node[r].group \subseteq Node \ {r}
    PROVE  LET challenges == node[r].member /\ node[r].contest
               group == node[r].group \cup {s}
           IN  /\ node[s].mailbox[r] # <<>> /\ node[s].mailbox[r][1].command = "JOIN"
               /\ Passed(node, node', s, r, IF challenges THEN group ELSE {}, Elect(r))
               /\ node'[r].group = group
               /\ node'[r].announced = node[r].announced
               /\ node'[r].election = IF challenges
                                      THEN [NoElection EXCEPT !.caw = r]
                                      ELSE node[r].election
<1> DEFINE challenges == node[r].member /\ node[r].contest
           group == node[r].group \cup {s}
           self == [node[r] EXCEPT !.group = group]
           new == IF challenges THEN StartElection(self) ELSE self
<1>1. /\ node \in [Node -> NodeState] /\ node[r] \in NodeState
      /\ node[r].uuid = r /\ node[r].peers = Node \ {r}
  BY DEF Base
<1>0. node[s].mailbox[r] \in Seq(Message)
  BY <1>1 DEF NodeState
<1>2. node[s].mailbox[r] # <<>> /\ node[s].mailbox[r][1].command = "JOIN"
  BY <1>0 DEF RecvJoin, Receive, Front
<1>3. group \in SUBSET Node /\ group \subseteq Node \ {r}
  OBVIOUS
<1> HIDE DEF group
<1>4. /\ self \in NodeState /\ self.uuid = r /\ self.alive = node[r].alive
      /\ self.peers = Node \ {r} /\ self.ready = node[r].ready
      /\ self.member = node[r].member /\ self.contest = node[r].contest
      /\ self.group = group /\ self.announced = node[r].announced
      /\ self.election = node[r].election /\ self.mailbox = node[r].mailbox
  BY <1>1, <1>3 DEF NodeState
<1>5. node' = Handled(node, s, r, new)
  BY <1>4 DEF RecvJoin, Handle, group, Handled
<1> HIDE DEF self
<1>6. CASE challenges
  <2> DEFINE st == StartElection(self)
  <2>1. self.group \subseteq self.peers
    BY <1>3, <1>4
  <2>2. /\ Sends(self, st, self.group, Elect(self.uuid))
        /\ st.election = [NoElection EXCEPT !.caw = self.uuid]
        /\ st.group = self.group /\ st.announced = self.announced
    BY <1>4, <2>1, StartElectionSends
  <2> HIDE DEF st
  <2>3. Sends(node[r], st, group, Elect(r))
    BY <1>1, <1>4, <2>2 DEF Sends
  <2>4. node' = Handled(node, s, r, st)
    BY <1>5, <1>6 DEF st
  <2>5. Passed(node, node', s, r, group, Elect(r)) /\ node'[r] = st
    BY <1>1, <2>3, <2>4, HandlePassed
  <2> QED BY <1>2, <1>4, <1>6, <2>2, <2>5 DEF group
<1>7. CASE ~challenges
  <2>1. Sends(node[r], self, {}, Elect(r))
    BY <1>1, <1>4 DEF Sends
  <2>2. node' = Handled(node, s, r, self)
    BY <1>5, <1>7
  <2>3. Passed(node, node', s, r, {}, Elect(r)) /\ node'[r] = self
    BY <1>1, <2>1, <2>2, HandlePassed
  <2> QED BY <1>2, <1>4, <1>7, <2>3 DEF group
<1> QED BY <1>6, <1>7

\* The records of r on the way through the ELECT branch
Adopting(self, s, x) ==
    [self EXCEPT !.running = TRUE,
                 !.election = [caw |-> x, father |-> s, erec |-> 0, lrec |-> 0]]

Counting(self) == [self EXCEPT !.election.erec = @ + 1]

LEMMA CountingFacts ==
    ASSUME NEW self \in NodeState
    PROVE  LET new == Counting(self)
           IN  /\ new \in NodeState /\ new.uuid = self.uuid /\ new.alive = self.alive
               /\ new.peers = self.peers /\ new.ready = self.ready
               /\ new.member = self.member /\ new.contest = self.contest
               /\ new.group = self.group /\ new.announced = self.announced
               /\ new.mailbox = self.mailbox
               /\ new.election = [self.election EXCEPT !.erec = @ + 1]
<1> DEFINE e == [self.election EXCEPT !.erec = @ + 1]
<1>0. self.election \in Election /\ self.election.erec \in Nat
  BY DEF NodeState, Election
<1>1. e \in Election
  BY <1>0 DEF Election
<1>2. Counting(self) = [self EXCEPT !.election = e]
  BY DEF Counting
<1> HIDE DEF e
<1> QED BY <1>1, <1>2 DEF NodeState, e

LEMMA AdoptingFacts ==
    ASSUME NEW self \in NodeState, NEW s \in Node, NEW x \in Node
    PROVE  LET new == Adopting(self, s, x)
           IN  /\ new \in NodeState /\ new.uuid = self.uuid /\ new.alive = self.alive
               /\ new.peers = self.peers /\ new.ready = self.ready
               /\ new.member = self.member /\ new.contest = self.contest
               /\ new.group = self.group /\ new.announced = self.announced
               /\ new.mailbox = self.mailbox
               /\ new.election = [caw |-> x, father |-> s, erec |-> 0, lrec |-> 0]
<1> DEFINE e == [caw |-> x, father |-> s, erec |-> 0, lrec |-> 0]
<1>1. e \in Election
  BY DEF Election
<1>2. Adopting(self, s, x) = [self EXCEPT !.running = TRUE, !.election = e]
  BY DEF Adopting
<1> HIDE DEF e
<1> QED BY <1>1, <1>2 DEF NodeState, e

LEMMA SendState ==
    ASSUME NEW self \in NodeState, NEW R, NEW msg \in Message
    PROVE  Send(self, R, msg) \in NodeState
<1> DEFINE box == [b \in Node |-> IF b \in R \cap self.peers
                                  THEN Append(self.mailbox[b], msg)
                                  ELSE self.mailbox[b]]
<1>1. Send(self, R, msg) = [self EXCEPT !.mailbox = box]
  BY DEF Send
<1>2. box \in [Node -> Seq(Message)]
  BY DEF NodeState
<1> HIDE DEF box
<1> QED BY <1>1, <1>2 DEF NodeState

\* A vote for a challenger that is not lower than ours is not counted.
LEMMA VoteIgnored ==
    ASSUME Base(node), node' \in [Node -> NodeState],
           NEW s \in Node, NEW r \in Node \ {s}, RecvElect(s, r),
           NEW x, x = Front(s, r).id, NEW msg,
           node[r].election.caw # None, ~(x < node[r].election.caw),
           x # node[r].election.caw
    PROVE  /\ Passed(node, node', s, r, {}, msg)
           /\ node'[r].group = node[r].group
           /\ node'[r].announced = node[r].announced
           /\ node'[r].election = node[r].election
<1>1. node \in [Node -> NodeState]
  BY DEF Base
<1>2. Support(node[r], s, x) = node[r]
  BY DEF Support
<1>3. node' = Handled(node, s, r, node[r])
  BY <1>2 DEF RecvElect, Handle, Handled
<1>4. Passed(node, node', s, r, {}, msg) /\ node'[r] = node[r]
  BY <1>1, <1>3, SendsNothing, HandlePassed
<1> QED BY <1>4

\* It is counted; unless it is the last one, that is all.
LEMMA VoteCounted ==
    ASSUME Base(node), node' \in [Node -> NodeState],
           NEW s \in Node, NEW r \in Node \ {s}, RecvElect(s, r),
           NEW x \in Node, x = Front(s, r).id, NEW msg,
           node[r].election.caw = x,
           node[r].election.erec + 1 # Cardinality(node[r].group)
    PROVE  /\ Passed(node, node', s, r, {}, msg)
           /\ node'[r].group = node[r].group
           /\ node'[r].announced = node[r].announced
           /\ node'[r].election = [node[r].election EXCEPT !.erec = @ + 1]
<1>1. node \in [Node -> NodeState] /\ node[r] \in NodeState
  BY DEF Base
<1>2. Support(node[r], s, x) = node[r]
  BY NodeAssumption DEF Support
<1> DEFINE new == Counting(node[r])
<1>3. /\ new.uuid = node[r].uuid /\ new.alive = node[r].alive
      /\ new.peers = node[r].peers /\ new.ready = node[r].ready
      /\ new.member = node[r].member /\ new.contest = node[r].contest
      /\ new.group = node[r].group /\ new.announced = node[r].announced
      /\ new.mailbox = node[r].mailbox
      /\ new.election = [node[r].election EXCEPT !.erec = @ + 1]
  BY <1>1, CountingFacts
<1>4. PICK father \in Pointed(node[r], node[r].election.father) :
         Handle(s, r, Echo(new, father))
  BY <1>2 DEF RecvElect, Counting
<1> HIDE DEF new
<1>5. new.election.erec = node[r].election.erec + 1
  BY <1>1, <1>3 DEF NodeState, Election
<1>6. Echo(new, father) = new
  BY <1>3, <1>5 DEF Echo, ErecComplete
<1>7. node' = Handled(node, s, r, new)
  BY <1>4, <1>6 DEF Handle, Handled
<1>8. Sends(node[r], new, {}, msg)
  BY <1>3 DEF Sends
<1>9. Passed(node, node', s, r, {}, msg) /\ node'[r] = new
  BY <1>1, <1>7, <1>8, HandlePassed
<1> QED BY <1>3, <1>9

\* The last one goes on to the father.
LEMMA VoteEchoed ==
    ASSUME Base(node), node' \in [Node -> NodeState],
           NEW s \in Node, NEW r \in Node \ {s}, RecvElect(s, r),
           NEW x \in Node \ {r}, x = Front(s, r).id,
           node[r].election.caw = x,
           node[r].election.erec + 1 = Cardinality(node[r].group),
           NEW f \in Node \ {r}, f = node[r].election.father
    PROVE  /\ Passed(node, node', s, r, {f}, Elect(x))
           /\ node'[r].group = node[r].group
           /\ node'[r].announced = node[r].announced
           /\ node'[r].election = [node[r].election EXCEPT !.erec = @ + 1]
<1>1. /\ node \in [Node -> NodeState] /\ node[r] \in NodeState
      /\ node[r].uuid = r /\ node[r].peers = Node \ {r}
  BY DEF Base
<1>2. Support(node[r], s, x) = node[r]
  BY NodeAssumption DEF Support
<1> DEFINE new == Counting(node[r])
<1>3. /\ new \in NodeState /\ new.uuid = node[r].uuid /\ new.alive = node[r].alive
      /\ new.peers = node[r].peers /\ new.ready = node[r].ready
      /\ new.member = node[r].member /\ new.contest = node[r].contest
      /\ new.group = node[r].group /\ new.announced = node[r].announced
      /\ new.mailbox = node[r].mailbox
      /\ new.election = [node[r].election EXCEPT !.erec = @ + 1]
  BY <1>1, CountingFacts
<1>4. PICK father \in Pointed(node[r], f) : Handle(s, r, Echo(new, father))
  BY <1>2 DEF RecvElect, Counting
<1> HIDE DEF new
<1>5. father = f
  BY <1>1, <1>4 DEF Pointed
<1>6. new.election.erec = node[r].election.erec + 1 /\ new.election.caw = x
  BY <1>1, <1>3 DEF NodeState, Election
<1> DEFINE sent == Send(new, {f}, Elect(x))
<1>7. Echo(new, father) = sent
  BY <1>1, <1>3, <1>5, <1>6 DEF Echo, ErecComplete
<1>8. /\ Sends(new, sent, {f}, Elect(x)) /\ sent.election = new.election
      /\ sent.group = new.group /\ sent.announced = new.announced
  <2>1. {f} \in SUBSET new.peers
    BY <1>1, <1>3
  <2> QED BY <1>3, <2>1, SendSends
<1> HIDE DEF sent
<1>9. node' = Handled(node, s, r, sent)
  BY <1>4, <1>7 DEF Handle, Handled
<1>10. Sends(node[r], sent, {f}, Elect(x))
  BY <1>3, <1>8 DEF Sends
<1>11. Passed(node, node', s, r, {f}, Elect(x)) /\ node'[r] = sent
  BY <1>1, <1>9, <1>10, HandlePassed
<1> QED BY <1>3, <1>8, <1>11

\* The challenger that has all of them sends LEADER.
LEMMA VoteDecides ==
    ASSUME Base(node), node' \in [Node -> NodeState],
           NEW s \in Node, NEW r \in Node \ {s}, RecvElect(s, r),
           r = Front(s, r).id, node[r].election.caw = r,
           node[r].election.erec + 1 = Cardinality(node[r].group),
           node[r].group \subseteq Node \ {r}
    PROVE  /\ Passed(node, node', s, r, node[r].group, Leader(r))
           /\ node'[r].group = node[r].group
           /\ node'[r].announced = node[r].announced
           /\ node'[r].election = [node[r].election EXCEPT !.erec = @ + 1]
<1>1. /\ node \in [Node -> NodeState] /\ node[r] \in NodeState
      /\ node[r].uuid = r /\ node[r].peers = Node \ {r}
  BY DEF Base
<1>2. Support(node[r], s, r) = node[r]
  BY NodeAssumption DEF Support
<1> DEFINE new == Counting(node[r])
<1>3. /\ new \in NodeState /\ new.uuid = node[r].uuid /\ new.alive = node[r].alive
      /\ new.peers = node[r].peers /\ new.ready = node[r].ready
      /\ new.member = node[r].member /\ new.contest = node[r].contest
      /\ new.group = node[r].group /\ new.announced = node[r].announced
      /\ new.mailbox = node[r].mailbox
      /\ new.election = [node[r].election EXCEPT !.erec = @ + 1]
  BY <1>1, CountingFacts
<1>4. PICK father \in Pointed(node[r], node[r].election.father) :
         Handle(s, r, Echo(new, father))
  BY <1>2 DEF RecvElect, Counting
<1> HIDE DEF new
<1>6. new.election.erec = node[r].election.erec + 1 /\ new.election.caw = r
  BY <1>1, <1>3 DEF NodeState, Election
<1> DEFINE sent == Send(new, node[r].group, Leader(r))
<1>7. Echo(new, father) = sent
  BY <1>1, <1>3, <1>6 DEF Echo, ErecComplete
<1>8. /\ Sends(new, sent, node[r].group, Leader(r)) /\ sent.election = new.election
      /\ sent.group = new.group /\ sent.announced = new.announced
  <2>1. node[r].group \in SUBSET new.peers
    BY <1>1, <1>3
  <2> QED BY <1>3, <2>1, SendSends
<1> HIDE DEF sent
<1>9. node' = Handled(node, s, r, sent)
  BY <1>4, <1>7 DEF Handle, Handled
<1>10. Sends(node[r], sent, node[r].group, Leader(r))
  BY <1>3, <1>8 DEF Sends
<1>11. Passed(node, node', s, r, node[r].group, Leader(r)) /\ node'[r] = sent
  BY <1>1, <1>9, <1>10, HandlePassed
<1> QED BY <1>3, <1>8, <1>11

\* What adopting x on s's word does to r, and to the wire.
Adopted(nd, nd2, s, r, x) ==
    /\ Passed(nd, nd2, s, r,
              IF nd[r].group = {s} THEN {s} ELSE nd[r].group \ {s}, Elect(x))
    /\ nd2[r].group = nd[r].group
    /\ nd2[r].announced = nd[r].announced
    /\ nd2[r].election = [caw |-> x, father |-> s, erec |-> 1, lrec |-> 0]

\* A lower challenger: s is the father now, everybody else is told; the father
\* too if there is nobody else to wait for.
LEMMA VoteAdopted ==
    ASSUME Base(node), node' \in [Node -> NodeState],
           NEW s \in Node, NEW r \in Node \ {s}, RecvElect(s, r),
           NEW x \in Node, x = Front(s, r).id,
           node[r].election.caw = None \/ x < node[r].election.caw,
           s \in node[r].group, node[r].group \subseteq Node \ {r},
           x = r => Cardinality(node[r].group) # 1
    PROVE  Adopted(node, node', s, r, x)
<1>1. /\ node \in [Node -> NodeState] /\ node[r] \in NodeState
      /\ node[r].uuid = r /\ node[r].peers = Node \ {r}
  BY DEF Base
<1> DEFINE a == Adopting(node[r], s, x)
           b == Send(a, node[r].group \ {s}, Elect(x))
           c == Counting(b)
<1>2. Support(node[r], s, x) = b
  BY DEF Support, Adopting
<1>3. /\ a \in NodeState /\ a.uuid = node[r].uuid /\ a.alive = node[r].alive
      /\ a.peers = node[r].peers /\ a.ready = node[r].ready
      /\ a.member = node[r].member /\ a.contest = node[r].contest
      /\ a.group = node[r].group /\ a.announced = node[r].announced
      /\ a.mailbox = node[r].mailbox
      /\ a.election = [caw |-> x, father |-> s, erec |-> 0, lrec |-> 0]
  BY <1>1, AdoptingFacts
<1> HIDE DEF a
<1>4. node[r].group \ {s} \in SUBSET a.peers /\ {s} \in SUBSET a.peers
  BY <1>1, <1>3
<1>5. /\ Sends(a, b, node[r].group \ {s}, Elect(x)) /\ b.election = a.election
      /\ b.group = a.group /\ b.announced = a.announced /\ b \in NodeState
  BY <1>3, <1>4, SendSends, SendState, MessageTypes
<1>6. PICK father \in Pointed(b, b.election.father) :
         Handle(s, r, IF b.election.caw = x THEN Echo(c, father) ELSE b)
  BY <1>2 DEF RecvElect, Counting
<1> HIDE DEF b
<1>7. /\ c \in NodeState /\ c.uuid = b.uuid /\ c.alive = b.alive
      /\ c.peers = b.peers /\ c.ready = b.ready
      /\ c.member = b.member /\ c.contest = b.contest
      /\ c.group = b.group /\ c.announced = b.announced
      /\ c.mailbox = b.mailbox
      /\ c.election = [b.election EXCEPT !.erec = @ + 1]
  BY <1>5, CountingFacts
<1> HIDE DEF c
<1>8. c.election = [caw |-> x, father |-> s, erec |-> 1, lrec |-> 0]
  BY <1>3, <1>5, <1>7
<1>9. Sends(node[r], c, node[r].group \ {s}, Elect(x))
  BY <1>3, <1>5, <1>7 DEF Sends
<1>10. father = s
  BY <1>1, <1>3, <1>5, <1>6 DEF Pointed, Sends
<1>11. Handle(s, r, Echo(c, s))
  BY <1>3, <1>5, <1>6, <1>10
<1>12. c.group = node[r].group /\ c.announced = node[r].announced /\ c.uuid = r
  BY <1>1, <1>3, <1>5, <1>7, <1>9 DEF Sends
<1>13. IsFiniteSet(node[r].group)
  BY NodeAssumption, FS_Subset
<1>14. CASE node[r].group = {s}
  <2>0. Cardinality({s}) = 1
    BY FS_Singleton
  <2>1. ErecComplete(c)
    BY <1>8, <1>12, <1>14, <2>0 DEF ErecComplete
  <2>2. x # r
    BY <1>14, <2>0
  <2> DEFINE d == Send(c, {s}, Elect(x))
  <2>3. Echo(c, s) = d
    BY <1>8, <1>12, <2>1, <2>2 DEF Echo
  <2>4. {s} \in SUBSET c.peers
    BY <1>4, <1>7, <1>5 DEF Sends
  <2>5. /\ Sends(c, d, {s}, Elect(x)) /\ d.election = c.election
        /\ d.group = c.group /\ d.announced = c.announced
    BY <1>7, <2>4, SendSends
  <2> HIDE DEF d
  <2>6. Sends(node[r], d, {s}, Elect(x))
    BY <1>9, <1>14, <2>5 DEF Sends
  <2>7. node' = Handled(node, s, r, d)
    BY <1>11, <2>3 DEF Handle, Handled
  <2>8. Passed(node, node', s, r, {s}, Elect(x)) /\ node'[r] = d
    BY <1>1, <2>6, <2>7, HandlePassed
  <2> QED BY <1>8, <1>12, <1>14, <2>5, <2>8 DEF Adopted
<1>15. CASE node[r].group # {s}
  <2>1. ~ErecComplete(c)
    <3>1. Cardinality(node[r].group) # 1
      BY <1>13, <1>15, FS_Singleton
    <3> QED BY <1>8, <1>12, <3>1 DEF ErecComplete
  <2>2. node' = Handled(node, s, r, c)
    BY <1>11, <2>1 DEF Handle, Handled, Echo
  <2>3. Passed(node, node', s, r, node[r].group \ {s}, Elect(x)) /\ node'[r] = c
    BY <1>1, <1>9, <2>2, HandlePassed
  <2> QED BY <1>8, <1>12, <1>15, <2>3 DEF Adopted
<1> QED BY <1>14, <1>15

-----------------------------------------------------------------------------
\* LEADER with the wave everybody supports
LEMMA LeaderOutcome ==
    ASSUME Base(node), node' \in [Node -> NodeState],
           NEW s \in Node, NEW r \in Node \ {s}, RecvLeader(s, r),
           NEW w \in Node, w = Front(s, r).id, node[r].election.caw = w,
           node[r].group \subseteq Node \ {r}
    PROVE  LET e == node[r].election
               over == e.lrec + 1 = Cardinality(node[r].group)
           IN  /\ Passed(node, node', s, r,
                         IF r # w /\ e.lrec = 0 THEN node[r].group ELSE {}, Leader(w))
               /\ node'[r].group = node[r].group
               /\ node'[r].announced = IF over THEN w ELSE node[r].announced
               /\ node'[r].election = IF over THEN NoElection
                                      ELSE [e EXCEPT !.lrec = @ + 1]
<1> DEFINE e == node[r].election
           over == e.lrec + 1 = Cardinality(node[r].group)
           e2 == [e EXCEPT !.lrec = @ + 1]
           R == IF r # w /\ e.lrec = 0 THEN node[r].group ELSE {}
           a == IF r # w /\ e.lrec = 0 THEN Send(node[r], node[r].group, Leader(w))
                                       ELSE node[r]
           b == [a EXCEPT !.election.lrec = @ + 1]
           c == Finish(b, w)
<1>1. /\ node \in [Node -> NodeState] /\ node[r] \in NodeState
      /\ node[r].uuid = r /\ node[r].peers = Node \ {r}
      /\ node[r].group \in SUBSET node[r].peers
  BY DEF Base
<1>0. e \in Election /\ e.lrec \in Nat
  BY <1>1 DEF NodeState, Election
<1>2. /\ Sends(node[r], a, R, Leader(w)) /\ a.election = e /\ a.group = node[r].group
      /\ a.announced = node[r].announced /\ a \in NodeState
  <2>1. CASE r # w /\ e.lrec = 0
    BY <1>1, <2>1, SendSends, SendState, MessageTypes
  <2>2. CASE ~(r # w /\ e.lrec = 0)
    BY <1>1, <2>2, SendsNothing
  <2> QED BY <2>1, <2>2
<1>3. Handle(s, r, c)
  BY <1>1, NodeAssumption DEF RecvLeader, Confirm
<1> HIDE DEF a, R
<1>4. /\ b = [a EXCEPT !.election = e2] /\ e2 \in Election
      /\ e2.lrec = e.lrec + 1
  BY <1>0, <1>2 DEF Election
<1> HIDE DEF e2
<1>5. /\ b.election = e2 /\ b.group = node[r].group /\ b.uuid = a.uuid
      /\ b.announced = a.announced /\ b.peers = a.peers /\ b.alive = a.alive
      /\ b.ready = a.ready /\ b.member = a.member /\ b.contest = a.contest
      /\ b.mailbox = a.mailbox /\ b \in NodeState
  BY <1>2, <1>4 DEF NodeState
<1> HIDE DEF b
<1>6. b.uuid = r /\ b.peers = Node \ {r}
  BY <1>1, <1>2, <1>5 DEF Sends
<1>7. /\ c.uuid = b.uuid /\ c.alive = b.alive /\ c.peers = b.peers
      /\ c.ready = b.ready /\ c.member = b.member /\ c.contest = b.contest
      /\ c.group = b.group /\ c.mailbox = b.mailbox
      /\ c.announced = IF over THEN w ELSE b.announced
      /\ c.election = IF over THEN NoElection ELSE e2
  BY <1>4, <1>5, <1>6 DEF Finish, LrecComplete, NodeState
<1> HIDE DEF c
<1>8. Sends(node[r], c, R, Leader(w))
  BY <1>2, <1>5, <1>7 DEF Sends
<1>9. node' = Handled(node, s, r, c)
  BY <1>3 DEF Handle, Handled
<1>10. Passed(node, node', s, r, R, Leader(w)) /\ node'[r] = c
  BY <1>1, <1>8, <1>9, HandlePassed
<1> QED BY <1>2, <1>5, <1>7, <1>10 DEF R, e2

-----------------------------------------------------------------------------
\* A queue when its front is received, when a vote is sent, and when its sender
\* turns to another challenger.

LEMMA LineTail ==
    ASSUME NEW q \in Seq(Message), q # <<>>, NEW w, NEW caw, NEW voted,
           NEW joins, NEW inside, NEW root,
           LineOf(q, w, caw, voted, joins, inside, root)
    PROVE  /\ LineOf(Tail(q), w, caw, voted, joins, inside, root)
           /\ \A i \in DOMAIN Tail(q) : IsElect(Tail(q)[i])
           /\ q[1].command = "ELECT" =>
                 \A i \in DOMAIN Tail(q) : Tail(q)[i].id < q[1].id
<1> DEFINE t == Tail(q)
<1>1. /\ Len(q) \in Nat /\ Len(q) > 0 /\ DOMAIN q = 1 .. Len(q)
      /\ DOMAIN t = 1 .. Len(q) - 1 /\ Len(t) = Len(q) - 1
      /\ \A i \in 1 .. Len(q) - 1 : t[i] = q[i + 1]
      /\ t = <<>> <=> Len(q) = 1
  BY TailFacts
<1> HIDE DEF t
<1>2. \A i \in DOMAIN t : i + 1 \in DOMAIN q /\ i + 1 # 1 /\ t[i] = q[i + 1] /\ i \in Nat
  BY <1>1
<1>3. ASSUME NEW i \in DOMAIN t
      PROVE  /\ IsElect(t[i]) /\ inside
             /\ caw \in Node /\ t[i].id \in Node /\ caw <= t[i].id
             /\ root => t[i].id = w
  <2>1. i + 1 \in DOMAIN q /\ i + 1 # 1 /\ t[i] = q[i + 1]
    BY <1>2
  <2> QED BY <2>1 DEF LineOf
<1>4. ASSUME NEW i \in DOMAIN t, NEW k \in DOMAIN t, i < k, t[i].command = "ELECT"
      PROVE  t[k].id < t[i].id
  <2>1. /\ i + 1 \in DOMAIN q /\ t[i] = q[i + 1] /\ i \in Nat
        /\ k + 1 \in DOMAIN q /\ t[k] = q[k + 1] /\ k \in Nat
    BY <1>2
  <2>2. i + 1 < k + 1
    BY <1>4, <2>1
  <2> QED BY <1>4, <2>1, <2>2 DEF LineOf
<1>5. ASSUME voted, inside, t # <<>> PROVE t[Len(t)] = Elect(w)
  <2>1. Len(t) \in DOMAIN t /\ Len(t) + 1 = Len(q)
    BY <1>1, <1>5
  <2>2. t[Len(t)] = q[Len(q)]
    BY <1>2, <2>1
  <2> QED BY <1>5, <2>2 DEF LineOf
<1>6. \A i \in DOMAIN t : t[i] = Elect(w) => voted
  BY <1>2 DEF LineOf
<1>7. ASSUME q[1].command = "ELECT", NEW i \in DOMAIN t PROVE t[i].id < q[1].id
  <2>1. i + 1 \in DOMAIN q /\ 1 \in DOMAIN q /\ t[i] = q[i + 1] /\ 1 < i + 1
    BY <1>1, <1>2
  <2> QED BY <1>7, <2>1 DEF LineOf
<1>8. LineOf(t, w, caw, voted, joins, inside, root)
  BY <1>3, <1>4, <1>5, <1>6 DEF LineOf
<1> QED BY <1>3, <1>7, <1>8 DEF t

LEMMA LineAppend ==
    ASSUME NEW q \in Seq(Message), NEW w \in Node, NEW caw, NEW voted,
           NEW joins, NEW root, NEW x \in Node,
           LineOf(q, w, caw, voted, joins, TRUE, root),
           \A i \in DOMAIN q : IsElect(q[i]) => x < q[i].id,
           root => x = w, x # w => ~voted
    PROVE  LineOf(Append(q, Elect(x)), w, x, x = w, joins, TRUE, root)
<1> DEFINE t == Append(q, Elect(x))
           n == Len(q) + 1
<1>0. Elect(x) \in Message /\ Elect(x).command = "ELECT" /\ Elect(x).id = x
  BY MessageTypes
<1>1. /\ Len(q) \in Nat /\ DOMAIN q = 1 .. Len(q) /\ Len(t) = n
      /\ DOMAIN t = 1 .. n /\ t[n] = Elect(x)
      /\ \A i \in 1 .. Len(q) : t[i] = q[i]
  BY <1>0, AppendFacts
<1> HIDE DEF t
<1>2. n \in Nat /\ n > 0 /\ n \notin DOMAIN q
      /\ \A i \in DOMAIN t : (i \in DOMAIN q /\ t[i] = q[i] /\ i < n) \/ i = n
  BY <1>1
<1> HIDE DEF n
<1>3. IsElect(Elect(x))
  BY <1>0 DEF IsElect
<1>4. ASSUME NEW i \in DOMAIN t
      PROVE  \/ t[i] = Plain("JOIN") /\ i = 1 /\ joins
             \/ /\ IsElect(t[i]) /\ x \in Node /\ t[i].id \in Node /\ x <= t[i].id
                /\ root => t[i].id = w
  <2>1. CASE i = n
    BY <1>0, <1>1, <1>3, <2>1, NodeAssumption
  <2>2. CASE i \in DOMAIN q /\ t[i] = q[i]
    <3>1. CASE q[i] = Plain("JOIN") /\ i = 1 /\ joins
      BY <2>2, <3>1
    <3>2. CASE ~(q[i] = Plain("JOIN") /\ i = 1 /\ joins)
      <4>1. IsElect(q[i]) /\ q[i].id \in Node /\ (root => q[i].id = w)
        BY <2>2, <3>2 DEF LineOf
      <4>2. x < q[i].id
        BY <2>2, <4>1
      <4>3. q[i].id \in Nat /\ x \in Nat
        BY <4>1, NodeAssumption
      <4>4. x <= q[i].id
        BY <4>2, <4>3
      <4> QED BY <2>2, <4>1, <4>4
    <3> QED BY <3>1, <3>2
  <2> QED BY <1>2, <2>1, <2>2
<1>5. ASSUME NEW i \in DOMAIN t, NEW k \in DOMAIN t, i < k, t[i].command = "ELECT"
      PROVE  t[k].id < t[i].id
  <2>1. i \in DOMAIN q /\ t[i] = q[i]
    BY <1>1, <1>2, <1>5
  <2>2. CASE k = n
    <3>1. IsElect(q[i])
      BY <1>5, <2>1, MessageTypes DEF LineOf
    <3> QED BY <1>0, <1>1, <2>1, <2>2, <3>1
  <2>3. CASE k \in DOMAIN q /\ t[k] = q[k]
    BY <1>5, <2>1, <2>3 DEF LineOf
  <2> QED BY <1>2, <2>2, <2>3
<1>6. x = w => t[Len(t)] = Elect(w)
  BY <1>1
<1>7. ASSUME NEW i \in DOMAIN t, t[i] = Elect(w) PROVE x = w
  <2>1. CASE i = n
    BY <1>0, <1>1, <1>7, <2>1, MessageTypes
  <2>2. CASE i \in DOMAIN q /\ t[i] = q[i]
    <3>1. voted
      BY <1>7, <2>2 DEF LineOf
    <3> QED BY <3>1
  <2> QED BY <1>2, <2>1, <2>2
<1>8. LineOf(t, w, x, x = w, joins, TRUE, root)
  BY <1>4, <1>5, <1>6, <1>7 DEF LineOf
<1> QED BY <1>8 DEF t

LEMMA LineLower ==
    ASSUME NEW q \in Seq(Message), NEW w \in Node, NEW caw, NEW voted, NEW voted2,
           NEW joins, NEW inside, NEW root, NEW x \in Node,
           LineOf(q, w, caw, voted, joins, inside, root), ~voted,
           caw \in Node => x <= caw,
           q = <<>> \/ ~inside \/ ~voted2
    PROVE  LineOf(q, w, x, voted2, joins, inside, root)
<1>1. ASSUME NEW i \in DOMAIN q
      PROVE  \/ q[i] = Plain("JOIN") /\ i = 1 /\ joins
             \/ /\ IsElect(q[i]) /\ inside
                /\ x \in Node /\ q[i].id \in Node /\ x <= q[i].id
                /\ root => q[i].id = w
  <2>1. CASE q[i] = Plain("JOIN") /\ i = 1 /\ joins
    BY <2>1
  <2>2. CASE ~(q[i] = Plain("JOIN") /\ i = 1 /\ joins)
    <3>1. /\ IsElect(q[i]) /\ inside /\ (root => q[i].id = w)
          /\ caw \in Node /\ q[i].id \in Node /\ caw <= q[i].id
      BY <2>2 DEF LineOf
    <3>2. q[i].id \in Nat /\ x \in Nat /\ caw \in Nat /\ x <= caw
      BY <3>1, NodeAssumption
    <3>3. x <= q[i].id
      BY <3>1, <3>2
    <3> QED BY <3>1, <3>3
  <2> QED BY <2>1, <2>2
<1>2. \A i, k \in DOMAIN q : i < k /\ q[i].command = "ELECT" => q[k].id < q[i].id
  BY DEF LineOf
<1>3. \A i \in DOMAIN q : q[i] # Elect(w)
  BY DEF LineOf
<1>4. voted2 /\ inside /\ q # <<>> => q[Len(q)] = Elect(w)
  OBVIOUS
<1> QED BY <1>1, <1>2, <1>3, <1>4 DEF LineOf

-----------------------------------------------------------------------------
\* Who knows of j

LEMMA PendingStep ==
    ASSUME NEW nd \in [Node -> NodeState], NEW nd2, NEW s \in Node, NEW r \in Node \ {s},
           NEW j \in Node, NEW R, NEW msg \in Message, msg.command # "JOIN",
           Passed(nd, nd2, s, r, R, msg), nd[s].mailbox[r] # <<>>,
           \A i \in DOMAIN nd[s].mailbox[r] : i > 1 => nd[s].mailbox[r][i].command # "JOIN",
           NEW t \in Node
    PROVE  Pending(nd2, j, t) <=> Pending(nd, j, t) /\ ~(s = j /\ t = r)
<1> DEFINE q == nd[j].mailbox[t]
           p == nd2[j].mailbox[t]
<1>1. q \in Seq(Message)
  BY DEF NodeState
<1>2. p = IF j = s /\ t = r THEN Tail(q)
          ELSE IF j = r /\ t \in R THEN Append(q, msg) ELSE q
  BY DEF Passed
<1>3. CASE j = s /\ t = r
  <2>1. /\ q # <<>> /\ DOMAIN q = 1 .. Len(q) /\ Len(q) \in Nat
        /\ \A i \in 1 .. Len(q) - 1 : Tail(q)[i] = q[i + 1]
        /\ Tail(q) = <<>> <=> Len(q) = 1
    BY <1>1, <1>3, TailFacts
  <2>2. ASSUME p # <<>> PROVE p[1].command # "JOIN"
    <3>1. Len(q) > 1 /\ 2 \in DOMAIN q /\ p[1] = q[2]
      BY <1>2, <1>3, <2>1, <2>2
    <3> QED BY <1>3, <3>1
  <2> QED BY <1>3, <2>2 DEF Pending
<1>4. CASE ~(j = s /\ t = r) /\ j = r /\ t \in R
  <2>1. /\ p # <<>> /\ Len(q) \in Nat /\ DOMAIN q = 1 .. Len(q)
        /\ \A i \in 1 .. Len(q) : p[i] = q[i]
        /\ p[Len(q) + 1] = msg
    BY <1>1, <1>2, <1>4, AppendFacts
  <2>2. q = <<>> <=> Len(q) = 0
    BY <1>1
  <2>3. CASE q = <<>>
    BY <1>4, <2>1, <2>2, <2>3 DEF Pending
  <2>4. CASE q # <<>>
    <3>1. p[1] = q[1]
      BY <2>1, <2>2, <2>4
    <3> QED BY <1>4, <2>1, <2>4, <3>1 DEF Pending
  <2> QED BY <2>3, <2>4
<1>5. CASE ~(j = s /\ t = r) /\ ~(j = r /\ t \in R)
  BY <1>2, <1>5 DEF Pending
<1> QED BY <1>3, <1>4, <1>5

NoJoinIn(q) == \A i \in DOMAIN q : q[i].command # "JOIN"

\* A handler that is no JOIN keeps what is common to all phases.
LEMMA CommonKept ==
    ASSUME NEW nd, NEW nd2, NEW s \in Node, NEW r \in Node \ {s}, NEW j \in Node,
           NEW R, NEW msg \in Message, msg.command # "JOIN",
           Common(nd, j), Passed(nd, nd2, s, r, R, msg),
           nd[s].mailbox[r] # <<>>,
           NoJoinIn(nd[s].mailbox[r]), r \in Members(nd), nd2[r].group = nd[r].group
    PROVE  /\ Common(nd2, j) /\ Members(nd2) = Members(nd)
           /\ \A t \in Node : Pending(nd2, j, t) <=> Pending(nd, j, t)
<1>1. nd \in [Node -> NodeState] /\ nd[s].mailbox[r] \in Seq(Message)
  BY DEF Common, Base, NodeState
<1>2. Members(nd2) = Members(nd) /\ Base(nd2)
  BY PassedBase DEF Common
<1>3. 1 \in DOMAIN nd[s].mailbox[r]
  BY <1>1
<1>4. \A t \in Node : Pending(nd2, j, t) <=> Pending(nd, j, t)
  <2>1. ~Pending(nd, j, r) \/ s # j
    BY <1>3 DEF Pending, NoJoinIn
  <2>2. \A i \in DOMAIN nd[s].mailbox[r] : i > 1 => nd[s].mailbox[r][i].command # "JOIN"
    BY DEF NoJoinIn
  <2> QED BY <1>1, <2>1, <2>2, PendingStep
<1>5. \A t \in Node : nd2[t].group = nd[t].group
  BY DEF Passed
<1>6. Knows(nd2, j)
  BY <1>2, <1>4, <1>5 DEF Knows, Common
<1>7. Bystanders(nd2)
  BY <1>2 DEF Bystanders, Common, Passed
<1> QED BY <1>2, <1>4, <1>6, <1>7 DEF Common

\* So does the JOIN.
LEMMA CommonJoined ==
    ASSUME NEW nd, NEW nd2, NEW r \in Node, NEW j \in Node \ {r},
           NEW R, NEW msg \in Message, msg.command # "JOIN",
           Common(nd, j), Passed(nd, nd2, j, r, R, msg), Pending(nd, j, r),
           \A i \in DOMAIN nd[j].mailbox[r] : i > 1 => nd[j].mailbox[r][i].command # "JOIN",
           nd2[r].group = nd[r].group \cup {j},
           r \notin Members(nd) => /\ nd2[r].election = nd[r].election
                                   /\ nd2[r].announced = nd[r].announced
    PROVE  /\ Common(nd2, j) /\ Members(nd2) = Members(nd)
           /\ \A t \in Node : Pending(nd2, j, t) <=> Pending(nd, j, t) /\ t # r
           /\ nd2[r].group = Members(nd) \ {r}
<1>1. nd \in [Node -> NodeState] /\ nd[j].mailbox[r] # <<>> /\ j \in Members(nd)
  BY DEF Common, Base, Pending
<1>2. Members(nd2) = Members(nd) /\ Base(nd2)
  BY PassedBase DEF Common
<1>3. \A t \in Node : Pending(nd2, j, t) <=> Pending(nd, j, t) /\ t # r
  BY <1>1, PendingStep
<1>4. nd2[r].group = Members(nd) \ {r}
  BY <1>1 DEF Common, Knows
<1>5. \A t \in Node \ {r} : nd2[t].group = nd[t].group
  BY DEF Passed
<1>6. Knows(nd2, j)
  <2> SUFFICES ASSUME NEW t \in Node
               PROVE  nd2[t].group = IF Pending(nd2, j, t) THEN Members(nd2) \ {j, t}
                                                           ELSE Members(nd2) \ {t}
    BY DEF Knows
  <2>1. CASE t = r
    BY <1>2, <1>3, <1>4, <2>1
  <2>2. CASE t # r
    BY <1>2, <1>3, <1>5, <2>2 DEF Common, Knows
  <2> QED BY <2>1, <2>2
<1>7. Bystanders(nd2)
  BY <1>2 DEF Bystanders, Common, Passed
<1> QED BY <1>1, <1>2, <1>3, <1>4, <1>6, <1>7 DEF Common

-----------------------------------------------------------------------------
\* The wave spreads: first what every step needs.

LEMMA VotedKept ==
    ASSUME NEW nd, NEW nd2, NEW s \in Node, NEW r \in Node, NEW R, NEW msg,
           Passed(nd, nd2, s, r, R, msg), NEW w, NEW a \in Node \ {r}, NEW b
    PROVE  Voted(nd2, w, a, b) = Voted(nd, w, a, b)
BY DEF Passed, Voted, ErecComplete

LEMMA EmptyLine ==
    ASSUME NEW w, NEW caw, NEW voted, NEW joins, NEW inside, NEW root
    PROVE  LineOf(<<>>, w, caw, voted, joins, inside, root)
BY DEF LineOf

LEMMA SpreadFacts ==
    ASSUME NEW nd, NEW w \in Node, NEW j \in Node, Spreading(nd, w, j)
    PROVE  /\ nd \in [Node -> NodeState]
           /\ \A s, r \in Node : nd[s].mailbox[r] \in Seq(Message)
           /\ Members(nd) \in SUBSET Node /\ IsFiniteSet(Members(nd))
           /\ j \in Members(nd) /\ w \in Members(nd) /\ w # j
           /\ nd[w].election.caw # None => nd[w].election.caw = w
           /\ \A s, r \in Node : \A i \in DOMAIN nd[s].mailbox[r] :
                 i > 1 => nd[s].mailbox[r][i].command # "JOIN"
<1>1. nd \in [Node -> NodeState]
  BY DEF Spreading, Common, Base
<1>2. \A s, r \in Node : nd[s].mailbox[r] \in Seq(Message)
  BY <1>1 DEF NodeState
<1>3. Members(nd) \in SUBSET Node /\ IsFiniteSet(Members(nd))
  BY FS_Subset, NodeAssumption DEF Members
<1>4. j \in Members(nd) /\ w \in Members(nd) /\ w # j
  BY DEF Spreading, Common, Lowest
<1>5. nd[w].election.caw # None => nd[w].election.caw = w
  BY <1>4 DEF Spreading, Tally
<1>6. ASSUME NEW s \in Node, NEW r \in Node, NEW i \in DOMAIN nd[s].mailbox[r], i > 1
      PROVE  nd[s].mailbox[r][i].command # "JOIN"
  <2>1. IsElect(nd[s].mailbox[r][i])
    BY <1>6 DEF Spreading, Line, LineOf
  <2> QED BY <2>1 DEF IsElect
<1> QED BY <1>1, <1>2, <1>3, <1>4, <1>5, <1>6

\* Nobody supports w before w challenges.
LEMMA NoSupporters ==
    ASSUME NEW nd, NEW w \in Node, Tree(nd, w), nd[w].election.caw # w
    PROVE  Supporters(nd, w) = {}
BY DEF Tree, Supporters

\* j's JOIN is received.
LEMMA SpreadJoined ==
    ASSUME NEW nd, NEW nd2, NEW w \in Node, NEW j \in Node, Spreading(nd, w, j),
           NEW r \in Node \ {j}, NEW R, Pending(nd, j, r),
           NEW challenges, challenges = (nd[r].member /\ nd[r].contest),
           R = (IF challenges THEN Members(nd) \ {r} ELSE {}),
           Passed(nd, nd2, j, r, R, Elect(r)),
           nd2[r].group = nd[r].group \cup {j},
           nd2[r].announced = nd[r].announced,
           nd2[r].election = (IF challenges THEN [NoElection EXCEPT !.caw = r]
                              ELSE nd[r].election)
    PROVE  Spreading(nd2, w, j)
<1> DEFINE M == Members(nd)
<1>1. /\ nd \in [Node -> NodeState]
      /\ \A a, b \in Node : nd[a].mailbox[b] \in Seq(Message)
      /\ M \in SUBSET Node /\ IsFiniteSet(M)
      /\ j \in M /\ w \in M /\ w # j
      /\ \A i \in DOMAIN nd[j].mailbox[r] : i > 1 => nd[j].mailbox[r][i].command # "JOIN"
  <2>1. /\ nd \in [Node -> NodeState]
        /\ \A a, b \in Node : nd[a].mailbox[b] \in Seq(Message)
        /\ Members(nd) \in SUBSET Node /\ IsFiniteSet(Members(nd))
        /\ j \in Members(nd) /\ w \in Members(nd) /\ w # j
        /\ \A a, b \in Node : \A i \in DOMAIN nd[a].mailbox[b] :
              i > 1 => nd[a].mailbox[b][i].command # "JOIN"
    BY SpreadFacts
  <2> QED BY <2>1
<1>2. Elect(r) \in Message /\ Elect(r).command # "JOIN"
  BY MessageTypes
<1>3. /\ Common(nd2, j) /\ Members(nd2) = M
      /\ \A t \in Node : Pending(nd2, j, t) <=> Pending(nd, j, t) /\ t # r
      /\ nd2[r].group = M \ {r}
  <2>1. r \notin M => ~challenges
    BY DEF Members
  <2>2. r \notin Members(nd) => /\ nd2[r].election = nd[r].election
                               /\ nd2[r].announced = nd[r].announced
    BY <2>1
  <2>3. Common(nd, j) /\ j \in Node \ {r}
    BY DEF Spreading
  <2> QED BY <1>1, <1>2, <2>2, <2>3, CommonJoined
<1>4. nd[r].election = NoElection /\ (challenges => r \in M)
  BY DEF Spreading, Common, Bystanders, Tally, Members
<1>5. Lowest(nd2, w, j)
  BY <1>1, <1>3 DEF Spreading, Lowest, Passed
<1>6. /\ \A b : ~Voted(nd, w, r, b)
      /\ \A b \in Node : Voted(nd2, w, r, b) <=> challenges /\ r = w
  BY <1>4, NodeAssumption DEF Voted, NoElection
<1>7. ASSUME NEW a \in Node, NEW b \in Node PROVE Line(nd2, w, j, a, b)
  <2>0. Line(nd, w, j, a, b) /\ nd[a].mailbox[b] \in Seq(Message)
    BY <1>1 DEF Spreading
  <2>1. CASE a = j /\ b = r
    <3>1. nd2[a].mailbox[b] = Tail(nd[a].mailbox[b]) /\ nd[a].mailbox[b] # <<>>
      BY <2>1 DEF Passed, Pending
    <3>2. nd2[a].election = nd[a].election
      BY <2>1 DEF Passed
    <3>3. Voted(nd2, w, a, b) = Voted(nd, w, a, b)
      BY <2>1, VotedKept
    <3> QED BY <1>3, <2>0, <2>1, <3>1, <3>2, <3>3, LineTail DEF Line
  <2>2. CASE a # r /\ ~(a = j /\ b = r)
    <3>1. nd2[a].mailbox[b] = nd[a].mailbox[b] /\ nd2[a].election = nd[a].election
      BY <2>2 DEF Passed
    <3>2. Voted(nd2, w, a, b) = Voted(nd, w, a, b)
      BY <2>2, VotedKept
    <3> QED BY <1>3, <2>0, <3>1, <3>2 DEF Line
  <2>3. CASE a = r /\ ~challenges
    <3>1. nd2[a].mailbox[b] = nd[a].mailbox[b] /\ nd2[a].election = nd[a].election
      BY <2>3 DEF Passed
    <3>2. Voted(nd2, w, a, b) = Voted(nd, w, a, b)
      BY <1>6, <2>3 DEF Voted
    <3> QED BY <1>3, <2>0, <3>1, <3>2 DEF Line
  <2>4. CASE a = r /\ challenges
    <3>0. nd2[r].election.caw = r /\ nd[r].election.caw = None
      BY <1>4, <2>4 DEF NoElection
    <3>1. LineOf(nd[r].mailbox[b], w, None, FALSE, r = j, {r, b} \subseteq M, r = w)
      <4>1. Voted(nd, w, r, b) = FALSE
        BY <1>6 DEF Voted
      <4> QED BY <2>0, <2>4, <3>0, <4>1 DEF Line
    <3>2. Voted(nd2, w, r, b) = (r = w)
      BY <1>6, <2>4 DEF Voted
    <3>3. CASE b = r
      <4>1. nd2[a].mailbox[b] = <<>>
        BY <2>0, <2>4, <3>3 DEF Passed, Line
      <4> QED BY <4>1, EmptyLine DEF Line
    <3>4. CASE b \in M \ {r}
      <4>1. nd2[a].mailbox[b] = Append(nd[r].mailbox[b], Elect(r))
        BY <2>4, <3>4 DEF Passed
      <4>2. ({r, b} \subseteq M) = TRUE
        BY <1>4, <2>4, <3>4
      <4>3. \A i \in DOMAIN nd[r].mailbox[b] : IsElect(nd[r].mailbox[b][i]) => FALSE
        BY <3>1, NodeAssumption, MessageTypes DEF LineOf, IsElect
      <4>4. LineOf(nd[r].mailbox[b], w, None, FALSE, r = j, TRUE, r = w)
        BY <3>1, <4>2
      <4>5. LineOf(Append(nd[r].mailbox[b], Elect(r)), w, r, r = w, r = j, TRUE, r = w)
        BY <2>0, <2>4, <4>3, <4>4, LineAppend
      <4> QED BY <1>3, <2>4, <3>0, <3>2, <3>4, <4>1, <4>2, <4>5 DEF Line
    <3>5. CASE b \notin M
      <4>1. nd2[a].mailbox[b] = nd[r].mailbox[b]
        BY <2>4, <3>5 DEF Passed
      <4>2. ({r, b} \subseteq M) = FALSE
        BY <3>5
      <4>3. LineOf(nd[r].mailbox[b], w, None, FALSE, r = j, FALSE, r = w)
        BY <3>1, <4>2
      <4>4. LineOf(nd[r].mailbox[b], w, r, r = w, r = j, FALSE, r = w)
        BY <2>0, <2>4, <4>3, LineLower, NodeAssumption
      <4> QED BY <1>3, <1>4, <2>4, <3>0, <3>2, <3>5, <4>1, <4>2, <4>4 DEF Line
    <3> QED BY <3>3, <3>4, <3>5
  <2> QED BY <2>1, <2>2, <2>3, <2>4
<1>8. \A t \in Node : nd2[t].election.lrec = nd[t].election.lrec
  BY <1>4 DEF NoElection, Passed
<1>9. Voted(nd2, w, r, r) => challenges /\ r = w
  BY <1>6
<1>10. ASSUME r \in M PROVE Votes(nd2, w, r) = {}
  <2> SUFFICES ASSUME NEW s \in Votes(nd2, w, r) PROVE FALSE
    OBVIOUS
  <2>1. /\ s \in M \ {r} /\ s \in Node \ {r} /\ Voted(nd2, w, s, r)
        /\ nd2[s].mailbox[r] = <<>>
    BY <1>1, <1>3 DEF Votes
  <2>2. Voted(nd, w, s, r)
    BY <2>1, VotedKept
  <2>3. Votes(nd, w, r) = {}
    BY <1>4, <1>10, NodeAssumption DEF Spreading, Tally, NoElection
  <2>4. CASE s # j
    BY <2>1, <2>2, <2>3, <2>4 DEF Votes, Passed
  <2>5. CASE s = j
    <3>1. /\ nd[j].mailbox[r] # <<>> /\ Tail(nd[j].mailbox[r]) = <<>>
          /\ nd[j].mailbox[r][1].command = "JOIN"
      BY <2>1, <2>5 DEF Passed, Pending
    <3>2. Len(nd[j].mailbox[r]) = 1
      BY <1>1, <3>1, TailFacts
    <3>3. nd[j].mailbox[r][Len(nd[j].mailbox[r])] = Elect(w)
      BY <1>1, <1>10, <2>2, <2>5, <3>1 DEF Spreading, Line, LineOf
    <3> QED BY <3>1, <3>2, <3>3, MessageTypes
  <2> QED BY <2>4, <2>5
<1>11. ASSUME NEW t \in M \ {r} PROVE Votes(nd2, w, t) = Votes(nd, w, t)
  <2>1. ASSUME NEW s \in M \ {t}
        PROVE  (Voted(nd2, w, s, t) /\ nd2[s].mailbox[t] = <<>>)
                  <=> (Voted(nd, w, s, t) /\ nd[s].mailbox[t] = <<>>)
    <3>0. s \in Node /\ t \in Node
      BY <1>1
    <3>1. CASE s # r
      <4>1. nd2[s].mailbox[t] = nd[s].mailbox[t]
        BY <3>0, <3>1 DEF Passed
      <4>2. Voted(nd2, w, s, t) = Voted(nd, w, s, t)
        BY <3>0, <3>1, VotedKept
      <4> QED BY <4>1, <4>2
    <3>2. CASE s = r
      <4>1. ~Voted(nd, w, s, t)
        BY <1>6, <3>2
      <4>2. ASSUME Voted(nd2, w, s, t) PROVE nd2[s].mailbox[t] # <<>>
        <5>1. challenges /\ t \in R
          BY <1>6, <3>0, <3>2, <4>2
        <5>2. nd2[s].mailbox[t] = Append(nd[r].mailbox[t], Elect(r))
          BY <3>0, <3>2, <5>1 DEF Passed
        <5>3. nd[r].mailbox[t] \in Seq(Message)
          BY <1>1, <3>0
        <5>4. Append(nd[r].mailbox[t], Elect(r)) # <<>>
          BY <1>2, <5>3, AppendFacts
        <5> QED BY <5>2, <5>4
      <4> QED BY <4>1, <4>2
    <3> QED BY <3>1, <3>2
  <2> QED BY <1>3, <2>1 DEF Votes
<1>12. ASSUME challenges, r = w PROVE Votes(nd2, w, r) = {} /\ Cardinality(Votes(nd2, w, r)) = 0
  BY <1>4, <1>10, <1>12, FS_EmptySet
<1>13. ASSUME NEW t \in M, t # r PROVE Tally(nd2, w, j, t)
  <2>0. t \in Node /\ Tally(nd, w, j, t)
    BY <1>1 DEF Spreading
  <2>1. nd2[t].election = nd[t].election /\ (Pending(nd2, j, t) <=> Pending(nd, j, t))
    BY <1>3, <1>13, <2>0 DEF Passed
  <2>2. Votes(nd2, w, t) = Votes(nd, w, t)
    BY <1>11, <1>13
  <2>3. ASSUME nd[t].election.caw \notin {None, w}
        PROVE  \E V \in SUBSET Node : Stray(nd2, w, t, V)
    <3>1. PICK V \in SUBSET Node : Stray(nd, w, t, V)
      BY <2>0, <2>3 DEF Tally
    <3>2. \A s \in V : s \in Node /\ s # r
      <4>1. \A s \in V : nd[s].election.caw \in Node
        BY <3>1 DEF Stray, Behind
      <4> QED BY <1>4, <4>1, NodeAssumption DEF NoElection
    <3>3. \A s \in V : /\ nd2[s].election = nd[s].election
                       /\ nd2[s].mailbox[t] = nd[s].mailbox[t]
      BY <1>13, <2>0, <3>2 DEF Passed
    <3> QED BY <1>3, <2>1, <3>1, <3>3 DEF Stray, Behind
  <2> QED BY <2>0, <2>1, <2>2, <2>3 DEF Tally
<1>14. ASSUME r \in M PROVE Tally(nd2, w, j, r)
  <2>1. ~Pending(nd2, j, r)
    BY <1>3
  <2>2. CASE ~challenges
    <3>1. nd2[r].election = NoElection /\ NoElection.caw = None /\ NoElection.lrec = 0
      BY <1>4, <2>2 DEF NoElection
    <3>2. r # w
      BY <1>14, <2>2 DEF Spreading, Lowest, Members
    <3>3. w # None
      BY NodeAssumption
    <3> QED BY <1>10, <1>14, <2>1, <3>1, <3>2, <3>3 DEF Tally
  <2>3. CASE challenges
    <3>1. /\ nd2[r].election.caw = r /\ nd2[r].election.lrec = 0
          /\ nd2[r].election.erec = 0 /\ r # None
      BY <2>3, NodeAssumption DEF NoElection
    <3>2. w <= r
      BY <1>14, <2>3 DEF Spreading, Lowest
    <3>3. CASE r = w
      BY <1>12, <2>1, <2>3, <3>1, <3>2, <3>3 DEF Tally
    <3>4. CASE r # w
      <4>1. Stray(nd2, w, r, {})
        BY <3>1, FS_EmptySet DEF Stray
      <4>2. Votes(nd2, w, r) = {}
        BY <1>10, <1>14
      <4>3. {} \in SUBSET Node
        OBVIOUS
      <4> QED BY <2>1, <3>1, <3>2, <3>4, <4>1, <4>2, <4>3 DEF Tally
    <3> QED BY <3>3, <3>4
  <2> QED BY <2>2, <2>3
<1>15. Tree(nd2, w)
  <2>0. Tree(nd, w)
    BY DEF Spreading
  <2>1. CASE challenges /\ r = w
    <3>1. Supporters(nd, w) = {}
      BY <1>4, <2>0, <2>1, NoSupporters, NodeAssumption DEF NoElection
    <3>2. Supporters(nd2, w) = {w} /\ nd2[w].election.father = None
      BY <2>1, <3>1 DEF Supporters, Passed, NoElection
    <3>3. None # w
      BY NodeAssumption
    <3>4. ASSUME NEW S \in SUBSET Supporters(nd2, w), S # {}
          PROVE  /\ w \notin S => \E n \in S : nd2[n].election.father \notin S
                 /\ \E n \in S : \A m \in S : nd2[m].election.father # n
      BY <3>2, <3>3, <3>4
    <3> QED BY <3>2, <3>4 DEF Tree
  <2>2. CASE ~(challenges /\ r = w)
    <3>1. Supporters(nd2, w) = Supporters(nd, w)
      <4>1. nd2[r].election.caw # w
        BY <1>4, <2>2, NodeAssumption DEF NoElection
      <4>2. nd[r].election.caw # w
        BY <1>4, NodeAssumption DEF NoElection
      <4>3. ASSUME NEW n \in Node
            PROVE  nd2[n].election.caw = w <=> nd[n].election.caw = w
        <5>1. CASE n = r
          BY <4>1, <4>2, <5>1
        <5>2. CASE n # r
          BY <5>2 DEF Passed
        <5> QED BY <5>1, <5>2
      <4> QED BY <4>3 DEF Supporters
    <3>2. \A t \in Node : nd2[t].election.father = nd[t].election.father
      BY <1>4 DEF NoElection, Passed
    <3> DEFINE T == Supporters(nd, w)
    <3>3. T \subseteq Node
      BY DEF Supporters
    <3>4. /\ nd[w].election.father = None
          /\ \A n \in T \ {w} : nd[n].election.father \in T \ {n}
          /\ T # {} => w \in T
      BY <2>0 DEF Tree
    <3>5. ASSUME NEW S \in SUBSET T, S # {}
          PROVE  /\ w \notin S => \E n \in S : nd[n].election.father \notin S
                 /\ \E n \in S : \A m \in S : nd[m].election.father # n
      BY <2>0, <3>5 DEF Tree
    <3>6. Supporters(nd2, w) = T
      BY <3>1
    <3> HIDE DEF T
    <3>7. /\ nd2[w].election.father = None
          /\ \A n \in T \ {w} : nd2[n].election.father \in T \ {n}
      BY <3>2, <3>3, <3>4
    <3>8. ASSUME NEW S \in SUBSET T, S # {}
          PROVE  /\ w \notin S => \E n \in S : nd2[n].election.father \notin S
                 /\ \E n \in S : \A m \in S : nd2[m].election.father # n
      <4>1. \A n \in S : nd2[n].election.father = nd[n].election.father
        BY <3>2, <3>3
      <4>2. w \notin S => \E n \in S : nd2[n].election.father \notin S
        BY <3>5, <3>8, <4>1
      <4>3. \E n \in S : \A m \in S : nd2[m].election.father # n
        BY <3>5, <3>8, <4>1
      <4> QED BY <4>2, <4>3
    <3> QED BY <3>4, <3>6, <3>7, <3>8 DEF Tree
  <2> QED BY <2>1, <2>2
<1>16. ~(nd2[w].election.caw = w /\ ErecComplete(nd2[w]))
  <2>1. CASE r = w
    <3>1. j \in M \ {w} /\ IsFiniteSet(M \ {w})
      BY <1>1, FS_Subset
    <3>2. Cardinality(M \ {w}) # 0
      BY <3>1, FS_EmptySet
    <3>3. nd2[r].election.erec = 0
      BY <1>4 DEF NoElection
    <3> QED BY <1>3, <2>1, <3>2, <3>3 DEF ErecComplete
  <2>2. CASE r # w
    BY <2>2 DEF Passed, ErecComplete, Spreading
  <2> QED BY <2>1, <2>2
<1> QED BY <1>3, <1>5, <1>7, <1>13, <1>14, <1>15, <1>16 DEF Spreading

-----------------------------------------------------------------------------
\* A vote is received.

Arrives(nd, w, j, s, r, x) ==
    /\ Spreading(nd, w, j) /\ ~Pending(nd, j, r)
    /\ nd[s].mailbox[r] # <<>>
    /\ nd[s].mailbox[r][1].command = "ELECT" /\ nd[s].mailbox[r][1].id = x

\* What is known of s, r and the challenger then.
Regular(nd, w, s, r, x) ==
    /\ s # r /\ s \in Members(nd) /\ r \in Members(nd)
    /\ x \in Node /\ nd[s].mailbox[r][1] = Elect(x)
    /\ nd[s].election.caw \in Node /\ nd[s].election.caw <= x
    /\ w <= nd[s].election.caw /\ w <= x
    /\ s = w => x = w
    /\ x = w => Voted(nd, w, s, r) /\ Tail(nd[s].mailbox[r]) = <<>>
    /\ x # w /\ Voted(nd, w, s, r) => Tail(nd[s].mailbox[r]) # <<>>
    /\ nd[r].group = Members(nd) \ {r}
    /\ r = w => nd[r].election.caw = w
    /\ nd[r].election.caw # None => w <= nd[r].election.caw
    /\ nd[r].election.caw \in Node \cup {None}

LEMMA ElectFacts ==
    ASSUME NEW nd, NEW w \in Node, NEW j \in Node, NEW s \in Node, NEW r \in Node,
           NEW x, Arrives(nd, w, j, s, r, x)
    PROVE  Regular(nd, w, s, r, x)
<1> DEFINE q == nd[s].mailbox[r]
           caw == nd[s].election.caw
           M == Members(nd)
<1>0. /\ Spreading(nd, w, j) /\ ~Pending(nd, j, r) /\ q # <<>>
      /\ q[1].command = "ELECT" /\ q[1].id = x
  BY DEF Arrives
<1>1. /\ Line(nd, w, j, s, r) /\ nd \in [Node -> NodeState]
      /\ M \in SUBSET Node
  BY <1>0 DEF Spreading, Common, Base, Members
<1>2. q \in Seq(Message)
  BY <1>1 DEF NodeState
<1>3. /\ Len(q) \in Nat /\ Len(q) > 0 /\ DOMAIN q = 1 .. Len(q)
      /\ Tail(q) = <<>> <=> Len(q) = 1
  BY <1>0, <1>2, TailFacts
<1>4. s # r
  BY <1>0, <1>1 DEF Line
<1>5. q[1] # Plain("JOIN")
  BY <1>0, MessageTypes
<1>6. /\ IsElect(q[1]) /\ {s, r} \subseteq M /\ caw \in Node /\ x \in Node /\ caw <= x
      /\ s = w => x = w
  BY <1>0, <1>1, <1>3, <1>5 DEF Line, LineOf
<1>7. q[1] = Elect(x)
  BY <1>0, <1>6 DEF IsElect
<1>8. w <= caw
  BY <1>0, <1>6, NodeAssumption DEF Spreading, Tally
<1>9. w \in Nat /\ x \in Nat /\ caw \in Nat
  BY <1>6, NodeAssumption
<1>10. w <= x
  BY <1>6, <1>8, <1>9
<1>11. ASSUME x = w PROVE Voted(nd, w, s, r) /\ Tail(q) = <<>>
  <2>1. Voted(nd, w, s, r)
    <3>1. 1 \in DOMAIN q /\ q[1] = Elect(w)
      BY <1>3, <1>7, <1>11
    <3> QED BY <1>1, <3>1 DEF Line, LineOf
  <2>2. q[Len(q)] = Elect(w)
    BY <1>0, <1>1, <1>6, <2>1 DEF Line, LineOf
  <2>3. ASSUME Len(q) # 1 PROVE FALSE
    <3>1. 1 \in DOMAIN q /\ Len(q) \in DOMAIN q /\ 1 < Len(q)
      BY <1>3, <2>3
    <3>2. q[Len(q)].id < q[1].id
      BY <1>0, <1>1, <3>1 DEF Line, LineOf
    <3> QED BY <1>7, <1>9, <1>11, <2>2, <3>2, MessageTypes
  <2> QED BY <1>3, <2>1, <2>3
<1>12. ASSUME x # w, Voted(nd, w, s, r) PROVE Tail(q) # <<>>
  <2>1. q[Len(q)] = Elect(w)
    BY <1>0, <1>1, <1>6, <1>12 DEF Line, LineOf
  <2>2. Len(q) # 1
    BY <1>7, <1>12, <1>6, <2>1, MessageTypes
  <2> QED BY <1>3, <2>2
<1>13. nd[r].group = M \ {r}
  BY <1>0 DEF Spreading, Common, Knows
<1>14. /\ r = w => nd[r].election.caw = w
       /\ nd[r].election.caw # None => w <= nd[r].election.caw
  BY <1>0, <1>6 DEF Spreading, Tally
<1>15. nd[r].election.caw \in Node \cup {None}
  BY <1>1 DEF NodeState, Election
<1> QED
  BY <1>4, <1>6, <1>7, <1>8, <1>10, <1>11, <1>12, <1>13, <1>14, <1>15 DEF Regular

\* What r has made of its wave, and sent to R: it turns to lower challengers
\* only, and its vote for w reaches nobody it has reached before.
Turns(nd, nd2, w, r, R, y) ==
    /\ nd[r].election.caw \in Node => /\ nd2[r].election.caw \in Node
                                     /\ nd2[r].election.caw <= nd[r].election.caw
    /\ \A t \in Members(nd) \ {r} :
          IF t \in R
          THEN /\ ~Voted(nd, w, r, t)
               /\ nd[r].election.caw \in Node => y < nd[r].election.caw \/ y = w
          ELSE Voted(nd2, w, r, t) = Voted(nd, w, r, t)

LinesFrom(nd, w, j, r) == \A b \in Node : Line(nd, w, j, r, b)

\* What holds of everybody but r in any case.
LEMMA SpreadOthers ==
    ASSUME NEW nd, NEW nd2, NEW w \in Node, NEW j \in Node, NEW s \in Node,
           NEW r \in Node, NEW x, Arrives(nd, w, j, s, r, x),
           NEW R, NEW y \in Node,
           Passed(nd, nd2, s, r, R, Elect(y)), nd2[r].group = nd[r].group
    PROVE  /\ Common(nd2, j) /\ Members(nd2) = Members(nd)
           /\ \A t \in Node : Pending(nd2, j, t) <=> Pending(nd, j, t)
           /\ Lowest(nd2, w, j)
           /\ \A a \in Node \ {r}, b \in Node : Line(nd2, w, j, a, b)
<1> DEFINE M == Members(nd)
<1>0. Spreading(nd, w, j) /\ ~Pending(nd, j, r) /\ nd[s].mailbox[r] # <<>>
  BY DEF Arrives
<1>1. /\ s # r /\ s \in M /\ r \in M /\ s \in Node \ {r} /\ r \in Node \ {s}
      /\ x = w => Voted(nd, w, s, r) /\ Tail(nd[s].mailbox[r]) = <<>>
      /\ x # w /\ Voted(nd, w, s, r) => Tail(nd[s].mailbox[r]) # <<>>
      /\ x \in Node
  <2>1. Regular(nd, w, s, r, x)
    BY ElectFacts
  <2> QED BY <2>1 DEF Regular
<1>2. /\ nd \in [Node -> NodeState]
      /\ \A a, b \in Node : nd[a].mailbox[b] \in Seq(Message)
      /\ Members(nd) \in SUBSET Node /\ IsFiniteSet(Members(nd))
  <2>1. Spreading(nd, w, j)
    BY <1>0
  <2>2. /\ nd \in [Node -> NodeState]
        /\ \A a, b \in Node : nd[a].mailbox[b] \in Seq(Message)
        /\ Members(nd) \in SUBSET Node /\ IsFiniteSet(Members(nd))
        /\ j \in Members(nd) /\ w \in Members(nd) /\ w # j
        /\ nd[w].election.caw # None => nd[w].election.caw = w
    BY <2>1, SpreadFacts
  <2> QED BY <2>2
<1>3. Elect(y) \in Message /\ Elect(y).command # "JOIN"
  BY MessageTypes
<1>4. NoJoinIn(nd[s].mailbox[r])
  <2>1. nd[s].mailbox[r] \in Seq(Message)
    BY <1>2
  <2>2. \A i \in DOMAIN nd[s].mailbox[r] : i = 1 \/ i > 1
    BY <2>1
  <2>3. nd[s].mailbox[r][1].command # "JOIN"
    BY DEF Arrives
  <2>4. ASSUME NEW i \in DOMAIN nd[s].mailbox[r], i > 1
        PROVE  nd[s].mailbox[r][i].command # "JOIN"
    <3>1. Line(nd, w, j, s, r)
      BY <1>0 DEF Spreading
    <3>2. IsElect(nd[s].mailbox[r][i])
      BY <2>4, <3>1 DEF Line, LineOf
    <3> QED BY <3>2 DEF IsElect
  <2> QED BY <2>2, <2>3, <2>4 DEF NoJoinIn
<1>5. /\ Common(nd2, j) /\ Members(nd2) = M
      /\ \A t \in Node : Pending(nd2, j, t) <=> Pending(nd, j, t)
  <2>1. Common(nd, j)
    BY <1>0 DEF Spreading
  <2> QED BY <1>0, <1>1, <1>3, <1>4, <2>1, CommonKept
<1>6. Lowest(nd2, w, j)
  BY <1>0, <1>2, <1>5 DEF Spreading, Lowest, Passed
<1>7. ASSUME NEW a \in Node \ {r}, NEW b \in Node PROVE Line(nd2, w, j, a, b)
  <2>0. Line(nd, w, j, a, b) /\ nd[a].mailbox[b] \in Seq(Message)
    BY <1>0, <1>2 DEF Spreading
  <2>1. nd2[a].election = nd[a].election
    BY DEF Passed
  <2>2. Voted(nd2, w, a, b) = Voted(nd, w, a, b)
    BY VotedKept
  <2>3. CASE a = s /\ b = r
    <3>1. nd2[a].mailbox[b] = Tail(nd[a].mailbox[b]) /\ nd[a].mailbox[b] # <<>>
      BY <1>0, <2>3 DEF Passed
    <3> QED BY <1>1, <1>5, <2>0, <2>1, <2>2, <2>3, <3>1, LineTail DEF Line
  <2>4. CASE ~(a = s /\ b = r)
    <3>1. nd2[a].mailbox[b] = nd[a].mailbox[b]
      BY <2>4 DEF Passed
    <3> QED BY <1>5, <2>0, <2>1, <2>2, <3>1 DEF Line
  <2> QED BY <2>3, <2>4
<1> QED BY <1>5, <1>6, <1>7

\* What r did is in order: then all of it is.
LEMMA SpreadPassed ==
    ASSUME NEW nd, NEW nd2, NEW w \in Node, NEW j \in Node, NEW s \in Node,
           NEW r \in Node, NEW x, Arrives(nd, w, j, s, r, x),
           NEW R, NEW y \in Node,
           Passed(nd, nd2, s, r, R, Elect(y)), nd2[r].group = nd[r].group,
           Turns(nd, nd2, w, r, R, y), LinesFrom(nd2, w, j, r),
           Tally(nd2, w, j, r), Tree(nd2, w),
           ~(nd2[w].election.caw = w /\ ErecComplete(nd2[w]))
    PROVE  Spreading(nd2, w, j)
<1> DEFINE M == Members(nd)
<1>0. Spreading(nd, w, j) /\ ~Pending(nd, j, r) /\ nd[s].mailbox[r] # <<>>
  BY DEF Arrives
<1>1. /\ s # r /\ s \in M /\ r \in M /\ s \in Node \ {r} /\ r \in Node \ {s}
  <2>1. Regular(nd, w, s, r, x)
    BY ElectFacts
  <2> QED BY <2>1 DEF Regular
<1>2. /\ nd \in [Node -> NodeState]
      /\ \A a, b \in Node : nd[a].mailbox[b] \in Seq(Message)
      /\ Members(nd) \in SUBSET Node
  <2>1. /\ nd \in [Node -> NodeState]
        /\ \A a, b \in Node : nd[a].mailbox[b] \in Seq(Message)
        /\ Members(nd) \in SUBSET Node
    BY <1>0, SpreadFacts
  <2> QED BY <2>1
<1>3. Elect(y) \in Message /\ Elect(y).command # "JOIN"
  BY MessageTypes
<1>5. /\ Common(nd2, j) /\ Members(nd2) = Members(nd)
      /\ \A t \in Node : Pending(nd2, j, t) <=> Pending(nd, j, t)
      /\ Lowest(nd2, w, j)
      /\ \A a \in Node \ {r}, b \in Node : Line(nd2, w, j, a, b)
  BY SpreadOthers
<1>7. \A t \in Members(nd) \ {r} :
         IF t \in R
         THEN /\ ~Voted(nd, w, r, t)
              /\ nd[r].election.caw \in Node => y < nd[r].election.caw \/ y = w
         ELSE Voted(nd2, w, r, t) = Voted(nd, w, r, t)
  BY DEF Turns
<1>8. ASSUME NEW t \in M \ {r} PROVE Votes(nd2, w, t) = Votes(nd, w, t)
  <2>1. ASSUME NEW a \in M \ {t}
        PROVE  (Voted(nd2, w, a, t) /\ nd2[a].mailbox[t] = <<>>)
                  <=> (Voted(nd, w, a, t) /\ nd[a].mailbox[t] = <<>>)
    <3>0. a \in Node /\ t \in Node
      BY <1>2
    <3>1. CASE a # r
      <4>1. nd2[a].mailbox[t] = nd[a].mailbox[t]
        BY <3>0, <3>1 DEF Passed
      <4>2. Voted(nd2, w, a, t) = Voted(nd, w, a, t)
        BY <3>0, <3>1, VotedKept
      <4> QED BY <4>1, <4>2
    <3>2. CASE a = r /\ t \in R
      <4>1. ~Voted(nd, w, r, t)
        BY <1>7, <3>2
      <4>2. nd2[r].mailbox[t] = Append(nd[r].mailbox[t], Elect(y))
        BY <1>1, <3>0, <3>2 DEF Passed
      <4>3. nd[r].mailbox[t] \in Seq(Message)
        BY <1>2, <3>0
      <4>4. Append(nd[r].mailbox[t], Elect(y)) # <<>>
        BY <1>3, <4>3, AppendFacts
      <4> QED BY <3>2, <4>1, <4>2, <4>4
    <3>3. CASE a = r /\ t \notin R
      <4>1. nd2[r].mailbox[t] = nd[r].mailbox[t]
        BY <1>1, <3>0, <3>3 DEF Passed
      <4>2. Voted(nd2, w, r, t) = Voted(nd, w, r, t)
        BY <1>7, <3>3
      <4> QED BY <3>3, <4>1, <4>2
    <3> QED BY <3>1, <3>2, <3>3
  <2> QED BY <1>5, <2>1 DEF Votes
<1>9. ASSUME NEW t \in M, t # r PROVE Tally(nd2, w, j, t)
  <2>0. t \in Node /\ Tally(nd, w, j, t)
    BY <1>0, <1>2 DEF Spreading
  <2>1. nd2[t].election = nd[t].election /\ (Pending(nd2, j, t) <=> Pending(nd, j, t))
    BY <1>5, <1>9, <2>0 DEF Passed
  <2>2. Votes(nd2, w, t) = Votes(nd, w, t)
    BY <1>8, <1>9
  <2>3. ASSUME nd[t].election.caw \notin {None, w}
        PROVE  \E V \in SUBSET Node : Stray(nd2, w, t, V)
    <3>1. PICK V \in SUBSET Node : Stray(nd, w, t, V)
      BY <2>0, <2>3 DEF Tally
    <3>2. nd[t].election.caw \in Node /\ w <= nd[t].election.caw
      BY <1>2, <2>0, <2>3 DEF Tally, NodeState, Election
    <3>3. w < nd[t].election.caw
      BY <2>3, <3>2, NodeAssumption
    <3>4. ASSUME NEW a \in V
          PROVE  /\ nd2[a].election.caw \in Node
                 /\ nd2[a].election.caw <= nd2[t].election.caw
                 /\ \A i \in DOMAIN nd2[a].mailbox[t] :
                       IsElect(nd2[a].mailbox[t][i])
                          => nd2[a].mailbox[t][i].id < nd2[t].election.caw
      <4>1. /\ a \in Node /\ nd[a].election.caw \in Node
            /\ nd[a].election.caw <= nd[t].election.caw
            /\ \A i \in DOMAIN nd[a].mailbox[t] :
                  IsElect(nd[a].mailbox[t][i])
                     => nd[a].mailbox[t][i].id < nd[t].election.caw
        BY <3>1 DEF Stray, Behind
      <4>2. CASE a # r
        <5>1. nd2[a].election = nd[a].election /\ nd2[a].mailbox[t] = nd[a].mailbox[t]
          BY <1>9, <2>0, <4>1, <4>2 DEF Passed
        <5> QED BY <2>1, <4>1, <5>1
      <4>3. CASE a = r
        <5>0. /\ nd[r].election.caw \in Nat /\ nd[t].election.caw \in Nat
              /\ nd2[r].election.caw \in Node /\ nd2[r].election.caw \in Nat
              /\ nd2[r].election.caw <= nd[r].election.caw
              /\ nd[r].election.caw <= nd[t].election.caw
              /\ y \in Nat
          <6>1. nd[r].election.caw \in Node /\ nd[r].election.caw <= nd[t].election.caw
            BY <4>1, <4>3
          <6>2. /\ nd2[r].election.caw \in Node
                /\ nd2[r].election.caw <= nd[r].election.caw
            BY <6>1 DEF Turns
          <6>3. nd[t].election.caw \in Node
            BY <3>2
          <6> QED BY <6>1, <6>2, <6>3, NodeAssumption
        <5>1. nd2[a].election.caw <= nd2[t].election.caw
          BY <2>1, <4>3, <5>0
        <5>2. CASE t \in R
          <6>1. y < nd[t].election.caw
            <7>1. y < nd[r].election.caw \/ y = w
              BY <1>7, <1>9, <4>1, <4>3, <5>2
            <7> QED BY <3>3, <5>0, <7>1
          <6>2. nd2[a].mailbox[t] = Append(nd[a].mailbox[t], Elect(y))
            BY <1>1, <2>0, <4>3, <5>2 DEF Passed
          <6>3. nd[a].mailbox[t] \in Seq(Message)
            BY <1>2, <2>0, <4>1
          <6>4. \A i \in DOMAIN nd2[a].mailbox[t] :
                   \/ i \in DOMAIN nd[a].mailbox[t] /\ nd2[a].mailbox[t][i] = nd[a].mailbox[t][i]
                   \/ nd2[a].mailbox[t][i] = Elect(y)
            BY <1>3, <6>2, <6>3, AppendFacts
          <6>5. Elect(y).id = y
            BY MessageTypes
          <6> QED BY <2>1, <4>1, <4>3, <5>0, <5>1, <6>1, <6>4, <6>5
        <5>3. CASE t \notin R
          <6>1. nd2[a].mailbox[t] = nd[a].mailbox[t]
            BY <1>1, <2>0, <4>3, <5>3 DEF Passed
          <6> QED BY <2>1, <4>1, <4>3, <5>0, <5>1, <6>1
        <5> QED BY <5>2, <5>3
      <4> QED BY <4>2, <4>3
    <3>5. \A a \in V : Behind(nd2, a, t, nd2[t].election.caw)
      BY <3>4 DEF Behind
    <3> QED BY <1>5, <2>1, <3>1, <3>5 DEF Stray
  <2> QED BY <2>0, <2>1, <2>2, <2>3 DEF Tally
<1>10. \A t \in Members(nd2) : Tally(nd2, w, j, t)
  <2>1. Members(nd2) = M
    BY <1>5
  <2> QED BY <1>9, <2>1
<1>11. \A a, b \in Node : Line(nd2, w, j, a, b)
  BY <1>5 DEF LinesFrom
<1>12. Common(nd2, j) /\ Lowest(nd2, w, j)
  BY <1>5
<1> QED BY <1>10, <1>11, <1>12 DEF Spreading

\* What the front of the mailbox from s to r is when an ELECT arrives.
Delivery(nd, w, j, s, r, x) ==
    /\ Spreading(nd, w, j) /\ ~Pending(nd, j, r)
    /\ nd[s].mailbox[r] \in Seq(Message) /\ nd[s].mailbox[r] # <<>>
    /\ nd[s].mailbox[r][1].command = "ELECT" /\ nd[s].mailbox[r][1].id = x
    /\ Members(nd) \in SUBSET Node /\ IsFiniteSet(Members(nd))

\* An ELECT that arrives while the wave spreads is such a delivery.
LEMMA Deliveries ==
    ASSUME NEW nd, NEW w \in Node, NEW j \in Node, NEW s \in Node,
           NEW r \in Node, NEW x, Arrives(nd, w, j, s, r, x)
    PROVE  Delivery(nd, w, j, s, r, x)
<1>1. /\ Spreading(nd, w, j) /\ ~Pending(nd, j, r) /\ nd[s].mailbox[r] # <<>>
      /\ nd[s].mailbox[r][1].command = "ELECT" /\ nd[s].mailbox[r][1].id = x
  BY DEF Arrives
<1>2. /\ \A a, b \in Node : nd[a].mailbox[b] \in Seq(Message)
      /\ Members(nd) \in SUBSET Node /\ IsFiniteSet(Members(nd))
  <2>1. /\ nd \in [Node -> NodeState]
        /\ \A a, b \in Node : nd[a].mailbox[b] \in Seq(Message)
        /\ Members(nd) \in SUBSET Node /\ IsFiniteSet(Members(nd))
    BY <1>1, SpreadFacts
  <2> QED BY <2>1
<1> QED BY <1>1, <1>2 DEF Delivery

\* The same, spelt out.
LEMMA ArrivesFacts ==
    ASSUME NEW nd, NEW w \in Node, NEW j \in Node, NEW s \in Node,
           NEW r \in Node, NEW x, Arrives(nd, w, j, s, r, x)
    PROVE  /\ Spreading(nd, w, j) /\ ~Pending(nd, j, r)
           /\ nd[s].mailbox[r] \in Seq(Message) /\ nd[s].mailbox[r] # <<>>
           /\ nd[s].mailbox[r][1].command = "ELECT" /\ nd[s].mailbox[r][1].id = x
           /\ Members(nd) \in SUBSET Node /\ IsFiniteSet(Members(nd))
<1>1. Delivery(nd, w, j, s, r, x)
  BY Deliveries
<1> QED BY <1>1 DEF Delivery

LEMMA BehindKept ==
    ASSUME NEW nd, NEW nd2, NEW w \in Node, NEW j \in Node, NEW s \in Node,
           NEW r \in Node, NEW x, Arrives(nd, w, j, s, r, x),
           NEW R, NEW msg, Passed(nd, nd2, s, r, R, msg),
           NEW a \in Node \ {r}, NEW c, Behind(nd, a, r, c)
    PROVE  Behind(nd2, a, r, c)
<1>1. nd2[a].election = nd[a].election
  BY DEF Passed
<1>2. CASE a # s
  <2>1. nd2[a].mailbox[r] = nd[a].mailbox[r]
    BY <1>2 DEF Passed
  <2> QED BY <1>1, <2>1 DEF Behind
<1>3. CASE a = s
  <2>1. nd2[a].mailbox[r] = Tail(nd[a].mailbox[r])
    BY <1>3 DEF Passed
  <2>2. nd[a].mailbox[r] \in Seq(Message) /\ nd[a].mailbox[r] # <<>>
    BY <1>3, ArrivesFacts
  <2> DEFINE q == nd[a].mailbox[r]
             t == nd2[a].mailbox[r]
  <2>3. \A i \in DOMAIN t : i + 1 \in DOMAIN q /\ t[i] = q[i + 1]
    BY <2>1, <2>2, TailFacts
  <2> QED BY <1>1, <2>3 DEF Behind
<1> QED BY <1>2, <1>3

\* Who has just been counted is behind.
LEMMA BehindFront ==
    ASSUME NEW nd, NEW nd2, NEW w \in Node, NEW j \in Node, NEW s \in Node,
           NEW r \in Node, NEW x, Arrives(nd, w, j, s, r, x),
           NEW R, NEW msg, Passed(nd, nd2, s, r, R, msg)
    PROVE  Behind(nd2, s, r, x)
<1>1. s # r /\ nd[s].election.caw \in Node /\ nd[s].election.caw <= x
  <2>1. Regular(nd, w, s, r, x)
    BY ElectFacts
  <2> QED BY <2>1 DEF Regular
<1>2. nd2[s].election = nd[s].election /\ nd2[s].mailbox[r] = Tail(nd[s].mailbox[r])
  BY <1>1 DEF Passed
<1>3. /\ nd[s].mailbox[r] \in Seq(Message) /\ nd[s].mailbox[r] # <<>>
      /\ nd[s].mailbox[r][1].command = "ELECT" /\ nd[s].mailbox[r][1].id = x
  BY ArrivesFacts
<1> DEFINE q == nd[s].mailbox[r]
<1>4. Line(nd, w, j, s, r)
  BY DEF Arrives, Spreading
<1>5. \A i \in DOMAIN Tail(q) : Tail(q)[i].id < q[1].id
  <2>1. LineOf(q, w, nd[s].election.caw, Voted(nd, w, s, r),
              s = j, {s, r} \subseteq Members(nd), s = w)
    BY <1>4 DEF Line
  <2> QED BY <1>3, <2>1, LineTail
<1> QED BY <1>1, <1>2, <1>3, <1>5 DEF Behind

\* The votes that have arrived: s's is one more if it is for w.
VotesGrow(nd, nd2, w, s, r, x) ==
    /\ s \notin Votes(nd, w, r)
    /\ IsFiniteSet(Votes(nd, w, r)) /\ IsFiniteSet(Votes(nd2, w, r))
    /\ Cardinality(Votes(nd, w, r)) \in Nat
    /\ x # w => Votes(nd2, w, r) = Votes(nd, w, r)
    /\ x = w => /\ Votes(nd2, w, r) = Votes(nd, w, r) \cup {s}
                /\ Cardinality(Votes(nd2, w, r)) = Cardinality(Votes(nd, w, r)) + 1

LEMMA VotesPassed ==
    ASSUME NEW nd, NEW nd2, NEW w \in Node, NEW j \in Node, NEW s \in Node,
           NEW r \in Node, NEW x, Arrives(nd, w, j, s, r, x),
           NEW R, NEW msg, Passed(nd, nd2, s, r, R, msg)
    PROVE  VotesGrow(nd, nd2, w, s, r, x)
<1> DEFINE M == Members(nd)
<1>1. /\ s # r /\ s \in M /\ r \in M
      /\ x = w => Voted(nd, w, s, r) /\ Tail(nd[s].mailbox[r]) = <<>>
      /\ x # w /\ Voted(nd, w, s, r) => Tail(nd[s].mailbox[r]) # <<>>
  <2>1. Regular(nd, w, s, r, x)
    BY ElectFacts
  <2> QED BY <2>1 DEF Regular
<1>2. M \in SUBSET Node /\ IsFiniteSet(M) /\ nd[s].mailbox[r] # <<>>
  <2>1. /\ Spreading(nd, w, j) /\ ~Pending(nd, j, r)
        /\ nd[s].mailbox[r] \in Seq(Message) /\ nd[s].mailbox[r] # <<>>
        /\ nd[s].mailbox[r][1].command = "ELECT" /\ nd[s].mailbox[r][1].id = x
        /\ Members(nd) \in SUBSET Node /\ IsFiniteSet(Members(nd))
    BY ArrivesFacts
  <2> QED BY <2>1
<1>3. Members(nd2) = M
  BY PassedBase
<1>4. s \notin Votes(nd, w, r)
  BY <1>2 DEF Votes
<1>5. ASSUME NEW a \in M \ {r}
      PROVE  a \in Votes(nd2, w, r) <=> a \in Votes(nd, w, r) \/ (a = s /\ x = w)
  <2>1. Voted(nd2, w, a, r) = Voted(nd, w, a, r)
    BY <1>2, VotedKept
  <2>2. nd2[a].mailbox[r] = IF a = s THEN Tail(nd[s].mailbox[r]) ELSE nd[a].mailbox[r]
    BY <1>1, <1>2 DEF Passed
  <2>3. CASE a = s
    BY <1>1, <1>3, <1>4, <2>1, <2>2, <2>3 DEF Votes
  <2>4. CASE a # s
    BY <1>3, <2>1, <2>2, <2>4 DEF Votes
  <2> QED BY <2>3, <2>4
<1>6. /\ Votes(nd, w, r) \in SUBSET M /\ Votes(nd2, w, r) \in SUBSET M
      /\ r \notin Votes(nd, w, r) /\ r \notin Votes(nd2, w, r)
  BY <1>3 DEF Votes
<1>7. Votes(nd2, w, r) = IF x = w THEN Votes(nd, w, r) \cup {s} ELSE Votes(nd, w, r)
  <2>1. CASE x = w
    BY <1>1, <1>5, <1>6, <2>1
  <2>2. CASE x # w
    BY <1>5, <1>6, <2>2
  <2> QED BY <2>1, <2>2
<1>8. IsFiniteSet(Votes(nd, w, r)) /\ IsFiniteSet(Votes(nd2, w, r))
  BY <1>2, <1>6, FS_Subset
<1>9. Cardinality(Votes(nd, w, r)) \in Nat
  BY <1>8, FS_CardinalityType
<1>10. ASSUME x = w
       PROVE  Cardinality(Votes(nd2, w, r)) = Cardinality(Votes(nd, w, r)) + 1
  <2>1. Cardinality(Votes(nd, w, r) \cup {s}) = Cardinality(Votes(nd, w, r)) + 1
    BY <1>4, <1>8, FS_AddElement
  <2> QED BY <1>7, <1>10, <2>1
<1> QED BY <1>4, <1>7, <1>8, <1>9, <1>10 DEF VotesGrow

\* Who keeps its wave and its father keeps the tree.
LEMMA TreeKept ==
    ASSUME NEW nd, NEW nd2, NEW w \in Node, NEW s, NEW r \in Node, NEW R, NEW msg,
           Passed(nd, nd2, s, r, R, msg), Tree(nd, w),
           nd2[r].election.caw = nd[r].election.caw,
           nd2[r].election.father = nd[r].election.father
    PROVE  Tree(nd2, w)
<1>1. \A n \in Node : /\ nd2[n].election.caw = nd[n].election.caw
                      /\ nd2[n].election.father = nd[n].election.father
  BY DEF Passed
<1>2. Supporters(nd2, w) = Supporters(nd, w)
  BY <1>1 DEF Supporters
<1>3. /\ nd[w].election.father = None
      /\ \A n \in Supporters(nd, w) \ {w} :
            nd[n].election.father \in Supporters(nd, w) \ {n}
      /\ Supporters(nd, w) # {} => w \in Supporters(nd, w)
  BY DEF Tree
<1>4. \A n \in Supporters(nd, w) : n \in Node
  BY DEF Supporters
<1>5. ASSUME NEW S \in SUBSET Supporters(nd2, w), S # {}
      PROVE  /\ w \notin S => \E n \in S : nd2[n].election.father \notin S
             /\ \E n \in S : \A m \in S : nd2[m].election.father # n
  <2>1. S \in SUBSET Supporters(nd, w) /\ \A n \in S : n \in Node
    BY <1>2, <1>4
  <2>2. \A n \in S : nd2[n].election.father = nd[n].election.father
    BY <1>1, <2>1
  <2>3. /\ w \notin S => \E n \in S : nd[n].election.father \notin S
        /\ \E n \in S : \A m \in S : nd[m].election.father # n
    BY <1>5, <2>1 DEF Tree
  <2> QED BY <2>2, <2>3
<1>6. nd2[w].election.father = None
  BY <1>1, <1>3
<1>7. \A n \in Supporters(nd2, w) \ {w} :
         nd2[n].election.father \in Supporters(nd2, w) \ {n}
  BY <1>1, <1>2, <1>3, <1>4
<1>8. Supporters(nd2, w) # {} => w \in Supporters(nd2, w)
  BY <1>2, <1>3
<1> QED BY <1>5, <1>6, <1>7, <1>8 DEF Tree

\* No more votes than peers: r's own and s's are not among those that have come.
LEMMA VotesBelow ==
    ASSUME NEW nd, NEW w \in Node, NEW j \in Node, NEW s \in Node,
           NEW r \in Node, NEW x, Arrives(nd, w, j, s, r, x), nd[r].election.caw = w
    PROVE  ~ErecComplete(nd[r]) /\ nd[r].election.erec = Cardinality(Votes(nd, w, r))
<1> DEFINE M == Members(nd)
<1>1. /\ s # r /\ s \in M /\ r \in M /\ nd[r].group = M \ {r}
  <2>1. Regular(nd, w, s, r, x)
    BY ElectFacts
  <2> QED BY <2>1 DEF Regular
<1>2. IsFiniteSet(M) /\ M \in SUBSET Node
  <2>1. Members(nd) \in SUBSET Node /\ IsFiniteSet(Members(nd))
    BY ArrivesFacts
  <2> QED BY <2>1
<1>3. nd[r].election.erec = Cardinality(Votes(nd, w, r))
  BY <1>1 DEF Arrives, Spreading, Tally
<1>4. IsFiniteSet(M \ {r})
  BY <1>2, FS_Subset
<1>5. Votes(nd, w, r) \in SUBSET (M \ {r}) /\ s \in M \ {r} /\ s \notin Votes(nd, w, r)
  BY <1>1 DEF Arrives, Votes
<1>6. Cardinality(Votes(nd, w, r)) # Cardinality(M \ {r})
  BY <1>4, <1>5, FS_Subset
<1> QED BY <1>1, <1>3, <1>6 DEF ErecComplete

\* A vote that r does not answer.
LEMMA SpreadSilent ==
    ASSUME NEW nd, NEW nd2, NEW w \in Node, NEW j \in Node, NEW s \in Node,
           NEW r \in Node, NEW x, Arrives(nd, w, j, s, r, x),
           Passed(nd, nd2, s, r, {}, Elect(w)), nd2[r].group = nd[r].group,
           nd2[r].election.caw = nd[r].election.caw,
           nd2[r].election.father = nd[r].election.father,
           nd[r].election.caw = w => ErecComplete(nd2[r]) = ErecComplete(nd[r]),
           Tally(nd2, w, j, r)
    PROVE  Spreading(nd2, w, j)
<1>1. Spreading(nd, w, j) /\ nd[s].mailbox[r] # <<>>
  BY DEF Arrives
<1>2. s # r
  <2>1. Regular(nd, w, s, r, x)
    BY ElectFacts
  <2> QED BY <2>1 DEF Regular
<1>3. \A b : Voted(nd2, w, r, b) = Voted(nd, w, r, b)
  BY DEF Voted
<1>4. Turns(nd, nd2, w, r, {}, w)
  <2>1. nd[r].election.caw \in Node => nd[r].election.caw <= nd[r].election.caw
    BY NodeAssumption
  <2> QED BY <1>3, <2>1 DEF Turns
<1>5. Members(nd2) = Members(nd)
  BY PassedBase
<1>6. ASSUME NEW b \in Node PROVE Line(nd2, w, j, r, b)
  <2>1. nd2[r].mailbox[b] = nd[r].mailbox[b]
    BY <1>2 DEF Passed
  <2>2. Line(nd, w, j, r, b)
    BY <1>1 DEF Spreading
  <2> QED BY <1>3, <1>5, <2>1, <2>2 DEF Line
<1>7. Tree(nd2, w)
  <2>1. Tree(nd, w)
    BY <1>1 DEF Spreading
  <2> QED BY <2>1, TreeKept
<1>8. ~(nd2[w].election.caw = w /\ ErecComplete(nd2[w]))
  <2>1. ~(nd[w].election.caw = w /\ ErecComplete(nd[w]))
    BY <1>1 DEF Spreading
  <2>2. CASE w = r
    BY <2>1, <2>2
  <2>3. CASE w # r
    BY <2>1, <2>3 DEF Passed, ErecComplete
  <2> QED BY <2>2, <2>3
<1>9. LinesFrom(nd2, w, j, r)
  BY <1>6 DEF LinesFrom
<1> QED BY <1>4, <1>7, <1>8, <1>9, SpreadPassed

\* The vote comes too late.
LEMMA SpreadIgnored ==
    ASSUME NEW nd, NEW nd2, NEW w \in Node, NEW j \in Node, NEW s \in Node,
           NEW r \in Node, NEW x, Arrives(nd, w, j, s, r, x),
           Passed(nd, nd2, s, r, {}, Elect(w)), nd2[r].group = nd[r].group,
           nd2[r].election = nd[r].election,
           nd[r].election.caw # None, ~(x < nd[r].election.caw),
           x # nd[r].election.caw
    PROVE  Spreading(nd2, w, j)
<1> DEFINE c == nd[r].election.caw
<1>1. Regular(nd, w, s, r, x)
  BY ElectFacts
<1>2. /\ s # r /\ r \in Members(nd) /\ x \in Node /\ c \in Node /\ w <= c
      /\ r = w => c = w
  BY <1>1 DEF Regular
<1>3. x # w
  BY <1>2, NodeAssumption
<1>4. Votes(nd2, w, r) = Votes(nd, w, r)
  <2>1. VotesGrow(nd, nd2, w, s, r, x)
    BY VotesPassed
  <2> QED BY <1>3, <2>1 DEF VotesGrow
<1>5. Members(nd2) = Members(nd)
  BY PassedBase
<1>6. Tally(nd, w, j, r) /\ ~Pending(nd, j, r)
  BY <1>2 DEF Arrives, Spreading
<1>7. ~Pending(nd2, j, r)
  <2>1. \A t \in Node : Pending(nd2, j, t) <=> Pending(nd, j, t)
    BY SpreadOthers
  <2> QED BY <1>6, <2>1
<1>8. ASSUME c # w PROVE \E V \in SUBSET Node : Stray(nd2, w, r, V)
  <2>1. PICK V \in SUBSET Node : Stray(nd, w, r, V)
    BY <1>6, <1>8 DEF Tally
  <2>2. ASSUME NEW a \in V PROVE Behind(nd2, a, r, c)
    <3>1. a \in Node \ {r} /\ Behind(nd, a, r, c)
      BY <2>1 DEF Stray
    <3> QED BY <3>1, BehindKept
  <2> QED BY <1>5, <2>1, <2>2 DEF Stray
<1>9. Tally(nd2, w, j, r)
  BY <1>4, <1>6, <1>7, <1>8 DEF Tally
<1>10. ErecComplete(nd2[r]) = ErecComplete(nd[r])
  BY DEF ErecComplete
<1> QED BY <1>9, <1>10, SpreadSilent

\* The vote is counted, and others are missing.
LEMMA SpreadCounted ==
    ASSUME NEW nd, NEW nd2, NEW w \in Node, NEW j \in Node, NEW s \in Node,
           NEW r \in Node, NEW x, Arrives(nd, w, j, s, r, x),
           Passed(nd, nd2, s, r, {}, Elect(w)), nd2[r].group = nd[r].group,
           nd[r].election \in Election,
           nd2[r].election = [nd[r].election EXCEPT !.erec = @ + 1],
           nd[r].election.caw = x,
           x = w => nd[r].election.erec + 1 # Cardinality(nd[r].group)
    PROVE  Spreading(nd2, w, j)
<1> DEFINE e == nd[r].election
           e2 == nd2[r].election
<1>1. Regular(nd, w, s, r, x)
  BY ElectFacts
<1>2. /\ s # r /\ r \in Members(nd) /\ s \in Members(nd) /\ x \in Node
      /\ w <= x /\ (r = w => x = w) /\ (s = w => x = w)
  BY <1>1 DEF Regular
<1>3. e2.caw = e.caw /\ e2.father = e.father /\ e2.erec = e.erec + 1 /\ e2.lrec = e.lrec
  BY DEF Election
<1>4. Members(nd2) = Members(nd)
  BY PassedBase
<1>5. Tally(nd, w, j, r) /\ ~Pending(nd, j, r)
  BY <1>2 DEF Arrives, Spreading
<1>6. ~Pending(nd2, j, r)
  <2>1. \A t \in Node : Pending(nd2, j, t) <=> Pending(nd, j, t)
    BY SpreadOthers
  <2> QED BY <1>5, <2>1
<1>7. x # None
  BY <1>2, NodeAssumption
<1>10. VotesGrow(nd, nd2, w, s, r, x)
  BY VotesPassed
<1>8. CASE x = w
  <2>1. ~ErecComplete(nd[r]) /\ ~ErecComplete(nd2[r])
    <3>1. ~ErecComplete(nd[r])
      BY <1>8, VotesBelow
    <3> QED BY <1>3, <1>8, <3>1 DEF ErecComplete
  <2>2. e2.erec = Cardinality(Votes(nd2, w, r))
    <3>1. e.erec = Cardinality(Votes(nd, w, r))
      BY <1>8, VotesBelow
    <3>2. Cardinality(Votes(nd2, w, r)) = Cardinality(Votes(nd, w, r)) + 1
      BY <1>8, <1>10 DEF VotesGrow
    <3> QED BY <1>3, <3>1, <3>2
  <2>3. Tally(nd2, w, j, r)
    BY <1>3, <1>5, <1>6, <1>7, <1>8, <2>2 DEF Tally
  <2>4. ErecComplete(nd2[r]) = ErecComplete(nd[r])
    <3>1. ErecComplete(nd2[r]) \in BOOLEAN /\ ErecComplete(nd[r]) \in BOOLEAN
      BY DEF ErecComplete
    <3> QED BY <2>1, <3>1
  <2>5. e2.caw = e.caw /\ e2.father = e.father
    BY <1>3
  <2> QED BY <2>3, <2>4, <2>5, SpreadSilent
<1>9. CASE x # w
  <2>1. Votes(nd2, w, r) = Votes(nd, w, r)
    BY <1>9, <1>10 DEF VotesGrow
  <2>2. PICK V \in SUBSET Node : Stray(nd, w, r, V)
    BY <1>5, <1>7, <1>9 DEF Tally
  <2>3. s \notin V
    <3>1. /\ 1 \in DOMAIN nd[s].mailbox[r] /\ IsElect(nd[s].mailbox[r][1])
          /\ nd[s].mailbox[r][1].id = x
      <4>1. nd[s].mailbox[r] \in Seq(Message) /\ nd[s].mailbox[r] # <<>>
        BY ArrivesFacts
      <4>2. nd[s].mailbox[r][1] = Elect(x)
        BY <1>1 DEF Regular
      <4> QED BY <1>2, <4>1, <4>2, MessageTypes DEF IsElect
    <3>2. Behind(nd, s, r, x) => x < x
      BY <3>1 DEF Behind
    <3> QED BY <1>2, <2>2, <3>2, NodeAssumption DEF Stray
  <2> DEFINE U == V \cup {s}
  <2>4. ASSUME NEW a \in U PROVE Behind(nd2, a, r, x)
    <3>1. CASE a = s
      BY <3>1, BehindFront
    <3>2. CASE a \in V
      <4>1. a \in Node \ {r} /\ Behind(nd, a, r, x)
        BY <2>2, <3>2 DEF Stray
      <4> QED BY <4>1, BehindKept
    <3> QED BY <3>1, <3>2
  <2>5. IsFiniteSet(V)
    BY FS_Subset, NodeAssumption
  <2>6. Cardinality(U) = e.erec + 1
    <3>1. Cardinality(U) = Cardinality(V) + 1
      BY <2>3, <2>5, FS_AddElement
    <3> QED BY <2>2, <3>1 DEF Stray
  <2>7. U \in SUBSET Node /\ U \subseteq Members(nd) \ {r, w}
    BY <1>2, <1>9, <2>2 DEF Stray
  <2>8. Stray(nd2, w, r, U)
    BY <1>3, <1>4, <2>4, <2>6, <2>7 DEF Stray
  <2>9. Tally(nd2, w, j, r)
    BY <1>2, <1>3, <1>5, <1>6, <1>7, <1>9, <2>1, <2>7, <2>8 DEF Tally
  <2>10. e2.caw = e.caw /\ e2.father = e.father /\ e.caw # w
    BY <1>3, <1>9
  <2> QED BY <2>9, <2>10, SpreadSilent
<1> QED BY <1>8, <1>9

\* The last vote for w: r tells its father.
LEMMA SpreadEchoed ==
    ASSUME NEW nd, NEW nd2, NEW w \in Node, NEW j \in Node, NEW s \in Node,
           NEW r \in Node \ {w}, Arrives(nd, w, j, s, r, w),
           NEW f \in Node \ {r}, f = nd[r].election.father,
           Passed(nd, nd2, s, r, {f}, Elect(w)), nd2[r].group = nd[r].group,
           nd[r].election \in Election,
           nd2[r].election = [nd[r].election EXCEPT !.erec = @ + 1],
           nd[r].election.caw = w,
           nd[r].election.erec + 1 = Cardinality(nd[r].group)
    PROVE  Spreading(nd2, w, j)
<1> DEFINE e == nd[r].election
           e2 == nd2[r].election
           M == Members(nd)
<1>1. Regular(nd, w, s, r, w)
  BY ElectFacts
<1>2. s # r /\ r \in M /\ s \in M /\ s \in Node \ {r}
  BY <1>1 DEF Regular
<1>3. e2.caw = e.caw /\ e2.father = e.father /\ e2.erec = e.erec + 1 /\ e2.lrec = e.lrec
  BY DEF Election
<1>4. Members(nd2) = M
  BY PassedBase
<1>5. Tally(nd, w, j, r) /\ ~Pending(nd, j, r) /\ Spreading(nd, w, j)
  BY <1>2 DEF Arrives, Spreading
<1>6. ~Pending(nd2, j, r)
  <2>1. \A t \in Node : Pending(nd2, j, t) <=> Pending(nd, j, t)
    BY SpreadOthers
  <2> QED BY <1>5, <2>1
<1>7. ~ErecComplete(nd[r]) /\ e.erec = Cardinality(Votes(nd, w, r))
  BY VotesBelow
<1>8. ErecComplete(nd2[r])
  BY <1>3 DEF ErecComplete
<1>9. e2.erec = Cardinality(Votes(nd2, w, r))
  <2>1. VotesGrow(nd, nd2, w, s, r, w)
    BY VotesPassed
  <2> QED BY <1>3, <1>7, <2>1 DEF VotesGrow
<1>10. Tally(nd2, w, j, r)
  BY <1>3, <1>5, <1>6, <1>9, NodeAssumption DEF Tally
<1>11. /\ ~Voted(nd, w, r, f) /\ Voted(nd2, w, r, f)
       /\ \A b : b # f => Voted(nd, w, r, b) /\ Voted(nd2, w, r, b)
  BY <1>3, <1>7, <1>8 DEF Voted
<1>12. Turns(nd, nd2, w, r, {f}, w)
  <2>1. e2.caw \in Node /\ e2.caw <= e.caw
    BY <1>3, NodeAssumption
  <2>2. \A b : b # f => Voted(nd2, w, r, b) = Voted(nd, w, r, b)
    BY <1>3, <1>7, <1>8 DEF Voted
  <2> QED BY <1>11, <2>1, <2>2 DEF Turns
<1>13. f \in M
  <2>1. f \in Supporters(nd, w)
    <3>1. r \in Supporters(nd, w) \ {w}
      BY DEF Supporters
    <3>2. Tree(nd, w)
      BY <1>5 DEF Spreading
    <3> QED BY <3>1, <3>2 DEF Tree
  <2>2. nd[f].election.caw # None
    BY <2>1, NodeAssumption DEF Supporters
  <2> QED BY <1>5, <2>2 DEF Spreading, Common, Bystanders, NoElection
<1>14. \A a, b \in Node : nd[a].mailbox[b] \in Seq(Message)
  BY <1>5 DEF Spreading, Common, Base, NodeState
<1>15. ASSUME NEW b \in Node PROVE Line(nd2, w, j, r, b)
  <2>0. Line(nd, w, j, r, b)
    BY <1>5 DEF Spreading
  <2>1. CASE b # f
    <3>1. nd2[r].mailbox[b] = nd[r].mailbox[b]
      BY <1>2, <2>1 DEF Passed
    <3>2. Voted(nd2, w, r, b) = Voted(nd, w, r, b)
      BY <1>3, <1>7, <1>8, <2>1 DEF Voted
    <3> QED BY <1>3, <1>4, <2>0, <3>1, <3>2 DEF Line
  <2>2. CASE b = f
    <3> DEFINE q == nd[r].mailbox[f]
    <3>1. nd2[r].mailbox[f] = Append(q, Elect(w)) /\ q \in Seq(Message)
      BY <1>2, <1>14 DEF Passed
    <3>2. LineOf(q, w, w, Voted(nd, w, r, f), r = j, {r, f} \subseteq M, r = w)
      BY <2>0, <2>2 DEF Line
    <3>3. ({r, f} \subseteq M) = TRUE
      BY <1>2, <1>13
    <3>4. ASSUME NEW i \in DOMAIN q, IsElect(q[i]) PROVE w < q[i].id
      <4>1. q[i] # Plain("JOIN")
        BY <3>4, MessageTypes DEF IsElect
      <4>2. q[i].id \in Node /\ w <= q[i].id
        BY <3>2, <4>1 DEF LineOf
      <4>3. q[i] # Elect(w)
        BY <1>11, <3>2 DEF LineOf
      <4>4. q[i].id # w
        BY <3>4, <4>3 DEF IsElect
      <4> QED BY <4>2, <4>4, NodeAssumption
    <3>5. LineOf(q, w, w, Voted(nd, w, r, f), r = j, TRUE, r = w)
      BY <3>2, <3>3
    <3>6. LineOf(Append(q, Elect(w)), w, w, w = w, r = j, TRUE, r = w)
      BY <3>1, <3>4, <3>5, LineAppend
    <3>7. Voted(nd2, w, r, f) = (w = w)
      BY <1>11 DEF Voted
    <3> QED BY <1>3, <1>4, <2>2, <3>1, <3>3, <3>6, <3>7 DEF Line
  <2> QED BY <2>1, <2>2
<1>16. LinesFrom(nd2, w, j, r)
  BY <1>15 DEF LinesFrom
<1>17. Tree(nd2, w)
  <2>1. Tree(nd, w)
    BY <1>5 DEF Spreading
  <2> QED BY <1>3, <2>1, TreeKept
<1>18. ~(nd2[w].election.caw = w /\ ErecComplete(nd2[w]))
  BY <1>5 DEF Passed, ErecComplete, Spreading
<1> QED BY <1>10, <1>12, <1>16, <1>17, <1>18, SpreadPassed

\* A new leaf of the tree.
LEMMA TreeGrows ==
    ASSUME NEW nd, NEW nd2, NEW w \in Node, NEW s \in Node, NEW r \in Node \ {s, w},
           Tree(nd, w), s \in Supporters(nd, w), r \notin Supporters(nd, w),
           nd2[r].election.caw = w, nd2[r].election.father = s,
           \A n \in Node \ {r} : nd2[n].election = nd[n].election
    PROVE  Tree(nd2, w)
<1> DEFINE S1 == Supporters(nd, w)
           S2 == Supporters(nd2, w)
<1>1. S2 = S1 \cup {r}
  BY DEF Supporters
<1>2. \A n \in S1 : n \in Node \ {r} /\ nd2[n].election.father = nd[n].election.father
  BY DEF Supporters
<1>3. /\ nd[w].election.father = None /\ w \in S1
      /\ \A n \in S1 \ {w} : nd[n].election.father \in S1 \ {n}
  BY DEF Tree
<1>4. nd2[w].election.father = None
  BY <1>2, <1>3
<1>5. \A n \in S2 \ {w} : nd2[n].election.father \in S2 \ {n}
  BY <1>1, <1>2, <1>3
<1>6. ASSUME NEW S \in SUBSET S2, S # {}, w \notin S
      PROVE  \E n \in S : nd2[n].election.father \notin S
  <2> DEFINE T == S \ {r}
  <2>1. CASE T = {}
    <3>1. S = {r}
      BY <1>6, <2>1
    <3>2. s # r
      OBVIOUS
    <3> QED BY <3>1, <3>2
  <2>2. CASE T # {}
    <3>1. T \in SUBSET S1 /\ w \notin T
      BY <1>1, <1>6
    <3>2. PICK n \in T : nd[n].election.father \notin T
      BY <2>2, <3>1 DEF Tree
    <3>3. n \in S1 \ {w} /\ nd[n].election.father # r
      BY <1>2, <1>3, <3>1
    <3> QED BY <1>2, <3>2, <3>3
  <2> QED BY <2>1, <2>2
<1>7. ASSUME NEW S \in SUBSET S2, S # {}
      PROVE  \E n \in S : \A m \in S : nd2[m].election.father # n
  <2>1. CASE r \in S
    <3>1. ASSUME NEW m \in S PROVE nd2[m].election.father # r
      <4>1. CASE m = r
        BY <4>1
      <4>2. CASE m = w
        BY <1>4, <4>2, NodeAssumption
      <4>3. CASE m \in S1 \ {w}
        BY <1>2, <1>3, <4>3
      <4> QED BY <1>1, <4>1, <4>2, <4>3
    <3> QED BY <2>1, <3>1
  <2>2. CASE r \notin S
    <3>1. S \in SUBSET S1
      BY <1>1, <2>2
    <3>2. PICK n \in S : \A m \in S : nd[m].election.father # n
      BY <1>7, <3>1 DEF Tree
    <3> QED BY <1>2, <3>1, <3>2
  <2> QED BY <2>1, <2>2
<1> QED BY <1>1, <1>3, <1>4, <1>5, <1>6, <1>7 DEF Tree

\* Who does not support w before and after keeps the tree.
LEMMA TreeApart ==
    ASSUME NEW nd, NEW nd2, NEW w \in Node, NEW r \in Node \ {w}, Tree(nd, w),
           nd[r].election.caw # w, nd2[r].election.caw # w,
           \A n \in Node \ {r} : nd2[n].election = nd[n].election
    PROVE  Tree(nd2, w)
<1>1. Supporters(nd2, w) = Supporters(nd, w)
  <2>1. \A n \in Node : nd2[n].election.caw = w <=> nd[n].election.caw = w
    OBVIOUS
  <2> QED BY <2>1 DEF Supporters
<1>2. \A n \in Supporters(nd, w) : nd2[n].election = nd[n].election
  BY DEF Supporters
<1>3. nd2[w].election = nd[w].election
  OBVIOUS
<1>4. ASSUME NEW S \in SUBSET Supporters(nd2, w), S # {}
      PROVE  /\ w \notin S => \E n \in S : nd2[n].election.father \notin S
             /\ \E n \in S : \A m \in S : nd2[m].election.father # n
  <2>1. /\ w \notin S => \E n \in S : nd[n].election.father \notin S
        /\ \E n \in S : \A m \in S : nd[m].election.father # n
    BY <1>1, <1>4 DEF Tree
  <2>2. \A n \in S : nd2[n].election = nd[n].election
    BY <1>1, <1>2
  <2> QED BY <2>1, <2>2
<1>5. /\ nd2[w].election.father = None
      /\ \A n \in Supporters(nd2, w) \ {w} :
            nd2[n].election.father \in Supporters(nd2, w) \ {n}
      /\ Supporters(nd2, w) # {} => w \in Supporters(nd2, w)
  BY <1>1, <1>2, <1>3 DEF Tree
<1> QED BY <1>4, <1>5 DEF Tree

LEMMA NodeOrder ==
    ASSUME NEW a \in Node, NEW b \in Node
    PROVE  /\ a # None /\ (a < b => a <= b) /\ (a <= b /\ a # b => a < b)
           /\ \A c \in Node : a < b /\ b <= c => a < c
<1>1. a \in Nat /\ b \in Nat /\ a # None
  BY NodeAssumption
<1>2. ASSUME NEW c \in Node, a < b, b <= c PROVE a < c
  <2>1. c \in Nat
    BY NodeAssumption
  <2> QED BY <1>1, <1>2, <2>1
<1>3. (a < b => a <= b) /\ (a <= b /\ a # b => a < b)
  BY <1>1
<1> QED BY <1>1, <1>2, <1>3

\* The vote is for a lower challenger: r turns to it.
LEMMA SpreadAdopted ==
    ASSUME NEW nd, NEW nd2, NEW w \in Node, NEW j \in Node, NEW s \in Node,
           NEW r \in Node, NEW x \in Node, Arrives(nd, w, j, s, r, x),
           nd[r].election.caw = None \/ x < nd[r].election.caw,
           NEW R, R = (IF nd[r].group = {s} THEN {s} ELSE nd[r].group \ {s}),
           Passed(nd, nd2, s, r, R, Elect(x)), nd2[r].group = nd[r].group,
           nd2[r].election = [caw |-> x, father |-> s, erec |-> 1, lrec |-> 0]
    PROVE  Spreading(nd2, w, j)
<1> DEFINE c == nd[r].election.caw
           e2 == nd2[r].election
           M == Members(nd)
<1>1. Regular(nd, w, s, r, x)
  BY ElectFacts
<1>2. /\ s # r /\ r \in M /\ s \in M /\ s \in Node \ {r} /\ r \in Node \ {s}
      /\ w <= x /\ (s = w => x = w) /\ (r = w => c = w)
      /\ c \in Node \cup {None} /\ nd[r].group = M \ {r}
      /\ x = w => Voted(nd, w, s, r)
  BY <1>1 DEF Regular
<1>3. r # w /\ c # w
  BY <1>2, NodeAssumption
<1>24. c \in Node => x < c /\ x <= c
  <2> SUFFICES ASSUME c \in Node PROVE x < c /\ x <= c
    OBVIOUS
  <2>1. x < c
    BY NodeOrder
  <2> QED BY <2>1, NodeOrder
<1>4. e2.caw = x /\ e2.father = s /\ e2.erec = 1 /\ e2.lrec = 0
  OBVIOUS
<1>5. Members(nd2) = M
  BY PassedBase
<1>6. Tally(nd, w, j, r) /\ ~Pending(nd, j, r) /\ Spreading(nd, w, j)
  BY <1>2 DEF Arrives, Spreading
<1>7. ~Pending(nd2, j, r)
  <2>1. \A t \in Node : Pending(nd2, j, t) <=> Pending(nd, j, t)
    BY SpreadOthers
  <2> QED BY <1>6, <2>1
<1>8. Votes(nd, w, r) = {}
  BY <1>3, <1>6 DEF Tally
<1>9. VotesGrow(nd, nd2, w, s, r, x)
  BY VotesPassed
<1>10. IsFiniteSet(M) /\ M \in SUBSET Node /\ IsFiniteSet(M \ {r})
  <2>1. /\ Spreading(nd, w, j) /\ ~Pending(nd, j, r)
        /\ nd[s].mailbox[r] \in Seq(Message) /\ nd[s].mailbox[r] # <<>>
        /\ nd[s].mailbox[r][1].command = "ELECT" /\ nd[s].mailbox[r][1].id = x
        /\ Members(nd) \in SUBSET Node /\ IsFiniteSet(Members(nd))
    BY ArrivesFacts
  <2> QED BY <2>1, FS_Subset
<1>11. ErecComplete(nd2[r]) <=> M \ {r} = {s}
  <2>1. ErecComplete(nd2[r]) <=> Cardinality(M \ {r}) = 1
    BY <1>2, <1>4 DEF ErecComplete
  <2>2. Cardinality(M \ {r}) = 1 <=> \E y : M \ {r} = {y}
    BY <1>10, FS_Singleton
  <2>3. (\E y : M \ {r} = {y}) <=> M \ {r} = {s}
    BY <1>2
  <2> QED BY <2>1, <2>2, <2>3
<1>12. /\ R = IF M \ {r} = {s} THEN {s} ELSE M \ {r, s}
       /\ R \subseteq M \ {r}
  BY <1>2
<1>13. \A b : ~Voted(nd, w, r, b)
  BY <1>3 DEF Voted
<1>14. Tally(nd2, w, j, r)
  <2>1. x # None
    BY NodeAssumption
  <2>2. CASE x = w
    <3>1. Votes(nd2, w, r) = {s}
      BY <1>8, <1>9, <2>2 DEF VotesGrow
    <3>2. Cardinality({s}) = 1
      BY FS_Singleton
    <3> QED BY <1>2, <1>4, <1>7, <2>1, <2>2, <3>1, <3>2 DEF Tally
  <2>3. CASE x # w
    <3>1. Votes(nd2, w, r) = {}
      BY <1>8, <1>9, <2>3 DEF VotesGrow
    <3>2. Behind(nd2, s, r, x)
      BY BehindFront
    <3>3. Cardinality({s}) = 1 /\ {s} \in SUBSET Node
      BY FS_Singleton
    <3>4. {s} \subseteq Members(nd2) \ {r, w}
      BY <1>2, <1>5, <2>3
    <3>5. Stray(nd2, w, r, {s})
      BY <1>4, <3>2, <3>3, <3>4 DEF Stray
    <3> QED BY <1>2, <1>3, <1>4, <1>7, <2>1, <2>3, <3>1, <3>3, <3>5 DEF Tally
  <2> QED BY <2>2, <2>3
<1>15. \A b \in Node \ {r} : b \in R => Voted(nd2, w, r, b) = (x = w)
  <2> SUFFICES ASSUME NEW b \in R PROVE Voted(nd2, w, r, b) = (x = w)
    OBVIOUS
  <2>1. b # s \/ ErecComplete(nd2[r])
    BY <1>11, <1>12
  <2> QED BY <1>4, <2>1 DEF Voted
<1>16. ASSUME s \notin R PROVE ~Voted(nd2, w, r, s)
  BY <1>4, <1>11, <1>12, <1>16 DEF Voted
<1>17. Turns(nd, nd2, w, r, R, x)
  <2>1. c \in Node => x \in Node /\ x <= c /\ x < c
    BY <1>24
  <2>2. \A t \in M \ {r} : t \in R \/ t = s
    BY <1>12
  <2>3. Voted(nd, w, r, s) = FALSE /\ (s \notin R => Voted(nd2, w, r, s) = FALSE)
    BY <1>13, <1>16 DEF Voted
  <2> QED BY <1>4, <1>13, <2>1, <2>2, <2>3 DEF Turns
<1>18. \A a, b \in Node : nd[a].mailbox[b] \in Seq(Message)
  BY <1>6 DEF Spreading, Common, Base, NodeState
<1>19. ASSUME NEW b \in Node PROVE Line(nd2, w, j, r, b)
  <2> DEFINE q == nd[r].mailbox[b]
  <2>1. LineOf(q, w, c, FALSE, r = j, {r, b} \subseteq M, r = w)
    <3>1. Line(nd, w, j, r, b)
      BY <1>6 DEF Spreading
    <3>2. Voted(nd, w, r, b) = FALSE
      BY <1>13 DEF Voted
    <3> QED BY <3>1, <3>2 DEF Line
  <2>2. q \in Seq(Message)
    BY <1>18
  <2>3. CASE b = r
    <3>1. r \notin R
      BY <1>12
    <3>2. nd2[r].mailbox[r] = <<>>
      BY <1>2, <1>6, <3>1 DEF Passed, Spreading, Line
    <3> QED BY <2>3, <3>2, EmptyLine DEF Line
  <2>4. CASE b \in R
    <3>0. b # r
      BY <1>12, <2>4
    <3>1. nd2[r].mailbox[b] = Append(q, Elect(x))
      BY <1>2, <2>4 DEF Passed
    <3>2. ({r, b} \subseteq M) = TRUE
      BY <1>2, <1>12, <2>4
    <3>3. ASSUME NEW i \in DOMAIN q, IsElect(q[i]) PROVE x < q[i].id
      <4>1. q[i] # Plain("JOIN")
        BY <3>3, MessageTypes DEF IsElect
      <4>2. q[i].id \in Node /\ c \in Node /\ c <= q[i].id
        BY <2>1, <4>1 DEF LineOf
      <4>3. x < c
        BY <1>24, <4>2
      <4> QED BY <4>2, <4>3, NodeOrder
    <3>4. LineOf(q, w, c, FALSE, r = j, TRUE, r = w)
      BY <2>1, <3>2
    <3>5. LineOf(Append(q, Elect(x)), w, x, x = w, r = j, TRUE, r = w)
      BY <1>3, <2>2, <3>3, <3>4, LineAppend
    <3>6. Voted(nd2, w, r, b) = (x = w)
      BY <1>15, <2>4, <3>0
    <3> QED BY <1>4, <1>5, <3>0, <3>1, <3>2, <3>5, <3>6 DEF Line
  <2>5. CASE b \notin R /\ b # r
    <3>1. nd2[r].mailbox[b] = q
      BY <1>2, <2>5 DEF Passed
    <3>2. ~({r, b} \subseteq M) \/ ~Voted(nd2, w, r, b)
      BY <1>12, <1>16, <2>5
    <3>3. c \in Node => x <= c
      BY <1>24
    <3>4. LineOf(q, w, x, Voted(nd2, w, r, b), r = j, {r, b} \subseteq M, r = w)
      BY <2>1, <2>2, <3>2, <3>3, LineLower
    <3> QED BY <1>4, <1>5, <2>5, <3>1, <3>4 DEF Line
  <2> QED BY <2>3, <2>4, <2>5
<1>20. LinesFrom(nd2, w, j, r)
  BY <1>19 DEF LinesFrom
<1>21. \A n \in Node \ {r} : nd2[n].election = nd[n].election
  BY DEF Passed
<1>22. Tree(nd2, w)
  <2>1. Tree(nd, w)
    BY <1>6 DEF Spreading
  <2>2. CASE x = w
    <3>1. s \in Supporters(nd, w) /\ r \notin Supporters(nd, w) /\ r \in Node \ {s, w}
      BY <1>2, <1>3, <2>2 DEF Supporters, Voted
    <3> QED BY <1>4, <1>21, <2>1, <2>2, <3>1, TreeGrows
  <2>3. CASE x # w
    <3>1. r \in Node \ {w}
      BY <1>3
    <3> QED BY <1>3, <1>4, <1>21, <2>1, <2>3, <3>1, TreeApart
  <2> QED BY <2>2, <2>3
<1>23. ~(nd2[w].election.caw = w /\ ErecComplete(nd2[w]))
  BY <1>3, <1>6 DEF Passed, ErecComplete, Spreading
<1> QED BY <1>14, <1>17, <1>20, <1>22, <1>23, SpreadPassed

\* Who has all votes for w has them from everybody, and nothing else is to come.
LEMMA AllVotes ==
    ASSUME NEW nd, NEW w \in Node, NEW j \in Node, Spreading(nd, w, j),
           NEW m \in Members(nd), nd[m].election.caw = w, ErecComplete(nd[m])
    PROVE  \A a \in Members(nd) \ {m} : Voted(nd, w, a, m) /\ nd[a].mailbox[m] = <<>>
<1> DEFINE M == Members(nd)
<1>1. M \in SUBSET Node /\ IsFiniteSet(M) /\ IsFiniteSet(M \ {m})
  <2>1. M \in SUBSET Node
    BY DEF Members
  <2> QED BY <2>1, FS_Subset, NodeAssumption
<1>2. Tally(nd, w, j, m)
  BY DEF Spreading
<1>3. nd[m].election.erec = Cardinality(Votes(nd, w, m)) /\ ~Pending(nd, j, m)
  BY <1>2, NodeAssumption DEF Tally
<1>4. nd[m].group = M \ {m}
  BY <1>1, <1>3 DEF Spreading, Common, Knows
<1>5. Votes(nd, w, m) \in SUBSET (M \ {m})
  BY DEF Votes
<1>6. Cardinality(M \ {m}) = Cardinality(Votes(nd, w, m))
  BY <1>3, <1>4 DEF ErecComplete
<1>7. Votes(nd, w, m) = M \ {m}
  BY <1>1, <1>5, <1>6, FS_Subset
<1> QED BY <1>7 DEF Votes

\* When everybody has voted for w, everybody has echoed.
LEMMA AllEchoed ==
    ASSUME NEW nd, NEW w \in Node, NEW j \in Node, Spreading(nd, w, j),
           \A m \in Members(nd) \ {w} : Voted(nd, w, m, w)
    PROVE  \A m \in Members(nd) \ {w} :
              nd[m].election.caw = w /\ ErecComplete(nd[m])
<1> DEFINE M == Members(nd)
           I == {m \in M \ {w} : ~ErecComplete(nd[m])}
<1>1. \A m \in M \ {w} : nd[m].election.caw = w
  BY DEF Voted
<1>2. I \in SUBSET Supporters(nd, w) /\ w \notin I
  BY <1>1 DEF Supporters, Members
<1>3. Tree(nd, w)
  BY DEF Spreading
<1>4. ASSUME I # {} PROVE FALSE
  <2>1. PICK n \in I : nd[n].election.father \notin I
    BY <1>2, <1>3, <1>4 DEF Tree
  <2> DEFINE f == nd[n].election.father
  <2>2. n \in M \ {w} /\ ~ErecComplete(nd[n]) /\ n \in Supporters(nd, w) \ {w}
    BY <1>2
  <2>3. f \in Supporters(nd, w) \ {n}
    BY <1>3, <2>2 DEF Tree
  <2>4. f \in M
    <3>1. f \in Node /\ nd[f].election.caw # None
      BY <2>3, NodeAssumption DEF Supporters
    <3> QED BY <3>1 DEF Spreading, Common, Bystanders, NoElection
  <2>5. CASE f = w
    BY <2>2, <2>5 DEF Voted
  <2>6. CASE f # w
    <3>1. ErecComplete(nd[f]) /\ nd[f].election.caw = w
      BY <1>1, <2>1, <2>4, <2>6
    <3>2. Voted(nd, w, n, f)
      BY <2>2, <2>3, <2>4, <3>1, AllVotes
    <3> QED BY <2>2, <3>2 DEF Voted
  <2> QED BY <2>5, <2>6
<1> QED BY <1>1, <1>4

\* As long as the wave spreads, something is on its way.
LEMMA SpreadUnsettled ==
    ASSUME NEW nd, NEW w \in Node, NEW j \in Node, Spreading(nd, w, j)
    PROVE  \E a, b \in Node : nd[a].mailbox[b] # <<>>
<1> SUFFICES ASSUME \A a, b \in Node : nd[a].mailbox[b] = <<>> PROVE FALSE
  OBVIOUS
<1> DEFINE M == Members(nd)
           C == {n \in M : ~ErecComplete(nd[n])}
<1>1. \A b \in Node : ~Pending(nd, j, b)
  BY DEF Pending
<1>2. w \in M /\ M \in SUBSET Node
  BY DEF Spreading, Lowest, Members
<1>3. \A n \in M : Tally(nd, w, j, n)
  BY DEF Spreading
<1>4. nd[w].election.caw = w
  BY <1>1, <1>2, <1>3 DEF Tally
<1>5. Tree(nd, w)
  BY DEF Spreading
<1>6. ASSUME NEW n \in M PROVE nd[n].election.caw = w
  <2>1. CASE n = w
    BY <1>4, <2>1
  <2>2. CASE n # w
    <3>1. nd[w].election.father = None /\ n # None
      BY <1>2, <1>5, NodeAssumption DEF Tree
    <3>2. w \in Votes(nd, w, n)
      BY <1>2, <1>4, <2>2, <3>1 DEF Votes, Voted
    <3> QED BY <1>3, <3>2 DEF Tally
  <2> QED BY <2>1, <2>2
<1>7. w \in C
  BY <1>2, <1>4 DEF Spreading
<1>8. C \in SUBSET Supporters(nd, w)
  BY <1>2, <1>6 DEF Supporters
<1>9. PICK n \in C : \A m \in C : nd[m].election.father # n
  BY <1>5, <1>7, <1>8 DEF Tree
<1>10. n \in M /\ ~ErecComplete(nd[n]) /\ n \in Node
  BY <1>2, <1>9
<1>11. nd[n].group = M \ {n}
  BY <1>1, <1>10 DEF Spreading, Common, Knows
<1>12. nd[n].election.erec = Cardinality(Votes(nd, w, n))
  BY <1>3, <1>6, <1>10 DEF Tally
<1>13. Votes(nd, w, n) = M \ {n}
  <2>1. \A m \in M \ {n} : m \in Votes(nd, w, n)
    BY <1>2, <1>6, <1>9, <1>10 DEF Votes, Voted
  <2> QED BY <2>1 DEF Votes
<1> QED BY <1>10, <1>11, <1>12, <1>13 DEF ErecComplete

\* The last vote reaches w: w is elected.
LEMMA SpreadDecided ==
    ASSUME NEW nd, NEW nd2, NEW w \in Node, NEW j \in Node, NEW s \in Node,
           Arrives(nd, w, j, s, w, w),
           Passed(nd, nd2, s, w, nd[w].group, Leader(w)), nd2[w].group = nd[w].group,
           nd[w].election \in Election,
           nd2[w].election = [nd[w].election EXCEPT !.erec = @ + 1],
           nd[w].election.caw = w,
           nd[w].election.erec + 1 = Cardinality(nd[w].group)
    PROVE  Elected(nd2, w, j)
<1> DEFINE e == nd[w].election
           e2 == nd2[w].election
           M == Members(nd)
<1>1. Regular(nd, w, s, w, w)
  BY ElectFacts
<1>2. /\ s # w /\ s \in M /\ w \in M /\ nd[w].group = M \ {w}
      /\ Tail(nd[s].mailbox[w]) = <<>> /\ Voted(nd, w, s, w)
  BY <1>1 DEF Regular
<1>3. e2.caw = w /\ e2.erec = e.erec + 1 /\ e2.lrec = e.lrec
  BY DEF Election
<1>4. /\ Spreading(nd, w, j) /\ nd[s].mailbox[w] # <<>>
      /\ \A n \in M : Tally(nd, w, j, n)
  BY DEF Arrives, Spreading
<1>5. M \in SUBSET Node /\ IsFiniteSet(M) /\ IsFiniteSet(M \ {w})
  <2>1. M \in SUBSET Node
    BY DEF Members
  <2> QED BY <2>1, FS_Subset, NodeAssumption
<1>6. NoJoinIn(nd[s].mailbox[w])
  <2>1. nd[s].mailbox[w] \in Seq(Message)
    BY <1>4 DEF Spreading, Common, Base, NodeState
  <2>2. Len(nd[s].mailbox[w]) = 1
    BY <1>2, <1>4, <2>1, TailFacts
  <2>3. nd[s].mailbox[w][1].command = "ELECT"
    BY DEF Arrives
  <2>4. \A i \in DOMAIN nd[s].mailbox[w] : i = 1
    BY <2>1, <2>2
  <2> QED BY <2>3, <2>4 DEF NoJoinIn
<1>7. /\ Common(nd2, j) /\ Members(nd2) = M
      /\ \A t \in Node : Pending(nd2, j, t) <=> Pending(nd, j, t)
  <2>1. Leader(w) \in Message /\ Leader(w).command # "JOIN"
    BY MessageTypes
  <2>2. Common(nd, j) /\ w \in Node \ {s}
    BY <1>2, <1>4 DEF Spreading
  <2> QED BY <1>2, <1>4, <1>6, <2>1, <2>2, CommonKept
\* All have voted.
<1>8. ASSUME NEW m \in M \ {w}
      PROVE  /\ Voted(nd, w, m, w)
             /\ m # s => nd[m].mailbox[w] = <<>>
  <2> DEFINE V == Votes(nd, w, w)
  <2>1. e.erec = Cardinality(V)
    BY VotesBelow
  <2>2. V \in SUBSET M /\ w \notin V /\ s \notin V
    BY <1>4 DEF Votes
  <2>3. IsFiniteSet(V)
    BY <1>5, <2>2, FS_Subset
  <2>4. Cardinality(V \cup {s}) = Cardinality(V) + 1
    BY <2>2, <2>3, FS_AddElement
  <2>5. V \cup {s} \in SUBSET (M \ {w}) /\ Cardinality(M \ {w}) = Cardinality(V \cup {s})
    BY <1>2, <2>1, <2>2, <2>4
  <2>6. V \cup {s} = M \ {w}
    BY <1>5, <2>5, FS_Subset
  <2> QED BY <1>2, <2>6 DEF Votes
<1>9. \A m \in M \ {w} : nd[m].election.caw = w /\ ErecComplete(nd[m])
  BY <1>4, <1>8, AllEchoed
<1>10. \A m \in M \ {w} : \A a \in M \ {m} : nd[a].mailbox[m] = <<>>
  BY <1>4, <1>9, AllVotes
<1>11. \A n \in M \ {w} : nd2[n].election = nd[n].election /\ nd2[n].group = nd[n].group
  BY <1>5 DEF Passed
<1>12. \A n \in M : /\ nd2[n].election.caw = w /\ nd2[n].election.lrec = 0
                    /\ nd2[n].election.erec = Cardinality(nd2[n].group)
  <2> TAKE n \in M
  <2>1. CASE n = w
    BY <1>2, <1>3, <1>4, <2>1 DEF Tally
  <2>2. CASE n # w
    BY <1>4, <1>9, <1>11, <2>2 DEF Tally, ErecComplete
  <2> QED BY <2>1, <2>2
<1>13. \A n \in M : Told(nd2, w, n) <=> n = w
  BY <1>12, NodeAssumption DEF Told
<1>14. ASSUME NEW a \in Node, NEW b \in Node
       PROVE  \/ nd2[a].mailbox[b] = <<>>
              \/ /\ nd2[a].mailbox[b] = <<Leader(w)>> /\ Told(nd2, w, a)
                 /\ a \in M /\ b \in M \ {a}
              \/ /\ nd2[a].mailbox[b] = <<Plain("JOIN")>>
                 /\ a = j /\ b \notin M
  <2>0. /\ nd2[a].mailbox[b] = IF a = s /\ b = w THEN Tail(nd[s].mailbox[w])
                               ELSE IF a = w /\ b \in M \ {w}
                               THEN Append(nd[w].mailbox[b], Leader(w))
                               ELSE nd[a].mailbox[b]
    BY <1>2 DEF Passed
  <2>1. CASE a = s /\ b = w
    BY <1>2, <2>0, <2>1
  <2>2. CASE a = w /\ b \in M \ {w}
    <3>1. nd[w].mailbox[b] = <<>>
      BY <1>2, <1>10, <2>2
    <3>2. nd2[a].mailbox[b] = Append(<<>>, Leader(w))
      BY <1>2, <2>0, <2>2, <3>1
    <3>3. Append(<<>>, Leader(w)) = <<Leader(w)>>
      OBVIOUS
    <3> QED BY <1>2, <1>13, <2>2, <3>2, <3>3
  <2>3. CASE ~(a = s /\ b = w) /\ ~(a = w /\ b \in M \ {w})
    <3>1. nd2[a].mailbox[b] = nd[a].mailbox[b]
      BY <2>0, <2>3
    <3>2. Line(nd, w, j, a, b) /\ nd[a].mailbox[b] \in Seq(Message)
      BY <1>4 DEF Spreading, Common, Base, NodeState
    <3>3. CASE a = b
      BY <3>1, <3>2, <3>3 DEF Line
    <3>4. CASE a \in M /\ b \in M /\ a # b /\ b # w
      BY <1>10, <3>1, <3>4
    <3>5. CASE a \in M /\ b \in M /\ a # b /\ b = w
      BY <1>8, <2>3, <3>1, <3>5
    <3>6. CASE a \notin M \/ b \notin M
      <4> DEFINE q == nd[a].mailbox[b]
      <4>1. \A i \in DOMAIN q : q[i] = Plain("JOIN") /\ i = 1 /\ a = j
        BY <3>2, <3>6 DEF Line, LineOf
      <4>2. j \in M
        BY <1>4 DEF Spreading, Common
      <4>3. CASE q = <<>>
        BY <3>1, <4>3
      <4>4. CASE q # <<>>
        <5>1. Len(q) \in Nat /\ Len(q) > 0 /\ DOMAIN q = 1 .. Len(q)
          BY <3>2, <4>4, TailFacts
        <5>0. 1 \in DOMAIN q /\ Len(q) \in DOMAIN q
          BY <5>1
        <5>2. Len(q) = 1 /\ q[1] = Plain("JOIN") /\ a = j
          BY <4>1, <5>0
        <5>3. q = <<Plain("JOIN")>>
          BY <3>2, <5>2
        <5> QED BY <3>1, <3>6, <4>2, <5>2, <5>3
      <4> QED BY <4>3, <4>4
    <3> QED BY <3>3, <3>4, <3>5, <3>6
  <2> QED BY <2>1, <2>2, <2>3
<1>15. ASSUME NEW n \in M
       PROVE  Heard(nd2, w, n) = {} /\ M \ {n} # {}
  <2>1. ASSUME NEW a \in M \ {n}, Told(nd2, w, a) PROVE nd2[a].mailbox[n] # <<>>
    <3>1. a = w /\ n # w
      BY <1>13, <2>1
    <3>2. nd2[w].mailbox[n] = Append(nd[w].mailbox[n], Leader(w))
      BY <1>2, <1>5, <3>1 DEF Passed
    <3>3. nd[w].mailbox[n] \in Seq(Message) /\ Leader(w) \in Message
      BY <1>4, <1>5, MessageTypes DEF Spreading, Common, Base, NodeState
    <3>4. Append(nd[w].mailbox[n], Leader(w)) # <<>>
      BY <3>3, AppendFacts
    <3> QED BY <3>1, <3>2, <3>4
  <2>2. Heard(nd2, w, n) = {}
    BY <1>7, <2>1 DEF Heard
  <2> QED BY <1>2, <2>2
<1>16. w \in M \ {j} /\ nd2[w].contest
  BY <1>4 DEF Spreading, Lowest, Passed
<1>17. \A n \in M : /\ nd2[n].election.lrec = Cardinality(Heard(nd2, w, n))
                    /\ Heard(nd2, w, n) # M \ {n}
  BY <1>12, <1>15, FS_EmptySet
<1> QED BY <1>7, <1>12, <1>14, <1>16, <1>17 DEF Elected

-----------------------------------------------------------------------------
\* w is elected.

\* LEADER is on its way from s to r.
Confirms(nd, w, s, r) ==
    /\ s \in Members(nd) /\ r \in Members(nd) \ {s}
    /\ nd[s].mailbox[r] = <<Leader(w)>> /\ Told(nd, w, s)
    /\ nd[r].election.caw = w /\ nd[r].group = Members(nd) \ {r}
    /\ nd[r].election.erec = Cardinality(nd[r].group)
    /\ nd[r].election.lrec = Cardinality(Heard(nd, w, r))

LEMMA ElectedFront ==
    ASSUME NEW nd, NEW w \in Node, NEW j \in Node, Elected(nd, w, j),
           NEW s \in Node, NEW r \in Node, nd[s].mailbox[r] # <<>>
    PROVE  \/ Confirms(nd, w, s, r)
           \/ /\ nd[s].mailbox[r] = <<Plain("JOIN")>>
              /\ s = j /\ r \notin Members(nd) /\ Pending(nd, j, r)
<1>1. \/ /\ nd[s].mailbox[r] = <<Leader(w)>> /\ Told(nd, w, s)
         /\ s \in Members(nd) /\ r \in Members(nd) \ {s}
      \/ /\ nd[s].mailbox[r] = <<Plain("JOIN")>>
         /\ s = j /\ r \notin Members(nd)
  BY DEF Elected
<1>2. CASE /\ nd[s].mailbox[r] = <<Leader(w)>> /\ Told(nd, w, s)
           /\ s \in Members(nd) /\ r \in Members(nd) \ {s}
  <2>1. s \notin Heard(nd, w, r)
    BY DEF Heard
  <2>2. /\ nd[r].election.caw = w
        /\ nd[r].election.erec = Cardinality(nd[r].group)
        /\ nd[r].election.lrec = Cardinality(Heard(nd, w, r))
    BY <1>2, <2>1 DEF Elected
  <2>3. ~Pending(nd, j, r)
    <3>1. nd[j].mailbox[r] \in {<<>>, <<Leader(w)>>}
      BY <1>2 DEF Elected
    <3>2. <<Leader(w)>>[1] = Leader(w)
      OBVIOUS
    <3> QED BY <3>1, <3>2, MessageTypes DEF Pending
  <2>4. nd[r].group = Members(nd) \ {r}
    BY <2>3 DEF Elected, Common, Knows
  <2> QED BY <1>2, <2>2, <2>4 DEF Confirms
<1>3. CASE /\ nd[s].mailbox[r] = <<Plain("JOIN")>>
           /\ s = j /\ r \notin Members(nd)
  <2>1. <<Plain("JOIN")>>[1] = Plain("JOIN")
    OBVIOUS
  <2> QED BY <1>3, <2>1, MessageTypes DEF Pending
<1> QED BY <1>1, <1>2, <1>3

\* LEADER is received.
LEMMA ElectedConfirmed ==
    ASSUME NEW nd, NEW nd2, NEW w \in Node, NEW j \in Node, Elected(nd, w, j),
           NEW s \in Node, NEW r \in Node \ {s}, Confirms(nd, w, s, r),
           nd[r].election \in Election, nd2[r].group = nd[r].group,
           NEW R, R = (IF r # w /\ nd[r].election.lrec = 0 THEN nd[r].group ELSE {}),
           Passed(nd, nd2, s, r, R, Leader(w)),
           NEW over, over = (nd[r].election.lrec + 1 = Cardinality(nd[r].group)),
           over => nd2[r].announced = w /\ nd2[r].election = NoElection,
           ~over => nd2[r].election = [nd[r].election EXCEPT !.lrec = @ + 1]
    PROVE  Elected(nd2, w, j)
<1> DEFINE e == nd[r].election
           M == Members(nd)
           H == Heard(nd, w, r)
           H2 == Heard(nd2, w, r)
<1>1. /\ s \in M /\ r \in M /\ s \in Node \ {r} /\ r \in Node \ {s}
      /\ nd[s].mailbox[r] = <<Leader(w)>> /\ Told(nd, w, s)
      /\ e.caw = w /\ nd[r].group = M \ {r} /\ e.lrec = Cardinality(H)
      /\ e.erec = Cardinality(nd[r].group)
  BY DEF Confirms
<1>2. M \in SUBSET Node /\ IsFiniteSet(M \ {r})
  <2>1. M \in SUBSET Node
    BY DEF Members
  <2> QED BY <2>1, FS_Subset, NodeAssumption
<1>3. /\ nd[s].mailbox[r] # <<>> /\ NoJoinIn(nd[s].mailbox[r])
      /\ Tail(nd[s].mailbox[r]) = <<>>
  <2>1. DOMAIN <<Leader(w)>> = {1} /\ <<Leader(w)>>[1] = Leader(w)
    OBVIOUS
  <2>2. Tail(<<Leader(w)>>) = <<>>
    OBVIOUS
  <2> QED BY <1>1, <2>1, <2>2, MessageTypes DEF NoJoinIn
<1>4. /\ Common(nd2, j) /\ Members(nd2) = M
      /\ \A t \in Node : Pending(nd2, j, t) <=> Pending(nd, j, t)
  <2>1. Leader(w) \in Message /\ Leader(w).command # "JOIN"
    BY MessageTypes
  <2>2. Common(nd, j)
    BY DEF Elected
  <2> QED BY <1>1, <1>3, <2>1, <2>2, CommonKept
<1>5. e.lrec \in Nat
  BY DEF Election
<1>6. \A a \in Node \ {r} : Told(nd2, w, a) <=> Told(nd, w, a)
  BY DEF Passed, Told
<1>7. Told(nd2, w, r)
  <2>1. CASE over
    BY <2>1 DEF Told, NoElection
  <2>2. CASE ~over
    <3>1. nd2[r].election.lrec = e.lrec + 1
      BY <2>2 DEF Election
    <3> QED BY <1>5, <3>1 DEF Told
  <2> QED BY <2>1, <2>2
<1>8. R # {} => ~Told(nd, w, r)
  BY <1>1, <1>5, NodeAssumption DEF Told
<1>9. R = {} => Told(nd, w, r)
  <2>1. nd[r].group # {}
    BY <1>1
  <2> QED BY <1>5, <2>1 DEF Told
<1>10. H2 = H \cup {s} /\ s \notin H
  <2>1. s \notin H
    BY <1>3 DEF Heard
  <2>2. ASSUME NEW a \in M \ {r}
        PROVE  (Told(nd2, w, a) /\ nd2[a].mailbox[r] = <<>>)
                  <=> (Told(nd, w, a) /\ nd[a].mailbox[r] = <<>>) \/ a = s
    <3>1. nd2[a].mailbox[r] = IF a = s THEN Tail(nd[s].mailbox[r]) ELSE nd[a].mailbox[r]
      BY <1>1, <1>2 DEF Passed
    <3>2. CASE a = s
      BY <1>1, <1>3, <1>6, <3>1, <3>2
    <3>3. CASE a # s
      BY <1>2, <1>6, <3>1, <3>3
    <3> QED BY <3>2, <3>3
  <2> QED BY <1>1, <1>4, <2>1, <2>2 DEF Heard
<1>11. /\ H \in SUBSET (M \ {r}) /\ H2 \in SUBSET (M \ {r})
       /\ IsFiniteSet(H) /\ IsFiniteSet(H2)
  <2>1. H \in SUBSET (M \ {r}) /\ H2 \in SUBSET (M \ {r})
    BY <1>4 DEF Heard
  <2> QED BY <1>2, <2>1, FS_Subset
<1>12. Cardinality(H2) = e.lrec + 1
  <2>1. Cardinality(H \cup {s}) = Cardinality(H) + 1
    BY <1>10, <1>11, FS_AddElement
  <2> QED BY <1>1, <1>10, <2>1
<1>13. over <=> H2 = M \ {r}
  <2>1. Cardinality(M \ {r}) = Cardinality(H2) => M \ {r} = H2
    BY <1>2, <1>11, FS_Subset
  <2> QED BY <1>1, <1>12, <2>1
<1>14. ASSUME NEW t \in M \ {r} PROVE Heard(nd2, w, t) = Heard(nd, w, t)
  <2>1. ASSUME NEW a \in M \ {t}
        PROVE  (Told(nd2, w, a) /\ nd2[a].mailbox[t] = <<>>)
                  <=> (Told(nd, w, a) /\ nd[a].mailbox[t] = <<>>)
    <3>0. nd2[a].mailbox[t] = IF a = r /\ t \in R THEN Append(nd[r].mailbox[t], Leader(w))
                              ELSE nd[a].mailbox[t]
      BY <1>1, <1>2 DEF Passed
    <3>1. CASE a # r
      BY <1>2, <1>6, <3>0, <3>1
    <3>2. CASE a = r /\ R = {}
      BY <1>7, <1>9, <3>0, <3>2
    <3>3. CASE a = r /\ R # {}
      <4>1. t \in R
        BY <1>1, <3>3
      <4>2. nd[r].mailbox[t] \in Seq(Message)
        BY <1>2 DEF Elected, Common, Base, NodeState
      <4>3. Append(nd[r].mailbox[t], Leader(w)) # <<>>
        BY <4>2, AppendFacts, MessageTypes
      <4> QED BY <1>8, <3>0, <3>3, <4>1, <4>3
    <3> QED BY <3>1, <3>2, <3>3
  <2> QED BY <1>4, <2>1 DEF Heard
<1>15. ASSUME NEW a \in Node, NEW b \in Node
       PROVE  \/ nd2[a].mailbox[b] = <<>>
              \/ /\ nd2[a].mailbox[b] = <<Leader(w)>> /\ Told(nd2, w, a)
                 /\ a \in M /\ b \in M \ {a}
              \/ /\ nd2[a].mailbox[b] = <<Plain("JOIN")>>
                 /\ a = j /\ b \notin M
  <2>0. nd2[a].mailbox[b] = IF a = s /\ b = r THEN Tail(nd[s].mailbox[r])
                            ELSE IF a = r /\ b \in R
                            THEN Append(nd[r].mailbox[b], Leader(w))
                            ELSE nd[a].mailbox[b]
    BY DEF Passed
  <2>1. CASE a = s /\ b = r
    BY <1>1, <1>3, <2>0, <2>1
  <2>4. \/ nd[a].mailbox[b] = <<>>
        \/ /\ nd[a].mailbox[b] = <<Leader(w)>> /\ Told(nd, w, a)
           /\ a \in M /\ b \in M \ {a}
        \/ /\ nd[a].mailbox[b] = <<Plain("JOIN")>>
           /\ a = j /\ b \notin M
    BY DEF Elected
  <2>2. CASE a = r /\ b \in R
    <3>1. ~Told(nd, w, r) /\ b \in M \ {r}
      BY <1>1, <1>8, <2>2
    <3>2. nd[r].mailbox[b] = <<>>
      BY <2>2, <2>4, <3>1
    <3>3. nd2[a].mailbox[b] = Append(<<>>, Leader(w))
      BY <1>1, <2>0, <2>2, <3>2
    <3>4. Append(<<>>, Leader(w)) = <<Leader(w)>>
      OBVIOUS
    <3> QED BY <1>1, <1>7, <2>2, <3>1, <3>3, <3>4
  <2>3. CASE ~(a = s /\ b = r) /\ ~(a = r /\ b \in R)
    <3>1. nd2[a].mailbox[b] = nd[a].mailbox[b]
      BY <2>0, <2>3
    <3>2. Told(nd, w, a) => Told(nd2, w, a)
      BY <1>6, <1>7
    <3> QED BY <2>4, <3>1, <3>2
  <2> QED BY <2>1, <2>2, <2>3
<1>16. w \in M \ {j} /\ nd2[w].contest
  BY DEF Elected, Passed
<1>17. ASSUME NEW t \in M
       PROVE  LET f == nd2[t].election
              IN  \/ /\ f = NoElection /\ nd2[t].announced = w
                     /\ Heard(nd2, w, t) = M \ {t}
                  \/ /\ f.caw = w /\ f.erec = Cardinality(nd2[t].group)
                     /\ f.lrec = Cardinality(Heard(nd2, w, t))
                     /\ Heard(nd2, w, t) # M \ {t}
  <2>1. CASE t = r /\ over
    BY <1>13, <2>1
  <2>2. CASE t = r /\ ~over
    <3>1. /\ nd2[r].election.caw = w /\ nd2[r].election.erec = e.erec
          /\ nd2[r].election.lrec = e.lrec + 1
      BY <1>1, <2>2 DEF Election
    <3> QED BY <1>1, <1>12, <1>13, <2>2, <3>1
  <2>3. CASE t # r
    <3>1. /\ nd2[t].election = nd[t].election /\ nd2[t].group = nd[t].group
          /\ nd2[t].announced = nd[t].announced
      BY <1>2, <2>3 DEF Passed
    <3>2. Heard(nd2, w, t) = Heard(nd, w, t)
      BY <1>14, <2>3
    <3> QED BY <3>1, <3>2 DEF Elected
  <2> QED BY <2>1, <2>2, <2>3
<1> QED BY <1>4, <1>15, <1>16, <1>17 DEF Elected

\* The JOIN reaches somebody who is not in the group.
LEMMA ElectedJoined ==
    ASSUME NEW nd, NEW nd2, NEW w \in Node, NEW j \in Node, Elected(nd, w, j),
           NEW r \in Node \ {j}, r \notin Members(nd),
           nd[j].mailbox[r] = <<Plain("JOIN")>>,
           Passed(nd, nd2, j, r, {}, Leader(w)),
           nd2[r].group = nd[r].group \cup {j},
           nd2[r].election = nd[r].election, nd2[r].announced = nd[r].announced
    PROVE  Elected(nd2, w, j)
<1> DEFINE M == Members(nd)
<1>0. M \in SUBSET Node
  BY DEF Members
<1>1. /\ DOMAIN <<Plain("JOIN")>> = {1} /\ <<Plain("JOIN")>>[1] = Plain("JOIN")
      /\ Tail(<<Plain("JOIN")>>) = <<>> /\ <<Plain("JOIN")>> # <<>>
  OBVIOUS
<1>2. /\ Pending(nd, j, r)
      /\ \A i \in DOMAIN nd[j].mailbox[r] : i > 1 => nd[j].mailbox[r][i].command # "JOIN"
  BY <1>1, MessageTypes DEF Pending
<1>3. Common(nd2, j) /\ Members(nd2) = M
  <2>1. Leader(w) \in Message /\ Leader(w).command # "JOIN"
    BY MessageTypes
  <2>2. Common(nd, j) /\ j \in Node \ {r}
    BY DEF Elected
  <2> QED BY <1>2, <2>1, <2>2, CommonJoined
<1>4. \A a \in Node : nd2[a].election = nd[a].election /\ nd2[a].announced = nd[a].announced
  BY DEF Passed
<1>5. \A a \in Node : Told(nd2, w, a) <=> Told(nd, w, a)
  BY <1>4 DEF Told
<1>6. \A a, b \in Node : nd2[a].mailbox[b] = IF a = j /\ b = r THEN <<>>
                                             ELSE nd[a].mailbox[b]
  BY <1>1 DEF Passed
<1>7. \A t \in M : nd2[t].group = nd[t].group
  BY <1>0 DEF Passed
<1>8. ASSUME NEW t \in M PROVE Heard(nd2, w, t) = Heard(nd, w, t)
  <2>1. ASSUME NEW a \in M
        PROVE  (Told(nd2, w, a) /\ nd2[a].mailbox[t] = <<>>)
                  <=> (Told(nd, w, a) /\ nd[a].mailbox[t] = <<>>)
    BY <1>0, <1>5, <1>6
  <2> QED BY <1>3, <2>1 DEF Heard
<1>9. \A t \in M :
         LET e == nd2[t].election
         IN  \/ /\ e = NoElection /\ nd2[t].announced = w
                /\ Heard(nd2, w, t) = M \ {t}
             \/ /\ e.caw = w /\ e.erec = Cardinality(nd2[t].group)
                /\ e.lrec = Cardinality(Heard(nd2, w, t))
                /\ Heard(nd2, w, t) # M \ {t}
  <2> TAKE t \in M
  <2>1. /\ nd2[t].election = nd[t].election /\ nd2[t].group = nd[t].group
        /\ nd2[t].announced = nd[t].announced /\ Heard(nd2, w, t) = Heard(nd, w, t)
    BY <1>0, <1>4, <1>7, <1>8
  <2> QED BY <2>1 DEF Elected
<1>10. w \in M \ {j} /\ nd2[w].contest
  BY DEF Elected, Passed
<1>11. ASSUME NEW a \in Node, NEW b \in Node
       PROVE  \/ nd2[a].mailbox[b] = <<>>
              \/ /\ nd2[a].mailbox[b] = <<Leader(w)>> /\ Told(nd2, w, a)
                 /\ a \in M /\ b \in M \ {a}
              \/ /\ nd2[a].mailbox[b] = <<Plain("JOIN")>>
                 /\ a = j /\ b \notin M
  <2>1. \/ nd[a].mailbox[b] = <<>>
        \/ /\ nd[a].mailbox[b] = <<Leader(w)>> /\ Told(nd, w, a)
           /\ a \in M /\ b \in M \ {a}
        \/ /\ nd[a].mailbox[b] = <<Plain("JOIN")>>
           /\ a = j /\ b \notin M
    BY DEF Elected
  <2>2. nd2[a].mailbox[b] = <<>> \/ nd2[a].mailbox[b] = nd[a].mailbox[b]
    BY <1>6
  <2> QED BY <1>5, <2>1, <2>2
<1> QED BY <1>3, <1>9, <1>10, <1>11 DEF Elected

\* When all has been received, the election is over.
LEMMA ElectedSettles ==
    ASSUME NEW nd, NEW w \in Node, NEW j \in Node, Elected(nd, w, j),
           \A a, b \in Node : nd[a].mailbox[b] = <<>>
    PROVE  Idle(nd)
<1> DEFINE M == Members(nd)
<1>0. M \in SUBSET Node /\ w \in M
  BY DEF Members, Elected
<1>1. \A b \in Node : ~Pending(nd, j, b)
  BY DEF Pending
<1>2. \A n \in Node : nd[n].group = M \ {n}
  BY <1>1 DEF Elected, Common, Knows
<1>3. \A n \in M : Heard(nd, w, n) = {s \in M \ {n} : Told(nd, w, s)}
  BY <1>0 DEF Heard
<1>4. ASSUME NEW n \in M PROVE Heard(nd, w, n) = M \ {n}
  <2>1. ASSUME NEW a \in M, ~Told(nd, w, a) PROVE FALSE
    <3>1. a # w /\ nd[a].election.caw # None /\ ~(nd[a].election.lrec > 0)
      BY <2>1 DEF Told
    <3>2. nd[a].election # NoElection
      BY <3>1 DEF NoElection
    <3>3. nd[a].election.lrec = Cardinality(Heard(nd, w, a))
      BY <3>2 DEF Elected
    <3>4. w \in Heard(nd, w, a)
      BY <1>0, <1>3, <3>1 DEF Told
    <3>5. IsFiniteSet(Heard(nd, w, a))
      <4>1. Heard(nd, w, a) \in SUBSET Node
        BY <1>0, <1>3
      <4> QED BY <4>1, FS_Subset, NodeAssumption
    <3>6. Cardinality(Heard(nd, w, a)) \in Nat /\ Cardinality(Heard(nd, w, a)) # 0
      BY <3>4, <3>5, FS_CardinalityType, FS_EmptySet
    <3> QED BY <3>1, <3>3, <3>6
  <2> QED BY <1>3, <2>1
<1>5. \A n \in M : nd[n].election = NoElection /\ nd[n].announced = w
  BY <1>4 DEF Elected
<1>6. \A n \in Node : nd[n].election = NoElection
  BY <1>5 DEF Elected, Common, Bystanders
<1>7. /\ \A n \in M : nd[n].announced = w
      /\ nd[w].contest /\ w # None /\ w \in Members(nd) \cup {None}
  BY <1>0, <1>5, NodeAssumption DEF Elected
<1>8. \E k \in Members(nd) \cup {None} :
         /\ \A n \in Members(nd) : nd[n].announced = k
         /\ k # None => nd[k].contest
         /\ k = None => Cardinality(Members(nd) \cap Contender) <= 1
  BY <1>7
<1> QED BY <1>2, <1>6, <1>8 DEF Idle, Elected, Common

-----------------------------------------------------------------------------
\* Nobody challenges j.

LEMMA UnopposedJoined ==
    ASSUME NEW nd, NEW nd2, NEW j \in Node, Unopposed(nd, j),
           NEW r \in Node \ {j}, nd[j].mailbox[r] = <<Plain("JOIN")>>,
           NEW msg \in Message, msg.command # "JOIN",
           Passed(nd, nd2, j, r, {}, msg),
           nd2[r].group = nd[r].group \cup {j},
           nd2[r].election = nd[r].election, nd2[r].announced = nd[r].announced
    PROVE  Unopposed(nd2, j)
<1>1. /\ DOMAIN <<Plain("JOIN")>> = {1} /\ <<Plain("JOIN")>>[1] = Plain("JOIN")
      /\ Tail(<<Plain("JOIN")>>) = <<>> /\ <<Plain("JOIN")>> # <<>>
  OBVIOUS
<1>2. /\ Pending(nd, j, r)
      /\ \A i \in DOMAIN nd[j].mailbox[r] : i > 1 => nd[j].mailbox[r][i].command # "JOIN"
  BY <1>1, MessageTypes DEF Pending
<1>3. Common(nd2, j) /\ Members(nd2) = Members(nd)
  <2>1. Common(nd, j) /\ j \in Node \ {r}
    BY DEF Unopposed
  <2> QED BY <1>2, <2>1, CommonJoined
<1>4. \A a \in Node : nd2[a].election = NoElection /\ nd2[a].announced = None
  BY DEF Passed, Unopposed
<1>5. \A a, b \in Node : nd2[a].mailbox[b] = IF a = j /\ b = r THEN <<>>
                                             ELSE nd[a].mailbox[b]
  BY <1>1 DEF Passed
<1>6. \A n \in Members(nd2) \ {j} : ~nd2[n].contest
  BY <1>3 DEF Unopposed, Passed, Members
<1>7. \A n, b \in Node : \/ nd2[n].mailbox[b] = <<>>
                         \/ n = j /\ n # b /\ nd2[n].mailbox[b] = <<Plain("JOIN")>>
  BY <1>5 DEF Unopposed
<1> QED BY <1>3, <1>4, <1>6, <1>7 DEF Unopposed

LEMMA UnopposedSettles ==
    ASSUME NEW nd, NEW j \in Node, Unopposed(nd, j),
           \A a, b \in Node : nd[a].mailbox[b] = <<>>
    PROVE  Idle(nd)
<1> DEFINE M == Members(nd)
<1>0. M \in SUBSET Node
  BY DEF Members
<1>1. \A b \in Node : ~Pending(nd, j, b)
  BY DEF Pending
<1>2. \A n \in Node : nd[n].group = M \ {n}
  BY <1>1 DEF Unopposed, Common, Knows
<1>3. M \cap Contender \in SUBSET {j}
  <2>1. \A n \in M \cap Contender : nd[n].contest
    BY <1>0 DEF Unopposed, Common, Base
  <2> QED BY <2>1 DEF Unopposed
<1>4. Cardinality(M \cap Contender) <= 1
  <2>1. IsFiniteSet({j}) /\ Cardinality({j}) = 1
    BY FS_Singleton
  <2>2. Cardinality(M \cap Contender) <= Cardinality({j})
    BY <1>3, <2>1, FS_Subset
  <2> QED BY <2>1, <2>2
<1>5. \A n \in Node : nd[n].election = NoElection /\ nd[n].announced = None
  BY DEF Unopposed
<1>6. \E k \in Members(nd) \cup {None} :
         /\ \A n \in Members(nd) : nd[n].announced = k
         /\ k # None => nd[k].contest
         /\ k = None => Cardinality(Members(nd) \cap Contender) <= 1
  <2>1. None \in Members(nd) \cup {None}
    OBVIOUS
  <2>2. \A n \in Members(nd) : nd[n].announced = None
    BY <1>0, <1>5
  <2> QED BY <1>4, <2>1, <2>2
<1> QED BY <1>2, <1>5, <1>6 DEF Idle, Unopposed, Common

-----------------------------------------------------------------------------
\* What starts an election

\* n has joined.
Starts(nd, nd2, n) ==
    /\ nd2 \in [Node -> NodeState]
    /\ \A a \in Node :
          /\ nd2[a].uuid = nd[a].uuid /\ nd2[a].alive = nd[a].alive
          /\ nd2[a].peers = nd[a].peers /\ nd2[a].ready = nd[a].ready
          /\ nd2[a].contest = nd[a].contest /\ nd2[a].group = nd[a].group
          /\ nd2[a].election = nd[a].election /\ nd2[a].announced = nd[a].announced
          /\ nd2[a].member <=> nd[a].member \/ a = n
    /\ \A a, b \in Node :
          nd2[a].mailbox[b] = IF a = n /\ b # n THEN <<Plain("JOIN")>> ELSE <<>>

LEMMA StartsCommon ==
    ASSUME NEW nd, NEW nd2, NEW n \in Node, Idle(nd), n \notin Members(nd),
           Starts(nd, nd2, n)
    PROVE  /\ Members(nd2) = Members(nd) \cup {n} /\ Common(nd2, n)
           /\ \A b \in Node : Pending(nd2, n, b) <=> b # n
           /\ \A a \in Node : nd2[a].election = NoElection
<1>1. Members(nd2) = Members(nd) \cup {n}
  BY DEF Starts, Members
<1>2. Base(nd2)
  <2>1. Base(nd)
    BY DEF Idle
  <2> QED BY <2>1 DEF Base, Starts
<1>3. <<Plain("JOIN")>> # <<>> /\ <<Plain("JOIN")>>[1] = Plain("JOIN")
  OBVIOUS
<1>4. ASSUME NEW b \in Node PROVE Pending(nd2, n, b) <=> b # n
  <2>1. nd2[n].mailbox[b] = IF b # n THEN <<Plain("JOIN")>> ELSE <<>>
    BY DEF Starts
  <2> QED BY <1>3, <2>1, MessageTypes DEF Pending
<1>5. \A a \in Node : nd2[a].election = NoElection /\ nd2[a].group = Members(nd) \ {a}
  BY DEF Starts, Idle
<1>6. Knows(nd2, n)
  <2>1. ASSUME NEW b \in Node
        PROVE  nd2[b].group = IF Pending(nd2, n, b) THEN Members(nd2) \ {n, b}
                                                    ELSE Members(nd2) \ {b}
    <3>1. CASE b = n
      BY <1>1, <1>4, <1>5, <3>1
    <3>2. CASE b # n
      BY <1>1, <1>4, <1>5, <3>2
    <3> QED BY <3>1, <3>2
  <2> QED BY <2>1 DEF Knows
<1>7. Bystanders(nd2)
  <2>1. \A a \in Node \ Members(nd) : nd[a].announced = None
    BY DEF Idle, Bystanders
  <2> QED BY <1>1, <1>5, <2>1 DEF Bystanders, Starts
<1> QED BY <1>1, <1>2, <1>4, <1>5, <1>6, <1>7 DEF Common

LEMMA StartsUnopposed ==
    ASSUME NEW nd, NEW nd2, NEW n \in Node, Idle(nd), n \notin Members(nd),
           Starts(nd, nd2, n), \A a \in Members(nd) : ~nd[a].contest
    PROVE  Unopposed(nd2, n)
<1>1. /\ Members(nd2) = Members(nd) \cup {n} /\ Common(nd2, n)
      /\ \A b \in Node : Pending(nd2, n, b) <=> b # n
      /\ \A a \in Node : nd2[a].election = NoElection
  BY StartsCommon
<1>2. \A a \in Members(nd2) \ {n} : ~nd2[a].contest
  BY <1>1 DEF Starts, Members
<1>3. ASSUME NEW a \in Node PROVE nd2[a].announced = None
  <2>1. PICK k \in Members(nd) \cup {None} :
           (\A m \in Members(nd) : nd[m].announced = k) /\ (k # None => nd[k].contest)
    BY DEF Idle
  <2>2. k = None
    BY <2>1
  <2>3. nd[a].announced = None
    BY <2>1, <2>2 DEF Idle, Bystanders
  <2> QED BY <2>3 DEF Starts
<1>4. \A a, b \in Node : \/ nd2[a].mailbox[b] = <<>>
                         \/ a = n /\ a # b /\ nd2[a].mailbox[b] = <<Plain("JOIN")>>
  BY DEF Starts
<1> QED BY <1>1, <1>2, <1>3, <1>4 DEF Unopposed

LEMMA StartsSpreading ==
    ASSUME NEW nd, NEW nd2, NEW n \in Node, Idle(nd), n \notin Members(nd),
           Starts(nd, nd2, n), NEW w \in Members(nd), nd[w].contest,
           \A a \in Members(nd) : nd[a].contest => w <= a
    PROVE  Spreading(nd2, w, n)
<1> DEFINE M == Members(nd2)
<1>1. /\ Members(nd2) = Members(nd) \cup {n} /\ Common(nd2, n)
      /\ \A b \in Node : Pending(nd2, n, b) <=> b # n
      /\ \A a \in Node : nd2[a].election = NoElection
  BY StartsCommon
<1>2. w \in Node /\ w # n /\ M \in SUBSET Node
  BY DEF Members
<1>3. Lowest(nd2, w, n)
  BY <1>1, <1>2 DEF Lowest, Starts, Members
<1>4. /\ NoElection.caw = None /\ NoElection.father = None /\ NoElection.lrec = 0
      /\ w # None
  BY <1>2, NodeAssumption DEF NoElection
<1>5. \A a, b \in Node : ~Voted(nd2, w, a, b)
  BY <1>1, <1>4 DEF Voted
<1>6. ASSUME NEW a \in Node, NEW b \in Node PROVE Line(nd2, w, n, a, b)
  <2>1. CASE a = n /\ b # n
    <3> DEFINE q == nd2[a].mailbox[b]
    <3>1. q = <<Plain("JOIN")>>
      BY <2>1 DEF Starts
    <3>2. DOMAIN q = {1} /\ q[1] = Plain("JOIN") /\ Len(q) = 1
      BY <3>1
    <3>3. \A k \in Node : q[1] # Elect(k)
      BY <3>2, MessageTypes
    <3>4. ~Voted(nd2, w, a, b)
      BY <1>5
    <3>5. \A i, k \in DOMAIN q : ~(i < k)
      BY <3>2
    <3> QED BY <1>2, <2>1, <3>2, <3>3, <3>4, <3>5 DEF Line, LineOf
  <2>2. CASE ~(a = n /\ b # n)
    <3>1. nd2[a].mailbox[b] = <<>>
      BY <2>2 DEF Starts
    <3> QED BY <3>1, EmptyLine DEF Line
  <2> QED BY <2>1, <2>2
<1>7. ASSUME NEW r \in M PROVE Tally(nd2, w, n, r)
  <2>1. Votes(nd2, w, r) = {}
    BY <1>2, <1>5 DEF Votes
  <2>2. r = w => Pending(nd2, n, r)
    BY <1>1, <1>2
  <2>3. nd2[r].election = NoElection
    BY <1>1, <1>2
  <2> QED BY <1>4, <2>1, <2>2, <2>3 DEF Tally
<1>8. Supporters(nd2, w) = {}
  BY <1>1, <1>4 DEF Supporters
<1>9. Tree(nd2, w)
  BY <1>1, <1>2, <1>4, <1>8 DEF Tree
<1>10. nd2[w].election.caw # w
  BY <1>1, <1>2, <1>4
<1> QED BY <1>1, <1>3, <1>6, <1>7, <1>9, <1>10 DEF Spreading

LEMMA IdleContests ==
    ASSUME NEW nd, NEW n \in Node, Idle(nd)
    PROVE  Idle([nd EXCEPT ![n] = [nd[n] EXCEPT !.contest = TRUE]])
<1> DEFINE c == [nd[n] EXCEPT !.contest = TRUE]
           nd2 == [nd EXCEPT ![n] = c]
<1>1. nd \in [Node -> NodeState] /\ nd[n] \in NodeState
  BY DEF Idle, Base
<1>2. /\ c \in NodeState /\ c.contest /\ c.uuid = nd[n].uuid /\ c.alive = nd[n].alive
      /\ c.peers = nd[n].peers /\ c.ready = nd[n].ready /\ c.member = nd[n].member
      /\ c.group = nd[n].group /\ c.election = nd[n].election
      /\ c.announced = nd[n].announced /\ c.mailbox = nd[n].mailbox
  BY <1>1 DEF NodeState
<1> HIDE DEF c
<1>3. /\ nd2 \in [Node -> NodeState]
      /\ \A a \in Node :
            /\ nd2[a].uuid = nd[a].uuid /\ nd2[a].alive = nd[a].alive
            /\ nd2[a].peers = nd[a].peers /\ nd2[a].ready = nd[a].ready
            /\ nd2[a].member = nd[a].member /\ nd2[a].group = nd[a].group
            /\ nd2[a].election = nd[a].election
            /\ nd2[a].announced = nd[a].announced
            /\ nd2[a].mailbox = nd[a].mailbox
            /\ nd[a].contest => nd2[a].contest
  BY <1>1, <1>2
<1> HIDE DEF nd2
<1>4. Members(nd2) = Members(nd)
  BY <1>3 DEF Members
<1>5. Base(nd2)
  BY <1>3 DEF Idle, Base
<1>6. Bystanders(nd2)
  BY <1>3, <1>4 DEF Idle, Bystanders
<1>7. \A a \in Node : /\ nd2[a].group = Members(nd2) \ {a}
                      /\ nd2[a].election = NoElection
                      /\ \A r \in Node : nd2[a].mailbox[r] = <<>>
  BY <1>3, <1>4 DEF Idle
<1>8. \E k \in Members(nd2) \cup {None} :
         /\ \A a \in Members(nd2) : nd2[a].announced = k
         /\ k # None => nd2[k].contest
         /\ k = None => Cardinality(Members(nd2) \cap Contender) <= 1
  <2>1. PICK k \in Members(nd) \cup {None} :
           /\ \A a \in Members(nd) : nd[a].announced = k
           /\ k # None => nd[k].contest
           /\ k = None => Cardinality(Members(nd) \cap Contender) <= 1
    BY DEF Idle
  <2>2. \A a \in Members(nd) : a \in Node
    BY DEF Members
  <2> QED BY <1>3, <1>4, <2>1, <2>2
<1>9. Idle(nd2)
  BY <1>5, <1>6, <1>7, <1>8 DEF Idle
<1> QED BY <1>9 DEF nd2, c

-----------------------------------------------------------------------------
\* The steps

\* Nobody sends to itself, and there is neither HELLO nor LEAVE.
LEMMA PhaseFacts ==
    ASSUME NEW nd, Phase(nd), NEW s \in Node, NEW r \in Node
    PROVE  /\ Base(nd)
           /\ nd[s].mailbox[r] # <<>> =>
                 s # r /\ nd[s].mailbox[r][1].command \in {"JOIN", "ELECT", "LEADER"}
<1>1. CASE Idle(nd)
  BY <1>1 DEF Idle
<1>2. ASSUME NEW j \in Node, Unopposed(nd, j)
      PROVE  /\ Base(nd)
             /\ nd[s].mailbox[r] # <<>> =>
                   s # r /\ nd[s].mailbox[r][1].command \in {"JOIN", "ELECT", "LEADER"}
  <2>1. Base(nd)
    BY <1>2 DEF Unopposed, Common
  <2>2. ASSUME nd[s].mailbox[r] # <<>>
        PROVE  s # r /\ nd[s].mailbox[r] = <<Plain("JOIN")>>
    BY <1>2, <2>2 DEF Unopposed
  <2>3. <<Plain("JOIN")>>[1] = Plain("JOIN")
    OBVIOUS
  <2> QED BY <2>1, <2>2, <2>3, MessageTypes
<1>3. ASSUME NEW j \in Node, NEW w \in Node, Spreading(nd, w, j)
      PROVE  /\ Base(nd)
             /\ nd[s].mailbox[r] # <<>> =>
                   s # r /\ nd[s].mailbox[r][1].command \in {"JOIN", "ELECT", "LEADER"}
  <2>1. Base(nd) /\ Line(nd, w, j, s, r)
    BY <1>3 DEF Spreading, Common
  <2>2. nd[s].mailbox[r] \in Seq(Message)
    BY <2>1 DEF Base, NodeState
  <2>3. ASSUME nd[s].mailbox[r] # <<>>
        PROVE  nd[s].mailbox[r][1].command \in {"JOIN", "ELECT"}
    <3>1. 1 \in DOMAIN nd[s].mailbox[r]
      BY <2>2, <2>3
    <3>2. \/ nd[s].mailbox[r][1] = Plain("JOIN")
          \/ IsElect(nd[s].mailbox[r][1])
      BY <2>1, <3>1 DEF Line, LineOf
    <3> QED BY <3>2, MessageTypes DEF IsElect
  <2> QED BY <2>1, <2>3 DEF Line
<1>4. ASSUME NEW j \in Node, NEW w \in Node, Elected(nd, w, j)
      PROVE  /\ Base(nd)
             /\ nd[s].mailbox[r] # <<>> =>
                   s # r /\ nd[s].mailbox[r][1].command \in {"JOIN", "ELECT", "LEADER"}
  <2>1. Base(nd) /\ j \in Members(nd)
    BY <1>4 DEF Elected, Common
  <2>2. ASSUME nd[s].mailbox[r] # <<>>
        PROVE  s # r /\ nd[s].mailbox[r] \in {<<Leader(w)>>, <<Plain("JOIN")>>}
    BY <1>4, <2>1, <2>2 DEF Elected
  <2>3. <<Plain("JOIN")>>[1] = Plain("JOIN") /\ <<Leader(w)>>[1] = Leader(w)
    OBVIOUS
  <2> QED BY <2>1, <2>2, <2>3, MessageTypes
<1> QED BY <1>1, <1>2, <1>3, <1>4 DEF Phase

LEMMA PassedNothing ==
    ASSUME NEW nd, NEW nd2, NEW s, NEW r, NEW msg, NEW msg2,
           Passed(nd, nd2, s, r, {}, msg)
    PROVE  Passed(nd, nd2, s, r, {}, msg2)
BY DEF Passed

\* When nothing is on its way, no election is held.
LEMMA SettledIdle ==
    ASSUME Phase(node), Settled PROVE Idle(node)
<1>1. \A n \in Node : node[n].alive
  BY PhaseFacts DEF Base
<1>2. \A a, b \in Node : node[a].mailbox[b] = <<>>
  BY <1>1 DEF Settled
<1>3. ASSUME NEW j \in Node, Unopposed(node, j) PROVE Idle(node)
  BY <1>2, <1>3, UnopposedSettles
<1>4. ASSUME NEW j \in Node, NEW w \in Node, Spreading(node, w, j) PROVE FALSE
  BY <1>2, <1>4, SpreadUnsettled
<1>5. ASSUME NEW j \in Node, NEW w \in Node, Elected(node, w, j) PROVE Idle(node)
  BY <1>2, <1>5, ElectedSettles
<1> QED BY <1>3, <1>4, <1>5 DEF Phase

LEMMA ContestKeeps ==
    ASSUME Phase(node), Patient, NEW n \in Node, SetContest(n) PROVE Phase(node')
<1>1. Idle(node)
  BY SettledIdle DEF SetContest, Spend
<1>2. node' = [node EXCEPT ![n] = [node[n] EXCEPT !.contest = TRUE]]
  BY DEF SetContest, Become
<1>3. Idle([node EXCEPT ![n] = [node[n] EXCEPT !.contest = TRUE]])
  BY <1>1, IdleContests
<1> QED BY <1>2, <1>3 DEF Phase

LEMMA JoinStarts ==
    ASSUME Idle(node), node' \in [Node -> NodeState], NEW n \in Node, Join(n)
    PROVE  n \notin Members(node) /\ Starts(node, node', n)
<1> DEFINE self == [node[n] EXCEPT !.member = TRUE]
           new == Send(self, node[n].peers, Plain("JOIN"))
<1>1. /\ node \in [Node -> NodeState] /\ node[n] \in NodeState
      /\ node[n].peers = Node \ {n} /\ ~node[n].member
      /\ \A a, b \in Node : node[a].mailbox[b] = <<>>
  BY DEF Idle, Base, Join
<1>2. /\ self \in NodeState /\ self.member /\ self.uuid = node[n].uuid
      /\ self.alive = node[n].alive /\ self.peers = node[n].peers
      /\ self.ready = node[n].ready /\ self.contest = node[n].contest
      /\ self.group = node[n].group /\ self.election = node[n].election
      /\ self.announced = node[n].announced /\ self.mailbox = node[n].mailbox
  BY <1>1 DEF NodeState
<1>3. node' = [node EXCEPT ![n] = new]
  BY DEF Join, Become
<1> HIDE DEF self
<1>4. node[n].peers \in SUBSET self.peers
  BY <1>2
<1>5. /\ Sends(self, new, node[n].peers, Plain("JOIN"))
      /\ new.election = self.election /\ new.group = self.group
      /\ new.announced = self.announced
  BY <1>2, <1>4, SendSends
<1> HIDE DEF new
<1>6. node'[n] = new /\ \A a \in Node \ {n} : node'[a] = node[a]
  BY <1>1, <1>3
<1>7. ASSUME NEW a \in Node
      PROVE  /\ node'[a].uuid = node[a].uuid /\ node'[a].alive = node[a].alive
             /\ node'[a].peers = node[a].peers /\ node'[a].ready = node[a].ready
             /\ node'[a].contest = node[a].contest /\ node'[a].group = node[a].group
             /\ node'[a].election = node[a].election
             /\ node'[a].announced = node[a].announced
             /\ node'[a].member <=> node[a].member \/ a = n
  <2>1. CASE a = n
    BY <1>2, <1>5, <1>6, <2>1 DEF Sends
  <2>2. CASE a # n
    BY <1>6, <2>2
  <2> QED BY <2>1, <2>2
<1>8. ASSUME NEW a \in Node, NEW b \in Node
      PROVE  node'[a].mailbox[b] = IF a = n /\ b # n THEN <<Plain("JOIN")>> ELSE <<>>
  <2>1. CASE a = n
    <3>1. new.mailbox[b] = IF b \in Node \ {n} THEN Append(self.mailbox[b], Plain("JOIN"))
                           ELSE self.mailbox[b]
      BY <1>1, <1>5 DEF Sends
    <3>2. self.mailbox[b] = <<>>
      BY <1>1, <1>2
    <3>3. Append(<<>>, Plain("JOIN")) = <<Plain("JOIN")>>
      OBVIOUS
    <3> QED BY <1>6, <2>1, <3>1, <3>2, <3>3
  <2>2. CASE a # n
    BY <1>1, <1>6, <2>2
  <2> QED BY <2>1, <2>2
<1> QED BY <1>1, <1>7, <1>8 DEF Starts, Members

LEMMA LeastNat ==
    ASSUME NEW T \in SUBSET Nat, T # {}
    PROVE  \E m \in T : \A k \in T : m <= k
<1> DEFINE R == OpToRel(<, Nat)
<1>1. IsWellFoundedOn(R, Nat)
  BY NatLessThanWellFounded
<1>2. \A x, y \in Nat : <<y, x>> \in R <=> y < x
  BY DEF OpToRel
<1> HIDE DEF R
<1>3. \E x \in T : \A y \in T : ~(<<y, x>> \in R)
  BY <1>1, WFMin
<1>4. PICK x \in T : \A y \in T : ~(<<y, x>> \in R)
  BY <1>3
<1>5. \A y \in T : ~(y < x)
  BY <1>2, <1>4
<1>6. \A a, b \in Nat : ~(a < b) => b <= a
  OBVIOUS
<1> QED BY <1>4, <1>5, <1>6

LEMMA JoinKeeps ==
    ASSUME Phase(node), Patient, node' \in [Node -> NodeState],
           NEW n \in Node, Join(n)
    PROVE  Phase(node')
<1>1. Idle(node)
  BY SettledIdle DEF Join, Spend
<1>2. n \notin Members(node) /\ Starts(node, node', n)
  BY <1>1, JoinStarts
<1>3. CASE \A a \in Members(node) : ~node[a].contest
  <2>1. Unopposed(node', n)
    BY <1>1, <1>2, <1>3, StartsUnopposed
  <2> QED BY <2>1 DEF Phase
<1>4. CASE \E a \in Members(node) : node[a].contest
  <2> DEFINE C == {a \in Members(node) : node[a].contest}
  <2>1. C \in SUBSET Nat /\ C # {}
    BY <1>4, NodeAssumption DEF Members
  <2>2. PICK w \in C : \A a \in C : w <= a
    BY <2>1, LeastNat
  <2>3. /\ w \in Members(node) /\ node[w].contest /\ w \in Node
        /\ \A a \in Members(node) : node[a].contest => w <= a
    BY <2>2 DEF Members
  <2>4. Spreading(node', w, n)
    BY <1>1, <1>2, <2>3, StartsSpreading
  <2> QED BY <2>3, <2>4 DEF Phase
<1> QED BY <1>3, <1>4

\* What s has sent first, as RecvJoin, RecvElect and RecvLeader read it.
LEMMA FrontFacts ==
    ASSUME Phase(node), NEW s \in Node, NEW r \in Node,
           node[s].mailbox[r] # <<>>
    PROVE  /\ s # r /\ Front(s, r) = node[s].mailbox[r][1]
           /\ Front(s, r).command \in {"JOIN", "ELECT", "LEADER"}
           /\ node[r] \in NodeState /\ node[r].election \in Election
           /\ node[s].mailbox[r] \in Seq(Message)
<1>1. /\ Base(node) /\ s # r
      /\ node[s].mailbox[r][1].command \in {"JOIN", "ELECT", "LEADER"}
  BY PhaseFacts
<1>2. node[r] \in NodeState /\ node[s] \in NodeState
  BY <1>1 DEF Base
<1>3. node[s].mailbox[r] \in Seq(Message) /\ node[r].election \in Election
  BY <1>2 DEF NodeState
<1>4. Front(s, r) = node[s].mailbox[r][1]
  BY <1>3 DEF Front
<1> QED BY <1>1, <1>2, <1>3, <1>4

LEMMA GroupApart ==
    ASSUME NEW nd, NEW j \in Node, Common(nd, j), NEW r \in Node
    PROVE  nd[r].group \subseteq Node \ {r}
BY DEF Common, Knows, Members

LEMMA IdleEmpty ==
    ASSUME NEW nd, Idle(nd), NEW s \in Node, NEW r \in Node
    PROVE  nd[s].mailbox[r] = <<>>
BY DEF Idle

LEMMA JoinUnopposed ==
    ASSUME NEW j \in Node, Unopposed(node, j), node' \in [Node -> NodeState],
           NEW s \in Node, NEW r \in Node \ {s}, RecvJoin(s, r)
    PROVE  Unopposed(node', j)
<1>1. Common(node, j) /\ Base(node) /\ node[r].group \subseteq Node \ {r}
  <2>1. Common(node, j)
    BY DEF Unopposed
  <2> QED BY <2>1, GroupApart DEF Common
<1> DEFINE challenges == node[r].member /\ node[r].contest
           group == node[r].group \cup {s}
<1>2. /\ node[s].mailbox[r] # <<>> /\ node[s].mailbox[r][1].command = "JOIN"
      /\ Passed(node, node', s, r, IF challenges THEN group ELSE {}, Elect(r))
      /\ node'[r].group = group
      /\ node'[r].announced = node[r].announced
      /\ node'[r].election = IF challenges
                             THEN [NoElection EXCEPT !.caw = r]
                             ELSE node[r].election
  BY <1>1, JoinOutcome
<1>3. s = j /\ node[j].mailbox[r] = <<Plain("JOIN")>>
  BY <1>2 DEF Unopposed
<1>4. ~challenges
  BY <1>3 DEF Unopposed, Members
<1>5. /\ Passed(node, node', j, r, {}, Elect(r))
      /\ node'[r].group = node[r].group \cup {j}
      /\ node'[r].announced = node[r].announced
      /\ node'[r].election = node[r].election
  BY <1>2, <1>3, <1>4
<1>6. Elect(r) \in Message /\ Elect(r).command # "JOIN"
  BY MessageTypes
<1> QED BY <1>3, <1>5, <1>6, UnopposedJoined

LEMMA JoinSpreading ==
    ASSUME NEW j \in Node, NEW w \in Node, Spreading(node, w, j),
           node' \in [Node -> NodeState],
           NEW s \in Node, NEW r \in Node \ {s}, RecvJoin(s, r)
    PROVE  Spreading(node', w, j)
<1>1. /\ Common(node, j) /\ Base(node) /\ node[r].group \subseteq Node \ {r}
      /\ node[s].mailbox[r] \in Seq(Message)
  <2>1. Common(node, j)
    BY DEF Spreading
  <2> QED BY <2>1, GroupApart, SpreadFacts DEF Common
<1> DEFINE challenges == node[r].member /\ node[r].contest
           group == node[r].group \cup {s}
<1>2. /\ node[s].mailbox[r] # <<>> /\ node[s].mailbox[r][1].command = "JOIN"
      /\ Passed(node, node', s, r, IF challenges THEN group ELSE {}, Elect(r))
      /\ node'[r].group = group
      /\ node'[r].announced = node[r].announced
      /\ node'[r].election = IF challenges
                             THEN [NoElection EXCEPT !.caw = r]
                             ELSE node[r].election
  BY <1>1, JoinOutcome
<1>3. s = j /\ Pending(node, j, r)
  <2>1. Line(node, w, j, s, r)
    BY DEF Spreading
  <2>2. 1 \in DOMAIN node[s].mailbox[r]
    BY <1>1, <1>2
  <2>3. node[s].mailbox[r][1].command # "ELECT"
    BY <1>2
  <2>4. s = j
    BY <2>1, <2>2, <2>3 DEF Line, LineOf, IsElect
  <2> QED BY <1>2, <2>4 DEF Pending
<1>4. group = Members(node) \ {r}
  <2>1. j \in Members(node) /\ node[r].group = Members(node) \ {j, r} /\ j # r
    BY <1>1, <1>3 DEF Common, Knows
  <2> QED BY <1>3, <2>1
<1> HIDE DEF challenges
<1>5. /\ Passed(node, node', j, r, IF challenges THEN Members(node) \ {r} ELSE {}, Elect(r))
      /\ node'[r].group = node[r].group \cup {j}
      /\ node'[r].announced = node[r].announced
      /\ node'[r].election = (IF challenges THEN [NoElection EXCEPT !.caw = r]
                              ELSE node[r].election)
  BY <1>2, <1>3, <1>4
<1>6. challenges = (node[r].member /\ node[r].contest)
  BY DEF challenges
<1>7. r \in Node \ {j}
  BY <1>3
<1> QED BY <1>3, <1>5, <1>6, <1>7, SpreadJoined

LEMMA JoinElected ==
    ASSUME NEW j \in Node, NEW w \in Node, Elected(node, w, j),
           node' \in [Node -> NodeState],
           NEW s \in Node, NEW r \in Node \ {s}, RecvJoin(s, r)
    PROVE  Elected(node', w, j)
<1>1. Common(node, j) /\ Base(node) /\ node[r].group \subseteq Node \ {r}
  <2>1. Common(node, j)
    BY DEF Elected
  <2> QED BY <2>1, GroupApart DEF Common
<1> DEFINE challenges == node[r].member /\ node[r].contest
           group == node[r].group \cup {s}
<1>2. /\ node[s].mailbox[r] # <<>> /\ node[s].mailbox[r][1].command = "JOIN"
      /\ Passed(node, node', s, r, IF challenges THEN group ELSE {}, Elect(r))
      /\ node'[r].group = group
      /\ node'[r].announced = node[r].announced
      /\ node'[r].election = IF challenges
                             THEN [NoElection EXCEPT !.caw = r]
                             ELSE node[r].election
  BY <1>1, JoinOutcome
<1>3. /\ node[s].mailbox[r] = <<Plain("JOIN")>>
      /\ s = j /\ r \notin Members(node)
  <2>1. ASSUME Confirms(node, w, s, r) PROVE FALSE
    <3>1. <<Leader(w)>>[1] = Leader(w)
      OBVIOUS
    <3> QED BY <1>2, <2>1, <3>1, MessageTypes DEF Confirms
  <2> QED BY <1>2, <2>1, ElectedFront
<1>4. ~challenges
  BY <1>3 DEF Members
<1>5. /\ Passed(node, node', j, r, {}, Elect(r))
      /\ node'[r].group = node[r].group \cup {j}
      /\ node'[r].announced = node[r].announced
      /\ node'[r].election = node[r].election
  BY <1>2, <1>3, <1>4
<1>6. Passed(node, node', j, r, {}, Leader(w))
  BY <1>5, PassedNothing
<1>7. r \in Node \ {j}
  BY <1>3
<1> QED BY <1>3, <1>5, <1>6, <1>7, ElectedJoined

LEMMA StepJoin ==
    ASSUME Phase(node), node' \in [Node -> NodeState],
           NEW s \in Node, NEW r \in Node, RecvJoin(s, r)
    PROVE  Phase(node')
<1>1. node[s].mailbox[r] # <<>>
  BY DEF RecvJoin, Receive
<1>2. r \in Node \ {s}
  BY <1>1, FrontFacts
<1>3. ~Idle(node)
  BY <1>1, IdleEmpty
<1>4. ASSUME NEW j \in Node, Unopposed(node, j) PROVE Phase(node')
  <2>1. Unopposed(node', j)
    BY <1>2, <1>4, JoinUnopposed
  <2> QED BY <2>1 DEF Phase
<1>5. ASSUME NEW j \in Node, NEW w \in Node, Spreading(node, w, j) PROVE Phase(node')
  <2>1. Spreading(node', w, j)
    BY <1>2, <1>5, JoinSpreading
  <2> QED BY <2>1 DEF Phase
<1>6. ASSUME NEW j \in Node, NEW w \in Node, Elected(node, w, j) PROVE Phase(node')
  <2>1. Elected(node', w, j)
    BY <1>2, <1>6, JoinElected
  <2> QED BY <2>1 DEF Phase
<1> QED BY <1>3, <1>4, <1>5, <1>6 DEF Phase

\* Who turns to another challenger than itself has somebody else to tell.
LEMMA AdoptsForOthers ==
    ASSUME NEW nd, NEW w \in Node, NEW j \in Node, NEW s \in Node, NEW r \in Node,
           Arrives(nd, w, j, s, r, r),
           nd[r].election.caw = None \/ r < nd[r].election.caw
    PROVE  Cardinality(nd[r].group) # 1
<1> DEFINE M == Members(nd)
<1>1. /\ s # r /\ s \in M /\ r \in M /\ nd[r].group = M \ {r}
      /\ w <= r /\ (s = w => r = w) /\ (r = w => nd[r].election.caw = w)
  <2>1. Regular(nd, w, s, r, r)
    BY ElectFacts
  <2> QED BY <2>1 DEF Regular
<1>2. M \in SUBSET Node /\ IsFiniteSet(M) /\ w \in M
  <2>1. Members(nd) \in SUBSET Node /\ IsFiniteSet(Members(nd)) /\ Spreading(nd, w, j)
    BY ArrivesFacts
  <2>2. w \in Members(nd)
    BY <2>1, SpreadFacts
  <2> QED BY <2>1, <2>2
<1>3. r # w
  <2>1. ASSUME r = w PROVE FALSE
    <3>1. w # None /\ w \in Nat
      BY NodeAssumption
    <3> QED BY <1>1, <2>1, <3>1
  <2> QED BY <2>1
<1>4. s \in M \ {r} /\ w \in M \ {r} /\ s # w
  BY <1>1, <1>2, <1>3
<1>5. IsFiniteSet(M \ {r})
  BY <1>2, FS_RemoveElement
<1>6. Cardinality(M \ {r}) = 1 => \E a : M \ {r} = {a}
  BY <1>5, FS_Singleton
<1> QED BY <1>1, <1>4, <1>6

\* A wave that is not w's is never complete: w does not support it.
LEMMA StrayBelow ==
    ASSUME NEW nd, NEW w \in Node, NEW j \in Node, NEW s \in Node, NEW r \in Node,
           NEW x \in Node, Arrives(nd, w, j, s, r, x), x # w, nd[r].election.caw = x
    PROVE  nd[r].election.erec + 1 # Cardinality(nd[r].group)
<1> DEFINE M == Members(nd)
<1>1. /\ s # r /\ s \in M /\ r \in M /\ nd[r].group = M \ {r}
      /\ r # w /\ s # w /\ nd[s].mailbox[r][1] = Elect(x)
  <2>1. Regular(nd, w, s, r, x)
    BY ElectFacts
  <2> QED BY <2>1 DEF Regular
<1>2. /\ M \in SUBSET Node /\ IsFiniteSet(M) /\ w \in M
      /\ nd[s].mailbox[r] \in Seq(Message) /\ nd[s].mailbox[r] # <<>>
  <2>1. /\ Spreading(nd, w, j) /\ ~Pending(nd, j, r)
        /\ nd[s].mailbox[r] \in Seq(Message) /\ nd[s].mailbox[r] # <<>>
        /\ nd[s].mailbox[r][1].command = "ELECT" /\ nd[s].mailbox[r][1].id = x
        /\ Members(nd) \in SUBSET Node /\ IsFiniteSet(Members(nd))
    <3>1. Delivery(nd, w, j, s, r, x)
      BY Deliveries
    <3> QED BY <3>1 DEF Delivery
  <2>2. w \in Members(nd)
    BY <2>1, SpreadFacts
  <2> QED BY <2>1, <2>2
<1>3. PICK V \in SUBSET Node : Stray(nd, w, r, V)
  <2>1. nd[r].election.caw \notin {None, w}
    BY NodeAssumption
  <2>2. Tally(nd, w, j, r)
    BY <1>1 DEF Arrives, Spreading
  <2> QED BY <2>1, <2>2 DEF Tally
<1>4. V \subseteq M \ {r, w} /\ nd[r].election.erec = Cardinality(V)
  BY <1>3 DEF Stray
<1>5. s \notin V
  <2>1. ASSUME s \in V PROVE FALSE
    <3>1. Behind(nd, s, r, x)
      BY <1>3, <2>1 DEF Stray
    <3>2. 1 \in DOMAIN nd[s].mailbox[r]
      BY <1>2
    <3>3. IsElect(nd[s].mailbox[r][1]) /\ nd[s].mailbox[r][1].id = x
      BY <1>1, MessageTypes DEF IsElect
    <3>4. x < x
      BY <3>1, <3>2, <3>3 DEF Behind
    <3>5. x \in Nat
      BY NodeAssumption
    <3> QED BY <3>4, <3>5
  <2> QED BY <2>1
<1> DEFINE G == M \ {r}
<1>6. IsFiniteSet(G) /\ IsFiniteSet(V) /\ Cardinality(G) \in Nat
  <2>1. IsFiniteSet(G)
    BY <1>2, FS_RemoveElement
  <2>2. V \in SUBSET G
    BY <1>4
  <2> QED BY <2>1, <2>2, FS_Subset, FS_CardinalityType
<1>7. Cardinality(V \cup {s}) = Cardinality(V) + 1
  BY <1>5, <1>6, FS_AddElement
<1>8. V \cup {s} \in SUBSET G /\ V \cup {s} # G
  BY <1>1, <1>2, <1>4
<1>9. Cardinality(V \cup {s}) # Cardinality(G)
  <2> HIDE DEF G
  <2> QED BY <1>6, <1>8, FS_Subset
<1> QED BY <1>1, <1>4, <1>7, <1>9

\* An ELECT while the wave of w spreads, received after j's JOIN.
LEMMA ElectSpreads ==
    ASSUME NEW j \in Node, NEW w \in Node, NEW s \in Node, NEW r \in Node \ {s},
           NEW x \in Node, Arrives(node, w, j, s, r, x), RecvElect(s, r),
           x = Front(s, r).id, node' \in [Node -> NodeState],
           node[r].election \in Election
    PROVE  Spreading(node', w, j) \/ Elected(node', w, j)
<1>1. Spreading(node, w, j) /\ Common(node, j) /\ Base(node) /\ Tree(node, w)
  <2>1. Spreading(node, w, j)
    BY DEF Arrives
  <2>2. Common(node, j) /\ Tree(node, w)
    BY <2>1 DEF Spreading
  <2> QED BY <2>1, <2>2 DEF Common
<1>2. /\ x \in Node /\ s \in Members(node) /\ r \in Members(node) /\ w <= x
      /\ node[r].group = Members(node) \ {r}
      /\ node[r].election.caw \in Node \cup {None}
      /\ r = w => node[r].election.caw = w
  <2>1. Regular(node, w, s, r, x)
    BY ElectFacts
  <2> QED BY <2>1 DEF Regular
<1>3. /\ node[r].group \subseteq Node \ {r} /\ s \in node[r].group
      /\ Elect(w) \in Message
  <2>1. node[r].group \subseteq Node \ {r}
    BY <1>1, GroupApart
  <2> QED BY <1>2, <2>1, MessageTypes
<1> DEFINE caw == node[r].election.caw
           last == node[r].election.erec + 1 = Cardinality(node[r].group)
<1>4. CASE caw = None \/ x < caw
  <2>1. x = r => Cardinality(node[r].group) # 1
    BY <1>4, AdoptsForOthers
  <2> DEFINE R == IF node[r].group = {s} THEN {s} ELSE node[r].group \ {s}
  <2>2. /\ Passed(node, node', s, r, R, Elect(x))
        /\ node'[r].group = node[r].group
        /\ node'[r].announced = node[r].announced
        /\ node'[r].election = [caw |-> x, father |-> s, erec |-> 1, lrec |-> 0]
    <3>1. Base(node)
      BY <1>1
    <3>2. s \in node[r].group
      BY <1>3
    <3>3. node[r].group \subseteq Node \ {r}
      BY <1>3
    <3>4. node[r].election.caw = None \/ x < node[r].election.caw
      BY <1>4
    <3>5. /\ Passed(node, node', s, r,
                    IF node[r].group = {s} THEN {s} ELSE node[r].group \ {s}, Elect(x))
          /\ node'[r].group = node[r].group
          /\ node'[r].announced = node[r].announced
          /\ node'[r].election = [caw |-> x, father |-> s, erec |-> 1, lrec |-> 0]
      <4>1. Adopted(node, node', s, r, x)
        BY <2>1, <3>1, <3>2, <3>3, <3>4, VoteAdopted
      <4> QED BY <4>1 DEF Adopted
    <3> QED BY <3>5
  <2>3. Spreading(node', w, j)
    <3>1. R = (IF node[r].group = {s} THEN {s} ELSE node[r].group \ {s})
      OBVIOUS
    <3> HIDE DEF R
    <3> QED BY <1>2, <1>4, <2>2, <3>1, SpreadAdopted
  <2> QED BY <2>3
<1>5. CASE caw # None /\ ~(x < caw) /\ x # caw
  <2>1. /\ Passed(node, node', s, r, {}, Elect(w))
        /\ node'[r].group = node[r].group
        /\ node'[r].announced = node[r].announced
        /\ node'[r].election = node[r].election
    BY <1>1, <1>5, VoteIgnored
  <2> QED BY <1>5, <2>1, SpreadIgnored
<1>6. CASE caw = x /\ ~last
  <2>1. /\ Passed(node, node', s, r, {}, Elect(w))
        /\ node'[r].group = node[r].group
        /\ node'[r].announced = node[r].announced
        /\ node'[r].election = [node[r].election EXCEPT !.erec = @ + 1]
    <3>1. Base(node)
      BY <1>1
    <3>2. node[r].election.caw = x
      BY <1>6
    <3>3. node[r].election.erec + 1 # Cardinality(node[r].group)
      BY <1>6
    <3> QED BY <3>1, <3>2, <3>3, VoteCounted
  <2> QED BY <1>6, <2>1, SpreadCounted
<1>7. CASE caw = x /\ last
  <2>1. x = w
    BY <1>2, <1>7, StrayBelow
  <2>2. Arrives(node, w, j, s, r, w)
    BY <2>1
  <2>3. CASE r # w
    <3>1. r \in Supporters(node, w) \ {w}
      BY <1>7, <2>1, <2>3 DEF Supporters
    <3> DEFINE f == node[r].election.father
    <3>2. f \in Node \ {r}
      BY <1>1, <3>1 DEF Tree, Supporters
    <3>3. /\ w \in Node \ {r} /\ w = Front(s, r).id
          /\ node[r].election.caw = w
          /\ node[r].election.erec + 1 = Cardinality(node[r].group)
          /\ r \in Node \ {w}
      BY <1>7, <2>1, <2>3
    <3>4. /\ Passed(node, node', s, r, {f}, Elect(w))
          /\ node'[r].group = node[r].group
          /\ node'[r].announced = node[r].announced
          /\ node'[r].election = [node[r].election EXCEPT !.erec = @ + 1]
      BY <1>1, <3>2, <3>3, VoteEchoed
    <3>5. Spreading(node', w, j)
      BY <2>2, <3>2, <3>3, <3>4, SpreadEchoed
    <3> QED BY <3>5
  <2>4. CASE r = w
    <3>1. /\ r = Front(s, r).id /\ node[r].election.caw = r
          /\ node[r].election.erec + 1 = Cardinality(node[r].group)
      BY <1>7, <2>1, <2>4
    <3>2. /\ Passed(node, node', s, r, node[r].group, Leader(r))
          /\ node'[r].group = node[r].group
          /\ node'[r].announced = node[r].announced
          /\ node'[r].election = [node[r].election EXCEPT !.erec = @ + 1]
      BY <1>1, <1>3, <3>1, VoteDecides
    <3>3. Elected(node', w, j)
      BY <2>2, <2>4, <3>1, <3>2, SpreadDecided
    <3> QED BY <3>3
  <2> QED BY <2>3, <2>4
<1> QED BY <1>4, <1>5, <1>6, <1>7

LEMMA StepElect ==
    ASSUME Phase(node), Prompt, node' \in [Node -> NodeState],
           NEW s \in Node, NEW r \in Node, RecvElect(s, r)
    PROVE  Phase(node')
<1>1. /\ node[s].mailbox[r] # <<>> /\ Front(s, r).command = "ELECT" /\ NoJoinFor(r)
  BY DEF RecvElect, Receive
<1>2. /\ r \in Node \ {s} /\ Front(s, r) = node[s].mailbox[r][1]
      /\ node[r].election \in Election
  BY <1>1, FrontFacts
<1>3. ~Idle(node)
  BY <1>1, IdleEmpty
<1>4. ASSUME NEW j \in Node PROVE ~Pending(node, j, r)
  <2>1. node[j].mailbox[r] \in Seq(Message)
    BY PhaseFacts DEF Base, NodeState
  <2>2. node[j].mailbox[r] # <<>> => 1 \in DOMAIN node[j].mailbox[r]
    BY <2>1
  <2> QED BY <1>1, <2>2 DEF Pending, NoJoinFor
<1>5. ASSUME NEW j \in Node, Unopposed(node, j) PROVE FALSE
  <2>1. node[s].mailbox[r] = <<Plain("JOIN")>>
    BY <1>1, <1>5 DEF Unopposed
  <2>2. <<Plain("JOIN")>>[1] = Plain("JOIN")
    OBVIOUS
  <2> QED BY <1>1, <1>2, <2>1, <2>2, MessageTypes
<1>6. ASSUME NEW j \in Node, NEW w \in Node, Spreading(node, w, j) PROVE Phase(node')
  <2>1. Arrives(node, w, j, s, r, Front(s, r).id)
    BY <1>1, <1>2, <1>4, <1>6 DEF Arrives
  <2>3. Front(s, r).id \in Node
    <3>1. Regular(node, w, s, r, Front(s, r).id)
      BY <2>1, ElectFacts
    <3> QED BY <3>1 DEF Regular
  <2>2. Spreading(node', w, j) \/ Elected(node', w, j)
    BY <1>2, <2>1, <2>3, ElectSpreads
  <2> QED BY <2>2 DEF Phase
<1>7. ASSUME NEW j \in Node, NEW w \in Node, Elected(node, w, j) PROVE FALSE
  <2>1. node[s].mailbox[r] \in {<<Leader(w)>>, <<Plain("JOIN")>>}
    <3>1. \/ Confirms(node, w, s, r)
          \/ node[s].mailbox[r] = <<Plain("JOIN")>>
      BY <1>1, <1>7, ElectedFront
    <3> QED BY <3>1 DEF Confirms
  <2>2. <<Plain("JOIN")>>[1] = Plain("JOIN") /\ <<Leader(w)>>[1] = Leader(w)
    OBVIOUS
  <2> QED BY <1>1, <1>2, <2>1, <2>2, MessageTypes
<1> QED BY <1>3, <1>5, <1>6, <1>7 DEF Phase

LEMMA StepLeader ==
    ASSUME Phase(node), node' \in [Node -> NodeState],
           NEW s \in Node, NEW r \in Node, RecvLeader(s, r)
    PROVE  Phase(node')
<1>1. node[s].mailbox[r] # <<>> /\ Front(s, r).command = "LEADER"
  BY DEF RecvLeader, Receive
<1>2. /\ r \in Node \ {s} /\ Front(s, r) = node[s].mailbox[r][1]
      /\ node[r].election \in Election /\ node[s].mailbox[r] \in Seq(Message)
  BY <1>1, FrontFacts
<1>3. ~Idle(node)
  BY <1>1, IdleEmpty
<1>4. ASSUME NEW j \in Node, Unopposed(node, j) PROVE FALSE
  <2>1. node[s].mailbox[r] = <<Plain("JOIN")>>
    BY <1>1, <1>4 DEF Unopposed
  <2>2. <<Plain("JOIN")>>[1] = Plain("JOIN")
    OBVIOUS
  <2> QED BY <1>1, <1>2, <2>1, <2>2, MessageTypes
<1>5. ASSUME NEW j \in Node, NEW w \in Node, Spreading(node, w, j) PROVE FALSE
  <2>1. Line(node, w, j, s, r)
    BY <1>5 DEF Spreading
  <2>2. 1 \in DOMAIN node[s].mailbox[r]
    BY <1>1, <1>2
  <2>3. node[s].mailbox[r][1] = Plain("JOIN") \/ IsElect(node[s].mailbox[r][1])
    BY <2>1, <2>2 DEF Line, LineOf
  <2> QED BY <1>1, <1>2, <2>3, MessageTypes DEF IsElect
<1>6. ASSUME NEW j \in Node, NEW w \in Node, Elected(node, w, j)
      PROVE  Elected(node', w, j)
  <2>1. Confirms(node, w, s, r)
    <3>1. node[s].mailbox[r] # <<Plain("JOIN")>>
      <4>1. <<Plain("JOIN")>>[1] = Plain("JOIN")
        OBVIOUS
      <4> QED BY <1>1, <1>2, <4>1, MessageTypes
    <3> QED BY <1>1, <1>6, <3>1, ElectedFront
  <2>2. node[s].mailbox[r] = <<Leader(w)>> /\ node[r].election.caw = w
    BY <2>1 DEF Confirms
  <2>3. w = Front(s, r).id
    <3>1. <<Leader(w)>>[1] = Leader(w)
      OBVIOUS
    <3> QED BY <1>2, <2>2, <3>1, MessageTypes
  <2>4. Base(node) /\ node[r].group \subseteq Node \ {r}
    <3>1. Common(node, j)
      BY <1>6 DEF Elected
    <3> QED BY <3>1, GroupApart DEF Common
  <2> DEFINE over == node[r].election.lrec + 1 = Cardinality(node[r].group)
             R == IF r # w /\ node[r].election.lrec = 0 THEN node[r].group ELSE {}
  <2>5. /\ Passed(node, node', s, r, R, Leader(w))
        /\ node'[r].group = node[r].group
        /\ node'[r].announced = IF over THEN w ELSE node[r].announced
        /\ node'[r].election = IF over THEN NoElection
                               ELSE [node[r].election EXCEPT !.lrec = @ + 1]
    BY <1>2, <2>2, <2>3, <2>4, LeaderOutcome
  <2>6. /\ over => node'[r].announced = w /\ node'[r].election = NoElection
        /\ ~over => node'[r].election = [node[r].election EXCEPT !.lrec = @ + 1]
    BY <2>5
  <2>7. /\ R = (IF r # w /\ node[r].election.lrec = 0 THEN node[r].group ELSE {})
        /\ over = (node[r].election.lrec + 1 = Cardinality(node[r].group))
    OBVIOUS
  <2> HIDE DEF R, over
  <2> QED BY <1>2, <1>6, <2>1, <2>5, <2>6, <2>7, ElectedConfirmed
<1>7. ASSUME NEW j \in Node, NEW w \in Node, Elected(node, w, j) PROVE Phase(node')
  BY <1>6, <1>7 DEF Phase
<1> QED BY <1>3, <1>4, <1>5, <1>7 DEF Phase

\* Everybody knows everybody, so nobody is discovered, removed or ignored.
LEMMA StepRecv ==
    ASSUME Phase(node), Prompt, node' \in [Node -> NodeState],
           NEW s \in Node, NEW r \in Node, Recv(s, r)
    PROVE  Phase(node')
<1>1. ASSUME RecvIgnored(s, r) PROVE FALSE
  <2>1. node[s].mailbox[r] # <<>> /\ s \notin node[r].ready
    BY <1>1 DEF RecvIgnored
  <2> QED BY <2>1, PhaseFacts DEF Base
<1>2. ASSUME RecvHello(s, r) \/ RecvLeave(s, r) PROVE FALSE
  <2>1. node[s].mailbox[r] # <<>> /\ Front(s, r).command \in {"HELLO", "LEAVE"}
    BY <1>2 DEF RecvHello, RecvLeave, Receive
  <2>2. Front(s, r).command \in {"JOIN", "ELECT", "LEADER"}
    BY <2>1, FrontFacts
  <2> QED BY <2>1, <2>2
<1>3. CASE RecvJoin(s, r)
  BY <1>3, StepJoin
<1>4. CASE RecvElect(s, r)
  BY <1>4, StepElect
<1>5. CASE RecvLeader(s, r)
  BY <1>5, StepLeader
<1> QED BY <1>1, <1>2, <1>3, <1>4, <1>5 DEF Recv

LEMMA StepPhase ==
    ASSUME CInv, Orderly, Next, node' \in [Node -> NodeState]
    PROVE  Phase(node')
<1>1. Phase(node) /\ Patient /\ Prompt
  BY DEF CInv, Orderly
<1>2. \A n \in Node : node[n].alive /\ node[n].peers = Node \ {n}
  BY <1>1, PhaseFacts DEF Base
<1>3. ASSUME NEW n \in Node, SetContest(n) PROVE Phase(node')
  BY <1>1, <1>3, ContestKeeps
<1>4. ASSUME NEW n \in Node, Join(n) PROVE Phase(node')
  BY <1>1, <1>4, JoinKeeps
<1>5. ASSUME NEW n \in Node, Leave(n) \/ Die(n) PROVE FALSE
  <2>1. ~(0 > 0)
    OBVIOUS
  <2> QED BY <1>5, <2>1 DEF Leave, Die, Spend, CInv
<1>6. ASSUME NEW n \in Node, NEW m \in Node,
             Discover(n, m) \/ Remove(n, m) \/ Discard(m, n)
      PROVE  FALSE
  BY <1>2, <1>6 DEF Discover, Remove, Discard
<1>7. ASSUME NEW n \in Node, NEW m \in Node, Recv(m, n) PROVE Phase(node')
  BY <1>1, <1>7, StepRecv
<1> QED BY <1>3, <1>4, <1>5, <1>6, <1>7 DEF Next

\* Nobody leaves and nobody dies.
LEMMA BudgetKept ==
    ASSUME budget \in [BudgetKinds -> Nat],
           budget["leave"] = 0, budget["die"] = 0, [Next]_vars
    PROVE  budget'["leave"] = 0 /\ budget'["die"] = 0
<1>1. "leave" \in BudgetKinds /\ "die" \in BudgetKinds
  BY DEF BudgetKinds
<1>2. ASSUME NEW kind \in {"contest", "join"}, Spend(kind)
      PROVE  budget'["leave"] = 0 /\ budget'["die"] = 0
  BY <1>1, <1>2 DEF Spend
<1>3. ASSUME NEW kind \in {"leave", "die"}, Spend(kind) PROVE FALSE
  <2>1. ~(0 > 0)
    OBVIOUS
  <2> QED BY <1>3, <2>1 DEF Spend
<1>4. CASE UNCHANGED budget
  BY <1>4
<1>5. ASSUME NEW n \in Node, SetContest(n) \/ Join(n) \/ Leave(n) \/ Die(n)
      PROVE  budget'["leave"] = 0 /\ budget'["die"] = 0
  BY <1>2, <1>3, <1>5 DEF SetContest, Join, Leave, Die
<1>6. ASSUME NEW n \in Node, NEW m \in Node,
             Discover(n, m) \/ Remove(n, m) \/ Discard(m, n) \/ Recv(m, n)
      PROVE  UNCHANGED budget
  BY <1>6 DEF Discover, Remove, Discard, Recv, RecvIgnored, RecvHello, RecvJoin,
              RecvLeave, RecvElect, RecvLeader, Receive
<1> QED BY <1>4, <1>5, <1>6 DEF Next, vars

LEMMA CInvStep ==
    ASSUME CInv, Orderly, [Next]_vars PROVE CInv'
<1>1. IInv'
  BY NextInvariant DEF CInv
<1>2. budget'["leave"] = 0 /\ budget'["die"] = 0
  BY BudgetKept DEF CInv, IInv
<1>3. Phase(node')
  <2>1. node' \in [Node -> NodeState]
    BY <1>1 DEF IInv
  <2>2. CASE Next
    BY <2>1, <2>2, StepPhase
  <2>3. CASE UNCHANGED vars
    BY <2>3 DEF vars, CInv
  <2> QED BY <2>2, <2>3
<1> QED BY <1>1, <1>2, <1>3 DEF CInv

LEMMA CInvInit ==
    ASSUME Init, Orderly PROVE CInv
<1>1. IInv
  BY InitInvariant
<1>2. budget["leave"] = 0 /\ budget["die"] = 0
  BY DEF Init, Orderly
<1>3. Joined = {}
  BY NodeAssumption DEF Orderly
<1>4. ASSUME NEW n \in Node
      PROVE  /\ node[n].uuid = n /\ node[n].alive /\ ~node[n].member
             /\ node[n].contest = (n \in Contender)
             /\ node[n].peers = Node \ {n} /\ node[n].ready = Node \ {n}
             /\ node[n].group = {} /\ node[n].election = NoElection
             /\ node[n].announced = None
             /\ node[n].mailbox = [m \in Node |-> <<>>]
  <2>1. node[n] = NewNode(n, Node \ {n})
    BY DEF Init, Orderly
  <2>2. node[n].contest = (n \in Contender)
    BY <2>1 DEF NewNode
  <2>3. node[n].alive = TRUE
    BY <2>1 DEF NewNode
  <2>4. /\ node[n].uuid = n
        /\ node[n].peers = Node \ {n} /\ node[n].ready = Node \ {n}
        /\ node[n].group = {} /\ node[n].election = NoElection
        /\ node[n].announced = None
        /\ node[n].mailbox = [m \in Node |-> <<>>]
    BY <2>1 DEF NewNode
  <2>5. node[n].member = FALSE
    <3>1. node[n].member = (n \in Joined)
      BY <2>1 DEF NewNode
    <3>2. (n \in Joined) = FALSE
      BY <1>3
    <3> QED BY <3>1, <3>2, Zenon
  <2> QED BY <2>2, <2>3, <2>4, <2>5
<1>5. Members(node) = {}
  BY <1>4 DEF Members
<1>6. Base(node)
  BY <1>1, <1>4 DEF Base, IInv
<1>7. Bystanders(node)
  BY <1>4 DEF Bystanders
<1>8. Cardinality(Members(node) \cap Contender) <= 1
  <2>1. Members(node) \cap Contender = {}
    BY <1>5
  <2>2. Cardinality({}) = 0
    BY FS_EmptySet
  <2> QED BY <2>1, <2>2
<1>9. Idle(node)
  BY <1>4, <1>5, <1>6, <1>7, <1>8 DEF Idle
<1> QED BY <1>1, <1>2, <1>9 DEF CInv, Phase

-----------------------------------------------------------------------------
\* What follows

LEMMA GroupSize ==
    ASSUME NEW nd, Base(nd), NEW n \in Node
    PROVE  /\ IsFiniteSet(nd[n].group) /\ Cardinality(nd[n].group) \in Nat
           /\ nd[n].election \in Election
<1>1. nd[n] \in NodeState
  BY DEF Base
<1>2. nd[n].group \in SUBSET Node /\ nd[n].election \in Election
  BY <1>1 DEF NodeState
<1>3. IsFiniteSet(nd[n].group)
  BY <1>2, NodeAssumption, FS_Subset
<1> QED BY <1>2, <1>3, FS_CardinalityType

\* Nothing is counted where no election is held.
LEMMA NothingCounted ==
    ASSUME NEW nd, Base(nd), NEW n \in Node, nd[n].election = NoElection
    PROVE  /\ nd[n].election.erec <= Cardinality(nd[n].group)
           /\ nd[n].election.lrec <= Cardinality(nd[n].group)
<1>1. nd[n].election.erec = 0 /\ nd[n].election.lrec = 0
  BY DEF NoElection
<1>2. Cardinality(nd[n].group) \in Nat
  BY GroupSize
<1> QED BY <1>1, <1>2

\* Whoever is counted is another member, and none of them twice.
LEMMA SpreadCounts ==
    ASSUME NEW nd, NEW w \in Node, NEW j \in Node, Spreading(nd, w, j), NEW r \in Node
    PROVE  /\ nd[r].election.erec <= Cardinality(nd[r].group)
           /\ nd[r].election.lrec <= Cardinality(nd[r].group)
<1> DEFINE e == nd[r].election
           M == Members(nd)
<1>1. Common(nd, j) /\ Base(nd)
  <2>1. Common(nd, j)
    BY DEF Spreading
  <2> QED BY <2>1 DEF Common
<1>2. Cardinality(nd[r].group) \in Nat /\ IsFiniteSet(nd[r].group)
  BY <1>1, GroupSize
<1>3. CASE e = NoElection
  BY <1>1, <1>3, NothingCounted
<1>4. CASE e # NoElection
  <2>1. r \in M
    BY <1>1, <1>4 DEF Common, Bystanders
  <2>2. Tally(nd, w, j, r)
    BY <2>1 DEF Spreading
  <2>3. e.caw # None /\ e.lrec = 0 /\ ~Pending(nd, j, r)
    BY <1>4, <2>2 DEF Tally
  <2>4. nd[r].group = M \ {r}
    BY <1>1, <2>3 DEF Common, Knows
  <2>5. \E V \in SUBSET nd[r].group : e.erec = Cardinality(V)
    <3>1. CASE e.caw = w
      <4>1. Votes(nd, w, r) \in SUBSET (M \ {r}) /\ e.erec = Cardinality(Votes(nd, w, r))
        BY <2>2, <3>1 DEF Tally, Votes
      <4> QED BY <2>4, <4>1
    <3>2. CASE e.caw # w
      <4>1. PICK V \in SUBSET Node : Stray(nd, w, r, V)
        BY <2>2, <2>3, <3>2 DEF Tally
      <4>2. V \in SUBSET (M \ {r}) /\ e.erec = Cardinality(V)
        BY <4>1 DEF Stray
      <4> QED BY <2>4, <4>2
    <3> QED BY <3>1, <3>2
  <2>6. e.erec <= Cardinality(nd[r].group)
    <3>1. PICK V \in SUBSET nd[r].group : e.erec = Cardinality(V)
      BY <2>5
    <3>2. Cardinality(V) <= Cardinality(nd[r].group)
      BY <1>2, FS_Subset
    <3> QED BY <3>1, <3>2
  <2> QED BY <1>2, <2>3, <2>6
<1> QED BY <1>3, <1>4

LEMMA ElectedCounts ==
    ASSUME NEW nd, NEW w \in Node, NEW j \in Node, Elected(nd, w, j), NEW r \in Node
    PROVE  /\ nd[r].election.erec <= Cardinality(nd[r].group)
           /\ nd[r].election.lrec <= Cardinality(nd[r].group)
<1> DEFINE e == nd[r].election
           M == Members(nd)
<1>1. Common(nd, j) /\ Base(nd)
  <2>1. Common(nd, j)
    BY DEF Elected
  <2> QED BY <2>1 DEF Common
<1>2. Cardinality(nd[r].group) \in Nat /\ IsFiniteSet(nd[r].group)
  BY <1>1, GroupSize
<1>3. CASE e = NoElection
  BY <1>1, <1>3, NothingCounted
<1>4. CASE e # NoElection
  <2>1. r \in M
    BY <1>1, <1>4 DEF Common, Bystanders
  <2>2. e.erec = Cardinality(nd[r].group) /\ e.lrec = Cardinality(Heard(nd, w, r))
    BY <1>4, <2>1 DEF Elected
  <2>3. nd[r].group = M \ {r}
    <3>1. ~Pending(nd, j, r)
      <4>1. nd[j].mailbox[r] = <<>> \/ nd[j].mailbox[r] = <<Leader(w)>>
        BY <2>1 DEF Elected
      <4>2. <<Leader(w)>>[1] = Leader(w)
        OBVIOUS
      <4> QED BY <4>1, <4>2, MessageTypes DEF Pending
    <3> QED BY <1>1, <3>1 DEF Common, Knows
  <2>4. Heard(nd, w, r) \in SUBSET nd[r].group
    BY <2>3 DEF Heard
  <2>5. Cardinality(Heard(nd, w, r)) <= Cardinality(nd[r].group)
    BY <1>2, <2>4, FS_Subset
  <2> QED BY <1>2, <2>2, <2>5
<1> QED BY <1>3, <1>4

LEMMA CInvCounts ==
    ASSUME CInv PROVE CountsWithinGroup
<1> SUFFICES ASSUME NEW n \in Node
             PROVE  /\ node[n].election.erec <= Cardinality(node[n].group)
                    /\ node[n].election.lrec <= Cardinality(node[n].group)
  BY DEF CountsWithinGroup
<1>1. Phase(node) /\ Base(node)
  <2>1. Phase(node)
    BY DEF CInv
  <2> QED BY <2>1, PhaseFacts
<1>2. CASE Idle(node)
  <2>1. node[n].election = NoElection
    BY <1>2 DEF Idle
  <2> QED BY <1>1, <2>1, NothingCounted
<1>3. ASSUME NEW j \in Node, Unopposed(node, j) PROVE node[n].election = NoElection
  BY <1>3 DEF Unopposed
<1>4. CASE \E j \in Node : Unopposed(node, j)
  BY <1>1, <1>3, <1>4, NothingCounted
<1> QED BY <1>1, <1>2, <1>4, SpreadCounts, ElectedCounts DEF Phase

LEMMA CInvConsent ==
    ASSUME CInv PROVE Consent
<1> SUFFICES ASSUME Quiet
             PROVE  \E k \in Voter \cup {None} :
                       /\ \A n \in Voter : node[n].announced = k
                       /\ Cardinality(Voter \cap Contender) > 1 => k # None
  BY DEF Consent
<1>1. Idle(node)
  BY SettledIdle DEF CInv, Quiet
<1>2. Voter = Members(node)
  BY <1>1 DEF Idle, Base, Voter, Members
<1>3. PICK k \in Members(node) \cup {None} :
         /\ \A n \in Members(node) : node[n].announced = k
         /\ k = None => Cardinality(Members(node) \cap Contender) <= 1
  BY <1>1 DEF Idle
<1>4. Cardinality(Members(node) \cap Contender) \in Nat
  <2>1. Members(node) \cap Contender \in SUBSET Node
    BY DEF Members
  <2>2. IsFiniteSet(Members(node) \cap Contender)
    BY <2>1, NodeAssumption, FS_Subset
  <2> QED BY <2>2, FS_CardinalityType
<1>5. Cardinality(Members(node) \cap Contender) > 1 => k # None
  BY <1>3, <1>4
<1> QED BY <1>2, <1>3, <1>5

-----------------------------------------------------------------------------
\* Where the group changes only when the last change is settled, every node is at
\* all times in one of the phases of an election.
LEMMA Phases ==
    ASSUME Orderly PROVE Spec => []CInv
<1>1. Init => CInv
  BY CInvInit
<1>2. CInv /\ [Next]_vars => CInv'
  BY CInvStep
<1> QED BY <1>1, <1>2, PTL DEF Spec

\* What follows is conditional: neither the code nor ZeroMQ makes an election Orderly.
\* zyre_election_erec_complete and _lrec_complete test the counters for equality
\* with the size of the group: nodes that join one by one are never counted twice
\* nor in the wrong election, however the messages of the others interleave.
LEMMA VotesCounted ==
    ASSUME Orderly PROVE Spec => []CountsWithinGroup
<1>1. CInv => CountsWithinGroup
  BY CInvCounts
<1> QED BY <1>1, Phases, PTL

\* zyre_set_contest_in_group promises a consent for a leader: when nodes join one
\* by one all members end up with the same one, and have one as soon as two of
\* them contest.
LEMMA ConsentReached ==
    ASSUME Orderly PROVE Spec => []Consent
<1>1. CInv => Consent
  BY CInvConsent
<1> QED BY <1>1, Phases, PTL

=============================================================================
