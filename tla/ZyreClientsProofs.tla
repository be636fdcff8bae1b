-------------------------- MODULE ZyreClientsProofs --------------------------
(***************************************************************************)
(* What the programs may count on, for any choice of programs, any number  *)
(* of processes and any bounds: a lemma for each function of the service,  *)
(* a step for each action.  Greeters is about the channels, Measurements   *)
(* about the sums over all remotes that perf_local counts on.              *)
(***************************************************************************)
EXTENDS ZyreClients, FiniteSetTheorems, TLAPS

\* The groups the programs join.
Groups == {"GLOBAL", "CHAT", "GROUP", "one", "two"}

Talk == {"WHISPER", "SHOUT"}

\* Types of events, names of groups and texts.
Word ==
    Groups \cup Talk \cup
    {"ENTER", "JOIN", "LEAVE", "EXIT", "EVASIVE", "STOP", "R:HELLO", "S:WHISPER",
     "R:WHISPER", "S:SHOUT", "R:SHOUT", "Hello", "Hello, World", "line", "counter", Blank}

Message ==
    [id: {"HELLO"}, groups: SUBSET Groups]
    \cup [id: {"JOIN", "LEAVE"}, group: Groups, text: Word]
    \cup [id: {"WHISPER", "SHOUT", "GOODBYE"}, group: Word, text: Word]

Notice == [type: Word, peer: Node, group: Word, text: Word]

NodeState ==
    [state: {"new", "up", "stopped", "gone"}, own: SUBSET Groups,
     peers: SUBSET Node, ready: SUBSET Node, member: [Node -> SUBSET Groups],
     out: [Node -> Seq(Message)], events: Seq(Notice), impatient: BOOLEAN,
     due: SUBSET Node]

\* The tables of node n.
Good(n, s) ==
    /\ s \in NodeState
    /\ s.ready \subseteq s.peers
    /\ n \notin s.peers /\ s.out[n] = <<>>
    /\ \A m \in Node : s.member[m] # {} => m \in s.ready

-----------------------------------------------------------------------------
(* The service *)

LEMMA NodeFacts ==
    /\ IsFiniteSet(Node) /\ Cardinality(Node) \in Nat
    /\ Node = 1 .. Cardinality(Node) /\ {1, 2} \subseteq Node
BY Bounds, FS_CardinalityType

LEMMA Words ==
    /\ Groups \subseteq Word /\ Talk \subseteq Word
    /\ {"ENTER", "JOIN", "LEAVE", "EXIT", "EVASIVE", "STOP", "R:HELLO", "S:WHISPER",
        "R:WHISPER", "S:SHOUT", "R:SHOUT", "Hello", "Hello, World", "line", "counter",
        Blank} \subseteq Word
BY DEF Word

\* JOIN events for a set of groups.
LEMMA JoinNotices ==
    ASSUME NEW m \in Node, NEW groups \in SUBSET Groups
    PROVE  LET order == SetToSeq(groups)
               joins == [i \in 1 .. Cardinality(groups) |-> Event("JOIN", m, order[i], Blank)]
           IN  /\ joins \in Seq(Notice)
               /\ \A i \in 1 .. Len(joins) : joins[i].type = "JOIN" /\ joins[i].peer = m
<1>1. IsFiniteSet(groups)
  <2>1. IsFiniteSet(Groups)
    <3>1. IsFiniteSet({"one", "two"})
      <4>1. {"one", "two"} = {"one"} \cup {"two"} /\ IsFiniteSet({"one"})
        BY FS_Singleton
      <4> QED BY <4>1, FS_AddElement
    <3>2. IsFiniteSet({"one", "two"} \cup {"GROUP"})
      BY <3>1, FS_AddElement
    <3>3. IsFiniteSet(({"one", "two"} \cup {"GROUP"}) \cup {"CHAT"})
      BY <3>2, FS_AddElement
    <3>4. IsFiniteSet((({"one", "two"} \cup {"GROUP"}) \cup {"CHAT"}) \cup {"GLOBAL"})
      BY <3>3, FS_AddElement
    <3>5. Groups = (({"one", "two"} \cup {"GROUP"}) \cup {"CHAT"}) \cup {"GLOBAL"}
      BY DEF Groups
    <3> QED BY <3>4, <3>5
  <2> QED BY <2>1, FS_Subset
<1> DEFINE k == Cardinality(groups)
           order == SetToSeq(groups)
           joins == [i \in 1 .. k |-> Event("JOIN", m, order[i], Blank)]
<1>2. k \in Nat /\ ExistsBijection(1 .. k, groups)
  BY <1>1, FS_CardinalityType
<1>3. order \in [1 .. k -> groups]
  <2>1. PICK f \in [1 .. k -> groups] : IsInjective(f)
    BY <1>2 DEF ExistsBijection, Bijection, Injection, IsInjective
  <2> QED BY <2>1 DEF SetToSeq
<1> HIDE DEF order, k
<1>4. \A i \in 1 .. k : joins[i] \in Notice /\ joins[i].type = "JOIN" /\ joins[i].peer = m
  <2>1. Groups \subseteq Word /\ "JOIN" \in Word /\ Blank \in Word
    BY Words
  <2> QED BY <1>3, <2>1 DEF Event, Notice
<1>5. joins \in [1 .. k -> Notice]
  BY <1>4
<1>6. joins \in Seq(Notice) /\ Len(joins) = k
  <2> HIDE DEF joins
  <2> QED BY <1>2, <1>5
<1> QED BY <1>4, <1>6 DEF k, order

\* All but the mailboxes and the queue of events.
Alike(s, t) ==
    /\ t.state = s.state /\ t.own = s.own /\ t.peers = s.peers /\ t.ready = s.ready
    /\ t.member = s.member /\ t.impatient = s.impatient /\ t.due = s.due

LEMMA PutFacts ==
    ASSUME NEW s \in NodeState, NEW to, NEW msg \in Message
    PROVE  /\ Put(s, to, msg) \in NodeState /\ Alike(s, Put(s, to, msg))
           /\ Put(s, to, msg).events = s.events
           /\ \A m \in Node : Put(s, to, msg).out[m]
                                = IF m \in to THEN Append(s.out[m], msg) ELSE s.out[m]
<1> DEFINE box == [m \in Node |-> IF m \in to THEN Append(s.out[m], msg) ELSE s.out[m]]
<1>1. box \in [Node -> Seq(Message)]
  <2>1. \A m \in Node : s.out[m] \in Seq(Message)
    BY DEF NodeState
  <2> QED BY <2>1
<1>2. Put(s, to, msg) = [s EXCEPT !.out = box]
  BY DEF Put
<1>3. \A m \in Node : box[m] = IF m \in to THEN Append(s.out[m], msg) ELSE s.out[m]
  OBVIOUS
<1> HIDE DEF box
<1> QED BY <1>1, <1>2, <1>3 DEF NodeState, Alike

LEMMA TellFacts ==
    ASSUME NEW s \in NodeState, NEW event \in Notice
    PROVE  /\ Tell(s, event) \in NodeState /\ Alike(s, Tell(s, event))
           /\ Tell(s, event).out = s.out /\ Tell(s, event).events = Append(s.events, event)
<1>1. s.events \in Seq(Notice) /\ Append(s.events, event) \in Seq(Notice)
  BY DEF NodeState
<1> QED BY <1>1 DEF Tell, NodeState, Alike

LEMMA TakenFacts ==
    ASSUME NEW s \in NodeState, s.events # <<>>
    PROVE  /\ Taken(s) \in NodeState /\ Alike(s, Taken(s))
           /\ Taken(s).out = s.out /\ Taken(s).events = Tail(s.events)
           /\ Head(s.events) \in Notice
<1>1. Tail(s.events) \in Seq(Notice) /\ Head(s.events) \in Notice
  BY DEF NodeState
<1> QED BY <1>1 DEF Taken, NodeState, Alike

\* The messages and notices that are made up.
LEMMA MessageTypes ==
    ASSUME NEW g \in Groups, NEW w \in Word, NEW text \in Word, NEW groups \in SUBSET Groups,
           NEW m \in Node
    PROVE  /\ Hello(groups) \in Message
           /\ Msg("JOIN", g, Blank) \in Message /\ Msg("LEAVE", g, Blank) \in Message
           /\ Msg("WHISPER", Blank, text) \in Message /\ Msg("SHOUT", w, text) \in Message
           /\ Msg("GOODBYE", Blank, Blank) \in Message
           /\ \A type \in {"ENTER", "JOIN", "LEAVE", "EXIT", "EVASIVE", "STOP", "WHISPER", "SHOUT"} :
                Event(type, m, w, text) \in Notice
<1>1. Blank \in Word
  BY Words
<1>2. {"ENTER", "JOIN", "LEAVE", "EXIT", "EVASIVE", "STOP", "WHISPER", "SHOUT"} \subseteq Word
  BY Words DEF Talk
<1>3. \A type \in Word : Event(type, m, w, text) \in Notice
  BY DEF Event, Notice
<1>4. /\ Hello(groups) \in Message
      /\ Msg("JOIN", g, Blank) \in Message /\ Msg("LEAVE", g, Blank) \in Message
      /\ Msg("WHISPER", Blank, text) \in Message /\ Msg("SHOUT", w, text) \in Message
      /\ Msg("GOODBYE", Blank, Blank) \in Message
  BY <1>1 DEF Message, Hello, Msg
<1> QED BY <1>2, <1>3, <1>4

-----------------------------------------------------------------------------
(* What a step of a node means to the others: what it says (its mailboxes) *)
(* and what it has heard (its tables and its queue).                       *)

\* An event of a kind in K of p waits in the queue of s.
Heard(s, p, K) ==
    \E j \in 1 .. Len(s.events) : s.events[j].type \in K /\ s.events[j].peer = p

\* Nothing new of p: it is known as before, or no longer ready.
EarKept(s, t, p) ==
    /\ p \in t.ready => p \in s.ready /\ t.member[p] = s.member[p]
    /\ \A K \in SUBSET Talk : Heard(t, p, K) => Heard(s, p, K)

\* Nothing new for n.
MouthKept(s, t, n) ==
    /\ t.own = s.own /\ (t.state = "gone" <=> s.state = "gone")
    /\ (n \in t.peers <=> n \in s.peers) /\ t.out[n] = s.out[n]

\* A HELLO for n; the end of all mailboxes to n.
Greets(s, t, n) ==
    /\ t.own = s.own /\ t.state = s.state
    /\ n \notin s.peers /\ n \in t.peers /\ t.out[n] = Append(s.out[n], Hello(s.own))

Cuts(s, t, n) ==
    /\ t.own = s.own /\ t.state = s.state
    /\ n \notin t.peers /\ t.out[n] = <<>>

\* t is s after it has taken an event or sent messages of a kind in K.
Talks(s, t, K) ==
    /\ t \in NodeState /\ Alike(s, t)
    /\ t.events = s.events \/ (s.events # <<>> /\ t.events = Tail(s.events))
    /\ \A m \in Node :
        \/ t.out[m] = s.out[m]
        \/ m \in s.peers /\ \E msg \in Message : msg.id \in K /\ t.out[m] = Append(s.out[m], msg)

LEMMA HeardTail ==
    ASSUME NEW s \in NodeState, NEW t \in NodeState, NEW p, NEW K, Heard(t, p, K),
           t.events = s.events \/ (s.events # <<>> /\ t.events = Tail(s.events))
    PROVE  Heard(s, p, K)
<1>1. s.events \in Seq(Notice) /\ t.events \in Seq(Notice)
  BY DEF NodeState
<1>2. CASE t.events = s.events
  BY <1>2 DEF Heard
<1>3. CASE s.events # <<>> /\ t.events = Tail(s.events)
  <2>1. PICK j \in 1 .. Len(t.events) : t.events[j].type \in K /\ t.events[j].peer = p
    BY DEF Heard
  <2>2. j + 1 \in 1 .. Len(s.events) /\ s.events[j + 1] = t.events[j]
    BY <1>1, <1>3, <2>1
  <2> QED BY <2>1, <2>2 DEF Heard
<1> QED BY <1>2, <1>3

LEMMA HeardTell ==
    ASSUME NEW s \in NodeState, NEW t, NEW event \in Notice, NEW p, NEW K, Heard(t, p, K),
           t.events = Append(s.events, event), ~(event.type \in K /\ event.peer = p)
    PROVE  Heard(s, p, K)
<1>1. s.events \in Seq(Notice)
  BY DEF NodeState
<1>2. PICK j \in 1 .. Len(t.events) : t.events[j].type \in K /\ t.events[j].peer = p
  BY DEF Heard
<1>3. j \in 1 .. Len(s.events) /\ s.events[j] = t.events[j]
  BY <1>1, <1>2
<1> QED BY <1>2, <1>3 DEF Heard

LEMMA TalksEar ==
    ASSUME NEW s \in NodeState, NEW t, NEW K, Talks(s, t, K), NEW p
    PROVE  EarKept(s, t, p)
<1>1. \A L \in SUBSET Talk : Heard(t, p, L) => Heard(s, p, L)
  BY HeardTail DEF Talks
<1> QED BY <1>1 DEF Talks, Alike, EarKept

LEMMA TalksGood ==
    ASSUME NEW n \in Node, NEW s, Good(n, s), NEW t, NEW K, Talks(s, t, K)
    PROVE  Good(n, t)
BY DEF Talks, Alike, Good

\* zyre_recv by a client
LEMMA TakenTalks ==
    ASSUME NEW s \in NodeState, s.events # <<>>, NEW K
    PROVE  Talks(s, Taken(s), K)
BY TakenFacts DEF Talks

LEMMA StaysTalks ==
    ASSUME NEW s \in NodeState, NEW K PROVE Talks(s, s, K)
BY DEF Talks, Alike

\* zyre_whispers, zyre_shouts
LEMMA WhisperTalks ==
    ASSUME NEW s \in NodeState, NEW m, NEW text \in Word
    PROVE  Talks(s, Whisper(s, m, text), {"WHISPER"}) /\ Whisper(s, m, text).events = s.events
<1> DEFINE msg == Msg("WHISPER", Blank, text)
           t == Put(s, s.peers \cap {m}, msg)
<1>1. msg \in Message /\ msg.id = "WHISPER"
  <2>1. Blank \in Word
    BY Words
  <2> QED BY <2>1 DEF Message, Msg
<1>2. Whisper(s, m, text) = t
  BY DEF Whisper
<1> HIDE DEF msg
<1>3. /\ t \in NodeState /\ Alike(s, t) /\ t.events = s.events
      /\ \A n \in Node : t.out[n] = IF n \in s.peers \cap {m} THEN Append(s.out[n], msg)
                                                            ELSE s.out[n]
  BY <1>1, PutFacts
<1> HIDE DEF t
<1>4. \A n \in Node :
        \/ t.out[n] = s.out[n]
        \/ n \in s.peers /\ \E x \in Message : x.id \in {"WHISPER"} /\ t.out[n] = Append(s.out[n], x)
  BY <1>1, <1>3
<1> QED BY <1>2, <1>3, <1>4 DEF Talks

LEMMA ShoutTalks ==
    ASSUME NEW n, NEW s, Good(n, s), NEW g \in Word, NEW text \in Word
    PROVE  Talks(s, Shout(s, g, text), {"SHOUT"}) /\ Shout(s, g, text).events = s.events
<1> DEFINE msg == Msg("SHOUT", g, text)
           t == Put(s, InGroup(s, g), msg)
<1>1. msg \in Message /\ msg.id = "SHOUT"
  BY DEF Message, Msg
<1>2. Shout(s, g, text) = t
  BY DEF Shout
<1>3. s \in NodeState /\ \A m \in InGroup(s, g) : m \in s.peers
  BY DEF Good, InGroup
<1> HIDE DEF msg
<1>4. /\ t \in NodeState /\ Alike(s, t) /\ t.events = s.events
      /\ \A m \in Node : t.out[m] = IF m \in InGroup(s, g) THEN Append(s.out[m], msg)
                                                           ELSE s.out[m]
  BY <1>1, <1>3, PutFacts
<1> HIDE DEF t
<1>5. \A m \in Node :
        \/ t.out[m] = s.out[m]
        \/ m \in s.peers /\ \E x \in Message : x.id \in {"SHOUT"} /\ t.out[m] = Append(s.out[m], x)
  BY <1>1, <1>3, <1>4
<1> QED BY <1>2, <1>4, <1>5 DEF Talks

\* An event taken, and an answer.
LEMMA TakenThen ==
    ASSUME NEW s \in NodeState, s.events # <<>>, NEW K, NEW t,
           Talks(Taken(s), t, K), t.events = Taken(s).events
    PROVE  Talks(s, t, K)
<1> DEFINE u == Taken(s)
<1>1. Alike(s, u) /\ u.out = s.out /\ u.events = Tail(s.events)
  BY TakenFacts
<1> HIDE DEF u
<1>2. Talks(u, t, K) /\ t.events = u.events
  BY DEF u
<1> QED BY <1>1, <1>2 DEF Talks, Alike

LEMMA TalksMore ==
    ASSUME NEW s, NEW t, NEW K, NEW L, K \subseteq L, Talks(s, t, K)
    PROVE  Talks(s, t, L)
BY DEF Talks

LEMMA TakenGood ==
    ASSUME NEW n \in Node, NEW s, Good(n, s), s.events # <<>>
    PROVE  Good(n, Taken(s)) /\ Taken(s) \in NodeState /\ s.events \in Seq(Notice)
           /\ Head(s.events) \in Notice
<1>1. s \in NodeState
  BY DEF Good
<1>2. Talks(s, Taken(s), {})
  BY <1>1, TakenTalks
<1> QED BY <1>1, <1>2, TalksGood, TakenFacts DEF NodeState

-----------------------------------------------------------------------------
\* No message of a kind in K is on its way to m.
Mute(s, m, K) == \A j \in 1 .. Len(s.out[m]) : s.out[m][j].id \notin K

\* What the mailboxes hold when one message is added to some.
Posts(s, t, S, msg) ==
    \A m \in Node : t.out[m] = IF m \in S THEN Append(s.out[m], msg) ELSE s.out[m]

LEMMA MuteAppend ==
    ASSUME NEW s \in NodeState, NEW t \in NodeState, NEW m \in Node, NEW K, Mute(s, m, K),
           NEW msg \in Message, msg.id \notin K,
           t.out[m] = s.out[m] \/ t.out[m] = Append(s.out[m], msg)
    PROVE  Mute(t, m, K)
<1> DEFINE q == s.out[m]
           r == t.out[m]
<1>1. q \in Seq(Message) /\ (r = q \/ r = Append(q, msg)) /\ \A j \in 1 .. Len(q) : q[j].id \notin K
  BY DEF NodeState, Mute
<1> HIDE DEF q, r
<1>2. ASSUME NEW j \in 1 .. Len(r) PROVE r[j].id \notin K
  <2>1. (j \in 1 .. Len(q) /\ r[j] = q[j]) \/ r[j] = msg
    BY <1>1
  <2> QED BY <1>1, <2>1
<1> QED BY <1>2 DEF Mute, r

LEMMA MuteTalks ==
    ASSUME NEW s \in NodeState, NEW t, NEW L, Talks(s, t, L), NEW m \in Node,
           NEW K, Mute(s, m, K), K \cap L = {}
    PROVE  Mute(t, m, K)
<1>1. CASE t.out[m] = s.out[m]
  BY <1>1 DEF Mute
<1>2. CASE t.out[m] # s.out[m]
  <2>1. PICK msg \in Message : msg.id \in L /\ t.out[m] = Append(s.out[m], msg)
    BY <1>2 DEF Talks
  <2>2. t \in NodeState /\ msg.id \notin K
    BY <2>1 DEF Talks
  <2> QED BY <2>1, <2>2, MuteAppend
<1> QED BY <1>1, <1>2

\* zyre_start
LEMMA StartFacts ==
    ASSUME NEW n \in Node, NEW s, Good(n, s)
    PROVE  /\ Good(n, Start(s)) /\ Start(s).state = "up"
           /\ Start(s).own = s.own /\ Start(s).peers = s.peers /\ Start(s).out = s.out
           /\ \A p : EarKept(s, Start(s), p)
<1>1. /\ Start(s).own = s.own /\ Start(s).peers = s.peers /\ Start(s).out = s.out
      /\ Start(s).ready = s.ready /\ Start(s).member = s.member
      /\ Start(s).events = s.events /\ Start(s).state = "up" /\ Start(s) \in NodeState
  BY DEF Good, NodeState, Start
<1>2. \A p : EarKept(s, Start(s), p)
  BY <1>1 DEF EarKept, Heard
<1> QED BY <1>1, <1>2 DEF Good

\* zyre_join, zyre_leave
LEMMA OwnFacts ==
    ASSUME NEW s \in NodeState, NEW own \in SUBSET Groups
    PROVE  LET t == [s EXCEPT !.own = own] IN
           /\ t \in NodeState /\ t.own = own /\ t.state = s.state /\ t.peers = s.peers
           /\ t.ready = s.ready /\ t.member = s.member /\ t.out = s.out
           /\ t.events = s.events
BY DEF NodeState

\* What joining and leaving have in common.
Announces(s, t, msg) ==
    /\ t.state = s.state /\ t.peers = s.peers
    /\ t.out = s.out \/ Posts(s, t, s.peers, msg)
    /\ \A p : EarKept(s, t, p)

LEMMA Announced ==
    ASSUME NEW n \in Node, NEW s, Good(n, s), NEW own \in SUBSET Groups, NEW msg \in Message,
           NEW t, t = Put([s EXCEPT !.own = own], s.peers, msg)
    PROVE  Good(n, t) /\ t.own = own /\ Posts(s, t, s.peers, msg) /\ Announces(s, t, msg)
<1> DEFINE u == [s EXCEPT !.own = own]
<1>1. s \in NodeState
  BY DEF Good
<1>2. /\ u \in NodeState /\ u.own = own /\ u.state = s.state /\ u.peers = s.peers
      /\ u.ready = s.ready /\ u.member = s.member /\ u.out = s.out /\ u.events = s.events
  BY <1>1, OwnFacts
<1>3. t = Put(u, s.peers, msg)
  OBVIOUS
<1> HIDE DEF u
<1>4. /\ t \in NodeState /\ Alike(u, t) /\ t.events = u.events
      /\ \A m \in Node : t.out[m] = IF m \in s.peers THEN Append(u.out[m], msg) ELSE u.out[m]
  BY <1>2, <1>3, PutFacts
<1>5. \A p : EarKept(s, t, p)
  BY <1>2, <1>4 DEF EarKept, Heard, Alike
<1>6. Posts(s, t, s.peers, msg)
  BY <1>2, <1>4 DEF Posts
<1>7. t.state = s.state /\ t.peers = s.peers /\ t.own = own /\ t.ready = s.ready
      /\ t.member = s.member
  BY <1>2, <1>4 DEF Alike
<1>8. Good(n, t)
  BY <1>4, <1>6, <1>7 DEF Good, Posts
<1> QED BY <1>5, <1>6, <1>7, <1>8 DEF Announces

LEMMA SameAnnounces ==
    ASSUME NEW s, NEW msg PROVE Announces(s, s, msg)
BY DEF Announces, EarKept

LEMMA JoinFacts ==
    ASSUME NEW n \in Node, NEW s, Good(n, s), NEW g \in Groups
    PROVE  /\ Good(n, Join(s, g)) /\ Join(s, g).own = s.own \cup {g}
           /\ Announces(s, Join(s, g), Msg("JOIN", g, Blank))
           /\ g \in s.own => Join(s, g) = s
           /\ g \notin s.own => Posts(s, Join(s, g), s.peers, Msg("JOIN", g, Blank))
<1>1. s.own \in SUBSET Groups
  BY DEF Good, NodeState
<1>2. CASE g \in s.own
  <2>1. Join(s, g) = s
    BY <1>2 DEF Join
  <2> QED BY <1>1, <1>2, <2>1, SameAnnounces
<1>3. CASE g \notin s.own
  <2> DEFINE own == s.own \cup {g}
             msg == Msg("JOIN", g, Blank)
  <2>1. own \in SUBSET Groups /\ msg \in Message
    <3>1. Blank \in Word
      BY Words
    <3> QED BY <1>1, <3>1 DEF Message, Msg
  <2>2. Join(s, g) = Put([s EXCEPT !.own = own], s.peers, msg)
    BY <1>3 DEF Join
  <2> HIDE DEF msg, own
  <2>3. /\ Good(n, Join(s, g)) /\ Join(s, g).own = own
        /\ Posts(s, Join(s, g), s.peers, msg) /\ Announces(s, Join(s, g), msg)
    BY <2>1, <2>2, Announced
  <2> QED BY <1>3, <2>3 DEF own, msg
<1> QED BY <1>2, <1>3

LEMMA LeaveFacts ==
    ASSUME NEW n \in Node, NEW s, Good(n, s), NEW g \in Groups
    PROVE  Good(n, Leave(s, g)) /\ Announces(s, Leave(s, g), Msg("LEAVE", g, Blank))
<1>1. s.own \in SUBSET Groups
  BY DEF Good, NodeState
<1>2. CASE g \notin s.own
  <2>1. Leave(s, g) = s
    BY <1>2 DEF Leave
  <2> QED BY <2>1, SameAnnounces
<1>3. CASE g \in s.own
  <2> DEFINE own == s.own \ {g}
             msg == Msg("LEAVE", g, Blank)
  <2>1. own \in SUBSET Groups /\ msg \in Message
    <3>1. Blank \in Word
      BY Words
    <3> QED BY <1>1, <3>1 DEF Message, Msg
  <2>2. Leave(s, g) = Put([s EXCEPT !.own = own], s.peers, msg)
    BY <1>3 DEF Leave
  <2> HIDE DEF msg, own
  <2>3. Good(n, Leave(s, g)) /\ Announces(s, Leave(s, g), msg)
    BY <2>1, <2>2, Announced
  <2> QED BY <2>3 DEF msg
<1> QED BY <1>2, <1>3

\* An event of the node itself, or one that is no talk.
LEMMA TellEar ==
    ASSUME NEW s \in NodeState, NEW event \in Notice, event.type \notin Talk,
           NEW t, t.events = Append(s.events, event), NEW p,
           p \in t.ready => p \in s.ready /\ t.member[p] = s.member[p]
    PROVE  EarKept(s, t, p)
<1>1. ASSUME NEW K \in SUBSET Talk, Heard(t, p, K) PROVE Heard(s, p, K)
  <2>1. event.type \notin K
    OBVIOUS
  <2> QED BY <1>1, <2>1, HeardTell
<1> QED BY <1>1 DEF EarKept

\* zyre_stop
LEMMA StopFacts ==
    ASSUME NEW n \in Node, NEW s, Good(n, s), NEW gossip \in BOOLEAN
    PROVE  /\ Good(n, Stop(n, s, gossip)) /\ \A p : EarKept(s, Stop(n, s, gossip), p)
           /\ \/ Stop(n, s, gossip).out = s.out
              \/ Posts(s, Stop(n, s, gossip), s.peers, Msg("GOODBYE", Blank, Blank))
<1> DEFINE msg == Msg("GOODBYE", Blank, Blank)
           event == Event("STOP", n, Blank, Blank)
           said == IF gossip THEN Put(s, s.peers, msg) ELSE s
           still == [said EXCEPT !.state = "stopped"]
           t == Tell(still, event)
<1>1. msg \in Message /\ event \in Notice /\ event.type = "STOP"
  <2>1. Blank \in Word /\ "STOP" \in Word
    BY Words
  <2> QED BY <2>1 DEF Message, Msg, Notice, Event
<1>2. Stop(n, s, gossip) = t
  BY DEF Stop
<1>3. s \in NodeState
  BY DEF Good
<1> HIDE DEF msg, event
<1>4. /\ said \in NodeState /\ Alike(s, said) /\ said.events = s.events
      /\ said.out = s.out \/ Posts(s, said, s.peers, msg)
  <2>1. CASE gossip
    <3>1. said = Put(s, s.peers, msg)
      BY <2>1
    <3> HIDE DEF said
    <3> QED BY <1>1, <1>3, <3>1, PutFacts DEF Posts
  <2>2. CASE ~gossip
    BY <1>3, <2>2 DEF Alike
  <2> QED BY <2>1, <2>2
<1> HIDE DEF said
<1>5. /\ still \in NodeState /\ still.ready = said.ready /\ still.member = said.member
      /\ still.peers = said.peers /\ still.out = said.out /\ still.events = said.events
  BY <1>4 DEF NodeState
<1> HIDE DEF still
<1>6. /\ t \in NodeState /\ Alike(still, t) /\ t.out = still.out
      /\ t.events = Append(still.events, event)
  BY <1>1, <1>5, TellFacts
<1> HIDE DEF t
<1>7. t.ready = s.ready /\ t.member = s.member /\ t.peers = s.peers
  BY <1>4, <1>5, <1>6 DEF Alike
<1>8. t.events = Append(s.events, event) /\ event.type \notin Talk
  BY <1>1, <1>4, <1>5, <1>6 DEF Talk
<1>9. \A p : EarKept(s, t, p)
  BY <1>1, <1>3, <1>7, <1>8, TellEar
<1>10. t.out = s.out \/ Posts(s, t, s.peers, msg)
  BY <1>4, <1>5, <1>6 DEF Posts
<1>11. Good(n, t)
  BY <1>6, <1>7, <1>10 DEF Good, Posts
<1> QED BY <1>2, <1>9, <1>10, <1>11 DEF msg

\* zyre_destroy
LEMMA DestroyedFacts ==
    ASSUME NEW n \in Node, NEW s, Good(n, s), NEW kept \in Keeps(s)
    PROVE  LET t == Destroyed(s, kept) IN
           /\ Good(n, t) /\ t.state = "gone" /\ t.own = {} /\ t.peers = {}
           /\ t.ready = {} /\ t.member = [m \in Node |-> {}] /\ t.events = <<>>
           /\ \A m \in Node : t.out[m] = s.out[m] \/ t.out[m] = <<>>
           /\ \A p : EarKept(s, t, p)
<1> DEFINE t == Destroyed(s, kept)
           box == [m \in Node |-> SubSeq(s.out[m], 1, kept[m])]
<1>0. t = [state |-> "gone", own |-> {}, peers |-> {}, ready |-> {},
           member |-> [m \in Node |-> {}], out |-> box, events |-> <<>>,
           impatient |-> FALSE, due |-> {}]
  <2> DEFINE none == [m \in Node |-> {}]
             empty == [m \in Node |-> <<>>]
  <2>1. NoNode = [state |-> "new", own |-> {}, peers |-> {}, ready |-> {},
                  member |-> none, out |-> empty, events |-> <<>>,
                  impatient |-> FALSE, due |-> {}]
    BY DEF NoNode
  <2>2. t = [NoNode EXCEPT !.state = "gone", !.out = box]
    BY DEF Destroyed
  <2> HIDE DEF none, empty, box, t
  <2>3. t = [state |-> "gone", own |-> {}, peers |-> {}, ready |-> {},
             member |-> none, out |-> box, events |-> <<>>,
             impatient |-> FALSE, due |-> {}]
    BY <2>1, <2>2
  <2> QED BY <2>3 DEF none
<1>1. /\ t.state = "gone" /\ t.own = {} /\ t.peers = {} /\ t.ready = {}
      /\ t.member = [m \in Node |-> {}] /\ t.events = <<>> /\ t.out = box
      /\ t.impatient = FALSE /\ t.due = {}
  <2> HIDE DEF box, t
  <2> QED BY <1>0
<1>2. \A m \in Node : box[m] = s.out[m] \/ box[m] = <<>>
  <2> TAKE m \in Node
  <2>1. s.out[m] \in Seq(Message)
    BY DEF Good, NodeState
  <2>2. box[m] = SubSeq(s.out[m], 1, kept[m]) /\ (kept[m] = Len(s.out[m]) \/ kept[m] = 0)
    BY DEF Keeps
  <2> QED BY <2>1, <2>2
<1>3. box \in [Node -> Seq(Message)]
  <2>1. \A m \in Node : s.out[m] \in Seq(Message) /\ <<>> \in Seq(Message)
    BY DEF Good, NodeState
  <2> QED BY <1>2, <2>1
<1>4. \A m \in Node : t.out[m] = s.out[m] \/ t.out[m] = <<>>
  BY <1>1, <1>2
<1> HIDE DEF box
<1>5. t \in NodeState
  <2>1. <<>> \in Seq(Notice)
    OBVIOUS
  <2> HIDE DEF t
  <2> QED BY <1>0, <1>3, <2>1 DEF NodeState
<1> HIDE DEF t
<1>6. Good(n, t)
  BY <1>1, <1>4, <1>5 DEF Good
<1>7. \A p : EarKept(s, t, p)
  BY <1>1 DEF EarKept, Heard
<1> QED BY <1>1, <1>4, <1>6, <1>7 DEF t

-----------------------------------------------------------------------------
\* zyre_node_require_peer
LEMMA RequirePeerFacts ==
    ASSUME NEW n \in Node, NEW s, Good(n, s), NEW m \in Node \ {n},
           NEW t, t = RequirePeer(s, m)
    PROVE  /\ Good(n, t) /\ m \in t.peers
           /\ t.ready = s.ready /\ t.member = s.member /\ t.events = s.events
           /\ \A p \in Node \ {m} : MouthKept(s, t, p)
           /\ IF m \in s.peers THEN t = s ELSE Greets(s, t, m)
<1>1. CASE m \in s.peers
  <2>1. t = s
    BY <1>1 DEF RequirePeer
  <2> QED BY <1>1, <2>1 DEF MouthKept
<1>2. CASE m \notin s.peers
  <2> DEFINE u == [s EXCEPT !.peers = @ \cup {m}]
             msg == Hello(s.own)
  <2>1. t = Put(u, {m}, msg)
    BY <1>2 DEF RequirePeer
  <2>2. s \in NodeState /\ msg \in Message
    BY DEF Good, NodeState, Message, Hello
  <2>3. /\ u \in NodeState /\ u.state = s.state /\ u.own = s.own
        /\ u.peers = s.peers \cup {m} /\ u.ready = s.ready /\ u.member = s.member
        /\ u.out = s.out /\ u.events = s.events
    BY <2>2 DEF NodeState
  <2> HIDE DEF u, msg
  <2>4. /\ t \in NodeState /\ Alike(u, t) /\ t.events = u.events
        /\ \A p \in Node : t.out[p] = IF p \in {m} THEN Append(u.out[p], msg) ELSE u.out[p]
    BY <2>1, <2>2, <2>3, PutFacts
  <2>5. /\ t.state = s.state /\ t.own = s.own /\ t.peers = s.peers \cup {m}
        /\ t.ready = s.ready /\ t.member = s.member /\ t.events = s.events
        /\ \A p \in Node : t.out[p] = IF p = m THEN Append(s.out[p], msg) ELSE s.out[p]
    BY <2>3, <2>4 DEF Alike
  <2>6. Good(n, t)
    BY <2>4, <2>5 DEF Good
  <2>7. \A p \in Node \ {m} : MouthKept(s, t, p)
    BY <2>5 DEF MouthKept
  <2>8. Greets(s, t, m)
    BY <1>2, <2>5 DEF Greets, msg
  <2> QED BY <1>2, <2>5, <2>6, <2>7, <2>8
<1> QED BY <1>1, <1>2

\* zyre_node_remove_peer
LEMMA RemovePeerFacts ==
    ASSUME NEW n \in Node, NEW s, Good(n, s), NEW m \in Node \ {n},
           NEW t, t = RemovePeer(s, m)
    PROVE  /\ Good(n, t) /\ Cuts(s, t, m)
           /\ \A p \in Node \ {m} : MouthKept(s, t, p)
           /\ \A p \in Node : EarKept(s, t, p)
<1> DEFINE event == Event("EXIT", m, Blank, Blank)
           u == [s EXCEPT !.peers = @ \ {m}, !.ready = @ \ {m}, !.due = @ \ {m},
                          !.member[m] = {}, !.out[m] = <<>>]
<1>1. event \in Notice /\ event.type = "EXIT"
  <2>1. Blank \in Word /\ "EXIT" \in Word
    BY Words
  <2> QED BY <2>1 DEF Notice, Event
<1>2. t = Tell(u, event)
  BY DEF RemovePeer
<1>3. s \in NodeState
  BY DEF Good
<1> HIDE DEF event
<1>4. /\ u \in NodeState /\ u.state = s.state /\ u.own = s.own
      /\ u.peers = s.peers \ {m} /\ u.ready = s.ready \ {m}
      /\ u.member = [s.member EXCEPT ![m] = {}] /\ u.out = [s.out EXCEPT ![m] = <<>>]
      /\ u.events = s.events
  <2>1. s.out \in [Node -> Seq(Message)] /\ <<>> \in Seq(Message)
        /\ s.member \in [Node -> SUBSET Groups]
    BY <1>3 DEF NodeState
  <2>2. [s.out EXCEPT ![m] = <<>>] \in [Node -> Seq(Message)]
    BY <2>1
  <2>3. [s.member EXCEPT ![m] = {}] \in [Node -> SUBSET Groups]
    BY <2>1
  <2> QED BY <1>3, <2>2, <2>3 DEF NodeState
<1> HIDE DEF u
<1>5. /\ t \in NodeState /\ Alike(u, t) /\ t.out = u.out
      /\ t.events = Append(u.events, event)
  BY <1>1, <1>2, <1>4, TellFacts
<1>6. /\ t.state = s.state /\ t.own = s.own /\ t.peers = s.peers \ {m}
      /\ t.ready = s.ready \ {m} /\ t.events = Append(s.events, event)
      /\ \A p \in Node : t.member[p] = IF p = m THEN {} ELSE s.member[p]
      /\ \A p \in Node : t.out[p] = IF p = m THEN <<>> ELSE s.out[p]
  BY <1>3, <1>4, <1>5 DEF Alike, NodeState
<1>7. Good(n, t)
  BY <1>5, <1>6 DEF Good
<1>8. Cuts(s, t, m)
  BY <1>6 DEF Cuts
<1>9. \A p \in Node \ {m} : MouthKept(s, t, p)
  BY <1>6 DEF MouthKept
<1>10. ASSUME NEW p \in Node PROVE EarKept(s, t, p)
  <2>1. event.type \notin Talk
    BY <1>1 DEF Talk
  <2>2. p \in t.ready => p \in s.ready /\ t.member[p] = s.member[p]
    BY <1>6
  <2> QED BY <1>1, <1>3, <1>6, <2>1, <2>2, TellEar
<1> QED BY <1>7, <1>8, <1>9, <1>10

\* zyre_node_join_peer_group, for some groups of a peer
Joined(s, t, m, groups) ==
    /\ t \in NodeState /\ t.state = s.state /\ t.own = s.own /\ t.peers = s.peers
    /\ t.ready = s.ready /\ t.out = s.out /\ t.impatient = s.impatient /\ t.due = s.due
    /\ t.member = [s.member EXCEPT ![m] = @ \cup groups]
    /\ \E joins \in Seq(Notice) :
         /\ t.events = s.events \o joins
         /\ \A i \in 1 .. Len(joins) : joins[i].type = "JOIN" /\ joins[i].peer = m

LEMMA JoinPeerGroupsFacts ==
    ASSUME NEW s \in NodeState, NEW m \in Node, NEW groups \in SUBSET Groups,
           NEW t, t = JoinPeerGroups(s, m, groups)
    PROVE  Joined(s, t, m, groups)
<1> DEFINE order == SetToSeq(groups)
           joins == [i \in 1 .. Cardinality(groups) |-> Event("JOIN", m, order[i], Blank)]
           member == [s.member EXCEPT ![m] = @ \cup groups]
           events == s.events \o joins
<1>1. /\ joins \in Seq(Notice)
      /\ \A i \in 1 .. Len(joins) : joins[i].type = "JOIN" /\ joins[i].peer = m
  BY JoinNotices
<1>2. t = [s EXCEPT !.member = member, !.events = events]
  BY DEF JoinPeerGroups
<1> HIDE DEF joins
<1>3. s.events \in Seq(Notice) /\ s.member \in [Node -> SUBSET Groups]
  BY DEF NodeState
<1>4. events \in Seq(Notice) /\ member \in [Node -> SUBSET Groups]
  BY <1>1, <1>3
<1>5. \E q \in Seq(Notice) :
        /\ events = s.events \o q
        /\ \A i \in 1 .. Len(q) : q[i].type = "JOIN" /\ q[i].peer = m
  BY <1>1
<1> HIDE DEF events, member
<1>6. /\ t \in NodeState /\ t.state = s.state /\ t.own = s.own /\ t.peers = s.peers
      /\ t.ready = s.ready /\ t.out = s.out /\ t.member = member /\ t.events = events
      /\ t.impatient = s.impatient /\ t.due = s.due
  BY <1>2, <1>4 DEF NodeState
<1> QED BY <1>5, <1>6 DEF Joined, member

-----------------------------------------------------------------------------
(* zyre_node_recv_peer                                                     *)

\* No more talk than before.
NoNews(s, t) == \A p, K : K \subseteq Talk /\ Heard(t, p, K) => Heard(s, p, K)

LEMMA NoNewsTold ==
    ASSUME NEW s \in NodeState, NEW event \in Notice, event.type \notin Talk,
           NEW t, t.events = Append(s.events, event)
    PROVE  NoNews(s, t)
<1>1. ASSUME NEW p, NEW K, K \subseteq Talk, Heard(t, p, K) PROVE Heard(s, p, K)
  <2>1. event.type \notin K
    BY <1>1
  <2> QED BY <1>1, <2>1, HeardTell
<1> QED BY <1>1 DEF NoNews

LEMMA NoNewsJoins ==
    ASSUME NEW s \in NodeState, NEW t, NEW joins \in Seq(Notice), t.events = s.events \o joins,
           \A i \in 1 .. Len(joins) : joins[i].type = "JOIN"
    PROVE  NoNews(s, t)
<1>1. s.events \in Seq(Notice)
  BY DEF NodeState
<1>2. ASSUME NEW p, NEW K, K \subseteq Talk, Heard(t, p, K) PROVE Heard(s, p, K)
  <2>1. PICK j \in 1 .. Len(t.events) : t.events[j].type \in K /\ t.events[j].peer = p
    BY <1>2 DEF Heard
  <2>2. t.events[j].type # "JOIN"
    BY <1>2, <2>1 DEF Talk
  <2>3. j \in 1 .. Len(s.events) /\ s.events[j] = t.events[j]
    <3>1. \/ j \in 1 .. Len(s.events) /\ s.events[j] = t.events[j]
          \/ j - Len(s.events) \in 1 .. Len(joins) /\ t.events[j] = joins[j - Len(s.events)]
      BY <1>1, <2>1
    <3> QED BY <2>2, <3>1
  <2> QED BY <2>1, <2>3 DEF Heard
<1> QED BY <1>2 DEF NoNews

LEMMA NoNewsSame ==
    ASSUME NEW s, NEW t, t.events = s.events PROVE NoNews(s, t)
BY DEF NoNews, Heard

LEMMA NoNewsThen ==
    ASSUME NEW s, NEW t, NEW u, NoNews(s, t), NoNews(t, u) PROVE NoNews(s, u)
BY DEF NoNews

\* What n has heard of p when nothing new has come and its tables agree.
LEMMA NoNewsEar ==
    ASSUME NEW s, NEW t, NEW p, NoNews(s, t), p \in t.ready => p \in s.ready /\ t.member[p] = s.member[p]
    PROVE  EarKept(s, t, p)
BY DEF NoNews, EarKept

LEMMA RefreshFacts ==
    ASSUME NEW n \in Node, NEW s, Good(n, s), NEW m \in Node, NEW t, t = Refresh(s, m)
    PROVE  /\ Good(n, t) /\ t.state = s.state /\ t.own = s.own /\ t.peers = s.peers
           /\ t.ready = s.ready /\ t.member = s.member /\ t.out = s.out
           /\ t.events = s.events
<1>1. t = s \/ t = [s EXCEPT !.due = @ \cup {m}]
  BY DEF Refresh
<1>2. s \in NodeState
  BY DEF Good
<1>3. /\ t \in NodeState /\ t.state = s.state /\ t.own = s.own /\ t.peers = s.peers
      /\ t.ready = s.ready /\ t.member = s.member /\ t.out = s.out
      /\ t.events = s.events
  <2>1. CASE t = s
    BY <1>2, <2>1
  <2>2. CASE t = [s EXCEPT !.due = @ \cup {m}]
    <3> DEFINE due == s.due \cup {m}
    <3>1. due \in SUBSET Node
      BY <1>2 DEF NodeState
    <3>2. t = [s EXCEPT !.due = due]
      BY <2>2
    <3> HIDE DEF due
    <3> QED BY <1>2, <3>1, <3>2 DEF NodeState
  <2> QED BY <1>1, <2>1, <2>2
<1> QED BY <1>3 DEF Good

\* What a HELLO with these groups does.
Welcomes(s, t, m, groups) ==
    /\ t.ready = s.ready \cup {m}
    /\ t.member = [s.member EXCEPT ![m] = @ \cup groups]
    /\ NoNews(s, t)
    /\ \A p \in Node \ {m} : MouthKept(s, t, p)
    /\ IF m \in s.peers THEN MouthKept(s, t, m) ELSE Greets(s, t, m)

LEMMA RecvHelloFacts ==
    ASSUME NEW n \in Node, NEW s, Good(n, s), NEW m \in Node \ {n}, NEW msg,
           msg.groups \in SUBSET Groups, NEW t, t = RecvHello(s, m, msg)
    PROVE  Good(n, t) /\ Welcomes(s, t, m, msg.groups)
<1> DEFINE a == RequirePeer(s, m)
           b == [a EXCEPT !.ready = @ \cup {m}]
           event == Event("ENTER", m, Blank, Blank)
           c == Tell(b, event)
<1>1. t = JoinPeerGroups(c, m, msg.groups)
  BY DEF RecvHello
<1>2. /\ Good(n, a) /\ m \in a.peers
      /\ a.ready = s.ready /\ a.member = s.member /\ a.events = s.events
      /\ \A p \in Node \ {m} : MouthKept(s, a, p)
      /\ IF m \in s.peers THEN a = s ELSE Greets(s, a, m)
  BY RequirePeerFacts
<1> HIDE DEF a
<1>3. /\ b \in NodeState /\ b.state = a.state /\ b.own = a.own /\ b.peers = a.peers
      /\ b.ready = a.ready \cup {m} /\ b.member = a.member /\ b.out = a.out
      /\ b.events = a.events
  BY <1>2 DEF Good, NodeState
<1> HIDE DEF b
<1>4. event \in Notice /\ event.type = "ENTER"
  <2>1. Blank \in Word /\ "ENTER" \in Word
    BY Words
  <2> QED BY <2>1 DEF Notice, Event
<1> HIDE DEF event
<1>5. /\ c \in NodeState /\ Alike(b, c) /\ c.out = b.out
      /\ c.events = Append(b.events, event)
  BY <1>3, <1>4, TellFacts
<1> HIDE DEF c
<1>6. /\ t \in NodeState /\ t.state = c.state /\ t.own = c.own /\ t.peers = c.peers
      /\ t.ready = c.ready /\ t.out = c.out
      /\ t.member = [c.member EXCEPT ![m] = @ \cup msg.groups]
      /\ \E joins \in Seq(Notice) :
           /\ t.events = c.events \o joins
           /\ \A i \in 1 .. Len(joins) : joins[i].type = "JOIN"
  <2>1. Joined(c, t, m, msg.groups)
    BY <1>1, <1>5, JoinPeerGroupsFacts
  <2> QED BY <2>1 DEF Joined
<1>7. /\ t.state = a.state /\ t.own = a.own /\ t.peers = a.peers /\ t.out = a.out
      /\ t.ready = s.ready \cup {m} /\ t.member = [s.member EXCEPT ![m] = @ \cup msg.groups]
  BY <1>2, <1>3, <1>5, <1>6 DEF Alike
<1>8. Good(n, t)
  <2>1. s.member \in [Node -> SUBSET Groups]
    BY DEF Good, NodeState
  <2>2. \A p \in Node : t.member[p] # {} => p \in t.ready
    BY <1>7, <2>1 DEF Good
  <2>3. t.ready \subseteq t.peers
    BY <1>2, <1>7 DEF Good
  <2> QED BY <1>2, <1>6, <1>7, <2>2, <2>3 DEF Good
<1>9. NoNews(s, t)
  <2>1. NoNews(s, b)
    BY <1>2, <1>3, NoNewsSame
  <2>2. NoNews(b, c)
    BY <1>3, <1>4, <1>5, NoNewsTold DEF Talk
  <2>3. NoNews(c, t)
    BY <1>5, <1>6, NoNewsJoins
  <2> QED BY <2>1, <2>2, <2>3, NoNewsThen
<1>10. \A p \in Node \ {m} : MouthKept(s, t, p)
  BY <1>2, <1>7 DEF MouthKept
<1>11. IF m \in s.peers THEN MouthKept(s, t, m) ELSE Greets(s, t, m)
  BY <1>2, <1>7 DEF MouthKept, Greets
<1> QED BY <1>7, <1>8, <1>9, <1>10, <1>11 DEF Welcomes

\* What taking msg from m's mailbox does to a node, in the eyes of the others.
Takes(s, t, m, msg) ==
    /\ \A p \in Node \ {m} : MouthKept(s, t, p) /\ EarKept(s, t, p)
    /\ MouthKept(s, t, m) \/ Greets(s, t, m) \/ Cuts(s, t, m)
    /\ \/ msg.id # "HELLO" /\ m \notin t.ready /\ EarKept(s, t, m)
       \/ /\ msg.id = "HELLO" /\ NoNews(s, t)
          /\ m \in t.ready /\ t.member[m] = s.member[m] \cup msg.groups
       \/ /\ msg.id = "JOIN" /\ NoNews(s, t)
          /\ m \in s.ready /\ t.member[m] = s.member[m] \cup {msg.group}
       \/ msg.id = "LEAVE" /\ NoNews(s, t)
       \/ /\ msg.id \in Talk /\ m \in s.ready
          /\ t.ready = s.ready /\ t.member = s.member
          /\ \A K \in SUBSET Talk : msg.id \notin K /\ Heard(t, m, K) => Heard(s, m, K)

LEMMA TakesSame ==
    ASSUME NEW s, NEW u, NEW m, NEW msg, Takes(s, u, m, msg), NEW t,
           t.state = u.state, t.own = u.own, t.peers = u.peers, t.ready = u.ready,
           t.member = u.member, t.out = u.out, t.events = u.events
    PROVE  Takes(s, t, m, msg)
<1>1. \A p, K : Heard(t, p, K) <=> Heard(u, p, K)
  BY DEF Heard
<1>2. \A p : EarKept(s, u, p) => EarKept(s, t, p)
  BY <1>1 DEF EarKept
<1>3. \A p : MouthKept(s, u, p) => MouthKept(s, t, p)
  BY DEF MouthKept
<1>4. Greets(s, u, m) => Greets(s, t, m)
  BY DEF Greets
<1>5. Cuts(s, u, m) => Cuts(s, t, m)
  BY DEF Cuts
<1>6. NoNews(s, u) => NoNews(s, t)
  BY <1>1 DEF NoNews
<1> QED BY <1>1, <1>2, <1>3, <1>4, <1>5, <1>6 DEF Takes

\* HELLO
LEMMA TakesHello ==
    ASSUME NEW n \in Node, NEW s, Good(n, s), NEW m \in Node \ {n}, NEW msg \in Message,
           msg.id = "HELLO", NEW t, t = RecvHello(s, m, msg)
    PROVE  Good(n, t) /\ Takes(s, t, m, msg)
<1>1. msg.groups \in SUBSET Groups
  BY DEF Message
<1>2. Good(n, t) /\ Welcomes(s, t, m, msg.groups)
  BY <1>1, RecvHelloFacts
<1>3. s.member \in [Node -> SUBSET Groups]
  BY DEF Good, NodeState
<1>4. ASSUME NEW p \in Node \ {m} PROVE EarKept(s, t, p)
  <2>1. p \in t.ready => p \in s.ready /\ t.member[p] = s.member[p]
    BY <1>2, <1>3 DEF Welcomes
  <2>2. NoNews(s, t)
    BY <1>2 DEF Welcomes
  <2> QED BY <2>1, <2>2, NoNewsEar
<1>5. m \in t.ready /\ t.member[m] = s.member[m] \cup msg.groups /\ NoNews(s, t)
  BY <1>2, <1>3 DEF Welcomes
<1>6. /\ \A p \in Node \ {m} : MouthKept(s, t, p)
      /\ MouthKept(s, t, m) \/ Greets(s, t, m)
  BY <1>2 DEF Welcomes
<1> QED BY <1>2, <1>4, <1>5, <1>6 DEF Takes

\* Nothing but the tables and the queue changes.
LEMMA TablesMouth ==
    ASSUME NEW s, NEW t, t.state = s.state, t.own = s.own, t.peers = s.peers, t.out = s.out
    PROVE  \A p : MouthKept(s, t, p)
BY DEF MouthKept

LEMMA TakesDropped ==
    ASSUME NEW n \in Node, NEW s, Good(n, s), NEW m \in Node \ {n}, NEW msg,
           msg.id # "HELLO", m \notin s.ready
    PROVE  Takes(s, s, m, msg)
BY DEF Takes, MouthKept, EarKept

LEMMA TakesJoin ==
    ASSUME NEW n \in Node, NEW s, Good(n, s), NEW m \in Node \ {n}, NEW msg \in Message,
           msg.id = "JOIN", m \in s.ready, NEW t, t = JoinPeerGroups(s, m, {msg.group})
    PROVE  Good(n, t) /\ Takes(s, t, m, msg)
<1>1. {msg.group} \in SUBSET Groups
  BY DEF Message
<1>2. s \in NodeState /\ s.member \in [Node -> SUBSET Groups]
  BY DEF Good, NodeState
<1>3. Joined(s, t, m, {msg.group})
  BY <1>1, <1>2, JoinPeerGroupsFacts
<1>4. /\ t \in NodeState /\ t.state = s.state /\ t.own = s.own /\ t.peers = s.peers
      /\ t.ready = s.ready /\ t.out = s.out
      /\ t.member = [s.member EXCEPT ![m] = @ \cup {msg.group}]
  BY <1>3 DEF Joined
<1>5. NoNews(s, t)
  <2>1. PICK joins \in Seq(Notice) :
            t.events = s.events \o joins /\ \A i \in 1 .. Len(joins) : joins[i].type = "JOIN"
    BY <1>3 DEF Joined
  <2> QED BY <1>2, <2>1, NoNewsJoins
<1>6. ASSUME NEW p \in Node \ {m} PROVE EarKept(s, t, p)
  <2>1. p \in t.ready => p \in s.ready /\ t.member[p] = s.member[p]
    BY <1>2, <1>4
  <2> QED BY <1>5, <2>1, NoNewsEar
<1>7. \A p : MouthKept(s, t, p)
  BY <1>4, TablesMouth
<1>8. Good(n, t)
  BY <1>2, <1>4 DEF Good
<1>9. t.member[m] = s.member[m] \cup {msg.group}
  BY <1>2, <1>4
<1> QED BY <1>5, <1>6, <1>7, <1>8, <1>9 DEF Takes

LEMMA TakesLeave ==
    ASSUME NEW n \in Node, NEW s, Good(n, s), NEW m \in Node \ {n}, NEW msg \in Message,
           msg.id = "LEAVE", m \in s.ready,
           NEW t, t = Tell([s EXCEPT !.member[m] = @ \ {msg.group}],
                           Event("LEAVE", m, msg.group, Blank))
    PROVE  Good(n, t) /\ Takes(s, t, m, msg)
<1> DEFINE member == [s.member EXCEPT ![m] = @ \ {msg.group}]
           u == [s EXCEPT !.member = member]
           event == Event("LEAVE", m, msg.group, Blank)
<1>1. s \in NodeState /\ s.member \in [Node -> SUBSET Groups]
  BY DEF Good, NodeState
<1>2. member \in [Node -> SUBSET Groups]
  BY <1>1
<1>3. event \in Notice /\ event.type = "LEAVE"
  <2>1. Blank \in Word /\ "LEAVE" \in Word /\ Groups \subseteq Word
    BY Words
  <2>2. msg.group \in Groups
    BY DEF Message
  <2> QED BY <2>1, <2>2 DEF Notice, Event
<1>4. t = Tell(u, event)
  OBVIOUS
<1> HIDE DEF event, member
<1>5. /\ u \in NodeState /\ u.state = s.state /\ u.own = s.own /\ u.peers = s.peers
      /\ u.ready = s.ready /\ u.member = member /\ u.out = s.out /\ u.events = s.events
  BY <1>1, <1>2 DEF NodeState
<1> HIDE DEF u
<1>6. /\ t \in NodeState /\ Alike(u, t) /\ t.out = u.out /\ t.events = Append(u.events, event)
  BY <1>3, <1>4, <1>5, TellFacts
<1>7. /\ t.state = s.state /\ t.own = s.own /\ t.peers = s.peers /\ t.ready = s.ready
      /\ t.member = member /\ t.out = s.out /\ t.events = Append(s.events, event)
  BY <1>5, <1>6 DEF Alike
<1>8. NoNews(s, t)
  <2>1. event.type \notin Talk
    BY <1>3 DEF Talk
  <2> QED BY <1>1, <1>3, <1>7, <2>1, NoNewsTold
<1>9. ASSUME NEW p \in Node \ {m} PROVE EarKept(s, t, p)
  <2>1. t.member[p] = s.member[p]
    BY <1>1, <1>7 DEF member
  <2> QED BY <1>7, <1>8, <2>1, NoNewsEar
<1>10. \A p : MouthKept(s, t, p)
  BY <1>7, TablesMouth
<1>11. Good(n, t)
  <2>1. \A p \in Node : t.member[p] # {} => p \in t.ready
    BY <1>1, <1>7 DEF Good, member
  <2> QED BY <1>6, <1>7, <2>1 DEF Good
<1> QED BY <1>8, <1>9, <1>10, <1>11 DEF Takes

LEMMA TakesGoodbye ==
    ASSUME NEW n \in Node, NEW s, Good(n, s), NEW m \in Node \ {n}, NEW msg,
           msg.id = "GOODBYE", NEW t, t = RemovePeer(s, m)
    PROVE  Good(n, t) /\ Takes(s, t, m, msg)
<1>1. /\ Good(n, t) /\ Cuts(s, t, m)
      /\ \A p \in Node \ {m} : MouthKept(s, t, p)
      /\ \A p \in Node : EarKept(s, t, p)
  BY RemovePeerFacts
<1>2. m \notin t.ready
  BY <1>1 DEF Good, Cuts
<1> QED BY <1>1, <1>2 DEF Takes

\* WHISPER, SHOUT
LEMMA TakesTalk ==
    ASSUME NEW n \in Node, NEW s, Good(n, s), NEW m \in Node \ {n}, NEW msg \in Message,
           msg.id \in Talk, m \in s.ready,
           NEW t, t = Tell(s, Event(msg.id, m, msg.group, msg.text))
    PROVE  Good(n, t) /\ Takes(s, t, m, msg)
<1> DEFINE event == Event(msg.id, m, msg.group, msg.text)
<1>1. s \in NodeState
  BY DEF Good
<1>2. event \in Notice /\ event.type = msg.id /\ event.peer = m
  <2>1. Talk \subseteq Word
    BY Words
  <2>2. msg.group \in Word /\ msg.text \in Word
    BY DEF Message, Talk
  <2> QED BY <2>1, <2>2 DEF Notice, Event
<1> HIDE DEF event
<1>3. /\ t \in NodeState /\ Alike(s, t) /\ t.out = s.out /\ t.events = Append(s.events, event)
  BY <1>1, <1>2, TellFacts DEF event
<1>4. ASSUME NEW p \in Node \ {m} PROVE EarKept(s, t, p)
  <2>1. ASSUME NEW K \in SUBSET Talk, Heard(t, p, K) PROVE Heard(s, p, K)
    <3>1. ~(event.type \in K /\ event.peer = p)
      BY <1>2
    <3> QED BY <1>1, <1>2, <1>3, <2>1, <3>1, HeardTell
  <2> QED BY <1>3, <2>1 DEF EarKept, Alike
<1>5. ASSUME NEW K \in SUBSET Talk, msg.id \notin K, Heard(t, m, K) PROVE Heard(s, m, K)
  <2>1. ~(event.type \in K /\ event.peer = m)
    BY <1>2, <1>5
  <2> QED BY <1>1, <1>2, <1>3, <1>5, <2>1, HeardTell
<1>6. \A p : MouthKept(s, t, p)
  BY <1>3, TablesMouth DEF Alike
<1>7. Good(n, t)
  BY <1>3 DEF Good, Alike
<1>8. t.ready = s.ready /\ t.member = s.member
  BY <1>3 DEF Alike
<1> QED BY <1>4, <1>5, <1>6, <1>7, <1>8 DEF Takes

\* zyre_node_recv_peer
LEMMA RecvFacts ==
    ASSUME NEW n \in Node, NEW s, Good(n, s), NEW m \in Node \ {n}, NEW msg \in Message
    PROVE  Good(n, Recv(s, m, msg)) /\ Takes(s, Recv(s, m, msg), m, msg)
<1> DEFINE u == CASE msg.id = "HELLO" -> RecvHello(s, m, msg)
                  [] msg.id # "HELLO" /\ m \in s.ready -> RecvFromReady(s, m, msg)
                  [] OTHER -> s
<1>1. Good(n, u) /\ Takes(s, u, m, msg)
  <2>1. CASE msg.id = "HELLO"
    <3>1. u = RecvHello(s, m, msg)
      BY <2>1
    <3> HIDE DEF u
    <3> QED BY <2>1, <3>1, TakesHello
  <2>2. CASE msg.id # "HELLO" /\ m \notin s.ready
    <3>1. u = s
      BY <2>2
    <3> HIDE DEF u
    <3> QED BY <2>2, <3>1, TakesDropped
  <2>3. CASE msg.id # "HELLO" /\ m \in s.ready
    <3>1. u = RecvFromReady(s, m, msg)
      BY <2>3
    <3> HIDE DEF u
    <3>2. CASE msg.id = "JOIN"
      <4>1. u = JoinPeerGroups(s, m, {msg.group})
        BY <3>1, <3>2 DEF RecvFromReady
      <4> QED BY <2>3, <3>2, <4>1, TakesJoin
    <3>3. CASE msg.id = "LEAVE"
      <4>1. u = Tell([s EXCEPT !.member[m] = @ \ {msg.group}],
                     Event("LEAVE", m, msg.group, Blank))
        BY <3>1, <3>3 DEF RecvFromReady
      <4> QED BY <2>3, <3>3, <4>1, TakesLeave
    <3>4. CASE msg.id = "GOODBYE"
      <4>1. u = RemovePeer(s, m)
        BY <3>1, <3>4 DEF RecvFromReady
      <4> QED BY <3>4, <4>1, TakesGoodbye
    <3>5. CASE msg.id \in {"WHISPER", "SHOUT"}
      <4>1. u = Tell(s, Event(msg.id, m, msg.group, msg.text))
        BY <3>1, <3>5 DEF RecvFromReady
      <4> QED BY <2>3, <3>5, <4>1, TakesTalk DEF Talk
    <3>6. msg.id \in {"HELLO", "JOIN", "LEAVE", "GOODBYE", "WHISPER", "SHOUT"}
      BY DEF Message
    <3> QED BY <2>3, <3>2, <3>3, <3>4, <3>5, <3>6
  <2> QED BY <2>1, <2>2, <2>3
<1>2. Recv(s, m, msg) = Refresh(u, m)
  BY DEF Recv
<1> HIDE DEF u
<1> DEFINE t == Refresh(u, m)
<1>3. /\ Good(n, t) /\ t.state = u.state /\ t.own = u.own /\ t.peers = u.peers
      /\ t.ready = u.ready /\ t.member = u.member /\ t.out = u.out
      /\ t.events = u.events
  BY <1>1, RefreshFacts
<1> HIDE DEF t
<1>4. Takes(s, t, m, msg)
  BY <1>1, <1>3, TakesSame
<1> QED BY <1>2, <1>3, <1>4 DEF t

-----------------------------------------------------------------------------
(* The channel from a speaker p, with node s, to n, with node r: whatever  *)
(* p says there went behind the message that made it a member of GLOBAL.   *)

Grants(msg) ==
    \/ msg.id = "HELLO" /\ "GLOBAL" \in msg.groups
    \/ msg.id = "JOIN" /\ msg.group = "GLOBAL"

\* As far as r knows p, it knows it as a member.
Greeted(r, p) == p \in r.ready => "GLOBAL" \in r.member[p]

\* What is in q at k, or would be, finds p a member when it arrives.
Granted(q, k, r, p) ==
    \/ \E j \in 1 .. (k - 1) : Grants(q[j])
    \/ Greeted(r, p) /\ (q = <<>> \/ q[1].id # "HELLO")

Channel(s, r, p, n) ==
    LET q == s.out[n] IN
    /\ n \notin s.peers /\ s.state # "gone" => q = <<>>
    /\ \A k \in 1 .. Len(q) : q[k].id # "LEAVE" /\ (k > 1 => q[k].id # "HELLO")
    /\ \A k \in 1 .. Len(q) : q[k].id \in Talk => Granted(q, k, r, p)
    /\ n \in s.peers /\ "GLOBAL" \in s.own => Granted(q, Len(q) + 1, r, p)
    /\ Heard(r, p, Talk) => Greeted(r, p) /\ (q # <<>> /\ q[1].id = "HELLO" => Grants(q[1]))
    /\ "GLOBAL" \notin s.own /\ s.state # "gone" => ~Heard(r, p, Talk) /\ Mute(s, n, Talk)

LEMMA EarGreeted ==
    ASSUME NEW r, NEW u, NEW p, EarKept(r, u, p)
    PROVE  /\ Greeted(r, p) => Greeted(u, p)
           /\ Heard(u, p, Talk) => Heard(r, p, Talk)
           /\ \A q, k : Granted(q, k, r, p) => Granted(q, k, u, p)
<1>1. Greeted(r, p) => Greeted(u, p)
  BY DEF EarKept, Greeted
<1>2. Heard(u, p, Talk) => Heard(r, p, Talk)
  BY DEF EarKept
<1> QED BY <1>1, <1>2 DEF Granted

\* Nothing said, nothing heard.
LEMMA ChannelKept ==
    ASSUME NEW s, NEW t, NEW r, NEW u, NEW p, NEW n, Channel(s, r, p, n),
           MouthKept(s, t, n), EarKept(r, u, p)
    PROVE  Channel(t, u, p, n)
<1> DEFINE q == s.out[n]
<1>1. t.out[n] = q
  BY DEF MouthKept
<1>2. Mute(s, n, Talk) => Mute(t, n, Talk)
  BY <1>1 DEF Mute
<1>3. /\ n \notin s.peers /\ s.state # "gone" => q = <<>>
      /\ \A k \in 1 .. Len(q) : q[k].id # "LEAVE" /\ (k > 1 => q[k].id # "HELLO")
      /\ \A k \in 1 .. Len(q) : q[k].id \in Talk => Granted(q, k, r, p)
      /\ n \in s.peers /\ "GLOBAL" \in s.own => Granted(q, Len(q) + 1, r, p)
      /\ Heard(r, p, Talk) => Greeted(r, p) /\ (q # <<>> /\ q[1].id = "HELLO" => Grants(q[1]))
      /\ "GLOBAL" \notin s.own /\ s.state # "gone" => ~Heard(r, p, Talk) /\ Mute(s, n, Talk)
  BY DEF Channel
<1> HIDE DEF q
<1>4. /\ n \notin t.peers /\ t.state # "gone" => q = <<>>
      /\ \A k \in 1 .. Len(q) : q[k].id # "LEAVE" /\ (k > 1 => q[k].id # "HELLO")
      /\ \A k \in 1 .. Len(q) : q[k].id \in Talk => Granted(q, k, u, p)
      /\ n \in t.peers /\ "GLOBAL" \in t.own => Granted(q, Len(q) + 1, u, p)
      /\ Heard(u, p, Talk) => Greeted(u, p) /\ (q # <<>> /\ q[1].id = "HELLO" => Grants(q[1]))
      /\ "GLOBAL" \notin t.own /\ t.state # "gone" => ~Heard(u, p, Talk) /\ Mute(t, n, Talk)
  BY <1>2, <1>3, EarGreeted DEF MouthKept
<1> QED BY <1>1, <1>4 DEF Channel

\* What is granted stays granted behind what is added.
LEMMA GrantedAppend ==
    ASSUME NEW q \in Seq(Message), NEW msg \in Message, NEW r, NEW p,
           NEW k \in 1 .. (Len(q) + 1), Granted(q, k, r, p), msg.id # "HELLO"
    PROVE  Granted(Append(q, msg), k, r, p)
<1> DEFINE w == Append(q, msg)
<1>1. \A j \in 1 .. Len(q) : w[j] = q[j]
  OBVIOUS
<1>2. Len(w) = Len(q) + 1 /\ w # <<>> /\ w[Len(q) + 1] = msg
  OBVIOUS
<1>3. CASE \E j \in 1 .. (k - 1) : Grants(q[j])
  <2>1. PICK j \in 1 .. (k - 1) : Grants(q[j])
    BY <1>3
  <2>2. Grants(w[j])
    BY <1>1, <2>1
  <2> HIDE DEF w
  <2> QED BY <2>1, <2>2 DEF Granted, w
<1>4. CASE Greeted(r, p) /\ (q = <<>> \/ q[1].id # "HELLO")
  <2>1. w[1].id # "HELLO"
    <3>1. CASE q = <<>>
      BY <1>2, <3>1
    <3>2. CASE q # <<>>
      <4>1. 1 \in 1 .. Len(q)
        BY <3>2
      <4> QED BY <1>1, <1>4, <3>2, <4>1
    <3> QED BY <3>1, <3>2
  <2> QED BY <1>4, <2>1 DEF Granted
<1> QED BY <1>3, <1>4 DEF Granted

\* A member says something.
LEMMA ChannelSays ==
    ASSUME NEW s \in NodeState, NEW t, NEW r, NEW p, NEW n \in Node, Channel(s, r, p, n),
           n \in s.peers, "GLOBAL" \in s.own, Alike(s, t),
           NEW msg \in Message, msg.id \in Talk, t.out[n] = Append(s.out[n], msg)
    PROVE  Channel(t, r, p, n)
<1> DEFINE q == s.out[n]
           w == Append(q, msg)
<1>1. /\ q \in Seq(Message)
      /\ \A k \in 1 .. Len(q) : q[k].id # "LEAVE" /\ (k > 1 => q[k].id # "HELLO")
      /\ \A k \in 1 .. Len(q) : q[k].id \in Talk => Granted(q, k, r, p)
      /\ Granted(q, Len(q) + 1, r, p)
      /\ Heard(r, p, Talk) => Greeted(r, p) /\ (q # <<>> /\ q[1].id = "HELLO" => Grants(q[1]))
  BY DEF Channel, NodeState
<1>2. t.peers = s.peers /\ t.own = s.own /\ t.out[n] = w
  BY DEF Alike
<1> HIDE DEF q
<1>3. /\ w \in Seq(Message) /\ Len(w) = Len(q) + 1 /\ w[Len(q) + 1] = msg
      /\ \A k \in 1 .. Len(q) : w[k] = q[k]
      /\ q # <<>> => w[1] = q[1]
      /\ q = <<>> => w[1] = msg
  BY <1>1
<1>4. msg.id \notin {"HELLO", "LEAVE"}
  BY DEF Talk
<1>5. \A k \in 1 .. (Len(q) + 1) : Granted(q, k, r, p) => Granted(w, k, r, p)
  BY <1>1, <1>4, GrantedAppend
<1>6. Len(q) \in Nat
  BY <1>1
<1> HIDE DEF w
<1>7. \A k \in 1 .. Len(w) : w[k].id # "LEAVE" /\ (k > 1 => w[k].id # "HELLO")
  BY <1>1, <1>3, <1>4, <1>6
<1>8. \A k \in 1 .. Len(w) : w[k].id \in Talk => Granted(w, k, r, p)
  <2> TAKE k \in 1 .. Len(w)
  <2>1. CASE k \in 1 .. Len(q)
    BY <1>1, <1>3, <1>5, <1>6, <2>1
  <2>2. CASE k = Len(q) + 1
    BY <1>1, <1>5, <1>6, <2>2
  <2> QED BY <1>3, <1>6, <2>1, <2>2
<1>9. Granted(w, Len(w) + 1, r, p)
  <2>1. Granted(w, Len(q) + 1, r, p)
    BY <1>1, <1>5, <1>6
  <2> QED BY <1>3, <1>6, <2>1 DEF Granted
<1>10. Heard(r, p, Talk) => Greeted(r, p) /\ (w # <<>> /\ w[1].id = "HELLO" => Grants(w[1]))
  BY <1>1, <1>3, <1>4
<1> QED BY <1>2, <1>7, <1>8, <1>9, <1>10 DEF Channel

\* p joins GLOBAL.
LEMMA ChannelJoins ==
    ASSUME NEW s \in NodeState, NEW t, NEW r, NEW p, NEW n \in Node, Channel(s, r, p, n),
           "GLOBAL" \notin s.own, s.state # "gone", t.state = s.state, t.peers = s.peers,
           t.own = s.own \cup {"GLOBAL"},
           Posts(s, t, s.peers, Msg("JOIN", "GLOBAL", Blank))
    PROVE  Channel(t, r, p, n)
<1> DEFINE q == s.out[n]
           msg == Msg("JOIN", "GLOBAL", Blank)
           w == Append(q, msg)
<1>0. msg \in Message /\ msg.id = "JOIN" /\ Grants(msg)
  <2>1. Blank \in Word /\ "GLOBAL" \in Groups
    BY Words DEF Groups
  <2> QED BY <2>1 DEF Message, Msg, Grants
<1>1. /\ q \in Seq(Message)
      /\ n \notin s.peers => q = <<>>
      /\ \A k \in 1 .. Len(q) : q[k].id # "LEAVE" /\ (k > 1 => q[k].id # "HELLO")
      /\ ~Heard(r, p, Talk)
      /\ \A k \in 1 .. Len(q) : q[k].id \notin Talk
  BY DEF Channel, NodeState, Mute
<1>2. t.out[n] = IF n \in s.peers THEN w ELSE q
  BY DEF Posts
<1> HIDE DEF q, msg
<1>3. /\ w \in Seq(Message) /\ Len(w) = Len(q) + 1 /\ w[Len(q) + 1] = msg
      /\ \A k \in 1 .. Len(q) : w[k] = q[k]
  BY <1>0, <1>1
<1>6. Len(q) \in Nat
  BY <1>1
<1> HIDE DEF w
<1>7. CASE n \in s.peers
  <2>1. \A k \in 1 .. Len(w) : w[k].id # "LEAVE" /\ (k > 1 => w[k].id # "HELLO")
    BY <1>0, <1>1, <1>3, <1>6
  <2>2. \A k \in 1 .. Len(w) : w[k].id \notin Talk
    BY <1>0, <1>1, <1>3, <1>6 DEF Talk
  <2>3. Granted(w, Len(w) + 1, r, p)
    <3>1. Len(w) \in 1 .. Len(w) /\ Grants(w[Len(w)])
      BY <1>0, <1>3, <1>6
    <3>2. Len(w) \in 1 .. ((Len(w) + 1) - 1)
      BY <1>3, <1>6
    <3> QED BY <3>1, <3>2 DEF Granted
  <2> QED BY <1>1, <1>2, <1>7, <2>1, <2>2, <2>3 DEF Channel
<1>8. CASE n \notin s.peers
  <2>1. t.out[n] = q /\ n \notin t.peers /\ q = <<>>
    BY <1>1, <1>2, <1>8
  <2> QED BY <1>1, <1>8, <2>1 DEF Channel
<1> QED BY <1>7, <1>8

\* p finds n.
LEMMA ChannelGreets ==
    ASSUME NEW s \in NodeState, NEW t, NEW r, NEW p, NEW n \in Node, Channel(s, r, p, n),
           s.state # "gone", Greets(s, t, n)
    PROVE  Channel(t, r, p, n)
<1> DEFINE msg == Hello(s.own)
           w == Append(<<>>, msg)
<1>1. s.out[n] = <<>> /\ t.state = s.state
  BY DEF Channel, Greets
<1>2. t.out[n] = w /\ n \in t.peers /\ t.own = s.own
  BY <1>1 DEF Greets
<1>3. msg.id = "HELLO" /\ msg.groups = s.own
  BY DEF Hello
<1> HIDE DEF msg
<1>4. Len(w) = 1 /\ w[1] = msg
  OBVIOUS
<1> HIDE DEF w
<1>5. "GLOBAL" \in s.own => Grants(msg)
  BY <1>3 DEF Grants
<1>6. \A k \in 1 .. Len(w) : w[k].id # "LEAVE" /\ (k > 1 => w[k].id # "HELLO") /\ w[k].id \notin Talk
  BY <1>3, <1>4 DEF Talk
<1>7. "GLOBAL" \in s.own => Granted(w, Len(w) + 1, r, p)
  BY <1>4, <1>5 DEF Granted
<1>8. Heard(r, p, Talk) => Greeted(r, p) /\ "GLOBAL" \in s.own
  BY DEF Channel
<1>9. "GLOBAL" \notin s.own => ~Heard(r, p, Talk)
  BY DEF Channel
<1>10. Mute(t, n, Talk)
  BY <1>2, <1>6 DEF Mute
<1> QED BY <1>1, <1>2, <1>4, <1>5, <1>6, <1>7, <1>8, <1>9, <1>10 DEF Channel

\* p removes n, or its node is destroyed.
LEMMA ChannelCuts ==
    ASSUME NEW s \in NodeState, NEW t, NEW r, NEW p, NEW n \in Node, Channel(s, r, p, n),
           n \notin t.peers, t.out[n] = <<>>,
           t.state = "gone" \/ (s.state # "gone" /\ t.own = s.own)
    PROVE  Channel(t, r, p, n)
<1>1. \A k \in 1 .. Len(t.out[n]) : FALSE
  OBVIOUS
<1>2. Heard(r, p, Talk) => Greeted(r, p)
  BY DEF Channel
<1>3. Mute(t, n, Talk)
  BY <1>1 DEF Mute
<1>4. "GLOBAL" \notin t.own /\ t.state # "gone" => ~Heard(r, p, Talk)
  BY DEF Channel
<1> QED BY <1>1, <1>2, <1>3, <1>4 DEF Channel

LEMMA ChannelDestroyed ==
    ASSUME NEW s \in NodeState, NEW t, NEW r, NEW p, NEW n \in Node, Channel(s, r, p, n),
           t.state = "gone", t.peers = {}, t.out[n] = s.out[n] \/ t.out[n] = <<>>
    PROVE  Channel(t, r, p, n)
<1>1. CASE t.out[n] = s.out[n]
  BY <1>1 DEF Channel
<1>2. CASE t.out[n] = <<>>
  BY <1>2, ChannelCuts
<1> QED BY <1>1, <1>2

\* n takes what is first: it knows p as a member if the message says so, or if
\* it did and the message is no HELLO.
LEMMA EarTakes ==
    ASSUME NEW s \in NodeState, NEW r, NEW u, NEW p, NEW n \in Node, Channel(s, r, p, n),
           s.out[n] # <<>>, NEW msg, msg = s.out[n][1], Takes(r, u, p, msg)
    PROVE  /\ Grants(msg) \/ (Greeted(r, p) /\ msg.id # "HELLO") => Greeted(u, p)
           /\ Heard(u, p, Talk) => Greeted(u, p)
           /\ "GLOBAL" \notin s.own /\ s.state # "gone" => ~Heard(u, p, Talk)
<1> DEFINE q == s.out[n]
<1>0. q \in Seq(Message) /\ 1 \in 1 .. Len(q)
  BY DEF NodeState
<1>1. /\ q[1].id # "LEAVE"
      /\ q[1].id \in Talk => Granted(q, 1, r, p)
      /\ Heard(r, p, Talk) => Greeted(r, p) /\ (q[1].id = "HELLO" => Grants(q[1]))
      /\ "GLOBAL" \notin s.own /\ s.state # "gone" => ~Heard(r, p, Talk) /\ q[1].id \notin Talk
  BY <1>0 DEF Channel, Mute
<1>2. msg = q[1]
  OBVIOUS
<1> HIDE DEF q
<1>3. CASE msg.id # "HELLO" /\ p \notin u.ready /\ EarKept(r, u, p)
  <2>1. Greeted(u, p) /\ (Heard(u, p, Talk) => Heard(r, p, Talk))
    BY <1>3, EarGreeted DEF Greeted
  <2> QED BY <1>1, <2>1
<1>4. CASE /\ msg.id = "HELLO" /\ NoNews(r, u)
           /\ p \in u.ready /\ u.member[p] = r.member[p] \cup msg.groups
  <2>1. Heard(u, p, Talk) => Heard(r, p, Talk)
    BY <1>4 DEF NoNews
  <2>2. Grants(msg) => Greeted(u, p)
    BY <1>4 DEF Grants, Greeted
  <2> QED BY <1>1, <1>2, <1>4, <2>1, <2>2
<1>5. CASE /\ msg.id = "JOIN" /\ NoNews(r, u)
           /\ p \in r.ready /\ u.member[p] = r.member[p] \cup {msg.group}
  <2>1. Heard(u, p, Talk) => Heard(r, p, Talk)
    BY <1>5 DEF NoNews
  <2>2. Grants(msg) => Greeted(u, p)
    BY <1>5 DEF Grants, Greeted
  <2>3. Greeted(r, p) => Greeted(u, p)
    BY <1>5 DEF Greeted
  <2> QED BY <1>1, <2>1, <2>2, <2>3
<1>6. CASE /\ msg.id \in Talk /\ p \in r.ready
           /\ u.ready = r.ready /\ u.member = r.member
  <2>1. Granted(q, 1, r, p)
    BY <1>1, <1>2, <1>6
  <2>2. Greeted(r, p)
    BY <2>1 DEF Granted
  <2>3. Greeted(u, p)
    BY <1>6, <2>2 DEF Greeted
  <2> QED BY <1>1, <1>2, <1>6, <2>3
<1> QED BY <1>1, <1>2, <1>3, <1>4, <1>5, <1>6 DEF Takes

LEMMA ChannelTakes ==
    ASSUME NEW s \in NodeState, NEW t, NEW r, NEW u, NEW p, NEW n \in Node, Channel(s, r, p, n),
           s.out[n] # <<>>, t.out[n] = Tail(s.out[n]), t.state = s.state, t.own = s.own,
           t.peers = s.peers, NEW msg, msg = s.out[n][1], Takes(r, u, p, msg)
    PROVE  Channel(t, u, p, n)
<1> DEFINE q == s.out[n]
           w == Tail(q)
<1>1. /\ q \in Seq(Message) /\ q # <<>>
      /\ n \notin s.peers /\ s.state # "gone" => q = <<>>
      /\ \A k \in 1 .. Len(q) : q[k].id # "LEAVE" /\ (k > 1 => q[k].id # "HELLO")
      /\ \A k \in 1 .. Len(q) : q[k].id \in Talk => Granted(q, k, r, p)
      /\ n \in s.peers /\ "GLOBAL" \in s.own => Granted(q, Len(q) + 1, r, p)
      /\ "GLOBAL" \notin s.own /\ s.state # "gone" => \A k \in 1 .. Len(q) : q[k].id \notin Talk
  BY DEF Channel, NodeState, Mute
<1>2. /\ Grants(q[1]) \/ (Greeted(r, p) /\ q[1].id # "HELLO") => Greeted(u, p)
      /\ Heard(u, p, Talk) => Greeted(u, p)
      /\ "GLOBAL" \notin s.own /\ s.state # "gone" => ~Heard(u, p, Talk)
  BY EarTakes
<1>3. t.out[n] = w
  OBVIOUS
<1> HIDE DEF q
<1>4. /\ w \in Seq(Message) /\ Len(w) = Len(q) - 1 /\ Len(q) \in Nat /\ Len(w) \in Nat
      /\ \A k \in 1 .. Len(w) : k + 1 \in 1 .. Len(q) /\ w[k] = q[k + 1]
      /\ \A j \in 1 .. Len(q) : j > 1 => j - 1 \in 1 .. Len(w) /\ w[j - 1] = q[j]
  BY <1>1
<1> HIDE DEF w
<1>5. \A k \in 1 .. Len(w) : w[k].id # "LEAVE" /\ w[k].id # "HELLO"
  BY <1>1, <1>4
<1>6. w = <<>> \/ w[1].id # "HELLO"
  BY <1>4, <1>5
<1>7. ASSUME NEW k \in 1 .. (Len(w) + 1), Granted(q, k + 1, r, p)
      PROVE  Granted(w, k, u, p)
  <2>1. CASE Greeted(u, p)
    BY <1>6, <2>1 DEF Granted
  <2>2. CASE ~Greeted(u, p)
    <3>1. ~Grants(q[1]) /\ ~(Greeted(r, p) /\ q[1].id # "HELLO")
      BY <1>2, <2>2
    <3>2. PICK j \in 1 .. ((k + 1) - 1) : Grants(q[j])
      BY <1>1, <1>7, <3>1 DEF Granted
    <3>3. j > 1 /\ j \in 1 .. Len(q) /\ j - 1 \in 1 .. (k - 1)
      BY <1>4, <3>1, <3>2
    <3>4. w[j - 1] = q[j]
      BY <1>4, <3>3
    <3> QED BY <3>2, <3>3, <3>4 DEF Granted
  <2> QED BY <2>1, <2>2
<1>8. \A k \in 1 .. Len(w) : w[k].id \in Talk => Granted(w, k, u, p)
  BY <1>1, <1>4, <1>7
<1>9. n \in s.peers /\ "GLOBAL" \in s.own => Granted(w, Len(w) + 1, u, p)
  <2>1. Len(w) + 1 \in 1 .. (Len(w) + 1) /\ (Len(w) + 1) + 1 = Len(q) + 1
    BY <1>4
  <2> QED BY <1>1, <1>7, <2>1
<1>10. "GLOBAL" \notin s.own /\ s.state # "gone" => Mute(t, n, Talk)
  BY <1>1, <1>3, <1>4 DEF Mute
<1>11. n \notin s.peers /\ s.state # "gone" => w = <<>>
  BY <1>1
<1> QED BY <1>2, <1>3, <1>5, <1>6, <1>8, <1>9, <1>10, <1>11 DEF Channel

-----------------------------------------------------------------------------
(* All nodes                                                               *)

\* Programs that whisper, as members of GLOBAL; programs that do not whisper.
\* The actors of a tester whisper whether they are in a group or not.
Speaker == {"local", "remote", "pinger"}
Silent  == {"chat", "minimal", "tested", "none"}

\* rl and nd stand for role and node.
Tables(nd) == nd \in [Node -> NodeState] /\ \A n \in Node : Good(n, nd[n])

Channels(rl, nd) ==
    \A p \in Node : rl[p] \in Speaker => \A n \in Node \ {p} : Channel(nd[p], nd[n], p, n)

Silence(rl, nd) ==
    \A p \in Node : rl[p] \in Silent =>
        \A n \in Node \ {p} : Mute(nd[p], n, {"WHISPER"}) /\ ~Heard(nd[n], p, {"WHISPER"})

World(rl, nd) == Tables(nd) /\ Channels(rl, nd) /\ Silence(rl, nd)

\* What a step of x alone has to keep.
Fair(rl, nd, x, t) ==
    /\ Good(x, t)
    /\ \A p \in Node \ {x} : EarKept(nd[x], t, p)
    /\ rl[x] \in Speaker => \A n \in Node \ {x} : Channel(t, nd[n], x, n)
    /\ rl[x] \in Silent => \A n \in Node \ {x} : Mute(t, n, {"WHISPER"})

LEMMA MouthReflexive ==
    ASSUME NEW s, NEW p PROVE MouthKept(s, s, p) /\ EarKept(s, s, p)
BY DEF MouthKept, EarKept

LEMMA OneNode ==
    ASSUME NEW rl, NEW nd, World(rl, nd), NEW x \in Node, NEW t, Fair(rl, nd, x, t)
    PROVE  World(rl, [nd EXCEPT ![x] = t])
<1> DEFINE nd2 == [nd EXCEPT ![x] = t]
<1>1. nd \in [Node -> NodeState] /\ t \in NodeState
  BY DEF World, Tables, Fair, Good
<1>2. nd2 \in [Node -> NodeState] /\ nd2[x] = t /\ \A n \in Node \ {x} : nd2[n] = nd[n]
  BY <1>1
<1> HIDE DEF nd2
<1>3. Tables(nd2)
  BY <1>2 DEF World, Tables, Fair
<1>4. ASSUME NEW p \in Node, rl[p] \in Speaker, NEW n \in Node \ {p}
      PROVE  Channel(nd2[p], nd2[n], p, n)
  <2>1. Channel(nd[p], nd[n], p, n)
    BY <1>4 DEF World, Channels
  <2>2. CASE p = x
    <3>1. nd2[p] = t /\ nd2[n] = nd[n] /\ Channel(t, nd[n], x, n)
      BY <1>2, <1>4, <2>2 DEF Fair
    <3> QED BY <2>2, <3>1
  <2>3. CASE n = x
    <3>1. nd2[p] = nd[p] /\ nd2[n] = t /\ EarKept(nd[n], t, p)
      BY <1>2, <2>3 DEF Fair
    <3>2. MouthKept(nd[p], nd[p], n)
      BY MouthReflexive
    <3>3. Channel(nd[p], t, p, n)
      BY <2>1, <3>1, <3>2, ChannelKept
    <3> QED BY <3>1, <3>3
  <2>4. CASE p # x /\ n # x
    BY <1>2, <2>1, <2>4
  <2> QED BY <2>2, <2>3, <2>4
<1>5. ASSUME NEW p \in Node, rl[p] \in Silent, NEW n \in Node \ {p}
      PROVE  Mute(nd2[p], n, {"WHISPER"}) /\ ~Heard(nd2[n], p, {"WHISPER"})
  <2>1. Mute(nd[p], n, {"WHISPER"}) /\ ~Heard(nd[n], p, {"WHISPER"})
    BY <1>5 DEF World, Silence
  <2>2. Mute(nd2[p], n, {"WHISPER"})
    BY <1>2, <1>5, <2>1 DEF Fair
  <2>3. ~Heard(nd2[n], p, {"WHISPER"})
    <3>1. CASE n = x
      <4>1. EarKept(nd[n], t, p) /\ nd2[n] = t /\ {"WHISPER"} \in SUBSET Talk
        BY <1>2, <3>1 DEF Fair, Talk
      <4> QED BY <2>1, <4>1 DEF EarKept
    <3>2. CASE n # x
      BY <1>2, <2>1, <3>2
    <3> QED BY <3>1, <3>2
  <2> QED BY <2>2, <2>3
<1> QED BY <1>3, <1>4, <1>5 DEF World, Channels, Silence, nd2

-----------------------------------------------------------------------------
(* Steps of one node that are fair                                         *)

LEMMA Mouths ==
    ASSUME NEW rl, NEW nd, World(rl, nd), NEW x \in Node, NEW n \in Node \ {x}
    PROVE  /\ rl[x] \in Speaker => Channel(nd[x], nd[n], x, n)
           /\ rl[x] \in Silent => Mute(nd[x], n, {"WHISPER"})
           /\ nd[x] \in NodeState /\ Good(x, nd[x])
BY DEF World, Tables, Channels, Silence

\* A client that takes events and talks: a speaker as a member, a silent one
\* to its group.
LEMMA FairTalks ==
    ASSUME NEW rl, NEW nd, World(rl, nd), NEW x \in Node, NEW t, NEW K \in SUBSET Talk,
           Talks(nd[x], t, K),
           rl[x] \in Speaker => "GLOBAL" \in nd[x].own,
           rl[x] \in Silent => K \subseteq {"SHOUT"}
    PROVE  Fair(rl, nd, x, t)
<1>1. nd[x] \in NodeState /\ Good(x, nd[x])
  BY DEF World, Tables
<1>2. Good(x, t)
  BY <1>1, TalksGood
<1>3. \A p \in Node \ {x} : EarKept(nd[x], t, p)
  BY <1>1, TalksEar
<1>4. ASSUME rl[x] \in Speaker, NEW n \in Node \ {x} PROVE Channel(t, nd[n], x, n)
  <2>1. Channel(nd[x], nd[n], x, n) /\ Alike(nd[x], t)
    BY <1>4, Mouths DEF Talks
  <2>2. CASE t.out[n] = nd[x].out[n]
    <3>1. MouthKept(nd[x], t, n)
      BY <2>1, <2>2 DEF MouthKept, Alike
    <3>2. EarKept(nd[n], nd[n], x)
      BY MouthReflexive
    <3> QED BY <2>1, <3>1, <3>2, ChannelKept
  <2>3. CASE t.out[n] # nd[x].out[n]
    <3>1. PICK msg \in Message : msg.id \in K /\ t.out[n] = Append(nd[x].out[n], msg)
      BY <2>3 DEF Talks
    <3>2. n \in nd[x].peers /\ msg.id \in Talk
      BY <2>3, <3>1 DEF Talks
    <3> QED BY <1>1, <1>4, <2>1, <3>1, <3>2, ChannelSays
  <2> QED BY <2>2, <2>3
<1>5. ASSUME rl[x] \in Silent, NEW n \in Node \ {x} PROVE Mute(t, n, {"WHISPER"})
  <2>1. Mute(nd[x], n, {"WHISPER"}) /\ {"WHISPER"} \cap K = {}
    BY <1>5, Mouths
  <2> QED BY <1>1, <2>1, MuteTalks
<1> QED BY <1>2, <1>3, <1>4, <1>5 DEF Fair

LEMMA MuteKept ==
    ASSUME NEW s, NEW t, NEW n, t.out[n] = s.out[n] \/ t.out[n] = <<>>, NEW K, Mute(s, n, K)
    PROVE  Mute(t, n, K)
BY DEF Mute

\* Mailboxes that get a message that is no WHISPER.
LEMMA MutePosts ==
    ASSUME NEW s \in NodeState, NEW t \in NodeState, NEW S, NEW msg \in Message,
           msg.id # "WHISPER", t.out = s.out \/ Posts(s, t, S, msg), NEW n \in Node,
           Mute(s, n, {"WHISPER"})
    PROVE  Mute(t, n, {"WHISPER"})
<1>1. t.out[n] = s.out[n] \/ t.out[n] = Append(s.out[n], msg)
  BY DEF Posts
<1> QED BY <1>1, MuteAppend

\* zyre_start
LEMMA FairStart ==
    ASSUME NEW rl, NEW nd, World(rl, nd), NEW x \in Node,
           rl[x] \in Speaker => nd[x].state # "gone"
    PROVE  Fair(rl, nd, x, Start(nd[x]))
<1> DEFINE s == nd[x]
           t == Start(s)
<1>1. Good(x, s)
  BY DEF World, Tables
<1>2. /\ Good(x, t) /\ t.state = "up" /\ t.own = s.own /\ t.peers = s.peers /\ t.out = s.out
      /\ \A p : EarKept(s, t, p)
  BY <1>1, StartFacts
<1> HIDE DEF t
<1>3. ASSUME rl[x] \in Speaker, NEW n \in Node \ {x} PROVE Channel(t, nd[n], x, n)
  <2>1. MouthKept(s, t, n)
    BY <1>2, <1>3 DEF MouthKept
  <2> QED BY <1>3, <2>1, Mouths, MouthReflexive, ChannelKept
<1>4. ASSUME rl[x] \in Silent, NEW n \in Node \ {x} PROVE Mute(t, n, {"WHISPER"})
  <2>1. Mute(s, n, {"WHISPER"})
    BY <1>4, Mouths
  <2> QED BY <1>2, <2>1, MuteKept
<1> QED BY <1>2, <1>3, <1>4 DEF Fair, t

\* zyre_join: GLOBAL if x is a speaker.
LEMMA FairJoin ==
    ASSUME NEW rl, NEW nd, World(rl, nd), NEW x \in Node, NEW g \in Groups,
           rl[x] \in Speaker => g = "GLOBAL" /\ nd[x].state # "gone"
    PROVE  Fair(rl, nd, x, Join(nd[x], g))
<1> DEFINE s == nd[x]
           t == Join(s, g)
           msg == Msg("JOIN", g, Blank)
<1>0. msg \in Message /\ msg.id = "JOIN"
  <2>1. Blank \in Word
    BY Words
  <2> QED BY <2>1 DEF Message, Msg
<1>1. Good(x, s) /\ s \in NodeState
  BY DEF World, Tables
<1>2. /\ Good(x, t) /\ t.own = s.own \cup {g} /\ Announces(s, t, msg)
      /\ g \in s.own => t = s
      /\ g \notin s.own => Posts(s, t, s.peers, msg)
  BY <1>1, JoinFacts
<1>3. /\ t \in NodeState /\ t.state = s.state /\ t.peers = s.peers
      /\ t.out = s.out \/ Posts(s, t, s.peers, msg)
      /\ \A p : EarKept(s, t, p)
  BY <1>2 DEF Announces, Good
<1> HIDE DEF t
<1>4. ASSUME rl[x] \in Speaker, NEW n \in Node \ {x} PROVE Channel(t, nd[n], x, n)
  <2>1. Channel(s, nd[n], x, n) /\ g = "GLOBAL" /\ s.state # "gone"
    BY <1>4, Mouths
  <2>2. CASE g \in s.own
    BY <1>2, <2>1, <2>2
  <2>3. CASE g \notin s.own
    <3>1. Posts(s, t, s.peers, Msg("JOIN", "GLOBAL", Blank))
      BY <1>2, <2>1, <2>3
    <3> QED BY <1>1, <1>2, <1>3, <1>4, <2>1, <2>3, <3>1, ChannelJoins
  <2> QED BY <2>2, <2>3
<1> HIDE DEF msg
<1>5. ASSUME rl[x] \in Silent, NEW n \in Node \ {x} PROVE Mute(t, n, {"WHISPER"})
  <2>1. Mute(s, n, {"WHISPER"})
    BY <1>5, Mouths
  <2> QED BY <1>0, <1>1, <1>3, <1>5, <2>1, MutePosts
<1> QED BY <1>2, <1>3, <1>4, <1>5 DEF Fair, t

\* zyre_leave and zyre_stop, which no speaker calls
LEMMA FairLeave ==
    ASSUME NEW rl, NEW nd, World(rl, nd), NEW x \in Node, NEW g \in Groups, rl[x] \notin Speaker
    PROVE  Fair(rl, nd, x, Leave(nd[x], g))
<1> DEFINE s == nd[x]
           t == Leave(s, g)
           msg == Msg("LEAVE", g, Blank)
<1>0. msg \in Message /\ msg.id = "LEAVE"
  <2>1. Blank \in Word
    BY Words
  <2> QED BY <2>1 DEF Message, Msg
<1>1. Good(x, s) /\ s \in NodeState
  BY DEF World, Tables
<1>2. Good(x, t) /\ Announces(s, t, msg)
  BY <1>1, LeaveFacts
<1>3. /\ t \in NodeState
      /\ t.out = s.out \/ Posts(s, t, s.peers, msg)
      /\ \A p : EarKept(s, t, p)
  BY <1>2 DEF Announces, Good
<1> HIDE DEF t, msg
<1>5. ASSUME rl[x] \in Silent, NEW n \in Node \ {x} PROVE Mute(t, n, {"WHISPER"})
  <2>1. Mute(s, n, {"WHISPER"})
    BY <1>5, Mouths
  <2> QED BY <1>0, <1>1, <1>3, <1>5, <2>1, MutePosts
<1> QED BY <1>2, <1>3, <1>5 DEF Fair, t

LEMMA FairStop ==
    ASSUME NEW rl, NEW nd, World(rl, nd), NEW x \in Node, NEW gossip \in BOOLEAN,
           rl[x] \notin Speaker
    PROVE  Fair(rl, nd, x, Stop(x, nd[x], gossip))
<1> DEFINE s == nd[x]
           t == Stop(x, s, gossip)
           msg == Msg("GOODBYE", Blank, Blank)
<1>0. msg \in Message /\ msg.id = "GOODBYE"
  <2>1. Blank \in Word
    BY Words
  <2> QED BY <2>1 DEF Message, Msg
<1>1. Good(x, s) /\ s \in NodeState
  BY DEF World, Tables
<1>2. /\ Good(x, t) /\ \A p : EarKept(s, t, p)
      /\ t.out = s.out \/ Posts(s, t, s.peers, msg)
  BY <1>1, StopFacts
<1>3. t \in NodeState
  BY <1>2 DEF Good
<1> HIDE DEF t, msg
<1>5. ASSUME rl[x] \in Silent, NEW n \in Node \ {x} PROVE Mute(t, n, {"WHISPER"})
  <2>1. Mute(s, n, {"WHISPER"})
    BY <1>5, Mouths
  <2> QED BY <1>0, <1>1, <1>2, <1>3, <1>5, <2>1, MutePosts
<1> QED BY <1>2, <1>5 DEF Fair, t

\* zyre_destroy
LEMMA FairDestroyed ==
    ASSUME NEW rl, NEW nd, World(rl, nd), NEW x \in Node, NEW kept \in Keeps(nd[x])
    PROVE  Fair(rl, nd, x, Destroyed(nd[x], kept)) /\ Destroyed(nd[x], kept).state = "gone"
<1> DEFINE s == nd[x]
           t == Destroyed(s, kept)
<1>1. Good(x, s) /\ s \in NodeState
  BY DEF World, Tables
<1>2. /\ Good(x, t) /\ t.state = "gone" /\ t.peers = {}
      /\ \A m \in Node : t.out[m] = s.out[m] \/ t.out[m] = <<>>
      /\ \A p : EarKept(s, t, p)
  BY <1>1, DestroyedFacts
<1> HIDE DEF t
<1>4. ASSUME rl[x] \in Speaker, NEW n \in Node \ {x} PROVE Channel(t, nd[n], x, n)
  <2>1. Channel(s, nd[n], x, n)
    BY <1>4, Mouths
  <2>2. t.out[n] = s.out[n] \/ t.out[n] = <<>>
    BY <1>2
  <2> QED BY <1>1, <1>2, <1>4, <2>1, <2>2, ChannelDestroyed
<1>5. ASSUME rl[x] \in Silent, NEW n \in Node \ {x} PROVE Mute(t, n, {"WHISPER"})
  <2>1. Mute(s, n, {"WHISPER"})
    BY <1>5, Mouths
  <2> QED BY <1>2, <2>1, MuteKept
<1> QED BY <1>2, <1>4, <1>5 DEF Fair, t

-----------------------------------------------------------------------------
(* Steps of the network                                                    *)

LEMMA MouthChannel ==
    ASSUME NEW s \in NodeState, NEW t, NEW r, NEW p, NEW n \in Node, Channel(s, r, p, n),
           s.state # "gone", MouthKept(s, t, n) \/ Greets(s, t, n) \/ Cuts(s, t, n)
    PROVE  Channel(t, r, p, n)
<1>1. CASE MouthKept(s, t, n)
  BY <1>1, MouthReflexive, ChannelKept
<1>2. CASE Greets(s, t, n)
  BY <1>2, ChannelGreets
<1>3. CASE Cuts(s, t, n)
  <2>1. n \notin t.peers /\ t.out[n] = <<>> /\ t.own = s.own
    BY <1>3 DEF Cuts
  <2> QED BY <2>1, ChannelCuts
<1> QED BY <1>1, <1>2, <1>3

LEMMA MouthMute ==
    ASSUME NEW s \in NodeState, NEW t \in NodeState, NEW n \in Node,
           MouthKept(s, t, n) \/ Greets(s, t, n) \/ Cuts(s, t, n), Mute(s, n, {"WHISPER"})
    PROVE  Mute(t, n, {"WHISPER"})
<1>1. CASE t.out[n] = s.out[n] \/ t.out[n] = <<>>
  BY <1>1, MuteKept
<1>2. CASE t.out[n] = Append(s.out[n], Hello(s.own))
  <2>1. Hello(s.own) \in Message /\ Hello(s.own).id \notin {"WHISPER"}
    BY DEF NodeState, Message, Hello
  <2> QED BY <1>2, <2>1, MuteAppend
<1> QED BY <1>1, <1>2 DEF MouthKept, Greets, Cuts

LEMMA FairMouths ==
    ASSUME NEW rl, NEW nd, World(rl, nd), NEW x \in Node, nd[x].state # "gone",
           NEW t, Good(x, t), \A p \in Node \ {x} : EarKept(nd[x], t, p),
           \A n \in Node \ {x} :
             MouthKept(nd[x], t, n) \/ Greets(nd[x], t, n) \/ Cuts(nd[x], t, n)
    PROVE  Fair(rl, nd, x, t)
<1>1. nd[x] \in NodeState /\ t \in NodeState
  BY DEF World, Tables, Good
<1>2. ASSUME rl[x] \in Speaker, NEW n \in Node \ {x} PROVE Channel(t, nd[n], x, n)
  <2>1. Channel(nd[x], nd[n], x, n)
    BY <1>2, Mouths
  <2> QED BY <1>1, <2>1, MouthChannel
<1>3. ASSUME rl[x] \in Silent, NEW n \in Node \ {x} PROVE Mute(t, n, {"WHISPER"})
  <2>1. Mute(nd[x], n, {"WHISPER"})
    BY <1>3, Mouths
  <2> QED BY <1>1, <2>1, MouthMute
<1> QED BY <1>2, <1>3 DEF Fair

\* zyre_node_recv_beacon, zyre_node_require_peer
LEMMA FairDiscover ==
    ASSUME NEW rl, NEW nd, World(rl, nd), NEW x \in Node, NEW m \in Node \ {x},
           nd[x].state = "up"
    PROVE  Fair(rl, nd, x, RequirePeer(nd[x], m))
<1> DEFINE s == nd[x]
           t == RequirePeer(s, m)
<1>1. Good(x, s)
  BY DEF World, Tables
<1>2. /\ Good(x, t)
      /\ t.ready = s.ready /\ t.member = s.member /\ t.events = s.events
      /\ \A p \in Node \ {m} : MouthKept(s, t, p)
      /\ IF m \in s.peers THEN t = s ELSE Greets(s, t, m)
  BY <1>1, RequirePeerFacts
<1> HIDE DEF t
<1>3. \A p : EarKept(s, t, p)
  BY <1>2 DEF EarKept, Heard
<1>4. \A n \in Node \ {x} : MouthKept(s, t, n) \/ Greets(s, t, n) \/ Cuts(s, t, n)
  BY <1>2, MouthReflexive
<1>5. s.state # "gone"
  OBVIOUS
<1>6. Fair(rl, nd, x, t)
  BY <1>2, <1>3, <1>4, <1>5, FairMouths
<1> QED BY <1>6 DEF t

\* zyre_node_remove_peer
LEMMA FairExpire ==
    ASSUME NEW rl, NEW nd, World(rl, nd), NEW x \in Node, NEW m \in Node \ {x},
           nd[x].state = "up"
    PROVE  Fair(rl, nd, x, RemovePeer(nd[x], m))
<1> DEFINE s == nd[x]
           t == RemovePeer(s, m)
<1>1. Good(x, s)
  BY DEF World, Tables
<1>2. /\ Good(x, t) /\ Cuts(s, t, m)
      /\ \A p \in Node \ {m} : MouthKept(s, t, p)
      /\ \A p \in Node : EarKept(s, t, p)
  BY <1>1, RemovePeerFacts
<1> HIDE DEF t
<1>4. \A n \in Node \ {x} : MouthKept(s, t, n) \/ Greets(s, t, n) \/ Cuts(s, t, n)
  BY <1>2
<1>5. s.state # "gone"
  OBVIOUS
<1>6. Fair(rl, nd, x, t)
  BY <1>2, <1>4, <1>5, FairMouths
<1> QED BY <1>6 DEF t

\* zyre_node_ping_peer: an EVASIVE event
LEMMA FairEvasive ==
    ASSUME NEW rl, NEW nd, World(rl, nd), NEW x \in Node, NEW m \in Node,
           nd[x].state = "up", NEW t, t = PingPeer(nd[x], m)
    PROVE  Fair(rl, nd, x, t)
<1> DEFINE s == nd[x]
           due == s.due \ {m}
           u == [s EXCEPT !.due = due]
           event == Event("EVASIVE", m, Blank, Blank)
<1>1. Good(x, s) /\ s \in NodeState /\ s.state # "gone"
  BY DEF World, Tables
<1>2. event \in Notice /\ event.type \notin Talk
  <2>1. Blank \in Word /\ "EVASIVE" \in Word
    BY Words
  <2> QED BY <2>1 DEF Notice, Event, Talk
<1>3. t = Tell(u, event)
  BY DEF PingPeer
<1>4. due \in SUBSET Node
  BY <1>1 DEF NodeState
<1> HIDE DEF event, due
<1>5. /\ u \in NodeState /\ u.state = s.state /\ u.own = s.own /\ u.peers = s.peers
      /\ u.ready = s.ready /\ u.member = s.member /\ u.out = s.out /\ u.events = s.events
  BY <1>1, <1>4 DEF NodeState
<1> HIDE DEF u
<1>6. /\ t \in NodeState /\ Alike(u, t) /\ t.out = u.out /\ t.events = Append(u.events, event)
  BY <1>2, <1>3, <1>5, TellFacts
<1>7. /\ t.state = s.state /\ t.own = s.own /\ t.peers = s.peers /\ t.ready = s.ready
      /\ t.member = s.member /\ t.out = s.out /\ t.events = Append(s.events, event)
  BY <1>5, <1>6 DEF Alike
<1>8. \A p : EarKept(s, t, p)
  BY <1>1, <1>2, <1>7, TellEar
<1>9. \A p : MouthKept(s, t, p)
  BY <1>7, TablesMouth
<1>10. Good(x, t)
  BY <1>1, <1>6, <1>7 DEF Good
<1> QED BY <1>1, <1>8, <1>9, <1>10, FairMouths

\* The first message leaves a mailbox.
\* The mailbox for n has lost its first message.
Pops(n, r, s) == s = [r EXCEPT !.out[n] = Tail(@)]
Lost(m, n, r, s) ==
    /\ Good(m, s) /\ Alike(r, s) /\ s.events = r.events
    /\ s.out[n] = Tail(r.out[n]) /\ \A k \in Node \ {n} : s.out[k] = r.out[k]
    /\ Head(r.out[n]) \in Message /\ Head(r.out[n]) = r.out[n][1] /\ r.out[n] \in Seq(Message)

LEMMA Popped ==
    ASSUME NEW m \in Node, NEW r, Good(m, r), NEW n \in Node \ {m}, r.out[n] # <<>>,
           NEW s, Pops(n, r, s)
    PROVE  Lost(m, n, r, s)
<1> DEFINE q == r.out[n]
           box == [r.out EXCEPT ![n] = Tail(q)]
<1>1. r \in NodeState /\ r.out \in [Node -> Seq(Message)] /\ q \in Seq(Message)
  BY DEF Good, NodeState
<1>2. Tail(q) \in Seq(Message) /\ Head(q) \in Message /\ Head(q) = q[1]
  BY <1>1
<1>3. box \in [Node -> Seq(Message)] /\ box[n] = Tail(q)
      /\ \A k \in Node \ {n} : box[k] = r.out[k]
  BY <1>1, <1>2
<1>4. s = [r EXCEPT !.out = box]
  BY DEF Pops
<1> HIDE DEF box
<1>5. /\ s \in NodeState /\ s.out = box /\ s.state = r.state /\ s.own = r.own
      /\ s.peers = r.peers /\ s.ready = r.ready /\ s.member = r.member
      /\ s.events = r.events /\ s.impatient = r.impatient /\ s.due = r.due
  BY <1>1, <1>3, <1>4 DEF NodeState
<1>6. Good(m, s) /\ Alike(r, s)
  BY <1>3, <1>5 DEF Good, Alike
<1> QED BY <1>1, <1>2, <1>3, <1>5, <1>6 DEF Lost

\* What the receiver hears of a sender that says nothing.
LEMMA MuteTakes ==
    ASSUME NEW r \in NodeState, NEW n \in Node, r.out[n] # <<>>, Mute(r, n, {"WHISPER"}),
           NEW s, NEW u, NEW p, ~Heard(s, p, {"WHISPER"}), Takes(s, u, p, r.out[n][1])
    PROVE  ~Heard(u, p, {"WHISPER"})
<1>1. r.out[n][1].id \notin {"WHISPER"}
  <2>1. r.out[n] \in Seq(Message)
    BY DEF NodeState
  <2>2. 1 \in 1 .. Len(r.out[n])
    BY <2>1
  <2> QED BY <2>2 DEF Mute
<1>2. {"WHISPER"} \in SUBSET Talk
  BY DEF Talk
<1>3. \/ EarKept(s, u, p) \/ NoNews(s, u)
      \/ \A K \in SUBSET Talk : r.out[n][1].id \notin K /\ Heard(u, p, K) => Heard(s, p, K)
  BY DEF Takes
<1>4. CASE EarKept(s, u, p)
  BY <1>2, <1>4 DEF EarKept
<1>5. CASE NoNews(s, u)
  BY <1>2, <1>5 DEF NoNews
<1>6. CASE \A K \in SUBSET Talk :
               r.out[n][1].id \notin K /\ Heard(u, p, K) => Heard(s, p, K)
  BY <1>1, <1>2, <1>6
<1> QED BY <1>3, <1>4, <1>5, <1>6

LEMMA MuteTail ==
    ASSUME NEW r \in NodeState, NEW n \in Node, r.out[n] # <<>>, NEW K, Mute(r, n, K),
           NEW s, s.out[n] = Tail(r.out[n])
    PROVE  Mute(s, n, K)
<1> DEFINE q == r.out[n]
<1>1. q \in Seq(Message) /\ q # <<>>
  BY DEF NodeState
<1>2. Len(Tail(q)) = Len(q) - 1 /\ \A j \in 1 .. (Len(q) - 1) : Tail(q)[j] = q[j + 1]
  BY <1>1
<1>3. Len(q) \in Nat
  BY <1>1
<1>4. \A j \in 1 .. Len(q) : q[j].id \notin K
  BY DEF Mute
<1>5. SUFFICES ASSUME NEW j \in 1 .. (Len(q) - 1) PROVE q[j + 1].id \notin K
  BY <1>2 DEF Mute
<1>6. j + 1 \in 1 .. Len(q)
  BY <1>3
<1> QED BY <1>4, <1>6

\* zyre_node_recv_peer: a step of two nodes, m whose mailbox it is and n.
Delivers(nd, m, n, s, t, nt) ==
    /\ s = [nd[m] EXCEPT !.out[n] = Tail(@)]
    /\ t = Recv(nd[n], m, Head(nd[m].out[n]))
    /\ nt = [x \in Node |-> CASE x = n -> t [] x = m -> s [] OTHER -> nd[x]]

LEMMA Delivered ==
    ASSUME NEW rl, NEW nd, World(rl, nd), NEW m \in Node, NEW n \in Node \ {m},
           nd[n].state = "up", nd[m].out[n] # <<>>,
           NEW s, NEW t, NEW nt, Delivers(nd, m, n, s, t, nt)
    PROVE  World(rl, nt)
<1> USE DEF Delivers
<1> DEFINE msg == nd[m].out[n][1]
<1>1. /\ \A x \in Node : Good(x, nd[x]) /\ nd[x] \in NodeState
      /\ Channels(rl, nd) /\ Silence(rl, nd)
  BY DEF World, Tables, Good
<1>2. /\ Good(m, s) /\ s.out[n] = Tail(nd[m].out[n]) /\ Head(nd[m].out[n]) = msg
      /\ msg \in Message /\ nd[m].out[n] \in Seq(Message)
      /\ s.state = nd[m].state /\ s.own = nd[m].own /\ s.peers = nd[m].peers
      /\ \A k \in Node \ {n} : MouthKept(nd[m], s, k)
      /\ \A p : EarKept(nd[m], s, p)
  <2>1. PICK r : r = nd[m]
    OBVIOUS
  <2>2. Good(m, r) /\ r.out[n] # <<>> /\ Pops(n, r, s)
    BY <1>1, <2>1 DEF Pops
  <2>3. Lost(m, n, r, s)
    BY <2>2, Popped
  <2>4. \A k \in Node \ {n} : MouthKept(r, s, k)
    BY <2>3 DEF Lost, Alike, MouthKept
  <2>5. \A p : EarKept(r, s, p)
    BY <2>3 DEF Lost, Alike, EarKept, Heard
  <2> QED BY <2>1, <2>3, <2>4, <2>5 DEF Lost, Alike
<1>3. Good(n, t) /\ Takes(nd[n], t, m, msg)
  <2>1. Good(n, nd[n]) /\ m \in Node \ {n} /\ t = Recv(nd[n], m, msg)
    BY <1>1, <1>2
  <2> QED BY <1>2, <2>1, RecvFacts
<1>4. /\ nt[n] = t /\ nt[m] = s /\ \A x \in Node \ {m, n} : nt[x] = nd[x]
  OBVIOUS
<1> HIDE DEF msg
<1>5. Tables(nt)
  <2>1. \A x \in Node : Good(x, nt[x])
    BY <1>1, <1>2, <1>3, <1>4
  <2>2. nt \in [Node -> NodeState]
    <3>1. \A x \in Node : nt[x] \in NodeState
      BY <2>1 DEF Good
    <3>2. nt = [x \in Node |-> nt[x]]
      OBVIOUS
    <3> HIDE DEF Good
    <3> QED BY <3>1, <3>2
  <2> QED BY <2>1, <2>2 DEF Tables
<1>6. /\ \A p \in Node \ {m} : MouthKept(nd[n], t, p) /\ EarKept(nd[n], t, p)
      /\ \A p \in Node \ {n} :
           MouthKept(nd[n], t, p) \/ Greets(nd[n], t, p) \/ Cuts(nd[n], t, p)
  BY <1>3 DEF Takes
\* What a bystander p says, or n, is heard as before.
<1>7. \A k \in Node : \A p \in Node \ {m, k} : EarKept(nd[k], nt[k], p)
  <2>1. \A k \in Node \ {m, n} : \A p : EarKept(nd[k], nt[k], p)
    BY <1>4, MouthReflexive
  <2> QED BY <1>2, <1>4, <1>6, <2>1
<1>8. ASSUME NEW p \in Node, rl[p] \in Speaker, NEW k \in Node \ {p}
      PROVE  Channel(nt[p], nt[k], p, k)
  <2>1. Channel(nd[p], nd[k], p, k)
    BY <1>1, <1>8 DEF Channels
  <2>2. CASE p = m /\ k = n
    <3>1. Channel(nd[m], nd[n], m, n) /\ nd[m] \in NodeState
      BY <1>1, <2>1, <2>2
    <3>2. Channel(s, t, m, n)
      BY <1>2, <1>3, <3>1, ChannelTakes DEF msg
    <3> QED BY <1>4, <2>2, <3>2
  <2>3. CASE p = m /\ k # n
    <3>1. MouthKept(nd[m], s, k) /\ EarKept(nd[k], nt[k], m)
      BY <1>2, <1>4, <2>3, MouthReflexive
    <3> QED BY <1>4, <2>1, <2>3, <3>1, ChannelKept
  <2>4. CASE p = n
    <3>1. MouthKept(nd[n], t, k) \/ Greets(nd[n], t, k) \/ Cuts(nd[n], t, k)
      BY <1>6, <2>4
    <3>2. Channel(nd[n], nd[k], n, k) /\ nd[n] \in NodeState /\ nd[n].state # "gone"
      BY <1>1, <2>1, <2>4
    <3>3. Channel(t, nd[k], n, k)
      BY <3>1, <3>2, MouthChannel
    <3>4. EarKept(nd[k], nt[k], n) /\ MouthKept(t, t, k)
      BY <1>7, <2>4, MouthReflexive
    <3> QED BY <1>4, <2>4, <3>3, <3>4, ChannelKept
  <2>5. CASE p \notin {m, n}
    <3>1. MouthKept(nd[p], nt[p], k) /\ EarKept(nd[k], nt[k], p)
      BY <1>4, <1>7, <2>5, MouthReflexive
    <3> QED BY <2>1, <3>1, ChannelKept
  <2> QED BY <2>2, <2>3, <2>4, <2>5
<1>9. ASSUME NEW p \in Node, rl[p] \in Silent, NEW k \in Node \ {p}
      PROVE  Mute(nt[p], k, {"WHISPER"}) /\ ~Heard(nt[k], p, {"WHISPER"})
  <2>1. Mute(nd[p], k, {"WHISPER"}) /\ ~Heard(nd[k], p, {"WHISPER"})
    BY <1>1, <1>9 DEF Silence
  <2>2. Mute(nt[p], k, {"WHISPER"})
    <3>1. CASE p = n
      <4>1. t \in NodeState /\ nd[n] \in NodeState
        BY <1>1, <1>3 DEF Good
      <4>2. MouthKept(nd[n], t, k) \/ Greets(nd[n], t, k) \/ Cuts(nd[n], t, k)
        BY <1>6, <3>1
      <4>3. Mute(nd[n], k, {"WHISPER"})
        BY <2>1, <3>1
      <4> QED BY <1>4, <3>1, <4>1, <4>2, <4>3, MouthMute
    <3>2. CASE p = m /\ k = n
      <4>1. Mute(nd[m], n, {"WHISPER"}) /\ nd[m] \in NodeState
        BY <1>1, <2>1, <3>2
      <4>2. Mute(s, n, {"WHISPER"})
        BY <1>2, <4>1, MuteTail
      <4> QED BY <1>4, <3>2, <4>2
    <3>3. CASE p = m /\ k # n
      <4>1. s.out[k] = nd[m].out[k]
        BY <1>2, <3>3 DEF MouthKept
      <4> QED BY <1>4, <2>1, <3>3, <4>1 DEF Mute
    <3>4. CASE p \notin {m, n}
      BY <1>4, <2>1, <3>4
    <3> QED BY <3>1, <3>2, <3>3, <3>4
  <2>3. ~Heard(nt[k], p, {"WHISPER"})
    <3>1. CASE p = m /\ k = n
      <4>1. Mute(nd[m], n, {"WHISPER"}) /\ nd[m] \in NodeState /\ ~Heard(nd[n], m, {"WHISPER"})
            /\ Takes(nd[n], t, m, nd[m].out[n][1])
        BY <1>1, <1>3, <2>1, <3>1 DEF msg
      <4>2. ~Heard(t, m, {"WHISPER"})
        BY <4>1, MuteTakes
      <4> QED BY <1>4, <3>1, <4>2
    <3>2. CASE p = m /\ k # n
      BY <1>4, <2>1, <3>2
    <3>3. CASE p # m
      <4>1. EarKept(nd[k], nt[k], p) /\ {"WHISPER"} \in SUBSET Talk
        BY <1>7, <3>3 DEF Talk
      <4> QED BY <2>1, <4>1 DEF EarKept
    <3> QED BY <3>1, <3>2, <3>3
  <2> QED BY <2>2, <2>3
<1>10. Channels(rl, nt)
  BY <1>8 DEF Channels
<1>11. Silence(rl, nt)
  BY <1>9 DEF Silence
<1> QED BY <1>5, <1>10, <1>11 DEF World

-----------------------------------------------------------------------------
(* The invariant                                                           *)

Place ==
    {"new", "join", "run", "WHISPER", "whispered", "SHOUT", "shouted", "sleep", "recv",
     "stop", "destroy", "done"}

AppState ==
    [at: Place, pipe: Seq({"SHOUT", "$TERM"}), peers: Seq(Node), hello: Nat, sent: Nat,
     got: Nat]

Apps == app \in [Node -> AppState]

\* A speaker's node has not been destroyed before it speaks, and it is a
\* member of GLOBAL then.
Talking == Place \ {"new", "join", "done"}
Stage(at, s) ==
    /\ at \in {"new", "join"} => s.state # "gone"
    /\ at \in Talking => "GLOBAL" \in s.own
Stages == \A n \in Node : role[n] \in Speaker => Stage(app[n].at, node[n])

Cast ==
    /\ role \in [Node -> Roles]
    /\ \A n \in Node : role[n] = "tested" =>
        /\ role[1] = "tested" /\ role[2] = "tested"
        /\ \A m \in Node : role[m] \in {"tested", "none"}

\* A script ends with its last line, a tester when it has counted enough.
Main ==
    /\ main \in [at: {"run", "done"}, test: Tests \cup {"none"}, count: Nat, failed: BOOLEAN,
                 actor: [Actors -> Node \cup {None}], waits: Actors \cup {None}]
    /\ main.test = "none" => main.count <= MaxIterations
    /\ main.test # "none" =>
        /\ \E n \in Node : role[n] = "tested"
        /\ main.count <= Len(Script) /\ (main.at = "run" => main.count < Len(Script))

Inv == World(role, node) /\ Apps /\ Stages /\ Cast /\ Main

-----------------------------------------------------------------------------
(* The scripts                                                             *)

Deeds == {"start", "shout", "set_evasive_timeout", "stop", "destroy", "sleep"}

Steps ==
    [n: {1, 2}, what: Deeds]
    \cup [n: {1, 2}, what: {"join", "leave"}, arg: Groups]
    \cup [n: {1, 2}, what: {"expect", "tolerate"}, arg: Word]
    \cup [n: {1, 2}, what: {"peers", "own_groups", "peer_groups", "headers"}, arg: Nat]

Closing == Do(2, "destroy")

LEMMA StepTypes ==
    /\ \A n \in {1, 2}, what \in Deeds : Do(n, what) \in Steps
    /\ \A n \in {1, 2}, what \in {"join", "leave"}, g \in Groups : With(n, what, g) \in Steps
    /\ \A n \in {1, 2}, what \in {"expect", "tolerate"}, w \in Word :
         With(n, what, w) \in Steps
    /\ \A n \in {1, 2}, what \in {"peers", "own_groups", "peer_groups", "headers"}, i \in Nat :
         With(n, what, i) \in Steps
<1>1. \A n \in {1, 2}, what \in Deeds : Do(n, what) \in Steps
  BY DEF Do, Steps
<1>2. \A n \in {1, 2}, what \in {"join", "leave"}, g \in Groups : With(n, what, g) \in Steps
  BY DEF With, Steps
<1>3. \A n \in {1, 2}, what \in {"expect", "tolerate"}, w \in Word : With(n, what, w) \in Steps
  BY DEF With, Steps
<1>4. \A n \in {1, 2}, what \in {"peers", "own_groups", "peer_groups", "headers"}, i \in Nat :
        With(n, what, i) \in Steps
  BY DEF With, Steps
<1> QED BY <1>1, <1>2, <1>3, <1>4

LEMMA ExpectType ==
    ASSUME NEW n \in {1, 2}, NEW types \in Seq(Word)
    PROVE  Expect(n, types) \in Seq(Steps)
<1>1. Len(types) \in Nat /\ \A i \in 1 .. Len(types) : types[i] \in Word
  OBVIOUS
<1>2. \A i \in 1 .. Len(types) : With(n, "expect", types[i]) \in Steps
  BY <1>1, StepTypes
<1> DEFINE k == Len(types)
           e == [i \in 1 .. k |-> With(n, "expect", types[i])]
<1> HIDE DEF k
<1>3. e \in [1 .. k -> Steps]
  BY <1>2 DEF k
<1>4. e \in Seq(Steps)
  <2> HIDE DEF e
  <2> QED BY <1>1, <1>3 DEF k
<1> QED BY <1>4 DEF Expect, k

\* A script that ends with the last zyre_destroy.
Whole(s) == s \in Seq(Steps) /\ s # <<>> /\ s[Len(s)] = Closing

LEMMA WholeBehind ==
    ASSUME NEW s \in Seq(Steps), NEW t, Whole(t)
    PROVE  Whole(s \o t)
<1>1. t \in Seq(Steps) /\ Len(t) \in Nat \ {0} /\ t[Len(t)] = Closing
  BY DEF Whole
<1>2. s \o t \in Seq(Steps) /\ Len(s \o t) = Len(s) + Len(t) /\ Len(s) \in Nat
  BY <1>1
<1>3. (s \o t)[Len(s) + Len(t)] = t[Len(t)]
  BY <1>1
<1> QED BY <1>1, <1>2, <1>3 DEF Whole

LEMMA Joining ==
    \A s, t \in Seq(Steps) : s \o t \in Seq(Steps)
OBVIOUS

LEMMA ScriptWords ==
    /\ {"ENTER", "JOIN", "SHOUT", "EVASIVE", "STOP"} \subseteq Word
    /\ {"GLOBAL", "one", "two"} \subseteq Groups
BY DEF Word, Talk, Groups

\* The single lines, as they come in the scripts.
LEMMA Written ==
    /\ \A n \in {1, 2} : \A what \in Deeds : Do(n, what) \in Steps
    /\ \A n \in {1, 2} : \A g \in {"GLOBAL", "one", "two"} :
         With(n, "join", g) \in Steps /\ With(n, "leave", g) \in Steps
    /\ Sleep \in Steps
    /\ \A w \in {"JOIN", "SHOUT"} : With(2, "tolerate", w) \in Steps
    /\ With(1, "peers", 1) \in Steps /\ With(1, "own_groups", 2) \in Steps
    /\ With(1, "peer_groups", 2) \in Steps /\ With(2, "headers", 1) \in Steps
<1>1. \A n \in {1, 2} : \A what \in Deeds : Do(n, what) \in Steps
  BY StepTypes
<1>2. \A n \in {1, 2} : \A g \in {"GLOBAL", "one", "two"} :
         With(n, "join", g) \in Steps /\ With(n, "leave", g) \in Steps
  BY StepTypes, ScriptWords
<1>3. Sleep \in Steps
  BY StepTypes DEF Sleep, Deeds
<1>4. \A w \in {"JOIN", "SHOUT"} : With(2, "tolerate", w) \in Steps
  BY StepTypes, ScriptWords
<1>5. /\ With(1, "peers", 1) \in Steps /\ With(1, "own_groups", 2) \in Steps
      /\ With(1, "peer_groups", 2) \in Steps /\ With(2, "headers", 1) \in Steps
  BY StepTypes
<1> QED BY <1>1, <1>2, <1>3, <1>4, <1>5

LEMMA Expectations ==
    \A n \in {1, 2} :
      /\ Expect(n, <<"ENTER", "JOIN", "JOIN", "SHOUT">>) \in Seq(Steps)
      /\ Expect(n, <<"ENTER", "JOIN", "JOIN">>) \in Seq(Steps)
      /\ Expect(n, <<"ENTER", "JOIN", "SHOUT">>) \in Seq(Steps)
      /\ \A w \in {"SHOUT", "EVASIVE", "STOP", "ENTER"} : Expect(n, <<w>>) \in Seq(Steps)
<1> SUFFICES ASSUME NEW n \in {1, 2}
             PROVE  /\ Expect(n, <<"ENTER", "JOIN", "JOIN", "SHOUT">>) \in Seq(Steps)
                    /\ Expect(n, <<"ENTER", "JOIN", "JOIN">>) \in Seq(Steps)
                    /\ Expect(n, <<"ENTER", "JOIN", "SHOUT">>) \in Seq(Steps)
                    /\ \A w \in {"SHOUT", "EVASIVE", "STOP", "ENTER"} :
                         Expect(n, <<w>>) \in Seq(Steps)
  OBVIOUS
<1>1. <<"ENTER", "JOIN", "JOIN", "SHOUT">> \in Seq(Word)
  BY ScriptWords
<1>2. <<"ENTER", "JOIN", "JOIN">> \in Seq(Word)
  BY ScriptWords
<1>3. <<"ENTER", "JOIN", "SHOUT">> \in Seq(Word)
  BY ScriptWords
<1>4. \A w \in {"SHOUT", "EVASIVE", "STOP", "ENTER"} : <<w>> \in Seq(Word)
  BY ScriptWords
<1> QED BY <1>1, <1>2, <1>3, <1>4, ExpectType

LEMMA Closings ==
    /\ Whole(Parted)
    /\ Whole(<<Do(1, "stop"), Do(1, "destroy"), Do(2, "destroy")>>)
    /\ Whole(<<With(2, "tolerate", "JOIN"), With(2, "tolerate", "SHOUT"),
               Do(1, "destroy"), Do(2, "destroy")>>)
<1>1. Whole(Parted)
  <2>1. /\ With(1, "leave", "GLOBAL") \in Steps /\ With(2, "leave", "GLOBAL") \in Steps
        /\ Do(1, "stop") \in Steps /\ Do(2, "stop") \in Steps /\ Sleep \in Steps
        /\ Do(1, "destroy") \in Steps /\ Do(2, "destroy") \in Steps
    BY Written DEF Deeds
  <2>2. Parted \in Seq(Steps)
    BY <2>1 DEF Parted
  <2>3. Len(Parted) = 7 /\ Parted[7] = Closing
    BY DEF Parted, Closing
  <2> QED BY <2>2, <2>3 DEF Whole
<1>2. Whole(<<Do(1, "stop"), Do(1, "destroy"), Do(2, "destroy")>>)
  <2>1. Do(1, "stop") \in Steps /\ Do(1, "destroy") \in Steps /\ Do(2, "destroy") \in Steps
    BY Written DEF Deeds
  <2> QED BY <2>1 DEF Whole, Closing
<1>3. Whole(<<With(2, "tolerate", "JOIN"), With(2, "tolerate", "SHOUT"),
              Do(1, "destroy"), Do(2, "destroy")>>)
  <2>1. /\ With(2, "tolerate", "JOIN") \in Steps /\ With(2, "tolerate", "SHOUT") \in Steps
        /\ Do(1, "destroy") \in Steps /\ Do(2, "destroy") \in Steps
    BY Written DEF Deeds
  <2> QED BY <2>1 DEF Whole, Closing
<1> QED BY <1>1, <1>2, <1>3

LEMMA Openings ==
    /\ Met \in Seq(Steps) /\ Interconnect \in Seq(Steps) /\ Patience \in Seq(Steps)
    /\ \A n \in {1, 2} : \A what \in Deeds : <<Do(n, what)>> \in Seq(Steps)
<1>1. Met \in Seq(Steps)
  <2>1. /\ Do(1, "start") \in Steps /\ Do(2, "start") \in Steps /\ Sleep \in Steps
        /\ With(1, "join", "GLOBAL") \in Steps /\ With(2, "join", "GLOBAL") \in Steps
    BY Written DEF Deeds
  <2> QED BY <2>1 DEF Met
<1>2. Interconnect \in Seq(Steps)
  <2>1. /\ With(1, "peers", 1) \in Steps /\ With(1, "join", "one") \in Steps
        /\ With(2, "join", "two") \in Steps /\ Sleep \in Steps
        /\ With(1, "own_groups", 2) \in Steps /\ With(1, "peer_groups", 2) \in Steps
        /\ With(2, "headers", 1) \in Steps /\ Do(1, "shout") \in Steps
    BY Written DEF Deeds
  <2>2. << With(1, "peers", 1), With(1, "join", "one"), With(2, "join", "two"), Sleep,
           With(1, "own_groups", 2), With(1, "peer_groups", 2), With(2, "headers", 1),
           Do(1, "shout") >> \in Seq(Steps)
    BY <2>1
  <2> QED BY <1>1, <2>2, Joining DEF Interconnect
<1>3. \A n \in {1, 2} : \A what \in Deeds : <<Do(n, what)>> \in Seq(Steps)
  BY Written
<1>4. Patience \in Seq(Steps)
  <2>1. Do(1, "set_evasive_timeout") \in Steps /\ Do(1, "shout") \in Steps
        /\ Do(2, "shout") \in Steps
    BY Written DEF Deeds
  <2>2. << Do(1, "set_evasive_timeout"), Do(1, "shout"), Do(2, "shout") >> \in Seq(Steps)
    BY <2>1
  <2>3. /\ Expect(1, <<"SHOUT">>) \in Seq(Steps) /\ Expect(2, <<"SHOUT">>) \in Seq(Steps)
        /\ Expect(1, <<"EVASIVE">>) \in Seq(Steps)
    BY Expectations
  <2> QED BY <2>2, <2>3, Joining DEF Patience
<1> QED BY <1>1, <1>2, <1>3, <1>4

LEMMA ScriptFacts ==
    Whole(ZyreTest) /\ Whole(CurveBeaconTest) /\ Whole(CurveGossipTest) /\ Whole(EventTest)
<1>1. Whole(ZyreTest)
  <2>1. /\ Interconnect \in Seq(Steps) /\ Patience \in Seq(Steps)
        /\ Expect(2, <<"ENTER", "JOIN", "JOIN", "SHOUT">>) \in Seq(Steps)
        /\ Expect(1, <<"ENTER", "JOIN", "JOIN">>) \in Seq(Steps)
        /\ <<Do(2, "stop")>> \in Seq(Steps) /\ Expect(2, <<"STOP">>) \in Seq(Steps)
    BY Openings, Expectations DEF Deeds
  <2> DEFINE s == Interconnect \o Expect(2, <<"ENTER", "JOIN", "JOIN", "SHOUT">>)
                  \o Expect(1, <<"ENTER", "JOIN", "JOIN">>) \o Patience
                  \o <<Do(2, "stop")>> \o Expect(2, <<"STOP">>)
  <2>2. s \in Seq(Steps)
    BY <2>1, Joining
  <2>3. ZyreTest = s \o <<Do(1, "stop"), Do(1, "destroy"), Do(2, "destroy")>>
    BY DEF ZyreTest
  <2> HIDE DEF s
  <2> QED BY <2>2, <2>3, Closings, WholeBehind
<1>2. Whole(CurveBeaconTest)
  <2>1. /\ Met \in Seq(Steps) /\ <<Do(1, "shout")>> \in Seq(Steps)
        /\ Expect(2, <<"ENTER", "JOIN", "SHOUT">>) \in Seq(Steps)
    BY Openings, Expectations DEF Deeds
  <2> DEFINE s == Met \o <<Do(1, "shout")>> \o Expect(2, <<"ENTER", "JOIN", "SHOUT">>)
  <2>2. s \in Seq(Steps)
    BY <2>1, Joining
  <2>3. CurveBeaconTest = s \o Parted
    BY DEF CurveBeaconTest
  <2> HIDE DEF s
  <2> QED BY <2>2, <2>3, Closings, WholeBehind
<1>3. Whole(CurveGossipTest)
  <2>1. /\ Met \in Seq(Steps) /\ <<Do(1, "shout")>> \in Seq(Steps)
        /\ Expect(2, <<"ENTER">>) \in Seq(Steps)
    BY Openings, Expectations DEF Deeds
  <2> DEFINE s == Met \o <<Do(1, "shout")>> \o Expect(2, <<"ENTER">>)
  <2>2. s \in Seq(Steps)
    BY <2>1, Joining
  <2>3. CurveGossipTest = s \o Parted
    BY DEF CurveGossipTest
  <2> HIDE DEF s
  <2> QED BY <2>2, <2>3, Closings, WholeBehind
<1>4. Whole(EventTest)
  <2>1. /\ Do(1, "start") \in Steps /\ Do(2, "start") \in Steps /\ Sleep \in Steps
        /\ With(1, "join", "GLOBAL") \in Steps /\ With(2, "join", "GLOBAL") \in Steps
        /\ Do(1, "shout") \in Steps
    BY Written DEF Deeds
  <2> DEFINE s == << Do(1, "start"), With(1, "join", "GLOBAL"), Do(2, "start"),
                     With(2, "join", "GLOBAL"), Sleep, Do(1, "shout"), Sleep >>
  <2>2. s \in Seq(Steps)
    BY <2>1
  <2>3. Expect(2, <<"ENTER">>) \in Seq(Steps)
    BY Expectations
  <2>4. EventTest = (s \o Expect(2, <<"ENTER">>))
                     \o <<With(2, "tolerate", "JOIN"), With(2, "tolerate", "SHOUT"),
                          Do(1, "destroy"), Do(2, "destroy")>>
    BY DEF EventTest
  <2> HIDE DEF s
  <2>5. s \o Expect(2, <<"ENTER">>) \in Seq(Steps)
    BY <2>2, <2>3, Joining
  <2> QED BY <2>4, <2>5, Closings, WholeBehind
<1> QED BY <1>1, <1>2, <1>3, <1>4

LEMMA ScriptWhole ==
    ASSUME main.test \in {"zyre", "event", "beacon", "gossip"}
    PROVE  Whole(Script)
<1>1. Whole(ZyreTest) /\ Whole(CurveBeaconTest) /\ Whole(CurveGossipTest) /\ Whole(EventTest)
  BY ScriptFacts
<1>2. CASE main.test = "zyre"
  BY <1>1, <1>2 DEF Script
<1>3. CASE main.test = "beacon"
  BY <1>1, <1>3 DEF Script
<1>4. CASE main.test = "gossip"
  BY <1>1, <1>4 DEF Script
<1>5. CASE main.test = "event"
  BY <1>1, <1>5 DEF Script
<1> QED BY <1>2, <1>3, <1>4, <1>5

\* The line a self test comes to.
LEMMA LineFacts ==
    ASSUME Main, Running
    PROVE  /\ Line \in Steps /\ Len(Script) \in Nat /\ main.count \in Nat
           /\ main.count < Len(Script)
           /\ Line.what # "destroy" => main.count + 2 <= Len(Script)
<1>1. main.test \in {"zyre", "event", "beacon", "gossip"} /\ main.count \in Nat
      /\ main.count < Len(Script)
  BY Alone DEF Main, Running
<1>2. Whole(Script)
  BY <1>1, ScriptWhole
<1>3. Script \in Seq(Steps) /\ Len(Script) \in Nat /\ Script[Len(Script)] = Closing
  BY <1>2 DEF Whole
<1>4. main.count + 1 \in 1 .. Len(Script)
  BY <1>1, <1>3
<1>5. Line \in Steps
  BY <1>3, <1>4 DEF Line
<1>6. Line.what # "destroy" => main.count + 2 <= Len(Script)
  <2> SUFFICES ASSUME Line.what # "destroy", ~(main.count + 2 <= Len(Script))
               PROVE  FALSE
    OBVIOUS
  <2>1. main.count + 1 = Len(Script)
    BY <1>1, <1>3
  <2>2. Line = Closing
    BY <1>3, <2>1 DEF Line
  <2> QED BY <2>2 DEF Closing, Do
<1> QED BY <1>1, <1>3, <1>5, <1>6

\* A line behind: what it asserts does not matter here.
LEMMA AssertedMain ==
    ASSUME Main, Running, NEW holds \in BOOLEAN, NEW lines \in {1, 2}, Asserted(holds, lines),
           lines = 1 \/ Line.what # "destroy"
    PROVE  Main'
<1>1. /\ Len(Script) \in Nat /\ main.count \in Nat /\ main.count < Len(Script)
      /\ Line.what # "destroy" => main.count + 2 <= Len(Script)
  BY LineFacts
<1>2. main.count + lines \in Nat /\ main.count + lines <= Len(Script)
  BY <1>1
<1>3. /\ main' = [main EXCEPT !.count = main.count + lines, !.failed = ~holds,
                     !.at = IF main.count + lines = Len(Script) THEN "done" ELSE "run"]
      /\ role' = role
  BY DEF Asserted
<1> DEFINE l == Len(Script)
           c == main.count + lines
<1>4. /\ main' \in [at: {"run", "done"}, test: Tests \cup {"none"}, count: Nat, failed: BOOLEAN,
                    actor: [Actors -> Node \cup {None}], waits: Actors \cup {None}]
      /\ main'.test = main.test /\ main'.count = c
      /\ main'.at = IF c = l THEN "done" ELSE "run"
  <2> DEFINE at == IF c = l THEN "done" ELSE "run"
  <2>1. at \in {"run", "done"} /\ c \in Nat
    BY <1>2
  <2>3. (~holds) \in BOOLEAN
    OBVIOUS
  <2>2. main' = [main EXCEPT !.count = c, !.failed = ~holds, !.at = at]
    BY <1>3
  <2> HIDE DEF at, c
  <2> QED BY <2>1, <2>2, <2>3 DEF Main, at
<1>5. Script' = Script
  BY <1>4 DEF Script
<1>6. main'.test # "none"
  BY <1>4 DEF Running
<1>7. \E n \in Node : role[n] = "tested"
  BY DEF Main, Running
<1>8. c \in Nat /\ l \in Nat /\ c <= l
  BY <1>1, <1>2
<1> HIDE DEF c
<1> QED BY <1>3, <1>4, <1>5, <1>6, <1>7, <1>8 DEF Main

-----------------------------------------------------------------------------
(* Steps that keep the invariant                                           *)

LEMMA MainStays ==
    ASSUME Main, main' = main, role' = role PROVE Main'
<1>1. Script' = Script
  BY DEF Script
<1> QED BY <1>1 DEF Main

LEMMA CastStays ==
    ASSUME Cast, role' = role PROVE Cast'
BY DEF Cast

\* A step of one node that may be its client's.
OneGoes(n, a, t) ==
    /\ Fair(role, node, n, t) /\ a \in AppState
    /\ role[n] \in Speaker => Stage(a.at, t)
    /\ node' = [node EXCEPT ![n] = t] /\ app' = [app EXCEPT ![n] = a] /\ role' = role

LEMMA OneGoesInv ==
    ASSUME Inv, NEW n \in Node, NEW a, NEW t, OneGoes(n, a, t), Main'
    PROVE  Inv'
<1>1. /\ World(role, node) /\ Apps /\ Stages /\ Cast
      /\ Fair(role, node, n, t) /\ a \in AppState /\ (role[n] \in Speaker => Stage(a.at, t))
      /\ node' = [node EXCEPT ![n] = t] /\ app' = [app EXCEPT ![n] = a] /\ role' = role
  BY DEF Inv, OneGoes
<1>2. World(role, [node EXCEPT ![n] = t])
  BY <1>1, OneNode
<1>3. World(role', node')
  BY <1>1, <1>2
<1>4. Apps'
  BY <1>1 DEF Apps
<1>5. Stages'
  <2>1. node \in [Node -> NodeState] /\ app \in [Node -> AppState]
    BY <1>1 DEF World, Tables, Apps
  <2>2. SUFFICES ASSUME NEW m \in Node, role[m] \in Speaker
                 PROVE  Stage(app'[m].at, node'[m])
    BY <1>1 DEF Stages
  <2>3. CASE m = n
    BY <1>1, <2>1, <2>2, <2>3
  <2>4. CASE m # n
    <3>1. app'[m] = app[m] /\ node'[m] = node[m]
      BY <1>1, <2>1, <2>4
    <3> QED BY <1>1, <2>2, <3>1 DEF Stages
  <2> QED BY <2>3, <2>4
<1>6. Cast'
  BY <1>1, CastStays
<1> QED BY <1>3, <1>4, <1>5, <1>6 DEF Inv

\* The client goes on.
LEMMA GoesInv ==
    ASSUME Inv, NEW n \in Node, NEW a \in AppState, NEW t, Goes(n, a, t),
           Fair(role, node, n, t), role[n] \in Speaker => Stage(a.at, t)
    PROVE  Inv'
<1>1. OneGoes(n, a, t) /\ main' = main /\ role' = role
  BY DEF OneGoes, Goes
<1>2. Main'
  BY <1>1, MainStays DEF Inv
<1> QED BY <1>1, <1>2, OneGoesInv

\* It talks and takes events.
LEMMA TalkInv ==
    ASSUME Inv, NEW n \in Node, NEW a \in AppState, NEW t, NEW K \in SUBSET Talk,
           Goes(n, a, t), Talks(node[n], t, K), role[n] \in Speaker =>
             app[n].at \in Talking /\ a.at \in Talking,
           role[n] \in Silent => K \subseteq {"SHOUT"}
    PROVE  Inv'
<1>1. World(role, node) /\ Stages
  BY DEF Inv
<1>2. t.own = node[n].own
  BY DEF Talks, Alike
<1>3. role[n] \in Speaker => "GLOBAL" \in node[n].own
  BY <1>1 DEF Stages, Stage
<1>4. Fair(role, node, n, t)
  BY <1>1, <1>3, FairTalks
<1>5. role[n] \in Speaker => Stage(a.at, t)
  BY <1>2, <1>3 DEF Stage, Talking
<1> QED BY <1>4, <1>5, GoesInv

\* Its node is destroyed.
LEMMA EndsInv ==
    ASSUME Inv, NEW n \in Node, Ends(n)
    PROVE  Inv'
<1>1. World(role, node) /\ Apps /\ Main
  BY DEF Inv
<1>2. /\ app' = [app EXCEPT ![n].at = "done"] /\ Destroy(n) /\ role' = role /\ main' = main
  BY DEF Ends
<1>3. PICK kept \in Keeps(node[n]) : node' = [node EXCEPT ![n] = Destroyed(@, kept)]
  BY <1>2 DEF Destroy
<1> DEFINE t == Destroyed(node[n], kept)
           a == [app[n] EXCEPT !.at = "done"]
<1>4. Fair(role, node, n, t)
  BY <1>1, FairDestroyed
<1>5. a \in AppState /\ a.at = "done"
  <2>1. app[n] \in AppState
    BY <1>1 DEF Apps
  <2> QED BY <2>1 DEF AppState, Place
<1>6. Stage(a.at, t)
  BY <1>5 DEF Stage, Talking
<1>7. node' = [node EXCEPT ![n] = t] /\ app' = [app EXCEPT ![n] = a]
  BY <1>2, <1>3
<1> HIDE DEF t, a
<1>8. OneGoes(n, a, t)
  BY <1>2, <1>4, <1>5, <1>6, <1>7 DEF OneGoes
<1>9. Main'
  BY <1>1, <1>2, MainStays
<1> QED BY <1>8, <1>9, OneGoesInv

\* A step of a node that its client does not see.
LEMMA NodeInv ==
    ASSUME Inv, NEW n \in Node, NEW t, Fair(role, node, n, t),
           role[n] \in Speaker => t.own = node[n].own /\ (t.state = "gone" <=> node[n].state = "gone"),
           node' = [node EXCEPT ![n] = t], app' = app, role' = role, Main'
    PROVE  Inv'
<1>1. app \in [Node -> AppState] /\ Stages
  BY DEF Inv, Apps
<1>2. role[n] \in Speaker => Stage(app[n].at, t)
  BY <1>1 DEF Stages, Stage
<1>3. app' = [app EXCEPT ![n] = app[n]]
  BY <1>1
<1>4. OneGoes(n, app[n], t)
  BY <1>1, <1>2, <1>3 DEF OneGoes
<1> QED BY <1>4, OneGoesInv

-----------------------------------------------------------------------------
(* The network                                                             *)

LEMMA InvFacts ==
    ASSUME Inv
    PROVE  /\ World(role, node) /\ Main /\ Cast /\ node \in [Node -> NodeState]
           /\ app \in [Node -> AppState]
           /\ \A n \in Node : Good(n, node[n]) /\ node[n] \in NodeState /\ app[n] \in AppState
           /\ \A n \in Node : role[n] \in Speaker => Stage(app[n].at, node[n])
BY DEF Inv, World, Tables, Apps, Stages

LEMMA DiscoverInv ==
    ASSUME Inv, NEW n \in Node, NEW m \in Node, Discover(n, m)
    PROVE  Inv'
<1>1. /\ n # m /\ node[n].state = "up" /\ node' = [node EXCEPT ![n] = RequirePeer(node[n], m)]
      /\ role' = role /\ app' = app /\ main' = main
  BY DEF Discover
<1>2. World(role, node) /\ Good(n, node[n]) /\ Main
  BY InvFacts
<1>3. m \in Node \ {n} /\ n \in Node \ {m}
  BY <1>1
<1> DEFINE t == RequirePeer(node[n], m)
<1>4. Fair(role, node, n, t)
  BY <1>1, <1>2, <1>3, FairDiscover
<1>5. IF m \in node[n].peers THEN t = node[n] ELSE Greets(node[n], t, m)
  BY <1>2, <1>3, RequirePeerFacts
<1>6. t.own = node[n].own /\ t.state = node[n].state
  BY <1>5 DEF Greets
<1>7. Main'
  BY <1>1, <1>2, MainStays
<1>8. node' = [node EXCEPT ![n] = t]
  BY <1>1
<1> HIDE DEF t
<1> QED BY <1>1, <1>4, <1>6, <1>7, <1>8, NodeInv

LEMMA ExpireInv ==
    ASSUME Inv, NEW n \in Node, NEW m \in Node, Expire(n, m)
    PROVE  Inv'
<1>1. /\ node[n].state = "up" /\ m \in node[n].peers
      /\ node' = [node EXCEPT ![n] = RemovePeer(node[n], m)]
      /\ role' = role /\ app' = app /\ main' = main
  BY DEF Expire
<1>2. World(role, node) /\ Good(n, node[n]) /\ Main
  BY InvFacts
<1>3. m \in Node \ {n}
  BY <1>1, <1>2 DEF Good
<1> DEFINE t == RemovePeer(node[n], m)
<1>4. Fair(role, node, n, t)
  BY <1>1, <1>2, <1>3, FairExpire
<1>5. Cuts(node[n], t, m)
  BY <1>2, <1>3, RemovePeerFacts
<1>6. t.own = node[n].own /\ t.state = node[n].state
  BY <1>5 DEF Cuts
<1>7. Main'
  BY <1>1, <1>2, MainStays
<1>8. node' = [node EXCEPT ![n] = t]
  BY <1>1
<1> HIDE DEF t
<1> QED BY <1>1, <1>4, <1>6, <1>7, <1>8, NodeInv

LEMMA EvasiveInv ==
    ASSUME Inv, NEW n \in Node, NEW m \in Node, Evasive(n, m)
    PROVE  Inv'
<1> DEFINE t == PingPeer(node[n], m)
<1>1. /\ node[n].state = "up" /\ node' = [node EXCEPT ![n] = t]
      /\ role' = role /\ app' = app /\ main' = main
  BY DEF Evasive
<1>2. World(role, node) /\ node[n] \in NodeState /\ Main
  BY InvFacts
<1>3. Fair(role, node, n, t)
  BY <1>1, <1>2, FairEvasive
<1>4. t.own = node[n].own /\ t.state = node[n].state
  BY <1>2 DEF PingPeer, Tell, NodeState
<1>5. Main'
  BY <1>1, <1>2, MainStays
<1> HIDE DEF t
<1> QED BY <1>1, <1>3, <1>4, <1>5, NodeInv

\* The nodes after a delivery.
LEMMA DeliverShape ==
    ASSUME Inv, NEW m \in Node, NEW n \in Node, Deliver(m, n)
    PROVE  /\ n \in Node \ {m} /\ node[n].state = "up" /\ node[m].out[n] # <<>>
           /\ role' = role /\ app' = app /\ main' = main
           /\ Delivers(node, m, n, [node[m] EXCEPT !.out[n] = Tail(@)],
                       Recv(node[n], m, Head(node[m].out[n])), node')
<1>1. node \in [Node -> NodeState] /\ \A x \in Node : Good(x, node[x])
  BY InvFacts
<1> DEFINE s == [node[m] EXCEPT !.out[n] = Tail(@)]
           t == Recv(node[n], m, Head(node[m].out[n]))
           nt == [x \in Node |-> CASE x = n -> t [] x = m -> s [] OTHER -> node[x]]
<1>2. /\ node[n].state = "up" /\ node[m].out[n] # <<>>
      /\ role' = role /\ app' = app /\ main' = main
  BY DEF Deliver
<1>3. n # m
  BY <1>1, <1>2 DEF Good
<1>4. node' = nt
  <2> DEFINE popped == [node EXCEPT ![m].out[n] = Tail(@)]
  <2>1. node' = [popped EXCEPT ![n] = Recv(popped[n], m, Head(node[m].out[n]))]
    BY DEF Deliver
  <2>2. popped = [node EXCEPT ![m] = s]
    BY <1>1
  <2> HIDE DEF popped, s
  <2>3. popped[n] = node[n] /\ popped \in [Node -> {popped[x] : x \in Node}]
    BY <1>1, <1>3, <2>2
  <2>4. node' = [popped EXCEPT ![n] = t]
    BY <2>1, <2>3
  <2> HIDE DEF t
  <2> QED BY <1>1, <1>3, <2>2, <2>4
<1>5. Delivers(node, m, n, s, t, nt)
  BY <1>3 DEF nt, Delivers
<1> HIDE DEF s, t, nt
<1>6. Delivers(node, m, n, s, t, node')
  BY <1>4, <1>5
<1> QED BY <1>2, <1>3, <1>6 DEF s, t

LEMMA DeliverInv ==
    ASSUME Inv, NEW m \in Node, NEW n \in Node, Deliver(m, n)
    PROVE  Inv'
<1>1. /\ World(role, node) /\ Main /\ Cast /\ Apps /\ node \in [Node -> NodeState]
      /\ \A x \in Node : Good(x, node[x]) /\ node[x] \in NodeState
      /\ \A x \in Node : role[x] \in Speaker => Stage(app[x].at, node[x])
  BY InvFacts DEF Inv
<1> DEFINE s == [node[m] EXCEPT !.out[n] = Tail(@)]
           t == Recv(node[n], m, Head(node[m].out[n]))
<1>2. /\ n # m /\ node[n].state = "up" /\ node[m].out[n] # <<>>
      /\ role' = role /\ app' = app /\ main' = main
      /\ Delivers(node, m, n, s, t, node')
  BY DeliverShape
<1>3. World(role, node')
  <2> HIDE DEF s, t
  <2>1. PICK nt : nt = node'
    OBVIOUS
  <2>2. Delivers(node, m, n, s, t, nt) /\ n \in Node \ {m}
    BY <1>2, <2>1
  <2> QED BY <1>1, <1>2, <2>1, <2>2, Delivered
<1>4. node'[n].own = node[n].own /\ (node'[n].state = "gone" <=> node[n].state = "gone")
  <2>1. node[m].out[n] \in Seq(Message)
    BY <1>1 DEF NodeState
  <2>2. Head(node[m].out[n]) \in Message
    BY <1>2, <2>1
  <2>3. Good(n, node[n]) /\ m \in Node \ {n}
    BY <1>1, <1>2
  <2>4. Takes(node[n], t, m, Head(node[m].out[n]))
    BY <2>2, <2>3, RecvFacts
  <2> HIDE DEF t
  <2>5. MouthKept(node[n], t, m) \/ Greets(node[n], t, m) \/ Cuts(node[n], t, m)
    BY <2>4 DEF Takes
  <2>6. t.own = node[n].own /\ (t.state = "gone" <=> node[n].state = "gone")
    BY <2>5 DEF MouthKept, Greets, Cuts
  <2> HIDE DEF s
  <2>7. node'[n] = t
    BY <1>2 DEF Delivers
  <2> QED BY <2>6, <2>7
<1>5. \A x \in Node \ {n} : node'[x].own = node[x].own /\ node'[x].state = node[x].state
  <2>1. s.own = node[m].own /\ s.state = node[m].state
    BY <1>1 DEF NodeState
  <2> HIDE DEF s, t
  <2> QED BY <1>2, <2>1 DEF Delivers
<1>6. Stages'
  BY <1>1, <1>2, <1>4, <1>5 DEF Stages, Stage
<1>7. World(role', node')
  BY <1>2, <1>3
<1>8. Apps' /\ Cast' /\ Main'
  BY <1>1, <1>2, MainStays, CastStays DEF Apps
<1> QED BY <1>6, <1>7, <1>8 DEF Inv

-----------------------------------------------------------------------------
(* The programs                                                            *)

\* An event has come.
LEMMA Comes ==
    ASSUME Inv, NEW n \in Node, Waiting(n)
    PROVE  /\ node[n] \in NodeState /\ Good(n, node[n]) /\ node[n].events # <<>>
           /\ Good(n, Taken(node[n])) /\ Taken(node[n]) \in NodeState
           /\ First(n) \in Notice
           /\ \A K : Talks(node[n], Taken(node[n]), K)
<1>1. node[n] \in NodeState /\ Good(n, node[n]) /\ node[n].events # <<>>
  BY InvFacts DEF Waiting
<1>2. Good(n, Taken(node[n])) /\ Taken(node[n]) \in NodeState /\ Head(node[n].events) \in Notice
  BY <1>1, TakenGood
<1>3. \A K : Talks(node[n], Taken(node[n]), K)
  BY <1>1, TakenTalks
<1> QED BY <1>1, <1>2, <1>3 DEF First

LEMMA BeginInv ==
    ASSUME Inv, NEW n \in Node, Begin(n)
    PROVE  Inv'
<1>1. /\ World(role, node) /\ app[n] \in AppState /\ Good(n, node[n])
      /\ role[n] \in Speaker => Stage(app[n].at, node[n])
  BY InvFacts
<1>2. app[n].at = "new" /\ Goes(n, [app[n] EXCEPT !.at = "join"], Start(node[n]))
  BY DEF Begin
<1> DEFINE a == [app[n] EXCEPT !.at = "join"]
           t == Start(node[n])
<1>3. a \in AppState /\ a.at = "join"
  BY <1>1 DEF AppState, Place
<1>4. Fair(role, node, n, t)
  BY <1>1, <1>2, FairStart DEF Stage
<1>5. t.state = "up"
  BY <1>1, StartFacts
<1>6. Stage(a.at, t)
  BY <1>3, <1>5 DEF Stage, Talking
<1> HIDE DEF a, t
<1>7. Goes(n, a, t)
  BY <1>2 DEF a, t
<1> QED BY <1>3, <1>4, <1>6, <1>7, GoesInv

LEMMA JoinRoomInv ==
    ASSUME Inv, NEW n \in Node, JoinRoom(n)
    PROVE  Inv'
<1>1. /\ World(role, node) /\ app[n] \in AppState /\ Good(n, node[n])
      /\ role[n] \in Speaker => Stage(app[n].at, node[n])
  BY InvFacts
<1>2. /\ app[n].at = "join" /\ role[n] \in Messages
      /\ Goes(n, [app[n] EXCEPT !.at = "run"], Join(node[n], Room(n)))
  BY DEF JoinRoom
<1>3. Room(n) \in Groups /\ (role[n] \in Speaker => Room(n) = "GLOBAL")
  <2>1. CASE role[n] = "chat"
    BY <2>1 DEF Room, Groups, Speaker
  <2>2. CASE role[n] = "minimal"
    BY <2>2 DEF Room, Groups, Speaker
  <2>3. CASE role[n] \notin {"chat", "minimal"}
    BY <2>3 DEF Room, Groups
  <2> QED BY <2>1, <2>2, <2>3
<1> DEFINE g == Room(n)
           a == [app[n] EXCEPT !.at = "run"]
           t == Join(node[n], g)
<1> HIDE DEF g
<1>4. a \in AppState /\ a.at = "run"
  BY <1>1 DEF AppState, Place
<1>5. Fair(role, node, n, t)
  <2>1. role[n] \in Speaker => g = "GLOBAL" /\ node[n].state # "gone"
    BY <1>1, <1>2, <1>3 DEF Stage, g
  <2>2. g \in Groups
    BY <1>3 DEF g
  <2> QED BY <1>1, <2>1, <2>2, FairJoin
<1>6. role[n] \in Speaker => Stage(a.at, t)
  <2>1. g \in Groups
    BY <1>3 DEF g
  <2>2. t.own = node[n].own \cup {g}
    BY <1>1, <2>1, JoinFacts
  <2> QED BY <1>3, <1>4, <2>2 DEF Stage, g
<1> HIDE DEF a, t
<1>7. Goes(n, a, t)
  BY <1>2 DEF a, t, g
<1> QED BY <1>4, <1>5, <1>6, <1>7, GoesInv

\* What perf_local counts.
LEMMA GreetType ==
    ASSUME NEW a \in AppState, a.at = "run", NEW event \in Notice
    PROVE  Greet(a, event) \in AppState /\ Greet(a, event).at \in {"run", "WHISPER"}
<1> DEFINE counted ==
        CASE event.type = "ENTER" /\ Len(a.peers) < MaxNode ->
                [a EXCEPT !.peers = Append(@, event.peer)]
          [] event.type = "WHISPER" /\ a.hello < MaxNode /\ event.text = "R:HELLO" ->
                [a EXCEPT !.hello = @ + 1]
          [] OTHER -> a
<1>1. counted \in AppState /\ counted.at = "run"
  <2>1. event.peer \in Node /\ a.peers \in Seq(Node) /\ a.hello \in Nat
    BY DEF Notice, AppState
  <2>2. Append(a.peers, event.peer) \in Seq(Node) /\ a.hello + 1 \in Nat
    BY <2>1
  <2>3. /\ [a EXCEPT !.peers = Append(@, event.peer)] \in AppState
        /\ [a EXCEPT !.peers = Append(@, event.peer)].at = "run"
    BY <2>2 DEF AppState
  <2>4. [a EXCEPT !.hello = @ + 1] \in AppState /\ [a EXCEPT !.hello = @ + 1].at = "run"
    BY <2>2 DEF AppState
  <2>5. CASE event.type = "ENTER" /\ Len(a.peers) < MaxNode
    BY <2>3, <2>5
  <2>6. CASE event.type = "WHISPER" /\ a.hello < MaxNode /\ event.text = "R:HELLO"
    BY <2>4, <2>6
  <2>7. CASE /\ ~(event.type = "ENTER" /\ Len(a.peers) < MaxNode)
             /\ ~(event.type = "WHISPER" /\ a.hello < MaxNode /\ event.text = "R:HELLO")
    BY <2>7
  <2> QED BY <2>5, <2>6, <2>7
<1>2. Greet(a, event) = IF GreetingsDone(counted) THEN [counted EXCEPT !.at = "WHISPER"]
                        ELSE counted
  BY DEF Greet
<1> HIDE DEF counted
<1>3. [counted EXCEPT !.at = "WHISPER"] \in AppState /\ [counted EXCEPT !.at = "WHISPER"].at = "WHISPER"
  BY <1>1 DEF AppState, Place
<1> QED BY <1>1, <1>2, <1>3

LEMMA NodeRecvType ==
    ASSUME NEW a \in AppState, NEW at, NEW event
    PROVE  NodeRecv(a, at, event) \in AppState /\ NodeRecv(a, at, event).at = a.at
BY DEF NodeRecv, AppState

\* perf_local takes what has come.
LEMMA TakesInv ==
    ASSUME Inv, NEW n \in Node, NEW a \in AppState, Waiting(n), Goes(n, a, Taken(node[n])),
           role[n] \in Speaker => app[n].at \in Talking /\ a.at \in Talking
    PROVE  Inv'
<1>1. Talks(node[n], Taken(node[n]), {}) /\ {} \in SUBSET Talk
  BY Comes
<1> DEFINE t == Taken(node[n])
           K == {}
<1>2. Talks(node[n], t, K) /\ K \in SUBSET Talk /\ Goes(n, a, t) /\ K \subseteq {"SHOUT"}
  BY <1>1
<1> HIDE DEF t, K
<1> QED BY <1>2, TalkInv

\* A client that goes on by itself.
LEMMA StaysInv ==
    ASSUME Inv, NEW n \in Node, NEW a \in AppState, Goes(n, a, node[n]),
           role[n] \in Speaker => app[n].at \in Talking /\ a.at \in Talking
    PROVE  Inv'
<1> DEFINE t == node[n]
           K == {}
<1>1. node[n] \in NodeState
  BY InvFacts
<1>2. Talks(node[n], t, K) /\ K \in SUBSET Talk /\ Goes(n, a, t) /\ K \subseteq {"SHOUT"}
  BY <1>1, StaysTalks
<1> HIDE DEF t, K
<1> QED BY <1>2, TalkInv

\* perf_local
LEMMA LocalGreetsInv ==
    ASSUME Inv, NEW n \in Node, LocalGreets(n)
    PROVE  Inv'
<1>1. /\ app[n].at = "run" /\ Waiting(n)
      /\ Goes(n, Greet(app[n], First(n)), Taken(node[n]))
  BY DEF LocalGreets, At
<1>2. app[n] \in AppState /\ First(n) \in Notice
  BY <1>1, InvFacts, Comes
<1>3. Greet(app[n], First(n)) \in AppState /\ Greet(app[n], First(n)).at \in {"run", "WHISPER"}
  BY <1>1, <1>2, GreetType
<1>4. {"run", "WHISPER"} \subseteq Talking
  BY DEF Talking, Place
<1> QED BY <1>1, <1>3, <1>4, TakesInv

LEMMA SendsInv ==
    ASSUME Inv, NEW n \in Node, NEW at \in {"WHISPER", "SHOUT"},
           NEW drain \in {"whispered", "shouted"}, Sends(n, at, drain)
    PROVE  Inv'
<1> DEFINE a == [app[n] EXCEPT !.at = drain, !.sent = @ + 1]
           t == IF at = "WHISPER"
                THEN Whisper(node[n], app[n].peers[(app[n].sent % MaxNode) + 1], "S:WHISPER")
                ELSE Shout(node[n], "GLOBAL", "S:SHOUT")
<1>1. role[n] = "local" /\ app[n].at = at /\ Goes(n, a, t)
  BY DEF Sends, At
<1>2. app[n] \in AppState /\ Good(n, node[n]) /\ node[n] \in NodeState
  BY InvFacts
<1>3. a \in AppState /\ a.at = drain
  <2>1. app[n].sent + 1 \in Nat /\ drain \in Place
    BY <1>2 DEF AppState, Place
  <2> QED BY <1>2, <2>1 DEF AppState
<1>4. Talks(node[n], t, Talk) /\ Talk \in SUBSET Talk
  <2>1. "S:WHISPER" \in Word /\ "S:SHOUT" \in Word /\ "GLOBAL" \in Word
    BY Words DEF Groups
  <2> DEFINE m == app[n].peers[(app[n].sent % MaxNode) + 1]
             w == Whisper(node[n], m, "S:WHISPER")
             s == Shout(node[n], "GLOBAL", "S:SHOUT")
  <2> HIDE DEF m
  <2>2. Talks(node[n], w, {"WHISPER"})
    BY <1>2, <2>1, WhisperTalks
  <2>3. Talks(node[n], s, {"SHOUT"})
    BY <1>2, <2>1, ShoutTalks
  <2> HIDE DEF w, s
  <2>4. Talks(node[n], w, Talk) /\ Talks(node[n], s, Talk)
    BY <2>2, <2>3, TalksMore DEF Talk
  <2>5. t = w \/ t = s
    BY DEF w, s, m
  <2> HIDE DEF t
  <2> QED BY <2>4, <2>5
<1>5. at \in Talking /\ drain \in Talking
  BY DEF Talking, Place
<1>6. role[n] \notin Silent
  BY <1>1 DEF Silent
<1> DEFINE K == Talk
<1>7. /\ K \in SUBSET Talk /\ Talks(node[n], t, K) /\ a \in AppState /\ Goes(n, a, t)
      /\ role[n] \in Speaker => app[n].at \in Talking /\ a.at \in Talking
  BY <1>1, <1>3, <1>4, <1>5
<1> HIDE DEF a, t, K
<1> QED BY <1>6, <1>7, TalkInv

LEMMA DrainsInv ==
    ASSUME Inv, NEW n \in Node, NEW at \in {"WHISPER", "SHOUT"},
           NEW drain \in {"whispered", "shouted"}, Drains(n, at, drain)
    PROVE  Inv'
<1>1. app[n].at = drain /\ app[n] \in AppState
  BY InvFacts DEF Drains, At
<1>2. at \in Talking /\ drain \in Talking
  BY DEF Talking, Place
<1>3. CASE Waiting(n)
  <2> DEFINE a == NodeRecv(app[n], at, First(n))
  <2>1. Goes(n, a, Taken(node[n]))
    BY <1>3 DEF Drains
  <2>2. a \in AppState /\ a.at = drain
    BY <1>1, NodeRecvType
  <2> HIDE DEF a
  <2> QED BY <1>1, <1>2, <1>3, <2>1, <2>2, TakesInv
<1>4. CASE ~Waiting(n)
  <2> DEFINE a == [app[n] EXCEPT !.at = at]
  <2>1. Goes(n, a, node[n])
    BY <1>4 DEF Drains
  <2>2. a \in AppState /\ a.at = at
    BY <1>1 DEF AppState, Place
  <2> HIDE DEF a
  <2> QED BY <1>1, <1>2, <2>1, <2>2, StaysInv
<1> QED BY <1>3, <1>4

LEMMA AwaitsInv ==
    ASSUME Inv, NEW n \in Node, NEW at \in {"WHISPER", "SHOUT"}, Awaits(n, at)
    PROVE  Inv'
<1> DEFINE a == NodeRecv(app[n], at, First(n))
<1>1. app[n].at = at /\ app[n] \in AppState /\ Waiting(n) /\ Goes(n, a, Taken(node[n]))
  BY InvFacts DEF Awaits, At
<1>2. at \in Talking
  BY DEF Talking, Place
<1>3. a \in AppState /\ a.at = at
  BY <1>1, NodeRecvType
<1> HIDE DEF a
<1> QED BY <1>1, <1>2, <1>3, TakesInv

LEMMA SecondMeasurementInv ==
    ASSUME Inv, NEW n \in Node, SecondMeasurement(n)
    PROVE  Inv'
<1> DEFINE a == [app[n] EXCEPT !.at = "SHOUT", !.sent = 0, !.got = 0]
<1>1. app[n].at = "WHISPER" /\ app[n] \in AppState /\ Goes(n, a, node[n])
  BY InvFacts DEF SecondMeasurement, Measured, At
<1>2. {"WHISPER", "SHOUT"} \subseteq Talking
  BY DEF Talking, Place
<1>3. a \in AppState /\ a.at = "SHOUT"
  BY <1>1 DEF AppState, Place
<1> HIDE DEF a
<1> QED BY <1>1, <1>2, <1>3, StaysInv

LEMMA PerfLocalInv ==
    ASSUME Inv, NEW n \in Node, PerfLocal(n)
    PROVE  Inv'
<1>1. CASE LocalGreets(n)
  BY <1>1, LocalGreetsInv
<1>2. CASE SecondMeasurement(n)
  BY <1>2, SecondMeasurementInv
<1>3. CASE LocalEnds(n)
  BY <1>3, EndsInv DEF LocalEnds
<1>4. CASE Sends(n, "WHISPER", "whispered") \/ Sends(n, "SHOUT", "shouted")
  BY <1>4, SendsInv
<1>5. CASE Drains(n, "WHISPER", "whispered") \/ Drains(n, "SHOUT", "shouted")
  BY <1>5, DrainsInv
<1>6. CASE Awaits(n, "WHISPER") \/ Awaits(n, "SHOUT")
  BY <1>6, AwaitsInv
<1> QED BY <1>1, <1>2, <1>3, <1>4, <1>5, <1>6 DEF PerfLocal

\* perf_remote, zpinger: an answer by WHISPER or SHOUT, or none.
LEMMA AnswerTalks ==
    ASSUME Inv, NEW n \in Node, Waiting(n), NEW g \in Word, NEW m, NEW text \in Word
    PROVE  LET s == Taken(node[n]) IN
           /\ Talks(node[n], Whisper(s, m, text), Talk)
           /\ Talks(node[n], Shout(s, g, text), Talk)
           /\ Talks(node[n], s, Talk)
<1> DEFINE s == Taken(node[n])
           w == Whisper(s, m, text)
           u == Shout(s, g, text)
<1>1. /\ node[n] \in NodeState /\ node[n].events # <<>> /\ Good(n, s) /\ s \in NodeState
      /\ \A K : Talks(node[n], s, K)
  BY Comes
<1>2. Talks(s, w, {"WHISPER"}) /\ w.events = s.events
  BY <1>1, WhisperTalks
<1>3. Talks(s, u, {"SHOUT"}) /\ u.events = s.events
  BY <1>1, ShoutTalks
<1> HIDE DEF w, u
<1>4. Talks(node[n], w, {"WHISPER"}) /\ Talks(node[n], u, {"SHOUT"})
  BY <1>1, <1>2, <1>3, TakenThen
<1>5. Talks(node[n], w, Talk) /\ Talks(node[n], u, Talk)
  BY <1>4, TalksMore DEF Talk
<1> QED BY <1>1, <1>5 DEF w, u

\* The state of the application stays or goes on within a conversation.
LEMMA AnswerInv ==
    ASSUME Inv, NEW n \in Node, NEW t, Talks(node[n], t, Talk), Goes(n, app[n], t),
           role[n] \notin Silent, app[n].at \in Talking
    PROVE  Inv'
<1> DEFINE K == Talk
           a == app[n]
<1>1. /\ K \in SUBSET Talk /\ Talks(node[n], t, K) /\ a \in AppState /\ Goes(n, a, t)
      /\ role[n] \in Speaker => app[n].at \in Talking /\ a.at \in Talking
  BY InvFacts
<1> HIDE DEF K, a
<1> QED BY <1>1, TalkInv

LEMMA RemoteTakesInv ==
    ASSUME Inv, NEW n \in Node, RemoteTakes(n)
    PROVE  Inv'
<1> DEFINE s == Taken(node[n])
           event == First(n)
           t == RemoteAnswer(s, event)
<1>1. role[n] = "remote" /\ app[n].at = "run" /\ Waiting(n) /\ Goes(n, app[n], t)
  BY DEF RemoteTakes, At
<1>2. event \in Notice /\ event.group \in Word
  BY <1>1, Comes DEF Notice
<1>3. {"R:HELLO", "R:WHISPER", "R:SHOUT"} \subseteq Word
  BY Words
<1> DEFINE w == Whisper(s, event.peer, "R:HELLO")
           x == Whisper(s, event.peer, "R:WHISPER")
           y == Shout(s, event.group, "R:SHOUT")
<1> HIDE DEF event
<1>4. Talks(node[n], w, Talk) /\ Talks(node[n], x, Talk) /\ Talks(node[n], y, Talk)
      /\ Talks(node[n], s, Talk)
  BY <1>1, <1>2, <1>3, AnswerTalks
<1>5. t \in {w, x, y, s}
  BY DEF RemoteAnswer
<1> HIDE DEF w, x, y, s, t
<1>6. Talks(node[n], t, Talk)
  BY <1>4, <1>5
<1>7. role[n] \notin Silent /\ app[n].at \in Talking
  BY <1>1 DEF Silent, Talking, Place
<1> QED BY <1>1, <1>6, <1>7, AnswerInv

LEMMA PingerTakesInv ==
    ASSUME Inv, NEW n \in Node, PingerTakes(n)
    PROVE  Inv'
<1> DEFINE s == Taken(node[n])
           event == First(n)
           t == PingerAnswer(s, event)
<1>1. role[n] = "pinger" /\ app[n].at = "run" /\ Waiting(n) /\ Goes(n, app[n], t)
  BY DEF PingerTakes, At
<1>2. "Hello" \in Word /\ "GLOBAL" \in Word
  BY Words DEF Groups
<1> DEFINE w == Whisper(s, event.peer, "Hello")
           y == Shout(s, "GLOBAL", "Hello")
<1> HIDE DEF event
<1>3. Talks(node[n], w, Talk) /\ Talks(node[n], y, Talk) /\ Talks(node[n], s, Talk)
  BY <1>1, <1>2, AnswerTalks
<1>4. t \in {w, y, s}
  BY DEF PingerAnswer
<1> HIDE DEF w, y, s, t
<1>5. Talks(node[n], t, Talk)
  BY <1>3, <1>4
<1>6. role[n] \notin Silent /\ app[n].at \in Talking
  BY <1>1 DEF Silent, Talking, Place
<1> QED BY <1>1, <1>5, <1>6, AnswerInv

LEMMA EarThen ==
    ASSUME NEW s, NEW t, NEW u, NEW p, EarKept(s, t, p), EarKept(t, u, p)
    PROVE  EarKept(s, u, p)
BY DEF EarKept

\* Neither a speaker nor silent.
LEMMA FreeInv ==
    ASSUME Inv, NEW n \in Node, role[n] \notin Speaker, role[n] \notin Silent,
           NEW a \in AppState, NEW t, Goes(n, a, t), Good(n, t),
           \A p : EarKept(node[n], t, p)
    PROVE  Inv'
<1>1. Fair(role, node, n, t)
  BY DEF Fair
<1> QED BY <1>1, GoesInv

\* A tester's actor
LEMMA ActorTakesInv ==
    ASSUME Inv, NEW n \in Node, ActorTakes(n)
    PROVE  Inv'
<1> DEFINE s == Taken(node[n])
           event == First(n)
<1>1. role[n] = "tester" /\ app[n].at = "run" /\ Waiting(n)
  BY DEF ActorTakes, At
<1>2. PICK t \in Replies(s, event) : Goes(n, app[n], t)
  BY DEF ActorTakes
<1>3. event \in Notice /\ event.group \in Word
  BY <1>1, Comes DEF Notice
<1>4. "counter" \in Word
  BY Words
<1> DEFINE w == Whisper(s, event.peer, "counter")
           y == Shout(s, event.group, "counter")
           z == Shout(w, event.group, "counter")
<1> HIDE DEF event
<1>5. Talks(node[n], w, Talk) /\ Talks(node[n], y, Talk) /\ Talks(node[n], s, Talk)
  BY <1>1, <1>3, <1>4, AnswerTalks
<1>6. t \in {w, y, z, s}
  BY <1>2 DEF Replies
<1>7. Good(n, node[n]) /\ node[n] \in NodeState /\ app[n] \in AppState
  BY InvFacts
<1> HIDE DEF s, w, y
<1>8. Good(n, w) /\ Good(n, y) /\ Good(n, s)
  BY <1>5, <1>7, TalksGood
<1>9. \A p : EarKept(node[n], w, p) /\ EarKept(node[n], y, p) /\ EarKept(node[n], s, p)
  BY <1>5, <1>7, TalksEar
<1>10. Talks(w, z, {"SHOUT"}) /\ w \in NodeState
  BY <1>3, <1>4, <1>8, ShoutTalks DEF Good
<1> HIDE DEF z
<1>11. Good(n, z) /\ \A p : EarKept(w, z, p)
  BY <1>8, <1>10, TalksGood, TalksEar
<1>12. \A p : EarKept(node[n], z, p)
  BY <1>9, <1>11, EarThen
<1>13. Good(n, t) /\ \A p : EarKept(node[n], t, p)
  BY <1>6, <1>8, <1>9, <1>11, <1>12
<1>14. role[n] \notin Speaker /\ role[n] \notin Silent
  BY <1>1 DEF Speaker, Silent
<1> QED BY <1>2, <1>7, <1>13, <1>14, FreeInv

LEMMA ActorMovesInv ==
    ASSUME Inv, NEW n \in Node, ActorMoves(n)
    PROVE  Inv'
<1> DEFINE a == [app[n] EXCEPT !.sent = @ + 1]
<1>1. role[n] = "tester"
  BY DEF ActorMoves, At
<1>2. PICK t \in {Join(node[n], Random), Leave(node[n], Random)} : Goes(n, a, t)
  BY DEF ActorMoves
<1>3. Good(n, node[n]) /\ app[n] \in AppState /\ Random \in Groups
  BY InvFacts DEF Random, Groups
<1>4. a \in AppState
  <2>1. app[n].sent + 1 \in Nat
    BY <1>3 DEF AppState
  <2> QED BY <1>3, <2>1 DEF AppState
<1>5. Good(n, t) /\ \A p : EarKept(node[n], t, p)
  <2> DEFINE g == Random
             j == Join(node[n], g)
             l == Leave(node[n], g)
  <2>1. g \in Groups
    BY <1>3
  <2> HIDE DEF g
  <2>2. Good(n, j) /\ Announces(node[n], j, Msg("JOIN", g, Blank))
    BY <1>3, <2>1, JoinFacts
  <2>3. Good(n, l) /\ Announces(node[n], l, Msg("LEAVE", g, Blank))
    BY <1>3, <2>1, LeaveFacts
  <2>4. t = j \/ t = l
    BY <1>2 DEF g
  <2> HIDE DEF j, l
  <2> QED BY <2>2, <2>3, <2>4 DEF Announces
<1>6. role[n] \notin Speaker /\ role[n] \notin Silent
  BY <1>1 DEF Speaker, Silent
<1> HIDE DEF a
<1> QED BY <1>2, <1>4, <1>5, <1>6, FreeInv

\* chat, minimal: what they shout.
LEMMA SilentInv ==
    ASSUME Inv, NEW n \in Node, NEW a \in AppState, NEW t, Goes(n, a, t),
           Talks(node[n], t, {"SHOUT"}), role[n] \in {"chat", "minimal"}
    PROVE  Inv'
<1> DEFINE K == {"SHOUT"}
<1>1. K \in SUBSET Talk /\ K \subseteq {"SHOUT"} /\ Talks(node[n], t, K)
  BY DEF Talk
<1>2. role[n] \notin Speaker
  BY DEF Speaker
<1> HIDE DEF K
<1> QED BY <1>1, <1>2, TalkInv

LEMMA SilentStaysInv ==
    ASSUME Inv, NEW n \in Node, NEW a \in AppState, Goes(n, a, node[n]),
           role[n] \in {"chat", "minimal"}
    PROVE  Inv'
<1>1. role[n] \notin Speaker
  BY DEF Speaker
<1> QED BY <1>1, StaysInv

LEMMA SilentTakesInv ==
    ASSUME Inv, NEW n \in Node, NEW a \in AppState, Goes(n, a, Taken(node[n])), Waiting(n),
           role[n] \in {"chat", "minimal"}
    PROVE  Inv'
<1>1. role[n] \notin Speaker
  BY DEF Speaker
<1> QED BY <1>1, TakesInv

LEMMA TypesInv ==
    ASSUME Inv, NEW n \in Node, TypeLine(n) \/ EndOfFile(n)
    PROVE  Inv'
<1>1. role[n] = "chat" /\ app[n] \in AppState
  BY InvFacts DEF TypeLine, EndOfFile
<1>2. app[n].pipe \in Seq({"SHOUT", "$TERM"}) /\ app[n].got \in Nat
  BY <1>1 DEF AppState
<1>3. /\ Append(app[n].pipe, "SHOUT") \in Seq({"SHOUT", "$TERM"})
      /\ Append(app[n].pipe, "$TERM") \in Seq({"SHOUT", "$TERM"})
      /\ app[n].got + 1 \in Nat
  BY <1>2
<1> DEFINE a == [app[n] EXCEPT !.pipe = Append(@, "SHOUT"), !.got = @ + 1]
           b == [app[n] EXCEPT !.pipe = Append(@, "$TERM")]
<1>4. a \in AppState /\ b \in AppState
  BY <1>1, <1>3 DEF AppState
<1>5. Goes(n, a, node[n]) \/ Goes(n, b, node[n])
  BY DEF TypeLine, EndOfFile
<1> HIDE DEF a, b
<1> QED BY <1>1, <1>4, <1>5, SilentStaysInv

LEMMA ChatCommandInv ==
    ASSUME Inv, NEW n \in Node, ChatCommand(n)
    PROVE  Inv'
<1> DEFINE a == [app[n] EXCEPT !.pipe = Tail(@)]
           b == [a EXCEPT !.at = "stop"]
           c == [a EXCEPT !.sent = @ + 1]
           t == Shout(node[n], "CHAT", "line")
<1>1. role[n] = "chat" /\ app[n].pipe # <<>> /\ app[n] \in AppState /\ Good(n, node[n])
  BY InvFacts DEF ChatCommand, At
<1>2. Goes(n, b, node[n]) \/ Goes(n, c, t)
  BY DEF ChatCommand
<1>3. a \in AppState
  <2>1. app[n].pipe \in Seq({"SHOUT", "$TERM"})
    BY <1>1 DEF AppState
  <2>2. Tail(app[n].pipe) \in Seq({"SHOUT", "$TERM"})
    BY <1>1, <2>1
  <2> QED BY <1>1, <2>2 DEF AppState
<1> HIDE DEF a
<1>4. b \in AppState /\ c \in AppState
  BY <1>3 DEF AppState, Place
<1>5. "CHAT" \in Word /\ "line" \in Word
  BY Words DEF Groups
<1>6. Talks(node[n], t, {"SHOUT"})
  BY <1>1, <1>5, ShoutTalks
<1> HIDE DEF b, c, t
<1> QED BY <1>1, <1>2, <1>4, <1>6, SilentInv, SilentStaysInv

LEMMA ChatPrintsInv ==
    ASSUME Inv, NEW n \in Node, ChatPrints(n)
    PROVE  Inv'
<1> DEFINE a == app[n]
<1>1. role[n] = "chat" /\ a \in AppState /\ Waiting(n) /\ Goes(n, a, Taken(node[n]))
  BY InvFacts DEF ChatPrints, At
<1> HIDE DEF a
<1> QED BY <1>1, SilentTakesInv

LEMMA StopsInv ==
    ASSUME Inv, NEW n \in Node, Stops(n)
    PROVE  Inv'
<1> DEFINE a == [app[n] EXCEPT !.at = "destroy"]
           t == Stop(n, node[n], FALSE)
<1>1. role[n] \in {"chat", "minimal"} /\ Goes(n, a, t)
  BY DEF Stops
<1>2. app[n] \in AppState /\ World(role, node)
  BY InvFacts
<1>3. a \in AppState
  BY <1>2 DEF AppState, Place
<1>4. role[n] \notin Speaker
  BY <1>1 DEF Speaker
<1>5. Fair(role, node, n, t)
  BY <1>2, <1>4, FairStop
<1> HIDE DEF a, t
<1> QED BY <1>1, <1>3, <1>4, <1>5, GoesInv

LEMMA MinimalInv ==
    ASSUME Inv, NEW n \in Node, Minimal(n)
    PROVE  Inv'
<1>1. role[n] = "minimal" /\ app[n] \in AppState /\ Good(n, node[n])
  BY InvFacts DEF Minimal, MinimalShouts, MinimalSleeps, MinimalReceives, At
<1>2. CASE MinimalShouts(n)
  <2> DEFINE a == [app[n] EXCEPT !.at = "sleep"]
             t == Shout(node[n], "GROUP", "Hello")
  <2>1. Goes(n, a, t)
    BY <1>2 DEF MinimalShouts
  <2>2. a \in AppState
    BY <1>1 DEF AppState, Place
  <2>3. "GROUP" \in Word /\ "Hello" \in Word
    BY Words DEF Groups
  <2>4. Talks(node[n], t, {"SHOUT"})
    BY <1>1, <2>3, ShoutTalks
  <2> HIDE DEF a, t
  <2> QED BY <1>1, <2>1, <2>2, <2>4, SilentInv
<1>3. CASE MinimalSleeps(n)
  <2> DEFINE a == [app[n] EXCEPT !.at = "recv"]
  <2>1. Goes(n, a, node[n])
    BY <1>3 DEF MinimalSleeps
  <2>2. a \in AppState
    BY <1>1 DEF AppState, Place
  <2> HIDE DEF a
  <2> QED BY <1>1, <2>1, <2>2, SilentStaysInv
<1>4. CASE MinimalReceives(n)
  <2> DEFINE at == IF app[n].sent + 1 = Rounds THEN "stop" ELSE "run"
             a == [app[n] EXCEPT !.at = at, !.sent = @ + 1]
  <2>1. Goes(n, a, Taken(node[n])) /\ Waiting(n)
    BY <1>4 DEF MinimalReceives
  <2>2. app[n].sent + 1 \in Nat /\ at \in Place
    BY <1>1 DEF AppState, Place
  <2> HIDE DEF at
  <2>3. a \in AppState
    BY <1>1, <2>2 DEF AppState
  <2> HIDE DEF a
  <2> QED BY <1>1, <2>1, <2>3, SilentTakesInv
<1> QED BY <1>2, <1>3, <1>4 DEF Minimal

-----------------------------------------------------------------------------
(* A tester's main thread: its commands wait in the pipes of the actors.   *)

\* The cast has no self tests then.
LEMMA TestingMain ==
    ASSUME Inv, Testing PROVE main.test = "none" /\ main.count \in Nat
                              /\ main.count <= MaxIterations
<1>1. PICK n \in Node : role[n] = "tester"
  BY DEF Testing
<1>2. \A m \in Node : role[m] # "tested"
  BY <1>1, InvFacts DEF Cast
<1> QED BY <1>2, InvFacts DEF Main

\* A step of main, and of the pipes, at most.
LEMMA MainInv ==
    ASSUME Inv, Testing, Apps', node' = node, role' = role,
           \A n \in Node : app'[n].at = app[n].at,
           main' \in [at: {"run", "done"}, test: Tests \cup {"none"}, count: Nat,
                      failed: BOOLEAN, actor: [Actors -> Node \cup {None}],
                      waits: Actors \cup {None}],
           main'.test = main.test, main'.count <= MaxIterations
    PROVE  Inv'
<1>1. main'.test = "none"
  BY TestingMain
<1>2. Main'
  BY <1>1 DEF Main
<1>3. World(role', node') /\ Stages' /\ Cast'
  BY CastStays DEF Inv, Stages
<1> QED BY <1>2, <1>3 DEF Inv

LEMMA ToggleOnInv ==
    ASSUME Inv, NEW i \in Actors, ToggleOn(i)
    PROVE  Inv'
<1>1. PICK n \in Fresh :
        /\ app' = [app EXCEPT ![n].at = "run"]
        /\ node' = [node EXCEPT ![n] = Start(@)]
        /\ main' = [main EXCEPT !.actor[i] = n, !.count = @ + 1]
  BY DEF ToggleOn
<1>2. n \in Node /\ role[n] = "tester" /\ role' = role /\ Testing /\ main.count < MaxIterations
  BY <1>1 DEF ToggleOn, Fresh, Testing
<1> DEFINE a == [app[n] EXCEPT !.at = "run"]
           t == Start(node[n])
<1>3. app[n] \in AppState /\ World(role, node) /\ Good(n, node[n]) /\ Main
  BY <1>2, InvFacts
<1>4. role[n] \notin Speaker
  BY <1>2 DEF Speaker
<1>5. Fair(role, node, n, t)
  BY <1>2, <1>3, <1>4, FairStart
<1>6. a \in AppState
  BY <1>3 DEF AppState, Place
<1>7. node' = [node EXCEPT ![n] = t] /\ app' = [app EXCEPT ![n] = a]
  BY <1>1
<1> HIDE DEF a, t
<1>8. OneGoes(n, a, t)
  BY <1>2, <1>4, <1>5, <1>6, <1>7 DEF OneGoes
<1>9. main.test = "none" /\ main.count \in Nat /\ MaxIterations \in Nat
  BY <1>2, TestingMain, Bounds
<1>10. Main'
  <2> DEFINE actor == [main.actor EXCEPT ![i] = n]
  <2>1. actor \in [Actors -> Node \cup {None}]
    BY <1>2, <1>3 DEF Main
  <2>2. main' = [main EXCEPT !.actor = actor, !.count = main.count + 1]
    BY <1>1
  <2>3. main.count + 1 \in Nat /\ main.count + 1 <= MaxIterations
    BY <1>2, <1>9
  <2> HIDE DEF actor
  <2>4. /\ main' \in [at: {"run", "done"}, test: Tests \cup {"none"}, count: Nat,
                      failed: BOOLEAN, actor: [Actors -> Node \cup {None}],
                      waits: Actors \cup {None}]
        /\ main'.test = main.test /\ main'.count = main.count + 1
    BY <1>3, <2>1, <2>2, <2>3 DEF Main
  <2> QED BY <1>9, <2>3, <2>4 DEF Main
<1> QED BY <1>2, <1>8, <1>10, OneGoesInv

\* $TERM for the actor in slot i, and main waits.
LEMMA TerminateInv ==
    ASSUME Inv, NEW i \in Actors, Testing, main.actor[i] # None, Terminate(i),
           NEW c \in Nat, c <= MaxIterations,
           main' = [main EXCEPT !.waits = i, !.count = c]
    PROVE  Inv'
<1>1. Main /\ app \in [Node -> AppState] /\ main.actor[i] \in Node
  BY InvFacts DEF Main
<1> DEFINE n == main.actor[i]
           a == [app[n] EXCEPT !.pipe = Append(@, "$TERM")]
<1>2. a \in AppState /\ a.at = app[n].at
  <2>1. app[n] \in AppState
    BY <1>1
  <2>2. Append(app[n].pipe, "$TERM") \in Seq({"SHOUT", "$TERM"})
    <3>1. app[n].pipe \in Seq({"SHOUT", "$TERM"})
      BY <2>1 DEF AppState
    <3> QED BY <3>1
  <2> HIDE DEF n
  <2> QED BY <2>1, <2>2 DEF AppState
<1>3. app' = [app EXCEPT ![n] = a] /\ role' = role /\ node' = node
  BY DEF Terminate
<1> HIDE DEF a, n
<1>4. n \in Node
  BY <1>1 DEF n
<1>5. Apps' /\ \A m \in Node : app'[m].at = app[m].at
  BY <1>1, <1>2, <1>3, <1>4 DEF Apps
<1>6. /\ main' \in [at: {"run", "done"}, test: Tests \cup {"none"}, count: Nat,
                    failed: BOOLEAN, actor: [Actors -> Node \cup {None}],
                    waits: Actors \cup {None}]
      /\ main'.test = main.test /\ main'.count = c
  BY <1>1 DEF Main
<1> QED BY <1>3, <1>5, <1>6, MainInv

LEMMA TesterInv ==
    ASSUME Inv, Tester
    PROVE  Inv'
<1>1. MaxIterations \in Nat
  BY Bounds
<1>2. ASSUME NEW i \in Actors, ToggleOff(i) PROVE Inv'
  <2> DEFINE c == main.count + 1
  <2>1. /\ Testing /\ main.actor[i] # None /\ Terminate(i) /\ main.count < MaxIterations
        /\ main' = [main EXCEPT !.waits = i, !.count = c]
    BY <1>2 DEF ToggleOff, Free
  <2>2. c \in Nat /\ c <= MaxIterations
    BY <1>1, <2>1, TestingMain
  <2> HIDE DEF c
  <2> QED BY <2>1, <2>2, TerminateInv
<1>3. ASSUME NEW i \in Actors, StopRemaining(i) PROVE Inv'
  <2> DEFINE c == main.count
  <2>1. Testing /\ main.actor[i] # None /\ Terminate(i) /\ main' = [main EXCEPT !.waits = i]
    BY <1>3 DEF StopRemaining, Free
  <2>2. c \in Nat /\ c <= MaxIterations
    BY <2>1, TestingMain
  <2>3. main' = [main EXCEPT !.waits = i, !.count = c]
    BY <2>1, InvFacts DEF Main
  <2> HIDE DEF c
  <2> QED BY <2>1, <2>2, <2>3, TerminateInv
<1>4. ASSUME NEW i \in Actors, ActorEnded(i) PROVE Inv'
  <2>1. /\ Testing /\ main' = [main EXCEPT !.waits = None, !.actor[i] = None]
        /\ role' = role /\ app' = app /\ node' = node
    BY <1>4 DEF ActorEnded
  <2>2. Main /\ app \in [Node -> AppState]
    BY InvFacts
  <2> DEFINE actor == [main.actor EXCEPT ![i] = None]
  <2>3. actor \in [Actors -> Node \cup {None}]
    BY <2>2 DEF Main
  <2>4. main' = [main EXCEPT !.waits = None, !.actor = actor]
    BY <2>1
  <2> HIDE DEF actor
  <2>5. /\ main' \in [at: {"run", "done"}, test: Tests \cup {"none"}, count: Nat,
                      failed: BOOLEAN, actor: [Actors -> Node \cup {None}],
                      waits: Actors \cup {None}]
        /\ main'.test = main.test /\ main'.count = main.count
    BY <2>2, <2>3, <2>4 DEF Main
  <2>6. main.count <= MaxIterations
    BY <2>1, TestingMain
  <2> QED BY <2>1, <2>2, <2>5, <2>6, MainInv DEF Apps
<1>5. CASE TesterEnds
  <2>1. /\ Testing /\ main' = [main EXCEPT !.at = "done"]
        /\ role' = role /\ app' = app /\ node' = node
    BY <1>5 DEF TesterEnds, Free
  <2>2. Main /\ app \in [Node -> AppState]
    BY InvFacts
  <2>3. /\ main' \in [at: {"run", "done"}, test: Tests \cup {"none"}, count: Nat,
                      failed: BOOLEAN, actor: [Actors -> Node \cup {None}],
                      waits: Actors \cup {None}]
        /\ main'.test = main.test /\ main'.count = main.count
    BY <2>1, <2>2 DEF Main
  <2>4. main.count <= MaxIterations
    BY <2>1, TestingMain
  <2> QED BY <2>1, <2>2, <2>3, <2>4, MainInv DEF Apps
<1> QED BY <1>2, <1>3, <1>4, <1>5, ToggleOnInv DEF Tester

-----------------------------------------------------------------------------
(* The self tests                                                          *)

LEMMA RunningFacts ==
    ASSUME Inv, Running
    PROVE  Line \in Steps /\ Line.n \in Node /\ role[Line.n] = "tested"
<1>1. Main /\ Cast
  BY InvFacts
<1>2. Line \in Steps
  BY <1>1, LineFacts
<1>3. Line.n \in {1, 2}
  BY <1>2 DEF Steps
<1>4. {1, 2} \subseteq Node
  BY NodeFacts
<1>5. PICK n \in Node : role[n] = "tested"
  BY <1>1 DEF Main, Running
<1>6. role[1] = "tested" /\ role[2] = "tested"
  BY <1>1, <1>5 DEF Cast
<1> QED BY <1>2, <1>3, <1>4, <1>6

\* The test changes one of its nodes and goes on.
LEMMA TestInv ==
    ASSUME Inv, Running, NEW t, Fair(role, node, Line.n, t), node' = [node EXCEPT ![Line.n] = t],
           NEW holds \in BOOLEAN, NEW lines \in {1, 2}, Asserted(holds, lines),
           lines = 1 \/ Line.what # "destroy"
    PROVE  Inv'
<1>1. Main
  BY InvFacts
<1>2. Main'
  BY <1>1, AssertedMain
<1>3. role' = role /\ app' = app
  BY DEF Asserted
<1>4. Line.n \in Node /\ role[Line.n] \notin Speaker
  BY RunningFacts DEF Speaker
<1> DEFINE n == Line.n
<1>5. n \in Node /\ role[n] \notin Speaker /\ Fair(role, node, n, t)
      /\ node' = [node EXCEPT ![n] = t]
  BY <1>4
<1> HIDE DEF n
<1> QED BY <1>2, <1>3, <1>5, NodeInv

\* It looks at them.
LEMMA TestLooks ==
    ASSUME Inv, Running, node' = node, NEW holds \in BOOLEAN, Asserted(holds, 1)
    PROVE  Inv'
<1>1. Main
  BY InvFacts
<1>2. Main'
  BY <1>1, AssertedMain
<1>3. role' = role /\ app' = app
  BY DEF Asserted
<1>4. World(role', node') /\ Apps' /\ Stages' /\ Cast'
  BY <1>3, CastStays DEF Inv, Apps, Stages
<1> QED BY <1>2, <1>4 DEF Inv

\* zyre_set_evasive_timeout
LEMMA FairImpatient ==
    ASSUME NEW rl, NEW nd, World(rl, nd), NEW x \in Node, rl[x] \notin Speaker
    PROVE  Fair(rl, nd, x, [nd[x] EXCEPT !.impatient = TRUE])
<1> DEFINE s == nd[x]
           t == [s EXCEPT !.impatient = TRUE]
<1>1. Good(x, s) /\ s \in NodeState
  BY Mouths DEF World, Tables
<1>2. /\ t \in NodeState /\ t.state = s.state /\ t.own = s.own /\ t.peers = s.peers
      /\ t.ready = s.ready /\ t.member = s.member /\ t.out = s.out /\ t.events = s.events
  BY <1>1 DEF NodeState
<1> HIDE DEF t
<1>3. Good(x, t)
  BY <1>1, <1>2 DEF Good
<1>4. \A p : EarKept(s, t, p)
  BY <1>2 DEF EarKept, Heard
<1>5. rl[x] \in Silent => \A n \in Node \ {x} : Mute(t, n, {"WHISPER"})
  <2>1. \A n \in Node \ {x} : rl[x] \in Silent => Mute(s, n, {"WHISPER"})
    BY DEF World, Silence
  <2> QED BY <1>2, <2>1 DEF Mute
<1> QED BY <1>3, <1>4, <1>5 DEF Fair, t

LEMMA CalledFair ==
    ASSUME Inv, Running,
           Line.what \in {"start", "join", "leave", "shout", "set_evasive_timeout", "stop"}
    PROVE  Fair(role, node, Line.n, Called(node[Line.n], Line.n, Line))
<1> DEFINE n == Line.n
           s == node[n]
<1>1. Line \in Steps /\ n \in Node /\ role[n] = "tested"
  BY RunningFacts
<1>2. role[n] \notin Speaker /\ World(role, node) /\ Good(n, s)
  BY <1>1, InvFacts DEF Speaker
<1>3. Line.what \in {"join", "leave"} => Line.arg \in Groups
  BY <1>1 DEF Steps, Deeds
<1> DEFINE g == Line.arg
           gossip == main.test # "beacon"
<1> HIDE DEF n, g
<1>4. CASE Line.what = "start"
  <2>1. Fair(role, node, n, Start(s))
    BY <1>1, <1>2, FairStart
  <2> QED BY <1>4, <2>1 DEF Called, n
<1>5. CASE Line.what = "join"
  <2>1. g \in Groups
    BY <1>3, <1>5 DEF g
  <2>2. Fair(role, node, n, Join(s, g))
    BY <1>1, <1>2, <2>1, FairJoin
  <2> QED BY <1>5, <2>2 DEF Called, n, g
<1>6. CASE Line.what = "leave"
  <2>1. g \in Groups
    BY <1>3, <1>6 DEF g
  <2>2. Fair(role, node, n, Leave(s, g))
    BY <1>1, <1>2, <2>1, FairLeave
  <2> QED BY <1>6, <2>2 DEF Called, n, g
<1>7. CASE Line.what = "shout"
  <2> DEFINE K == {"SHOUT"}
             t == Shout(s, "GLOBAL", "Hello, World")
  <2>1. "GLOBAL" \in Word /\ "Hello, World" \in Word
    BY Words DEF Groups
  <2>2. Talks(s, t, K) /\ K \in SUBSET Talk /\ K \subseteq {"SHOUT"}
    BY <1>2, <2>1, ShoutTalks DEF Talk
  <2>3. Called(s, n, Line) = t
    BY <1>7 DEF Called
  <2> HIDE DEF K, t
  <2>4. Fair(role, node, n, t)
    BY <1>1, <1>2, <2>2, FairTalks
  <2> QED BY <2>3, <2>4 DEF n
<1>8. CASE Line.what = "set_evasive_timeout"
  <2> DEFINE t == [s EXCEPT !.impatient = TRUE]
  <2>1. Fair(role, node, n, t)
    BY <1>1, <1>2, FairImpatient
  <2>2. Called(s, n, Line) = t
    BY <1>8 DEF Called
  <2> HIDE DEF t
  <2> QED BY <2>1, <2>2 DEF n
<1>9. CASE Line.what = "stop"
  <2>1. gossip \in BOOLEAN
    OBVIOUS
  <2>2. Called(s, n, Line) = Stop(n, s, gossip)
    BY <1>9 DEF Called
  <2> HIDE DEF gossip
  <2>3. Fair(role, node, n, Stop(n, s, gossip))
    BY <1>1, <1>2, <2>1, FairStop
  <2> QED BY <2>2, <2>3 DEF n
<1> QED BY <1>4, <1>5, <1>6, <1>7, <1>8, <1>9

LEMMA TestCallsInv ==
    ASSUME Inv, TestCalls
    PROVE  Inv'
<1> DEFINE t == Called(node[Line.n], Line.n, Line)
<1>1. /\ Running
      /\ Line.what \in {"start", "join", "leave", "shout", "set_evasive_timeout", "stop"}
      /\ node' = [node EXCEPT ![Line.n] = t] /\ Asserted(TRUE, 1)
  BY DEF TestCalls
<1>2. Fair(role, node, Line.n, t)
  BY <1>1, CalledFair
<1> HIDE DEF t
<1> DEFINE lines == 1
           holds == TRUE
<1>3. lines \in {1, 2} /\ lines = 1
  OBVIOUS
<1>4. holds \in BOOLEAN
  OBVIOUS
<1>5. Asserted(holds, lines)
  BY <1>1
<1> HIDE DEF lines, holds
<1> QED BY <1>1, <1>2, <1>3, <1>4, <1>5, TestInv

LEMMA TestDestroysInv ==
    ASSUME Inv, TestDestroys
    PROVE  Inv'
<1>1. Running /\ Destroy(Line.n) /\ Asserted(TRUE, 1)
  BY DEF TestDestroys
<1>2. PICK kept \in Keeps(node[Line.n]) :
        node' = [node EXCEPT ![Line.n] = Destroyed(@, kept)]
  BY <1>1 DEF Destroy
<1> DEFINE t == Destroyed(node[Line.n], kept)
<1>3. Fair(role, node, Line.n, t)
  <2> DEFINE n == Line.n
  <2>1. n \in Node /\ World(role, node) /\ kept \in Keeps(node[n])
    BY <1>1, <1>2, RunningFacts, InvFacts
  <2> HIDE DEF n
  <2>2. Fair(role, node, n, Destroyed(node[n], kept))
    BY <2>1, FairDestroyed
  <2> QED BY <2>2 DEF n
<1>4. node' = [node EXCEPT ![Line.n] = t]
  BY <1>2
<1> HIDE DEF t
<1> DEFINE lines == 1
           holds == TRUE
<1>5. lines \in {1, 2} /\ lines = 1
  OBVIOUS
<1>6. holds \in BOOLEAN
  OBVIOUS
<1>7. Asserted(holds, lines)
  BY <1>1
<1> HIDE DEF lines, holds
<1> QED BY <1>1, <1>3, <1>4, <1>5, <1>6, <1>7, TestInv

LEMMA TestReceivesInv ==
    ASSUME Inv, TestReceives
    PROVE  Inv'
<1> DEFINE matches == First(Line.n).type = Line.arg
           last == Line.arg = "SHOUT"
           t == Taken(node[Line.n])
<1>1. /\ Running /\ Line.what \in {"expect", "tolerate"} /\ Waiting(Line.n)
      /\ node' = [node EXCEPT ![Line.n] = t]
      /\ IF Line.what = "expect" THEN Asserted(matches, 1)
         ELSE Asserted(TRUE, IF matches \/ last THEN 1 ELSE 2)
  BY DEF TestReceives
<1>2. matches \in BOOLEAN
  OBVIOUS
<1>3. PICK holds \in BOOLEAN, lines \in {1, 2} : Asserted(holds, lines)
  <2> HIDE DEF matches, last
  <2>1. CASE Line.what = "expect"
    <3>1. Asserted(matches, 1)
      BY <1>1, <2>1
    <3> QED BY <1>2, <3>1
  <2>2. CASE Line.what # "expect" /\ (matches \/ last)
    <3>1. Asserted(TRUE, 1)
      BY <1>1, <2>2
    <3> QED BY <3>1
  <2>3. CASE Line.what # "expect" /\ ~(matches \/ last)
    <3>1. Asserted(TRUE, 2)
      BY <1>1, <2>3
    <3> QED BY <3>1
  <2> QED BY <2>1, <2>2, <2>3
<1>4. Fair(role, node, Line.n, t)
  <2> DEFINE n == Line.n
             K == {}
             u == Taken(node[n])
  <2>1. n \in Node /\ role[n] \notin Speaker /\ World(role, node)
    BY <1>1, RunningFacts, InvFacts DEF Speaker
  <2>2. Talks(node[n], u, K) /\ K \in SUBSET Talk /\ K \subseteq {"SHOUT"}
    BY <1>1, <2>1, Comes
  <2> HIDE DEF n, K, u
  <2>3. Fair(role, node, n, u)
    BY <2>1, <2>2, FairTalks
  <2> QED BY <2>3 DEF n, u
<1>5. Line.what # "destroy"
  BY <1>1
<1> HIDE DEF t
<1> QED BY <1>1, <1>3, <1>4, <1>5, TestInv

LEMMA TestChecksInv ==
    ASSUME Inv, TestSleeps \/ TestChecks
    PROVE  Inv'
<1> DEFINE s == node[Line.n]
<1>1. Running /\ node' = node
  BY DEF TestSleeps, TestChecks
<1>2. PICK holds \in BOOLEAN : Asserted(holds, 1)
  <2> DEFINE a == Cardinality(s.peers) = Line.arg
             b == Cardinality(s.own) = Line.arg
             c == Cardinality(UNION Range(s.member)) = Line.arg
             d == Line.arg \in s.ready
  <2>1. a \in BOOLEAN /\ b \in BOOLEAN /\ c \in BOOLEAN /\ d \in BOOLEAN
    OBVIOUS
  <2>2. Asserted(TRUE, 1) \/ Asserted(a, 1) \/ Asserted(b, 1) \/ Asserted(c, 1) \/ Asserted(d, 1)
    BY DEF TestSleeps, TestChecks
  <2> HIDE DEF a, b, c, d
  <2> QED BY <2>1, <2>2
<1> QED BY <1>1, <1>2, TestLooks

LEMMA SelfTestInv ==
    ASSUME Inv, SelfTest
    PROVE  Inv'
BY TestCallsInv, TestDestroysInv, TestReceivesInv, TestChecksInv DEF SelfTest

-----------------------------------------------------------------------------
(* Every step                                                              *)

LEMMA ProgramInv ==
    ASSUME Inv, NEW n \in Node, Program(n)
    PROVE  Inv'
<1>1. CASE Begin(n) \/ JoinRoom(n) \/ PerfLocal(n)
  BY <1>1, BeginInv, JoinRoomInv, PerfLocalInv
<1>2. CASE RemoteTakes(n) \/ PingerTakes(n) \/ ActorTakes(n)
  BY <1>2, RemoteTakesInv, PingerTakesInv, ActorTakesInv
<1>3. CASE RemoteStopped(n)
  BY <1>3, EndsInv DEF RemoteStopped
<1>4. CASE ChatCommand(n) \/ ChatPrints(n) \/ Stops(n)
  BY <1>4, ChatCommandInv, ChatPrintsInv, StopsInv
<1>5. CASE Closes(n)
  BY <1>5, EndsInv DEF Closes
<1>6. CASE Minimal(n)
  BY <1>6, MinimalInv
<1> QED BY <1>1, <1>2, <1>3, <1>4, <1>5, <1>6 DEF Program

LEMMA ChanceInv ==
    ASSUME Inv, NEW n \in Node, ActorTerm(n) \/ Chance(n)
    PROVE  Inv'
<1>1. CASE TypeLine(n) \/ EndOfFile(n)
  BY <1>1, TypesInv
<1>2. CASE ActorMoves(n)
  BY <1>2, ActorMovesInv
<1>3. CASE ActorTerm(n) \/ PingerInterrupted(n) \/ ActorGivesUp(n)
  BY <1>3, EndsInv DEF ActorTerm, PingerInterrupted, ActorGivesUp
<1> QED BY <1>1, <1>2, <1>3 DEF Chance

LEMMA StepInv ==
    ASSUME Inv, [Next]_vars
    PROVE  Inv'
<1>1. CASE SelfTest
  BY <1>1, SelfTestInv
<1>2. ASSUME NEW n \in Node, Network(n) PROVE Inv'
  BY <1>2, DiscoverInv, DeliverInv, ExpireInv, EvasiveInv DEF Network
<1>3. ASSUME NEW n \in Node, Program(n) PROVE Inv'
  BY <1>3, ProgramInv
<1>4. CASE Tester
  BY <1>4, TesterInv
<1>5. ASSUME NEW n \in Node, ActorTerm(n) \/ Chance(n) PROVE Inv'
  BY <1>5, ChanceInv
<1>6. CASE UNCHANGED vars
  <2>1. role' = role /\ node' = node /\ app' = app /\ main' = main
    BY <1>6 DEF vars
  <2>2. World(role', node') /\ Apps' /\ Stages' /\ Cast'
    BY <2>1, CastStays DEF Inv, Apps, Stages
  <2>3. Main'
    BY <2>1, MainStays DEF Inv
  <2> QED BY <2>2, <2>3 DEF Inv
<1> QED BY <1>1, <1>2, <1>3, <1>4, <1>5, <1>6 DEF Next, Work

LEMMA NoNodeFacts ==
    /\ NoNode \in NodeState /\ \A n \in Node : Good(n, NoNode)
    /\ NoNode.state = "new" /\ NoNode.own = {} /\ NoNode.peers = {} /\ NoNode.ready = {}
    /\ \A n \in Node : NoNode.out[n] = <<>>
    /\ NoNode.events = <<>>
<1> DEFINE none == [m \in Node |-> {}]
           empty == [m \in Node |-> <<>>]
<1>1. none \in [Node -> SUBSET Groups] /\ \A m \in Node : none[m] = {}
  OBVIOUS
<1>2. empty \in [Node -> Seq(Message)] /\ \A m \in Node : empty[m] = <<>>
  OBVIOUS
<1>3. NoNode = [state |-> "new", own |-> {}, peers |-> {}, ready |-> {}, member |-> none,
                out |-> empty, events |-> <<>>, impatient |-> FALSE, due |-> {}]
  BY DEF NoNode
<1> HIDE DEF none, empty
<1>4. /\ NoNode.state = "new" /\ NoNode.own = {} /\ NoNode.peers = {} /\ NoNode.ready = {}
      /\ NoNode.member = none /\ NoNode.out = empty /\ NoNode.events = <<>>
  BY <1>3
<1>5. NoNode \in NodeState
  BY <1>1, <1>2, <1>3 DEF NodeState
<1>6. \A n \in Node : Good(n, NoNode)
  BY <1>1, <1>2, <1>4, <1>5 DEF Good
<1> QED BY <1>2, <1>4, <1>5, <1>6

LEMMA InitInv ==
    ASSUME Init
    PROVE  Inv
<1>1. /\ role \in Programs /\ node = [n \in Node |-> NoNode] /\ app = [n \in Node |-> NewApp]
      /\ \E test \in IF \E n \in Node : role[n] = "tested" THEN Tests ELSE {"none"} :
           main = [at |-> "run", test |-> test, count |-> 0, failed |-> FALSE,
                   actor |-> [i \in Actors |-> None], waits |-> None]
  BY DEF Init
<1>2. /\ NoNode \in NodeState /\ \A n \in Node : Good(n, NoNode)
      /\ NoNode.state = "new" /\ NoNode.own = {} /\ NoNode.peers = {} /\ NoNode.ready = {}
      /\ \A n \in Node : NoNode.out[n] = <<>>
      /\ NoNode.events = <<>>
  BY NoNodeFacts
<1>3. \A n \in Node : node[n] = NoNode
  BY <1>1
<1>4. Tables(node)
  BY <1>1, <1>2, <1>3 DEF Tables
<1>5. \A p : \A K : ~Heard(NoNode, p, K)
  BY <1>2 DEF Heard
<1>6. \A n \in Node : \A K : Mute(NoNode, n, K)
  BY <1>2 DEF Mute
<1>7. \A p \in Node : \A n \in Node : Channel(NoNode, NoNode, p, n)
  BY <1>2, <1>5, <1>6 DEF Channel
<1>8. World(role, node)
  BY <1>3, <1>4, <1>5, <1>6, <1>7 DEF World, Channels, Silence
<1>9. NewApp \in AppState /\ NewApp.at = "new"
  BY DEF NewApp, AppState, Place
<1>10. Apps /\ Stages
  BY <1>1, <1>2, <1>3, <1>9 DEF Apps, Stages, Stage, Talking
<1>11. Cast
  BY <1>1, Alone DEF Cast
<1>12. Main
  <2>1. PICK test \in IF \E n \in Node : role[n] = "tested" THEN Tests ELSE {"none"} :
           main = [at |-> "run", test |-> test, count |-> 0, failed |-> FALSE,
                   actor |-> [i \in Actors |-> None], waits |-> None]
    BY <1>1
  <2>2. test \in Tests \cup {"none"} /\ main.test = test /\ main.count = 0
    BY <2>1
  <2>3. main \in [at: {"run", "done"}, test: Tests \cup {"none"}, count: Nat, failed: BOOLEAN,
                  actor: [Actors -> Node \cup {None}], waits: Actors \cup {None}]
    <3>1. [i \in Actors |-> None] \in [Actors -> Node \cup {None}]
      OBVIOUS
    <3> DEFINE actor == [i \in Actors |-> None]
    <3>2. main = [at |-> "run", test |-> test, count |-> 0, failed |-> FALSE,
                  actor |-> actor, waits |-> None]
      BY <2>1
    <3> HIDE DEF actor
    <3> QED BY <2>2, <3>1, <3>2 DEF actor
  <2>4. MaxIterations \in Nat
    BY Bounds
  <2>5. CASE test = "none"
    <3>1. main.count <= MaxIterations
      BY <2>2, <2>4
    <3> QED BY <2>2, <2>3, <2>5, <3>1 DEF Main
  <2>6. CASE test # "none"
    <3>1. \E n \in Node : role[n] = "tested"
      BY <2>1, <2>6
    <3>2. main.test \in {"zyre", "event", "beacon", "gossip"}
      BY <2>2, <2>6, Alone
    <3>3. Script \in Seq(Steps) /\ Script # <<>>
      BY <3>2, ScriptWhole DEF Whole
    <3>4. 0 < Len(Script)
      BY <3>3
    <3> QED BY <2>2, <2>3, <2>6, <3>1, <3>4 DEF Main
  <2> QED BY <2>5, <2>6
<1> QED BY <1>8, <1>10, <1>11, <1>12 DEF Inv

\* Every channel, queue, client and script is at every moment as Inv says.
THEOREM Invariant == Spec => []Inv
<1>1. Init => Inv
  BY InitInv
<1>2. Inv /\ [Next]_vars => Inv'
  BY StepInv
<1> QED BY <1>1, <1>2, PTL DEF Spec

-----------------------------------------------------------------------------
(* The theorems                                                            *)

\* What a node may hold whatever the programs do: no table knows the node
\* itself, groups of a peer that is not ready are not known, and no script and
\* no tester counts further than its end.
THEOREM ClientTypes == Spec => []TypeOK
<1>1. Inv => TypeOK
  <2> SUFFICES ASSUME Inv PROVE TypeOK
    OBVIOUS
  <2>1. ASSUME NEW n \in Node
        PROVE  /\ node[n].state \in {"new", "up", "stopped", "gone"}
               /\ node[n].ready \subseteq node[n].peers /\ node[n].peers \subseteq Node \ {n}
               /\ \A m \in Node : node[n].member[m] # {} => m \in node[n].ready
    BY InvFacts DEF Good, NodeState
  <2>2. main.count \in 0 .. (MaxIterations + Len(Script))
    <3>1. Main /\ main.count \in Nat /\ MaxIterations \in Nat
      BY Bounds, InvFacts DEF Main
    <3>2. Len(Script) \in Nat
      <4>1. CASE main.test = "none"
        <5>1. Script = <<>>
          BY <4>1 DEF Script
        <5> QED BY <5>1
      <4>2. CASE main.test # "none"
        <5>1. main.test \in {"zyre", "event", "beacon", "gossip"}
          BY <3>1, <4>2, Alone DEF Main
        <5>2. Script \in Seq(Steps)
          BY <5>1, ScriptWhole DEF Whole
        <5> QED BY <5>2
      <4> QED BY <4>1, <4>2
    <3>3. main.count <= MaxIterations \/ main.count <= Len(Script)
      BY <3>1 DEF Main
    <3> QED BY <3>1, <3>2, <3>3
  <2> QED BY <2>1, <2>2 DEF TypeOK
<1> QED BY <1>1, Invariant, PTL

\* Whoever whispers is known as a member of GLOBAL when the WHISPER is read:
\* zyre_join comes before the first zyre_whisper in perf_local, perf_remote and
\* zpinger, its JOIN goes the same way as the WHISPER, and a peer met later has
\* the group in its HELLO.
THEOREM Greeters == Spec => []GreetersAreMembers
<1>1. Inv => GreetersAreMembers
  <2> SUFFICES ASSUME Inv, NEW n \in Node, Waiting(n), First(n).type = "WHISPER",
                      role[First(n).peer] # "tester", First(n).peer \in node[n].ready
               PROVE  First(n).peer \in InGroup(node[n], "GLOBAL")
    BY DEF GreetersAreMembers
  <2> DEFINE event == First(n)
             p == event.peer
  <2>1. node[n] \in NodeState /\ Good(n, node[n]) /\ Cast /\ World(role, node)
    BY InvFacts
  <2>2. p \in Node \ {n}
    BY <2>1 DEF Good, NodeState
  <2>3. \A K : "WHISPER" \in K => Heard(node[n], p, K)
    <3>1. node[n].events \in Seq(Notice) /\ node[n].events # <<>>
      BY <2>1 DEF Waiting, NodeState
    <3>2. 1 \in 1 .. Len(node[n].events) /\ node[n].events[1] = event
      BY <3>1 DEF First
    <3> QED BY <3>2 DEF Heard
  <2>4. role[p] \in Speaker \/ role[p] \in Silent
    <3>1. role[p] \in Roles
      BY <2>1, <2>2 DEF Cast
    <3> QED BY <3>1 DEF Roles, Messages, Speaker, Silent
  <2> HIDE DEF p, event
  <2>5. CASE role[p] \in Silent
    <3>1. ~Heard(node[n], p, {"WHISPER"})
      BY <2>1, <2>2, <2>5 DEF World, Silence
    <3> QED BY <2>3, <3>1
  <2>6. CASE role[p] \in Speaker
    <3>1. Channel(node[p], node[n], p, n)
      BY <2>1, <2>2, <2>6 DEF World, Channels
    <3>2. Heard(node[n], p, Talk)
      BY <2>3 DEF Talk
    <3>3. Greeted(node[n], p)
      BY <3>1, <3>2 DEF Channel
    <3>4. "GLOBAL" \in node[n].member[p]
      BY <3>3 DEF Greeted, p, event
    <3> QED BY <2>2, <3>4 DEF InGroup, p, event
  <2> QED BY <2>4, <2>5, <2>6
<1> QED BY <1>1, Invariant, PTL

-----------------------------------------------------------------------------
(* Counting in a sequence                                                  *)

LEMMA CountFacts ==
    ASSUME NEW T, NEW q \in Seq(T), NEW x
    PROVE  /\ IsFiniteSet({i \in DOMAIN q : q[i] = x}) /\ Count(q, x) \in Nat
           /\ Count(q, x) = 0 <=> \A i \in 1 .. Len(q) : q[i] # x
<1> DEFINE S == {i \in DOMAIN q : q[i] = x}
<1>1. DOMAIN q = 1 .. Len(q) /\ Len(q) \in Nat
  OBVIOUS
<1>2. IsFiniteSet(1 .. Len(q))
  BY <1>1, FS_Interval
<1>3. S \subseteq 1 .. Len(q)
  BY <1>1
<1>4. IsFiniteSet(S)
  BY <1>2, <1>3, FS_Subset
<1>5. Cardinality(S) \in Nat /\ (Cardinality(S) = 0 <=> S = {})
  BY <1>4, FS_CardinalityType, FS_EmptySet
<1>6. S = {} <=> \A i \in 1 .. Len(q) : q[i] # x
  BY <1>1
<1> QED BY <1>4, <1>5, <1>6 DEF Count

LEMMA CountAppend ==
    ASSUME NEW T, NEW q \in Seq(T), NEW y \in T, NEW x
    PROVE  Count(Append(q, y), x) = Count(q, x) + (IF y = x THEN 1 ELSE 0)
<1> DEFINE r == Append(q, y)
           S == {i \in DOMAIN q : q[i] = x}
           R == {i \in DOMAIN r : r[i] = x}
           n == Len(q) + 1
<1>1. /\ Len(q) \in Nat /\ DOMAIN q = 1 .. Len(q) /\ DOMAIN r = 1 .. n
      /\ r[n] = y /\ \A i \in 1 .. Len(q) : r[i] = q[i]
  OBVIOUS
<1>2. IsFiniteSet(S) /\ n \notin S
  <2>1. IsFiniteSet(S)
    BY CountFacts
  <2>2. n \notin DOMAIN q
    BY <1>1
  <2> QED BY <2>1, <2>2
<1>3. Cardinality(S) \in Nat /\ Cardinality(S \cup {n}) = Cardinality(S) + 1
  BY <1>2, FS_CardinalityType, FS_AddElement
<1>4. 1 .. n = (1 .. Len(q)) \cup {n}
  BY <1>1
<1> HIDE DEF r, n
<1>5. R = IF y = x THEN S \cup {n} ELSE S
  BY <1>1, <1>4
<1>6. Count(q, x) = Cardinality(S) /\ Count(Append(q, y), x) = Cardinality(R)
  BY DEF Count, r
<1> HIDE DEF S, R
<1> QED BY <1>3, <1>5, <1>6

LEMMA CountTail ==
    ASSUME NEW T, NEW q \in Seq(T), q # <<>>, NEW x
    PROVE  Count(Tail(q), x) = Count(q, x) - (IF Head(q) = x THEN 1 ELSE 0)
<1> DEFINE r == Tail(q)
           S == {i \in DOMAIN q : q[i] = x}
           R == {i \in DOMAIN r : r[i] = x}
           f == [i \in R |-> i + 1]
<1>1. /\ Len(q) \in Nat /\ Len(q) > 0 /\ DOMAIN q = 1 .. Len(q) /\ DOMAIN r = 1 .. (Len(q) - 1)
      /\ q[1] = Head(q) /\ \A i \in 1 .. (Len(q) - 1) : r[i] = q[i + 1]
  OBVIOUS
<1>2. r \in Seq(T)
  OBVIOUS
<1>3. IsFiniteSet(S) /\ IsFiniteSet(R)
  BY <1>2, CountFacts
<1> HIDE DEF r
<1>4. f \in Bijection(R, S \ {1})
  <2>1. f \in [R -> S \ {1}]
    BY <1>1
  <2>2. \A a, b \in R : f[a] = f[b] => a = b
    BY <1>1
  <2>3. ASSUME NEW j \in S \ {1} PROVE \E a \in R : f[a] = j
    <3>1. j - 1 \in R /\ f[j - 1] = j
      BY <1>1
    <3> QED BY <3>1
  <2> HIDE DEF f, R, S
  <2> QED BY <2>1, <2>2, <2>3 DEF Bijection, Injection, Surjection, IsInjective
<1>5. Cardinality(S \ {1}) = Cardinality(R)
  BY <1>3, <1>4, FS_Bijection DEF ExistsBijection
<1>6. Cardinality(S \ {1}) = IF 1 \in S THEN Cardinality(S) - 1 ELSE Cardinality(S)
  BY <1>3, FS_RemoveElement
<1>7. 1 \in S <=> Head(q) = x
  BY <1>1
<1>8. Cardinality(S) \in Nat
  BY <1>3, FS_CardinalityType
<1>9. Count(q, x) = Cardinality(S) /\ Count(Tail(q), x) = Cardinality(R)
  BY DEF Count, r
<1> HIDE DEF S, R
<1> QED BY <1>5, <1>6, <1>7, <1>8, <1>9

LEMMA CountBehind ==
    ASSUME NEW T, NEW q \in Seq(T), NEW r \in Seq(T), NEW x, \A i \in 1 .. Len(r) : r[i] # x
    PROVE  Count(q \o r, x) = Count(q, x)
<1> DEFINE w == q \o r
<1>1. /\ DOMAIN q = 1 .. Len(q) /\ DOMAIN w = 1 .. (Len(q) + Len(r))
      /\ \A i \in 1 .. Len(q) : w[i] = q[i]
      /\ \A i \in 1 .. (Len(q) + Len(r)) : i > Len(q) => w[i] = r[i - Len(q)] /\ i - Len(q) \in 1 .. Len(r)
      /\ Len(q) \in Nat /\ Len(r) \in Nat
  OBVIOUS
<1> HIDE DEF w
<1>2. {i \in DOMAIN w : w[i] = x} = {i \in DOMAIN q : q[i] = x}
  BY <1>1
<1> QED BY <1>2 DEF Count, w

-----------------------------------------------------------------------------
(* Sums over the remotes: what m holds stands for u[m] pairs.              *)

Pairs(u) == UNION {{m} \X (1 .. u[m]) : m \in DOMAIN u}
Total(u) == Cardinality(Pairs(u))

LEMMA PairsOf ==
    ASSUME NEW R, NEW u \in [R -> Nat], NEW z
    PROVE  z \in Pairs(u) <=> \E m \in R : \E k \in 1 .. u[m] : z = <<m, k>>
<1>1. DOMAIN u = R
  OBVIOUS
<1>2. ASSUME z \in Pairs(u) PROVE \E m \in R : \E k \in 1 .. u[m] : z = <<m, k>>
  <2>1. PICK m \in R : z \in {m} \X (1 .. u[m])
    BY <1>1, <1>2 DEF Pairs
  <2>2. PICK k \in 1 .. u[m] : z = <<m, k>>
    BY <2>1
  <2> QED BY <2>2
<1>3. ASSUME NEW m \in R, NEW k \in 1 .. u[m], z = <<m, k>> PROVE z \in Pairs(u)
  <2>1. z \in {m} \X (1 .. u[m])
    BY <1>3
  <2> QED BY <1>1, <2>1 DEF Pairs
<1> QED BY <1>2, <1>3

LEMMA TotalFacts ==
    ASSUME NEW R, IsFiniteSet(R), NEW u \in [R -> Nat]
    PROVE  /\ IsFiniteSet(Pairs(u)) /\ Total(u) \in Nat
           /\ Total(u) = 0 <=> \A m \in R : u[m] = 0
<1> DEFINE f == [m \in R |-> {m} \X (1 .. u[m])]
           S == {{m} \X (1 .. u[m]) : m \in R}
<1>1. \A m \in R : u[m] \in Nat
  OBVIOUS
<1>2. f \in Surjection(R, S)
  <2>1. f \in [R -> S] /\ \A T \in S : \E m \in R : f[m] = T
    OBVIOUS
  <2> HIDE DEF f, S
  <2> QED BY <2>1 DEF Surjection
<1>3. IsFiniteSet(S)
  <2> HIDE DEF f, S
  <2> QED BY <1>2, FS_Surjection
<1>4. ASSUME NEW T \in S PROVE IsFiniteSet(T)
  <2>1. PICK m \in R : T = {m} \X (1 .. u[m])
    OBVIOUS
  <2>2. IsFiniteSet({m}) /\ IsFiniteSet(1 .. u[m])
    <3>1. u[m] \in Int /\ 1 \in Int
      BY <1>1
    <3>2. IsFiniteSet(1 .. u[m])
      BY <3>1, FS_Interval
    <3> QED BY <3>2, FS_Singleton
  <2> QED BY <2>1, <2>2, FS_Product
<1>5. Pairs(u) = UNION S
  BY DEF Pairs
<1> HIDE DEF f, S
<1>6. IsFiniteSet(Pairs(u))
  BY <1>3, <1>4, <1>5, FS_UNION
<1>7. Total(u) \in Nat /\ (Total(u) = 0 <=> Pairs(u) = {})
  BY <1>6, FS_CardinalityType, FS_EmptySet DEF Total
<1>8. ASSUME \A m \in R : u[m] = 0 PROVE Pairs(u) = {}
  <2>1. \A m \in R : 1 .. u[m] = {}
    BY <1>8
  <2> QED BY <2>1, PairsOf
<1>9. ASSUME NEW m \in R, u[m] # 0 PROVE Pairs(u) # {}
  <2>1. 1 \in 1 .. u[m]
    BY <1>1, <1>9
  <2>2. <<m, 1>> \in Pairs(u)
    BY <2>1, PairsOf
  <2> QED BY <2>2
<1> QED BY <1>6, <1>7, <1>8, <1>9

\* One more of m.
LEMMA TotalMore ==
    ASSUME NEW R, IsFiniteSet(R), NEW u \in [R -> Nat], NEW v \in [R -> Nat], NEW m \in R,
           v[m] = u[m] + 1, \A k \in R \ {m} : v[k] = u[k]
    PROVE  Total(v) = Total(u) + 1
<1> DEFINE z == <<m, u[m] + 1>>
<1>1. \A y : y \in Pairs(v) <=> y \in Pairs(u) \/ y = z
  <2>1. SUFFICES ASSUME NEW y PROVE y \in Pairs(v) <=> y \in Pairs(u) \/ y = z
    OBVIOUS
  <2>2. u[m] \in Nat /\ 1 .. v[m] = (1 .. u[m]) \cup {u[m] + 1}
    OBVIOUS
  <2>3. ASSUME y \in Pairs(v) PROVE y \in Pairs(u) \/ y = z
    <3>1. PICK k \in R : \E j \in 1 .. v[k] : y = <<k, j>>
      BY <2>3, PairsOf
    <3>1a. PICK j \in 1 .. v[k] : y = <<k, j>>
      BY <3>1
    <3>2. CASE j \in 1 .. u[k]
      BY <3>1a, <3>2, PairsOf
    <3>3. CASE j \notin 1 .. u[k]
      BY <2>2, <3>1a, <3>3
    <3> QED BY <3>2, <3>3
  <2>4. ASSUME y \in Pairs(u) PROVE y \in Pairs(v)
    <3>1. PICK k \in R : \E j \in 1 .. u[k] : y = <<k, j>>
      BY <2>4, PairsOf
    <3>1a. PICK j \in 1 .. u[k] : y = <<k, j>>
      BY <3>1
    <3>2. j \in 1 .. v[k]
      BY <2>2, <3>1a
    <3> QED BY <3>1a, <3>2, PairsOf
  <2>5. z \in Pairs(v)
    <3>1. u[m] + 1 \in 1 .. v[m]
      BY <2>2
    <3> QED BY <3>1, PairsOf
  <2> QED BY <2>3, <2>4, <2>5
<1>2. z \notin Pairs(u)
  <2>1. SUFFICES ASSUME z \in Pairs(u) PROVE FALSE
    OBVIOUS
  <2>2. PICK k \in R : \E j \in 1 .. u[k] : z = <<k, j>>
    BY <2>1, PairsOf
  <2>2a. PICK j \in 1 .. u[k] : z = <<k, j>>
    BY <2>2
  <2>3. k = m /\ j = u[m] + 1 /\ u[m] \in Nat
    BY <2>2a
  <2> QED BY <2>2a, <2>3
<1> HIDE DEF z
<1>3. Pairs(v) = Pairs(u) \cup {z}
  BY <1>1
<1>4. IsFiniteSet(Pairs(u))
  BY TotalFacts
<1>5. Cardinality(Pairs(u) \cup {z}) = Cardinality(Pairs(u)) + 1
  BY <1>2, <1>4, FS_AddElement
<1> QED BY <1>3, <1>5 DEF Total

\* One more of each.
LEMMA TotalAll ==
    ASSUME NEW R, IsFiniteSet(R), NEW u \in [R -> Nat], NEW v \in [R -> Nat],
           \A m \in R : v[m] = u[m] + 1
    PROVE  Total(v) = Total(u) + Cardinality(R)
<1> DEFINE g == [m \in R |-> <<m, u[m] + 1>>]
           N == {<<m, u[m] + 1>> : m \in R}
<1>1. \A m \in R : u[m] \in Nat /\ 1 .. v[m] = (1 .. u[m]) \cup {u[m] + 1}
  OBVIOUS
<1>2. g \in Bijection(R, N)
  <2>1. g \in [R -> N] /\ (\A y \in N : \E m \in R : g[m] = y)
    OBVIOUS
  <2>2. \A a, b \in R : g[a] = g[b] => a = b
    OBVIOUS
  <2> HIDE DEF g, N
  <2> QED BY <2>1, <2>2 DEF Bijection, Injection, Surjection, IsInjective
<1>3. IsFiniteSet(N) /\ Cardinality(N) = Cardinality(R)
  <2> HIDE DEF g, N
  <2> QED BY <1>2, FS_Bijection DEF ExistsBijection
<1>4. ASSUME NEW y PROVE y \in Pairs(v) <=> y \in Pairs(u) \/ y \in N
  <2>1. ASSUME y \in Pairs(v) PROVE y \in Pairs(u) \/ y \in N
    <3>1. PICK k \in R : \E j \in 1 .. v[k] : y = <<k, j>>
      BY <2>1, PairsOf
    <3>1a. PICK j \in 1 .. v[k] : y = <<k, j>>
      BY <3>1
    <3>2. CASE j \in 1 .. u[k]
      BY <3>1a, <3>2, PairsOf
    <3>3. CASE j = u[k] + 1
      BY <3>1a, <3>3
    <3> QED BY <1>1, <3>2, <3>3
  <2>2. ASSUME y \in Pairs(u) PROVE y \in Pairs(v)
    <3>1. PICK k \in R : \E j \in 1 .. u[k] : y = <<k, j>>
      BY <2>2, PairsOf
    <3>1a. PICK j \in 1 .. u[k] : y = <<k, j>>
      BY <3>1
    <3>2. j \in 1 .. v[k]
      BY <1>1
    <3> QED BY <3>1a, <3>2, PairsOf
  <2>3. ASSUME y \in N PROVE y \in Pairs(v)
    <3>1. PICK k \in R : y = <<k, u[k] + 1>>
      BY <2>3
    <3>2. u[k] + 1 \in 1 .. v[k]
      BY <1>1
    <3> QED BY <3>1, <3>2, PairsOf
  <2> QED BY <2>1, <2>2, <2>3
<1>5. ASSUME NEW y \in N PROVE y \notin Pairs(u)
  <2>1. SUFFICES ASSUME y \in Pairs(u) PROVE FALSE
    OBVIOUS
  <2>2. PICK m \in R : y = <<m, u[m] + 1>>
    OBVIOUS
  <2>3. PICK k \in R : \E j \in 1 .. u[k] : y = <<k, j>>
    BY <2>1, PairsOf
  <2>3a. PICK j \in 1 .. u[k] : y = <<k, j>>
    BY <2>3
  <2>4. k = m /\ j = u[m] + 1
    BY <2>2, <2>3a
  <2> QED BY <1>1, <2>3a, <2>4
<1> HIDE DEF g, N
<1>6. Pairs(v) = Pairs(u) \cup N /\ Pairs(u) \cap N = {}
  BY <1>4, <1>5
<1>7. IsFiniteSet(Pairs(u)) /\ Cardinality(Pairs(u)) \in Nat
  BY TotalFacts DEF Total
<1>8. Cardinality({}) = 0 /\ Cardinality(N) \in Nat
  BY <1>3, FS_EmptySet, FS_CardinalityType
<1>9. Cardinality(Pairs(u) \cup N)
        = Cardinality(Pairs(u)) + Cardinality(N) - Cardinality(Pairs(u) \cap N)
  BY <1>3, <1>7, FS_Union
<1>10. Total(v) = Cardinality(Pairs(u) \cup N) /\ Total(u) = Cardinality(Pairs(u))
  BY <1>6 DEF Total
<1>11. Cardinality(Pairs(u) \cup N) = Cardinality(Pairs(u)) + Cardinality(N) - 0
  BY <1>6, <1>8, <1>9
<1> QED BY <1>3, <1>7, <1>8, <1>10, <1>11

LEMMA RemotesFacts ==
    /\ IsFiniteSet(Remotes) /\ MaxNode \in Nat /\ Remotes \subseteq Node
    /\ \A S \in SUBSET Remotes : /\ IsFiniteSet(S) /\ Cardinality(S) \in Nat
                                 /\ Cardinality(S) <= MaxNode
                                 /\ Cardinality(S) = MaxNode => S = Remotes
<1>1. IsFiniteSet(Node) /\ Remotes \subseteq Node
  BY NodeFacts DEF Remotes
<1>2. IsFiniteSet(Remotes)
  BY <1>1, FS_Subset
<1>3. MaxNode \in Nat
  BY <1>2, FS_CardinalityType DEF MaxNode
<1>4. ASSUME NEW S \in SUBSET Remotes
      PROVE  /\ IsFiniteSet(S) /\ Cardinality(S) <= MaxNode
             /\ Cardinality(S) = MaxNode => S = Remotes
  BY <1>2, <1>4, FS_Subset DEF MaxNode
<1>5. \A S \in SUBSET Remotes : Cardinality(S) \in Nat
  BY <1>4, FS_CardinalityType
<1> QED BY <1>1, <1>2, <1>3, <1>4, <1>5

-----------------------------------------------------------------------------
(* perf_local and its remotes: what one says to the other as long as       *)
(* perf_local has not ended.  Nobody goes away before.                     *)

\* What p may say to n, HELLO aside, when l is the local.
Said(l, p, n) ==
    {Msg("JOIN", "GLOBAL", Blank)}
    \cup (IF p = l
          THEN {Msg("WHISPER", Blank, "S:WHISPER"), Msg("SHOUT", "GLOBAL", "S:SHOUT")}
          ELSE {Msg("WHISPER", Blank, "R:HELLO"), Msg("SHOUT", "GLOBAL", "R:SHOUT")})
    \cup (IF n = l THEN {Msg("WHISPER", Blank, "R:WHISPER")} ELSE {})

\* The event that tells of msg, the JOINs of a HELLO aside.
Note(p, msg) ==
    IF msg.id = "HELLO" THEN Event("ENTER", p, Blank, Blank)
    ELSE Event(msg.id, p, msg.group, msg.text)

\* The events of a HELLO, or a JOIN.
Appears(event, p) == event.type = "JOIN" \/ event = Event("ENTER", p, Blank, Blank)

\* From p, with node s, to n, with node r.
Pair(l, p, n, s, r) ==
    LET q == s.out[n] IN
    /\ n \notin s.peers => q = <<>> /\ p \notin r.ready
    /\ n \in s.peers => r.state = "up" /\ (p \in r.ready <=> ~(q # <<>> /\ q[1].id = "HELLO"))
    /\ \A k \in 1 .. Len(q) : (k = 1 /\ q[k].id = "HELLO") \/ q[k] \in Said(l, p, n)
    /\ \A j \in 1 .. Len(r.events) : r.events[j].peer = p =>
         \/ Appears(r.events[j], p)
         \/ \E msg \in Said(l, p, n) : r.events[j] = Note(p, msg)

Solo(program, s) ==
    /\ s.state \in {"new", "up"} /\ ~s.impatient /\ s.due = {}
    /\ s.peers # {} => s.state = "up"
    /\ \A j \in 1 .. Len(s.events) : s.events[j].peer \in s.ready
    /\ program = "none" => s.state = "new"

Company(rl, l, nd) ==
    /\ \A m \in Node \ {l} : rl[m] \in {"remote", "none"}
    /\ \A x \in Node : Solo(rl[x], nd[x])
    /\ \A p \in Node : \A n \in Node \ {p} : Pair(l, p, n, nd[p], nd[n])

LEMMA SaidFacts ==
    ASSUME NEW l, NEW p, NEW n, NEW msg \in Said(l, p, n)
    PROVE  msg \in Message /\ msg.id \in {"JOIN", "WHISPER", "SHOUT"}
<1>1. {"S:WHISPER", "S:SHOUT", "R:HELLO", "R:SHOUT", "R:WHISPER", Blank, "GLOBAL"} \subseteq Word
  BY Words DEF Groups
<1>2. "GLOBAL" \in Groups
  BY DEF Groups
<1>3. /\ Msg("JOIN", "GLOBAL", Blank) \in Message
      /\ Msg("WHISPER", Blank, "S:WHISPER") \in Message
      /\ Msg("WHISPER", Blank, "R:HELLO") \in Message
      /\ Msg("WHISPER", Blank, "R:WHISPER") \in Message
      /\ Msg("SHOUT", "GLOBAL", "S:SHOUT") \in Message
      /\ Msg("SHOUT", "GLOBAL", "R:SHOUT") \in Message
  BY <1>1, <1>2 DEF Message, Msg
<1>4. msg \in {Msg("JOIN", "GLOBAL", Blank), Msg("WHISPER", Blank, "S:WHISPER"),
               Msg("WHISPER", Blank, "R:HELLO"), Msg("WHISPER", Blank, "R:WHISPER"),
               Msg("SHOUT", "GLOBAL", "S:SHOUT"), Msg("SHOUT", "GLOBAL", "R:SHOUT")}
  BY DEF Said
<1>5. msg.id \in {"JOIN", "WHISPER", "SHOUT"}
  BY <1>4 DEF Msg
<1> QED BY <1>3, <1>4, <1>5

\* p says something to n.
LEMMA PairSays ==
    ASSUME NEW l, NEW p, NEW n \in Node, NEW s \in NodeState, NEW r, Pair(l, p, n, s, r),
           n \in s.peers, NEW t, n \in t.peers, NEW msg \in Said(l, p, n),
           t.out[n] = Append(s.out[n], msg)
    PROVE  Pair(l, p, n, t, r)
<1> DEFINE q == s.out[n]
           w == t.out[n]
<1>1. q \in Seq(Message) /\ msg \in Message /\ msg.id # "HELLO" /\ w = Append(q, msg)
  BY SaidFacts DEF NodeState
<1>2. /\ n \in s.peers => r.state = "up" /\ (p \in r.ready <=> ~(q # <<>> /\ q[1].id = "HELLO"))
      /\ \A k \in 1 .. Len(q) : (k = 1 /\ q[k].id = "HELLO") \/ q[k] \in Said(l, p, n)
      /\ \A j \in 1 .. Len(r.events) : r.events[j].peer = p =>
           \/ Appears(r.events[j], p)
           \/ \E x \in Said(l, p, n) : r.events[j] = Note(p, x)
  BY DEF Pair
<1> HIDE DEF q, w
<1>3. w # <<>> /\ (w[1].id = "HELLO" <=> q # <<>> /\ q[1].id = "HELLO")
  <2>1. CASE q = <<>>
    BY <1>1, <2>1
  <2>2. CASE q # <<>>
    <3>1. w[1] = q[1] /\ w # <<>>
      BY <1>1, <2>2
    <3> QED BY <2>2, <3>1
  <2> QED BY <2>1, <2>2
<1>4. ASSUME NEW k \in 1 .. Len(w) PROVE (k = 1 /\ w[k].id = "HELLO") \/ w[k] \in Said(l, p, n)
  <2>1. (k \in 1 .. Len(q) /\ w[k] = q[k]) \/ w[k] = msg
    BY <1>1
  <2> QED BY <1>2, <2>1
<1> QED BY <1>2, <1>3, <1>4 DEF Pair, w

\* p says nothing to n; it says HELLO.
LEMMA PairSame ==
    ASSUME NEW l, NEW p, NEW n, NEW s, NEW r, Pair(l, p, n, s, r), NEW t,
           n \in t.peers <=> n \in s.peers, t.out[n] = s.out[n]
    PROVE  Pair(l, p, n, t, r)
BY DEF Pair

LEMMA PairGreets ==
    ASSUME NEW l, NEW p, NEW n, NEW s, NEW r, Pair(l, p, n, s, r), n \notin s.peers,
           r.state = "up", NEW t, n \in t.peers, NEW groups \in SUBSET Groups,
           t.out[n] = Append(s.out[n], Hello(groups))
    PROVE  Pair(l, p, n, t, r)
<1> DEFINE w == t.out[n]
           hello == Hello(groups)
<1>1. hello.id = "HELLO"
  BY DEF Hello
<1> HIDE DEF hello
<1>2. s.out[n] = <<>> /\ w = Append(<<>>, hello)
  BY DEF Pair, hello
<1>3. Len(w) = 1 /\ w[1] = hello /\ w # <<>>
  BY <1>2
<1>4. p \notin r.ready
  BY DEF Pair
<1>5. \A j \in 1 .. Len(r.events) : r.events[j].peer = p =>
           \/ Appears(r.events[j], p)
           \/ \E x \in Said(l, p, n) : r.events[j] = Note(p, x)
  BY DEF Pair
<1> HIDE DEF w
<1>6. \A k \in 1 .. Len(w) : k = 1 /\ w[k].id = "HELLO"
  BY <1>1, <1>3
<1> QED BY <1>1, <1>3, <1>4, <1>5, <1>6 DEF Pair, w

\* Nothing new of p in u.
Nothing(r, u, p) ==
    /\ p \in u.ready <=> p \in r.ready
    /\ r.state = "up" => u.state = "up"
    /\ \A j \in 1 .. Len(u.events) : u.events[j].peer = p =>
         \E i \in 1 .. Len(r.events) : r.events[i] = u.events[j]

LEMMA PairNothing ==
    ASSUME NEW l, NEW p, NEW n, NEW s, NEW r, Pair(l, p, n, s, r), NEW u, Nothing(r, u, p)
    PROVE  Pair(l, p, n, s, u)
<1>1. ASSUME NEW j \in 1 .. Len(u.events), u.events[j].peer = p
      PROVE  \/ Appears(u.events[j], p)
             \/ \E x \in Said(l, p, n) : u.events[j] = Note(p, x)
  <2>1. PICK i \in 1 .. Len(r.events) : r.events[i] = u.events[j]
    BY <1>1 DEF Nothing
  <2> QED BY <1>1, <2>1 DEF Pair
<1> QED BY <1>1 DEF Pair, Nothing

\* What x may have said when its node is t.
Utters(l, x, k, s, t, r) ==
    \/ (k \in t.peers <=> k \in s.peers) /\ t.out[k] = s.out[k]
    \/ k \in s.peers /\ k \in t.peers /\ \E msg \in Said(l, x, k) : t.out[k] = Append(s.out[k], msg)
    \/ /\ k \notin s.peers /\ k \in t.peers /\ r.state = "up"
       /\ t.out[k] = Append(s.out[k], Hello(s.own))

LEMMA PairUtters ==
    ASSUME NEW l, NEW p, NEW n \in Node, NEW s \in NodeState, NEW r, Pair(l, p, n, s, r),
           NEW t, Utters(l, p, n, s, t, r)
    PROVE  Pair(l, p, n, t, r)
<1>1. CASE (n \in t.peers <=> n \in s.peers) /\ t.out[n] = s.out[n]
  BY <1>1, PairSame
<1>2. CASE n \in s.peers /\ n \in t.peers /\ \E msg \in Said(l, p, n) : t.out[n] = Append(s.out[n], msg)
  BY <1>2, PairSays
<1>3. CASE /\ n \notin s.peers /\ n \in t.peers /\ r.state = "up"
           /\ t.out[n] = Append(s.out[n], Hello(s.own))
  <2>1. s.own \in SUBSET Groups
    BY DEF NodeState
  <2> QED BY <1>3, <2>1, PairGreets
<1> QED BY <1>1, <1>2, <1>3 DEF Utters

\* A step of x alone.
OneStep(rl, l, nd, x, t) ==
    /\ t \in NodeState /\ Solo(rl[x], t)
    /\ \A k \in Node \ {x} : Utters(l, x, k, nd[x], t, nd[k])
    /\ \A p \in Node \ {x} : Nothing(nd[x], t, p)

LEMMA CompanyStep ==
    ASSUME NEW rl, NEW l, NEW nd \in [Node -> NodeState], Company(rl, l, nd), NEW x \in Node,
           NEW t, OneStep(rl, l, nd, x, t)
    PROVE  Company(rl, l, [nd EXCEPT ![x] = t])
<1> DEFINE nt == [nd EXCEPT ![x] = t]
<1>1. nt[x] = t /\ \A k \in Node \ {x} : nt[k] = nd[k]
  OBVIOUS
<1> HIDE DEF nt
<1>2. \A k \in Node : Solo(rl[k], nt[k])
  BY <1>1 DEF Company, OneStep
<1>3. ASSUME NEW p \in Node, NEW n \in Node \ {p} PROVE Pair(l, p, n, nt[p], nt[n])
  <2>1. Pair(l, p, n, nd[p], nd[n]) /\ nd[p] \in NodeState
    BY DEF Company
  <2>2. CASE p = x
    <3>1. Utters(l, p, n, nd[p], t, nd[n])
      BY <2>2 DEF OneStep
    <3>2. Pair(l, p, n, t, nd[n])
      BY <2>1, <3>1, PairUtters
    <3> QED BY <1>1, <2>2, <3>2
  <2>3. CASE n = x
    <3>1. Nothing(nd[n], t, p)
      BY <2>3 DEF OneStep
    <3>2. Pair(l, p, n, nd[p], t)
      BY <2>1, <3>1, PairNothing
    <3> QED BY <1>1, <2>3, <3>2
  <2>4. CASE p # x /\ n # x
    BY <1>1, <2>1, <2>4
  <2> QED BY <2>2, <2>3, <2>4
<1> QED BY <1>2, <1>3 DEF Company, nt

-----------------------------------------------------------------------------
(* A message arrives                                                       *)

\* r has heard msg of p and is t.
Hears(r, t, p, msg) ==
    /\ t.state = r.state /\ t.impatient = r.impatient /\ t.due = r.due /\ t.own = r.own
    /\ t.peers = r.peers \cup {p} /\ t.ready = r.ready \cup {p}
    /\ \A k \in Node : r.member[k] \subseteq t.member[k]
    /\ \A k \in Node \ {p} : t.out[k] = r.out[k]
    /\ t.out[p] = IF p \in r.peers THEN r.out[p] ELSE Append(r.out[p], Hello(r.own))
    /\ \A z \in Notice : z.type # "JOIN" =>
         Count(t.events, z) = Count(r.events, z) + (IF z = Note(p, msg) THEN 1 ELSE 0)
    /\ \A j \in 1 .. Len(t.events) :
         \/ \E i \in 1 .. Len(r.events) : r.events[i] = t.events[j]
         \/ t.events[j].peer = p /\ t.events[j].type = "JOIN"
         \/ t.events[j] = Note(p, msg)

\* What RequirePeer does, tables for the events aside.
Opened(s, t, m) ==
    /\ t.state = s.state /\ t.impatient = s.impatient /\ t.due = s.due /\ t.own = s.own
    /\ t.peers = s.peers \cup {m}
    /\ \A k \in Node \ {m} : t.out[k] = s.out[k]
    /\ t.out[m] = IF m \in s.peers THEN s.out[m] ELSE Append(s.out[m], Hello(s.own))

LEMMA RequirePeerRest ==
    ASSUME NEW n \in Node, NEW s, Good(n, s), NEW m \in Node \ {n},
           NEW t, t = RequirePeer(s, m)
    PROVE  Opened(s, t, m)
<1>1. CASE m \in s.peers
  BY <1>1 DEF RequirePeer, Opened
<1>2. CASE m \notin s.peers
  <2> DEFINE u == [s EXCEPT !.peers = @ \cup {m}]
             msg == Hello(s.own)
  <2>1. t = Put(u, {m}, msg)
    BY <1>2 DEF RequirePeer
  <2>2. s \in NodeState /\ msg \in Message
    BY DEF Good, NodeState, Message, Hello
  <2>3. /\ u \in NodeState /\ u.state = s.state /\ u.own = s.own
        /\ u.peers = s.peers \cup {m} /\ u.impatient = s.impatient /\ u.due = s.due
        /\ u.out = s.out
    BY <2>2 DEF NodeState
  <2> HIDE DEF u, msg
  <2>4. /\ t \in NodeState /\ Alike(u, t)
        /\ \A p \in Node : t.out[p] = IF p \in {m} THEN Append(u.out[p], msg) ELSE u.out[p]
    BY <2>1, <2>2, <2>3, PutFacts
  <2>5. t.out[m] = Append(s.out[m], Hello(s.own)) /\ \A k \in Node \ {m} : t.out[k] = s.out[k]
    BY <2>3, <2>4 DEF msg
  <2> QED BY <1>2, <2>3, <2>4, <2>5 DEF Alike, Opened
<1> QED BY <1>1, <1>2

\* What JOINs behind the events change: nothing that counts.
JoinsOf(r, t, p) ==
    \E joins \in Seq(Notice) :
        /\ t.events = r.events \o joins
        /\ \A i \in 1 .. Len(joins) : joins[i].type = "JOIN" /\ joins[i].peer = p

\* Nothing that counts but JOINs of p.
OnlyJoins(r, t, p) ==
    /\ \A z \in Notice : z.type # "JOIN" => Count(t.events, z) = Count(r.events, z)
    /\ \A j \in 1 .. Len(t.events) :
         \/ \E i \in 1 .. Len(r.events) : r.events[i] = t.events[j]
         \/ t.events[j].peer = p /\ t.events[j].type = "JOIN"

LEMMA JoinsCount ==
    ASSUME NEW r \in NodeState, NEW t, NEW p, JoinsOf(r, t, p)
    PROVE  OnlyJoins(r, t, p)
<1>0. PICK joins \in Seq(Notice) :
        /\ t.events = r.events \o joins
        /\ \A i \in 1 .. Len(joins) : joins[i].type = "JOIN" /\ joins[i].peer = p
  BY DEF JoinsOf
<1>1. r.events \in Seq(Notice)
  BY DEF NodeState
<1>2. ASSUME NEW z \in Notice, z.type # "JOIN" PROVE Count(t.events, z) = Count(r.events, z)
  <2>1. \A i \in 1 .. Len(joins) : joins[i] # z
    BY <1>0, <1>2
  <2> QED BY <1>0, <1>1, <2>1, CountBehind
<1>3. ASSUME NEW j \in 1 .. Len(t.events)
      PROVE  \/ \E i \in 1 .. Len(r.events) : r.events[i] = t.events[j]
             \/ t.events[j].peer = p /\ t.events[j].type = "JOIN"
  <2>1. \/ j \in 1 .. Len(r.events) /\ r.events[j] = t.events[j]
        \/ j - Len(r.events) \in 1 .. Len(joins) /\ t.events[j] = joins[j - Len(r.events)]
    BY <1>0, <1>1
  <2> QED BY <1>0, <2>1
<1> QED BY <1>2, <1>3 DEF OnlyJoins

\* One notice more.
OneMore(r, t, y) ==
    /\ \A z : Count(t.events, z) = Count(r.events, z) + (IF y = z THEN 1 ELSE 0)
    /\ \A j \in 1 .. Len(t.events) :
         (\E i \in 1 .. Len(r.events) : r.events[i] = t.events[j]) \/ t.events[j] = y

LEMMA NoteCount ==
    ASSUME NEW r \in NodeState, NEW t, NEW y \in Notice, t.events = Append(r.events, y)
    PROVE  OneMore(r, t, y)
<1>1. r.events \in Seq(Notice)
  BY DEF NodeState
<1>2. \A z : Count(t.events, z) = Count(r.events, z) + (IF y = z THEN 1 ELSE 0)
  BY <1>1, CountAppend
<1>3. ASSUME NEW j \in 1 .. Len(t.events)
      PROVE  (\E i \in 1 .. Len(r.events) : r.events[i] = t.events[j]) \/ t.events[j] = y
  <2>1. (j \in 1 .. Len(r.events) /\ r.events[j] = t.events[j]) \/ t.events[j] = y
    BY <1>1
  <2> QED BY <2>1
<1> QED BY <1>2, <1>3 DEF OneMore

LEMMA HearsHello ==
    ASSUME NEW n \in Node, NEW r, Good(n, r), NEW p \in Node \ {n}, NEW msg \in Message,
           msg.id = "HELLO", NEW t, t = RecvHello(r, p, msg)
    PROVE  Hears(r, t, p, msg)
<1> DEFINE a == RequirePeer(r, p)
           b == [a EXCEPT !.ready = @ \cup {p}]
           event == Event("ENTER", p, Blank, Blank)
           c == Tell(b, event)
<1>1. t = JoinPeerGroups(c, p, msg.groups) /\ msg.groups \in SUBSET Groups
  BY DEF RecvHello, Message
<1>2. /\ Good(n, a) /\ a.ready = r.ready /\ a.member = r.member /\ a.events = r.events
  BY RequirePeerFacts
<1>3. /\ a.state = r.state /\ a.impatient = r.impatient /\ a.due = r.due /\ a.own = r.own
      /\ a.peers = r.peers \cup {p}
      /\ \A k \in Node \ {p} : a.out[k] = r.out[k]
      /\ a.out[p] = IF p \in r.peers THEN r.out[p] ELSE Append(r.out[p], Hello(r.own))
  <2>1. Opened(r, a, p)
    BY RequirePeerRest
  <2> HIDE DEF a
  <2> QED BY <2>1 DEF Opened
<1> HIDE DEF a
<1>4. /\ b \in NodeState /\ b.state = a.state /\ b.own = a.own /\ b.peers = a.peers
      /\ b.ready = a.ready \cup {p} /\ b.member = a.member /\ b.out = a.out
      /\ b.events = a.events /\ b.impatient = a.impatient /\ b.due = a.due
  BY <1>2 DEF Good, NodeState
<1> HIDE DEF b
<1>5. event \in Notice /\ event = Note(p, msg) /\ event.peer = p
  <2>1. Blank \in Word /\ "ENTER" \in Word
    BY Words
  <2> QED BY <2>1 DEF Notice, Event, Note
<1> HIDE DEF event
<1>6. /\ c \in NodeState /\ Alike(b, c) /\ c.out = b.out
      /\ c.events = Append(b.events, event)
  BY <1>4, <1>5, TellFacts
<1> HIDE DEF c
<1>7. Joined(c, t, p, msg.groups)
  BY <1>1, <1>6, JoinPeerGroupsFacts
<1>8. JoinsOf(c, t, p)
  BY <1>7 DEF Joined, JoinsOf
<1>9. OnlyJoins(c, t, p)
  BY <1>6, <1>8, JoinsCount
<1>10. r \in NodeState /\ c.events = Append(r.events, event)
  BY <1>2, <1>4, <1>6 DEF Good
<1>11. OneMore(r, c, event)
  BY <1>5, <1>10, NoteCount
<1>12. /\ t.state = r.state /\ t.impatient = r.impatient /\ t.due = r.due /\ t.own = r.own
       /\ t.peers = r.peers \cup {p} /\ t.ready = r.ready \cup {p} /\ t.out = a.out
       /\ t.member = [r.member EXCEPT ![p] = @ \cup msg.groups]
  BY <1>2, <1>3, <1>4, <1>6, <1>7 DEF Joined, Alike
<1>13. \A k \in Node : r.member[k] \subseteq t.member[k]
  <2>1. r.member \in [Node -> SUBSET Groups]
    BY <1>10 DEF NodeState
  <2> QED BY <1>12, <2>1
<1>14. \A z \in Notice : z.type # "JOIN" =>
         Count(t.events, z) = Count(r.events, z) + (IF z = Note(p, msg) THEN 1 ELSE 0)
  BY <1>5, <1>9, <1>11 DEF OnlyJoins, OneMore
<1>15. \A j \in 1 .. Len(t.events) :
         \/ \E i \in 1 .. Len(r.events) : r.events[i] = t.events[j]
         \/ t.events[j].peer = p /\ t.events[j].type = "JOIN"
         \/ t.events[j] = Note(p, msg)
  BY <1>5, <1>9, <1>11 DEF OnlyJoins, OneMore
<1> QED BY <1>3, <1>12, <1>13, <1>14, <1>15 DEF Hears

LEMMA HearsJoin ==
    ASSUME NEW n \in Node, NEW r, Good(n, r), NEW p \in r.ready, NEW msg \in Message,
           msg.id = "JOIN", NEW t, t = JoinPeerGroups(r, p, {msg.group})
    PROVE  Hears(r, t, p, msg)
<1>1. r \in NodeState /\ p \in Node /\ p \in r.peers
  BY DEF Good, NodeState
<1>2. {msg.group} \in SUBSET Groups
  BY DEF Message
<1>3. Joined(r, t, p, {msg.group})
  BY <1>1, <1>2, JoinPeerGroupsFacts
<1>4. JoinsOf(r, t, p)
  BY <1>3 DEF Joined, JoinsOf
<1>5. OnlyJoins(r, t, p)
  BY <1>1, <1>4, JoinsCount
<1>6. r.member \in [Node -> SUBSET Groups] /\ r.events \in Seq(Notice)
  BY <1>1 DEF NodeState
<1>7. \A k \in Node : r.member[k] \subseteq t.member[k]
  BY <1>3, <1>6 DEF Joined
<1>8. Note(p, msg).type = "JOIN"
  BY DEF Note, Event
<1>9. \A z \in Notice : z.type # "JOIN" =>
         Count(t.events, z) = Count(r.events, z) + (IF z = Note(p, msg) THEN 1 ELSE 0)
  <2>1. \A z : Count(r.events, z) \in Nat
    BY <1>6, CountFacts
  <2>2. \A z \in Notice : z.type # "JOIN" => Count(t.events, z) = Count(r.events, z) /\ z # Note(p, msg)
    BY <1>5, <1>8 DEF OnlyJoins
  <2>3. SUFFICES ASSUME NEW z \in Notice, z.type # "JOIN"
                 PROVE  Count(t.events, z)
                          = Count(r.events, z) + (IF z = Note(p, msg) THEN 1 ELSE 0)
    OBVIOUS
  <2>4. Count(t.events, z) = Count(r.events, z) /\ z # Note(p, msg) /\ Count(r.events, z) \in Nat
    BY <2>1, <2>2, <2>3
  <2> QED BY <2>4
<1>10. \A j \in 1 .. Len(t.events) :
         \/ \E i \in 1 .. Len(r.events) : r.events[i] = t.events[j]
         \/ t.events[j].peer = p /\ t.events[j].type = "JOIN"
         \/ t.events[j] = Note(p, msg)
  BY <1>5 DEF OnlyJoins
<1>11. /\ t.state = r.state /\ t.impatient = r.impatient /\ t.due = r.due /\ t.own = r.own
       /\ t.peers = r.peers \cup {p} /\ t.ready = r.ready \cup {p} /\ t.out = r.out
  BY <1>1, <1>3 DEF Joined
<1> QED BY <1>1, <1>7, <1>9, <1>10, <1>11 DEF Hears

LEMMA HearsTalk ==
    ASSUME NEW n \in Node, NEW r, Good(n, r), NEW p \in r.ready, NEW msg \in Message,
           msg.id \in Talk, NEW t, t = Tell(r, Event(msg.id, p, msg.group, msg.text))
    PROVE  Hears(r, t, p, msg)
<1> DEFINE event == Event(msg.id, p, msg.group, msg.text)
<1>1. r \in NodeState /\ p \in Node /\ p \in r.peers
  BY DEF Good, NodeState
<1>2. event \in Notice /\ event = Note(p, msg)
  <2>1. msg.id # "HELLO" /\ msg.group \in Word /\ msg.text \in Word /\ msg.id \in Word
    BY Words DEF Message, Talk
  <2> QED BY <1>1, <2>1 DEF Event, Notice, Note
<1> HIDE DEF event
<1>3. t = Tell(r, event)
  BY DEF event
<1>4. Alike(r, t) /\ t.out = r.out /\ t.events = Append(r.events, event)
  BY <1>1, <1>2, <1>3, TellFacts
<1>5. OneMore(r, t, event)
  BY <1>1, <1>2, <1>4, NoteCount
<1>6. \A z \in Notice : z.type # "JOIN" =>
         Count(t.events, z) = Count(r.events, z) + (IF z = Note(p, msg) THEN 1 ELSE 0)
  <2>1. SUFFICES ASSUME NEW z \in Notice
                 PROVE  Count(t.events, z)
                          = Count(r.events, z) + (IF z = Note(p, msg) THEN 1 ELSE 0)
    OBVIOUS
  <2>2. Count(t.events, z) = Count(r.events, z) + (IF event = z THEN 1 ELSE 0)
    BY <1>5 DEF OneMore
  <2>3. event = z <=> z = Note(p, msg)
    BY <1>2
  <2> QED BY <2>2, <2>3
<1>7. \A j \in 1 .. Len(t.events) :
         \/ \E i \in 1 .. Len(r.events) : r.events[i] = t.events[j]
         \/ t.events[j].peer = p /\ t.events[j].type = "JOIN"
         \/ t.events[j] = Note(p, msg)
  BY <1>2, <1>5 DEF OneMore
<1>8. /\ t.state = r.state /\ t.impatient = r.impatient /\ t.due = r.due /\ t.own = r.own
      /\ t.peers = r.peers \cup {p} /\ t.ready = r.ready \cup {p} /\ t.out = r.out
      /\ t.member = r.member
  BY <1>1, <1>4 DEF Alike
<1> QED BY <1>1, <1>6, <1>7, <1>8 DEF Hears

\* zyre_node_recv_peer, for what comes from a peer of this company.
LEMMA RecvHears ==
    ASSUME NEW n \in Node, NEW r, Good(n, r), ~r.impatient, NEW p \in Node \ {n},
           NEW msg \in Message, NEW t, t = Recv(r, p, msg),
           \/ msg.id = "HELLO"
           \/ p \in r.ready /\ msg.id \in {"JOIN", "WHISPER", "SHOUT"}
    PROVE  Hears(r, t, p, msg)
<1>1. CASE msg.id = "HELLO"
  <2> DEFINE u == RecvHello(r, p, msg)
  <2>1. t = Refresh(u, p)
    BY <1>1 DEF Recv
  <2>2. Hears(r, u, p, msg)
    BY <1>1, HearsHello
  <2> HIDE DEF u
  <2>3. u.impatient = r.impatient
    BY <2>2 DEF Hears
  <2>4. t = u
    BY <2>1, <2>3 DEF Refresh
  <2> QED BY <2>2, <2>4
<1>2. CASE msg.id # "HELLO"
  <2> DEFINE u == RecvFromReady(r, p, msg)
  <2>1. p \in r.ready /\ msg.id \in {"JOIN", "WHISPER", "SHOUT"}
    BY <1>2
  <2>2. t = Refresh(u, p)
    BY <1>2, <2>1 DEF Recv
  <2>3. Hears(r, u, p, msg)
    <3>1. CASE msg.id = "JOIN"
      <4>1. u = JoinPeerGroups(r, p, {msg.group})
        BY <3>1 DEF RecvFromReady
      <4> QED BY <2>1, <3>1, <4>1, HearsJoin
    <3>2. CASE msg.id \in {"WHISPER", "SHOUT"}
      <4>1. u = Tell(r, Event(msg.id, p, msg.group, msg.text))
        BY <3>2 DEF RecvFromReady
      <4> HIDE DEF u
      <4> QED BY <2>1, <3>2, <4>1, HearsTalk DEF Talk
    <3> QED BY <2>1, <3>1, <3>2
  <2> HIDE DEF u
  <2>4. u.impatient = r.impatient
    BY <2>3 DEF Hears
  <2>5. t = u
    BY <2>2, <2>4 DEF Refresh
  <2> QED BY <2>3, <2>5
<1> QED BY <1>1, <1>2

\* The first message of m to n is msg, s and t are their nodes behind it.
Arrives(l, nd, m, n, s, t, msg) ==
    /\ msg \in Message /\ nd[m].out[n] # <<>> /\ msg = Head(nd[m].out[n])
    /\ s \in NodeState /\ t \in NodeState /\ Alike(nd[m], s) /\ s.events = nd[m].events
    /\ s.out[n] = Tail(nd[m].out[n]) /\ \A k \in Node \ {n} : s.out[k] = nd[m].out[k]
    /\ Hears(nd[n], t, m, msg)
    /\ nd[n].state = "up" /\ nd[m].state = "up" /\ n \in nd[m].peers
    /\ \/ msg.id = "HELLO" /\ m \notin nd[n].ready
       \/ msg \in Said(l, m, n) /\ m \in nd[n].ready

LEMMA Arrival ==
    ASSUME NEW rl, NEW l, NEW nd, Tables(nd), Company(rl, l, nd), NEW m \in Node,
           NEW n \in Node \ {m}, nd[m].out[n] # <<>>,
           NEW s, NEW t, NEW nt, Delivers(nd, m, n, s, t, nt)
    PROVE  Arrives(l, nd, m, n, s, t, Head(nd[m].out[n]))
<1>1. Good(m, nd[m]) /\ Good(n, nd[n])
  BY DEF Tables
<1>2. PICK q : q = nd[m]
  OBVIOUS
<1>3. Good(m, q) /\ q.out[n] # <<>> /\ Pops(n, q, s)
  BY <1>1, <1>2 DEF Delivers, Pops
<1>3a. Lost(m, n, q, s)
  BY <1>3, Popped
<1>4. /\ Good(m, s) /\ Head(q.out[n]) \in Message /\ Head(q.out[n]) = q.out[n][1]
      /\ q.out[n] \in Seq(Message)
  BY <1>3a DEF Lost
<1>5. PICK msg : msg = Head(q.out[n])
  OBVIOUS
<1>6. Pair(l, m, n, q, nd[n]) /\ Solo(rl[n], nd[n]) /\ Solo(rl[m], q)
  BY <1>2 DEF Company
<1>7. n \in q.peers /\ nd[n].state = "up" /\ (m \in nd[n].ready <=> msg.id # "HELLO")
  BY <1>3, <1>4, <1>5, <1>6 DEF Pair
<1>8. msg.id = "HELLO" \/ msg \in Said(l, m, n)
  <2>1. 1 \in 1 .. Len(q.out[n])
    BY <1>3, <1>4
  <2> QED BY <1>4, <1>5, <1>6, <2>1 DEF Pair
<1>9. \/ msg.id = "HELLO" /\ m \notin nd[n].ready
      \/ msg \in Said(l, m, n) /\ m \in nd[n].ready
  BY <1>7, <1>8
<1>10. msg.id = "HELLO" \/ (m \in nd[n].ready /\ msg.id \in {"JOIN", "WHISPER", "SHOUT"})
  BY <1>9, SaidFacts
<1>11. t = Recv(nd[n], m, msg) /\ msg \in Message /\ ~nd[n].impatient /\ m \in Node \ {n}
  BY <1>2, <1>4, <1>5, <1>6 DEF Delivers, Solo
<1>12. Hears(nd[n], t, m, msg)
  BY <1>1, <1>10, <1>11, RecvHears
<1>13. t \in NodeState
  <2>1. Good(n, t)
    BY <1>1, <1>11, RecvFacts
  <2> QED BY <2>1 DEF Good
<1>14. q.state = "up"
  BY <1>6, <1>7 DEF Solo
<1>15. s \in NodeState
  BY <1>4 DEF Good
<1> QED BY <1>2, <1>3, <1>3a, <1>4, <1>5, <1>7, <1>9, <1>11, <1>12, <1>13, <1>14, <1>15
        DEF Arrives, Lost

\* The pair the message belongs to.
LEMMA PairArrives ==
    ASSUME NEW l, NEW nd, NEW m \in Node, NEW n \in Node \ {m}, nd[m] \in NodeState,
           Pair(l, m, n, nd[m], nd[n]), NEW s, NEW t, NEW msg, Arrives(l, nd, m, n, s, t, msg)
    PROVE  Pair(l, m, n, s, t)
<1> DEFINE q == nd[m].out[n]
           w == Tail(q)
           r == nd[n]
<1>1. q \in Seq(Message) /\ q # <<>> /\ s.out[n] = w /\ n \in s.peers
  BY DEF NodeState, Arrives, Alike
<1>2. /\ \A k \in 1 .. Len(q) : (k = 1 /\ q[k].id = "HELLO") \/ q[k] \in Said(l, m, n)
      /\ \A j \in 1 .. Len(r.events) : r.events[j].peer = m =>
           \/ Appears(r.events[j], m)
           \/ \E x \in Said(l, m, n) : r.events[j] = Note(m, x)
  BY DEF Pair
<1>3. /\ t.state = "up" /\ m \in t.ready
      /\ \A j \in 1 .. Len(t.events) :
           \/ \E i \in 1 .. Len(r.events) : r.events[i] = t.events[j]
           \/ t.events[j].peer = m /\ t.events[j].type = "JOIN"
           \/ t.events[j] = Note(m, msg)
      /\ msg.id = "HELLO" \/ msg \in Said(l, m, n)
  BY DEF Arrives, Hears
<1> HIDE DEF q, r
<1>4. \A k \in 1 .. Len(w) : w[k] \in Said(l, m, n)
  <2>1. \A k \in 1 .. Len(w) : k + 1 \in 1 .. Len(q) /\ k + 1 # 1 /\ w[k] = q[k + 1]
    BY <1>1
  <2> QED BY <1>2, <2>1
<1>5. ~(w # <<>> /\ w[1].id = "HELLO")
  <2>1. SUFFICES ASSUME w # <<>> PROVE w[1].id # "HELLO"
    OBVIOUS
  <2>2. 1 \in 1 .. Len(w)
    BY <1>1, <2>1
  <2> HIDE DEF w
  <2>3. w[1] \in Said(l, m, n)
    BY <1>4, <2>2
  <2> QED BY <2>3, SaidFacts
<1> HIDE DEF w
<1>6. ASSUME NEW j \in 1 .. Len(t.events), t.events[j].peer = m
      PROVE  \/ Appears(t.events[j], m)
             \/ \E x \in Said(l, m, n) : t.events[j] = Note(m, x)
  <2>1. CASE \E i \in 1 .. Len(r.events) : r.events[i] = t.events[j]
    BY <1>2, <1>6, <2>1
  <2>2. CASE t.events[j].type = "JOIN"
    BY <2>2 DEF Appears
  <2>3. CASE t.events[j] = Note(m, msg)
    <3>1. CASE msg.id = "HELLO"
      BY <2>3, <3>1 DEF Note, Appears
    <3>2. CASE msg \in Said(l, m, n)
      BY <2>3, <3>2
    <3> QED BY <1>3, <3>1, <3>2
  <2> QED BY <1>3, <2>1, <2>2, <2>3
<1> QED BY <1>1, <1>3, <1>4, <1>5, <1>6 DEF Pair

LEMMA CompanyArrives ==
    ASSUME NEW rl, NEW l, NEW nd, Tables(nd), Company(rl, l, nd), NEW m \in Node,
           NEW n \in Node \ {m}, nd[m].out[n] # <<>>,
           NEW s, NEW t, NEW nt, Delivers(nd, m, n, s, t, nt)
    PROVE  Company(rl, l, nt)
<1> DEFINE msg == Head(nd[m].out[n])
<1>1. Arrives(l, nd, m, n, s, t, msg)
  BY Arrival
<1> HIDE DEF msg
<1>2. nt[n] = t /\ nt[m] = s /\ \A x \in Node \ {m, n} : nt[x] = nd[x]
  BY DEF Delivers
<1>3. /\ Alike(nd[m], s) /\ s.events = nd[m].events
      /\ \A k \in Node \ {n} : s.out[k] = nd[m].out[k]
      /\ Hears(nd[n], t, m, msg) /\ nd[n].state = "up" /\ nd[m].state = "up"
  BY <1>1 DEF Arrives
<1>4. \A x \in Node : nd[x] \in NodeState
  BY DEF Tables
<1>5. ASSUME NEW x \in Node PROVE Solo(rl[x], nt[x])
  <2>1. Solo(rl[x], nd[x])
    BY DEF Company
  <2>2. CASE x = n
    <3>1. ASSUME NEW j \in 1 .. Len(t.events) PROVE t.events[j].peer \in t.ready
      <4>1. \/ \E i \in 1 .. Len(nd[n].events) : nd[n].events[i] = t.events[j]
            \/ t.events[j].peer = m
            \/ t.events[j] = Note(m, msg)
        BY <1>3 DEF Hears
      <4>2. t.ready = nd[n].ready \cup {m} /\ Note(m, msg).peer = m
        BY <1>3 DEF Hears, Note, Event
      <4> QED BY <2>1, <2>2, <4>1, <4>2 DEF Solo
    <3> QED BY <1>2, <1>3, <2>1, <2>2, <3>1 DEF Solo, Hears
  <2>3. CASE x = m
    BY <1>2, <1>3, <2>1, <2>3 DEF Solo, Alike
  <2>4. CASE x \notin {m, n}
    BY <1>2, <2>1, <2>4
  <2> QED BY <2>2, <2>3, <2>4
<1>6. ASSUME NEW p \in Node, NEW k \in Node \ {p} PROVE Pair(l, p, k, nt[p], nt[k])
  <2>1. Pair(l, p, k, nd[p], nd[k])
    BY DEF Company
  <2>2. CASE p = m /\ k = n
    <3>1. Pair(l, m, n, nd[m], nd[n])
      BY <2>1, <2>2
    <3>2. Pair(l, m, n, s, t)
      BY <1>1, <1>4, <3>1, PairArrives
    <3> QED BY <1>2, <2>2, <3>2
  <2>3. CASE ~(p = m /\ k = n)
    <3>1. Utters(l, p, k, nd[p], nt[p], nd[k])
      <4>1. CASE p = m
        BY <1>2, <1>3, <2>3, <4>1 DEF Utters, Alike
      <4>2. CASE p = n
        <5>1. /\ t.peers = nd[n].peers \cup {m}
              /\ \A x \in Node \ {m} : t.out[x] = nd[n].out[x]
              /\ t.out[m] = IF m \in nd[n].peers THEN nd[n].out[m]
                            ELSE Append(nd[n].out[m], Hello(nd[n].own))
          BY <1>3 DEF Hears
        <5>2. CASE k = m
          BY <1>2, <1>3, <4>2, <5>1, <5>2 DEF Utters
        <5>3. CASE k # m
          BY <1>2, <4>2, <5>1, <5>3 DEF Utters
        <5> QED BY <5>2, <5>3
      <4>3. CASE p \notin {m, n}
        BY <1>2, <4>3 DEF Utters
      <4> QED BY <4>1, <4>2, <4>3
    <3>2. Nothing(nd[k], nt[k], p)
      <4>1. CASE k = m
        BY <1>2, <1>3, <4>1 DEF Nothing, Alike
      <4>2. CASE k = n
        <5>1. p # m
          BY <2>3, <4>2
        <5>2. ASSUME NEW j \in 1 .. Len(t.events), t.events[j].peer = p
              PROVE  \E i \in 1 .. Len(nd[n].events) : nd[n].events[i] = t.events[j]
          <6>1. \/ \E i \in 1 .. Len(nd[n].events) : nd[n].events[i] = t.events[j]
                \/ t.events[j].peer = m
                \/ t.events[j] = Note(m, msg)
            BY <1>3 DEF Hears
          <6>2. Note(m, msg).peer = m
            BY DEF Note, Event
          <6> QED BY <5>1, <5>2, <6>1, <6>2
        <5> QED BY <1>2, <1>3, <4>2, <5>1, <5>2 DEF Nothing, Hears
      <4>3. CASE k \notin {m, n}
        BY <1>2, <4>3 DEF Nothing
      <4> QED BY <4>1, <4>2, <4>3
    <3>3. Pair(l, p, k, nt[p], nd[k])
      BY <1>4, <2>1, <3>1, PairUtters
    <3> QED BY <3>2, <3>3, PairNothing
  <2> QED BY <2>2, <2>3
<1> QED BY <1>5, <1>6 DEF Company

-----------------------------------------------------------------------------
(* What is under way                                                       *)

\* The x of p that n has not read; the ENTERs of p it has not read.
Flight(nd, p, n, x) == Count(nd[p].out[n], x) + Count(nd[n].events, Note(p, x))
Enters(nd, n, p) == Count(nd[n].events, Event("ENTER", p, Blank, Blank))

LEMMA NoteType ==
    ASSUME NEW p \in Node, NEW x \in Message, x.id \in Talk
    PROVE  Note(p, x) \in Notice /\ Note(p, x).type = x.id /\ Note(p, x).peer = p
<1>1. x.id # "HELLO" /\ x.group \in Word /\ x.text \in Word /\ x.id \in Word
  BY Words DEF Message, Talk
<1> QED BY <1>1 DEF Note, Event, Notice

LEMMA EnterType ==
    ASSUME NEW p \in Node
    PROVE  LET z == Event("ENTER", p, Blank, Blank) IN
           z \in Notice /\ z.type = "ENTER" /\ z.peer = p
<1>1. "ENTER" \in Word /\ Blank \in Word
  BY Words
<1> QED BY <1>1 DEF Event, Notice

LEMMA NoteSame ==
    ASSUME NEW p, NEW m, NEW x \in Message, x.id \in Talk, NEW y \in Message,
           Note(p, x) = Note(m, y)
    PROVE  p = m /\ x = y
<1>1. x.id # "HELLO" /\ x \in [id: {"WHISPER", "SHOUT", "GOODBYE"}, group: Word, text: Word]
  BY DEF Talk, Message
<1>2. Note(p, x) = Event(x.id, p, x.group, x.text)
  BY <1>1 DEF Note
<1>3. Note(m, y).type = x.id
  BY <1>2 DEF Event
<1>4. y.id # "HELLO"
  BY <1>3 DEF Note, Event, Talk
<1>5. Note(m, y) = Event(y.id, m, y.group, y.text)
  BY <1>4 DEF Note
<1>6. x.id = y.id /\ p = m /\ x.group = y.group /\ x.text = y.text
  <2>1. PICK a : a = Note(p, x)
    OBVIOUS
  <2>2. a.type = x.id /\ a.peer = p /\ a.group = x.group /\ a.text = x.text
    BY <1>2, <2>1 DEF Event
  <2>3. a.type = y.id /\ a.peer = m /\ a.group = y.group /\ a.text = y.text
    BY <1>5, <2>1 DEF Event
  <2> QED BY <2>2, <2>3
<1>7. y \in [id: {"WHISPER", "SHOUT", "GOODBYE"}, group: Word, text: Word]
  BY <1>6 DEF Message, Talk
<1> QED BY <1>1, <1>6, <1>7

LEMMA ArrivesFlight ==
    ASSUME NEW l, NEW nd, Tables(nd), NEW m \in Node, NEW n \in Node \ {m}, NEW s, NEW t, NEW msg,
           Arrives(l, nd, m, n, s, t, msg), NEW nt, nt[n] = t, nt[m] = s,
           \A x \in Node \ {m, n} : nt[x] = nd[x],
           NEW p \in Node, NEW k \in Node \ {p}, NEW x \in Message, x.id \in Talk
    PROVE  Flight(nt, p, k, x) = Flight(nd, p, k, x)
<1>1. \A y \in Node : nd[y] \in NodeState
  BY DEF Tables
<1>2. /\ \A y \in Node : nd[y].events \in Seq(Notice) /\ \A z \in Node : nd[y].out[z] \in Seq(Message)
  BY <1>1 DEF NodeState
<1>3. /\ msg \in Message /\ nd[m].out[n] # <<>> /\ msg = Head(nd[m].out[n])
      /\ s.events = nd[m].events /\ s.out[n] = Tail(nd[m].out[n])
      /\ \A y \in Node \ {n} : s.out[y] = nd[m].out[y]
      /\ Hears(nd[n], t, m, msg)
  BY DEF Arrives
<1>4. Note(p, x) \in Notice /\ Note(p, x).type # "JOIN"
  BY NoteType DEF Talk
<1>5. \A z \in Notice : z.type # "JOIN" =>
        Count(t.events, z) = Count(nd[n].events, z) + (IF z = Note(m, msg) THEN 1 ELSE 0)
  BY <1>3 DEF Hears
<1>6. Count(t.events, Note(p, x))
        = Count(nd[n].events, Note(p, x)) + (IF Note(p, x) = Note(m, msg) THEN 1 ELSE 0)
  BY <1>4, <1>5
<1>7. Note(p, x) = Note(m, msg) <=> p = m /\ x = msg
  BY <1>3, NoteSame
<1>8. /\ Count(nd[n].events, Note(p, x)) \in Nat /\ Count(nd[m].out[n], x) \in Nat
  BY <1>2, CountFacts
<1>9. CASE p = m /\ k = n
  <2>1. Count(s.out[n], x) = Count(nd[m].out[n], x) - (IF msg = x THEN 1 ELSE 0)
    <3>1. nd[m].out[n] \in Seq(Message)
      BY <1>2
    <3>2. Count(Tail(nd[m].out[n]), x)
            = Count(nd[m].out[n], x) - (IF Head(nd[m].out[n]) = x THEN 1 ELSE 0)
      BY <1>3, <3>1, CountTail
    <3> QED BY <1>3, <3>2
  <2>2. Flight(nt, p, k, x) = Count(s.out[n], x) + Count(t.events, Note(p, x))
    BY <1>9 DEF Flight
  <2>3. Flight(nd, p, k, x) = Count(nd[m].out[n], x) + Count(nd[n].events, Note(p, x))
    BY <1>9 DEF Flight
  <2>4. CASE x = msg
    BY <1>6, <1>7, <1>8, <1>9, <2>1, <2>2, <2>3, <2>4
  <2>5. CASE x # msg
    BY <1>6, <1>7, <1>8, <1>9, <2>1, <2>2, <2>3, <2>5
  <2> QED BY <2>4, <2>5
<1>10. CASE p = m /\ k # n
  <2>1. nt[p].out[k] = nd[p].out[k] /\ nt[k] = nd[k]
    BY <1>3, <1>10
  <2> QED BY <2>1 DEF Flight
<1>11. CASE p # m
  <2>1. Count(nt[p].out[k], x) = Count(nd[p].out[k], x)
    <3>1. CASE p # n
      BY <1>11, <3>1
    <3>2. CASE p = n /\ k # m
      <4>1. t.out[k] = nd[n].out[k]
        BY <1>3, <3>2 DEF Hears
      <4> QED BY <3>2, <4>1
    <3>3. CASE p = n /\ k = m
      <4>1. t.out[m] = nd[n].out[m] \/ t.out[m] = Append(nd[n].out[m], Hello(nd[n].own))
        BY <1>3 DEF Hears
      <4>2. Hello(nd[n].own) \in Message /\ Hello(nd[n].own).id = "HELLO"
        BY <1>1 DEF NodeState, Message, Hello
      <4> DEFINE hello == Hello(nd[n].own)
                 q == nd[n].out[m]
      <4>3. q \in Seq(Message) /\ hello \in Message /\ hello # x
        BY <1>2, <4>2 DEF Talk
      <4>4. t.out[m] = q \/ t.out[m] = Append(q, hello)
        BY <4>1
      <4> HIDE DEF q, hello
      <4>5. Count(Append(q, hello), x) = Count(q, x) + (IF hello = x THEN 1 ELSE 0)
        BY <4>3, CountAppend
      <4>5a. Count(q, x) \in Nat
        BY <4>3, CountFacts
      <4>6. Count(Append(q, hello), x) = Count(q, x)
        BY <4>3, <4>5, <4>5a
      <4>7. Count(t.out[m], x) = Count(q, x)
        BY <4>4, <4>6
      <4> QED BY <3>3, <4>7 DEF q
    <3> QED BY <3>1, <3>2, <3>3
  <2>2. Count(nt[k].events, Note(p, x)) = Count(nd[k].events, Note(p, x))
    <3>1. CASE k = n
      BY <1>6, <1>7, <1>8, <1>11, <3>1
    <3>2. CASE k = m
      BY <1>3, <3>2
    <3>3. CASE k \notin {m, n}
      BY <3>3
    <3> QED BY <3>1, <3>2, <3>3
  <2> QED BY <2>1, <2>2 DEF Flight
<1> QED BY <1>9, <1>10, <1>11

LEMMA ArrivesEnters ==
    ASSUME NEW l, NEW nd, Tables(nd), NEW m \in Node, NEW n \in Node \ {m}, NEW s, NEW t, NEW msg,
           Arrives(l, nd, m, n, s, t, msg), NEW nt, nt[n] = t, nt[m] = s,
           \A x \in Node \ {m, n} : nt[x] = nd[x], NEW p \in Node, NEW k \in Node \ {p}
    PROVE  Enters(nt, k, p)
             = Enters(nd, k, p) + (IF k = n /\ p = m /\ msg.id = "HELLO" THEN 1 ELSE 0)
<1> DEFINE z == Event("ENTER", p, Blank, Blank)
<1>1. nd[k] \in NodeState
  BY DEF Tables
<1>2. z \in Notice /\ z.type = "ENTER" /\ z.peer = p
  BY EnterType
<1>3. s.events = nd[m].events /\ Hears(nd[n], t, m, msg) /\ msg \in Message
  BY DEF Arrives
<1>4. Count(t.events, z) = Count(nd[n].events, z) + (IF z = Note(m, msg) THEN 1 ELSE 0)
  <2> HIDE DEF z
  <2> QED BY <1>2, <1>3 DEF Hears
<1>5. z = Note(m, msg) <=> p = m /\ msg.id = "HELLO"
  <2>1. CASE msg.id = "HELLO"
    <3>1. Note(m, msg) = Event("ENTER", m, Blank, Blank)
      BY <2>1 DEF Note
    <3> QED BY <2>1, <3>1 DEF Event
  <2>2. CASE msg.id # "HELLO"
    <3>1. Note(m, msg).type = msg.id /\ msg.id # "ENTER"
      BY <1>3, <2>2 DEF Note, Event, Message
    <3> QED BY <1>2, <2>2, <3>1
  <2> QED BY <2>1, <2>2
<1>6. Count(nd[k].events, z) \in Nat
  <2>1. nd[k].events \in Seq(Notice)
    BY <1>1 DEF NodeState
  <2> QED BY <2>1, CountFacts
<1>7. Enters(nt, k, p) = Count(nt[k].events, z) /\ Enters(nd, k, p) = Count(nd[k].events, z)
  BY DEF Enters
<1> HIDE DEF z
<1>8. CASE k = n
  BY <1>4, <1>5, <1>6, <1>7, <1>8
<1>9. CASE k = m
  BY <1>3, <1>6, <1>7, <1>9
<1>10. CASE k \notin {m, n}
  BY <1>6, <1>7, <1>10
<1> QED BY <1>8, <1>9, <1>10

-----------------------------------------------------------------------------
(* What perf_local counts on: a are its counters, R the remotes.           *)

RHello == Msg("WHISPER", Blank, "R:HELLO")
Ask(at) == Msg(at, Addressed(at), Question(at))
Reply(at) == Msg(at, Addressed(at), Answer(at))

\* The greeting that m owes to l or that l has not read.
Greeting(nd, l, m) == Enters(nd, m, l) + Flight(nd, m, l, RHello)
Welcome(nd, l, R) == {m \in R : l \in nd[m].ready /\ Greeting(nd, l, m) = 0}

\* Questions to m and its answers.
Load(nd, l, R, at) == [m \in R |-> Flight(nd, l, m, Ask(at)) + Flight(nd, m, l, Reply(at))]

Early == {"new", "join", "run"}
Whispers == {"WHISPER", "whispered"}
Shouts == {"SHOUT", "shouted"}

Greetings(nd, l, R, a) ==
    /\ \A m \in R :
        /\ Greeting(nd, l, m) <= 1
        /\ l \notin nd[m].ready => Greeting(nd, l, m) = 0
    /\ \A m \in Welcome(nd, l, R) : "GLOBAL" \in nd[l].member[m]
    /\ a.at \in Early => a.hello = Cardinality(Welcome(nd, l, R))
    /\ a.at \notin Early => Welcome(nd, l, R) = R

Counted(nd, l, R, a) ==
    /\ \A i \in 1 .. Len(a.peers) : a.peers[i] \in R /\ a.peers[i] \in nd[l].ready
    /\ a.at \notin Early => R # {} /\ Len(a.peers) = Cardinality(R)

Books(nd, l, R, a) ==
    /\ a.at \in Early =>
        /\ a.sent = 0 /\ a.got = 0
        /\ Total(Load(nd, l, R, "WHISPER")) = 0 /\ Total(Load(nd, l, R, "SHOUT")) = 0
    /\ a.at \in Whispers =>
        /\ a.got + Total(Load(nd, l, R, "WHISPER")) = a.sent
        /\ Total(Load(nd, l, R, "SHOUT")) = 0
    /\ a.at \in Shouts =>
        a.got + Total(Load(nd, l, R, "SHOUT")) = a.sent * Cardinality(R)

Tally(nd, l, R, a) ==
    /\ a.at \in Early \cup Whispers \cup Shouts
    /\ Greetings(nd, l, R, a) /\ Counted(nd, l, R, a) /\ Books(nd, l, R, a)

Scene(rl, nd, l, R) ==
    /\ l \in Node /\ rl[l] = "local" /\ R = {m \in Node : rl[m] = "remote"}
    /\ World(rl, nd) /\ Company(rl, l, nd)

LEMMA AskFacts ==
    ASSUME NEW at \in Talk
    PROVE  /\ Ask(at) \in Message /\ Ask(at).id = at
           /\ Reply(at) \in Message /\ Reply(at).id = at
           /\ RHello \in Message /\ RHello.id = "WHISPER"
<1>1. {"S:WHISPER", "S:SHOUT", "R:HELLO", "R:SHOUT", "R:WHISPER", Blank, "GLOBAL"} \subseteq Word
  BY Words DEF Groups
<1>2. \A id \in Talk : \A g, w \in Word : Msg(id, g, w) \in Message
  BY DEF Message, Msg, Talk
<1>3. Addressed(at) \in Word /\ Question(at) \in Word /\ Answer(at) \in Word
  BY <1>1 DEF Addressed, Question, Answer
<1>4. RHello \in Message
  BY <1>1, <1>2 DEF RHello, Talk
<1> QED BY <1>2, <1>3, <1>4 DEF Ask, Reply, Msg, RHello

LEMMA SceneFacts ==
    ASSUME NEW rl, NEW nd, NEW l, NEW R, Scene(rl, nd, l, R)
    PROVE  /\ R \subseteq Node \ {l} /\ l \in Node /\ IsFiniteSet(R) /\ Cardinality(R) \in Nat
           /\ Tables(nd) /\ Company(rl, l, nd)
           /\ \A x \in Node : nd[x] \in NodeState /\ Good(x, nd[x])
           /\ \A x \in Node : nd[x].peers \subseteq (R \cup {l}) \ {x}
<1>1. /\ l \in Node /\ rl[l] = "local" /\ R = {m \in Node : rl[m] = "remote"}
      /\ Tables(nd) /\ Company(rl, l, nd)
  BY DEF Scene, World
<1>2. R \subseteq Node \ {l}
  BY <1>1
<1>3. IsFiniteSet(R) /\ Cardinality(R) \in Nat
  BY <1>2, NodeFacts, FS_Subset, FS_CardinalityType
<1>4. \A x \in Node : nd[x] \in NodeState /\ Good(x, nd[x])
  BY <1>1 DEF Tables
<1>5. ASSUME NEW x \in Node, NEW k \in nd[x].peers PROVE k \in (R \cup {l}) \ {x}
  <2>1. k \in Node \ {x}
    BY <1>4, <1>5 DEF Good, NodeState
  <2>2. nd[k].state = "up"
    BY <1>1, <1>5, <2>1 DEF Company, Pair
  <2>3. rl[k] # "none"
    BY <1>1, <2>1, <2>2 DEF Company, Solo
  <2>4. k = l \/ rl[k] \in {"remote", "none"}
    BY <1>1, <2>1 DEF Company
  <2> QED BY <1>1, <2>1, <2>3, <2>4
<1> QED BY <1>1, <1>2, <1>3, <1>4, <1>5

\* All counts are natural numbers.
LEMMA Numbers ==
    ASSUME NEW rl, NEW nd, NEW l, NEW R, Scene(rl, nd, l, R)
    PROVE  /\ \A p, n \in Node, x \in Message : x.id \in Talk => Flight(nd, p, n, x) \in Nat
           /\ \A p, n \in Node : Enters(nd, n, p) \in Nat
           /\ \A m \in R : Greeting(nd, l, m) \in Nat
           /\ \A at \in Talk : Load(nd, l, R, at) \in [R -> Nat]
<1>1. R \subseteq Node /\ l \in Node /\ \A x \in Node : nd[x] \in NodeState
  BY SceneFacts
<1>2. \A p, n \in Node : nd[p].out[n] \in Seq(Message) /\ nd[n].events \in Seq(Notice)
  BY <1>1 DEF NodeState
<1>3. \A p, n \in Node, x \in Message : x.id \in Talk => Flight(nd, p, n, x) \in Nat
  <2>1. SUFFICES ASSUME NEW p \in Node, NEW n \in Node, NEW x \in Message PROVE Flight(nd, p, n, x) \in Nat
    OBVIOUS
  <2>2. Count(nd[p].out[n], x) \in Nat
    BY <1>2, CountFacts
  <2>3. Count(nd[n].events, Note(p, x)) \in Nat
    BY <1>2, CountFacts
  <2> QED BY <2>2, <2>3 DEF Flight
<1>4. \A p, n \in Node : Enters(nd, n, p) \in Nat
  BY <1>2, CountFacts DEF Enters
<1>5. \A m \in R : Greeting(nd, l, m) \in Nat
  <2>1. RHello \in Message /\ RHello.id \in Talk
    BY AskFacts DEF Talk
  <2>2. \A m \in R : Enters(nd, m, l) \in Nat /\ Flight(nd, m, l, RHello) \in Nat
    BY <1>1, <1>3, <1>4, <2>1
  <2> QED BY <2>2 DEF Greeting
<1>6. ASSUME NEW at \in Talk PROVE Load(nd, l, R, at) \in [R -> Nat]
  <2>1. \A m \in R : Flight(nd, l, m, Ask(at)) \in Nat /\ Flight(nd, m, l, Reply(at)) \in Nat
    BY <1>1, <1>3, AskFacts
  <2>2. \A m \in R : Flight(nd, l, m, Ask(at)) + Flight(nd, m, l, Reply(at)) \in Nat
    BY <2>1
  <2> QED BY <2>2 DEF Load
<1> QED BY <1>3, <1>4, <1>5, <1>6

-----------------------------------------------------------------------------
(* Steps perf_local does not count                                         *)

\* Nothing of what is counted has been made, taken or lost.
Still(nd, nt, l, R) ==
    /\ \A at \in Talk : Load(nt, l, R, at) = Load(nd, l, R, at)
    /\ \A m \in R :
        /\ \/ Greeting(nt, l, m) = Greeting(nd, l, m) /\ (l \in nt[m].ready <=> l \in nd[m].ready)
           \/ l \notin nd[m].ready /\ l \in nt[m].ready /\ Greeting(nt, l, m) = 1
        /\ "GLOBAL" \in nd[l].member[m] => "GLOBAL" \in nt[l].member[m]
        /\ m \in nd[l].ready => m \in nt[l].ready

\* The counters are the same, and the process is at the same stage.
Rests(a, b) ==
    /\ b.peers = a.peers /\ b.hello = a.hello /\ b.sent = a.sent /\ b.got = a.got
    /\ \/ b.at = a.at
       \/ \E stage \in {Early, Whispers, Shouts} : a.at \in stage /\ b.at \in stage

LEMMA StagesApart ==
    /\ Early \cap Whispers = {} /\ Early \cap Shouts = {} /\ Whispers \cap Shouts = {}
    /\ {"new", "join", "run"} \subseteq Early /\ {"WHISPER", "whispered"} \subseteq Whispers
    /\ {"SHOUT", "shouted"} \subseteq Shouts
<1> QED BY DEF Early, Whispers, Shouts

LEMMA StillTally ==
    ASSUME NEW nd, NEW nt, NEW l, NEW R, NEW a, NEW b, Still(nd, nt, l, R), Rests(a, b),
           \A m \in R : Greeting(nd, l, m) \in Nat, Tally(nd, l, R, a)
    PROVE  Tally(nt, l, R, b)
<1>1. /\ a.at \in Early \cup Whispers \cup Shouts
      /\ Greetings(nd, l, R, a) /\ Counted(nd, l, R, a) /\ Books(nd, l, R, a)
  BY DEF Tally
<1>2. /\ b.at \in Early \cup Whispers \cup Shouts
      /\ b.at \in Early <=> a.at \in Early
      /\ b.at \in Whispers <=> a.at \in Whispers
      /\ b.at \in Shouts <=> a.at \in Shouts
  BY <1>1, StagesApart DEF Rests
<1>3. b.peers = a.peers /\ b.hello = a.hello /\ b.sent = a.sent /\ b.got = a.got
  BY DEF Rests
<1>4. Welcome(nt, l, R) = Welcome(nd, l, R)
  <2>1. ASSUME NEW m \in R
        PROVE  l \in nt[m].ready /\ Greeting(nt, l, m) = 0
                 <=> l \in nd[m].ready /\ Greeting(nd, l, m) = 0
    BY DEF Still
  <2> QED BY <2>1 DEF Welcome
<1>5. Greetings(nt, l, R, b)
  <2>1. ASSUME NEW m \in R
        PROVE  Greeting(nt, l, m) <= 1 /\ (l \notin nt[m].ready => Greeting(nt, l, m) = 0)
    <3>1. Greeting(nd, l, m) <= 1 /\ (l \notin nd[m].ready => Greeting(nd, l, m) = 0)
      BY <1>1 DEF Greetings
    <3>2. CASE Greeting(nt, l, m) = Greeting(nd, l, m) /\ (l \in nt[m].ready <=> l \in nd[m].ready)
      BY <3>1, <3>2
    <3>3. CASE l \in nt[m].ready /\ Greeting(nt, l, m) = 1
      BY <3>3
    <3> QED BY <3>2, <3>3 DEF Still
  <2>2. \A m \in Welcome(nt, l, R) : "GLOBAL" \in nt[l].member[m]
    <3>1. \A m \in Welcome(nd, l, R) : m \in R /\ "GLOBAL" \in nd[l].member[m]
      BY <1>1 DEF Greetings, Welcome
    <3> QED BY <1>4, <3>1 DEF Still
  <2>3. /\ b.at \in Early => b.hello = Cardinality(Welcome(nt, l, R))
        /\ b.at \notin Early => Welcome(nt, l, R) = R
    BY <1>1, <1>2, <1>3, <1>4 DEF Greetings
  <2> QED BY <2>1, <2>2, <2>3 DEF Greetings
<1>6. Counted(nt, l, R, b)
  <2>1. \A i \in 1 .. Len(a.peers) : a.peers[i] \in R /\ a.peers[i] \in nt[l].ready
    BY <1>1 DEF Counted, Still
  <2>2. a.at \notin Early => R # {} /\ Len(a.peers) = Cardinality(R)
    BY <1>1 DEF Counted
  <2> QED BY <1>2, <1>3, <2>1, <2>2 DEF Counted
<1>7. Books(nt, l, R, b)
  <2>1. /\ Load(nt, l, R, "WHISPER") = Load(nd, l, R, "WHISPER")
        /\ Load(nt, l, R, "SHOUT") = Load(nd, l, R, "SHOUT")
    BY DEF Still, Talk
  <2> QED BY <1>1, <1>2, <1>3, <2>1 DEF Books
<1> QED BY <1>2, <1>5, <1>6, <1>7 DEF Tally

\* A step of x that neither takes an event nor talks.
Mumbles(s, t) ==
    /\ t \in NodeState /\ t.events = s.events /\ t.ready = s.ready /\ t.member = s.member
    /\ \A k \in Node : t.out[k] = s.out[k]
         \/ \E msg \in Message : msg.id \notin Talk /\ t.out[k] = Append(s.out[k], msg)

LEMMA QuietCount ==
    ASSUME NEW s \in NodeState, NEW t, Mumbles(s, t), NEW k \in Node, NEW x \in Message, x.id \in Talk
    PROVE  Count(t.out[k], x) = Count(s.out[k], x)
<1>1. CASE t.out[k] = s.out[k]
  BY <1>1
<1>2. ASSUME NEW msg \in Message, msg.id \notin Talk, t.out[k] = Append(s.out[k], msg)
      PROVE  Count(t.out[k], x) = Count(s.out[k], x)
  <2>1. s.out[k] \in Seq(Message)
    BY DEF NodeState
  <2>2. Count(Append(s.out[k], msg), x) = Count(s.out[k], x) + (IF msg = x THEN 1 ELSE 0)
    BY <2>1, CountAppend
  <2>3. Count(s.out[k], x) \in Nat
    BY <2>1, CountFacts
  <2>4. msg # x
    BY <1>2
  <2> QED BY <1>2, <2>2, <2>3, <2>4
<1> QED BY <1>1, <1>2 DEF Mumbles

LEMMA QuietStill ==
    ASSUME NEW rl, NEW nd, NEW l, NEW R, Scene(rl, nd, l, R), NEW x \in Node, NEW t,
           Mumbles(nd[x], t), NEW nt, nt = [nd EXCEPT ![x] = t]
    PROVE  Still(nd, nt, l, R)
<1>1. /\ R \subseteq Node \ {l} /\ l \in Node /\ \A y \in Node : nd[y] \in NodeState
  BY SceneFacts
<1>2. nd \in [Node -> NodeState]
  BY SceneFacts DEF Tables
<1>3. nt[x] = t /\ \A y \in Node \ {x} : nt[y] = nd[y]
  BY <1>2
<1>4. \A y \in Node : /\ nt[y].events = nd[y].events /\ nt[y].ready = nd[y].ready
                      /\ nt[y].member = nd[y].member
  BY <1>3 DEF Mumbles
<1>5. ASSUME NEW p \in Node, NEW n \in Node, NEW z \in Message, z.id \in Talk
      PROVE  Flight(nt, p, n, z) = Flight(nd, p, n, z)
  <2>1. Count(nt[p].out[n], z) = Count(nd[p].out[n], z)
    <3>1. CASE p = x
      <4>1. Count(t.out[n], z) = Count(nd[x].out[n], z)
        BY <1>1, <1>5, QuietCount
      <4> QED BY <1>3, <3>1, <4>1
    <3> QED BY <1>3, <3>1
  <2> QED BY <1>4, <2>1 DEF Flight
<1>6. \A at \in Talk : Load(nt, l, R, at) = Load(nd, l, R, at)
  <2>1. SUFFICES ASSUME NEW at \in Talk PROVE Load(nt, l, R, at) = Load(nd, l, R, at)
    OBVIOUS
  <2>2. \A m \in R : /\ Flight(nt, l, m, Ask(at)) = Flight(nd, l, m, Ask(at))
                     /\ Flight(nt, m, l, Reply(at)) = Flight(nd, m, l, Reply(at))
    BY <1>1, <1>5, AskFacts
  <2> QED BY <2>2 DEF Load
<1>7. \A m \in R : Greeting(nt, l, m) = Greeting(nd, l, m)
  <2>1. RHello \in Message /\ RHello.id \in Talk
    BY AskFacts DEF Talk
  <2>2. \A m \in R : Flight(nt, m, l, RHello) = Flight(nd, m, l, RHello)
    BY <1>1, <1>5, <2>1
  <2>3. \A m \in R : Enters(nt, m, l) = Enters(nd, m, l)
    BY <1>1, <1>4 DEF Enters
  <2> QED BY <2>2, <2>3 DEF Greeting
<1> QED BY <1>1, <1>4, <1>6, <1>7 DEF Still

\* A message arrives: what was on the way waits to be read, and a HELLO of l
\* makes a remote owe it a greeting.
LEMMA ArrivesStill ==
    ASSUME NEW rl, NEW nd, NEW l, NEW R, Scene(rl, nd, l, R), NEW m \in Node,
           NEW n \in Node \ {m}, nd[m].out[n] # <<>>,
           NEW s, NEW t, NEW nt, Delivers(nd, m, n, s, t, nt), NEW a, Greetings(nd, l, R, a)
    PROVE  Still(nd, nt, l, R)
<1>1. /\ R \subseteq Node \ {l} /\ l \in Node /\ Tables(nd) /\ Company(rl, l, nd)
      /\ \A y \in Node : nd[y] \in NodeState
  BY SceneFacts
<1> DEFINE msg == Head(nd[m].out[n])
<1>2. Arrives(l, nd, m, n, s, t, msg)
  BY <1>1, Arrival
<1> HIDE DEF msg
<1>3. nt[n] = t /\ nt[m] = s /\ \A x \in Node \ {m, n} : nt[x] = nd[x]
  BY DEF Delivers
<1>4. \A p \in Node : \A k \in Node \ {p} : \A x \in Message :
        x.id \in Talk => Flight(nt, p, k, x) = Flight(nd, p, k, x)
  BY <1>1, <1>2, <1>3, ArrivesFlight
<1>5. \A p \in Node : \A k \in Node \ {p} :
        Enters(nt, k, p)
          = Enters(nd, k, p) + (IF k = n /\ p = m /\ msg.id = "HELLO" THEN 1 ELSE 0)
  BY <1>1, <1>2, <1>3, ArrivesEnters
<1>6. /\ Hears(nd[n], t, m, msg) /\ Alike(nd[m], s)
      /\ \/ msg.id = "HELLO" /\ m \notin nd[n].ready
         \/ msg \in Said(l, m, n) /\ m \in nd[n].ready
  BY <1>2 DEF Arrives
<1>7. /\ nt[n].ready = nd[n].ready \cup {m} /\ \A k \in Node : nd[n].member[k] \subseteq nt[n].member[k]
      /\ \A x \in Node \ {n} : nt[x].ready = nd[x].ready /\ nt[x].member = nd[x].member
  BY <1>3, <1>6 DEF Hears, Alike
<1>8. \A at \in Talk : Load(nt, l, R, at) = Load(nd, l, R, at)
  <2>1. SUFFICES ASSUME NEW at \in Talk PROVE Load(nt, l, R, at) = Load(nd, l, R, at)
    OBVIOUS
  <2>2. \A k \in R : /\ Flight(nt, l, k, Ask(at)) = Flight(nd, l, k, Ask(at))
                     /\ Flight(nt, k, l, Reply(at)) = Flight(nd, k, l, Reply(at))
    BY <1>1, <1>4, AskFacts
  <2> QED BY <2>2 DEF Load
<1>9. ASSUME NEW k \in R
      PROVE  \/ Greeting(nt, l, k) = Greeting(nd, l, k) /\ (l \in nt[k].ready <=> l \in nd[k].ready)
             \/ l \notin nd[k].ready /\ l \in nt[k].ready /\ Greeting(nt, l, k) = 1
  <2>1. Flight(nt, k, l, RHello) = Flight(nd, k, l, RHello)
    <3>1. RHello \in Message /\ RHello.id \in Talk
      BY AskFacts DEF Talk
    <3> QED BY <1>1, <1>4, <3>1
  <2>2. Enters(nt, k, l) = Enters(nd, k, l) + (IF k = n /\ l = m /\ msg.id = "HELLO" THEN 1 ELSE 0)
    BY <1>1, <1>5
  <2>3. /\ Enters(nd, k, l) \in Nat /\ Flight(nd, k, l, RHello) \in Nat
    <3>1. RHello \in Message /\ RHello.id \in Talk
      BY AskFacts DEF Talk
    <3> QED BY <1>1, <3>1, Numbers
  <2>4. CASE k = n /\ l = m /\ msg.id = "HELLO"
    <3>1. l \notin nd[k].ready /\ l \in nt[k].ready
      <4>1. ~(msg \in Said(l, m, n))
        BY <2>4, SaidFacts
      <4> QED BY <1>6, <1>7, <2>4, <4>1
    <3>2. Greeting(nd, l, k) = 0
      BY <3>1 DEF Greetings
    <3>3. Greeting(nt, l, k) = Greeting(nd, l, k) + 1
      BY <2>1, <2>2, <2>3, <2>4 DEF Greeting
    <3> QED BY <3>1, <3>2, <3>3
  <2>5. CASE ~(k = n /\ l = m /\ msg.id = "HELLO")
    <3>1. Greeting(nt, l, k) = Greeting(nd, l, k)
      BY <2>1, <2>2, <2>3, <2>5 DEF Greeting
    <3>2. l \in nt[k].ready <=> l \in nd[k].ready
      <4>1. CASE k = n /\ l = m
        BY <1>6, <1>7, <2>5, <4>1
      <4>2. CASE k = n /\ l # m
        BY <1>7, <4>2
      <4>3. CASE k # n
        BY <1>1, <1>7, <4>3
      <4> QED BY <4>1, <4>2, <4>3
    <3> QED BY <3>1, <3>2
  <2> QED BY <2>4, <2>5
<1>10. ASSUME NEW k \in R
       PROVE  /\ "GLOBAL" \in nd[l].member[k] => "GLOBAL" \in nt[l].member[k]
              /\ k \in nd[l].ready => k \in nt[l].ready
  <2>1. CASE l = n
    BY <1>1, <1>7, <2>1
  <2>2. CASE l # n
    BY <1>1, <1>7, <2>2
  <2> QED BY <2>1, <2>2
<1> QED BY <1>8, <1>9, <1>10 DEF Still

-----------------------------------------------------------------------------
(* perf_remote takes an event                                              *)

\* Who an event of this company is from, and what it may be.
LEMMA FirstFacts ==
    ASSUME NEW rl, NEW nd, NEW l, NEW R, Scene(rl, nd, l, R), NEW x \in Node,
           nd[x].events # <<>>, NEW e, e = Head(nd[x].events)
    PROVE  /\ e \in Notice /\ e.peer \in (R \cup {l}) \ {x} /\ e.peer \in nd[x].ready
           /\ e.peer \in nd[x].peers
           /\ \/ Appears(e, e.peer)
              \/ \E msg \in Said(l, e.peer, x) : e = Note(e.peer, msg)
<1>1. /\ nd[x] \in NodeState /\ Good(x, nd[x]) /\ Company(rl, l, nd)
      /\ nd[x].peers \subseteq (R \cup {l}) \ {x} /\ R \subseteq Node /\ l \in Node
  BY SceneFacts
<1>2. /\ nd[x].events \in Seq(Notice) /\ e = nd[x].events[1] /\ 1 \in 1 .. Len(nd[x].events)
  <2>1. nd[x].events \in Seq(Notice)
    BY <1>1 DEF NodeState
  <2> QED BY <2>1
<1>3. e \in Notice
  BY <1>2
<1>4. e.peer \in nd[x].ready
  BY <1>1, <1>2 DEF Company, Solo
<1>5. e.peer \in nd[x].peers
  BY <1>1, <1>4 DEF Good
<1>6. e.peer \in Node /\ x \in Node \ {e.peer} /\ e.peer \in (R \cup {l}) \ {x}
  BY <1>1, <1>5
<1>7. Pair(l, e.peer, x, nd[e.peer], nd[x])
  BY <1>1, <1>6 DEF Company
<1>8. \/ Appears(e, e.peer)
      \/ \E msg \in Said(l, e.peer, x) : e = Note(e.peer, msg)
  BY <1>2, <1>7 DEF Pair
<1> QED BY <1>3, <1>4, <1>5, <1>6, <1>8

\* A client with node s takes the events in E, one at most, and says msg to S.
Speaks(s, t, E, S, msg) ==
    /\ t \in NodeState /\ Alike(s, t)
    /\ \A k \in Node : t.out[k] = IF k \in S THEN Append(s.out[k], msg) ELSE s.out[k]
    /\ \/ E = {} /\ t.events = s.events
       \/ s.events # <<>> /\ E = {Head(s.events)} /\ t.events = Tail(s.events)

LEMMA PutSpeaks ==
    ASSUME NEW s \in NodeState, NEW S, NEW msg \in Message
    PROVE  /\ Speaks(s, Put(s, S, msg), {}, S, msg)
           /\ Speaks(s, s, {}, {}, msg)
           /\ s.events # <<>> => Speaks(s, Put(Taken(s), S, msg), {Head(s.events)}, S, msg)
           /\ s.events # <<>> => Speaks(s, Taken(s), {Head(s.events)}, {}, msg)
<1>1. /\ Put(s, S, msg) \in NodeState /\ Alike(s, Put(s, S, msg)) /\ Put(s, S, msg).events = s.events
      /\ \A m \in Node : Put(s, S, msg).out[m] = IF m \in S THEN Append(s.out[m], msg) ELSE s.out[m]
  BY PutFacts
<1>2. Speaks(s, Put(s, S, msg), {}, S, msg)
  BY <1>1 DEF Speaks
<1>3. Speaks(s, s, {}, {}, msg)
  BY DEF Speaks, Alike
<1>4. ASSUME s.events # <<>>
      PROVE  /\ Speaks(s, Put(Taken(s), S, msg), {Head(s.events)}, S, msg)
             /\ Speaks(s, Taken(s), {Head(s.events)}, {}, msg)
  <2>1. PICK u : u = Taken(s)
    OBVIOUS
  <2>2. u \in NodeState /\ Alike(s, u) /\ u.out = s.out /\ u.events = Tail(s.events)
    BY <1>4, <2>1, TakenFacts
  <2>3. PICK t : t = Put(u, S, msg)
    OBVIOUS
  <2>4. /\ t \in NodeState /\ Alike(u, t) /\ t.events = u.events
        /\ \A m \in Node : t.out[m] = IF m \in S THEN Append(u.out[m], msg) ELSE u.out[m]
    BY <2>2, <2>3, PutFacts
  <2>5. Alike(s, t)
    BY <2>2, <2>4 DEF Alike
  <2>6. Speaks(s, t, {Head(s.events)}, S, msg)
    BY <1>4, <2>2, <2>4, <2>5 DEF Speaks
  <2>7. Speaks(s, u, {Head(s.events)}, {}, msg)
    BY <1>4, <2>2 DEF Speaks
  <2> QED BY <2>1, <2>3, <2>6, <2>7
<1> QED BY <1>2, <1>3, <1>4

LEMMA SpeaksStep ==
    ASSUME NEW rl, NEW nd, NEW l, NEW R, Scene(rl, nd, l, R), NEW x \in Node, NEW t, NEW E, NEW S,
           NEW msg, Speaks(nd[x], t, E, S, msg), S \subseteq nd[x].peers,
           \A k \in S : msg \in Said(l, x, k)
    PROVE  OneStep(rl, l, nd, x, t)
<1>1. Company(rl, l, nd) /\ nd[x] \in NodeState
  BY SceneFacts
<1>2. /\ t \in NodeState /\ Alike(nd[x], t)
      /\ \A k \in Node : t.out[k] = IF k \in S THEN Append(nd[x].out[k], msg) ELSE nd[x].out[k]
  BY DEF Speaks
<1>3. \A j \in 1 .. Len(t.events) : \E i \in 1 .. Len(nd[x].events) : nd[x].events[i] = t.events[j]
  <2>1. CASE t.events = nd[x].events
    BY <2>1
  <2>2. CASE nd[x].events # <<>> /\ t.events = Tail(nd[x].events)
    <3> DEFINE q == nd[x].events
    <3>1. q \in Seq(Notice)
      BY <1>1 DEF NodeState
    <3>2. q # <<>> /\ t.events = Tail(q)
      BY <2>2
    <3> HIDE DEF q
    <3>3. \A j \in 1 .. Len(Tail(q)) : j + 1 \in 1 .. Len(q) /\ Tail(q)[j] = q[j + 1]
      BY <3>1, <3>2
    <3>4. \A j \in 1 .. Len(t.events) : \E i \in 1 .. Len(q) : q[i] = t.events[j]
      BY <3>2, <3>3
    <3> QED BY <3>4 DEF q
  <2> QED BY <2>1, <2>2 DEF Speaks
<1>4. Solo(rl[x], t)
  <2>1. Solo(rl[x], nd[x])
    BY <1>1 DEF Company
  <2>2. \A j \in 1 .. Len(t.events) : t.events[j].peer \in t.ready
    BY <1>2, <1>3, <2>1 DEF Solo, Alike
  <2> QED BY <1>2, <2>1, <2>2 DEF Solo, Alike
<1>5. ASSUME NEW k \in Node \ {x} PROVE Utters(l, x, k, nd[x], t, nd[k])
  <2>1. t.peers = nd[x].peers
    BY <1>2 DEF Alike
  <2>2. CASE k \in S
    BY <1>2, <2>1, <2>2 DEF Utters
  <2>3. CASE k \notin S
    BY <1>2, <2>1, <2>3 DEF Utters
  <2> QED BY <2>2, <2>3
<1>6. ASSUME NEW p \in Node \ {x} PROVE Nothing(nd[x], t, p)
  BY <1>2, <1>3 DEF Nothing, Alike
<1> QED BY <1>2, <1>4, <1>5, <1>6 DEF OneStep

\* What is under way when x has taken an event and talked.
Flows(nd, nt, x, E, S, msg) ==
    /\ \A p \in Node, k \in Node, y \in Message :
         p # k /\ y.id \in Talk => Flight(nt, p, k, y)
           = Flight(nd, p, k, y) + (IF p = x /\ k \in S /\ msg = y THEN 1 ELSE 0)
                                 - (IF k = x /\ Note(p, y) \in E THEN 1 ELSE 0)
    /\ \A p \in Node, k \in Node : Enters(nt, k, p)
         = Enters(nd, k, p) - (IF k = x /\ Event("ENTER", p, Blank, Blank) \in E THEN 1 ELSE 0)

LEMMA SpeaksFlight ==
    ASSUME NEW rl, NEW nd, NEW l, NEW R, Scene(rl, nd, l, R), NEW x \in Node, NEW t, NEW E, NEW S,
           NEW msg \in Message, Speaks(nd[x], t, E, S, msg), NEW nt, nt = [nd EXCEPT ![x] = t]
    PROVE  Flows(nd, nt, x, E, S, msg)
<1>1. nd \in [Node -> NodeState] /\ nd[x] \in NodeState
  BY SceneFacts DEF Tables
<1>2. nt[x] = t /\ \A y \in Node \ {x} : nt[y] = nd[y]
  BY <1>1
<1>3. \A k \in Node, y \in Message :
        Count(t.out[k], y) = Count(nd[x].out[k], y) + (IF k \in S /\ msg = y THEN 1 ELSE 0)
  <2>1. SUFFICES ASSUME NEW k \in Node, NEW y \in Message
                 PROVE  Count(t.out[k], y) = Count(nd[x].out[k], y) + (IF k \in S /\ msg = y THEN 1 ELSE 0)
    OBVIOUS
  <2>2. t.out[k] = IF k \in S THEN Append(nd[x].out[k], msg) ELSE nd[x].out[k]
    BY DEF Speaks
  <2>3. nd[x].out[k] \in Seq(Message)
    BY <1>1 DEF NodeState
  <2>4. Count(nd[x].out[k], y) \in Nat
    BY <2>3, CountFacts
  <2>5. Count(Append(nd[x].out[k], msg), y) = Count(nd[x].out[k], y) + (IF msg = y THEN 1 ELSE 0)
    BY <2>3, CountAppend
  <2>6. CASE k \in S
    BY <2>2, <2>5, <2>6
  <2>7. CASE k \notin S
    BY <2>2, <2>4, <2>7
  <2> QED BY <2>6, <2>7
<1>4. \A z : Count(t.events, z) = Count(nd[x].events, z) - (IF z \in E THEN 1 ELSE 0)
  <2>1. SUFFICES ASSUME NEW z
                 PROVE  Count(t.events, z) = Count(nd[x].events, z) - (IF z \in E THEN 1 ELSE 0)
    OBVIOUS
  <2>2. nd[x].events \in Seq(Notice)
    BY <1>1 DEF NodeState
  <2>3. Count(nd[x].events, z) \in Nat
    BY <2>2, CountFacts
  <2>4. CASE E = {} /\ t.events = nd[x].events
    BY <2>3, <2>4
  <2>5. CASE nd[x].events # <<>> /\ E = {Head(nd[x].events)} /\ t.events = Tail(nd[x].events)
    <3>1. Count(Tail(nd[x].events), z)
            = Count(nd[x].events, z) - (IF Head(nd[x].events) = z THEN 1 ELSE 0)
      BY <2>2, <2>5, CountTail
    <3>2. z \in E <=> Head(nd[x].events) = z
      BY <2>5
    <3> QED BY <2>5, <3>1, <3>2
  <2> QED BY <2>4, <2>5 DEF Speaks
<1>5. \A n \in Node : \A z : Count(nd[n].events, z) \in Nat
  BY SceneFacts, CountFacts DEF NodeState
<1>6. \A p, k \in Node : \A z : Count(nd[p].out[k], z) \in Nat
  <2>1. \A p, k \in Node : nd[p].out[k] \in Seq(Message)
    BY SceneFacts DEF NodeState
  <2> QED BY <2>1, CountFacts
<1>7. ASSUME NEW p \in Node, NEW k \in Node, NEW y \in Message, p # k
      PROVE  Flight(nt, p, k, y)
               = Flight(nd, p, k, y) + (IF p = x /\ k \in S /\ msg = y THEN 1 ELSE 0)
                                     - (IF k = x /\ Note(p, y) \in E THEN 1 ELSE 0)
  <2>1. PICK z : z = Note(p, y)
    OBVIOUS
  <2>2. /\ Flight(nt, p, k, y) = Count(nt[p].out[k], y) + Count(nt[k].events, z)
        /\ Flight(nd, p, k, y) = Count(nd[p].out[k], y) + Count(nd[k].events, z)
    BY <2>1 DEF Flight
  <2>3. Count(nd[p].out[k], y) \in Nat /\ Count(nd[k].events, z) \in Nat
    BY <1>5, <1>6
  <2>4. CASE p = x
    <3>1. Count(nt[p].out[k], y) = Count(nd[p].out[k], y) + (IF k \in S /\ msg = y THEN 1 ELSE 0)
      BY <1>2, <1>3, <2>4
    <3>2. Count(nt[k].events, z) = Count(nd[k].events, z)
      BY <1>2, <1>7, <2>4
    <3> QED BY <1>7, <2>1, <2>2, <2>3, <2>4, <3>1, <3>2
  <2>5. CASE k = x
    <3>1. Count(nt[p].out[k], y) = Count(nd[p].out[k], y)
      BY <1>2, <1>7, <2>5
    <3>2. Count(nt[k].events, z) = Count(nd[k].events, z) - (IF z \in E THEN 1 ELSE 0)
      BY <1>2, <1>4, <2>5
    <3> QED BY <1>7, <2>1, <2>2, <2>3, <2>5, <3>1, <3>2
  <2>6. CASE p # x /\ k # x
    <3>1. Count(nt[p].out[k], y) = Count(nd[p].out[k], y) /\ Count(nt[k].events, z) = Count(nd[k].events, z)
      BY <1>2, <2>6
    <3> QED BY <2>2, <2>3, <2>6, <3>1
  <2> QED BY <2>4, <2>5, <2>6
<1>8. ASSUME NEW p \in Node, NEW k \in Node
      PROVE  Enters(nt, k, p)
               = Enters(nd, k, p) - (IF k = x /\ Event("ENTER", p, Blank, Blank) \in E THEN 1 ELSE 0)
  <2>1. PICK z : z = Event("ENTER", p, Blank, Blank)
    OBVIOUS
  <2>2. Enters(nt, k, p) = Count(nt[k].events, z) /\ Enters(nd, k, p) = Count(nd[k].events, z)
    BY <2>1 DEF Enters
  <2>3. CASE k = x
    BY <1>2, <1>4, <2>1, <2>2, <2>3
  <2>4. CASE k # x
    BY <1>2, <1>5, <2>2, <2>4
  <2> QED BY <2>3, <2>4
<1> QED BY <1>7, <1>8 DEF Flows

\* What perf_remote does with event e.
Answered(s, t, l, e) ==
    \/ e = Event("ENTER", l, Blank, Blank) /\ Speaks(s, t, {e}, {l}, RHello) /\ l \in s.peers
    \/ /\ e.type = "ENTER" /\ e.peer # l /\ e.peer \in s.peers
       /\ Speaks(s, t, {e}, {e.peer}, RHello)
    \/ /\ e = Note(l, Ask("WHISPER")) /\ l \in s.peers
       /\ Speaks(s, t, {e}, {l}, Reply("WHISPER"))
    \/ /\ e = Note(l, Ask("SHOUT"))
       /\ \E S \in SUBSET s.peers : l \in S /\ Speaks(s, t, {e}, S, Reply("SHOUT"))
    \/ /\ e.type # "ENTER" /\ \A at \in Talk : e # Note(l, Ask(at))
       /\ Speaks(s, t, {e}, {}, RHello)

\* The members of GLOBAL, l among them if it talks.
LEMMA MembersHear ==
    ASSUME NEW rl, NEW nd, NEW l, NEW R, Scene(rl, nd, l, R), NEW x \in Node, NEW p \in Node \ {x},
           rl[p] \in Speaker, nd[x].events # <<>>, Head(nd[x].events).type \in Talk,
           Head(nd[x].events).peer = p
    PROVE  p \in InGroup(nd[x], "GLOBAL")
<1>1. Channel(nd[p], nd[x], p, x)
  BY DEF Scene, World, Channels
<1>2. nd[x] \in NodeState /\ Good(x, nd[x])
  BY SceneFacts
<1>3. nd[x].events[1] = Head(nd[x].events) /\ 1 \in 1 .. Len(nd[x].events)
  <2>1. nd[x].events \in Seq(Notice)
    BY <1>2 DEF NodeState
  <2> QED BY <2>1
<1>4. Heard(nd[x], p, Talk)
  BY <1>3 DEF Heard
<1>5. Greeted(nd[x], p)
  BY <1>1, <1>4 DEF Channel
<1>6. p \in nd[x].ready
  <2>1. Head(nd[x].events).peer \in nd[x].ready
    BY FirstFacts
  <2> QED BY <2>1
<1> QED BY <1>5, <1>6 DEF Greeted, InGroup

LEMMA GroupPeers ==
    ASSUME NEW n \in Node, NEW s, Good(n, s)
    PROVE  InGroup(s, "GLOBAL") \subseteq s.peers
<1> QED BY DEF InGroup, Good

LEMMA RemoteAnswers ==
    ASSUME NEW rl, NEW nd, NEW l, NEW R, Scene(rl, nd, l, R), NEW x \in R, nd[x].events # <<>>,
           NEW t, t = RemoteAnswer(Taken(nd[x]), Head(nd[x].events))
    PROVE  Answered(nd[x], t, l, Head(nd[x].events))
<1>1. PICK e : e = Head(nd[x].events)
  OBVIOUS
<1>2. PICK s : s = nd[x]
  OBVIOUS
<1>3. /\ x \in Node /\ x # l /\ l \in Node /\ rl[l] = "local" /\ s \in NodeState /\ Good(x, s)
  BY <1>2, SceneFacts DEF Scene
<1>4. /\ e \in Notice /\ e.peer \in (R \cup {l}) \ {x} /\ e.peer \in s.peers
      /\ \/ Appears(e, e.peer)
         \/ \E msg \in Said(l, e.peer, x) : e = Note(e.peer, msg)
  BY <1>1, <1>2, <1>3, FirstFacts
<1>5. /\ Ask("WHISPER") = Msg("WHISPER", Blank, "S:WHISPER")
      /\ Ask("SHOUT") = Msg("SHOUT", "GLOBAL", "S:SHOUT")
      /\ Reply("WHISPER") = Msg("WHISPER", Blank, "R:WHISPER")
      /\ Reply("SHOUT") = Msg("SHOUT", "GLOBAL", "R:SHOUT")
  BY DEF Ask, Reply, Question, Answer, Addressed
<1>6. /\ RHello \in Message /\ \A at \in Talk : Reply(at) \in Message
  BY AskFacts DEF Talk
<1>7. t = RemoteAnswer(Taken(s), e) /\ s.events # <<>> /\ e = Head(s.events)
  BY <1>1, <1>2
<1>8. PICK u : u = Taken(s)
  OBVIOUS
<1>9. u.peers = s.peers /\ u.member = s.member
  BY <1>3, <1>7, <1>8, TakenFacts DEF Alike
<1>10. InGroup(u, "GLOBAL") = InGroup(s, "GLOBAL") /\ InGroup(s, "GLOBAL") \subseteq s.peers
  BY <1>3, <1>9, GroupPeers DEF InGroup
<1>11. /\ \A k, text : Whisper(u, k, text) = Put(u, s.peers \cap {k}, Msg("WHISPER", Blank, text))
       /\ \A text : Shout(u, "GLOBAL", text)
                      = Put(u, InGroup(s, "GLOBAL"), Msg("SHOUT", "GLOBAL", text))
  BY <1>9, <1>10 DEF Whisper, Shout
<1>12. \A S, msg : msg \in Message => Speaks(s, Put(u, S, msg), {e}, S, msg)
  BY <1>3, <1>7, <1>8, PutSpeaks
<1>13. Speaks(s, u, {e}, {}, RHello)
  BY <1>3, <1>6, <1>7, <1>8, PutSpeaks
<1>14. CASE e.type = "ENTER" /\ Appears(e, e.peer)
  <2>1. e = Event("ENTER", e.peer, Blank, Blank)
    BY <1>14 DEF Appears
  <2>2. t = Put(u, s.peers \cap {e.peer}, RHello)
    BY <1>7, <1>8, <1>11, <1>14 DEF RemoteAnswer, RHello
  <2>3. s.peers \cap {e.peer} = {e.peer}
    BY <1>4
  <2>4. Speaks(s, t, {e}, {e.peer}, RHello)
    BY <1>6, <1>12, <2>2, <2>3
  <2>5. CASE e.peer = l
    <3>1. e = Event("ENTER", l, Blank, Blank) /\ l \in s.peers /\ Speaks(s, t, {e}, {l}, RHello)
      BY <1>4, <2>1, <2>4, <2>5
    <3> QED BY <1>1, <1>2, <3>1 DEF Answered
  <2>6. CASE e.peer # l
    <3>1. Answered(s, t, l, e)
      BY <1>4, <1>14, <2>4, <2>6 DEF Answered
    <3> QED BY <1>1, <1>2, <3>1
  <2> QED BY <2>5, <2>6
<1>15. CASE e = Note(l, Ask("WHISPER"))
  <2>1. e.type = "WHISPER" /\ e.text = "S:WHISPER" /\ e.peer = l
    BY <1>5, <1>15 DEF Note, Event, Msg
  <2>2. t = Put(u, s.peers \cap {l}, Reply("WHISPER"))
    BY <1>5, <1>7, <1>8, <1>11, <2>1 DEF RemoteAnswer
  <2>3. s.peers \cap {l} = {l} /\ l \in s.peers
    BY <1>4, <2>1
  <2>4. Speaks(s, t, {e}, {l}, Reply("WHISPER"))
    BY <1>6, <1>12, <2>2, <2>3 DEF Talk
  <2>5. Answered(s, t, l, e)
    BY <1>15, <2>3, <2>4 DEF Answered
  <2> QED BY <1>1, <1>2, <2>5
<1>16. CASE e = Note(l, Ask("SHOUT"))
  <2>1. e.type = "SHOUT" /\ e.text = "S:SHOUT" /\ e.peer = l /\ e.group = "GLOBAL"
    BY <1>5, <1>16 DEF Note, Event, Msg
  <2>2. t = Put(u, InGroup(s, "GLOBAL"), Reply("SHOUT"))
    BY <1>5, <1>7, <1>8, <1>11, <2>1 DEF RemoteAnswer
  <2>3. l \in InGroup(s, "GLOBAL")
    <3>1. rl[l] \in Speaker
      BY <1>3 DEF Speaker
    <3>2. Head(nd[x].events).type \in Talk /\ Head(nd[x].events).peer = l /\ nd[x].events # <<>>
      BY <1>1, <2>1 DEF Talk
    <3>3. l \in InGroup(nd[x], "GLOBAL")
      BY <1>3, <3>1, <3>2, MembersHear
    <3> QED BY <1>2, <3>3
  <2>4. Speaks(s, t, {e}, InGroup(s, "GLOBAL"), Reply("SHOUT"))
    BY <1>6, <1>12, <2>2 DEF Talk
  <2>5. \E S \in SUBSET s.peers : l \in S /\ Speaks(s, t, {e}, S, Reply("SHOUT"))
    BY <1>10, <2>3, <2>4
  <2>6. Answered(s, t, l, e)
    BY <1>16, <2>5 DEF Answered
  <2> QED BY <1>1, <1>2, <2>6
<1>17. ASSUME e.type # "ENTER", \A at \in Talk : e # Note(l, Ask(at))
       PROVE  Answered(nd[x], t, l, Head(nd[x].events))
  <2>1. /\ ~(e.type = "WHISPER" /\ e.text = "S:WHISPER")
        /\ ~(e.type = "SHOUT" /\ e.text = "S:SHOUT")
    <3>1. CASE Appears(e, e.peer)
      <4>1. e.type = "JOIN"
        BY <1>17, <3>1 DEF Appears, Event
      <4> QED BY <4>1
    <3>2. ASSUME NEW msg \in Said(l, e.peer, x), e = Note(e.peer, msg)
          PROVE  /\ ~(e.type = "WHISPER" /\ e.text = "S:WHISPER")
                 /\ ~(e.type = "SHOUT" /\ e.text = "S:SHOUT")
      <4>1. msg.id # "HELLO"
        BY SaidFacts
      <4>2. e.type = msg.id /\ e.text = msg.text
        BY <3>2, <4>1 DEF Note, Event
      <4>3. e.peer = l => msg # Ask("WHISPER") /\ msg # Ask("SHOUT")
        BY <1>17, <3>2 DEF Talk
      <4>4. CASE e.peer = l
        <5>1. msg = Msg("JOIN", "GLOBAL", Blank)
          BY <1>3, <1>5, <4>3, <4>4 DEF Said
        <5> QED BY <4>2, <5>1 DEF Msg
      <4>5. CASE e.peer # l
        <5>1. msg \in {Msg("JOIN", "GLOBAL", Blank), Msg("WHISPER", Blank, "R:HELLO"),
                       Msg("SHOUT", "GLOBAL", "R:SHOUT")}
          BY <1>3, <4>5 DEF Said
        <5> QED BY <4>2, <5>1 DEF Msg
      <4> QED BY <4>4, <4>5
    <3> QED BY <1>4, <3>1, <3>2
  <2>2. t = u
    BY <1>7, <1>8, <1>17, <2>1 DEF RemoteAnswer
  <2>3. Answered(s, t, l, e)
    BY <1>13, <1>17, <2>2 DEF Answered
  <2> QED BY <1>1, <1>2, <2>3
<1>18. e.type = "ENTER" => Appears(e, e.peer)
  <2>1. ASSUME NEW msg \in Said(l, e.peer, x), e = Note(e.peer, msg) PROVE e.type # "ENTER"
    <3>1. msg.id \in {"JOIN", "WHISPER", "SHOUT"}
      BY SaidFacts
    <3> QED BY <2>1, <3>1 DEF Note, Event
  <2> QED BY <1>4, <2>1
<1> QED BY <1>14, <1>15, <1>16, <1>17, <1>18 DEF Talk

\* Notes and messages that differ.
LEMMA Differ ==
    ASSUME NEW l \in Node
    PROVE  /\ Ask("WHISPER") # Ask("SHOUT") /\ Reply("WHISPER") # Reply("SHOUT")
           /\ RHello # Reply("WHISPER") /\ RHello # Reply("SHOUT")
           /\ RHello # Ask("WHISPER") /\ RHello # Ask("SHOUT")
           /\ \A at, ta \in Talk : Ask(at) # Reply(ta)
           /\ \A y \in Message : y.id \in Talk => Note(l, y) # Event("ENTER", l, Blank, Blank)
           /\ \A m \in Node, x, y \in Message : x.id \in Talk =>
                (Note(l, x) = Note(m, y) <=> l = m /\ x = y)
<1>1. /\ Ask("WHISPER") = Msg("WHISPER", Blank, "S:WHISPER")
      /\ Ask("SHOUT") = Msg("SHOUT", "GLOBAL", "S:SHOUT")
      /\ Reply("WHISPER") = Msg("WHISPER", Blank, "R:WHISPER")
      /\ Reply("SHOUT") = Msg("SHOUT", "GLOBAL", "R:SHOUT")
      /\ RHello = Msg("WHISPER", Blank, "R:HELLO")
  BY DEF Ask, Reply, Question, Answer, Addressed, RHello
<1>2. \A i, g, w, j, h, v : Msg(i, g, w) = Msg(j, h, v) => i = j /\ w = v
  <2>1. SUFFICES ASSUME NEW i, NEW g, NEW w, NEW j, NEW h, NEW v, Msg(i, g, w) = Msg(j, h, v)
                 PROVE  i = j /\ w = v
    OBVIOUS
  <2>2. PICK a : a = Msg(i, g, w)
    OBVIOUS
  <2>3. a.id = i /\ a.text = w
    BY <2>2 DEF Msg
  <2>4. a.id = j /\ a.text = v
    BY <2>1, <2>2 DEF Msg
  <2> QED BY <2>3, <2>4
<1>3. /\ Ask("WHISPER") # Ask("SHOUT") /\ Reply("WHISPER") # Reply("SHOUT")
      /\ RHello # Reply("WHISPER") /\ RHello # Reply("SHOUT")
      /\ RHello # Ask("WHISPER") /\ RHello # Ask("SHOUT")
  BY <1>1, <1>2
<1>4. \A at, ta \in Talk : Ask(at) # Reply(ta)
  BY <1>1, <1>2 DEF Talk
<1>5. ASSUME NEW y \in Message, y.id \in Talk PROVE Note(l, y) # Event("ENTER", l, Blank, Blank)
  <2>1. Note(l, y).type = y.id
    BY <1>5, NoteType
  <2>2. Event("ENTER", l, Blank, Blank).type = "ENTER"
    BY DEF Event
  <2> QED BY <1>5, <2>1, <2>2 DEF Talk
<1>6. \A m \in Node, x, y \in Message : x.id \in Talk =>
        (Note(l, x) = Note(m, y) <=> l = m /\ x = y)
  BY NoteSame
<1> QED BY <1>3, <1>4, <1>5, <1>6

\* What a step of the remote x means for the pair of l and x.
Evens(nd, nt, l, x) ==
    /\ \A at \in Talk : Flight(nt, l, x, Ask(at)) + Flight(nt, x, l, Reply(at))
                          = Flight(nd, l, x, Ask(at)) + Flight(nd, x, l, Reply(at))
    /\ Greeting(nt, l, x) = Greeting(nd, l, x)

LEMMA EvenStill ==
    ASSUME NEW rl, NEW nd, NEW l, NEW R, Scene(rl, nd, l, R), NEW x \in R, NEW t, NEW E, NEW S,
           NEW msg \in Message, Speaks(nd[x], t, E, S, msg), NEW nt, nt = [nd EXCEPT ![x] = t],
           Evens(nd, nt, l, x)
    PROVE  Still(nd, nt, l, R)
<1>1. /\ R \subseteq Node \ {l} /\ l \in Node /\ x \in Node /\ x # l
      /\ nd \in [Node -> NodeState]
  BY SceneFacts DEF Tables
<1>2. nt[x] = t /\ \A y \in Node \ {x} : nt[y] = nd[y]
  BY <1>1
<1>3. \A y \in Node : nt[y].ready = nd[y].ready /\ nt[y].member = nd[y].member
  BY <1>2 DEF Speaks, Alike
<1>4. ASSUME NEW m \in R, m # x, NEW y
      PROVE  /\ Flight(nt, l, m, y) = Flight(nd, l, m, y) /\ Flight(nt, m, l, y) = Flight(nd, m, l, y)
             /\ Enters(nt, m, l) = Enters(nd, m, l)
  <2>1. nt[m] = nd[m] /\ nt[l] = nd[l]
    BY <1>1, <1>2, <1>4
  <2> QED BY <2>1 DEF Flight, Enters
<1>5. \A m \in R : Greeting(nt, l, m) = Greeting(nd, l, m)
  <2>1. SUFFICES ASSUME NEW m \in R PROVE Greeting(nt, l, m) = Greeting(nd, l, m)
    OBVIOUS
  <2>2. CASE m = x
    BY <2>2 DEF Evens
  <2>3. CASE m # x
    BY <1>4, <2>3 DEF Greeting
  <2> QED BY <2>2, <2>3
<1>6. \A at \in Talk : Load(nt, l, R, at) = Load(nd, l, R, at)
  <2>1. SUFFICES ASSUME NEW at \in Talk PROVE Load(nt, l, R, at) = Load(nd, l, R, at)
    OBVIOUS
  <2>2. ASSUME NEW m \in R
        PROVE  Flight(nt, l, m, Ask(at)) + Flight(nt, m, l, Reply(at))
                 = Flight(nd, l, m, Ask(at)) + Flight(nd, m, l, Reply(at))
    <3>1. CASE m = x
      BY <3>1 DEF Evens
    <3>2. CASE m # x
      BY <1>4, <3>2
    <3> QED BY <3>1, <3>2
  <2> QED BY <2>2 DEF Load
<1> QED BY <1>1, <1>3, <1>5, <1>6 DEF Still

\* The counts of the pair of l and x when x takes e and says msg to S.
PairFlows(nd, nt, l, x, e, S, msg) ==
    /\ \A at \in Talk :
         /\ Flight(nt, l, x, Ask(at))
              = Flight(nd, l, x, Ask(at)) - (IF e = Note(l, Ask(at)) THEN 1 ELSE 0)
         /\ Flight(nt, x, l, Reply(at))
              = Flight(nd, x, l, Reply(at)) + (IF l \in S /\ msg = Reply(at) THEN 1 ELSE 0)
         /\ Flight(nd, l, x, Ask(at)) \in Nat /\ Flight(nd, x, l, Reply(at)) \in Nat
    /\ Flight(nt, x, l, RHello)
         = Flight(nd, x, l, RHello) + (IF l \in S /\ msg = RHello THEN 1 ELSE 0)
    /\ Enters(nt, x, l) = Enters(nd, x, l) - (IF e = Event("ENTER", l, Blank, Blank) THEN 1 ELSE 0)
    /\ Flight(nd, x, l, RHello) \in Nat /\ Enters(nd, x, l) \in Nat

LEMMA PairFlights ==
    ASSUME NEW rl, NEW nd, NEW l, NEW R, Scene(rl, nd, l, R), NEW x \in R, NEW t, NEW e, NEW S,
           NEW msg \in Message, Speaks(nd[x], t, {e}, S, msg), NEW nt, nt = [nd EXCEPT ![x] = t]
    PROVE  PairFlows(nd, nt, l, x, e, S, msg)
<1>1. l \in Node /\ x \in Node /\ x # l
  BY SceneFacts
<1>2a. PICK E : E = {e}
  OBVIOUS
<1>2b. Flows(nd, nt, x, E, S, msg)
  BY <1>1, <1>2a, SpeaksFlight
<1>2. /\ \A p \in Node, k \in Node, y \in Message :
           p # k /\ y.id \in Talk => Flight(nt, p, k, y)
             = Flight(nd, p, k, y) + (IF p = x /\ k \in S /\ msg = y THEN 1 ELSE 0)
                                   - (IF k = x /\ Note(p, y) \in {e} THEN 1 ELSE 0)
      /\ \A p \in Node, k \in Node : Enters(nt, k, p)
           = Enters(nd, k, p)
               - (IF k = x /\ Event("ENTER", p, Blank, Blank) \in {e} THEN 1 ELSE 0)
  BY <1>2a, <1>2b DEF Flows
<1>3. /\ \A p, n \in Node, y \in Message : y.id \in Talk => Flight(nd, p, n, y) \in Nat
      /\ \A p, n \in Node : Enters(nd, n, p) \in Nat
  BY Numbers
<1>4. ASSUME NEW y \in Message, y.id \in Talk
      PROVE  /\ Flight(nt, l, x, y) = Flight(nd, l, x, y) - (IF e = Note(l, y) THEN 1 ELSE 0)
             /\ Flight(nt, x, l, y) = Flight(nd, x, l, y) + (IF l \in S /\ msg = y THEN 1 ELSE 0)
             /\ Flight(nd, x, l, y) \in Nat /\ Flight(nd, l, x, y) \in Nat
  <2>1. Flight(nd, x, l, y) \in Nat /\ Flight(nd, l, x, y) \in Nat
    BY <1>1, <1>3, <1>4
  <2>2. Flight(nt, l, x, y)
          = Flight(nd, l, x, y) + (IF l = x /\ x \in S /\ msg = y THEN 1 ELSE 0)
                                - (IF x = x /\ Note(l, y) \in {e} THEN 1 ELSE 0)
    BY <1>1, <1>2, <1>4
  <2>3. Flight(nt, x, l, y)
          = Flight(nd, x, l, y) + (IF x = x /\ l \in S /\ msg = y THEN 1 ELSE 0)
                                - (IF l = x /\ Note(x, y) \in {e} THEN 1 ELSE 0)
    BY <1>1, <1>2, <1>4
  <2>4. Note(l, y) \in {e} <=> e = Note(l, y)
    OBVIOUS
  <2>5. Flight(nt, l, x, y) = Flight(nd, l, x, y) - (IF e = Note(l, y) THEN 1 ELSE 0)
    BY <1>1, <2>1, <2>2, <2>4
  <2>6. Flight(nt, x, l, y) = Flight(nd, x, l, y) + (IF l \in S /\ msg = y THEN 1 ELSE 0)
    BY <1>1, <2>1, <2>3
  <2> QED BY <2>1, <2>5, <2>6
<1>5. \A at \in Talk : /\ Ask(at) \in Message /\ Ask(at).id \in Talk
                       /\ Reply(at) \in Message /\ Reply(at).id \in Talk
  BY AskFacts
<1>6. RHello \in Message /\ RHello.id \in Talk
  BY AskFacts DEF Talk
<1>7. Enters(nt, x, l) = Enters(nd, x, l) - (IF e = Event("ENTER", l, Blank, Blank) THEN 1 ELSE 0)
  BY <1>1, <1>2
<1>8. Enters(nd, x, l) \in Nat
  BY <1>1, <1>3
<1> QED BY <1>4, <1>5, <1>6, <1>7, <1>8 DEF PairFlows

\* msg to S is what e asks for.
Pays(l, e, S, msg) ==
    /\ \A at \in Talk : e = Note(l, Ask(at)) <=> l \in S /\ msg = Reply(at)
    /\ e = Event("ENTER", l, Blank, Blank) <=> l \in S /\ msg = RHello

LEMMA AnswerEvens ==
    ASSUME NEW rl, NEW nd, NEW l, NEW R, Scene(rl, nd, l, R), NEW x \in R, NEW t, NEW e, NEW S,
           NEW msg \in Message, Speaks(nd[x], t, {e}, S, msg), NEW nt, nt = [nd EXCEPT ![x] = t],
           Pays(l, e, S, msg)
    PROVE  Evens(nd, nt, l, x)
<1>a. PairFlows(nd, nt, l, x, e, S, msg)
  BY PairFlights
<1>1. ASSUME NEW at \in Talk
      PROVE  Flight(nt, l, x, Ask(at)) + Flight(nt, x, l, Reply(at))
               = Flight(nd, l, x, Ask(at)) + Flight(nd, x, l, Reply(at))
  <2>1. /\ Flight(nt, l, x, Ask(at))
             = Flight(nd, l, x, Ask(at)) - (IF e = Note(l, Ask(at)) THEN 1 ELSE 0)
        /\ Flight(nt, x, l, Reply(at))
             = Flight(nd, x, l, Reply(at)) + (IF l \in S /\ msg = Reply(at) THEN 1 ELSE 0)
        /\ Flight(nd, l, x, Ask(at)) \in Nat /\ Flight(nd, x, l, Reply(at)) \in Nat
    BY <1>a DEF PairFlows
  <2>2. CASE e = Note(l, Ask(at))
    BY <2>1, <2>2 DEF Pays
  <2>3. CASE e # Note(l, Ask(at))
    BY <2>1, <2>3 DEF Pays
  <2> QED BY <2>2, <2>3
<1>2. Greeting(nt, l, x) = Greeting(nd, l, x)
  <2>1. /\ Flight(nt, x, l, RHello)
             = Flight(nd, x, l, RHello) + (IF l \in S /\ msg = RHello THEN 1 ELSE 0)
        /\ Enters(nt, x, l)
             = Enters(nd, x, l) - (IF e = Event("ENTER", l, Blank, Blank) THEN 1 ELSE 0)
        /\ Flight(nd, x, l, RHello) \in Nat /\ Enters(nd, x, l) \in Nat
    BY <1>a DEF PairFlows
  <2>2. CASE e = Event("ENTER", l, Blank, Blank)
    BY <2>1, <2>2 DEF Greeting, Pays
  <2>3. CASE e # Event("ENTER", l, Blank, Blank)
    BY <2>1, <2>3 DEF Greeting, Pays
  <2> QED BY <2>2, <2>3
<1> QED BY <1>1, <1>2 DEF Evens

\* perf_remote answers: l is owed as much as before.
LEMMA RemoteMoves ==
    ASSUME NEW rl, NEW nd, NEW l, NEW R, Scene(rl, nd, l, R), NEW x \in R, nd[x].events # <<>>,
           NEW t, t = RemoteAnswer(Taken(nd[x]), Head(nd[x].events)),
           NEW nt, nt = [nd EXCEPT ![x] = t]
    PROVE  Still(nd, nt, l, R) /\ OneStep(rl, l, nd, x, t)
<1>1. PICK e : e = Head(nd[x].events)
  OBVIOUS
<1>2. PICK s : s = nd[x]
  OBVIOUS
<1>3. Answered(s, t, l, e)
  BY <1>1, <1>2, RemoteAnswers
<1>4. x \in Node /\ x # l /\ l \in Node
  BY SceneFacts
<1>5. /\ RHello \in Message
      /\ \A at \in Talk : Ask(at) \in Message /\ Ask(at).id \in Talk /\ Reply(at) \in Message
  BY AskFacts DEF Talk
<1>6. /\ \A k : RHello \in Said(l, x, k) /\ Reply("SHOUT") \in Said(l, x, k)
      /\ Reply("WHISPER") \in Said(l, x, l)
  BY <1>4 DEF Said, RHello, Reply, Addressed, Answer
<1>7. /\ Ask("WHISPER") # Ask("SHOUT") /\ Reply("WHISPER") # Reply("SHOUT")
      /\ RHello # Reply("WHISPER") /\ RHello # Reply("SHOUT")
  BY <1>4, Differ
<1>8. \A at \in Talk : Note(l, Ask(at)) # Event("ENTER", l, Blank, Blank)
  BY <1>4, <1>5, Differ
<1>9. Note(l, Ask("WHISPER")) # Note(l, Ask("SHOUT"))
  BY <1>4, <1>5, <1>7, Differ DEF Talk
<1>10. \A p : Event("ENTER", p, Blank, Blank).type = "ENTER" /\ Event("ENTER", p, Blank, Blank).peer = p
  BY DEF Event
<1>11. \A at \in Talk : Note(l, Ask(at)).type # "ENTER"
  BY <1>4, <1>5, NoteType DEF Talk
<1>12. ASSUME NEW S, NEW msg \in Message, Speaks(s, t, {e}, S, msg), S \subseteq s.peers,
              \A k \in S : msg \in Said(l, x, k), Pays(l, e, S, msg)
       PROVE  Still(nd, nt, l, R) /\ OneStep(rl, l, nd, x, t)
  <2>1. Speaks(nd[x], t, {e}, S, msg) /\ S \subseteq nd[x].peers
    BY <1>2, <1>12
  <2>2. Evens(nd, nt, l, x)
    BY <1>12, <2>1, AnswerEvens
  <2>3. PICK E : E = {e}
    OBVIOUS
  <2>4. Speaks(nd[x], t, E, S, msg)
    BY <2>1, <2>3
  <2>5. Still(nd, nt, l, R)
    BY <2>2, <2>4, EvenStill
  <2>6. OneStep(rl, l, nd, x, t)
    BY <1>4, <1>12, <2>1, <2>4, SpeaksStep
  <2> QED BY <2>5, <2>6
<1>13. CASE e = Event("ENTER", l, Blank, Blank) /\ Speaks(s, t, {e}, {l}, RHello) /\ l \in s.peers
  <2>1. Pays(l, e, {l}, RHello)
    BY <1>7, <1>8, <1>13 DEF Talk, Pays
  <2>2. PICK S : S = {l}
    OBVIOUS
  <2>3. /\ Speaks(s, t, {e}, S, RHello) /\ S \subseteq s.peers /\ Pays(l, e, S, RHello)
        /\ RHello \in Message /\ \A k \in S : RHello \in Said(l, x, k)
    BY <1>5, <1>6, <1>13, <2>1, <2>2
  <2> QED BY <1>12, <2>3
<1>14. CASE /\ e.type = "ENTER" /\ e.peer # l /\ e.peer \in s.peers
            /\ Speaks(s, t, {e}, {e.peer}, RHello)
  <2>1. Pays(l, e, {e.peer}, RHello)
    BY <1>10, <1>11, <1>14 DEF Pays
  <2>2. PICK S : S = {e.peer}
    OBVIOUS
  <2>3. /\ Speaks(s, t, {e}, S, RHello) /\ S \subseteq s.peers /\ Pays(l, e, S, RHello)
        /\ RHello \in Message /\ \A k \in S : RHello \in Said(l, x, k)
    BY <1>5, <1>6, <1>14, <2>1, <2>2
  <2> QED BY <1>12, <2>3
<1>15. CASE /\ e = Note(l, Ask("WHISPER")) /\ l \in s.peers
            /\ Speaks(s, t, {e}, {l}, Reply("WHISPER"))
  <2>1. Pays(l, e, {l}, Reply("WHISPER"))
    BY <1>7, <1>8, <1>9, <1>15 DEF Talk, Pays
  <2>2. Reply("WHISPER") \in Message
    BY <1>5 DEF Talk
  <2>3. PICK S : S = {l}
    OBVIOUS
  <2>4. PICK msg : msg = Reply("WHISPER")
    OBVIOUS
  <2>5. /\ Speaks(s, t, {e}, S, msg) /\ S \subseteq s.peers /\ Pays(l, e, S, msg)
        /\ msg \in Message /\ \A k \in S : msg \in Said(l, x, k)
    BY <1>6, <1>15, <2>1, <2>2, <2>3, <2>4
  <2> QED BY <1>12, <2>5
<1>16. ASSUME e = Note(l, Ask("SHOUT")), NEW S \in SUBSET s.peers, l \in S,
              Speaks(s, t, {e}, S, Reply("SHOUT"))
       PROVE  Still(nd, nt, l, R) /\ OneStep(rl, l, nd, x, t)
  <2>1. Pays(l, e, S, Reply("SHOUT"))
    BY <1>7, <1>8, <1>9, <1>16 DEF Talk, Pays
  <2>2. Reply("SHOUT") \in Message
    BY <1>5 DEF Talk
  <2> QED BY <1>6, <1>12, <1>16, <2>1, <2>2
<1>17. CASE /\ e.type # "ENTER" /\ \A at \in Talk : e # Note(l, Ask(at))
            /\ Speaks(s, t, {e}, {}, RHello)
  <2>1. Pays(l, e, {}, RHello)
    BY <1>10, <1>17 DEF Pays
  <2>2. PICK S : S = {}
    OBVIOUS
  <2>3. /\ Speaks(s, t, {e}, S, RHello) /\ S \subseteq s.peers /\ Pays(l, e, S, RHello)
        /\ RHello \in Message /\ \A k \in S : RHello \in Said(l, x, k)
    BY <1>5, <1>17, <2>1, <2>2
  <2> QED BY <1>12, <2>3
<1> QED BY <1>3, <1>13, <1>14, <1>15, <1>16, <1>17 DEF Answered

-----------------------------------------------------------------------------
(* perf_local takes an event                                               *)

\* What is under way when l has taken e.
TookOff(nd, nt, l, R, e) ==
    /\ \A m \in R :
        /\ \A at \in Talk :
             Load(nt, l, R, at)[m] = Load(nd, l, R, at)[m] - (IF e = Note(m, Reply(at)) THEN 1 ELSE 0)
        /\ Greeting(nt, l, m) = Greeting(nd, l, m) - (IF e = Note(m, RHello) THEN 1 ELSE 0)
        /\ Greeting(nt, l, m) \in Nat
        /\ nt[m] = nd[m]
    /\ nt[l].ready = nd[l].ready /\ nt[l].member = nd[l].member
    /\ \A at \in Talk : Load(nt, l, R, at) \in [R -> Nat]

LEMMA LocalTook ==
    ASSUME NEW rl, NEW nd, NEW l, NEW R, Scene(rl, nd, l, R), nd[l].events # <<>>,
           NEW nt, nt = [nd EXCEPT ![l] = Taken(nd[l])], NEW e, e = Head(nd[l].events),
           Scene(rl, nt, l, R)
    PROVE  TookOff(nd, nt, l, R, e)
<1>1. /\ R \subseteq Node \ {l} /\ l \in Node /\ nd \in [Node -> NodeState] /\ nd[l] \in NodeState
  BY SceneFacts DEF Tables
<1>2. PICK t : t = Taken(nd[l])
  OBVIOUS
<1>3. nt = [nd EXCEPT ![l] = t] /\ nt[l] = t /\ \A y \in Node \ {l} : nt[y] = nd[y]
  BY <1>1, <1>2
<1>4. PICK E : E = {e}
  OBVIOUS
<1>5. RHello \in Message /\ RHello.id \in Talk
  BY AskFacts DEF Talk
<1>6. Speaks(nd[l], t, E, {}, RHello)
  BY <1>1, <1>2, <1>4, <1>5, PutSpeaks
<1>7. Flows(nd, nt, l, E, {}, RHello)
  BY <1>1, <1>3, <1>5, <1>6, SpeaksFlight
<1>8. /\ \A p, n \in Node, y \in Message : y.id \in Talk => Flight(nd, p, n, y) \in Nat
      /\ \A p, n \in Node : Enters(nd, n, p) \in Nat
      /\ \A m \in R : Greeting(nt, l, m) \in Nat
      /\ \A at \in Talk : Load(nt, l, R, at) \in [R -> Nat]
  BY Numbers
<1>9. ASSUME NEW m \in R, NEW y \in Message, y.id \in Talk
      PROVE  /\ Flight(nt, l, m, y) = Flight(nd, l, m, y)
             /\ Flight(nt, m, l, y) = Flight(nd, m, l, y) - (IF e = Note(m, y) THEN 1 ELSE 0)
             /\ Flight(nd, l, m, y) \in Nat /\ Flight(nd, m, l, y) \in Nat
  <2>1. m \in Node /\ m # l
    BY <1>1
  <2>2. /\ Flight(nt, l, m, y)
             = Flight(nd, l, m, y) + (IF l = l /\ m \in {} /\ RHello = y THEN 1 ELSE 0)
                                   - (IF m = l /\ Note(l, y) \in E THEN 1 ELSE 0)
        /\ Flight(nt, m, l, y)
             = Flight(nd, m, l, y) + (IF m = l /\ l \in {} /\ RHello = y THEN 1 ELSE 0)
                                   - (IF l = l /\ Note(m, y) \in E THEN 1 ELSE 0)
    BY <1>1, <1>7, <1>9, <2>1 DEF Flows
  <2>3. Flight(nd, l, m, y) \in Nat /\ Flight(nd, m, l, y) \in Nat
    BY <1>1, <1>8, <1>9, <2>1
  <2>4. Note(m, y) \in E <=> e = Note(m, y)
    BY <1>4
  <2>5. Flight(nt, l, m, y) = Flight(nd, l, m, y)
    BY <2>1, <2>2, <2>3
  <2>6. Flight(nt, m, l, y) = Flight(nd, m, l, y) - (IF e = Note(m, y) THEN 1 ELSE 0)
    BY <2>1, <2>2, <2>3, <2>4
  <2> QED BY <2>3, <2>5, <2>6
<1>10. ASSUME NEW m \in R, NEW at \in Talk
       PROVE  Load(nt, l, R, at)[m]
                = Load(nd, l, R, at)[m] - (IF e = Note(m, Reply(at)) THEN 1 ELSE 0)
  <2>1. /\ Ask(at) \in Message /\ Ask(at).id \in Talk /\ Reply(at) \in Message /\ Reply(at).id \in Talk
    BY AskFacts
  <2>2. /\ Flight(nt, l, m, Ask(at)) = Flight(nd, l, m, Ask(at))
        /\ Flight(nd, l, m, Ask(at)) \in Nat
    BY <1>9, <2>1
  <2>3. /\ Flight(nt, m, l, Reply(at))
             = Flight(nd, m, l, Reply(at)) - (IF e = Note(m, Reply(at)) THEN 1 ELSE 0)
        /\ Flight(nd, m, l, Reply(at)) \in Nat
    BY <1>9, <2>1
  <2>4. /\ Load(nt, l, R, at)[m] = Flight(nt, l, m, Ask(at)) + Flight(nt, m, l, Reply(at))
        /\ Load(nd, l, R, at)[m] = Flight(nd, l, m, Ask(at)) + Flight(nd, m, l, Reply(at))
    BY DEF Load
  <2>5. CASE e = Note(m, Reply(at))
    BY <2>2, <2>3, <2>4, <2>5
  <2>6. CASE e # Note(m, Reply(at))
    BY <2>2, <2>3, <2>4, <2>6
  <2> QED BY <2>5, <2>6
<1>11. ASSUME NEW m \in R
       PROVE  Greeting(nt, l, m) = Greeting(nd, l, m) - (IF e = Note(m, RHello) THEN 1 ELSE 0)
  <2>1. /\ Flight(nt, m, l, RHello)
             = Flight(nd, m, l, RHello) - (IF e = Note(m, RHello) THEN 1 ELSE 0)
        /\ Flight(nd, m, l, RHello) \in Nat
    BY <1>5, <1>9
  <2>2. Enters(nt, m, l) = Enters(nd, m, l) /\ Enters(nd, m, l) \in Nat
    <3>1. nt[m] = nd[m]
      BY <1>1, <1>3
    <3>2. Enters(nd, m, l) \in Nat
      BY <1>1, <1>8
    <3> QED BY <3>1, <3>2 DEF Enters
  <2>3. CASE e = Note(m, RHello)
    BY <2>1, <2>2, <2>3 DEF Greeting
  <2>4. CASE e # Note(m, RHello)
    BY <2>1, <2>2, <2>4 DEF Greeting
  <2> QED BY <2>3, <2>4
<1>12. /\ nt[l].ready = nd[l].ready /\ nt[l].member = nd[l].member
       /\ \A m \in R : nt[m] = nd[m]
  BY <1>1, <1>3, <1>6 DEF Speaks, Alike
<1> QED BY <1>8, <1>10, <1>11, <1>12 DEF TookOff

\* An event of perf_local is from a remote, and its type and text tell what it is.
LEMMA LocalEvent ==
    ASSUME NEW rl, NEW nd, NEW l, NEW R, Scene(rl, nd, l, R), nd[l].events # <<>>,
           NEW e, e = Head(nd[l].events)
    PROVE  /\ e.peer \in R /\ e.peer \in nd[l].ready
           /\ \A at \in Talk :
                e.type = at /\ e.text = Answer(at) <=> \E m \in R : e = Note(m, Reply(at))
           /\ e.type = "WHISPER" /\ e.text = "R:HELLO" <=> \E m \in R : e = Note(m, RHello)
           /\ e.type = "WHISPER" => "GLOBAL" \in nd[l].member[e.peer]
<1>1. /\ l \in Node /\ R \subseteq Node \ {l} /\ R = {m \in Node : rl[m] = "remote"}
  BY SceneFacts DEF Scene
<1>2. /\ e \in Notice /\ e.peer \in (R \cup {l}) \ {l} /\ e.peer \in nd[l].ready
      /\ \/ Appears(e, e.peer)
         \/ \E msg \in Said(l, e.peer, l) : e = Note(e.peer, msg)
  BY <1>1, FirstFacts
<1>3. e.peer \in R /\ e.peer # l
  BY <1>1, <1>2
<1>4. /\ Reply("WHISPER") = Msg("WHISPER", Blank, "R:WHISPER")
      /\ Reply("SHOUT") = Msg("SHOUT", "GLOBAL", "R:SHOUT")
      /\ RHello = Msg("WHISPER", Blank, "R:HELLO")
  BY DEF Reply, Answer, Addressed, RHello
<1>5. Said(l, e.peer, l) = {Msg("JOIN", "GLOBAL", Blank), RHello, Reply("SHOUT"), Reply("WHISPER")}
  BY <1>3, <1>4 DEF Said
<1>6. \A msg \in {RHello, Reply("SHOUT"), Reply("WHISPER"), Msg("JOIN", "GLOBAL", Blank)} : \A m :
        Note(m, msg).type = msg.id /\ Note(m, msg).text = msg.text
  BY <1>4 DEF Note, Event, Msg
<1>7. /\ RHello.id = "WHISPER" /\ RHello.text = "R:HELLO"
      /\ Reply("SHOUT").id = "SHOUT" /\ Reply("SHOUT").text = "R:SHOUT"
      /\ Reply("WHISPER").id = "WHISPER" /\ Reply("WHISPER").text = "R:WHISPER"
      /\ Msg("JOIN", "GLOBAL", Blank).id = "JOIN"
  BY <1>4 DEF Msg
<1>8. e.type \in Talk => e \in {Note(e.peer, RHello), Note(e.peer, Reply("SHOUT")),
                               Note(e.peer, Reply("WHISPER"))}
  <2>1. ASSUME Appears(e, e.peer) PROVE e.type \notin Talk
    <3>1. Event("ENTER", e.peer, Blank, Blank).type = "ENTER"
      BY DEF Event
    <3> QED BY <2>1, <3>1 DEF Appears, Talk
  <2>2. ASSUME NEW msg \in Said(l, e.peer, l), e = Note(e.peer, msg), e.type \in Talk
        PROVE  msg \in {RHello, Reply("SHOUT"), Reply("WHISPER")}
    BY <1>5, <1>6, <1>7, <2>2 DEF Talk
  <2> QED BY <1>2, <2>1, <2>2
<1>9. Answer("WHISPER") = "R:WHISPER" /\ Answer("SHOUT") = "R:SHOUT"
  BY DEF Answer
<1>10. ASSUME NEW at \in Talk
       PROVE  e.type = at /\ e.text = Answer(at) <=> \E m \in R : e = Note(m, Reply(at))
  <2>1. ASSUME NEW m \in R, e = Note(m, Reply(at)) PROVE e.type = at /\ e.text = Answer(at)
    BY <1>6, <1>7, <1>9, <2>1 DEF Talk
  <2>2. ASSUME e.type = at, e.text = Answer(at) PROVE e = Note(e.peer, Reply(at))
    BY <1>6, <1>7, <1>8, <1>9, <2>2 DEF Talk
  <2> QED BY <1>3, <2>1, <2>2
<1>11. e.type = "WHISPER" /\ e.text = "R:HELLO" <=> \E m \in R : e = Note(m, RHello)
  <2>1. ASSUME NEW m \in R, e = Note(m, RHello) PROVE e.type = "WHISPER" /\ e.text = "R:HELLO"
    BY <1>6, <1>7, <2>1
  <2>2. ASSUME e.type = "WHISPER", e.text = "R:HELLO" PROVE e = Note(e.peer, RHello)
    BY <1>6, <1>7, <1>8, <2>2 DEF Talk
  <2> QED BY <1>3, <2>1, <2>2
<1>12. ASSUME e.type = "WHISPER" PROVE "GLOBAL" \in nd[l].member[e.peer]
  <2>1. e.peer \in Node \ {l} /\ rl[e.peer] \in Speaker
    BY <1>1, <1>3 DEF Speaker
  <2>2. e.peer \in InGroup(nd[l], "GLOBAL")
    BY <1>1, <1>12, <2>1, MembersHear DEF Talk
  <2> QED BY <2>2 DEF InGroup
<1> QED BY <1>2, <1>3, <1>10, <1>11, <1>12

\* An answer taken is one less under way.
LEMMA LoadTook ==
    ASSUME NEW rl, NEW nd, NEW l, NEW R, Scene(rl, nd, l, R), NEW nt, NEW e, e \in Notice,
           TookOff(nd, nt, l, R, e), NEW at \in Talk
    PROVE  /\ Total(Load(nt, l, R, at)) \in Nat /\ Total(Load(nd, l, R, at)) \in Nat
           /\ Total(Load(nd, l, R, at))
                = Total(Load(nt, l, R, at)) + (IF \E m \in R : e = Note(m, Reply(at)) THEN 1 ELSE 0)
<1>1. R \subseteq Node \ {l} /\ IsFiniteSet(R)
  BY SceneFacts
<1>2. PICK u : u = Load(nd, l, R, at)
  OBVIOUS
<1>3. PICK v : v = Load(nt, l, R, at)
  OBVIOUS
<1>4. u \in [R -> Nat] /\ v \in [R -> Nat]
  BY <1>2, <1>3, Numbers DEF TookOff
<1>5. \A m \in R : v[m] = u[m] - (IF e = Note(m, Reply(at)) THEN 1 ELSE 0)
  BY <1>2, <1>3 DEF TookOff
<1>6. Total(u) \in Nat /\ Total(v) \in Nat
  BY <1>1, <1>4, TotalFacts
<1>7. CASE \A m \in R : e # Note(m, Reply(at))
  <2>1. \A m \in R : v[m] = u[m]
    <3>1. \A m \in R : u[m] \in Nat
      BY <1>4
    <3> QED BY <1>5, <1>7, <3>1
  <2>2. v = u
    BY <1>4, <2>1
  <2> QED BY <1>2, <1>3, <1>6, <1>7, <2>2
<1>8. ASSUME NEW m \in R, e = Note(m, Reply(at))
      PROVE  Total(u) = Total(v) + 1
  <2>1. \A k \in R \ {m} : e # Note(k, Reply(at))
    <3>1. Reply(at) \in Message /\ Reply(at).id \in Talk
      BY AskFacts
    <3>2. \A k \in R : Note(k, Reply(at)).peer = k
      BY <1>1, <3>1, NoteType
    <3> QED BY <1>8, <3>2
  <2>2. \A k \in R : u[k] \in Nat /\ v[k] \in Nat
    BY <1>4
  <2>3. u[m] = v[m] + 1
    BY <1>5, <1>8, <2>2
  <2>4. \A k \in R \ {m} : u[k] = v[k]
    BY <1>5, <2>1, <2>2
  <2> QED BY <1>1, <1>4, <2>3, <2>4, TotalMore
<1>9. CASE \E m \in R : e = Note(m, Reply(at))
  BY <1>2, <1>3, <1>6, <1>8, <1>9
<1> QED BY <1>2, <1>3, <1>6, <1>7, <1>9

\* s_node_recv counts what is an answer.
LEMMA RecvTally ==
    ASSUME NEW rl, NEW nd, NEW l, NEW R, Scene(rl, nd, l, R), nd[l].events # <<>>,
           NEW e, e = Head(nd[l].events), NEW nt, TookOff(nd, nt, l, R, e),
           NEW a \in AppState, Tally(nd, l, R, a),
           NEW at \in Talk, a.at \in (IF at = "WHISPER" THEN Whispers ELSE Shouts),
           NEW b, b = NodeRecv(a, at, e)
    PROVE  Tally(nt, l, R, b)
<1>1. /\ e \in Notice /\ a.got \in Nat /\ a.sent \in Nat
  BY SceneFacts, FirstFacts DEF AppState
<1>2. /\ b.at = a.at /\ b.peers = a.peers /\ b.hello = a.hello /\ b.sent = a.sent
      /\ b.got = a.got + (IF \E m \in R : e = Note(m, Reply(at)) THEN 1 ELSE 0)
  <2>1. e.type = at /\ e.text = Answer(at) <=> \E m \in R : e = Note(m, Reply(at))
    BY LocalEvent
  <2>2. CASE e.type = at /\ e.text = Answer(at)
    <3>1. b = [a EXCEPT !.got = @ + 1]
      BY <2>2 DEF NodeRecv
    <3>2. /\ b.at = a.at /\ b.peers = a.peers /\ b.hello = a.hello /\ b.sent = a.sent
          /\ b.got = a.got + 1
      BY <3>1 DEF AppState
    <3> QED BY <2>1, <2>2, <3>2
  <2>3. CASE ~(e.type = at /\ e.text = Answer(at))
    <3>1. b = a
      BY <2>3 DEF NodeRecv
    <3> QED BY <1>1, <2>1, <2>3, <3>1
  <2> QED BY <2>2, <2>3
<1>3. /\ a.at \in Early \cup Whispers \cup Shouts
      /\ Greetings(nd, l, R, a) /\ Counted(nd, l, R, a) /\ Books(nd, l, R, a)
  BY DEF Tally
<1>4. a.at \notin Early
  BY StagesApart
<1>5. Welcome(nt, l, R) = R /\ \A m \in R : Greeting(nt, l, m) = 0 /\ l \in nt[m].ready
  <2>1. Welcome(nd, l, R) = R
    BY <1>3, <1>4 DEF Greetings
  <2>2. \A m \in R : Greeting(nd, l, m) = 0 /\ l \in nd[m].ready
    BY <2>1 DEF Welcome
  <2>3. \A m \in R : Greeting(nt, l, m) = 0 /\ l \in nt[m].ready
    BY <2>2 DEF TookOff
  <2> QED BY <2>3 DEF Welcome
<1>6. Greetings(nt, l, R, b)
  <2>1. \A m \in Welcome(nd, l, R) : "GLOBAL" \in nd[l].member[m]
    BY <1>3 DEF Greetings
  <2>2. Welcome(nd, l, R) = R
    BY <1>3, <1>4 DEF Greetings
  <2>3. \A m \in Welcome(nt, l, R) : "GLOBAL" \in nt[l].member[m]
    BY <1>5, <2>1, <2>2 DEF TookOff
  <2> QED BY <1>2, <1>4, <1>5, <2>3 DEF Greetings
<1>7. Counted(nt, l, R, b)
  BY <1>2, <1>3 DEF Counted, TookOff
<1>8. Books(nt, l, R, b)
  <2>1. PICK u : u = [ta \in Talk |-> Total(Load(nd, l, R, ta))]
    OBVIOUS
  <2>2. PICK v : v = [ta \in Talk |-> Total(Load(nt, l, R, ta))]
    OBVIOUS
  <2>3. \A ta \in Talk : /\ u[ta] \in Nat /\ v[ta] \in Nat
                         /\ u[ta] = v[ta] + (IF \E m \in R : e = Note(m, Reply(ta)) THEN 1 ELSE 0)
    BY <1>1, <2>1, <2>2, LoadTook
  <2>4. CASE at = "WHISPER"
    <3>1. a.at \in Whispers /\ a.at \notin Early /\ a.at \notin Shouts
      BY <2>4, StagesApart
    <3>2. a.got + u["WHISPER"] = a.sent /\ u["SHOUT"] = 0
      BY <1>3, <2>1, <3>1 DEF Books, Talk
    <3>3. b.got + v["WHISPER"] = b.sent
      BY <1>1, <1>2, <2>3, <2>4, <3>2 DEF Talk
    <3>4. v["SHOUT"] = 0
      BY <2>3, <3>2 DEF Talk
    <3> QED BY <1>2, <2>2, <3>1, <3>3, <3>4 DEF Books, Talk
  <2>5. CASE at # "WHISPER"
    <3>1. at = "SHOUT" /\ a.at \in Shouts /\ a.at \notin Early /\ a.at \notin Whispers
      BY <2>5, StagesApart DEF Talk
    <3>2. a.got + u["SHOUT"] = a.sent * Cardinality(R)
      BY <1>3, <2>1, <3>1 DEF Books, Talk
    <3>3. b.got + v["SHOUT"] = a.got + u["SHOUT"]
      BY <1>1, <1>2, <2>3, <3>1 DEF Talk
    <3> QED BY <1>2, <2>2, <3>1, <3>2, <3>3 DEF Books, Talk
  <2> QED BY <2>4, <2>5
<1> QED BY <1>2, <1>3, <1>6, <1>7, <1>8 DEF Tally

\* perf_local greets: a greeting makes one more remote welcome.
LEMMA GreetTally ==
    ASSUME NEW rl, NEW nd, NEW l, NEW R, Scene(rl, nd, l, R), nd[l].events # <<>>,
           R = Remotes, NEW e, e = Head(nd[l].events), NEW nt, TookOff(nd, nt, l, R, e),
           NEW a \in AppState, a.at = "run", Tally(nd, l, R, a), NEW b, b = Greet(a, e)
    PROVE  Tally(nt, l, R, b)
<1>1. /\ e \in Notice /\ a.hello \in Nat /\ a.peers \in Seq(Node)
  BY SceneFacts, FirstFacts DEF AppState
<1>2. /\ e.peer \in R /\ e.peer \in nd[l].ready
      /\ e.type = "WHISPER" /\ e.text = "R:HELLO" <=> \E m \in R : e = Note(m, RHello)
      /\ e.type = "WHISPER" => "GLOBAL" \in nd[l].member[e.peer]
  BY LocalEvent
<1>3. /\ a.at \in Early /\ a.at \notin Whispers /\ a.at \notin Shouts
      /\ Greetings(nd, l, R, a) /\ Counted(nd, l, R, a) /\ Books(nd, l, R, a)
  BY StagesApart DEF Tally
<1>4. MaxNode = Cardinality(R) /\ MaxNode \in Nat /\ IsFiniteSet(R)
      /\ \A S \in SUBSET R : /\ IsFiniteSet(S) /\ Cardinality(S) \in Nat
                             /\ Cardinality(S) <= MaxNode /\ (Cardinality(S) = MaxNode => S = R)
  BY RemotesFacts DEF MaxNode
<1> DEFINE W == Welcome(nd, l, R)
           V == Welcome(nt, l, R)
<1>5. W \subseteq R /\ V \subseteq R /\ a.hello = Cardinality(W)
  BY <1>3 DEF Greetings, Welcome
<1>6. ASSUME NEW m \in R, e = Note(m, RHello)
      PROVE  m = e.peer /\ m \notin W /\ V = W \cup {m}
  <2>1. R \subseteq Node /\ RHello \in Message /\ RHello.id \in Talk
    BY SceneFacts, AskFacts DEF Talk
  <2>2. \A k \in R : Note(k, RHello).peer = k
    BY <2>1, NoteType
  <2>3. m = e.peer /\ \A k \in R \ {m} : e # Note(k, RHello)
    BY <1>6, <2>2
  <2>4. /\ Greeting(nd, l, m) \in Nat /\ Greeting(nt, l, m) \in Nat
        /\ Greeting(nt, l, m) = Greeting(nd, l, m) - 1
        /\ Greeting(nd, l, m) <= 1 /\ (l \notin nd[m].ready => Greeting(nd, l, m) = 0)
    BY <1>3, <1>6, Numbers DEF TookOff, Greetings
  <2>5. Greeting(nd, l, m) = 1 /\ Greeting(nt, l, m) = 0 /\ l \in nd[m].ready
    BY <2>4
  <2>6. \A k \in R \ {m} : Greeting(nt, l, k) = Greeting(nd, l, k)
    <3>1. \A k \in R \ {m} : Greeting(nt, l, k) = Greeting(nd, l, k) - 0 /\ Greeting(nd, l, k) \in Nat
      BY <2>3, Numbers DEF TookOff
    <3> QED BY <3>1
  <2>7. \A k \in R : nt[k] = nd[k]
    BY DEF TookOff
  <2> QED BY <2>3, <2>5, <2>6, <2>7 DEF Welcome
<1>7. ASSUME \A m \in R : e # Note(m, RHello)
      PROVE  V = W
  <2>1. \A k \in R : Greeting(nt, l, k) = Greeting(nd, l, k)
    <3>1. \A k \in R : Greeting(nt, l, k) = Greeting(nd, l, k) - 0 /\ Greeting(nd, l, k) \in Nat
      BY <1>7, Numbers DEF TookOff
    <3> QED BY <3>1
  <2>2. \A k \in R : nt[k] = nd[k]
    BY DEF TookOff
  <2> QED BY <2>1, <2>2 DEF Welcome
<1>8. \A m \in R : Greeting(nt, l, m) <= 1 /\ (l \notin nt[m].ready => Greeting(nt, l, m) = 0)
  <2>1. SUFFICES ASSUME NEW m \in R
                 PROVE  Greeting(nt, l, m) <= 1 /\ (l \notin nt[m].ready => Greeting(nt, l, m) = 0)
    OBVIOUS
  <2>2. /\ Greeting(nd, l, m) \in Nat /\ Greeting(nt, l, m) \in Nat /\ nt[m] = nd[m]
        /\ Greeting(nt, l, m) = Greeting(nd, l, m) - (IF e = Note(m, RHello) THEN 1 ELSE 0)
        /\ Greeting(nd, l, m) <= 1 /\ (l \notin nd[m].ready => Greeting(nd, l, m) = 0)
    BY <1>3, Numbers DEF TookOff, Greetings
  <2>3. CASE e = Note(m, RHello)
    BY <2>2, <2>3
  <2>4. CASE e # Note(m, RHello)
    BY <2>2, <2>4
  <2> QED BY <2>3, <2>4
<1>9. \A m \in V : "GLOBAL" \in nt[l].member[m]
  <2>1. \A m \in W : "GLOBAL" \in nd[l].member[m]
    BY <1>3 DEF Greetings
  <2>2. V \subseteq W \cup (IF e.type = "WHISPER" THEN {e.peer} ELSE {})
    <3>1. CASE \A m \in R : e # Note(m, RHello)
      BY <1>7, <3>1
    <3>2. ASSUME NEW m \in R, e = Note(m, RHello)
          PROVE  V \subseteq W \cup (IF e.type = "WHISPER" THEN {e.peer} ELSE {})
      BY <1>2, <1>6, <3>2
    <3> QED BY <3>1, <3>2
  <2>3. nt[l].member = nd[l].member
    BY DEF TookOff
  <2> QED BY <1>2, <2>1, <2>2, <2>3
<1>10. /\ Total(Load(nt, l, R, "WHISPER")) = 0 /\ Total(Load(nt, l, R, "SHOUT")) = 0
       /\ a.sent = 0 /\ a.got = 0
  <2>1. PICK u : u = [ta \in Talk |-> Total(Load(nd, l, R, ta))]
    OBVIOUS
  <2>2. PICK v : v = [ta \in Talk |-> Total(Load(nt, l, R, ta))]
    OBVIOUS
  <2>3. \A ta \in Talk : /\ u[ta] \in Nat /\ v[ta] \in Nat
                         /\ u[ta] = v[ta] + (IF \E m \in R : e = Note(m, Reply(ta)) THEN 1 ELSE 0)
    BY <1>1, <2>1, <2>2, LoadTook
  <2>4. u["WHISPER"] = 0 /\ u["SHOUT"] = 0 /\ a.sent = 0 /\ a.got = 0
    BY <1>3, <2>1 DEF Books, Talk
  <2>5. v["WHISPER"] = 0 /\ v["SHOUT"] = 0
    BY <2>3, <2>4 DEF Talk
  <2> QED BY <2>2, <2>4, <2>5 DEF Talk
<1> DEFINE counted ==
             CASE e.type = "ENTER" /\ Len(a.peers) < MaxNode -> [a EXCEPT !.peers = Append(@, e.peer)]
               [] e.type = "WHISPER" /\ a.hello < MaxNode /\ e.text = "R:HELLO" ->
                     [a EXCEPT !.hello = @ + 1]
               [] OTHER -> a
<1>11. PICK c : c = counted
  OBVIOUS
<1>12. /\ c.at = "run" /\ c.sent = 0 /\ c.got = 0 /\ c.hello = Cardinality(V)
       /\ c.peers = a.peers \/ c.peers = Append(a.peers, e.peer)
       /\ c \in AppState
  <2>1. CASE e.type = "ENTER" /\ Len(a.peers) < MaxNode
    <3>1. c = [a EXCEPT !.peers = Append(@, e.peer)]
      BY <1>11, <2>1
    <3>2. e.peer \in Node
      BY <1>1 DEF Notice
    <3>2a. Append(a.peers, e.peer) \in Seq(Node)
      BY <1>1, <3>2
    <3>2d. PICK w \in Seq(Node) : w = Append(a.peers, e.peer)
      BY <3>2a
    <3>2b. c = [a EXCEPT !.peers = w]
      BY <3>1, <3>2d
    <3>2c. /\ c \in AppState /\ c.at = a.at /\ c.sent = a.sent /\ c.got = a.got
           /\ c.hello = a.hello /\ c.peers = w
      BY <3>2b DEF AppState
    <3>3. c \in AppState /\ c.at = a.at /\ c.sent = a.sent /\ c.got = a.got /\ c.hello = a.hello
          /\ c.peers = Append(a.peers, e.peer)
      BY <3>2c, <3>2d
    <3>4. V = W
      BY <1>2, <1>7, <2>1
    <3> QED BY <1>5, <1>10, <3>3, <3>4
  <2>2. CASE e.type = "WHISPER" /\ e.text = "R:HELLO"
    <3>1. PICK m \in R : e = Note(m, RHello)
      BY <1>2, <2>2
    <3>2. m \notin W /\ V = W \cup {m}
      BY <1>6, <3>1
    <3> HIDE DEF W, V
    <3>3. IsFiniteSet(W) /\ Cardinality(W) \in Nat
      BY <1>4, <1>5
    <3>4. Cardinality(V) = Cardinality(W) + 1
      BY <3>2, <3>3, FS_AddElement
    <3>5. Cardinality(V) <= MaxNode
      BY <1>4, <1>5
    <3>6. a.hello < MaxNode
      BY <1>4, <1>5, <3>3, <3>4, <3>5
    <3>7. c = [a EXCEPT !.hello = @ + 1]
      BY <1>11, <2>2, <3>6
    <3>8. c \in AppState /\ c.at = a.at /\ c.sent = a.sent /\ c.got = a.got /\ c.hello = a.hello + 1
          /\ c.peers = a.peers
      BY <1>1, <3>7 DEF AppState
    <3> QED BY <1>5, <1>10, <3>4, <3>8
  <2>3. CASE ~(e.type = "ENTER" /\ Len(a.peers) < MaxNode) /\ ~(e.type = "WHISPER" /\ e.text = "R:HELLO")
    <3>1. c = a
      BY <1>11, <2>3
    <3>2. V = W
      BY <1>2, <1>7, <2>3
    <3> QED BY <1>5, <1>10, <3>1, <3>2
  <2> QED BY <2>1, <2>2, <2>3
<1> HIDE DEF counted
<1>13. b = IF GreetingsDone(c) THEN [c EXCEPT !.at = "WHISPER"] ELSE c
  BY <1>11 DEF Greet, counted
<1>14. /\ b.peers = c.peers /\ b.hello = c.hello /\ b.sent = c.sent /\ b.got = c.got
       /\ b.at = "run" \/ (b.at = "WHISPER" /\ Len(c.peers) = MaxNode /\ c.hello = MaxNode)
  <2>1. CASE GreetingsDone(c)
    BY <1>12, <1>13, <2>1 DEF GreetingsDone, AppState
  <2>2. CASE ~GreetingsDone(c)
    BY <1>12, <1>13, <2>2
  <2> QED BY <2>1, <2>2
<1>15. \A i \in 1 .. Len(b.peers) : b.peers[i] \in R /\ b.peers[i] \in nt[l].ready
  <2>1. \A i \in 1 .. Len(a.peers) : a.peers[i] \in R /\ a.peers[i] \in nd[l].ready
    BY <1>3 DEF Counted
  <2>2. nt[l].ready = nd[l].ready
    BY DEF TookOff
  <2>3. \A i \in 1 .. Len(Append(a.peers, e.peer)) :
          Append(a.peers, e.peer)[i] \in R /\ Append(a.peers, e.peer)[i] \in nt[l].ready
    BY <1>1, <1>2, <2>1, <2>2
  <2>4. b.peers = a.peers \/ b.peers = Append(a.peers, e.peer)
    BY <1>12, <1>14
  <2> QED BY <2>1, <2>2, <2>3, <2>4
<1>16. CASE b.at = "run"
  <2>1. b.at \in Early /\ b.at \notin Whispers /\ b.at \notin Shouts
    BY <1>16, StagesApart
  <2>2. Greetings(nt, l, R, b)
    BY <1>8, <1>9, <1>12, <1>14, <2>1 DEF Greetings
  <2>3. Counted(nt, l, R, b)
    BY <1>15, <2>1 DEF Counted
  <2>4. Books(nt, l, R, b)
    BY <1>10, <1>12, <1>14, <2>1 DEF Books
  <2> QED BY <2>1, <2>2, <2>3, <2>4 DEF Tally
<1>17. CASE b.at = "WHISPER" /\ Len(c.peers) = MaxNode /\ c.hello = MaxNode
  <2>1. b.at \in Whispers /\ b.at \notin Early /\ b.at \notin Shouts
    BY <1>17, StagesApart
  <2>2. V = R
    BY <1>4, <1>5, <1>12, <1>17
  <2>3. Greetings(nt, l, R, b)
    BY <1>8, <1>9, <2>1, <2>2 DEF Greetings
  <2>4. Counted(nt, l, R, b)
    BY <1>2, <1>4, <1>14, <1>15, <1>17, <2>1 DEF Counted
  <2>5. Books(nt, l, R, b)
    <3>1. b.sent = 0 /\ b.got = 0
      BY <1>12, <1>14
    <3> QED BY <1>10, <2>1, <3>1 DEF Books
  <2> QED BY <2>1, <2>3, <2>4, <2>5 DEF Tally
<1> QED BY <1>14, <1>16, <1>17

-----------------------------------------------------------------------------
(* perf_local sends                                                        *)

\* l has asked S.
Asked(nd, nt, l, R, S, at) ==
    /\ \A m \in R : Load(nt, l, R, at)[m] = Load(nd, l, R, at)[m] + (IF m \in S THEN 1 ELSE 0)
    /\ \A ta \in Talk \ {at} : Load(nt, l, R, ta) = Load(nd, l, R, ta)
    /\ \A m \in R : Greeting(nt, l, m) = Greeting(nd, l, m) /\ nt[m] = nd[m]
    /\ nt[l].ready = nd[l].ready /\ nt[l].member = nd[l].member

LEMMA LocalAsked ==
    ASSUME NEW rl, NEW nd, NEW l, NEW R, Scene(rl, nd, l, R), NEW S \in SUBSET R, NEW at \in Talk,
           NEW t, Speaks(nd[l], t, {}, S, Ask(at)), NEW nt, nt = [nd EXCEPT ![l] = t]
    PROVE  Asked(nd, nt, l, R, S, at)
<1>1. /\ R \subseteq Node \ {l} /\ l \in Node /\ nd \in [Node -> NodeState]
  BY SceneFacts DEF Tables
<1>2. nt[l] = t /\ \A y \in Node \ {l} : nt[y] = nd[y]
  BY <1>1
<1>3. \A ta \in Talk : /\ Ask(ta) \in Message /\ Ask(ta).id \in Talk
                       /\ Reply(ta) \in Message /\ Reply(ta).id \in Talk
  BY AskFacts
<1>4. PICK E : E = {}
  OBVIOUS
<1>5. PICK msg \in Message : msg = Ask(at)
  BY <1>3
<1>6. Flows(nd, nt, l, E, S, msg)
  BY <1>1, <1>4, <1>5, SpeaksFlight
<1>7. /\ \A p, n \in Node, y \in Message : y.id \in Talk => Flight(nd, p, n, y) \in Nat
      /\ \A p, n \in Node : Enters(nd, n, p) \in Nat
  BY Numbers
<1>8. ASSUME NEW m \in R, NEW y \in Message, y.id \in Talk
      PROVE  /\ Flight(nt, l, m, y) = Flight(nd, l, m, y) + (IF m \in S /\ msg = y THEN 1 ELSE 0)
             /\ Flight(nt, m, l, y) = Flight(nd, m, l, y)
             /\ Flight(nd, l, m, y) \in Nat /\ Flight(nd, m, l, y) \in Nat
  <2>1. m \in Node /\ m # l
    BY <1>1
  <2>2. /\ Flight(nt, l, m, y)
             = Flight(nd, l, m, y) + (IF l = l /\ m \in S /\ msg = y THEN 1 ELSE 0)
                                   - (IF m = l /\ Note(l, y) \in E THEN 1 ELSE 0)
        /\ Flight(nt, m, l, y)
             = Flight(nd, m, l, y) + (IF m = l /\ l \in S /\ msg = y THEN 1 ELSE 0)
                                   - (IF l = l /\ Note(m, y) \in E THEN 1 ELSE 0)
    BY <1>1, <1>6, <1>8, <2>1 DEF Flows
  <2>3. Flight(nd, l, m, y) \in Nat /\ Flight(nd, m, l, y) \in Nat
    BY <1>1, <1>7, <1>8, <2>1
  <2>4. Note(m, y) \notin E
    BY <1>4
  <2>5. Flight(nt, m, l, y) = Flight(nd, m, l, y)
    BY <2>1, <2>2, <2>3, <2>4
  <2>6. Flight(nt, l, m, y) = Flight(nd, l, m, y) + (IF m \in S /\ msg = y THEN 1 ELSE 0)
    BY <2>1, <2>2, <2>3
  <2> QED BY <2>3, <2>5, <2>6
<1>9. ASSUME NEW m \in R, NEW ta \in Talk
      PROVE  Load(nt, l, R, ta)[m]
               = Load(nd, l, R, ta)[m] + (IF m \in S /\ msg = Ask(ta) THEN 1 ELSE 0)
  <2>1. /\ Flight(nt, l, m, Ask(ta))
             = Flight(nd, l, m, Ask(ta)) + (IF m \in S /\ msg = Ask(ta) THEN 1 ELSE 0)
        /\ Flight(nd, l, m, Ask(ta)) \in Nat
        /\ Flight(nt, m, l, Reply(ta)) = Flight(nd, m, l, Reply(ta))
        /\ Flight(nd, m, l, Reply(ta)) \in Nat
    BY <1>3, <1>8
  <2>2. /\ Load(nt, l, R, ta)[m] = Flight(nt, l, m, Ask(ta)) + Flight(nt, m, l, Reply(ta))
        /\ Load(nd, l, R, ta)[m] = Flight(nd, l, m, Ask(ta)) + Flight(nd, m, l, Reply(ta))
    BY DEF Load
  <2>3. CASE m \in S /\ msg = Ask(ta)
    BY <2>1, <2>2, <2>3
  <2>4. CASE ~(m \in S /\ msg = Ask(ta))
    BY <2>1, <2>2, <2>4
  <2> QED BY <2>3, <2>4
<1>10. \A ta \in Talk \ {at} : Load(nt, l, R, ta) = Load(nd, l, R, ta)
  <2>1. SUFFICES ASSUME NEW ta \in Talk \ {at} PROVE Load(nt, l, R, ta) = Load(nd, l, R, ta)
    OBVIOUS
  <2>2. msg # Ask(ta)
    BY <1>1, <1>5, Differ DEF Talk
  <2>3. \A m \in R : /\ Flight(nt, l, m, Ask(ta)) = Flight(nd, l, m, Ask(ta))
                     /\ Flight(nt, m, l, Reply(ta)) = Flight(nd, m, l, Reply(ta))
    <3>1. SUFFICES ASSUME NEW m \in R
                   PROVE  /\ Flight(nt, l, m, Ask(ta)) = Flight(nd, l, m, Ask(ta))
                          /\ Flight(nt, m, l, Reply(ta)) = Flight(nd, m, l, Reply(ta))
      OBVIOUS
    <3>2. /\ Flight(nt, l, m, Ask(ta))
               = Flight(nd, l, m, Ask(ta)) + (IF m \in S /\ msg = Ask(ta) THEN 1 ELSE 0)
          /\ Flight(nd, l, m, Ask(ta)) \in Nat
          /\ Flight(nt, m, l, Reply(ta)) = Flight(nd, m, l, Reply(ta))
      BY <1>3, <1>8
    <3> QED BY <2>2, <3>2
  <2> QED BY <2>3 DEF Load
<1>11. \A m \in R : nt[m] = nd[m]
  BY <1>1, <1>2
<1>12. ASSUME NEW m \in R PROVE Greeting(nt, l, m) = Greeting(nd, l, m)
  <2>1. RHello \in Message /\ RHello.id \in Talk
    BY AskFacts DEF Talk
  <2>2. Flight(nt, m, l, RHello) = Flight(nd, m, l, RHello)
    BY <1>8, <2>1
  <2> QED BY <1>11, <2>2 DEF Greeting, Enters
<1>13. nt[l].ready = nd[l].ready /\ nt[l].member = nd[l].member
  BY <1>2 DEF Speaks, Alike
<1>14. \A m \in R : Load(nt, l, R, at)[m] = Load(nd, l, R, at)[m] + (IF m \in S THEN 1 ELSE 0)
  BY <1>5, <1>9
<1> QED BY <1>10, <1>11, <1>12, <1>13, <1>14 DEF Asked

\* What asking leaves alone.
LEMMA AskedRest ==
    ASSUME NEW nd, NEW nt, NEW l, NEW R, NEW S, NEW at, Asked(nd, nt, l, R, S, at),
           NEW a, Greetings(nd, l, R, a), Counted(nd, l, R, a), a.at \notin Early,
           NEW b, b.at \notin Early, b.peers = a.peers
    PROVE  Greetings(nt, l, R, b) /\ Counted(nt, l, R, b)
<1>1. Welcome(nt, l, R) = Welcome(nd, l, R)
  BY DEF Welcome, Asked
<1>2. /\ \A m \in R :
           /\ Greeting(nd, l, m) <= 1 /\ (l \notin nd[m].ready => Greeting(nd, l, m) = 0)
           /\ Greeting(nt, l, m) = Greeting(nd, l, m) /\ nt[m] = nd[m]
      /\ \A m \in Welcome(nd, l, R) : "GLOBAL" \in nd[l].member[m]
      /\ Welcome(nd, l, R) = R
      /\ nt[l].ready = nd[l].ready /\ nt[l].member = nd[l].member
  BY DEF Greetings, Asked
<1>3. Greetings(nt, l, R, b)
  BY <1>1, <1>2 DEF Greetings
<1>4. Counted(nt, l, R, b)
  BY <1>2 DEF Counted
<1> QED BY <1>3, <1>4

\* A WHISPER to one remote.
LEMMA WhisperTally ==
    ASSUME NEW rl, NEW nd, NEW l, NEW R, Scene(rl, nd, l, R), NEW nt, NEW p \in R,
           Asked(nd, nt, l, R, {p}, "WHISPER"), Scene(rl, nt, l, R),
           NEW a \in AppState, Tally(nd, l, R, a), a.at \in Whispers,
           NEW b, b.at \in Whispers, b.peers = a.peers, b.sent = a.sent + 1, b.got = a.got
    PROVE  Tally(nt, l, R, b)
<1>1. /\ Greetings(nd, l, R, a) /\ Counted(nd, l, R, a) /\ Books(nd, l, R, a)
      /\ a.got \in Nat /\ a.sent \in Nat
  BY DEF Tally, AppState
<1>2. a.at \notin Early /\ a.at \notin Shouts /\ b.at \notin Early /\ b.at \notin Shouts
  BY StagesApart
<1>3. Greetings(nt, l, R, b) /\ Counted(nt, l, R, b)
  BY <1>1, <1>2, AskedRest
<1>4. PICK u : u = Load(nd, l, R, "WHISPER")
  OBVIOUS
<1>5. PICK v : v = Load(nt, l, R, "WHISPER")
  OBVIOUS
<1>6. u \in [R -> Nat] /\ v \in [R -> Nat] /\ IsFiniteSet(R)
  BY <1>4, <1>5, Numbers, SceneFacts DEF Talk
<1>7. \A m \in R : v[m] = u[m] + (IF m \in {p} THEN 1 ELSE 0)
  BY <1>4, <1>5 DEF Asked
<1>8. Total(v) = Total(u) + 1
  <2>1. \A m \in R : u[m] \in Nat
    BY <1>6
  <2>2. v[p] = u[p] + 1 /\ \A m \in R \ {p} : v[m] = u[m]
    BY <1>7, <2>1
  <2> QED BY <1>6, <2>2, TotalMore
<1>9. Total(u) \in Nat
  BY <1>6, TotalFacts
<1>10. Load(nt, l, R, "SHOUT") = Load(nd, l, R, "SHOUT")
  BY DEF Asked, Talk
<1>11. a.got + Total(u) = a.sent /\ Total(Load(nd, l, R, "SHOUT")) = 0
  BY <1>1, <1>4 DEF Books
<1>12. b.got + Total(v) = b.sent
  BY <1>1, <1>8, <1>9, <1>11
<1>13. Books(nt, l, R, b)
  BY <1>2, <1>5, <1>10, <1>11, <1>12 DEF Books
<1> QED BY <1>3, <1>13 DEF Tally

\* A SHOUT to all of them.
LEMMA ShoutTally ==
    ASSUME NEW rl, NEW nd, NEW l, NEW R, Scene(rl, nd, l, R), NEW nt,
           Asked(nd, nt, l, R, R, "SHOUT"), Scene(rl, nt, l, R),
           NEW a \in AppState, Tally(nd, l, R, a), a.at \in Shouts,
           NEW b, b.at \in Shouts, b.peers = a.peers, b.sent = a.sent + 1, b.got = a.got
    PROVE  Tally(nt, l, R, b)
<1>1. /\ Greetings(nd, l, R, a) /\ Counted(nd, l, R, a) /\ Books(nd, l, R, a)
      /\ a.got \in Nat /\ a.sent \in Nat
  BY DEF Tally, AppState
<1>2. a.at \notin Early /\ a.at \notin Whispers /\ b.at \notin Early /\ b.at \notin Whispers
  BY StagesApart
<1>3. Greetings(nt, l, R, b) /\ Counted(nt, l, R, b)
  BY <1>1, <1>2, AskedRest
<1>4. PICK u : u = Load(nd, l, R, "SHOUT")
  OBVIOUS
<1>5. PICK v : v = Load(nt, l, R, "SHOUT")
  OBVIOUS
<1>6. /\ u \in [R -> Nat] /\ v \in [R -> Nat] /\ IsFiniteSet(R)
  BY <1>4, <1>5, Numbers, SceneFacts DEF Talk
<1>7. \A m \in R : v[m] = u[m] + 1
  BY <1>4, <1>5 DEF Asked
<1>8. Total(v) = Total(u) + Cardinality(R)
  BY <1>6, <1>7, TotalAll
<1>9. PICK N : N = Cardinality(R)
  OBVIOUS
<1>10. Total(u) \in Nat /\ N \in Nat
  BY <1>6, <1>9, TotalFacts, FS_CardinalityType
<1>11. a.got + Total(u) = a.sent * N
  BY <1>1, <1>4, <1>9 DEF Books
<1>12. (a.sent + 1) * N = a.sent * N + N
  BY <1>1, <1>10, Z3
<1>13. PICK k : k = a.sent * N
  OBVIOUS
<1>14. k \in Nat
  BY <1>1, <1>10, <1>11, <1>13
<1>15. b.got + Total(v) = k + N
  BY <1>1, <1>8, <1>9, <1>10, <1>11, <1>13, <1>14
<1>16. b.got + Total(v) = b.sent * N
  BY <1>12, <1>13, <1>15
<1>17. Books(nt, l, R, b)
  BY <1>2, <1>5, <1>9, <1>16 DEF Books
<1> QED BY <1>3, <1>17 DEF Tally

\* The second measurement begins: no SHOUT has been sent yet.
LEMMA SecondTally ==
    ASSUME NEW rl, NEW nd, NEW l, NEW R, Scene(rl, nd, l, R),
           NEW a \in AppState, Tally(nd, l, R, a), a.at \in Whispers,
           NEW b, b.at \in Shouts, b.peers = a.peers, b.sent = 0, b.got = 0
    PROVE  Tally(nd, l, R, b)
<1>1. /\ Greetings(nd, l, R, a) /\ Counted(nd, l, R, a) /\ Books(nd, l, R, a)
  BY DEF Tally
<1>2. a.at \notin Early /\ b.at \notin Early /\ b.at \notin Whispers
  BY StagesApart
<1>3. Greetings(nd, l, R, b) /\ Counted(nd, l, R, b)
  BY <1>1, <1>2 DEF Greetings, Counted
<1>4. Total(Load(nd, l, R, "SHOUT")) = 0
  BY <1>1 DEF Books
<1>5. Cardinality(R) \in Nat
  BY SceneFacts
<1>6. 0 * Cardinality(R) = 0
  BY <1>5
<1>7. Books(nd, l, R, b)
  BY <1>2, <1>4, <1>6 DEF Books
<1> QED BY <1>3, <1>7 DEF Tally

-----------------------------------------------------------------------------
(* perf_local runs with its remotes                                        *)

Perf(l) == Company(role, l, node) /\ Tally(node, l, Remotes, app[l])
Measurement == \A l \in Locals : app[l].at # "done" => Perf(l)

LEMMA SceneOf ==
    ASSUME Inv, NEW l \in Locals, Perf(l)
    PROVE  /\ Scene(role, node, l, Remotes) /\ Tally(node, l, Remotes, app[l])
           /\ app[l] \in AppState /\ l \in Node /\ role[l] = "local"
           /\ app \in [Node -> AppState] /\ node \in [Node -> NodeState]
           /\ \A m \in Remotes : Greeting(node, l, m) \in Nat
<1>1. l \in Node /\ role[l] = "local"
  BY DEF Locals
<1>2. World(role, node) /\ app \in [Node -> AppState] /\ node \in [Node -> NodeState]
  BY InvFacts
<1>3. Company(role, l, node) /\ Tally(node, l, Remotes, app[l])
  BY DEF Perf
<1>4. PICK R : R = Remotes
  OBVIOUS
<1>5. Scene(role, node, l, R)
  BY <1>1, <1>2, <1>3, <1>4 DEF Scene, Remotes
<1>6. \A m \in R : Greeting(node, l, m) \in Nat
  BY <1>5, Numbers
<1> QED BY <1>1, <1>2, <1>3, <1>4, <1>5, <1>6

LEMMA PerfNext ==
    ASSUME NEW l, role' = role, Company(role, l, node'), Tally(node', l, Remotes, app'[l])
    PROVE  Perf(l)'
<1>1. Remotes' = Remotes
  BY DEF Remotes
<1> QED BY <1>1 DEF Perf

\* A step of one process.
LEMMA PerfStep ==
    ASSUME Inv, NEW l \in Locals, Perf(l), NEW x \in Node, NEW t, node' = [node EXCEPT ![x] = t],
           role' = role, OneStep(role, l, node, x, t), Tally(node', l, Remotes, app'[l])
    PROVE  Perf(l)'
<1>1. node \in [Node -> NodeState] /\ Company(role, l, node)
  BY SceneOf DEF Perf
<1>2. Company(role, l, node')
  BY <1>1, CompanyStep
<1> QED BY <1>2, PerfNext

LEMMA PerfStill ==
    ASSUME Inv, NEW l \in Locals, Perf(l), NEW x \in Node, NEW t, node' = [node EXCEPT ![x] = t],
           role' = role, OneStep(role, l, node, x, t), Still(node, node', l, Remotes),
           Rests(app[l], app'[l])
    PROVE  Perf(l)'
<1>1. Tally(node', l, Remotes, app'[l])
  BY SceneOf, StillTally
<1> QED BY <1>1, PerfStep

\* The scene after a step.
LEMMA SceneNext ==
    ASSUME Inv', NEW l \in Locals, role' = role, Company(role, l, node')
    PROVE  Scene(role, node', l, Remotes)
<1>1. World(role', node')
  BY DEF Inv
<1>2. l \in Node /\ role[l] = "local"
  BY DEF Locals
<1> QED BY <1>1, <1>2 DEF Scene, Remotes

\* The network: a HELLO goes out, a message arrives.
LEMMA DiscoverPerf ==
    ASSUME Inv, NEW l \in Locals, Perf(l), NEW n \in Node, NEW m \in Node, Discover(n, m)
    PROVE  Perf(l)'
<1>1. /\ n # m /\ node[n].state = "up" /\ node[m].state = "up" /\ m \notin node[n].peers
      /\ role' = role /\ app' = app
  BY DEF Discover
<1>2. PICK s : s = node[n]
  OBVIOUS
<1> DEFINE t == RequirePeer(s, m)
<1>3. Good(n, s) /\ s \in NodeState /\ m \in Node \ {n} /\ m \notin s.peers
  BY <1>1, <1>2, InvFacts
<1>4. node' = [node EXCEPT ![n] = t]
  BY <1>2 DEF Discover
<1>5. Opened(s, t, m)
  BY <1>3, RequirePeerRest
<1>6. Good(n, t) /\ t.events = s.events /\ t.ready = s.ready /\ t.member = s.member
  BY <1>3, RequirePeerFacts
<1> HIDE DEF t
<1>7. /\ t.state = s.state /\ t.impatient = s.impatient /\ t.due = s.due /\ t.own = s.own
      /\ t.peers = s.peers \cup {m}
      /\ \A k \in Node \ {m} : t.out[k] = s.out[k]
      /\ t.out[m] = Append(s.out[m], Hello(s.own))
      /\ t \in NodeState /\ t.events = s.events /\ t.ready = s.ready /\ t.member = s.member
  BY <1>3, <1>5, <1>6 DEF Opened, Good
<1>8. Solo(role[n], s) /\ Company(role, l, node)
  BY <1>2 DEF Perf, Company
<1>9. OneStep(role, l, node, n, t)
  <2>1. Solo(role[n], t)
    BY <1>1, <1>2, <1>7, <1>8 DEF Solo
  <2>2. ASSUME NEW k \in Node \ {n} PROVE Utters(l, n, k, s, t, node[k])
    <3>1. CASE k = m
      BY <1>1, <1>3, <1>7, <3>1 DEF Utters
    <3>2. CASE k # m
      BY <1>7, <3>2 DEF Utters
    <3> QED BY <3>1, <3>2
  <2>3. \A p \in Node \ {n} : Nothing(s, t, p)
    BY <1>7 DEF Nothing
  <2> QED BY <1>2, <1>7, <2>1, <2>2, <2>3 DEF OneStep
<1>10. Mumbles(s, t)
  <2>1. Hello(s.own) \in Message /\ Hello(s.own).id \notin Talk
    BY <1>3 DEF Hello, Message, NodeState, Talk
  <2> QED BY <1>7, <2>1 DEF Mumbles
<1>11. Still(node, node', l, Remotes)
  BY <1>2, <1>4, <1>10, SceneOf, QuietStill
<1>12. Rests(app[l], app'[l])
  BY <1>1 DEF Rests
<1> QED BY <1>1, <1>4, <1>9, <1>11, <1>12, PerfStill

LEMMA DeliverPerf ==
    ASSUME Inv, NEW l \in Locals, Perf(l), NEW m \in Node, NEW n \in Node, Deliver(m, n)
    PROVE  Perf(l)'
<1>1. PICK s : s = [node[m] EXCEPT !.out[n] = Tail(@)]
  OBVIOUS
<1>2. PICK t : t = Recv(node[n], m, Head(node[m].out[n]))
  OBVIOUS
<1>3. /\ n \in Node \ {m} /\ node[m].out[n] # <<>> /\ role' = role /\ app' = app
      /\ Delivers(node, m, n, s, t, node')
  BY <1>1, <1>2, DeliverShape
<1>4. PICK nt : nt = node'
  OBVIOUS
<1>5. Delivers(node, m, n, s, t, nt)
  BY <1>3, <1>4
<1>6. PICK R : R = Remotes
  OBVIOUS
<1>7. /\ Scene(role, node, l, R) /\ Tally(node, l, R, app[l])
      /\ \A k \in R : Greeting(node, l, k) \in Nat
  BY <1>6, SceneOf
<1>8. Tables(node) /\ Company(role, l, node)
  BY <1>7, SceneFacts
<1>9. Company(role, l, nt)
  BY <1>3, <1>5, <1>8, CompanyArrives
<1>10. Greetings(node, l, R, app[l])
  BY <1>7 DEF Tally
<1>11. Still(node, nt, l, R)
  BY <1>3, <1>5, <1>7, <1>10, ArrivesStill
<1>12. Rests(app[l], app[l])
  BY DEF Rests
<1>13. Tally(nt, l, R, app[l])
  BY <1>7, <1>11, <1>12, StillTally
<1>14. app'[l] = app[l]
  BY <1>3
<1> QED BY <1>3, <1>4, <1>6, <1>9, <1>13, <1>14, PerfNext

\* at changes within a stage.
LEMMA AtRests ==
    ASSUME NEW a \in AppState, NEW at, NEW stage \in {Early, Whispers, Shouts},
           a.at \in stage, at \in stage
    PROVE  Rests(a, [a EXCEPT !.at = at])
<1>1. PICK b : b = [a EXCEPT !.at = at]
  OBVIOUS
<1>2. b.peers = a.peers /\ b.hello = a.hello /\ b.sent = a.sent /\ b.got = a.got /\ b.at = at
  BY <1>1 DEF AppState
<1>3. Rests(a, b)
  BY <1>2 DEF Rests
<1> QED BY <1>1, <1>3

\* A process begins and joins its room.
LEMMA BeginPerf ==
    ASSUME Inv, NEW l \in Locals, Perf(l), NEW n \in Node, Begin(n)
    PROVE  Perf(l)'
<1>1. PICK s : s = node[n]
  OBVIOUS
<1>2. PICK t : t = Start(s)
  OBVIOUS
<1>3. /\ app[n].at = "new" /\ role' = role /\ node' = [node EXCEPT ![n] = t]
      /\ app' = [app EXCEPT ![n] = [app[n] EXCEPT !.at = "join"]] /\ role[n] \in Messages
  BY <1>1, <1>2 DEF Begin, Goes
<1>4. /\ s \in NodeState /\ Company(role, l, node) /\ Solo(role[n], s)
      /\ app \in [Node -> AppState] /\ app[n] \in AppState
  BY <1>1, SceneOf, InvFacts DEF Perf, Company
<1>5. t \in NodeState /\ t.state = "up" /\ t.own = s.own /\ t.peers = s.peers /\ t.ready = s.ready
      /\ t.member = s.member /\ t.out = s.out /\ t.events = s.events
      /\ t.impatient = s.impatient /\ t.due = s.due
  BY <1>2, <1>4 DEF Start, NodeState
<1>6. OneStep(role, l, node, n, t)
  <2>1. role[n] # "none"
    BY <1>3 DEF Messages
  <2>2. Solo(role[n], t)
    BY <1>4, <1>5, <2>1 DEF Solo
  <2>3. \A k \in Node \ {n} : Utters(l, n, k, s, t, node[k])
    BY <1>5 DEF Utters
  <2>4. \A p \in Node \ {n} : Nothing(s, t, p)
    BY <1>5 DEF Nothing
  <2> QED BY <1>1, <1>5, <2>2, <2>3, <2>4 DEF OneStep
<1>7. Mumbles(s, t)
  BY <1>5 DEF Mumbles
<1>8. Still(node, node', l, Remotes)
  BY <1>1, <1>3, <1>7, SceneOf, QuietStill
<1>9. Rests(app[l], app'[l])
  <2>1. CASE n = l
    <3>1. app'[l] = [app[l] EXCEPT !.at = "join"] /\ app[l] \in AppState /\ app[l].at = "new"
      BY <1>3, <1>4, <2>1
    <3>2. Rests(app[l], [app[l] EXCEPT !.at = "join"])
      BY <3>1, AtRests, StagesApart
    <3> QED BY <3>1, <3>2
  <2>2. CASE n # l
    <3>1. app'[l] = app[l]
      BY <1>3, <1>4, <2>2 DEF Locals
    <3> QED BY <3>1 DEF Rests
  <2> QED BY <2>1, <2>2
<1> QED BY <1>1, <1>3, <1>6, <1>8, <1>9, PerfStill

\* Joining GLOBAL, which a node may say at any time.
LEMMA GlobalStep ==
    ASSUME NEW rl, NEW nd, NEW l, NEW R, Scene(rl, nd, l, R), NEW x \in Node,
           NEW t, t = Join(nd[x], "GLOBAL")
    PROVE  OneStep(rl, l, nd, x, t) /\ Mumbles(nd[x], t)
<1>1. PICK s : s = nd[x]
  OBVIOUS
<1>2. /\ s \in NodeState /\ Good(x, s) /\ Company(rl, l, nd) /\ Solo(rl[x], s)
      /\ s.own \in SUBSET Groups /\ s.own \cup {"GLOBAL"} \in SUBSET Groups
  BY <1>1, SceneFacts DEF Company, NodeState, Groups
<1>3. CASE "GLOBAL" \in s.own
  <2>1. t = s
    BY <1>1, <1>3 DEF Join
  <2>2. Mumbles(s, t)
    BY <1>2, <2>1 DEF Mumbles
  <2>3. OneStep(rl, l, nd, x, t)
    BY <1>1, <1>2, <2>1 DEF OneStep, Utters, Nothing
  <2> QED BY <1>1, <2>2, <2>3
<1>4. CASE "GLOBAL" \notin s.own
  <2> DEFINE u == [s EXCEPT !.own = s.own \cup {"GLOBAL"}]
  <2>1. PICK msg : msg = Msg("JOIN", "GLOBAL", Blank)
    OBVIOUS
  <2>2. t = Put(u, s.peers, msg)
    BY <1>1, <1>4, <2>1 DEF Join
  <2>3. /\ u \in NodeState /\ u.state = s.state /\ u.peers = s.peers /\ u.ready = s.ready
        /\ u.member = s.member /\ u.out = s.out /\ u.events = s.events
        /\ u.impatient = s.impatient /\ u.due = s.due
    BY <1>2 DEF NodeState
  <2> HIDE DEF u
  <2>4. \A k : msg \in Said(l, x, k)
    BY <2>1 DEF Said
  <2>5. msg \in Message /\ msg.id \notin Talk
    <3>1. msg \in Message
      BY <2>4, SaidFacts
    <3> QED BY <2>1, <3>1 DEF Msg, Talk
  <2>6. /\ t \in NodeState /\ Alike(u, t) /\ t.events = u.events
        /\ \A k \in Node : t.out[k] = IF k \in s.peers THEN Append(u.out[k], msg) ELSE u.out[k]
    BY <2>2, <2>3, <2>5, PutFacts
  <2>7. /\ t.state = s.state /\ t.peers = s.peers /\ t.ready = s.ready /\ t.member = s.member
        /\ t.events = s.events /\ t.impatient = s.impatient /\ t.due = s.due
    BY <2>3, <2>6 DEF Alike
  <2>8. \A k \in Node : t.out[k] = IF k \in s.peers THEN Append(s.out[k], msg) ELSE s.out[k]
    BY <2>3, <2>6
  <2>9. Mumbles(s, t)
    BY <2>5, <2>6, <2>7, <2>8 DEF Mumbles
  <2>10. ASSUME NEW k \in Node \ {x} PROVE Utters(l, x, k, s, t, nd[k])
    <3>1. CASE k \in s.peers
      BY <2>4, <2>7, <2>8, <3>1 DEF Utters
    <3>2. CASE k \notin s.peers
      BY <2>7, <2>8, <3>2 DEF Utters
    <3> QED BY <3>1, <3>2
  <2>11. Solo(rl[x], t)
    BY <1>2, <2>7 DEF Solo
  <2>12. \A p \in Node \ {x} : Nothing(s, t, p)
    BY <2>7 DEF Nothing
  <2>13. OneStep(rl, l, nd, x, t)
    BY <1>1, <2>6, <2>10, <2>11, <2>12 DEF OneStep
  <2> QED BY <1>1, <2>9, <2>13
<1> QED BY <1>3, <1>4

LEMMA JoinRoomPerf ==
    ASSUME Inv, NEW l \in Locals, Perf(l), NEW n \in Node, JoinRoom(n)
    PROVE  Perf(l)'
<1>1. /\ app[n].at = "join" /\ role[n] \in Messages /\ role' = role
      /\ app' = [app EXCEPT ![n] = [app[n] EXCEPT !.at = "run"]]
      /\ node' = [node EXCEPT ![n] = Join(node[n], Room(n))]
  BY DEF JoinRoom, Goes
<1>2. Company(role, l, node) /\ l \in Node /\ role[l] = "local"
  BY SceneOf DEF Perf
<1>3. Room(n) = "GLOBAL"
  <2>1. role[n] \in {"local", "remote", "none"}
    BY <1>2 DEF Company
  <2> QED BY <2>1 DEF Room
<1>4. PICK t : t = Join(node[n], "GLOBAL")
  OBVIOUS
<1>5. node' = [node EXCEPT ![n] = t]
  BY <1>1, <1>3, <1>4
<1>6. PICK R : R = Remotes
  OBVIOUS
<1>7. Scene(role, node, l, R)
  BY <1>6, SceneOf
<1>8. OneStep(role, l, node, n, t) /\ Mumbles(node[n], t)
  BY <1>4, <1>7, GlobalStep
<1>9. Still(node, node', l, Remotes)
  BY <1>5, <1>8, SceneOf, QuietStill
<1>10. Rests(app[l], app'[l])
  <2>1. app \in [Node -> AppState] /\ app[l] \in AppState
    BY SceneOf
  <2>2. CASE n = l
    <3>1. Rests(app[l], [app[l] EXCEPT !.at = "run"])
      BY <1>1, <2>1, <2>2, AtRests, StagesApart
    <3> QED BY <1>1, <1>2, <2>1, <2>2, <3>1
  <2>3. CASE n # l
    <3>1. app'[l] = app[l]
      BY <1>1, <1>2, <2>1, <2>3
    <3> QED BY <3>1 DEF Rests
  <2> QED BY <2>2, <2>3
<1> QED BY <1>1, <1>5, <1>8, <1>9, <1>10, PerfStill

LEMMA RemoteTakesPerf ==
    ASSUME Inv, NEW l \in Locals, Perf(l), NEW n \in Node, RemoteTakes(n)
    PROVE  Perf(l)'
<1>1. /\ role[n] = "remote" /\ node[n].events # <<>> /\ role' = role
      /\ app' = [app EXCEPT ![n] = app[n]]
      /\ node' = [node EXCEPT ![n] = RemoteAnswer(Taken(node[n]), Head(node[n].events))]
  BY DEF RemoteTakes, Goes, At, Waiting, First
<1>2. PICK t : t = RemoteAnswer(Taken(node[n]), Head(node[n].events))
  OBVIOUS
<1>3. PICK R : R = Remotes
  OBVIOUS
<1>4. Scene(role, node, l, R) /\ n \in R /\ app \in [Node -> AppState]
  BY <1>1, <1>3, SceneOf DEF Remotes
<1>5. PICK nt : nt = [node EXCEPT ![n] = t]
  OBVIOUS
<1>6. Still(node, nt, l, R) /\ OneStep(role, l, node, n, t)
  BY <1>1, <1>2, <1>4, <1>5, RemoteMoves
<1>7. Still(node, node', l, Remotes) /\ node' = [node EXCEPT ![n] = t]
  BY <1>1, <1>2, <1>3, <1>5, <1>6
<1>8. Rests(app[l], app'[l])
  BY <1>1, <1>4 DEF Rests
<1> QED BY <1>1, <1>6, <1>7, <1>8, PerfStill

-----------------------------------------------------------------------------
(* perf_local's steps                                                      *)

\* What l takes: its node after that.
LEMMA LocalTakes ==
    ASSUME Inv, Inv', NEW l \in Locals, Perf(l), Waiting(l), NEW b, Goes(l, b, Taken(node[l])),
           NEW R, R = Remotes, NEW e, e = First(l)
    PROVE  /\ Company(role, l, node') /\ role' = role /\ app'[l] = b
           /\ node[l].events # <<>> /\ e = Head(node[l].events)
           /\ TookOff(node, node', l, R, e)
<1>1. /\ node[l].events # <<>> /\ e = Head(node[l].events) /\ role' = role
      /\ node' = [node EXCEPT ![l] = Taken(node[l])] /\ app' = [app EXCEPT ![l] = b]
  BY DEF Waiting, First, Goes
<1>2. /\ Scene(role, node, l, R) /\ l \in Node /\ node \in [Node -> NodeState]
      /\ app \in [Node -> AppState] /\ Company(role, l, node)
  BY SceneOf DEF Perf
<1>3. PICK t : t = Taken(node[l])
  OBVIOUS
<1>4. PICK E : E = {e}
  OBVIOUS
<1>5. PICK S : S = {}
  OBVIOUS
<1>6. RHello \in Message
  BY AskFacts DEF Talk
<1>7. Speaks(node[l], t, E, S, RHello)
  BY <1>1, <1>2, <1>3, <1>4, <1>5, <1>6, PutSpeaks
<1>8. S \subseteq node[l].peers /\ \A k \in S : RHello \in Said(l, l, k)
  BY <1>5
<1>9. OneStep(role, l, node, l, t)
  BY <1>2, <1>7, <1>8, SpeaksStep
<1>10. Company(role, l, [node EXCEPT ![l] = t])
  BY <1>2, <1>9, CompanyStep
<1>11. Company(role, l, node')
  BY <1>1, <1>3, <1>10
<1>12. Scene(role, node', l, R)
  BY <1>1, <1>11, SceneNext
<1>13. PICK nt : nt = node'
  OBVIOUS
<1>14. Scene(role, nt, l, R) /\ nt = [node EXCEPT ![l] = Taken(node[l])]
  BY <1>1, <1>12, <1>13
<1>15. TookOff(node, nt, l, R, e)
  BY <1>1, <1>2, <1>14, LocalTook
<1> QED BY <1>1, <1>2, <1>11, <1>13, <1>15

LEMMA LocalGreetsPerf ==
    ASSUME Inv, Inv', NEW l \in Locals, Perf(l), LocalGreets(l)
    PROVE  Perf(l)'
<1>1. PICK R : R = Remotes
  OBVIOUS
<1>2. PICK e : e = First(l)
  OBVIOUS
<1>3. PICK b : b = Greet(app[l], e)
  OBVIOUS
<1>4. app[l].at = "run" /\ Waiting(l) /\ Goes(l, b, Taken(node[l]))
  BY <1>2, <1>3 DEF LocalGreets, At
<1>5. /\ Company(role, l, node') /\ role' = role /\ app'[l] = b
      /\ node[l].events # <<>> /\ e = Head(node[l].events) /\ TookOff(node, node', l, R, e)
  BY <1>1, <1>2, <1>4, LocalTakes
<1>6. Scene(role, node, l, R) /\ app[l] \in AppState /\ Tally(node, l, R, app[l])
  BY <1>1, SceneOf
<1>7. PICK nt : nt = node'
  OBVIOUS
<1>8. PICK a : a = app[l]
  OBVIOUS
<1>9. TookOff(node, nt, l, R, e) /\ a \in AppState /\ a.at = "run" /\ Tally(node, l, R, a)
      /\ b = Greet(a, e)
  BY <1>3, <1>4, <1>5, <1>6, <1>7, <1>8
<1>10. Tally(nt, l, R, b)
  BY <1>1, <1>5, <1>6, <1>9, GreetTally
<1>11. Tally(node', l, Remotes, app'[l])
  BY <1>1, <1>5, <1>7, <1>10
<1> QED BY <1>5, <1>11, PerfNext

\* s_node_recv within a measurement.
LEMMA RecvPerf ==
    ASSUME Inv, Inv', NEW l \in Locals, Perf(l), NEW at \in Talk, Waiting(l),
           app[l].at \in (IF at = "WHISPER" THEN Whispers ELSE Shouts),
           Goes(l, NodeRecv(app[l], at, First(l)), Taken(node[l]))
    PROVE  Perf(l)'
<1>1. PICK R : R = Remotes
  OBVIOUS
<1>2. PICK e : e = First(l)
  OBVIOUS
<1>3. PICK b : b = NodeRecv(app[l], at, e)
  OBVIOUS
<1>4. Goes(l, b, Taken(node[l]))
  BY <1>2, <1>3
<1>5. /\ Company(role, l, node') /\ role' = role /\ app'[l] = b
      /\ node[l].events # <<>> /\ e = Head(node[l].events) /\ TookOff(node, node', l, R, e)
  BY <1>1, <1>2, <1>4, LocalTakes
<1>6. Scene(role, node, l, R) /\ app[l] \in AppState /\ Tally(node, l, R, app[l])
  BY <1>1, SceneOf
<1>7. PICK nt : nt = node'
  OBVIOUS
<1>8. PICK a : a = app[l]
  OBVIOUS
<1>9. /\ TookOff(node, nt, l, R, e) /\ a \in AppState /\ Tally(node, l, R, a)
      /\ a.at \in (IF at = "WHISPER" THEN Whispers ELSE Shouts) /\ b = NodeRecv(a, at, e)
  BY <1>3, <1>5, <1>6, <1>7, <1>8
<1>10. Tally(nt, l, R, b)
  BY <1>5, <1>6, <1>9, RecvTally
<1>11. Tally(node', l, Remotes, app'[l])
  BY <1>1, <1>5, <1>7, <1>10
<1> QED BY <1>5, <1>11, PerfNext


LEMMA LocalStays ==
    ASSUME Inv, NEW l \in Locals, Perf(l), NEW b, Goes(l, b, node[l]), Tally(node, l, Remotes, b)
    PROVE  Perf(l)'
<1>1. /\ node \in [Node -> NodeState] /\ app \in [Node -> AppState] /\ l \in Node
      /\ Company(role, l, node)
  BY SceneOf DEF Perf
<1>2. node' = node /\ app'[l] = b /\ role' = role
  BY <1>1 DEF Goes
<1> QED BY <1>1, <1>2, PerfNext

LEMMA StillReflexive ==
    ASSUME NEW nd, NEW l, NEW R PROVE Still(nd, nd, l, R)
BY DEF Still

LEMMA DrainsPerf ==
    ASSUME Inv, Inv', NEW l \in Locals, Perf(l), NEW at \in Talk, NEW drain,
           NEW stage, stage = IF at = "WHISPER" THEN Whispers ELSE Shouts,
           at \in stage, drain \in stage, Drains(l, at, drain)
    PROVE  Perf(l)'
<1>1. app[l].at = drain
  BY DEF Drains, At
<1>2. CASE Waiting(l)
  <2>1. Goes(l, NodeRecv(app[l], at, First(l)), Taken(node[l]))
    BY <1>2 DEF Drains
  <2> QED BY <1>1, <1>2, <2>1, RecvPerf
<1>3. CASE ~Waiting(l)
  <2>1. PICK b : b = [app[l] EXCEPT !.at = at]
    OBVIOUS
  <2>2. Goes(l, b, node[l])
    BY <1>3, <2>1 DEF Drains
  <2>3. app[l] \in AppState
    BY SceneOf
  <2>4. stage \in {Early, Whispers, Shouts}
    OBVIOUS
  <2>5. Rests(app[l], b)
    BY <1>1, <2>1, <2>3, <2>4, AtRests
  <2>6. Tally(node, l, Remotes, b)
    BY <2>5, SceneOf, StillReflexive, StillTally
  <2> QED BY <2>2, <2>6, LocalStays
<1> QED BY <1>2, <1>3

LEMMA SecondPerf ==
    ASSUME Inv, NEW l \in Locals, Perf(l), SecondMeasurement(l)
    PROVE  Perf(l)'
<1>1. PICK a : a = app[l]
  OBVIOUS
<1>2. PICK b : b = [a EXCEPT !.at = "SHOUT", !.sent = 0, !.got = 0]
  OBVIOUS
<1>3. a.at = "WHISPER" /\ Goes(l, b, node[l])
  BY <1>1, <1>2 DEF SecondMeasurement, Measured, At
<1>4. PICK R : R = Remotes
  OBVIOUS
<1>5. Scene(role, node, l, R) /\ a \in AppState /\ Tally(node, l, R, a)
  BY <1>1, <1>4, SceneOf
<1>6. b.at = "SHOUT" /\ b.peers = a.peers /\ b.sent = 0 /\ b.got = 0
  BY <1>2, <1>5 DEF AppState
<1>7. a.at \in Whispers /\ b.at \in Shouts
  BY <1>3, <1>6, StagesApart
<1>8. Tally(node, l, R, b)
  BY <1>5, <1>6, <1>7, SecondTally
<1> QED BY <1>3, <1>4, <1>8, LocalStays

\* perf_local asks those in S.
LEMMA LocalSpeaks ==
    ASSUME Inv, Inv', NEW l \in Locals, Perf(l), NEW at \in Talk, NEW R, R = Remotes,
           NEW S \in SUBSET R, S \subseteq node[l].peers,
           NEW b, Goes(l, b, Put(node[l], S, Ask(at)))
    PROVE  /\ Company(role, l, node') /\ role' = role /\ app'[l] = b
           /\ Asked(node, node', l, R, S, at) /\ Scene(role, node', l, R)
<1>1. PICK t : t = Put(node[l], S, Ask(at))
  OBVIOUS
<1>2. /\ role' = role /\ node' = [node EXCEPT ![l] = t] /\ app' = [app EXCEPT ![l] = b]
  BY <1>1 DEF Goes
<1>3. /\ Scene(role, node, l, R) /\ l \in Node /\ node \in [Node -> NodeState]
      /\ node[l] \in NodeState /\ app \in [Node -> AppState] /\ Company(role, l, node)
  BY SceneOf DEF Perf
<1>4. PICK msg : msg = Ask(at)
  OBVIOUS
<1>5. msg \in Message
  BY <1>4, AskFacts
<1>6. Speaks(node[l], t, {}, S, msg)
  BY <1>1, <1>3, <1>4, <1>5, PutSpeaks
<1>7. \A k : msg \in Said(l, l, k)
  BY <1>4 DEF Talk, Ask, Addressed, Question, Said
<1>8. PICK E : E = {}
  OBVIOUS
<1>9. Speaks(node[l], t, E, S, msg) /\ \A k \in S : msg \in Said(l, l, k)
  BY <1>6, <1>7, <1>8
<1>10. OneStep(role, l, node, l, t)
  BY <1>3, <1>9, SpeaksStep
<1>11. Company(role, l, [node EXCEPT ![l] = t])
  BY <1>3, <1>10, CompanyStep
<1>12. Company(role, l, node')
  BY <1>2, <1>11
<1>13. Scene(role, node', l, R)
  BY <1>2, <1>12, SceneNext
<1>14. Speaks(node[l], t, {}, S, Ask(at))
  BY <1>4, <1>6
<1>15. PICK nt : nt = node'
  OBVIOUS
<1>16. nt = [node EXCEPT ![l] = t]
  BY <1>2, <1>15
<1>17. Asked(node, nt, l, R, S, at)
  BY <1>3, <1>14, <1>16, LocalAsked
<1> QED BY <1>2, <1>3, <1>12, <1>13, <1>15, <1>17

LEMMA WhispersPerf ==
    ASSUME Inv, Inv', NEW l \in Locals, Perf(l), Sends(l, "WHISPER", "whispered")
    PROVE  Perf(l)'
<1>1. PICK a : a = app[l]
  OBVIOUS
<1>2. PICK b : b = [a EXCEPT !.at = "whispered", !.sent = @ + 1]
  OBVIOUS
<1>3. PICK p : p = a.peers[(a.sent % MaxNode) + 1]
  OBVIOUS
<1>4. /\ a.at = "WHISPER"
      /\ Goes(l, b, Put(node[l], node[l].peers \cap {p}, Msg("WHISPER", Blank, "S:WHISPER")))
  BY <1>1, <1>2, <1>3 DEF Sends, At, Whisper
<1>5. PICK R : R = Remotes
  OBVIOUS
<1>6. Scene(role, node, l, R) /\ a \in AppState /\ Tally(node, l, R, a)
  BY <1>1, <1>5, SceneOf
<1>7. a.at \in Whispers /\ a.at \notin Early /\ "whispered" \in Whispers
  BY <1>4, StagesApart
<1>8. p \in R /\ p \in node[l].ready
  <2>1. /\ \A i \in 1 .. Len(a.peers) : a.peers[i] \in R /\ a.peers[i] \in node[l].ready
        /\ R # {} /\ Len(a.peers) = Cardinality(R)
    BY <1>6, <1>7 DEF Tally, Counted
  <2>2. MaxNode \in Nat /\ MaxNode # 0 /\ MaxNode = Cardinality(R)
    <3>1. MaxNode \in Nat /\ IsFiniteSet(Remotes)
      BY RemotesFacts
    <3>2. Cardinality(R) # 0
      BY <1>5, <2>1, <3>1, FS_EmptySet
    <3> QED BY <1>5, <3>1, <3>2 DEF MaxNode
  <2>3. PICK i : i = (a.sent % MaxNode) + 1
    OBVIOUS
  <2>4. a.sent \in Nat
    BY <1>6 DEF AppState
  <2>5. a.sent % MaxNode \in 0 .. (MaxNode - 1)
    BY <2>2, <2>4
  <2>6. i \in 1 .. Len(a.peers)
    BY <2>1, <2>2, <2>3, <2>5
  <2> QED BY <1>3, <2>1, <2>3, <2>6
<1>9. PICK S : S = {p}
  OBVIOUS
<1>10. node[l].peers \cap {p} = S /\ S \in SUBSET R /\ S \subseteq node[l].peers
  <2>1. Good(l, node[l])
    BY SceneOf, InvFacts
  <2> QED BY <1>8, <1>9, <2>1 DEF Good
<1>11. Msg("WHISPER", Blank, "S:WHISPER") = Ask("WHISPER")
  BY DEF Ask, Addressed, Question
<1>12. PICK at \in Talk : at = "WHISPER"
  BY DEF Talk
<1>13. Goes(l, b, Put(node[l], S, Ask(at)))
  BY <1>4, <1>10, <1>11, <1>12
<1>14. PICK nt : nt = node'
  OBVIOUS
<1>15. /\ Company(role, l, node') /\ role' = role /\ app'[l] = b
       /\ Asked(node, node', l, R, S, at) /\ Scene(role, node', l, R)
  BY <1>5, <1>10, <1>13, LocalSpeaks
<1>16. Asked(node, nt, l, R, {p}, "WHISPER") /\ Scene(role, nt, l, R)
  BY <1>9, <1>12, <1>14, <1>15
<1>17. b.at = "whispered" /\ b.peers = a.peers /\ b.sent = a.sent + 1 /\ b.got = a.got
  BY <1>2, <1>6 DEF AppState
<1>18. Tally(nt, l, R, b)
  BY <1>6, <1>7, <1>8, <1>16, <1>17, WhisperTally
<1> QED BY <1>5, <1>14, <1>15, <1>18, PerfNext

LEMMA ShoutsPerf ==
    ASSUME Inv, Inv', NEW l \in Locals, Perf(l), Sends(l, "SHOUT", "shouted")
    PROVE  Perf(l)'
<1>1. PICK a : a = app[l]
  OBVIOUS
<1>2. PICK b : b = [a EXCEPT !.at = "shouted", !.sent = @ + 1]
  OBVIOUS
<1>3. /\ a.at = "SHOUT"
      /\ Goes(l, b, Put(node[l], InGroup(node[l], "GLOBAL"), Msg("SHOUT", "GLOBAL", "S:SHOUT")))
  BY <1>1, <1>2 DEF Sends, At, Shout
<1>4. PICK R : R = Remotes
  OBVIOUS
<1>5. Scene(role, node, l, R) /\ a \in AppState /\ Tally(node, l, R, a)
  BY <1>1, <1>4, SceneOf
<1>6. a.at \in Shouts /\ a.at \notin Early /\ "shouted" \in Shouts
  BY <1>3, StagesApart
<1>7. PICK s : s = node[l]
  OBVIOUS
<1>8. Good(l, s) /\ s.peers \subseteq R
  BY <1>5, <1>7, SceneFacts
<1>9. \A m \in R : "GLOBAL" \in s.member[m]
  BY <1>5, <1>6, <1>7 DEF Tally, Greetings
<1>10. InGroup(s, "GLOBAL") = R /\ R \subseteq s.peers
  <2>1. \A m \in Node : "GLOBAL" \in s.member[m] => m \in s.ready /\ m \in s.peers
    BY <1>8 DEF Good
  <2>2. R \subseteq Node
    BY <1>4 DEF Remotes
  <2> QED BY <1>8, <1>9, <2>1, <2>2 DEF InGroup
<1>11. Msg("SHOUT", "GLOBAL", "S:SHOUT") = Ask("SHOUT")
  BY DEF Ask, Addressed, Question
<1>12. PICK at \in Talk : at = "SHOUT"
  BY DEF Talk
<1>13. Goes(l, b, Put(node[l], R, Ask(at))) /\ R \in SUBSET R /\ R \subseteq node[l].peers
  BY <1>3, <1>7, <1>10, <1>11, <1>12
<1>14. PICK nt : nt = node'
  OBVIOUS
<1>15. /\ Company(role, l, node') /\ role' = role /\ app'[l] = b
       /\ Asked(node, node', l, R, R, at) /\ Scene(role, node', l, R)
  BY <1>4, <1>13, LocalSpeaks
<1>16. Asked(node, nt, l, R, R, "SHOUT") /\ Scene(role, nt, l, R)
  BY <1>12, <1>14, <1>15
<1>17. b.at = "shouted" /\ b.peers = a.peers /\ b.sent = a.sent + 1 /\ b.got = a.got
  BY <1>2, <1>5 DEF AppState
<1>18. Tally(nt, l, R, b)
  BY <1>5, <1>6, <1>16, <1>17, ShoutTally
<1> QED BY <1>4, <1>14, <1>15, <1>18, PerfNext

\* A step of perf_local, its last aside.
LEMMA PerfLocalPerf ==
    ASSUME Inv, Inv', NEW l \in Locals, Perf(l), PerfLocal(l)
    PROVE  Perf(l)' \/ app'[l].at = "done"
<1>1. CASE LocalGreets(l)
  BY <1>1, LocalGreetsPerf
<1>2. CASE SecondMeasurement(l)
  BY <1>2, SecondPerf
<1>3. CASE LocalEnds(l)
  <2>1. app' = [app EXCEPT ![l].at = "done"]
    BY <1>3 DEF LocalEnds, Ends
  <2>2. app \in [Node -> AppState] /\ l \in Node /\ app[l] \in AppState
    BY SceneOf
  <2>3. app'[l].at = "done"
    BY <2>1, <2>2 DEF AppState
  <2> QED BY <2>3
<1>4. CASE Sends(l, "WHISPER", "whispered")
  BY <1>4, WhispersPerf
<1>5. CASE Sends(l, "SHOUT", "shouted")
  BY <1>5, ShoutsPerf
<1>6. PICK W : W = Whispers
  OBVIOUS
<1>7. PICK S : S = Shouts
  OBVIOUS
<1>8. CASE Drains(l, "WHISPER", "whispered")
  BY <1>6, <1>8, DrainsPerf, StagesApart DEF Talk
<1>9. CASE Drains(l, "SHOUT", "shouted")
  BY <1>7, <1>9, DrainsPerf, StagesApart DEF Talk
<1>10. ASSUME NEW at \in Talk, Awaits(l, at) PROVE Perf(l)'
  <2>1. /\ app[l].at = at /\ Waiting(l)
        /\ Goes(l, NodeRecv(app[l], at, First(l)), Taken(node[l]))
    BY <1>10 DEF Awaits, At
  <2>2. app[l].at \in (IF at = "WHISPER" THEN Whispers ELSE Shouts)
    BY <2>1, StagesApart DEF Talk
  <2> QED BY <2>1, <2>2, RecvPerf
<1> QED BY <1>1, <1>2, <1>3, <1>4, <1>5, <1>8, <1>9, <1>10 DEF PerfLocal, Talk

-----------------------------------------------------------------------------
(* Every step of the programs that measure                                 *)

\* Who runs with perf_local.
LEMMA Measurers ==
    ASSUME role \in Programs, NEW l \in Locals
    PROVE  /\ \A n \in Node : role[n] \in {"local", "remote", "none"}
           /\ \A n \in Node : role[n] = "local" => n = l
<1>1. l \in Node /\ role[l] = "local"
  BY DEF Locals
<1>2. \A m \in Node \ {l} : role[m] \in {"remote", "none"}
  BY <1>1, Apart
<1> QED BY <1>1, <1>2

Meeting(n, m) == Discover(n, m) \/ Deliver(m, n) \/ Expire(n, m) \/ Evasive(n, m)

LEMMA MeasuringSteps ==
    ASSUME Inv, role \in Programs, NEW l \in Locals, [Next]_vars
    PROVE  \/ UNCHANGED vars
           \/ \E n \in Node : \E m \in Node : Meeting(n, m)
           \/ \E n \in Node : Begin(n) \/ JoinRoom(n) \/ RemoteTakes(n) \/ RemoteStopped(n)
           \/ PerfLocal(l)
<1>1. /\ \A n \in Node : role[n] \in {"local", "remote", "none"}
      /\ \A n \in Node : role[n] = "local" => n = l
  BY Measurers
<1>2. ~SelfTest
  <2>1. ~Running
    <3>1. Main
      BY DEF Inv
    <3> QED BY <1>1, <3>1 DEF Running, Main
  <2> QED BY <2>1 DEF SelfTest, TestCalls, TestDestroys, TestSleeps, TestReceives, TestChecks
<1>3. ~Tester
  <2>1. ~Testing
    BY <1>1 DEF Testing
  <2> QED BY <2>1 DEF Tester, ToggleOn, ToggleOff, StopRemaining, ActorEnded, TesterEnds, Free
<1>4. \A n \in Node : ~ActorTerm(n) /\ ~Chance(n)
  BY <1>1 DEF ActorTerm, Chance, PingerInterrupted, TypeLine, EndOfFile, ActorMoves,
     ActorGivesUp, At
<1>5. ASSUME NEW n \in Node, Program(n)
      PROVE  Begin(n) \/ JoinRoom(n) \/ RemoteTakes(n) \/ RemoteStopped(n) \/ PerfLocal(l)
  <2>1. ~PingerTakes(n) /\ ~ChatCommand(n) /\ ~ChatPrints(n) /\ ~Minimal(n) /\ ~ActorTakes(n)
    BY <1>1 DEF PingerTakes, ChatCommand, ChatPrints, Minimal, MinimalShouts, MinimalSleeps,
       MinimalReceives, ActorTakes, At
  <2>2. ~Stops(n) /\ ~Closes(n)
    BY <1>1 DEF Stops, Closes
  <2>3. PerfLocal(n) => role[n] = "local"
    BY DEF PerfLocal, LocalGreets, Sends, Drains, Awaits, SecondMeasurement, LocalEnds,
       Measured, At
  <2>4. PerfLocal(n) => PerfLocal(l)
    BY <1>1, <2>3
  <2> QED BY <1>5, <2>1, <2>2, <2>4 DEF Program
<1>6. ASSUME NEW n \in Node, Network(n) PROVE \E m \in Node : Meeting(n, m)
  BY <1>6 DEF Network, Meeting
<1> QED BY <1>2, <1>3, <1>4, <1>5, <1>6 DEF Next, Work

\* Nobody is silent as long as perf_local runs, no timer runs, no remote stops.
LEMMA Meets ==
    ASSUME Inv, NEW l \in Locals, Perf(l), NEW n \in Node, NEW m \in Node, Meeting(n, m)
    PROVE  Discover(n, m) \/ Deliver(m, n)
<1>1. \A x \in Node : node[x].state \in {"new", "up"} /\ node[x].due = {}
  BY DEF Perf, Company, Solo
<1> QED BY <1>1 DEF Meeting, Expire, Evasive

\* A perf_local that has ended stays so.
LEMMA DoneStays ==
    ASSUME Inv, role \in Programs, NEW l \in Locals, [Next]_vars, app[l].at = "done"
    PROVE  app'[l].at = "done"
<1>1. /\ app \in [Node -> AppState] /\ l \in Node /\ role[l] = "local"
  BY InvFacts DEF Locals
<1>2. CASE UNCHANGED vars
  BY <1>2 DEF vars
<1>3. ASSUME NEW n \in Node, NEW m \in Node, Meeting(n, m) PROVE app' = app
  BY <1>3 DEF Meeting, Discover, Deliver, Expire, Evasive
<1>4. ASSUME NEW n \in Node, Begin(n) \/ JoinRoom(n) \/ RemoteTakes(n) \/ RemoteStopped(n)
      PROVE  n # l /\ app'[l] = app[l]
  <2>1. n # l
    BY <1>1, <1>4 DEF Begin, JoinRoom, RemoteTakes, RemoteStopped, At
  <2>2. app'[l] = app[l]
    BY <1>1, <1>4, <2>1 DEF Begin, JoinRoom, RemoteTakes, RemoteStopped, Goes, Ends
  <2> QED BY <2>1, <2>2
<1>5. ~PerfLocal(l)
  BY DEF PerfLocal, LocalGreets, Sends, Drains, Awaits, SecondMeasurement, LocalEnds,
     Measured, At
<1> QED BY <1>2, <1>3, <1>4, <1>5, MeasuringSteps

LEMMA PerfSteps ==
    ASSUME Inv, Inv', role \in Programs, NEW l \in Locals, [Next]_vars, Perf(l),
           app[l].at # "done"
    PROVE  Perf(l)' \/ app'[l].at = "done"
<1>1. CASE UNCHANGED vars
  <2>1. role' = role /\ node' = node /\ app' = app /\ Remotes' = Remotes
    BY <1>1 DEF vars, Remotes
  <2> QED BY <2>1 DEF Perf
<1>2. ASSUME NEW n \in Node, NEW m \in Node, Meeting(n, m) PROVE Perf(l)'
  BY <1>2, Meets, DiscoverPerf, DeliverPerf
<1>3. ASSUME NEW n \in Node, Begin(n) \/ JoinRoom(n) \/ RemoteTakes(n) PROVE Perf(l)'
  BY <1>3, BeginPerf, JoinRoomPerf, RemoteTakesPerf
<1>4. ASSUME NEW n \in Node PROVE ~RemoteStopped(n)
  BY DEF RemoteStopped
<1>5. CASE PerfLocal(l)
  BY <1>5, PerfLocalPerf
<1> QED BY <1>1, <1>2, <1>3, <1>4, <1>5, MeasuringSteps

LEMMA RoleStays ==
    ASSUME [Next]_vars PROVE role' = role
<1>1. ASSUME SelfTest PROVE role' = role
  BY <1>1 DEF SelfTest, TestCalls, TestDestroys, TestSleeps, TestReceives, TestChecks, Asserted
<1>2. ASSUME Tester PROVE role' = role
  BY <1>2 DEF Tester, ToggleOn, ToggleOff, StopRemaining, ActorEnded, TesterEnds, Terminate
<1>3. ASSUME NEW n \in Node, NEW m \in Node, Meeting(n, m) PROVE role' = role
  BY <1>3 DEF Meeting, Discover, Deliver, Expire, Evasive
<1>4. ASSUME NEW n \in Node, PerfLocal(n) PROVE role' = role
  BY <1>4 DEF PerfLocal, LocalGreets, Sends, Drains, Awaits, SecondMeasurement, LocalEnds,
     Goes, Ends
<1>5. ASSUME NEW n \in Node, Program(n) PROVE role' = role
  BY <1>4, <1>5 DEF Program, Begin, JoinRoom, RemoteTakes, RemoteStopped, PingerTakes,
     ChatCommand, ChatPrints, Stops, Closes, Minimal, MinimalShouts, MinimalSleeps,
     MinimalReceives, ActorTakes, Goes, Ends
<1>6. ASSUME NEW n \in Node, ActorTerm(n) \/ Chance(n) PROVE role' = role
  BY <1>6 DEF ActorTerm, Chance, PingerInterrupted, TypeLine, EndOfFile, ActorMoves,
     ActorGivesUp, Goes, Ends
<1> QED BY <1>1, <1>2, <1>3, <1>5, <1>6 DEF Next, Work, Network, Meeting, vars

LEMMA MeasurementStep ==
    ASSUME Inv, Inv', role \in Programs, Measurement, [Next]_vars
    PROVE  (role \in Programs /\ Measurement)'
<1>1. role' = role
  BY RoleStays
<1>2. SUFFICES ASSUME NEW l \in Locals, app'[l].at # "done" PROVE Perf(l)'
  BY <1>1 DEF Measurement, Locals
<1>3. app[l].at # "done"
  BY <1>2, DoneStays
<1>4. Perf(l)
  BY <1>3 DEF Measurement
<1> QED BY <1>2, <1>3, <1>4, PerfSteps

LEMMA InitMeasurement ==
    ASSUME Init PROVE Measurement
<1>1. /\ role \in Programs /\ node = [n \in Node |-> NoNode] /\ app = [n \in Node |-> NewApp]
  BY DEF Init
<1>2. /\ NoNode \in NodeState
      /\ NoNode.state = "new" /\ NoNode.own = {} /\ NoNode.peers = {} /\ NoNode.ready = {}
      /\ \A n \in Node : NoNode.out[n] = <<>>
      /\ NoNode.events = <<>> /\ ~NoNode.impatient /\ NoNode.due = {}
  <2>1. ~NoNode.impatient /\ NoNode.due = {}
    BY DEF NoNode
  <2> QED BY <2>1, NoNodeFacts
<1>3. \A n \in Node : node[n] = NoNode /\ app[n] = NewApp
  BY <1>1
<1>4. SUFFICES ASSUME NEW l \in Locals PROVE Perf(l)
  BY DEF Measurement
<1>5. l \in Node /\ role[l] = "local"
  BY DEF Locals
<1>6. Company(role, l, node)
  <2>1. \A m \in Node \ {l} : role[m] \in {"remote", "none"}
    BY <1>1, <1>5, Apart
  <2>2. \A x \in Node : Solo(role[x], node[x])
    BY <1>2, <1>3 DEF Solo
  <2>3. ASSUME NEW p \in Node, NEW n \in Node \ {p} PROVE Pair(l, p, n, node[p], node[n])
    BY <1>2, <1>3 DEF Pair
  <2> QED BY <2>1, <2>2, <2>3 DEF Company
<1>7. \A x : Count(<<>>, x) = 0
  <2>1. PICK q : q = <<>>
    OBVIOUS
  <2>2. q \in Seq(Node) /\ \A i \in 1 .. Len(q) : FALSE
    BY <2>1
  <2>3. \A x : Count(q, x) = 0
    BY <2>2, CountFacts
  <2> QED BY <2>1, <2>3
<1>8. PICK R : R = Remotes
  OBVIOUS
<1>9. R \subseteq Node /\ IsFiniteSet(R)
  BY <1>8, RemotesFacts
<1>10. /\ \A p, n \in Node : \A x : Flight(node, p, n, x) = 0
       /\ \A p, n \in Node : Enters(node, n, p) = 0
  BY <1>2, <1>3, <1>7 DEF Flight, Enters
<1>11. \A m \in R : Greeting(node, l, m) = 0 /\ node[m].ready = {}
  BY <1>2, <1>3, <1>5, <1>9, <1>10 DEF Greeting
<1>12. Welcome(node, l, R) = {}
  BY <1>11 DEF Welcome
<1>13. \A at \in Talk : Total(Load(node, l, R, at)) = 0
  <2>1. SUFFICES ASSUME NEW at \in Talk PROVE Total(Load(node, l, R, at)) = 0
    OBVIOUS
  <2>2. PICK u : u = Load(node, l, R, at)
    OBVIOUS
  <2>3. u \in [R -> Nat] /\ \A m \in R : u[m] = 0
    BY <1>5, <1>9, <1>10, <2>2 DEF Load
  <2>4. Total(u) = 0
    BY <1>9, <2>3, TotalFacts
  <2> QED BY <2>2, <2>4
<1>14. PICK a : a = app[l]
  OBVIOUS
<1>15. a.at = "new" /\ a.peers = <<>> /\ a.hello = 0 /\ a.sent = 0 /\ a.got = 0
  BY <1>3, <1>5, <1>14 DEF NewApp
<1>16. a.at \in Early /\ a.at \notin Whispers /\ a.at \notin Shouts
  BY <1>15, StagesApart
<1>17. Greetings(node, l, R, a)
  <2>1. Cardinality(Welcome(node, l, R)) = 0
    BY <1>12, FS_EmptySet
  <2> QED BY <1>11, <1>12, <1>15, <1>16, <2>1 DEF Greetings
<1>18. Counted(node, l, R, a)
  BY <1>15, <1>16 DEF Counted
<1>19. Books(node, l, R, a)
  BY <1>13, <1>15, <1>16 DEF Books, Talk
<1>20. Tally(node, l, R, a)
  BY <1>16, <1>17, <1>18, <1>19 DEF Tally
<1> QED BY <1>6, <1>8, <1>14, <1>20 DEF Perf

\* What the books say of Pending.
LEMMA PendingTotal ==
    ASSUME Inv, NEW l \in Locals, Perf(l), NEW at \in Talk
    PROVE  Pending(l, at) = Total(Load(node, l, Remotes, at))
<1>1. PICK R : R = Remotes
  OBVIOUS
<1>2. PICK u : u = Load(node, l, R, at)
  OBVIOUS
<1>3. Scene(role, node, l, R)
  BY <1>1, SceneOf
<1>4. R \subseteq Node /\ l \in Node /\ \A x \in Node : node[x] \in NodeState
  BY <1>3, SceneFacts
<1>5. DOMAIN u = R
  BY <1>2 DEF Load
<1>6. Ask(at).id = at /\ Reply(at).id = at /\ at # "HELLO"
  BY AskFacts DEF Talk
<1>7. /\ Note(l, Ask(at)) = Event(at, l, Addressed(at), Question(at))
      /\ \A m : Note(m, Reply(at)) = Event(at, m, Addressed(at), Answer(at))
  BY <1>6 DEF Note, Ask, Reply, Msg
<1>8. ASSUME NEW m \in R PROVE Underway(l, m, at) = u[m]
  <2>1. /\ node[l].out[m] \in Seq(Message) /\ node[m].out[l] \in Seq(Message)
        /\ node[l].events \in Seq(Notice) /\ node[m].events \in Seq(Notice)
    BY <1>4 DEF NodeState
  <2>2. Count(node[l].out[m], Ask(at)) \in Nat /\ Count(node[m].out[l], Reply(at)) \in Nat
    BY <2>1, CountFacts
  <2>3. /\ Count(node[m].events, Note(l, Ask(at))) \in Nat
        /\ Count(node[l].events, Note(m, Reply(at))) \in Nat
    BY <2>1, CountFacts
  <2>4. u[m] = Flight(node, l, m, Ask(at)) + Flight(node, m, l, Reply(at))
    BY <1>2 DEF Load
  <2>5. Underway(l, m, at) = Count(node[l].out[m], Ask(at))
          + Count(node[m].events, Note(l, Ask(at))) + Count(node[m].out[l], Reply(at))
          + Count(node[l].events, Note(m, Reply(at)))
    BY <1>7 DEF Underway, Ask, Reply
  <2> QED BY <2>2, <2>3, <2>4, <2>5 DEF Flight
<1>9. {{m} \X (1 .. Underway(l, m, at)) : m \in R} = {{m} \X (1 .. u[m]) : m \in R}
  BY <1>8
<1>10. PICK A : A = {{m} \X (1 .. u[m]) : m \in R}
  OBVIOUS
<1>11. Pending(l, at) = Cardinality(UNION A)
  BY <1>1, <1>9, <1>10 DEF Pending
<1>12. Total(u) = Cardinality(UNION A)
  BY <1>5, <1>10 DEF Total, Pairs
<1> QED BY <1>1, <1>2, <1>11, <1>12

LEMMA MeasurementCounts ==
    ASSUME Inv, Measurement PROVE NothingMiscounted
<1>1. SUFFICES ASSUME NEW l \in Locals, Measuring(l) # "none"
               PROVE  app[l].got + Pending(l, Measuring(l))
                        = app[l].sent * (IF Measuring(l) = "SHOUT" THEN MaxNode ELSE 1)
  BY DEF NothingMiscounted
<1>2. PICK a : a = app[l]
  OBVIOUS
<1>3. /\ a.at \in Whispers => Measuring(l) = "WHISPER"
      /\ a.at \in Shouts => Measuring(l) = "SHOUT"
      /\ a.at \in Whispers \/ a.at \in Shouts
  BY <1>1, <1>2 DEF Measuring, Whispers, Shouts
<1>4. a.at # "done"
  BY <1>3 DEF Whispers, Shouts
<1>5. Perf(l)
  BY <1>2, <1>4 DEF Measurement
<1>6. Books(node, l, Remotes, a) /\ a \in AppState /\ MaxNode = Cardinality(Remotes)
  BY <1>2, <1>5, SceneOf DEF Tally, MaxNode
<1>7. CASE a.at \in Whispers
  <2>1. a.got + Total(Load(node, l, Remotes, "WHISPER")) = a.sent
    BY <1>6, <1>7 DEF Books
  <2>2. Pending(l, "WHISPER") = Total(Load(node, l, Remotes, "WHISPER"))
    BY <1>5, PendingTotal DEF Talk
  <2>3. a.sent \in Nat
    BY <1>6 DEF AppState
  <2>4. a.sent = a.sent * 1 /\ Measuring(l) = "WHISPER"
    BY <1>3, <1>7, <2>3
  <2>5. a.got + Pending(l, Measuring(l)) = a.sent * 1
    BY <2>1, <2>2, <2>4
  <2> QED BY <1>2, <2>4, <2>5
<1>8. CASE a.at \in Shouts
  <2>1. a.got + Total(Load(node, l, Remotes, "SHOUT")) = a.sent * MaxNode
    BY <1>6, <1>8 DEF Books
  <2>2. Pending(l, "SHOUT") = Total(Load(node, l, Remotes, "SHOUT"))
    BY <1>5, PendingTotal DEF Talk
  <2> QED BY <1>2, <1>3, <1>8, <2>1, <2>2
<1> QED BY <1>3, <1>7, <1>8

\* Nothing is lost between perf_local and its remotes and nothing is counted twice,
\* however many there are and however the messages interleave: perf_remote.c:46-92
\* answers each question once, and the SHOUTs of perf_local.c reach every remote as
\* each has joined GLOBAL before it has greeted.
THEOREM Measurements == Spec => []NothingMiscounted
<1>1. Init => Inv /\ role \in Programs /\ Measurement
  BY InitInv, InitMeasurement DEF Init
<1>2. Inv /\ role \in Programs /\ Measurement /\ [Next]_vars
        => (Inv /\ role \in Programs /\ Measurement)'
  BY StepInv, MeasurementStep
<1>3. Inv /\ Measurement => NothingMiscounted
  BY MeasurementCounts
<1> QED BY <1>1, <1>2, <1>3, PTL DEF Spec

=============================================================================
