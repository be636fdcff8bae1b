--------------------------- MODULE ZyreTimeProofs ---------------------------
(***************************************************************************)
(* A node does not expire a peer that answers (LivePeerKept), for any      *)
(* peers, hash buckets and timeouts of a new node, provided that there are *)
(* not too many peers to a bucket for its timeouts (BucketAssumption).     *)
(*                                                                         *)
(* While its timers run, each pass of the reaper either asks a peer or     *)
(* passes it over for another of its bucket, which it removes and which    *)
(* would have expired before it.  What a peer has left of its expiry is    *)
(* enough for as many passes as there are such peers (Timely).             *)
(***************************************************************************)
EXTENDS ZyreActorProofs, FiniteSetTheorems

-----------------------------------------------------------------------------
\* s_reap_interval of a new node.
Pause == Least(Evasive, Reap)

TimeoutCalls == {"SET EVASIVE TIMEOUT", "SET EXPIRED TIMEOUT"}

Bucket(p) == {q \in Peer : limits.bucket[q] = limits.bucket[p]}

\* Those of its bucket that expire before p.
Ahead(p) ==
    {q \in Bucket(p) : q \in Known \cup Open /\ peers[q].expired < peers[p].expired}

\* The ticks between the last message of p and the last pass of the reaper.
Since(p) == Expired - peers[p].expired - slept

\* p is asked, or its answer or another message is on the way.
Heard(p) == p \in pings \/ \E i \in 1 .. Len(inbox) : inbox[i].peer = p

\* The reaper has passed p over, when it has, for one that was ahead of it.
Timely(p) ==
    /\ peers[p].evasive = Most(peers[p].expired - Expired + Evasive, -Reap)
    /\ Since(p) >= Evasive =>
            Since(p) - Evasive + Pause * Cardinality(Ahead(p))
                < Pause * Cardinality(Bucket(p)) - Pause

\* The timeouts are those of a new node until others are asked for.
Untuned ==
    ~asked.tuned =>
        /\ node.evasive = Evasive /\ node.expired = Expired
        /\ \A i \in 1 .. Len(pipe) : pipe[i].name \notin TimeoutCalls

\* What BucketAssumption says of the choice of budgets.
Roomy ==
    limits.prompt => \A p \in Peer : Evasive + Pause * Cardinality(Bucket(p)) <= Expired

Steady == /\ limits.prompt /\ Peer # {}
          /\ ~asked.tuned /\ ~asked.stopped /\ failed = Null /\ ~node.terminated

\* The reaper is not late, and the clock waits for the answers to its PINGs.
Punctual == slept <= Pause /\ (pings = {} \/ slept = 0)

NoneLater == \A p \in Peer : peers[p].expired <= Expired

\* The node listens to it, and its PINGs reach it.
Served(x) == x.open /\ x.state = "ready"

Kept(p) == Served(peers[p]) => "inbox" \in node.polled /\ (Heard(p) \/ Timely(p))

OnTime == Steady => Punctual /\ NoneLater /\ \A p \in Peer \ dead : Kept(p)

-----------------------------------------------------------------------------
LEMMA PauseFacts ==
    /\ Evasive \in Nat /\ Expired \in Nat /\ Reap \in Nat /\ Pause \in Nat
    /\ 0 < Evasive /\ 0 < Pause /\ Pause <= Reap /\ Pause <= Evasive
    /\ Pause = Evasive \/ Pause = Reap
<1>1. Evasive \in Nat /\ Expired \in Nat /\ Reap \in Nat /\ 0 < Evasive /\ 0 < Reap
  BY NumberAssumption, BucketAssumption
<1> QED BY <1>1 DEF Pause, Least

\* There are finitely many peers, and p is in its bucket and not ahead of itself.
LEMMA PeersAreFinite == IsFiniteSet(Peer)
<1> DEFINE n == Len(Order)
<1>1. n \in Nat /\ DOMAIN Order = 1 .. n /\ Order \in [1 .. n -> Peer]
  BY PeerAssumption
<1>2. Order \in Surjection(1 .. n, Peer)
  BY <1>1, PeerAssumption DEF Surjection
<1>3. IsFiniteSet(1 .. n)
  BY <1>1, FS_Interval
<1> QED BY <1>2, <1>3, FS_Surjection

LEMMA BucketFacts ==
    ASSUME PeersOK, NEW p \in Peer
    PROVE  /\ IsFiniteSet(Bucket(p)) /\ IsFiniteSet(Ahead(p))
           /\ Cardinality(Bucket(p)) \in Nat /\ Cardinality(Ahead(p)) \in Nat
           /\ Cardinality(Ahead(p)) + 1 <= Cardinality(Bucket(p))
<1>1. Bucket(p) \subseteq Peer /\ p \in Bucket(p) /\ Ahead(p) \subseteq Bucket(p)
  BY DEF Bucket, Ahead
<1>2. p \notin Ahead(p)
  <2>1. peers[p].expired \in Nat
    BY DEF PeersOK, PeerState
  <2> QED BY <2>1 DEF Ahead
<1>3. IsFiniteSet(Bucket(p)) /\ IsFiniteSet(Ahead(p))
  BY <1>1, PeersAreFinite, FS_Subset
<1>4. Cardinality(Bucket(p)) \in Nat /\ Cardinality(Ahead(p)) \in Nat
  BY <1>3, FS_CardinalityType
<1>5. Cardinality(Ahead(p) \cup {p}) = Cardinality(Ahead(p)) + 1
  BY <1>2, <1>3, FS_AddElement
<1>6. Cardinality(Ahead(p) \cup {p}) <= Cardinality(Bucket(p))
  BY <1>1, <1>3, FS_Subset
<1> QED BY <1>3, <1>4, <1>5, <1>6

\* Products of the interval.
LEMMA PauseTimes ==
    ASSUME NEW a \in Nat, NEW b \in Nat
    PROVE  /\ Pause * a \in Nat
           /\ a <= b => Pause * a <= Pause * b
           /\ a + 1 <= b => Pause * a + Pause <= Pause * b
<1>1. Pause \in Nat
  BY PauseFacts
<1>2. \A n, x, y \in Nat : /\ n * x \in Nat /\ (x <= y => n * x <= n * y)
                           /\ (x + 1 <= y => n * x + n <= n * y)
  <2>1. ASSUME NEW n \in Nat, NEW x \in Nat, NEW y \in Nat, x <= y PROVE n * x <= n * y
    <3>1. PICK d \in Nat : y = x + d
      <4>1. y - x \in Nat /\ y = x + (y - x)
        BY <2>1
      <4> QED BY <4>1
    <3>2. n * (x + d) = n * x + n * d /\ n * x \in Nat /\ n * d \in Nat
      OBVIOUS
    <3> QED BY <3>1, <3>2
  <2>2. ASSUME NEW n \in Nat, NEW x \in Nat, NEW y \in Nat, x + 1 <= y
        PROVE  n * x + n <= n * y
    <3>1. n * (x + 1) <= n * y
      BY <2>1, <2>2
    <3>2. n * (x + 1) = n * x + n
      OBVIOUS
    <3> QED BY <3>1, <3>2
  <2>3. \A n, x \in Nat : n * x \in Nat
    OBVIOUS
  <2> QED BY <2>1, <2>2, <2>3
<1> QED BY <1>1, <1>2

\* The timeouts of a new node leave it the interval of a new node.
LEMMA IntervalIs ==
    ASSUME NodeOK, Roomy, limits.prompt, Peer # {}, PeersOK,
           node.evasive = Evasive, node.expired = Expired
    PROVE  Interval = Pause /\ Evasive + Pause <= Expired
<1>1. PICK p \in Peer : Evasive + Pause * Cardinality(Bucket(p)) <= Expired
  BY DEF Roomy
<1> DEFINE c == Cardinality(Bucket(p))
           l == Pause * c
<1>2. c \in Nat /\ 1 <= c
  <2>1. c \in Nat /\ Cardinality(Ahead(p)) \in Nat /\ Cardinality(Ahead(p)) + 1 <= c
    BY BucketFacts
  <2> HIDE DEF c
  <2> QED BY <2>1
<1>3. l \in Nat /\ Pause <= l
  <2> HIDE DEF c
  <2>1. 0 \in Nat /\ Pause * 0 = 0 /\ 0 + 1 <= c
    BY <1>2, PauseFacts
  <2>2. l \in Nat /\ Pause * 0 + Pause <= l
    BY <1>2, <2>1, PauseTimes
  <2> QED BY <2>1, <2>2, PauseFacts
<1>4. Evasive + l <= Expired
  BY <1>1
<1> HIDE DEF l
<1>5. Evasive + Pause <= Expired
  BY <1>3, <1>4, PauseFacts
<1>6. Interval = Pause
  <2> DEFINE U == {t \in {node.evasive, node.expired} : t >= 0}
  <2>1. U = {Evasive, Expired}
    BY PauseFacts
  <2>2. Interval = IF \E t \in U : t < Reap
                   THEN CHOOSE t \in U : \A u \in U : t <= u ELSE Reap
    BY DEF Interval
  <2> HIDE DEF U
  <2>3. Evasive < Expired
    BY <1>5, PauseFacts
  <2>4. CASE Evasive < Reap
    <3>1. Pause = Evasive
      BY <2>4, PauseFacts DEF Pause, Least
    <3>2. Evasive \in U /\ \A u \in U : Evasive <= u
      BY <2>1, <2>3, PauseFacts
    <3>3. \A t \in U : (\A u \in U : t <= u) => t = Evasive
      BY <2>1, <2>3, PauseFacts
    <3> DEFINE x == CHOOSE t \in U : \A u \in U : t <= u
    <3>4. x \in U /\ \A u \in U : x <= u
      BY <3>2
    <3>5. x = Evasive
      BY <3>3, <3>4
    <3> QED BY <2>2, <2>4, <3>1, <3>2, <3>5
  <2>5. CASE ~(Evasive < Reap)
    <3>1. Pause = Reap
      BY <2>5, PauseFacts DEF Pause, Least
    <3>2. \A t \in U : ~(t < Reap)
      BY <2>1, <2>3, <2>5, PauseFacts
    <3> QED BY <2>2, <3>1, <3>2
  <2> QED BY <2>4, <2>5
<1> QED BY <1>5, <1>6

\* A peer that is kept in time has ticks left until it expires; if no other
\* shares its bucket it was asked in the last pass, unless it was heard since.
LEMMA TicksLeft ==
    ASSUME PeersOK, Roomy, limits.prompt, slept \in Nat, slept <= Pause,
           NEW p \in Peer, Timely(p)
    PROVE  /\ peers[p].expired > 0
           /\ Cardinality(Bucket(p)) = 1 => Since(p) < Evasive
           /\ Since(p) = Expired - peers[p].expired - slept
<1> DEFINE x == peers[p].expired
           c == Cardinality(Bucket(p))
           a == Cardinality(Ahead(p))
           l == Pause * c
           k == Pause * a
<1>1. x \in Nat /\ c \in Nat /\ a \in Nat /\ a + 1 <= c
  BY BucketFacts DEF PeersOK, PeerState
<1>2. Evasive + l <= Expired
  BY DEF Roomy
<1>3. Since(p) = Expired - x - slept
  BY DEF Since
<1>4. Since(p) >= Evasive => Since(p) - Evasive + k < l - Pause
  BY DEF Timely
<1> HIDE DEF x, c, a
<1>5. l \in Nat /\ k \in Nat /\ Pause <= l
  <2>1. k \in Nat /\ l \in Nat /\ k + Pause <= l
    BY <1>1, PauseTimes
  <2> HIDE DEF k, l
  <2> QED BY <2>1, PauseFacts
<1>6. c = 1 => l = Pause
  BY PauseFacts
<1> HIDE DEF l, k
<1>7. x > 0
  BY <1>1, <1>2, <1>3, <1>4, <1>5, PauseFacts
<1>8. c = 1 => Since(p) < Evasive
  BY <1>1, <1>3, <1>4, <1>5, <1>6, PauseFacts
<1> QED BY <1>3, <1>7, <1>8 DEF x, c

LEMMA OnTimeSuffices == IInv /\ Untuned /\ Roomy /\ OnTime => LivePeerKept
<1> SUFFICES ASSUME IInv, Untuned, Roomy, OnTime, limits.prompt, ReapDue,
                    ~asked.tuned, ~asked.stopped,
                    NEW p \in Open \ dead, peers[p].state = "ready"
             PROVE  /\ p \notin Overdue
                    /\ (\A q \in Peer \ {p} : limits.bucket[q] # limits.bucket[p]) =>
                            (p \in Evading => peers[p].evasive > -Interval)
  BY DEF LivePeerKept
<1>1. p \in Peer /\ p \notin dead /\ Served(peers[p])
  BY DEF Open, Served
<1>2. Steady
  BY <1>1 DEF Steady, ReapDue, Running
<1>3. NodeOK /\ PeersOK /\ slept \in Nat /\ inbox \in Seq(Message)
  BY DEF IInv, WorldOK
<1>4. Interval = Pause /\ slept >= Interval
  BY <1>2, <1>3, IntervalIs DEF Untuned, Steady, ReapDue
<1>5. slept <= Pause /\ pings = {}
  BY <1>2, <1>3, <1>4, PauseFacts DEF OnTime, Punctual
<1>6. "inbox" \in node.polled /\ (Heard(p) \/ Timely(p))
  BY <1>1, <1>2 DEF OnTime, Kept
<1>7. inbox = <<>>
  BY <1>6 DEF ReapDue
<1>8. ~Heard(p)
  BY <1>5, <1>7 DEF Heard
<1>9. Timely(p)
  BY <1>6, <1>8
<1>10. peers[p].expired > 0 /\ (Cardinality(Bucket(p)) = 1 => Since(p) < Evasive)
       /\ Since(p) = Expired - peers[p].expired - slept
  BY <1>1, <1>3, <1>5, <1>9, TicksLeft
<1>11. peers[p].expired \in Nat
  BY <1>1, <1>3 DEF PeersOK, PeerState
<1>12. p \notin Overdue
  BY <1>10, <1>11 DEF Overdue
<1>13. ASSUME \A q \in Peer \ {p} : limits.bucket[q] # limits.bucket[p]
       PROVE  peers[p].evasive > -Interval
  <2>1. Bucket(p) = {p}
    BY <1>1, <1>13 DEF Bucket
  <2>2. Since(p) < Evasive
    BY <1>10, <2>1, FS_Singleton
  <2>3. peers[p].evasive = Most(peers[p].expired - Expired + Evasive, -Reap)
    BY <1>9 DEF Timely
  <2> DEFINE x == peers[p].expired
  <2> HIDE DEF x
  <2>4. x - Expired + Evasive > -Pause
    BY <1>5, <1>3, <1>10, <1>11, <2>2, PauseFacts DEF x
  <2>5. Most(x - Expired + Evasive, -Reap) > -Pause
    BY <1>11, <2>4, PauseFacts DEF Most, x
  <2> QED BY <1>4, <2>3, <2>5 DEF x
<1> QED BY <1>12, <1>13

-----------------------------------------------------------------------------
\* Whether everybody is prompt, and who shares a bucket, is chosen once.
LEMMA SpendLeaves ==
    ASSUME limits \in Limits, NEW kind \in BudgetKinds, Spend(kind)
    PROVE  limits'.prompt = limits.prompt /\ limits'.bucket = limits.bucket
BY DEF Spend, Limits

LEMMA LimitsStay ==
    ASSUME limits \in Limits, [Next]_vars
    PROVE  limits'.prompt = limits.prompt /\ limits'.bucket = limits.bucket
<1> DEFINE Spent == \E kind \in BudgetKinds : Spend(kind)
<1>1. Spent \/ UNCHANGED limits => limits'.prompt = limits.prompt
                                   /\ limits'.bucket = limits.bucket
  BY SpendLeaves
<1> HIDE DEF Spent
<1>2. \A kind \in BudgetKinds : Spend(kind) => Spent
  BY DEF Spent
<1>3. /\ Spend("config") => Spent
      /\ Spend("group") => Spent
      /\ Spend("query") => Spent
      /\ Spend("tune") => Spent
      /\ Spend("empty") => Spent
      /\ Spend("discover") => Spent
      /\ Spend("message") => Spent
      /\ Spend("die") => Spent
      /\ Spend("tick") => Spent
  BY <1>2 DEF BudgetKinds
<1>4. \A c : PostHalf(c) => Spent
  BY <1>3 DEF PostHalf
<1>5. CASE Whisper \/ Shout \/ Whispers \/ Shouts
  BY <1>1, <1>3, <1>4, <1>5 DEF Whisper, Shout, Whispers, Shouts
<1>6. CASE \/ SetHeader \/ SetBeaconPeerPort \/ SetInterval \/ SetCurve
           \/ SetContestInGroup \/ Destroy \/ Dump
  BY <1>1, <1>3, <1>6 DEF SetHeader, SetBeaconPeerPort, SetInterval, SetCurve, PostOther,
     SetContestInGroup, Destroy, Dump
<1>7. CASE \/ Uuid \/ NameOf \/ Peers \/ PeersByGroup \/ PeerAddress
           \/ PeerHeaderValue \/ OwnGroups \/ PeerGroups
  BY <1>1, <1>3, <1>7 DEF Uuid, NameOf, Peers, PeersByGroup, PeerAddress,
     PeerHeaderValue, OwnGroups, PeerGroups, Ask
<1>8. CASE \/ SetName \/ SetPort \/ SetEvasiveTimeout \/ SetSilentTimeout
           \/ SetExpiredTimeout \/ Join \/ Leave
  BY <1>1, <1>3, <1>8 DEF SetName, SetPort, SetEvasiveTimeout, SetSilentTimeout,
     SetExpiredTimeout, PostTimeout, Join, Leave
<1>9. CASE \/ RequirePeerCall \/ GossipBind \/ GossipConnect
           \/ GossipUnpublishCall \/ SetEndpoint \/ Start \/ Stop
  BY <1>1, <1>3, <1>9 DEF RequirePeerCall, GossipBind, GossipConnect, PostGossip,
     GossipUnpublishCall, SetEndpoint, Start, Stop
<1>10. CASE Return \/ TakeEvent \/ GetMsg \/ Round \/ StartBeacon \/ AnswerPing \/ UNCHANGED vars
  BY <1>1, <1>10 DEF Return, TakeEvent, GetMsg, Round, Flush, RecvApi, RecvPeer, ReapPeers,
     StartBeacon, AnswerPing, vars
<1>11. CASE Discover \/ Say \/ Die \/ Tick
  BY <1>1, <1>3, <1>11 DEF Discover, Say, Die, Tick
<1> QED BY <1>5, <1>6, <1>7, <1>8, <1>9, <1>10, <1>11 DEF Next

\* What has been asked for stays asked for.
LEMMA NotesTime ==
    ASSUME asked \in Asked, NEW c
    PROVE  /\ Notes(c).tuned <=> asked.tuned \/ c.name \in TimeoutCalls
           /\ asked.stopped => Notes(c).stopped
BY DEF Asked, Notes, TimeoutCalls

LEMMA AskedStays ==
    ASSUME IInv, [Next]_vars
    PROVE  (asked.tuned => asked'.tuned) /\ (asked.stopped => asked'.stopped)
<1>1. asked \in Asked
  BY DEF IInv, AppOK
<1>2. CASE Writes
  <2>1. ASSUME NEW c, asked' = Notes(c)
        PROVE  (asked.tuned => asked'.tuned) /\ (asked.stopped => asked'.stopped)
    BY <1>1, <2>1, NotesTime
  <2>2. ASSUME NEW c, PostHalf(c)
        PROVE  (asked.tuned => asked'.tuned) /\ (asked.stopped => asked'.stopped)
    BY <1>1, <2>2 DEF PostHalf, Asked
  <2> QED BY <1>2, <2>1, <2>2 DEF Writes, Posted, Called
<1>3. CASE Return
  BY <1>1, <1>3 DEF Return, Asked
<1>4. CASE TakeEvent \/ GetMsg \/ Flush \/ RecvApi \/ WorldStep \/ UNCHANGED vars
  BY <1>4 DEF TakeEvent, GetMsg, Flush, RecvApi, WorldStep, Say, AnswerPing, Die, Tick,
              vars, app
<1>5. CASE NodeStep
  BY <1>5, NodeStepNews DEF app
<1> QED BY <1>2, <1>3, <1>4, <1>5, NextShape

\* The handlers that touch the timeouts, the inbox or the peers.
LEMMA HandlersTime ==
    ASSUME NodeOK, NEW c \in Commands, Handled(c)
    PROVE  /\ c.name \notin TimeoutCalls =>
                node'.evasive = node.evasive /\ node'.expired = node.expired
           /\ (c.name # "STOP" /\ "inbox" \in node.polled) => "inbox" \in node'.polled
           /\ \/ peers' = peers
              \/ \E full : peers' = Disconnected(peers, full)
              \/ \E p \in Peer, ok \in BOOLEAN : peers' = RequirePeer(peers, p, ok)
<1>1. node \in NodeState
  BY DEF NodeOK
<1>2. CASE \/ ApiUuid(c) \/ ApiName(c) \/ ApiSetOther(c) \/ ApiPeers(c)
           \/ ApiPeerGroups(c) \/ ApiOwnGroups(c) \/ ApiGroupPeers(c) \/ ApiPeerEndpoint(c)
           \/ ApiPeerHeader(c) \/ ApiGossipUnpublish(c)
  BY <1>2 DEF ApiUuid, ApiName, ApiSetOther, ApiPeers, ApiPeerGroups,
              ApiOwnGroups, ApiGroupPeers, ApiPeerEndpoint, ApiPeerHeader,
              ApiGossipUnpublish, Only, Abort
<1>2a. CASE ApiSend(c)
  BY <1>2a DEF ApiSend, Tells
<1>3. CASE ApiSetName(c) \/ ApiSetPort(c) \/ ApiTerm(c) \/ ApiSetContest(c)
  BY <1>1, <1>3 DEF ApiSetName, ApiSetPort, ApiTerm, ApiSetContest, Only, NodeState
<1>3a. CASE ApiJoin(c) \/ ApiLeave(c)
  BY <1>1, <1>3a DEF ApiJoin, ApiLeave, Tells, NodeState
<1>4. CASE ApiSetTimeout(c)
  BY <1>1, <1>4 DEF ApiSetTimeout, Only, NodeState, TimeoutCalls
<1>5. CASE ApiGossip(c) \/ ApiSetEndpoint(c)
  <2>1. /\ GossipStart.evasive = node.evasive /\ GossipStart.expired = node.expired
        /\ GossipStart.polled = node.polled /\ GossipStart \in NodeState
    BY <1>1 DEF GossipStart, NodeState
  <2> DEFINE n == GossipStart
  <2>2. peers' = peers /\ (node' = n \/ node' = [n EXCEPT !.endpoint = TRUE])
    BY <1>5 DEF ApiGossip, ApiSetEndpoint, Only
  <2> HIDE DEF n
  <2> QED BY <2>1, <2>2 DEF n, NodeState
<1>6. CASE ApiStart(c)
  <2>1. peers' = peers
    BY <1>6 DEF ApiStart, Only, Abort
  <2>2. \/ node' = node \/ node' = [node EXCEPT !.beacon = TRUE]
        \/ node' = [node EXCEPT !.endpoint = TRUE, !.port = @ \/ ~node.endpoint,
                                !.polled = @ \cup {"gossip", "inbox"}]
    BY <1>6 DEF ApiStart, Only, Abort
  <2> QED BY <1>1, <2>1, <2>2 DEF NodeState
<1>7. CASE ApiStop(c)
  BY <1>1, <1>7 DEF ApiStop, Tells, NodeState
<1>8. CASE ApiRequirePeer(c)
  <2>1. c.arg \in Peer
    BY <1>8, ArgumentsFit DEF ApiRequirePeer
  <2> QED BY <1>8, <2>1 DEF ApiRequirePeer, Abort
<1> QED BY <1>2, <1>2a, <1>3, <1>3a, <1>4, <1>5, <1>6, <1>7, <1>8 DEF Handled

\* What was not yet over is not over now.
LEMMA SteadyBefore ==
    ASSUME IInv, [Next]_vars, Steady'
    PROVE  Steady
<1>1. ~asked.tuned /\ ~asked.stopped
  BY AskedStays DEF Steady
<1>2. limits.prompt /\ Peer # {}
  BY LimitsStay DEF Steady, IInv
<1>3. failed = Null /\ ~node.terminated
  <2>1. CASE RecvApi
    BY <2>1 DEF RecvApi, Running
  <2>2. CASE NodeStep
    BY <2>2, NodeStepNews DEF Running
  <2>3. CASE Writes \/ Return \/ TakeEvent \/ GetMsg \/ Flush \/ WorldStep \/ UNCHANGED vars
    <3>1. UNCHANGED <<node, failed>>
      BY <2>3 DEF Writes, Posted, Called, Post, Call, PostHalf, Return, TakeEvent, GetMsg,
         Flush, WorldStep, Say, AnswerPing, Die, Tick, vars, actor
    <3> QED BY <3>1 DEF Steady
  <2> QED BY <2>1, <2>2, <2>3, NextShape
<1> QED BY <1>1, <1>2, <1>3 DEF Steady

\* The node listens until it is told to stop.
LEMMA ListensOn ==
    ASSUME IInv, [Next]_vars, ~asked.stopped, "inbox" \in node.polled
    PROVE  "inbox" \in node'.polled
<1>1. CASE RecvApi
  <2> DEFINE c == Head(pipe)
  <2>1. AppOK /\ NodeOK /\ pipe # <<>> /\ pipe' = Tail(pipe) /\ Handled(c)
    BY <1>1 DEF IInv, RecvApi, Handled
  <2>2. c = pipe[1] /\ c \in Commands /\ Len(pipe) \in Nat \ {0}
    BY <2>1, PipeShrinks
  <2>3. c.name # "STOP"
    BY <2>1, <2>2 DEF AppOK
  <2> HIDE DEF c
  <2> QED BY <2>1, <2>2, <2>3, HandlersTime
<1>2. CASE NodeStep
  <2>1. CASE StartBeacon
    BY <2>1, StartBeaconNews DEF IInv, NodeOK, NodeState
  <2> QED BY <1>2, <2>1, NodeStepNews
<1>3. CASE Writes \/ Return \/ TakeEvent \/ GetMsg \/ Flush \/ WorldStep \/ UNCHANGED vars
  <2>1. UNCHANGED node
    BY <1>3 DEF Writes, Posted, Called, Post, Call, PostHalf, Return, TakeEvent, GetMsg,
       Flush, WorldStep, Say, AnswerPing, Die, Tick, vars, actor
  <2> QED BY <2>1
<1> QED BY <1>1, <1>2, <1>3, NextShape

\* No command changes the timeouts unless the application asks for it.
LEMMA UntunedStays ==
    ASSUME IInv, Untuned, [Next]_vars
    PROVE  Untuned'
<1> SUFFICES ASSUME ~asked'.tuned
             PROVE  /\ node'.evasive = Evasive /\ node'.expired = Expired
                    /\ \A i \in 1 .. Len(pipe') : pipe'[i].name \notin TimeoutCalls
  BY DEF Untuned
<1>1. /\ ~asked.tuned /\ node.evasive = Evasive /\ node.expired = Expired
      /\ \A i \in 1 .. Len(pipe) : pipe[i].name \notin TimeoutCalls
  BY AskedStays DEF Untuned
<1>2. AppOK /\ NodeOK /\ asked \in Asked
  BY DEF IInv, AppOK
<1>3. CASE Writes
  <2>1. UNCHANGED node
    BY <1>3 DEF Writes, Posted, Called, Post, Call, PostHalf, actor
  <2>2. ASSUME NEW c \in Commands, Posted(c) \/ Called(c)
        PROVE  \A i \in 1 .. Len(pipe') : pipe'[i].name \notin TimeoutCalls
    <3> DEFINE d == IF half = Null THEN c ELSE half
    <3>1. asked' = Notes(c) /\ pipe' = Append(pipe, d)
      BY <2>2 DEF Posted, Called, Post, Call, Write
    <3>2. c.name \notin TimeoutCalls
      BY <1>2, <3>1, NotesTime
    <3>3. d \in Commands /\ d.name \notin TimeoutCalls
      BY <1>2, <3>2 DEF AppOK, TimeoutCalls
    <3> HIDE DEF d
    <3>4. /\ Len(pipe) \in Nat /\ Len(pipe') = Len(pipe) + 1
          /\ pipe'[Len(pipe) + 1] = d
          /\ \A i \in 1 .. Len(pipe) : pipe'[i] = pipe[i]
      BY <1>2, <3>1, <3>3, PipeGrows
    <3>5. \A i \in 1 .. Len(pipe') : i \in 1 .. Len(pipe) \/ i = Len(pipe) + 1
      BY <3>4
    <3> QED BY <1>1, <3>3, <3>4, <3>5
  <2>3. ASSUME NEW c, PostHalf(c)
        PROVE  \A i \in 1 .. Len(pipe') : pipe'[i].name \notin TimeoutCalls
    BY <1>1, <2>3 DEF PostHalf, pipes
  <2> QED BY <1>1, <1>3, <2>1, <2>2, <2>3 DEF Writes
<1>4. CASE RecvApi
  <2> DEFINE c == Head(pipe)
  <2>1. pipe # <<>> /\ pipe' = Tail(pipe) /\ Handled(c)
    BY <1>4 DEF RecvApi, Handled
  <2>2. /\ Len(pipe) \in Nat \ {0} /\ Len(pipe') = Len(pipe) - 1
        /\ c = pipe[1] /\ c \in Commands
        /\ \A i \in 1 .. Len(pipe) - 1 : pipe'[i] = pipe[i + 1]
    BY <1>2, <2>1, PipeShrinks
  <2>3. c.name \notin TimeoutCalls
    BY <1>1, <2>2
  <2> HIDE DEF c
  <2>4. node'.evasive = Evasive /\ node'.expired = Expired
    BY <1>1, <1>2, <2>1, <2>2, <2>3, HandlersTime
  <2>5. \A i \in 1 .. Len(pipe') : i \in 1 .. Len(pipe) - 1 /\ i + 1 \in 1 .. Len(pipe)
    BY <2>2
  <2> QED BY <1>1, <2>2, <2>4, <2>5
<1>5. CASE NodeStep
  <2>1. pipe' = pipe
    BY <1>5, NodeStepNews DEF pipes
  <2>2. node'.evasive = node.evasive /\ node'.expired = node.expired
    <3>1. CASE StartBeacon
      BY <1>2, <3>1, StartBeaconNews DEF NodeOK, NodeState
    <3> QED BY <1>5, <3>1, NodeStepNews
  <2> QED BY <1>1, <2>1, <2>2
<1>6. CASE Return \/ TakeEvent \/ GetMsg \/ Flush \/ WorldStep \/ UNCHANGED vars
  <2>1. UNCHANGED <<node, pipe>>
    BY <1>6 DEF Return, TakeEvent, GetMsg, Flush, WorldStep, Say, AnswerPing, Die, Tick,
       vars, actor, pipes
  <2> QED BY <1>1, <2>1
<1> QED BY <1>3, <1>4, <1>5, <1>6, NextShape

LEMMA RoomyStays ==
    ASSUME limits \in Limits, Roomy, [Next]_vars
    PROVE  Roomy' /\ \A p \in Peer : Bucket(p)' = Bucket(p)
<1>1. limits'.prompt = limits.prompt /\ limits'.bucket = limits.bucket
  BY LimitsStay
<1>2. \A p \in Peer : Bucket(p)' = Bucket(p)
  BY <1>1 DEF Bucket
<1> QED BY <1>1, <1>2 DEF Roomy

-----------------------------------------------------------------------------
\* Whoever has fewer ahead of it and is heard as long ago is kept as well.
LEMMA StillTimely ==
    ASSUME PeersOK, NEW p \in Peer, Bucket(p)' = Bucket(p), Since(p)' = Since(p),
           Since(p) \in Int, Ahead(p)' \subseteq Ahead(p), Timely(p),
           (peers[p].evasive)' = Most((peers[p].expired)' - Expired + Evasive, -Reap)
    PROVE  Timely(p)'
<1> DEFINE a == Cardinality(Ahead(p))
           b == Cardinality(Ahead(p)')
           l == Pause * Cardinality(Bucket(p)) - Pause
           s == Since(p)
<1>1. IsFiniteSet(Ahead(p)) /\ a \in Nat
  BY BucketFacts
<1>2. b \in Nat /\ b <= a
  BY <1>1, FS_Subset, FS_CardinalityType
<1>3. Pause * b <= Pause * a /\ Pause * b \in Nat /\ Pause * a \in Nat
  <2> HIDE DEF a, b
  <2> QED BY <1>1, <1>2, PauseTimes
<1>4. s \in Int /\ l \in Int
  BY BucketFacts, PauseFacts, PauseTimes
<1>5. s >= Evasive => s - Evasive + Pause * a < l
  BY DEF Timely
<1>6. s >= Evasive => s - Evasive + Pause * b < l
  <2> DEFINE x == Pause * a
             y == Pause * b
  <2>1. x \in Nat /\ y \in Nat /\ y <= x
    BY <1>3
  <2>2. s >= Evasive => s - Evasive + x < l
    BY <1>5
  <2> HIDE DEF x, y, s, l
  <2>3. s >= Evasive => s - Evasive + y < l
    BY <1>4, <2>1, <2>2, PauseFacts
  <2> QED BY <2>3 DEF y
<1> HIDE DEF a, b
<1>7. l = Pause * Cardinality(Bucket(p)') - Pause
  OBVIOUS
<1> HIDE DEF s, l
<1>8. Since(p)' >= Evasive => Since(p)' - Evasive + Pause * Cardinality(Ahead(p)') < l
  BY <1>6 DEF b, s
<1> QED BY <1>7, <1>8 DEF Timely, l

\* What a step makes of a peer: its timers run on, or they are as new, or it is
\* forgotten.
Stays(x, y) ==
    /\ y.evasive = x.evasive /\ y.expired = x.expired
    /\ y.state # "unknown" \/ y.open => x.state # "unknown" \/ x.open
    /\ Served(y) => Served(x)

Renewed(x) ==
    \/ x.state = "unknown" /\ ~x.open /\ x.expired = 0
    \/ x.evasive = Evasive /\ x.expired = Expired

Settles(next) == \A p \in Peer : Stays(peers[p], next[p]) \/ Renewed(next[p])

\* Whoever is kept in time stays so while nobody gets ahead of it.
LEMMA FewerAhead ==
    ASSUME PeersOK, NEW p \in Peer, Stays(peers[p], peers'[p]), slept' = slept, slept \in Nat,
           Bucket(p)' = Bucket(p), Ahead(p)' \subseteq Ahead(p), Timely(p)
    PROVE  Timely(p)'
<1>0. peers'[p].evasive = peers[p].evasive /\ peers'[p].expired = peers[p].expired
  BY DEF Stays
<1>1. Since(p)' = Since(p)
  BY <1>0 DEF Since
<1>2. Since(p) \in Int
  BY PauseFacts DEF Since, PeersOK, PeerState
<1>3. (peers[p].evasive)' = Most((peers[p].expired)' - Expired + Evasive, -Reap)
  BY <1>0 DEF Timely
<1> QED BY <1>1, <1>2, <1>3, StillTimely

LEMMA KeptThrough ==
    ASSUME PeersOK, NEW p \in Peer, Stays(peers[p], peers'[p]), slept' = slept, slept \in Nat,
           Bucket(p)' = Bucket(p), Ahead(p)' \subseteq Ahead(p), Kept(p),
           "inbox" \in node.polled => "inbox" \in node'.polled,
           Served(peers'[p]) /\ Heard(p) => Heard(p)'
    PROVE  Kept(p)'
<1>1. Served(peers'[p]) => Served(peers[p])
  BY DEF Stays
<1>2. Timely(p) => Timely(p)'
  BY FewerAhead
<1> QED BY <1>1, <1>2 DEF Kept

LEMMA RenewedKept ==
    ASSUME NEW p \in Peer, Renewed(peers'[p]), slept' \in Nat,
           Served(peers'[p]), "inbox" \in node'.polled
    PROVE  Kept(p)'
<1>1. peers'[p].evasive = Evasive /\ peers'[p].expired = Expired
  BY DEF Renewed, Served
<1>2. Since(p)' < Evasive /\ Since(p)' \in Int
  BY <1>1, PauseFacts DEF Since
<1>3. Most(Expired - Expired + Evasive, -Reap) = Evasive
  BY PauseFacts DEF Most
<1>4. ~(Since(p)' >= Evasive)
  BY <1>2, PauseFacts
<1>5. Timely(p)'
  BY <1>1, <1>3, <1>4 DEF Timely
<1> QED BY <1>5 DEF Kept

\* The timers of some peers are as new, and the node listens to those that are
\* served; nobody else is heard less.
LEMMA ChangesOnTime ==
    ASSUME IInv, OnTime, [Next]_vars, UNCHANGED <<slept, pings, dead>>, Settles(peers'),
           \A p \in Peer : \/ Renewed(peers'[p]) \/ ~Served(peers'[p])
                           \/ Heard(p) => Heard(p)',
           \A p \in Peer : \/ Stays(peers[p], peers'[p]) \/ ~Served(peers'[p])
                           \/ "inbox" \in node'.polled
    PROVE  OnTime'
<1> SUFFICES ASSUME Steady' PROVE Punctual' /\ NoneLater' /\ \A p \in Peer \ dead : Kept(p)'
  BY DEF OnTime
<1>1. Steady /\ ~asked.stopped
  BY SteadyBefore DEF Steady
<1>2. Punctual /\ NoneLater /\ \A p \in Peer \ dead : Kept(p)
  BY <1>1 DEF OnTime
<1>3. PeersOK /\ slept \in Nat
  BY DEF IInv
<1>4. \A p \in Peer : peers[p].expired \in Nat /\ peers[p].expired <= Expired
  BY <1>2, <1>3 DEF NoneLater, PeersOK, PeerState
<1>5. Punctual'
  BY <1>2 DEF Punctual
<1>6. NoneLater'
  <2>1. ASSUME NEW p \in Peer PROVE peers'[p].expired <= Expired
    BY <1>4, PauseFacts DEF Settles, Stays, Renewed
  <2> QED BY <2>1 DEF NoneLater
<1>7. limits'.prompt = limits.prompt /\ limits'.bucket = limits.bucket
  BY LimitsStay DEF IInv
<1>8. ASSUME NEW p \in Peer \ dead, Stays(peers[p], peers'[p]) PROVE Kept(p)'
  <2>1. Bucket(p)' = Bucket(p) /\ peers'[p].expired = peers[p].expired
    BY <1>7, <1>8 DEF Bucket, Stays
  <2>2. ASSUME NEW r \in Ahead(p)' PROVE r \in Ahead(p)
    <3>1. /\ r \in Peer /\ r \in Bucket(p)
          /\ peers'[r].state # "unknown" \/ peers'[r].open
          /\ peers'[r].expired < peers[p].expired
      BY <2>1 DEF Ahead, Known, Open, Bucket
    <3>2. peers[p].expired <= Expired /\ peers[p].expired \in Nat
      BY <1>4
    <3>3. ~Renewed(peers'[r])
      BY <3>1, <3>2, PauseFacts DEF Renewed
    <3>4. Stays(peers[r], peers'[r])
      BY <3>1, <3>3 DEF Settles
    <3> QED BY <3>1, <3>4 DEF Ahead, Known, Open, Stays
  <2>3. "inbox" \in node.polled => "inbox" \in node'.polled
    BY <1>1, ListensOn
  <2>4. CASE Served(peers'[p]) /\ Heard(p) => Heard(p)'
    <3>1. Kept(p) /\ slept' = slept /\ Ahead(p)' \subseteq Ahead(p)
      BY <1>2, <2>2
    <3> QED BY <1>3, <1>8, <2>1, <2>3, <2>4, <3>1, KeptThrough
  <2>5. CASE ~(Served(peers'[p]) /\ Heard(p) => Heard(p)')
    <3>1. Kept(p) /\ Renewed(peers'[p])
      BY <1>2, <2>5
    <3>2. "inbox" \in node'.polled
      BY <1>8, <2>3, <2>5, <3>1 DEF Kept, Stays
    <3> QED BY <1>3, <2>5, <3>1, <3>2, RenewedKept
  <2> QED BY <2>4, <2>5
<1>9. ASSUME NEW p \in Peer \ dead, ~Stays(peers[p], peers'[p]) PROVE Kept(p)'
  <2>1. Renewed(peers'[p])
    BY <1>9 DEF Settles
  <2>2. CASE Served(peers'[p])
    <3>1. "inbox" \in node'.polled
      BY <1>9, <2>2
    <3> QED BY <1>3, <2>1, <2>2, <3>1, RenewedKept
  <2>3. CASE ~Served(peers'[p])
    BY <2>3 DEF Kept
  <2> QED BY <2>2, <2>3
<1> QED BY <1>5, <1>6, <1>8, <1>9

\* A step that touches neither the peers nor their messages nor the clock.
LEMMA StillOnTime ==
    ASSUME IInv, OnTime, [Next]_vars,
           UNCHANGED <<peers, slept, inbox, pings, dead>>
    PROVE  OnTime'
<1>1. \A p \in Peer : Stays(peers[p], peers'[p]) /\ (Heard(p) => Heard(p)')
  BY DEF Stays, Heard
<1> QED BY <1>1, ChangesOnTime DEF Settles

LEMMA Renewals ==
    ASSUME IInv, Untuned, ~asked.tuned
    PROVE  /\ Renewed(Unknown) /\ ~Served(Unknown)
           /\ \A x \in PeerState : Renewed(Refreshed(x)) /\ Refreshed(x).state = x.state
<1>1. Most(node.evasive, -Reap) = Evasive /\ Most(node.expired, 0) = Expired
  BY PauseFacts DEF Untuned, Most
<1>2. \A x \in PeerState : Refreshed(x) = [x EXCEPT !.evasive = Evasive, !.expired = Expired]
  BY <1>1 DEF Refreshed
<1> QED BY <1>2 DEF Renewed, Unknown, PeerState, Served

\* Those that are disconnected on the way keep their timers.
LEMMA CutsSettle ==
    ASSUME NEW next \in [Peer -> PeerState], Settles(next), NEW gone
    PROVE  /\ Settles(Disconnected(next, gone))
           /\ \A p \in Peer : \/ Disconnected(next, gone)[p] = next[p]
                              \/ ~Served(Disconnected(next, gone)[p])
<1> DEFINE cut == Disconnected(next, gone)
<1>1. \A p \in Peer : cut[p] = next[p] \/ (next[p].open /\ cut[p] = CutOff(next[p]))
  BY DisconnectedIs
<1> HIDE DEF cut
<1>2. ASSUME NEW p \in Peer, next[p].open, cut[p] = CutOff(next[p])
      PROVE  ~Served(cut[p]) /\ (Stays(peers[p], cut[p]) \/ Renewed(cut[p]))
  <2>1. /\ ~cut[p].open /\ cut[p].state = "known"
        /\ cut[p].evasive = next[p].evasive /\ cut[p].expired = next[p].expired
    <3>1. next[p] \in PeerState
      OBVIOUS
    <3> QED BY <1>2, <3>1, EntriesAre
  <2>2. Stays(peers[p], next[p]) \/ Renewed(next[p])
    BY DEF Settles
  <2> QED BY <1>2, <2>1, <2>2 DEF Stays, Renewed, Served
<1>3. Settles(cut)
  <2>1. ASSUME NEW p \in Peer PROVE Stays(peers[p], cut[p]) \/ Renewed(cut[p])
    BY <1>1, <1>2 DEF Settles
  <2> QED BY <2>1 DEF Settles
<1>4. \A p \in Peer : cut[p] = next[p] \/ ~Served(cut[p])
  BY <1>1, <1>2
<1> QED BY <1>3, <1>4 DEF cut

LEMMA SameSettles == Settles(peers)
BY DEF Settles, Stays

\* A peer is named: it is there already, or new, and may cost others their mailbox.
LEMMA RequireSettles ==
    ASSUME IInv, Untuned, ~asked.tuned, NEW table \in [Peer -> PeerState], Settles(table),
           NEW p \in Peer, NEW ok \in BOOLEAN
    PROVE  /\ Settles(RequirePeer(table, p, ok))
           /\ \A q \in Peer : \/ RequirePeer(table, p, ok)[q] = table[q]
                              \/ ~Served(RequirePeer(table, p, ok)[q])
<1> DEFINE next == RequirePeer(table, p, ok)
<1>1. NodeOK
  BY DEF IInv
<1>2. /\ NewPeer \in PeerState /\ NewPeer.state = "known"
      /\ table[p].state # "unknown" => next = table
      /\ table[p].state = "unknown" => next[p] = IF ok THEN NewPeer ELSE Unknown
      /\ \A q \in Peer \ {p} : \/ next[q] = table[q]
                               \/ table[q].open /\ next[q] = CutOff(table[q])
  BY <1>1, PeersGrow
<1> HIDE DEF next
<1>3. Renewed(NewPeer) /\ ~Served(NewPeer) /\ Renewed(Unknown) /\ ~Served(Unknown)
  BY <1>2, Renewals, EntriesAre DEF NewPeer, Served
<1>4. ASSUME NEW q \in Peer, table[q].open, next[q] = CutOff(table[q])
      PROVE  ~Served(next[q]) /\ (Stays(peers[q], next[q]) \/ Renewed(next[q]))
  <2>1. /\ ~next[q].open /\ next[q].state = "known"
        /\ next[q].evasive = table[q].evasive /\ next[q].expired = table[q].expired
    <3>1. table[q] \in PeerState
      OBVIOUS
    <3> QED BY <1>4, <3>1, EntriesAre
  <2>2. Stays(peers[q], table[q]) \/ Renewed(table[q])
    BY DEF Settles
  <2> QED BY <1>4, <2>1, <2>2 DEF Stays, Renewed, Served
<1>5. ASSUME NEW q \in Peer
      PROVE  /\ Stays(peers[q], next[q]) \/ Renewed(next[q])
             /\ next[q] = table[q] \/ ~Served(next[q])
  <2>1. Stays(peers[q], table[q]) \/ Renewed(table[q])
    BY DEF Settles
  <2>2. CASE next[q] = table[q]
    BY <2>1, <2>2
  <2>3. CASE next[q] # table[q]
    <3>1. CASE q = p
      <4>1. next[q] = NewPeer \/ next[q] = Unknown
        BY <1>2, <2>3, <3>1
      <4> QED BY <1>3, <4>1
    <3>2. CASE q # p
      BY <1>2, <1>4, <2>3, <3>2
    <3> QED BY <3>1, <3>2
  <2> QED BY <2>2, <2>3
<1> QED BY <1>5 DEF Settles, next

\* A command sends, or a command or a beacon names a peer.
LEMMA RequireOnTime ==
    ASSUME IInv, OnTime, Untuned, [Next]_vars, UNCHANGED <<slept, inbox, pings, dead>>,
           \/ peers' = peers
           \/ \E full : peers' = Disconnected(peers, full)
           \/ \E p \in Peer, ok \in BOOLEAN : peers' = RequirePeer(peers, p, ok)
    PROVE  OnTime'
<1> SUFFICES ASSUME Steady' PROVE OnTime'
  BY DEF OnTime
<1>1. ~asked.tuned /\ peers \in [Peer -> PeerState] /\ Settles(peers)
  BY SteadyBefore, SameSettles DEF Steady, IInv, PeersOK
<1>2. /\ Settles(peers')
      /\ \A p \in Peer : peers'[p] = peers[p] \/ ~Served(peers'[p])
  <2>1. CASE \E full : peers' = Disconnected(peers, full)
    <3>1. PICK full : peers' = Disconnected(peers, full)
      BY <2>1
    <3> QED BY <1>1, <3>1, CutsSettle
  <2>2. CASE \E p \in Peer, ok \in BOOLEAN : peers' = RequirePeer(peers, p, ok)
    <3>1. PICK p \in Peer, ok \in BOOLEAN : peers' = RequirePeer(peers, p, ok)
      BY <2>2
    <3> QED BY <1>1, <3>1, RequireSettles
  <2> QED BY <1>1, <2>1, <2>2
<1>3. \A p \in Peer : Heard(p) => Heard(p)'
  BY DEF Heard
<1>4. \A p \in Peer : Stays(peers[p], peers'[p]) \/ ~Served(peers'[p])
  BY <1>2 DEF Stays
<1> QED BY <1>2, <1>3, <1>4, ChangesOnTime

\* One peer is forgotten or renewed, or not served, and then some are disconnected.
LEMMA OneSettles ==
    ASSUME NEW table \in [Peer -> PeerState], Settles(table), NEW p \in Peer,
           NEW x \in PeerState, Renewed(x)
    PROVE  /\ [table EXCEPT ![p] = x] \in [Peer -> PeerState]
           /\ Settles([table EXCEPT ![p] = x])
BY DEF Settles

\* A message renews the peer that sent it, or makes an end of it.
Attended(p) == Renewed(peers'[p]) \/ ~Served(peers'[p])

LEMMA CutOnTime ==
    ASSUME NEW next \in [Peer -> PeerState], Settles(next), NEW p \in Peer,
           Renewed(next[p]) \/ ~Served(next[p]),
           \E full : peers' = Disconnected(next, full)
    PROVE  Settles(peers') /\ Attended(p)
<1>1. PICK full : peers' = Disconnected(next, full)
  OBVIOUS
<1> DEFINE cut == Disconnected(next, full)
<1>2. Settles(cut) /\ (cut[p] = next[p] \/ ~Served(cut[p]))
  BY CutsSettle
<1> HIDE DEF cut
<1> QED BY <1>1, <1>2 DEF Attended, cut

LEMMA MessagesRenew ==
    ASSUME IInv, Untuned, ~asked.tuned, NEW m \in Message,
           \/ RecvHello(m) \/ RecvUnready(m) \/ RecvLost(m) \/ RecvData(m)
           \/ RecvPing(m) \/ RecvJoin(m) \/ RecvLeave(m) \/ RecvElection(m)
           \/ RecvGoodbye(m)
    PROVE  Settles(peers') /\ Attended(m.peer)
<1> DEFINE p == m.peer
<1>1. p \in Peer /\ peers \in [Peer -> PeerState] /\ NodeOK /\ Settles(peers)
      /\ PeersOK /\ MembersOK
  BY SameSettles DEF Message, IInv, PeersOK
<1>2. Unknown \in PeerState /\ Renewed(Unknown)
  BY EntriesAre, Renewals
<1>3. ASSUME NEW x \in PeerState, Renewed(x),
             \/ peers' = [peers EXCEPT ![p] = x]
             \/ \E full : peers' = Disconnected([peers EXCEPT ![p] = x], full)
      PROVE  Settles(peers') /\ Attended(p)
  <2> DEFINE next == [peers EXCEPT ![p] = x]
  <2>1. next \in [Peer -> PeerState] /\ Settles(next) /\ next[p] = x
    BY <1>1, <1>3, OneSettles
  <2>2. peers' = next \/ \E full : peers' = Disconnected(next, full)
    BY <1>3
  <2> HIDE DEF next
  <2>3. CASE peers' = next
    BY <1>3, <2>1, <2>3 DEF Attended
  <2>4. CASE \E full : peers' = Disconnected(next, full)
    BY <1>1, <1>3, <2>1, <2>4, CutOnTime
  <2> QED BY <2>2, <2>3, <2>4
<1>4. ASSUME \/ peers' = Answering(p)
             \/ \E full : peers' = Disconnected(Answering(p), full)
      PROVE  Settles(peers') /\ Attended(p)
  <2> DEFINE x == Refreshed(peers[p])
  <2>1. Answering(p) = [peers EXCEPT ![p] = x]
    BY DEF Answering
  <2>2. x \in PeerState /\ Renewed(x)
    BY <1>1, Renewals, TimersSet
  <2> HIDE DEF x
  <2> QED BY <1>3, <1>4, <2>1, <2>2
<1>5. ASSUME Removed(p) PROVE Settles(peers') /\ Attended(p)
  <2>1. \E full : peers' = Disconnected([peers EXCEPT ![p] = Unknown], full)
    BY <1>5 DEF Removed, Sending, Outcome
  <2> QED BY <1>2, <1>3, <2>1
<1>6. CASE RecvHello(m)
  <2>1. PICK ok \in BOOLEAN : \E full :
            LET found == RequirePeer(Left(p), p, ok)
            IN  \/ found[p].state = "unknown" /\ peers' = Disconnected(found, full)
                \/ peers' = Disconnected(Met(found, p), full)
    BY <1>6, HelloShape DEF Outcome
  <2> DEFINE left == Left(p)
             found == RequirePeer(left, p, ok)
             x == Refreshed(Greeted(found[p]))
  <2>2. left \in [Peer -> PeerState] /\ found \in [Peer -> PeerState]
    BY <1>1, HelloTables
  <2>3. Settles(left)
    BY <1>1, <1>2, OneSettles DEF Left
  <2> HIDE DEF left
  <2>4. Settles(found)
    BY <1>1, <2>2, <2>3, RequireSettles
  <2>4a. \/ found[p].state = "unknown" /\ \E full : peers' = Disconnected(found, full)
         \/ \E full : peers' = Disconnected(Met(found, p), full)
    BY <2>1 DEF left
  <2> HIDE DEF found
  <2>5. CASE found[p].state = "unknown" /\ \E full : peers' = Disconnected(found, full)
    <3>1. ~Served(found[p])
      BY <2>5 DEF Served
    <3> QED BY <1>1, <2>2, <2>4, <2>5, <3>1, CutOnTime
  <2>6. CASE \E full : peers' = Disconnected(Met(found, p), full)
    <3>1. x \in PeerState /\ Renewed(x)
      <4> DEFINE y == Greeted(found[p])
      <4>1. found[p] \in PeerState
        BY <1>1, <2>2
      <4>2. y \in PeerState
        BY <4>1, EntriesAre
      <4> HIDE DEF y
      <4>3. Refreshed(y) \in PeerState /\ Renewed(Refreshed(y))
        BY <1>1, <4>2, Renewals, TimersSet
      <4> QED BY <4>3 DEF y
    <3>2. Met(found, p) = [found EXCEPT ![p] = x]
      BY DEF Met
    <3> HIDE DEF x
    <3> DEFINE next == [found EXCEPT ![p] = x]
    <3>3. next \in [Peer -> PeerState] /\ Settles(next) /\ next[p] = x
      BY <1>1, <2>2, <2>4, <3>1, OneSettles
    <3>4. \E full : peers' = Disconnected(next, full)
      BY <2>6, <3>2
    <3> HIDE DEF next
    <3> QED BY <1>1, <3>1, <3>3, <3>4, CutOnTime
  <2> QED BY <2>4a, <2>5, <2>6
<1>7. CASE RecvUnready(m)
  <2>1. peers' = peers /\ peers[p].state # "ready"
    BY <1>7 DEF RecvUnready, Ignored, Outcome
  <2> QED BY <1>1, <2>1 DEF Attended, Served
<1>8. CASE RecvLost(m)
  BY <1>5, <1>8 DEF RecvLost
<1>9. CASE RecvGoodbye(m)
  BY <1>4, <1>5, <1>9 DEF RecvGoodbye, Outcome
<1>10. CASE RecvData(m) \/ RecvPing(m) \/ RecvJoin(m) \/ RecvLeave(m) \/ RecvElection(m)
  <2>1. \/ peers' = Answering(p)
        \/ \E full : peers' = Disconnected(Answering(p), full)
    BY <1>10 DEF RecvData, RecvPing, RecvJoin, RecvLeave, RecvElection, Sending, Outcome
  <2> QED BY <1>4, <2>1
<1> QED BY <1>6, <1>7, <1>8, <1>9, <1>10

LEMMA RecvPeerOnTime ==
    ASSUME IInv, OnTime, Untuned, RecvPeer
    PROVE  OnTime'
<1> SUFFICES ASSUME Steady' PROVE OnTime'
  BY DEF OnTime
<1>1. [Next]_vars
  BY DEF Next, Round
<1>2. ~asked.tuned
  BY <1>1, SteadyBefore DEF Steady
<1> DEFINE m == Head(inbox)
<1>3. /\ inbox \in Seq(Message) /\ inbox # <<>> /\ inbox' = Tail(inbox)
      /\ UNCHANGED <<slept, pings, dead>> /\ "inbox" \in node.polled
  BY DEF IInv, WorldOK, RecvPeer, Polls
<1>4. /\ m \in Message /\ m = inbox[1] /\ Len(inbox) \in Nat \ {0}
      /\ Len(inbox') = Len(inbox) - 1
      /\ \A i \in 1 .. Len(inbox) - 1 : inbox'[i] = inbox[i + 1]
  BY <1>3
<1>5. \/ RecvHello(m) \/ RecvUnready(m) \/ RecvLost(m) \/ RecvData(m)
      \/ RecvPing(m) \/ RecvJoin(m) \/ RecvLeave(m) \/ RecvElection(m)
      \/ RecvGoodbye(m)
  BY DEF RecvPeer
<1> HIDE DEF m
<1>6. Settles(peers') /\ Attended(m.peer)
  BY <1>2, <1>4, <1>5, MessagesRenew
<1>7. ASSUME NEW p \in Peer \ {m.peer}, Heard(p) PROVE Heard(p)'
  <2>1. CASE p \in pings
    BY <1>3, <2>1 DEF Heard
  <2>2. CASE \E i \in 1 .. Len(inbox) : inbox[i].peer = p
    <3>1. PICK i \in 1 .. Len(inbox) : inbox[i].peer = p
      BY <2>2
    <3>2. i # 1
      BY <1>4, <1>7, <3>1
    <3>3. i - 1 \in 1 .. Len(inbox') /\ inbox'[i - 1] = inbox[i]
      <4>1. i - 1 \in 1 .. Len(inbox) - 1 /\ (i - 1) + 1 = i
        BY <1>4, <3>1, <3>2
      <4>2. inbox'[i - 1] = inbox[(i - 1) + 1]
        BY <1>4, <4>1
      <4> QED BY <1>4, <4>1, <4>2
    <3> QED BY <3>1, <3>3 DEF Heard
  <2> QED BY <1>7, <2>1, <2>2 DEF Heard
<1>8. m.peer \in Peer
  BY <1>4 DEF Message
<1>9. "inbox" \in node'.polled
  BY <1>1, <1>3, ListensOn, SteadyBefore DEF Steady
<1> QED BY <1>1, <1>3, <1>6, <1>7, <1>8, <1>9, ChangesOnTime DEF Attended

LEMMA RecvApiOnTime ==
    ASSUME IInv, OnTime, Untuned, RecvApi
    PROVE  OnTime'
<1>1. [Next]_vars
  BY DEF Next, Round
<1> DEFINE c == Head(pipe)
<1>2. AppOK /\ NodeOK /\ pipe # <<>> /\ pipe' = Tail(pipe) /\ Handled(c)
  BY DEF IInv, RecvApi, Handled
<1>3. c \in Commands
  BY <1>2, PipeShrinks
<1>4. UNCHANGED <<slept, inbox, pings, dead>>
  BY DEF RecvApi, world
<1> HIDE DEF c
<1>5. \/ peers' = peers
      \/ \E full : peers' = Disconnected(peers, full)
      \/ \E p \in Peer, ok \in BOOLEAN : peers' = RequirePeer(peers, p, ok)
  BY <1>2, <1>3, HandlersTime
<1> QED BY <1>1, <1>4, <1>5, RequireOnTime

\* A beacon brings a peer, or ends it.
LEMMA DiscoverOnTime ==
    ASSUME IInv, OnTime, Untuned, Discover
    PROVE  OnTime'
<1> SUFFICES ASSUME Steady' PROVE OnTime'
  BY DEF OnTime
<1>1. [Next]_vars
  BY DEF Next
<1>2. UNCHANGED <<slept, inbox, pings, dead>>
  BY DEF Discover, world
<1>3. PICK p \in Peer : \/ \E ok \in BOOLEAN : peers' = RequirePeer(peers, p, ok)
                        \/ peers' = peers
                        \/ \E full : peers' = Disconnected([peers EXCEPT ![p] = Unknown], full)
  <2>1. limits.cast \subseteq Peer
    BY DEF IInv, Limits
  <2> QED BY <2>1 DEF Discover, Outcome, Sending, Removed, Ignored
<1>4. CASE \E full : peers' = Disconnected([peers EXCEPT ![p] = Unknown], full)
  <2> DEFINE next == [peers EXCEPT ![p] = Unknown]
  <2>1. peers \in [Peer -> PeerState] /\ ~asked.tuned
    BY <1>1, SteadyBefore DEF IInv, PeersOK, Steady
  <2>2. Unknown \in PeerState /\ Renewed(Unknown) /\ ~Served(Unknown)
    BY <2>1, EntriesAre, Renewals
  <2>3. next \in [Peer -> PeerState] /\ Settles(next)
    BY <2>1, <2>2, SameSettles, OneSettles
  <2>4. \A q \in Peer : next[q] = peers[q] \/ ~Served(next[q])
    BY <2>1, <2>2
  <2>5. PICK full : peers' = Disconnected(next, full)
    BY <1>4
  <2> HIDE DEF next
  <2>6. /\ Settles(peers')
        /\ \A q \in Peer : peers'[q] = next[q] \/ ~Served(peers'[q])
    BY <2>3, <2>5, CutsSettle
  <2>7. \A q \in Peer : Stays(peers[q], peers'[q]) \/ ~Served(peers'[q])
    BY <2>4, <2>6 DEF Stays
  <2>8. \A q \in Peer : Heard(q) => Heard(q)'
    BY <1>2 DEF Heard
  <2> QED BY <1>1, <1>2, <2>6, <2>7, <2>8, ChangesOnTime
<1> QED BY <1>1, <1>2, <1>3, <1>4, RequireOnTime

LEMMA OthersOnTime ==
    ASSUME IInv, OnTime,
           Writes \/ Return \/ TakeEvent \/ GetMsg \/ Flush \/ StartBeacon \/ UNCHANGED vars,
           [Next]_vars
    PROVE  OnTime'
<1>1. UNCHANGED <<peers, slept, inbox, pings, dead>>
  <2>1. CASE Writes
    BY <2>1 DEF Writes, Posted, Called, Post, Call, PostHalf, actor, world
  <2>2. CASE Return \/ TakeEvent \/ GetMsg
    BY <2>2 DEF Return, TakeEvent, GetMsg, actor, world
  <2>3. CASE Flush \/ UNCHANGED vars
    BY <2>3 DEF Flush, vars, actor, world
  <2>4. CASE StartBeacon
    BY <2>4 DEF StartBeacon, Abort, Only, world
  <2> QED BY <2>1, <2>2, <2>3, <2>4
<1> QED BY <1>1, StillOnTime

\* What is said, and the answer to a PING, only adds to the inbox.
LEMMA SayOnTime ==
    ASSUME IInv, OnTime, Say \/ AnswerPing \/ Die
    PROVE  OnTime'
<1> SUFFICES ASSUME Steady' PROVE Punctual' /\ NoneLater' /\ \A p \in Peer \ dead' : Kept(p)'
  BY DEF OnTime
<1>1. [Next]_vars
  BY DEF Next
<1>2. Steady /\ limits'.prompt = limits.prompt /\ limits'.bucket = limits.bucket
  BY <1>1, SteadyBefore, LimitsStay DEF IInv
<1>3. UNCHANGED <<node, peers, slept>> /\ pings' \subseteq pings /\ dead \subseteq dead'
  BY DEF Say, AnswerPing, Die, actor
<1>4. Punctual /\ NoneLater /\ \A p \in Peer \ dead : Kept(p)
  BY <1>2 DEF OnTime
<1>5. Punctual' /\ NoneLater'
  BY <1>3, <1>4 DEF Punctual, NoneLater
<1>6. inbox \in Seq(Message) /\ pings \subseteq Peer
  BY DEF IInv, WorldOK
<1>7. ASSUME NEW p \in Peer \ dead', peers[p].open, Heard(p) PROVE Heard(p)'
  <2>1. ASSUME NEW m \in Message, inbox' = Append(inbox, m)
        PROVE  /\ \A i \in 1 .. Len(inbox) : i \in 1 .. Len(inbox') /\ inbox'[i] = inbox[i]
               /\ Len(inbox') \in 1 .. Len(inbox') /\ inbox'[Len(inbox')] = m
    BY <1>6, <2>1
  <2>2. CASE Say
    <3>1. PICK m \in Message : inbox' = Append(inbox, m)
      BY <2>2 DEF Say
    <3>2. pings' = pings
      BY <2>2 DEF Say
    <3> QED BY <1>7, <2>1, <3>1, <3>2 DEF Heard
  <2>3. CASE AnswerPing
    <3>1. PICK r \in pings :
              /\ \/ inbox' = Append(inbox, [peer |-> r, groups |-> {}, lost |-> FALSE,
                                            id |-> "PING_OK"])
                 \/ ~peers[r].open /\ inbox' = inbox
              /\ pings' = pings \ {r}
      BY <2>3 DEF AnswerPing
    <3> DEFINE m == [peer |-> r, groups |-> {}, lost |-> FALSE, id |-> "PING_OK"]
    <3>2. m \in Message /\ m.peer = r
      BY <1>6, <3>1 DEF Message, Ids
    <3>3. inbox' = Append(inbox, m) \/ (~peers[r].open /\ inbox' = inbox)
      BY <3>1
    <3> HIDE DEF m
    <3>4. CASE p = r
      BY <1>7, <2>1, <3>2, <3>3, <3>4 DEF Heard
    <3>5. CASE p # r /\ inbox' = inbox
      BY <1>7, <3>1, <3>5 DEF Heard
    <3>6. CASE p # r /\ inbox' = Append(inbox, m)
      BY <1>7, <2>1, <3>1, <3>2, <3>6 DEF Heard
    <3> QED BY <3>3, <3>4, <3>5, <3>6
  <2>4. CASE Die
    <3>1. PICK r \in limits.cast \ dead : dead' = dead \cup {r} /\ pings' = pings \ {r}
      BY <2>4 DEF Die
    <3>2. inbox' = inbox /\ p # r
      BY <2>4, <3>1 DEF Die
    <3> QED BY <1>7, <3>1, <3>2 DEF Heard
  <2> QED BY <2>2, <2>3, <2>4
<1>8. ASSUME NEW p \in Peer \ dead' PROVE Kept(p)'
  <2>1. Bucket(p)' = Bucket(p) /\ Ahead(p)' = Ahead(p) /\ Stays(peers[p], peers'[p])
    BY <1>2, <1>3 DEF Bucket, Ahead, Known, Open, Stays
  <2>2. p \in Peer \ dead /\ Kept(p) /\ slept \in Nat /\ PeersOK
    BY <1>3, <1>4 DEF IInv
  <2>3. Served(peers'[p]) /\ Heard(p) => Heard(p)'
    BY <1>3, <1>7 DEF Served
  <2> QED BY <1>3, <2>1, <2>2, <2>3, KeptThrough
<1> QED BY <1>5, <1>8

-----------------------------------------------------------------------------
\* The clock ticks only before the reaper is due.
LEMMA TickTime ==
    ASSUME IInv, OnTime, Untuned, Roomy, Steady, Tick
    PROVE  /\ pings = {} /\ ("inbox" \in node.polled => inbox = <<>>)
           /\ slept + 1 <= Pause /\ slept' = slept + 1
<1>1. /\ limits.prompt /\ Peer # {} /\ ~asked.tuned
      /\ failed = Null /\ ~node.terminated
  BY DEF Steady
<1>2. /\ pipe = <<>> /\ todo = <<>> /\ pings = {} /\ ~(ReapDue /\ slept > 0)
      /\ "inbox" \in node.polled => inbox = <<>>
  BY <1>1 DEF Tick
<1>3. Interval = Pause
  BY <1>1, IntervalIs DEF Untuned, IInv
<1>4. ReapDue <=> slept >= Pause
  BY <1>1, <1>2, <1>3 DEF ReapDue, Running
<1>5. slept \in Nat /\ slept < Pause
  BY <1>2, <1>4, PauseFacts DEF IInv
<1>6. slept' = Least(slept + 1, Reap)
  BY DEF Tick
<1>7. slept + 1 <= Pause /\ slept' = slept + 1
  BY <1>5, <1>6, PauseFacts DEF Least
<1> QED BY <1>2, <1>7

LEMMA TickOnTime ==
    ASSUME IInv, OnTime, Untuned, Roomy, Tick
    PROVE  OnTime'
<1> SUFFICES ASSUME Steady' PROVE Punctual' /\ NoneLater' /\ \A p \in Peer \ dead' : Kept(p)'
  BY DEF OnTime
<1>1. [Next]_vars
  BY DEF Next
<1>2. Steady /\ limits.prompt /\ ~asked.stopped
  BY <1>1, SteadyBefore DEF Steady
<1>3. limits'.bucket = limits.bucket
  BY <1>1, LimitsStay DEF IInv
<1>4. Punctual /\ NoneLater /\ \A p \in Peer \ dead : Kept(p)
  BY <1>2 DEF OnTime
<1>5. /\ pings = {} /\ ("inbox" \in node.polled => inbox = <<>>)
      /\ slept + 1 <= Pause /\ slept' = slept + 1
  BY <1>2, TickTime
<1>6. PeersOK /\ slept \in Nat
  BY DEF IInv
<1>7. UNCHANGED <<node, inbox, pings, dead>>
  BY DEF Tick, world
<1>8. \A p \in Peer : /\ peers[p].expired \in Nat /\ peers[p].evasive \in Int
                      /\ peers'[p].state = peers[p].state /\ peers'[p].open = peers[p].open
                      /\ p \in Known =>
                            /\ peers'[p].evasive = Most(peers[p].evasive - 1, -Reap)
                            /\ peers'[p].expired = Most(peers[p].expired - 1, 0)
                      /\ p \notin Known => peers'[p] = peers[p]
  BY <1>6 DEF Tick, PeersOK, PeerState
<1>9. Punctual'
  BY <1>5, <1>6, <1>7, PauseFacts DEF Punctual
<1>10. NoneLater'
  <2>1. ASSUME NEW p \in Peer PROVE peers'[p].expired <= Expired
    <3>1. peers[p].expired <= Expired /\ peers[p].expired \in Nat
      BY <1>4, <1>8 DEF NoneLater
    <3> QED BY <1>8, <3>1, PauseFacts DEF Most
  <2> QED BY <2>1 DEF NoneLater
<1>11. ASSUME NEW p \in Peer \ dead', Served(peers'[p]) PROVE Kept(p)'
  <2>1. p \in Known /\ Served(peers[p]) /\ p \in Peer \ dead
    BY <1>7, <1>8, <1>11 DEF Known, Served
  <2>2. "inbox" \in node.polled /\ (Heard(p) \/ Timely(p))
    BY <1>4, <2>1 DEF Kept
  <2>3. ~Heard(p)
    BY <1>5, <2>2 DEF Heard
  <2>4. Timely(p) /\ slept <= Pause
    BY <1>4, <2>2, <2>3 DEF Punctual
  <2> DEFINE x == peers[p].expired
             y == peers'[p].expired
             v == peers'[p].evasive
  <2>5. x \in Nat /\ x > 0
    BY <1>2, <1>6, <1>8, <2>4, TicksLeft
  <2>6. y = x - 1 /\ v = Most(Most(x - Expired + Evasive, -Reap) - 1, -Reap)
    <3>1. peers[p].evasive = Most(x - Expired + Evasive, -Reap)
      BY <2>4 DEF Timely
    <3>2. y = Most(x - 1, 0) /\ v = Most(peers[p].evasive - 1, -Reap)
      BY <1>8, <2>1
    <3> HIDE DEF x, y, v
    <3> QED BY <2>5, <3>1, <3>2 DEF Most
  <2>7. Since(p) = Expired - x - slept /\ Since(p)' = Expired - y - slept'
    BY DEF Since
  <2>8. Ahead(p)' \subseteq Ahead(p)
    <3>1. ASSUME NEW q \in Ahead(p)' PROVE q \in Ahead(p)
      <4>1. /\ q \in Peer /\ q \in Bucket(p)
            /\ peers'[q].state # "unknown" \/ peers'[q].open
            /\ peers'[q].expired < y
        BY <1>3, <3>1 DEF Ahead, Known, Open, Bucket
      <4>2. q \in Known \cup Open
        BY <1>8, <4>1 DEF Known, Open
      <4>3. /\ peers[q].expired \in Nat
            /\ \/ peers'[q].expired = Most(peers[q].expired - 1, 0)
               \/ peers'[q].expired = peers[q].expired
        BY <1>8, <4>1
      <4> HIDE DEF x, y, v
      <4>4. peers[q].expired < x
        BY <2>5, <2>6, <4>1, <4>3 DEF Most
      <4> QED BY <4>1, <4>2, <4>4 DEF Ahead, x
    <3> QED BY <3>1
  <2> HIDE DEF x, y, v
  <2>9. Since(p)' = Since(p) /\ Since(p) \in Int
    BY <1>5, <1>6, <2>5, <2>6, <2>7, PauseFacts
  <2>10. v = Most(y - Expired + Evasive, -Reap)
    BY <2>5, <2>6, PauseFacts DEF Most
  <2>11. (peers[p].evasive)' = Most((peers[p].expired)' - Expired + Evasive, -Reap)
    BY <2>10 DEF v, y
  <2>12. Bucket(p)' = Bucket(p)
    BY <1>3 DEF Bucket
  <2>13. Timely(p)'
    BY <1>6, <2>4, <2>8, <2>9, <2>11, <2>12, StillTimely
  <2> QED BY <1>7, <2>2, <2>13 DEF Kept
<1>12. \A p \in Peer \ dead' : Kept(p)'
  BY <1>11 DEF Kept
<1> QED BY <1>9, <1>10, <1>12

-----------------------------------------------------------------------------
\* The reaper passes a peer over for one of its bucket that it removes.
LEMMA PassedOver ==
    ASSUME PeersOK, NEW p \in Peer \ Reached
    PROVE  \E q \in Overdue : q \in Bucket(p) /\ peers[q].expired <= 0
<1>1. Order \in Seq(Peer) /\ \A r \in Peer : \E i \in DOMAIN Order : Order[i] = r
  BY PeerAssumption
<1>2. DOMAIN Order = 1 .. Len(Order) /\ Len(Order) \in Nat
  BY <1>1
<1>3. PICK i \in 1 .. Len(Order) : Order[i] = p
  BY <1>1, <1>2
<1> DEFINE K == {k \in 1 .. i - 1 : /\ limits.bucket[Order[k]] = limits.bucket[Order[i]]
                                   /\ Order[k] \in Known /\ peers[Order[k]].expired <= 0}
<1>4. ~Visited(i)
  BY <1>2, <1>3 DEF Reached
<1>5. K \in SUBSET Nat /\ K # {}
  BY <1>3, <1>4 DEF Visited
<1> HIDE DEF K
<1>6. PICK m \in K : \A k \in K : m <= k
  BY <1>5, LeastElement
<1>7. /\ m \in 1 .. i - 1 /\ limits.bucket[Order[m]] = limits.bucket[Order[i]]
      /\ Order[m] \in Known /\ peers[Order[m]].expired <= 0
  BY <1>6 DEF K
<1>8. m \in 1 .. Len(Order)
  BY <1>2, <1>3, <1>7
<1>9. Visited(m)
  <2>1. ASSUME NEW k \in 1 .. m - 1, limits.bucket[Order[k]] = limits.bucket[Order[m]],
               Order[k] \in Known, peers[Order[k]].expired <= 0
        PROVE  FALSE
    <3>1. k \in 1 .. i - 1
      BY <1>3, <1>7
    <3>2. k \in K
      BY <1>7, <2>1, <3>1 DEF K
    <3> QED BY <1>6, <1>7, <3>1, <3>2
  <2> QED BY <2>1 DEF Visited
<1>10. Order[m] \in Reached
  BY <1>2, <1>8, <1>9 DEF Reached
<1>11. Order[m] \in Overdue /\ Order[m] \in Bucket(p)
  BY <1>3, <1>7, <1>10 DEF Overdue, Bucket, Known
<1> QED BY <1>7, <1>11

\* The reaper comes on time.
LEMMA ReapTime ==
    ASSUME IInv, OnTime, Untuned, Roomy, Steady, ReapPeers
    PROVE  /\ pings = {} /\ ("inbox" \in node.polled => inbox = <<>>)
           /\ slept = Pause /\ slept' = 0
<1>1. limits.prompt /\ Peer # {} /\ ~asked.tuned
  BY DEF Steady
<1>2. Interval = Pause
  BY <1>1, IntervalIs DEF Untuned, IInv
<1>3. slept >= Pause /\ ("inbox" \in node.polled => inbox = <<>>) /\ slept' = 0
  BY <1>2 DEF ReapPeers, ReapDue
<1>4. slept <= Pause /\ (pings = {} \/ slept = 0) /\ slept \in Nat
  BY DEF OnTime, Punctual, IInv
<1> QED BY <1>3, <1>4, PauseFacts

LEMMA ReapPeersOnTime ==
    ASSUME IInv, OnTime, Untuned, Roomy, ReapPeers
    PROVE  OnTime'
<1> SUFFICES ASSUME Steady' PROVE Punctual' /\ NoneLater' /\ \A p \in Peer \ dead' : Kept(p)'
  BY DEF OnTime
<1>1. [Next]_vars
  BY DEF Next, Round
<1>2. Steady /\ limits.prompt
  BY <1>1, SteadyBefore DEF Steady
<1>3. Punctual /\ NoneLater /\ \A p \in Peer \ dead : Kept(p)
  BY <1>2 DEF OnTime
<1>4. /\ pings = {} /\ ("inbox" \in node.polled => inbox = <<>>)
      /\ slept = Pause /\ slept' = 0
  BY <1>2, ReapTime
<1>5. PeersOK
  BY DEF IInv
<1> DEFINE reaped == [p \in Peer |-> IF p \in Overdue THEN Unknown ELSE peers[p]]
<1>6. /\ UNCHANGED <<node, dead, limits>>
      /\ \E full, more : /\ peers' = Disconnected(reaped, full \cup more)
                         /\ pings' = pings \cup ((Evading \cap Open) \ (dead \cup full))
  BY DEF ReapPeers, Outcome
<1>6a. PICK full, more : /\ peers' = Disconnected(reaped, full \cup more)
                         /\ pings' = pings \cup ((Evading \cap Open) \ (dead \cup full))
  BY <1>6
<1>8. Unknown.state = "unknown" /\ ~Unknown.open /\ Unknown.expired = 0 /\ Unknown \in PeerState
  BY DEF Unknown, PeerState
<1>8a. /\ reaped \in [Peer -> PeerState]
       /\ \A p \in Peer : reaped[p] = IF p \in Overdue THEN Unknown ELSE peers[p]
  BY <1>5, <1>8 DEF PeersOK
<1> HIDE DEF reaped
<1>7a. \A p \in Peer : peers'[p] = IF p \in full \cup more /\ reaped[p].open
                                   THEN CutOff(reaped[p]) ELSE reaped[p]
  BY <1>6a DEF Disconnected
<1>7b. \A p \in Peer : /\ ~CutOff(reaped[p]).open
                       /\ CutOff(reaped[p]).expired = reaped[p].expired
                       /\ CutOff(reaped[p]).state = "known"
  <2>1. \A p \in Peer : reaped[p] \in PeerState
    BY <1>8a
  <2> QED BY <2>1, EntriesAre
<1>7. /\ \A p \in Overdue : peers'[p] = Unknown
      /\ \A p \in Peer \ Overdue : peers'[p].expired = peers[p].expired
      /\ \A p \in Peer \ Overdue : peers'[p].open \/ peers'[p].state # "unknown"
                                       => peers[p].open \/ peers[p].state # "unknown"
      /\ \A p \in Peer \ Overdue : peers'[p].open => p \notin full /\ peers'[p] = peers[p]
  <2>1. Overdue \subseteq Peer
    BY DEF Overdue, Known
  <2>2. \A p \in Overdue : peers'[p] = Unknown
    BY <1>7a, <1>8, <1>8a, <2>1
  <2>3. ASSUME NEW p \in Peer \ Overdue
        PROVE  /\ peers'[p].expired = peers[p].expired
               /\ peers'[p].open \/ peers'[p].state # "unknown"
                       => peers[p].open \/ peers[p].state # "unknown"
               /\ peers'[p].open => p \notin full /\ peers'[p] = peers[p]
    <3>1. reaped[p] = peers[p]
      BY <1>8a
    <3> QED BY <1>7a, <1>7b, <3>1
  <2> QED BY <2>2, <2>3
<1>9. Punctual'
  BY <1>4, PauseFacts DEF Punctual
<1>10. NoneLater'
  BY <1>3, <1>7, <1>8, PauseFacts DEF NoneLater
<1>11. ASSUME NEW p \in Peer \ dead', Served(peers'[p]) PROVE Kept(p)'
  <2>1. /\ p \in Peer \ dead /\ p \notin Overdue /\ peers'[p] = peers[p]
        /\ Served(peers[p]) /\ p \in Known /\ p \in Open \ full
    BY <1>6, <1>7, <1>8, <1>11 DEF Known, Open, Served
  <2>2. "inbox" \in node.polled /\ (Heard(p) \/ Timely(p))
    BY <1>3, <2>1 DEF Kept
  <2>3. ~Heard(p)
    BY <1>4, <2>2 DEF Heard
  <2>4. Timely(p) /\ slept <= Pause /\ slept \in Nat
    BY <1>4, <2>2, <2>3, PauseFacts
  <2> DEFINE x == peers[p].expired
             s == Since(p)
  <2>5. x \in Nat /\ x > 0
    BY <1>2, <1>5, <2>4, TicksLeft DEF PeersOK, PeerState
  <2>6. s = Expired - x - Pause /\ Since(p)' = Expired - x
    BY <1>4, <2>1, <2>5, PauseFacts DEF Since
  <2>7. peers[p].evasive = Most(x - Expired + Evasive, -Reap)
    BY <2>4 DEF Timely
  <2>8. CASE p \in Evading
    BY <1>6, <1>6a, <2>1, <2>2, <2>8 DEF Kept, Heard
  <2>9. ASSUME p \in Reached, p \notin Evading PROVE Timely(p)'
    <3>1. peers[p].evasive \in Int /\ ~(peers[p].evasive <= 0)
      BY <1>5, <2>1, <2>5, <2>9 DEF Evading, PeersOK, PeerState
    <3> HIDE DEF x, s
    <3>2. ~(Expired - x >= Evasive)
      BY <2>5, <2>7, <3>1, PauseFacts DEF Most
    <3>3. ~(Since(p)' >= Evasive)
      BY <2>6, <3>2
    <3>4. (peers[p].evasive)' = Most((peers[p].expired)' - Expired + Evasive, -Reap)
      BY <2>1, <2>7 DEF x
    <3> QED BY <3>3, <3>4 DEF Timely
  <2>10. ASSUME p \notin Reached PROVE Timely(p)'
    <3>1. PICK q \in Overdue : q \in Bucket(p) /\ peers[q].expired <= 0
      BY <1>5, <2>1, <2>10, PassedOver
    <3>2. q \in Ahead(p) /\ q \notin Ahead(p)' /\ Ahead(p)' \subseteq Ahead(p)
      <4>1. q \in Known /\ q \in Peer /\ peers[q].expired \in Nat
        BY <1>5, <3>1 DEF Overdue, Known, PeersOK, PeerState
      <4>2. q \in Ahead(p)
        BY <2>5, <3>1, <4>1 DEF Ahead
      <4>3. q \notin Known' \cup Open'
        BY <1>7, <1>8, <3>1, <4>1 DEF Known, Open
      <4>4. ASSUME NEW r \in Ahead(p)' PROVE r \in Ahead(p)
        <5>1. /\ r \in Peer /\ r \in Bucket(p)
              /\ peers'[r].open \/ peers'[r].state # "unknown"
              /\ peers'[r].expired < peers[p].expired
          BY <1>6, <2>1, <4>4 DEF Ahead, Known, Open, Bucket
        <5>2. r \in Peer \ Overdue
          BY <1>7, <1>8, <5>1
        <5>3. /\ peers'[r].expired = peers[r].expired
              /\ peers[r].open \/ peers[r].state # "unknown"
          BY <1>7, <5>1, <5>2
        <5> QED BY <5>1, <5>3 DEF Ahead, Known, Open
      <4> QED BY <4>2, <4>3, <4>4 DEF Ahead
    <3> DEFINE a == Cardinality(Ahead(p))
               b == Cardinality(Ahead(p)')
               c == Cardinality(Bucket(p))
    <3>3. IsFiniteSet(Ahead(p)) /\ a \in Nat /\ c \in Nat /\ a + 1 <= c
      BY <1>5, BucketFacts
    <3>4. IsFiniteSet(Ahead(p)') /\ b \in Nat
      BY <3>2, <3>3, FS_Subset, FS_CardinalityType
    <3>5. b + 1 <= a
      <4>1. Cardinality(Ahead(p)' \cup {q}) = b + 1
        BY <3>2, <3>4, FS_AddElement
      <4>2. Ahead(p)' \cup {q} \subseteq Ahead(p)
        BY <3>2
      <4> QED BY <3>3, <4>1, <4>2, FS_Subset
    <3> DEFINE k == Pause * a
               l == Pause * b
               n == Pause * c
    <3>6. s >= Evasive => s - Evasive + k < n - Pause
      BY <2>4 DEF Timely
    <3> HIDE DEF a, b, c
    <3>7. k \in Nat /\ l \in Nat /\ n \in Nat /\ l + Pause <= k /\ k + Pause <= n
      BY <3>3, <3>4, <3>5, PauseTimes
    <3> HIDE DEF x, s, k, l, n
    <3>8. Expired - x - Evasive + l < n - Pause
          \/ ~(Expired - x >= Evasive)
      <4>1. s \in Int
        BY <2>5, <2>6, PauseFacts
      <4>2. CASE s >= Evasive
        BY <2>5, <2>6, <3>6, <3>7, <4>1, <4>2, PauseFacts
      <4>3. CASE ~(s >= Evasive)
        BY <2>5, <2>6, <3>7, <4>1, <4>3, PauseFacts
      <4> QED BY <4>2, <4>3
    <3>9. Since(p)' >= Evasive => Since(p)' - Evasive + l < n - Pause
      BY <2>6, <3>8
    <3>10. Bucket(p)' = Bucket(p)
      BY <1>6 DEF Bucket
    <3>11. l = Pause * Cardinality(Ahead(p)') /\ n = Pause * Cardinality(Bucket(p)')
      BY <3>10 DEF l, n, b, c
    <3>12. (peers[p].evasive)' = Most((peers[p].expired)' - Expired + Evasive, -Reap)
      BY <2>1, <2>7 DEF x
    <3> QED BY <3>9, <3>11, <3>12 DEF Timely
  <2> QED BY <1>6, <2>2, <2>8, <2>9, <2>10 DEF Kept
<1>12. \A p \in Peer \ dead' : Kept(p)'
  BY <1>11 DEF Kept
<1> QED BY <1>9, <1>10, <1>12

-----------------------------------------------------------------------------
LEMMA InitOnTime == Init => Untuned /\ Roomy /\ OnTime
<1> SUFFICES ASSUME Init PROVE Untuned /\ Roomy /\ OnTime
  OBVIOUS
<1>1. Untuned
  BY DEF Init, Untuned
<1>2. Roomy
  <2>1. limits \in Budgets
    BY DEF Init
  <2> QED BY <2>1, BucketAssumption DEF Roomy, Pause, Bucket
<1>3. OnTime
  <2>1. slept = 0 /\ pings = {} /\ peers = [p \in Peer |-> Unknown]
    BY DEF Init
  <2>2. \A p \in Peer : peers[p].state = "unknown" /\ peers[p].expired = 0
    BY <2>1 DEF Unknown
  <2>3. Punctual /\ NoneLater
    BY <2>1, <2>2, PauseFacts DEF Punctual, NoneLater
  <2>4. \A p \in Peer : Kept(p)
    BY <2>2 DEF Kept, Served
  <2> QED BY <2>3, <2>4 DEF OnTime
<1> QED BY <1>1, <1>2, <1>3

LEMMA NextOnTime ==
    IInv /\ Untuned /\ Roomy /\ OnTime /\ [Next]_vars => Untuned' /\ Roomy' /\ OnTime'
<1> SUFFICES ASSUME IInv, Untuned, Roomy, OnTime, [Next]_vars
             PROVE  Untuned' /\ Roomy' /\ OnTime'
  OBVIOUS
<1>1. Untuned' /\ Roomy'
  BY UntunedStays, RoomyStays DEF IInv
<1>2. CASE \/ Writes \/ Return \/ TakeEvent \/ GetMsg \/ Flush \/ StartBeacon
           \/ UNCHANGED vars
  BY <1>1, <1>2, OthersOnTime
<1>3. CASE RecvApi
  BY <1>1, <1>3, RecvApiOnTime
<1>4. CASE RecvPeer \/ Discover \/ ReapPeers
  BY <1>1, <1>4, RecvPeerOnTime, DiscoverOnTime, ReapPeersOnTime
<1>5. CASE WorldStep
  BY <1>1, <1>5, SayOnTime, TickOnTime DEF WorldStep
<1> QED BY <1>1, <1>2, <1>3, <1>4, <1>5, NextShape DEF NodeStep

\* However many peers share a bucket of the hash table, as long as the interval
\* has passed once for each of them between a PING and the expiry of its peer
\* (BucketAssumption): a peer that answers its PINGs, on a node that reads them
\* in time and has not disconnected it, is never expired by zyre_node_ping_peer,
\* and one that has a bucket to itself is never called silent.
THEOREM LivePeersKept == Spec => []LivePeerKept
<1>1. Init => Untuned /\ Roomy /\ OnTime
  BY InitOnTime
<1>2. IInv /\ Untuned /\ Roomy /\ OnTime /\ [Next]_vars => Untuned' /\ Roomy' /\ OnTime'
  BY NextOnTime
<1>3. IInv /\ Untuned /\ Roomy /\ OnTime => LivePeerKept
  BY OnTimeSuffices
<1> QED BY Invariant, <1>1, <1>2, <1>3, PTL DEF Spec

=============================================================================
