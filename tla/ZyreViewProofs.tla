--------------------------- MODULE ZyreViewProofs ---------------------------
(***************************************************************************)
(* What a node knows of its peers, for any number of nodes and groups.     *)
(*                                                                         *)
(* Three results, each with an invariant of its own: what r knows of the   *)
(* groups of s is out of date only by the messages under way               *)
(* (ViewCatchesUp); what reaches a node over an open mailbox is never      *)
(* ignored (NeverIgnored); and the nodes implement ZyrePresence            *)
(* (KeepsPromise).                                                         *)
(***************************************************************************)
EXTENDS ZyreNodeProofs, WellFoundedInduction

-----------------------------------------------------------------------------
(***************************************************************************)
(* Induction, by the least element of a set of numbers.                    *)
(***************************************************************************)
LEMMA LeastElement ==
    ASSUME NEW T \in SUBSET Nat, T # {}
    PROVE  \E m \in T : \A k \in T : m <= k
<1> DEFINE R == OpToRel(<, Nat)
<1>1. IsWellFoundedOn(R, Nat)
  BY NatLessThanWellFounded
<1>2. \A x, y \in Nat : <<y, x>> \in R <=> y < x
  BY DEF OpToRel
<1> HIDE DEF R
<1>3. \E x \in T : \A y \in T : ~(<<y, x>> \in R)
  BY <1>1, WFMin
<1>4. PICK x \in T : \A y \in T : ~(<<y, x>> \in R)
  BY <1>3
<1>5. \A y \in T : ~(y < x)
  BY <1>2, <1>4
<1>6. \A a, b \in Nat : ~(a < b) => b <= a
  OBVIOUS
<1> QED BY <1>5, <1>6

\* A set of numbers that holds i, and with every number below n the next one.
LEMMA Climb ==
    ASSUME NEW S, NEW i \in Nat, NEW n \in Nat, i \in S,
           \A k \in i .. n - 1 : k \in S => k + 1 \in S
    PROVE  \A k \in i .. n : k \in S
<1> DEFINE T == {k \in Nat : i <= k /\ k <= n /\ k \notin S}
<1> SUFFICES ASSUME T # {} PROVE FALSE
  OBVIOUS
<1>1. PICK m \in T : \A k \in T : m <= k
  BY LeastElement
<1>2. m # i /\ m \in Nat /\ i <= m /\ m <= n /\ m \notin S
  BY <1>1
<1>3. m - 1 \in i .. n - 1 /\ m - 1 \in Nat
  BY <1>2
<1>4. m - 1 \in S
  BY <1>1, <1>3
<1> QED BY <1>2, <1>3, <1>4

-----------------------------------------------------------------------------
(***************************************************************************)
(* What a view becomes when a queue is handled.                            *)
(***************************************************************************)
\* One message: a HELLO says it all, JOIN and LEAVE change one group.
After(v, m) ==
    CASE m.command = "HELLO" -> [groups |-> m.groups, status |-> m.status]
      [] m.command = "JOIN" -> [groups |-> v.groups \cup m.groups,
                                status |-> NextStatus(v.status)]
      [] m.command = "LEAVE" -> [groups |-> v.groups \ m.groups,
                                 status |-> NextStatus(v.status)]
      [] OTHER -> v

\* f[k] is the view after k messages of q.
IsRun(f, q, v) ==
    f = [k \in 0 .. Len(q) |-> IF k = 0 THEN v ELSE After(f[k - 1], q[k])]

Leads(q, v, x) == \E f : IsRun(f, q, v) /\ f[Len(q)] = x

\* Handling a prefix of the queue.
IsRunTo(f, n, q, v) ==
    f = [k \in 0 .. n |-> IF k = 0 THEN v ELSE After(f[k - 1], q[k])]

LEMMA RunTo ==
    ASSUME NEW q, NEW v, NEW n \in Nat
    PROVE  \E f : IsRunTo(f, n, q, v)
<1> DEFINE S == {k \in Nat : \E f : IsRunTo(f, k, q, v)}
<1>1. 0 \in S
  <2> DEFINE f == [k \in 0 .. 0 |-> v]
  <2>1. f = [k \in 0 .. 0 |-> IF k = 0 THEN v ELSE After(f[k - 1], q[k])]
    OBVIOUS
  <2> QED BY <2>1 DEF IsRunTo
<1>2. ASSUME NEW k \in 0 .. n - 1, k \in S PROVE k + 1 \in S
  <2>1. PICK f : IsRunTo(f, k, q, v)
    BY <1>2
  <2> DEFINE g == [j \in 0 .. k + 1 |-> IF j = k + 1 THEN After(f[k], q[k + 1]) ELSE f[j]]
  <2>2. f = [j \in 0 .. k |-> IF j = 0 THEN v ELSE After(f[j - 1], q[j])]
    BY <2>1 DEF IsRunTo
  <2>3. \A j \in 0 .. k : f[j] = IF j = 0 THEN v ELSE After(f[j - 1], q[j])
    BY <2>2
  <2>4. \A j \in 0 .. k + 1 : g[j] = IF j = 0 THEN v ELSE After(g[j - 1], q[j])
    <3> SUFFICES ASSUME NEW j \in 0 .. k + 1
                 PROVE  g[j] = IF j = 0 THEN v ELSE After(g[j - 1], q[j])
      OBVIOUS
    <3>1. CASE j = k + 1
      <4>1. j # 0 /\ j - 1 = k /\ g[k] = f[k] /\ g[j] = After(f[k], q[k + 1])
        BY <3>1
      <4> QED BY <3>1, <4>1
    <3>2. CASE j # k + 1
      <4>1. j \in 0 .. k /\ g[j] = f[j] /\ (j # 0 => g[j - 1] = f[j - 1])
        BY <3>2
      <4> QED BY <2>3, <4>1
    <3> QED BY <3>1, <3>2
  <2>5. DOMAIN g = 0 .. k + 1 /\ g = [j \in DOMAIN g |-> g[j]]
    OBVIOUS
  <2> HIDE DEF g
  <2>6. g = [j \in 0 .. k + 1 |-> IF j = 0 THEN v ELSE After(g[j - 1], q[j])]
    BY <2>4, <2>5
  <2> QED BY <2>6 DEF IsRunTo
<1> HIDE DEF S
<1>3. n \in S
  BY <1>1, <1>2, Climb
<1> QED BY <1>3 DEF S

LEMMA RunUnique ==
    ASSUME NEW q, NEW v, NEW n \in Nat, NEW f, NEW g,
           IsRunTo(f, n, q, v), IsRunTo(g, n, q, v)
    PROVE  f = g
<1> DEFINE S == {k \in Nat : f[k] = g[k]}
<1>1. /\ f = [k \in 0 .. n |-> IF k = 0 THEN v ELSE After(f[k - 1], q[k])]
      /\ g = [k \in 0 .. n |-> IF k = 0 THEN v ELSE After(g[k - 1], q[k])]
  BY DEF IsRunTo
<1>2. \A k \in 0 .. n : /\ f[k] = IF k = 0 THEN v ELSE After(f[k - 1], q[k])
                        /\ g[k] = IF k = 0 THEN v ELSE After(g[k - 1], q[k])
  BY <1>1
<1>3. 0 \in S
  BY <1>2
<1>4. ASSUME NEW k \in 0 .. n - 1, k \in S PROVE k + 1 \in S
  <2>1. k + 1 \in 0 .. n /\ k + 1 # 0 /\ (k + 1) - 1 = k /\ f[k] = g[k] /\ k + 1 \in Nat
    BY <1>4
  <2>2. f[k + 1] = After(f[k], q[k + 1]) /\ g[k + 1] = After(g[k], q[k + 1])
    BY <1>2, <2>1
  <2> QED BY <2>1, <2>2
<1> HIDE DEF S
<1>5. \A k \in 0 .. n : k \in S
  BY <1>3, <1>4, Climb
<1>6. \A k \in 0 .. n : f[k] = g[k]
  BY <1>5 DEF S
<1>7. f = [k \in 0 .. n |-> f[k]] /\ g = [k \in 0 .. n |-> g[k]]
  BY <1>1
<1> QED BY <1>6, <1>7

\* A queue leads a view to one view.
LEMMA LeadsOne ==
    ASSUME NEW q \in Seq(Message), NEW v
    PROVE  /\ \E x : Leads(q, v, x)
           /\ \A x, y : Leads(q, v, x) /\ Leads(q, v, y) => x = y
<1>1. Len(q) \in Nat
  OBVIOUS
<1>2. \A f : IsRun(f, q, v) <=> IsRunTo(f, Len(q), q, v)
  BY DEF IsRun, IsRunTo
<1>3. \E f : IsRun(f, q, v)
  BY <1>1, <1>2, RunTo
<1>4. \A f, g : IsRun(f, q, v) /\ IsRun(g, q, v) => f = g
  BY <1>1, <1>2, RunUnique
<1> QED BY <1>3, <1>4 DEF Leads

\* The empty queue, a message more at the end, a message less at the front.
LEMMA LeadsNowhere == \A v : Leads(<<>>, v, v)
<1> SUFFICES ASSUME NEW v PROVE Leads(<<>>, v, v)
  OBVIOUS
<1> DEFINE f == [k \in 0 .. 0 |-> v]
<1>1. f = [k \in 0 .. Len(<<>>) |-> IF k = 0 THEN v ELSE After(f[k - 1], <<>>[k])]
  OBVIOUS
<1>2. f[Len(<<>>)] = v
  OBVIOUS
<1> QED BY <1>1, <1>2 DEF Leads, IsRun

LEMMA LeadsAppend ==
    ASSUME NEW q \in Seq(Message), NEW m \in Message, NEW v, NEW x, Leads(q, v, x)
    PROVE  Leads(Append(q, m), v, After(x, m))
<1> DEFINE p == Append(q, m)
           l == Len(q)
<1>1. /\ l \in Nat /\ Len(p) = l + 1 /\ p[l + 1] = m
      /\ \A i \in 1 .. l : p[i] = q[i]
  OBVIOUS
<1>2. PICK f : IsRun(f, q, v) /\ f[l] = x
  BY DEF Leads
<1> HIDE DEF p
<1>3. f = [k \in 0 .. l |-> IF k = 0 THEN v ELSE After(f[k - 1], q[k])]
  BY <1>2 DEF IsRun
<1> HIDE DEF l
<1>4. \A k \in 0 .. l : f[k] = IF k = 0 THEN v ELSE After(f[k - 1], q[k])
  BY <1>3
<1> DEFINE g == [k \in 0 .. l + 1 |-> IF k = l + 1 THEN After(x, m) ELSE f[k]]
<1>5. ASSUME NEW k \in 0 .. l + 1
      PROVE  g[k] = IF k = 0 THEN v ELSE After(g[k - 1], p[k])
  <2>1. CASE k = l + 1
    <3>1. k # 0 /\ k - 1 = l /\ g[l] = f[l] /\ g[k] = After(x, m) /\ p[k] = m
      BY <1>1, <2>1
    <3> QED BY <1>2, <3>1 DEF l
  <2>2. CASE k # l + 1
    <3>1. k \in 0 .. l /\ g[k] = f[k] /\ (k # 0 => g[k - 1] = f[k - 1] /\ p[k] = q[k])
      BY <1>1, <2>2
    <3> QED BY <1>4, <3>1
  <2> QED BY <2>1, <2>2
<1>6. g = [k \in 0 .. l + 1 |-> g[k]] /\ g[l + 1] = After(x, m)
  BY <1>1
<1> HIDE DEF g
<1>7. g = [k \in 0 .. Len(p) |-> IF k = 0 THEN v ELSE After(g[k - 1], p[k])]
  BY <1>1, <1>5, <1>6
<1>8. g[Len(p)] = After(x, m)
  BY <1>1, <1>6
<1>9. Leads(p, v, After(x, m))
  BY <1>7, <1>8 DEF Leads, IsRun
<1> QED BY <1>9 DEF p

LEMMA LeadsTail ==
    ASSUME NEW q \in Seq(Message), q # <<>>, NEW v, NEW x, Leads(q, v, x)
    PROVE  Leads(Tail(q), After(v, q[1]), x)
<1> DEFINE p == Tail(q)
           l == Len(q)
<1>1. l \in Nat \ {0} /\ Len(p) = l - 1 /\ \A i \in 1 .. l - 1 : p[i] = q[i + 1]
  OBVIOUS
<1>2. PICK f : IsRun(f, q, v) /\ f[l] = x
  BY DEF Leads
<1> HIDE DEF p
<1>3. f = [k \in 0 .. l |-> IF k = 0 THEN v ELSE After(f[k - 1], q[k])]
  BY <1>2 DEF IsRun
<1> HIDE DEF l
<1>4. \A k \in 0 .. l : f[k] = IF k = 0 THEN v ELSE After(f[k - 1], q[k])
  BY <1>3
<1>5. f[0] = v /\ f[1] = After(v, q[1])
  <2>1. 0 \in 0 .. l /\ 1 \in 0 .. l /\ 1 - 1 = 0
    BY <1>1
  <2> QED BY <1>4, <2>1
<1> DEFINE g == [k \in 0 .. l - 1 |-> f[k + 1]]
<1>6. ASSUME NEW k \in 0 .. l - 1
      PROVE  g[k] = IF k = 0 THEN After(v, q[1]) ELSE After(g[k - 1], p[k])
  <2>1. g[k] = f[k + 1] /\ k + 1 \in 0 .. l /\ k + 1 # 0 /\ (k + 1) - 1 = k
    BY <1>1
  <2>2. CASE k = 0
    BY <1>5, <2>1, <2>2
  <2>3. CASE k # 0
    <3>1. g[k - 1] = f[k] /\ p[k] = q[k + 1]
      BY <1>1, <2>3
    <3> QED BY <1>4, <2>1, <2>3, <3>1
  <2> QED BY <2>2, <2>3
<1>7. g = [k \in 0 .. l - 1 |-> g[k]] /\ g[l - 1] = f[l]
  BY <1>1
<1> HIDE DEF g
<1>8. g = [k \in 0 .. Len(p) |-> IF k = 0 THEN After(v, q[1]) ELSE After(g[k - 1], p[k])]
  BY <1>1, <1>6, <1>7
<1>9. g[Len(p)] = x
  BY <1>1, <1>2, <1>7 DEF l
<1>10. Leads(p, After(v, q[1]), x)
  BY <1>8, <1>9 DEF Leads, IsRun
<1> QED BY <1>10 DEF p

\* Where there is a HELLO in the queue it does not matter what was known before.
LEMMA LeadsAnew ==
    ASSUME NEW q \in Seq(Message), NEW i \in DOMAIN q, q[i].command = "HELLO",
           NEW v, NEW w, NEW x, Leads(q, v, x)
    PROVE  Leads(q, w, x)
<1> DEFINE l == Len(q)
<1>1. l \in Nat /\ i \in 1 .. l
  OBVIOUS
<1>2. PICK f : IsRun(f, q, v) /\ f[l] = x
  BY DEF Leads
<1>3. PICK y : Leads(q, w, y)
  BY LeadsOne
<1>4. PICK g : IsRun(g, q, w) /\ g[l] = y
  BY <1>3 DEF Leads
<1>5. /\ f = [k \in 0 .. l |-> IF k = 0 THEN v ELSE After(f[k - 1], q[k])]
      /\ g = [k \in 0 .. l |-> IF k = 0 THEN w ELSE After(g[k - 1], q[k])]
  BY <1>2, <1>4 DEF IsRun
<1> HIDE DEF l
<1>6. \A k \in 1 .. l : f[k] = After(f[k - 1], q[k]) /\ g[k] = After(g[k - 1], q[k])
  BY <1>1, <1>5
<1> DEFINE S == {k \in Nat : f[k] = g[k]}
<1>7. i \in S
  <2>1. \A a, b : After(a, q[i]) = After(b, q[i])
    BY DEF After
  <2>2. f[i] = After(f[i - 1], q[i]) /\ g[i] = After(g[i - 1], q[i]) /\ i \in Nat
    BY <1>1, <1>6
  <2> QED BY <2>1, <2>2
<1>8. ASSUME NEW k \in i .. l - 1, k \in S PROVE k + 1 \in S
  <2>1. k + 1 \in 1 .. l /\ (k + 1) - 1 = k /\ f[k] = g[k] /\ k + 1 \in Nat
    BY <1>1, <1>8
  <2> QED BY <1>6, <2>1
<1> HIDE DEF S
<1>9. l \in S
  <2>1. i \in Nat /\ l \in i .. l
    BY <1>1
  <2>2. \A k \in i .. l : k \in S
    BY <1>1, <1>7, <1>8, <2>1, Climb
  <2> QED BY <2>1, <2>2
<1>10. x = y
  BY <1>2, <1>4, <1>9 DEF S, l
<1> QED BY <1>3, <1>10

\* The message before a HELLO may go.
LEMMA LeadsWithout ==
    ASSUME NEW q \in Seq(Message), NEW i \in DOMAIN q, i < Len(q),
           q[i + 1].command = "HELLO", NEW v, NEW x, Leads(q, v, x)
    PROVE  Leads(Without(q, i), v, x)
<1> DEFINE p == Without(q, i)
           l == Len(q)
<1>1. /\ l \in Nat /\ i \in 1 .. l /\ i < l /\ Len(p) = l - 1
      /\ \A k \in 1 .. l - 1 : p[k] = IF k < i THEN q[k] ELSE q[k + 1]
  BY WithoutIndex
<1>2. PICK f : IsRun(f, q, v) /\ f[l] = x
  BY DEF Leads
<1>3. f = [k \in 0 .. l |-> IF k = 0 THEN v ELSE After(f[k - 1], q[k])]
  BY <1>2 DEF IsRun
<1> HIDE DEF p, l
<1>4. f[0] = v /\ \A k \in 1 .. l : f[k] = After(f[k - 1], q[k])
  <2>1. \A k \in 0 .. l : f[k] = IF k = 0 THEN v ELSE After(f[k - 1], q[k])
    BY <1>3
  <2>2. 0 \in 0 .. l /\ \A k \in 1 .. l : k \in 0 .. l /\ k # 0
    BY <1>1
  <2> QED BY <2>1, <2>2
<1> DEFINE g == [k \in 0 .. l - 1 |-> IF k < i THEN f[k] ELSE f[k + 1]]
<1>5. ASSUME NEW k \in 0 .. l - 1
      PROVE  g[k] = IF k = 0 THEN v ELSE After(g[k - 1], p[k])
  <2>1. CASE k < i
    <3>1. g[k] = f[k] /\ (k # 0 => g[k - 1] = f[k - 1] /\ p[k] = q[k] /\ k \in 1 .. l)
      BY <1>1, <2>1
    <3> QED BY <1>4, <3>1
  <2>2. CASE k = i
    <3>1. /\ k # 0 /\ g[k] = f[k + 1] /\ g[k - 1] = f[k - 1] /\ p[k] = q[k + 1]
          /\ k + 1 \in 1 .. l /\ (k + 1) - 1 = k
      BY <1>1, <2>2
    <3>2. f[k + 1] = After(f[k], q[k + 1])
      BY <1>4, <3>1
    <3>3. \A a, b : After(a, q[k + 1]) = After(b, q[k + 1])
      BY <2>2 DEF After
    <3> QED BY <3>1, <3>2, <3>3
  <2>3. CASE k > i
    <3>1. /\ k # 0 /\ g[k] = f[k + 1] /\ g[k - 1] = f[k] /\ p[k] = q[k + 1]
          /\ k + 1 \in 1 .. l /\ (k + 1) - 1 = k
      BY <1>1, <2>3
    <3> QED BY <1>4, <3>1
  <2> QED BY <1>1, <2>1, <2>2, <2>3
<1>6. g = [k \in 0 .. l - 1 |-> g[k]] /\ g[l - 1] = f[l]
  BY <1>1
<1> HIDE DEF g
<1>7. g = [k \in 0 .. Len(p) |-> IF k = 0 THEN v ELSE After(g[k - 1], p[k])]
  BY <1>1, <1>5, <1>6
<1>8. g[Len(p)] = x
  BY <1>1, <1>2, <1>6 DEF l
<1>9. Leads(p, v, x)
  BY <1>7, <1>8 DEF Leads, IsRun
<1> QED BY <1>9 DEF p

-----------------------------------------------------------------------------
(***************************************************************************)
(* A network without purges: every node has an endpoint of its own and no  *)
(* mailbox ever holds more messages than its high-water mark.              *)
(***************************************************************************)
OwnRoom ==
    /\ \A m, n \in Node : EndpointOf[m] = EndpointOf[n] => m = n
    /\ MaxQueue <= Hwm

\* The mailbox of self to t.
To(self, t) == self.mailbox[EndpointOf[t]]

\* What the events of self tell of s: ViewOf of a record.
Stranger == [known |-> FALSE, version |-> 0, groups |-> {}]
Told(self, s) ==
    IF s \in self.entered
    THEN [known |-> TRUE, version |-> self.peer_status[s],
          groups |-> {g \in Group : s \in self.peer_groups[g]}]
    ELSE Stranger

\* Without purges the peers of n have an open mailbox, have said HELLO if they
\* were announced, and n is not among them.
Tidy(n, self) ==
    /\ Sound(self)
    /\ self.entered = self.ready /\ self.peers = self.connected
    /\ n \notin self.peers
    /\ To(self, n) = <<>>

\* What t gets from a handler that forgets the peers in S and sends one sort of
\* message: nothing, or a HELLO if it is new, or that message.
Posts(old, new, t, S, c) ==
    \/ /\ To(new, t) = To(old, t)
       /\ t \in new.connected <=> t \in old.connected \ S
    \/ \E m \in Message :
          /\ To(new, t) = Append(To(old, t), m)
          /\ m.command = "HELLO" /\ m.sequence = 1
          /\ m.status = old.status /\ m.groups = old.own_groups
          /\ t \notin old.connected \ S
    \/ \E m \in Message :
          /\ To(new, t) = Append(To(old, t), m)
          /\ m.command = c /\ ~Tells(m)
          /\ t \in new.connected /\ t \in old.connected \ S

\* Such a handler, of node n.
Quiet(n, old, new, S, c) ==
    /\ Tidy(n, new)
    /\ new.status = old.status /\ new.own_groups = old.own_groups
    /\ \A t \in Node : Told(new, t) = IF t \in S THEN Stranger ELSE Told(old, t)
    /\ \A t \in Node : Posts(old, new, t, S, c)

\* The announced peers of a tidy node are those it knows anything of.
LEMMA ToldReady ==
    ASSUME NEW n \in Node, NEW self, Tidy(n, self), NEW t \in Node
    PROVE  /\ t \in self.ready <=> Told(self, t).known
           /\ t \notin self.ready <=> Told(self, t) = Stranger
           /\ t \in self.ready => t \in self.connected
BY DEF Tidy, Told, Stranger, Sound

LEMMA BoxType ==
    ASSUME NEW self \in NodeState, NEW t \in Node
    PROVE  EndpointOf[t] \in Endpoint /\ To(self, t) \in Seq(Message)
BY EndpointAssumption DEF To, NodeState

\* Nothing done.
LEMMA QuietStays ==
    ASSUME NEW n \in Node, NEW self, Tidy(n, self), NEW c
    PROVE  Quiet(n, self, self, {}, c)
BY DEF Quiet, Posts

LEMMA NotFull ==
    ASSUME OwnRoom, NEW self \in NodeState, NEW t \in Node, Len(To(self, t)) < MaxQueue
    PROVE  ~Full(self, EndpointOf[t])
<1> DEFINE q == To(self, t)
           B == {i \in DOMAIN q : \A j \in DOMAIN q : j > i => q[j].command # "HELLO"}
<1>1. q \in Seq(Message)
  BY BoxType
<1>2. Len(q) \in Nat /\ B \subseteq 1 .. Len(q)
  BY <1>1
<1>3. IsFiniteSet(1 .. Len(q)) /\ Cardinality(1 .. Len(q)) = Len(q)
  <2>1. 1 \in Int /\ Len(q) \in Int
    BY <1>2
  <2>2. IsFiniteSet(1 .. Len(q))
        /\ Cardinality(1 .. Len(q)) = IF 1 > Len(q) THEN 0 ELSE Len(q) - 1 + 1
    BY <2>1, FS_Interval
  <2> HIDE DEF q
  <2> QED BY <1>2, <2>2
<1>4. Cardinality(B) <= Len(q) /\ Cardinality(B) \in Nat
  <2> HIDE DEF B, q
  <2> QED BY <1>2, <1>3, FS_Subset, FS_CardinalityType
<1>5. Backlog(self.mailbox[EndpointOf[t]]) = Cardinality(B)
  BY DEF Backlog, To
<1> HIDE DEF B
<1>6. Len(q) < MaxQueue /\ MaxQueue <= Hwm /\ MaxQueue \in Nat /\ Hwm \in Nat
  BY WidthAssumption DEF OwnRoom
<1> HIDE DEF q
<1> QED BY <1>2, <1>4, <1>5, <1>6 DEF Full

\* The message of the draft msg that self sends to t.
Posted(self, msg, t) ==
    [command |-> msg.command, status |-> msg.status, groups |-> msg.groups,
     sequence |-> NextSequence(self.sent_sequence[t]), to |-> t]

\* zyre_peer_send where no mailbox is full: every connected peer of S gets it.
LEMMA SendRoomy ==
    ASSUME OwnRoom, NEW self, Sound(self), NEW S \in SUBSET Node, NEW msg \in Draft,
           \A s \in S : Len(To(self, s)) < MaxQueue
    PROVE  LET new == Send(self, S, msg)
           IN  /\ Sound(new)
               /\ new.life = self.life /\ new.status = self.status
               /\ new.own_groups = self.own_groups
               /\ new.peers = self.peers /\ new.connected = self.connected
               /\ new.ready = self.ready /\ new.entered = self.entered
               /\ new.peer_groups = self.peer_groups
               /\ new.peer_status = self.peer_status
               /\ \A t \in Node : t \in S \cap self.connected
                     => /\ Posted(self, msg, t) \in Message
                        /\ To(new, t) = Append(To(self, t), Posted(self, msg, t))
               /\ \A t \in Node : t \notin S \cap self.connected
                     => To(new, t) = To(self, t)
<1> DEFINE new == Send(self, S, msg)
           full == {s \in S : Full(self, EndpointOf[s])}
<1>1. Sound(new) /\ self \in NodeState
  BY SendSound DEF Sound
<1>2. full = {}
  BY <1>1, NotFull
<1>3. /\ new.life = self.life /\ new.status = self.status
      /\ new.own_groups = self.own_groups
      /\ new.peers = self.peers
      /\ new.connected = self.connected \ full
      /\ new.ready = self.ready \ (full \cap self.connected) /\ new.entered = self.entered
      /\ new.peer_groups = self.peer_groups
      /\ new.peer_status = self.peer_status
  BY <1>1 DEF Send, Disconnect, Sound, NodeState
<1>4. ASSUME NEW e \in Endpoint
      PROVE  new.mailbox[e] =
                IF At(self, S, e) = {} \/ Full(self, e)
                THEN self.mailbox[e]
                ELSE Append(self.mailbox[e], Posted(self, msg, CHOOSE s \in At(self, S, e) : TRUE))
  <2>1. (At(self, S, e) = {} \/ Full(self, e)) => new.mailbox[e] = self.mailbox[e]
    BY <1>1 DEF Send, Disconnect, Sound, NodeState
  <2> DEFINE s == CHOOSE s \in At(self, S, e) : TRUE
  <2>2. ASSUME At(self, S, e) # {}, ~Full(self, e)
        PROVE  new.mailbox[e] = Append(self.mailbox[e],
                  [command |-> msg.command, status |-> msg.status, groups |-> msg.groups,
                   sequence |-> NextSequence(self.sent_sequence[s]), to |-> s])
    BY <1>1, <2>2 DEF Send, Disconnect, Sound, NodeState
  <2> HIDE DEF new, s
  <2>3. new.mailbox[e] = IF At(self, S, e) = {} \/ Full(self, e)
                         THEN self.mailbox[e]
                         ELSE Append(self.mailbox[e], Posted(self, msg, s))
    BY <2>1, <2>2 DEF Posted
  <2> QED BY <2>3 DEF s
<1> HIDE DEF new, full
<1>5. ASSUME NEW t \in Node, t \in S \cap self.connected
      PROVE  /\ Posted(self, msg, t) \in Message
             /\ To(new, t) = Append(To(self, t), Posted(self, msg, t))
  <2>1. NextSequence(self.sent_sequence[t]) \in Sequence
    BY <1>1, NextSequenceType DEF NodeState
  <2>2. Posted(self, msg, t) \in Message
    BY <2>1 DEF Posted, Message, Draft
  <2>3. At(self, S, EndpointOf[t]) = {t}
    <3>1. \A s \in At(self, S, EndpointOf[t]) : s = t
      BY <1>5 DEF At, OwnRoom
    <3>2. t \in At(self, S, EndpointOf[t])
      BY <1>5 DEF At
    <3> QED BY <3>1, <3>2
  <2>4. (CHOOSE s \in At(self, S, EndpointOf[t]) : TRUE) = t
    BY <2>3
  <2>5. ~Full(self, EndpointOf[t]) /\ EndpointOf[t] \in Endpoint
    BY <1>1, <1>5, NotFull, BoxType
  <2> QED BY <1>4, <2>2, <2>3, <2>4, <2>5 DEF To
<1>6. ASSUME NEW t \in Node, t \notin S \cap self.connected
      PROVE  To(new, t) = To(self, t)
  <2>1. At(self, S, EndpointOf[t]) = {}
    BY <1>1, <1>6 DEF At, OwnRoom
  <2>2. EndpointOf[t] \in Endpoint
    BY <1>1, BoxType
  <2> QED BY <1>4, <2>1, <2>2 DEF To
<1>7. new.connected = self.connected /\ new.ready = self.ready
  BY <1>2, <1>3
<1>8. /\ Sound(new)
      /\ new.life = self.life /\ new.status = self.status
      /\ new.own_groups = self.own_groups
      /\ new.peers = self.peers /\ new.connected = self.connected
      /\ new.ready = self.ready /\ new.entered = self.entered
      /\ new.peer_groups = self.peer_groups
      /\ new.peer_status = self.peer_status
      /\ \A t \in Node : t \in S \cap self.connected
            => /\ Posted(self, msg, t) \in Message
               /\ To(new, t) = Append(To(self, t), Posted(self, msg, t))
      /\ \A t \in Node : t \notin S \cap self.connected => To(new, t) = To(self, t)
  BY <1>1, <1>3, <1>5, <1>6, <1>7
<1> QED BY <1>8 DEF new

\* zyre_peer_send of a message that names no status
LEMMA SendQuiet ==
    ASSUME OwnRoom, NEW n \in Node, NEW self, Tidy(n, self), NEW S \in SUBSET Node,
           NEW msg \in Draft, ~Tells(msg), \A s \in S : Len(To(self, s)) < MaxQueue
    PROVE  Quiet(n, self, Send(self, S, msg), {}, msg.command)
<1> DEFINE new == Send(self, S, msg)
<1>1. /\ Sound(new)
      /\ new.status = self.status /\ new.own_groups = self.own_groups
      /\ new.peers = self.peers /\ new.connected = self.connected
      /\ new.ready = self.ready /\ new.entered = self.entered
      /\ new.peer_groups = self.peer_groups
      /\ new.peer_status = self.peer_status
      /\ \A t \in Node : t \in S \cap self.connected
            => /\ Posted(self, msg, t) \in Message
               /\ To(new, t) = Append(To(self, t), Posted(self, msg, t))
      /\ \A t \in Node : t \notin S \cap self.connected => To(new, t) = To(self, t)
  BY ZenonT(40), SendRoomy DEF Tidy
<1> HIDE DEF new
<1>2. Tidy(n, new)
  BY <1>1 DEF Tidy
<1>3. \A t \in Node : Told(new, t) = Told(self, t)
  BY <1>1 DEF Told
<1>4. ASSUME NEW t \in Node PROVE Posts(self, new, t, {}, msg.command)
  <2>1. CASE t \in S \cap self.connected
    <3>1. Posted(self, msg, t).command = msg.command /\ ~Tells(Posted(self, msg, t))
      BY DEF Posted, Tells
    <3> QED BY <1>1, <2>1, <3>1 DEF Posts
  <2>2. CASE t \notin S \cap self.connected
    BY <1>1, <2>2 DEF Posts
  <2> QED BY <2>1, <2>2
<1>5. Quiet(n, self, new, {}, msg.command)
  BY <1>1, <1>2, <1>3, <1>4 DEF Quiet
<1> QED BY <1>5 DEF new

\* zyre_node_remove_peer
LEMMA RemoveQuiet ==
    ASSUME NEW n \in Node, NEW self, Tidy(n, self), NEW S, NEW c
    PROVE  Quiet(n, self, RemovePeers(self, S), S, c)
<1> DEFINE new == RemovePeers(self, S)
<1>1. Sound(new)
  BY RemovePeersSound DEF Tidy
<1>2. /\ new.peers = self.peers \ S /\ new.connected = self.connected \ S
      /\ new.ready = self.ready \ S /\ new.entered = self.entered \ S
      /\ new.status = self.status /\ new.own_groups = self.own_groups
      /\ new.mailbox = self.mailbox /\ new.life = self.life
      /\ \A t \in Node : new.peer_status[t] = IF t \in S THEN 0 ELSE self.peer_status[t]
      /\ \A g \in Group : new.peer_groups[g] = self.peer_groups[g] \ S
  BY DEF RemovePeers, Tidy, Sound, NodeState
<1> HIDE DEF new
<1>3. Tidy(n, new)
  BY <1>1, <1>2 DEF Tidy, To
<1>4. ASSUME NEW t \in Node
      PROVE  Told(new, t) = IF t \in S THEN Stranger ELSE Told(self, t)
  <2>1. CASE t \in S
    BY <1>2, <2>1 DEF Told
  <2>2. CASE t \notin S
    <3>1. (t \in new.entered <=> t \in self.entered) /\ new.peer_status[t] = self.peer_status[t]
      BY <1>2, <2>2
    <3>2. \A g \in Group : t \in new.peer_groups[g] <=> t \in self.peer_groups[g]
      BY <1>2, <2>2
    <3>3. {g \in Group : t \in new.peer_groups[g]} = {g \in Group : t \in self.peer_groups[g]}
      BY <3>2
    <3> QED BY <2>2, <3>1, <3>3 DEF Told
  <2> QED BY <2>1, <2>2
<1>5. \A t \in Node : Posts(self, new, t, S, c)
  BY <1>2 DEF Posts, To
<1>6. Quiet(n, self, new, S, c)
  BY <1>2, <1>3, <1>4, <1>5 DEF Quiet
<1> QED BY <1>6 DEF new

LEMMA RemoveFields ==
    ASSUME NEW n \in Node, NEW self, Tidy(n, self), NEW S
    PROVE  LET new == RemovePeers(self, S)
           IN  /\ \A t \in Node : To(new, t) = To(self, t)
               /\ new.life = self.life
               /\ new.peers = self.peers \ S
               /\ new.connected = self.connected \ S
               /\ new.ready = self.ready \ S
BY DEF RemovePeers, Tidy, Sound, NodeState, To

\* A quiet step after a removal is a quiet step.
LEMMA AfterRemoval ==
    ASSUME NEW n \in Node, NEW self, Tidy(n, self), NEW S, NEW new, NEW c,
           Quiet(n, RemovePeers(self, S), new, {}, c)
    PROVE  Quiet(n, self, new, S, c)
<1> DEFINE mid == RemovePeers(self, S)
<1>0. (\A t \in Node : To(mid, t) = To(self, t)) /\ mid.connected = self.connected \ S
  BY RemoveFields
<1>1. Quiet(n, self, mid, S, c)
  BY RemoveQuiet
<1>2. Quiet(n, mid, new, {}, c)
  OBVIOUS
<1> HIDE DEF mid
<1>3. \A t \in Node : Posts(mid, new, t, {}, c)
  BY <1>2 DEF Quiet
<1>4. mid.status = self.status /\ mid.own_groups = self.own_groups
  BY <1>1 DEF Quiet
<1>5. \A t \in Node : Posts(self, new, t, S, c)
  BY <1>0, <1>3, <1>4 DEF Posts
<1> QED BY <1>1, <1>2, <1>5 DEF Quiet

\* zyre_peer_connect and HELLO
LEMMA ConnectQuiet ==
    ASSUME OwnRoom, NEW n \in Node, NEW self, Tidy(n, self),
           NEW m \in Node, m # n, m \notin self.peers, NEW c
    PROVE  /\ Quiet(n, self, ConnectPeer(self, m), {}, c)
           /\ m \in ConnectPeer(self, m).peers
           /\ ConnectPeer(self, m).life = self.life
<1> DEFINE new == ConnectPeer(self, m)
           hello == [command |-> "HELLO", status |-> self.status,
                     groups |-> self.own_groups, sequence |-> 1, to |-> m]
<1>0. Sound(self) /\ self \in NodeState
  BY DEF Tidy, Sound
<1>1. Sound(new)
  <2>1. \A s \in self.connected : EndpointOf[s] # EndpointOf[m]
    BY <1>0 DEF OwnRoom, Tidy, NodeState
  <2> QED BY <1>0, <2>1, ConnectPeerSound
<1>2. /\ new.peers = self.peers \cup {m} /\ new.connected = self.connected \cup {m}
      /\ new.ready = self.ready /\ new.entered = self.entered
      /\ new.status = self.status /\ new.own_groups = self.own_groups
      /\ new.peer_groups = self.peer_groups /\ new.peer_status = self.peer_status
      /\ new.life = self.life
      /\ \A e \in Endpoint : new.mailbox[e] =
            IF e = EndpointOf[m] THEN Append(self.mailbox[e], hello) ELSE self.mailbox[e]
  BY <1>0 DEF ConnectPeer, NodeState
<1> HIDE DEF new, hello
<1>3. \A t \in Node : To(new, t) = IF t = m THEN Append(To(self, t), hello) ELSE To(self, t)
  BY <1>0, <1>2, BoxType DEF To, OwnRoom
<1>4. hello \in Message /\ hello.command = "HELLO" /\ hello.sequence = 1
      /\ hello.status = self.status /\ hello.groups = self.own_groups
  <2>1. 1 \in Sequence
    BY WidthAssumption DEF Sequence
  <2> QED BY <1>0, <2>1 DEF hello, Message, Command, NodeState
<1>5. Tidy(n, new)
  BY <1>1, <1>2, <1>3 DEF Tidy
<1>6. \A t \in Node : Told(new, t) = Told(self, t)
  BY <1>2 DEF Told
<1>7. m \notin self.connected
  BY DEF Tidy
<1>8. ASSUME NEW t \in Node PROVE Posts(self, new, t, {}, c)
  <2>1. CASE t = m
    BY <1>3, <1>4, <1>7, <2>1 DEF Posts
  <2>2. CASE t # m
    BY <1>2, <1>3, <2>2 DEF Posts
  <2> QED BY <2>1, <2>2
<1>9. Quiet(n, self, new, {}, c) /\ m \in new.peers /\ new.life = self.life
  BY <1>2, <1>5, <1>6, <1>8 DEF Quiet
<1> QED BY <1>9 DEF new

\* zyre_node_require_peer has no mailbox to purge.
LEMMA RequireFields ==
    ASSUME OwnRoom, NEW n \in Node, NEW self, Tidy(n, self), NEW m \in Node, NEW connects
    PROVE  RequirePeer(self, m, connects) =
              IF m \in self.peers \/ ~connects THEN self ELSE ConnectPeer(self, m)
<1>1. CASE m \in self.peers
  BY <1>1 DEF RequirePeer
<1>2. CASE m \notin self.peers
  <2>1. At(self, Node, EndpointOf[m]) = {}
    BY <1>2 DEF At, OwnRoom, Tidy
  <2>2. Disconnect(self, {}) = self
    <3>1. self \in NodeState
      BY DEF Tidy, Sound
    <3>2. Disconnect(self, {}) =
              [self EXCEPT !.connected = self.connected, !.ready = self.ready]
      <4>1. self.connected \ {} = self.connected
            /\ self.ready \ ({} \cap self.connected) = self.ready
        OBVIOUS
      <4> QED BY <4>1 DEF Disconnect
    <3> QED BY <3>1, <3>2 DEF NodeState
  <2> QED BY <1>2, <2>1, <2>2 DEF RequirePeer
<1> QED BY <1>1, <1>2

LEMMA RequireQuiet ==
    ASSUME OwnRoom, NEW n \in Node, NEW self, Tidy(n, self),
           NEW m \in Node, m # n, NEW connects, NEW c
    PROVE  Quiet(n, self, RequirePeer(self, m, connects), {}, c)
<1>1. CASE m \in self.peers \/ ~connects
  BY <1>1, RequireFields, QuietStays
<1>2. CASE ~(m \in self.peers \/ ~connects)
  BY <1>2, RequireFields, ConnectQuiet
<1> QED BY <1>1, <1>2

\* A handler of n after which n knows v of the peer s.
Learns(n, old, new, s, v, S, c) ==
    /\ Tidy(n, new)
    /\ new.status = old.status /\ new.own_groups = old.own_groups
    /\ \A t \in Node : Told(new, t) = IF t = s THEN v ELSE Told(old, t)
    /\ \A t \in Node : Posts(old, new, t, S, c)

\* What a HELLO tells.
Introduced(msg) == [known |-> TRUE, version |-> msg.status, groups |-> msg.groups]

LEMMA EnterPeerTold ==
    ASSUME NEW n \in Node, NEW self, Tidy(n, self), NEW s \in Node, NEW msg \in Message,
           s \in self.peers, s \notin self.ready
    PROVE  LET new == EnterPeer(self, s, msg)
           IN  /\ Tidy(n, new)
               /\ new.life = self.life /\ new.status = self.status
               /\ new.own_groups = self.own_groups
               /\ new.connected = self.connected /\ new.mailbox = self.mailbox
               /\ new.ready = self.ready \cup {s}
               /\ \A t \in Node : Told(new, t) = IF t = s THEN Introduced(msg) ELSE Told(self, t)
<1> DEFINE new == EnterPeer(self, s, msg)
<1>1. Sound(new)
  BY EnterPeerSound DEF Tidy
<1>2. /\ new.life = self.life /\ new.status = self.status
      /\ new.own_groups = self.own_groups /\ new.peers = self.peers
      /\ new.connected = self.connected /\ new.mailbox = self.mailbox
      /\ new.ready = self.ready \cup {s} /\ new.entered = self.entered \cup {s}
      /\ \A t \in Node : new.peer_status[t] = IF t = s THEN msg.status ELSE self.peer_status[t]
      /\ \A g \in Group : new.peer_groups[g] =
            IF g \in msg.groups THEN self.peer_groups[g] \cup {s} ELSE self.peer_groups[g]
  BY DEF EnterPeer, Tidy, Sound, NodeState
<1> HIDE DEF new
<1>3. Tidy(n, new)
  BY <1>1, <1>2 DEF Tidy, To
<1>4. msg.groups \subseteq Group
  BY DEF Message
<1>5. s \notin self.entered /\ \A g \in Group : s \notin self.peer_groups[g]
  BY DEF Tidy, Sound
<1>6. Told(new, s) = Introduced(msg)
  <2>1. {g \in Group : s \in new.peer_groups[g]} = msg.groups
    BY <1>2, <1>4, <1>5
  <2> QED BY <1>2, <2>1 DEF Told, Introduced
<1>7. ASSUME NEW t \in Node, t # s PROVE Told(new, t) = Told(self, t)
  <2>1. \A g \in Group : t \in new.peer_groups[g] <=> t \in self.peer_groups[g]
    <3>1. ASSUME NEW g \in Group
          PROVE  t \in new.peer_groups[g] <=> t \in self.peer_groups[g]
      <4>1. new.peer_groups[g] = IF g \in msg.groups THEN self.peer_groups[g] \cup {s}
                                 ELSE self.peer_groups[g]
        BY <1>2
      <4> QED BY <1>7, <4>1
    <3> QED BY <3>1
  <2>2. {g \in Group : t \in new.peer_groups[g]} = {g \in Group : t \in self.peer_groups[g]}
    BY <2>1
  <2>3. (t \in new.entered <=> t \in self.entered) /\ new.peer_status[t] = self.peer_status[t]
    BY <1>2, <1>7
  <2> QED BY <2>2, <2>3 DEF Told
<1>8. \A t \in Node : Told(new, t) = IF t = s THEN Introduced(msg) ELSE Told(self, t)
  BY <1>6, <1>7
<1> QED BY <1>2, <1>3, <1>8 DEF new

\* The HELLO branch of zyre_node_recv_peer: the sender is forgotten or is known
\* by what its HELLO says.
LEMMA HelloTold ==
    ASSUME OwnRoom, NEW n \in Node, NEW self, Tidy(n, self), NEW s \in Node, s # n,
           NEW msg \in Message, msg.command = "HELLO", NEW connects, NEW c
    PROVE  LET new == Hello(self, s, msg, connects)
           IN  \/ /\ Quiet(n, self, new, {s}, c)
                  /\ ~(connects /\ msg.sequence = 1)
               \/ \E S \in SUBSET {s} : Learns(n, self, new, s, Introduced(msg), S, c)
<1> DEFINE S == IF s \in self.ready THEN {s} ELSE {}
           old == IF s \in self.ready THEN RemovePeers(self, {s}) ELSE self
           current == RequirePeer(old, s, connects)
           new == Hello(self, s, msg, connects)
<1>1. Tidy(n, old) /\ Quiet(n, self, old, S, c) /\ s \notin old.ready
  <2>1. CASE s \in self.ready
    <3>1. Quiet(n, self, RemovePeers(self, {s}), {s}, c)
      BY RemoveQuiet
    <3>2. RemovePeers(self, {s}).ready = self.ready \ {s}
      BY RemoveFields
    <3> QED BY <2>1, <3>1, <3>2 DEF Quiet
  <2>2. CASE s \notin self.ready
    BY <2>2, QuietStays
  <2> QED BY <2>1, <2>2
<1>2. Quiet(n, old, current, {}, c)
  <2> HIDE DEF old
  <2> QED BY <1>1, RequireQuiet
<1>3. Quiet(n, self, current, S, c)
  <2>1. CASE s \in self.ready
    BY <1>2, <2>1, AfterRemoval
  <2>2. CASE s \notin self.ready
    BY <1>2, <2>2
  <2> QED BY <2>1, <2>2
<1>4. Tidy(n, current)
  BY <1>2 DEF Quiet
<1>5. s \notin current.ready
  <2>1. Told(current, s) = Told(old, s)
    BY <1>2 DEF Quiet
  <2> HIDE DEF old, current
  <2> QED BY <1>1, <1>4, <2>1, ToldReady
<1>6. connects => s \in current.peers
  <2> HIDE DEF old
  <2>1. current = IF s \in old.peers \/ ~connects THEN old ELSE ConnectPeer(old, s)
    BY <1>1, RequireFields
  <2>2. s \notin old.peers => s \in ConnectPeer(old, s).peers
    BY <1>1, ConnectQuiet
  <2> QED BY <2>1, <2>2
<1>7. new = IF s \notin current.peers THEN current
            ELSE IF msg.sequence # 1 THEN RemovePeers(current, {s})
            ELSE EnterPeer(current, s, msg)
  BY DEF Hello, InSequence
<1>8. Told(current, s) = Stranger
  <2> HIDE DEF current
  <2> QED BY <1>4, <1>5, ToldReady
<1> HIDE DEF new, current, old
<1>9. CASE s \notin current.peers
  <2>1. s \notin current.connected
    BY <1>4, <1>9 DEF Tidy
  <2>2. \A t \in Node : Posts(self, current, t, {s}, c)
    BY <1>3, <2>1 DEF Quiet, Posts
  <2>3. Quiet(n, self, current, {s}, c)
    BY <1>3, <1>8, <2>2 DEF Quiet
  <2> QED BY <1>6, <1>7, <1>9, <2>3 DEF new
<1>10. CASE s \in current.peers /\ msg.sequence # 1
  <2> DEFINE last == RemovePeers(current, {s})
  <2>1. Quiet(n, current, last, {s}, c)
    BY <1>4, RemoveQuiet
  <2>2. /\ \A t \in Node : To(last, t) = To(current, t)
        /\ last.connected = current.connected \ {s}
    BY <1>4, RemoveFields
  <2> HIDE DEF last
  <2>3. ASSUME NEW t \in Node PROVE Posts(self, last, t, {s}, c)
    <3>0. Posts(self, current, t, S, c)
      BY <1>3 DEF Quiet
    <3>1. CASE t = s
      <4>1. Posts(old, current, s, {}, "HELLO")
        <5>1. Quiet(n, old, current, {}, "HELLO")
          BY <1>1, RequireQuiet DEF current
        <5> QED BY <5>1 DEF Quiet
      <4>2. \A m \in Message : m.command = "HELLO" => Tells(m)
        BY DEF Tells
      <4>3. /\ To(old, s) = To(self, s)
            /\ old.status = self.status /\ old.own_groups = self.own_groups
        <5>1. To(RemovePeers(self, {s}), s) = To(self, s)
          BY RemoveFields
        <5> QED BY <1>1, <5>1 DEF Quiet, old
      <4> QED BY <2>2, <3>1, <4>1, <4>2, <4>3 DEF Posts
    <3>2. CASE t # s
      BY <2>2, <3>0, <3>2 DEF Posts
    <3> QED BY <3>1, <3>2
  <2>4. Quiet(n, self, last, {s}, c)
    BY <1>3, <2>1, <2>3 DEF Quiet
  <2> QED BY <1>7, <1>10, <2>4 DEF new, last
<1>11. CASE s \in current.peers /\ msg.sequence = 1
  <2> DEFINE last == EnterPeer(current, s, msg)
  <2>1. /\ Tidy(n, last) /\ last.status = current.status
        /\ last.own_groups = current.own_groups
        /\ last.connected = current.connected /\ last.mailbox = current.mailbox
        /\ \A t \in Node : Told(last, t) = IF t = s THEN Introduced(msg) ELSE Told(current, t)
    BY <1>4, <1>5, <1>11, EnterPeerTold
  <2> HIDE DEF last
  <2>2. \A t \in Node : Posts(self, last, t, S, c)
    BY <1>3, <2>1 DEF Quiet, Posts, To
  <2>3. Learns(n, self, last, s, Introduced(msg), S, c)
    BY <1>3, <2>1, <2>2 DEF Quiet, Learns
  <2>4. S \in SUBSET {s}
    OBVIOUS
  <2> QED BY <1>7, <1>11, <2>3, <2>4 DEF new, last
<1> QED BY <1>9, <1>10, <1>11

LEMMA HelloLife ==
    ASSUME OwnRoom, NEW n \in Node, NEW self, Tidy(n, self), NEW s \in Node, s # n,
           NEW msg \in Message, NEW connects
    PROVE  Hello(self, s, msg, connects).life = self.life
<1> DEFINE old == IF s \in self.ready THEN RemovePeers(self, {s}) ELSE self
           current == RequirePeer(old, s, connects)
<1>1. Tidy(n, old) /\ old.life = self.life
  <2>1. Tidy(n, RemovePeers(self, {s}))
    BY RemoveQuiet DEF Quiet
  <2>2. RemovePeers(self, {s}).life = self.life
    BY RemoveFields
  <2> QED BY <2>1, <2>2
<1> HIDE DEF old
<1>2. Tidy(n, current)
  BY <1>1, RequireQuiet DEF Quiet
<1>3. current.life = self.life
  <2>1. current = IF s \in old.peers \/ ~connects THEN old ELSE ConnectPeer(old, s)
    BY <1>1, RequireFields
  <2>2. s \notin old.peers => ConnectPeer(old, s).life = old.life
    BY <1>1, ConnectQuiet
  <2> QED BY <1>1, <2>1, <2>2
<1> HIDE DEF current
<1>4. RemovePeers(current, {s}).life = current.life
  BY <1>2, RemoveFields
<1>5. EnterPeer(current, s, msg).life = current.life
  BY <1>2 DEF EnterPeer, Tidy, Sound, NodeState
<1>6. Hello(self, s, msg, connects) =
         IF s \notin current.peers THEN current
         ELSE IF ~InSequence(current, s, msg) THEN RemovePeers(current, {s})
         ELSE EnterPeer(current, s, msg)
  BY DEF Hello, current, old
<1> QED BY <1>3, <1>4, <1>5, <1>6

\* START, STOP and the tuples that zgossip delivers change no table of peers.
LEMMA LifeQuiet ==
    ASSUME NEW n \in Node, NEW self, NEW new, NEW S, NEW c, NEW l \in Life,
           Quiet(n, self, new, S, c)
    PROVE  /\ Quiet(n, self, [new EXCEPT !.life = l], S, c)
           /\ [new EXCEPT !.life = l].life = l
<1> DEFINE last == [new EXCEPT !.life = l]
<1>1. new \in NodeState
  BY DEF Quiet, Tidy, Sound
<1>2. /\ last \in NodeState /\ last.life = l
      /\ last.own_groups = new.own_groups /\ last.status = new.status
      /\ last.peers = new.peers /\ last.connected = new.connected
      /\ last.ready = new.ready /\ last.entered = new.entered
      /\ last.peer_status = new.peer_status /\ last.peer_groups = new.peer_groups
      /\ last.mailbox = new.mailbox
  BY <1>1 DEF NodeState
<1> HIDE DEF last
<1>3. Tidy(n, last)
  BY <1>2 DEF Quiet, Tidy, Sound, To
<1>4. \A t \in Node : Told(last, t) = Told(new, t)
  BY <1>2 DEF Told
<1>5. \A t \in Node : Posts(self, last, t, S, c)
  BY <1>2 DEF Quiet, Posts, To
<1>6. Quiet(n, self, last, S, c)
  BY <1>2, <1>3, <1>4, <1>5 DEF Quiet
<1> QED BY <1>2, <1>6 DEF last

LEMMA HeardTidy ==
    ASSUME NEW n \in Node, NEW self, Tidy(n, self), NEW m \in Node, NEW c
    PROVE  LET new == [self EXCEPT !.heard = @ \cup {m}]
           IN  Quiet(n, self, new, {}, c) /\ new.life = self.life
<1> DEFINE new == [self EXCEPT !.heard = @ \cup {m}]
<1>1. self \in NodeState
  BY DEF Tidy, Sound
<1>2. /\ new \in NodeState /\ new.life = self.life
      /\ new.own_groups = self.own_groups /\ new.status = self.status
      /\ new.peers = self.peers /\ new.connected = self.connected
      /\ new.ready = self.ready /\ new.entered = self.entered
      /\ new.peer_status = self.peer_status /\ new.peer_groups = self.peer_groups
      /\ new.mailbox = self.mailbox
  BY <1>1 DEF NodeState
<1> HIDE DEF new
<1>3. Tidy(n, new)
  BY <1>2 DEF Tidy, Sound, To
<1>4. \A t \in Node : Told(new, t) = Told(self, t)
  BY <1>2 DEF Told
<1>5. \A t \in Node : Posts(self, new, t, {}, c)
  BY <1>2 DEF Posts, To
<1>6. Quiet(n, self, new, {}, c) /\ new.life = self.life
  BY <1>2, <1>3, <1>4, <1>5 DEF Quiet
<1> QED BY <1>6 DEF new

\* zyre_peer_messages_lost counts the message.
LEMMA CountQuiet ==
    ASSUME NEW n \in Node, NEW self, Tidy(n, self), NEW s \in Node, NEW c
    PROVE  LET new == [self EXCEPT !.want_sequence[s] = NextSequence(@)]
           IN  /\ Quiet(n, self, new, {}, c)
               /\ new.life = self.life /\ new.mailbox = self.mailbox
               /\ new.peers = self.peers /\ new.connected = self.connected
               /\ new.ready = self.ready /\ new.peer_status = self.peer_status
<1> DEFINE want == [self.want_sequence EXCEPT ![s] = NextSequence(@)]
           new == [self EXCEPT !.want_sequence[s] = NextSequence(@)]
<1>1. self \in NodeState
  BY DEF Tidy, Sound
<1>2. want \in [Node -> Sequence]
  BY <1>1, NextSequenceType DEF NodeState
<1>3. new = [self EXCEPT !.want_sequence = want]
  BY <1>1 DEF NodeState
<1> HIDE DEF want
<1>4. /\ new \in NodeState /\ new.life = self.life
      /\ new.own_groups = self.own_groups /\ new.status = self.status
      /\ new.peers = self.peers /\ new.connected = self.connected
      /\ new.ready = self.ready /\ new.entered = self.entered
      /\ new.peer_status = self.peer_status /\ new.peer_groups = self.peer_groups
      /\ new.mailbox = self.mailbox
  BY <1>1, <1>2, <1>3 DEF NodeState
<1> HIDE DEF new
<1>5. Tidy(n, new)
  BY <1>4 DEF Tidy, Sound, To
<1>6. \A t \in Node : Told(new, t) = Told(self, t)
  BY <1>4 DEF Told
<1>7. \A t \in Node : Posts(self, new, t, {}, c)
  BY <1>4 DEF Posts, To
<1>8. Quiet(n, self, new, {}, c)
  BY <1>4, <1>5, <1>6, <1>7 DEF Quiet
<1> QED BY <1>4, <1>8 DEF new

\* A quiet step after one that sends nothing and forgets no one.
LEMMA AfterQuiet ==
    ASSUME NEW n \in Node, NEW self, NEW mid, NEW new, NEW S, NEW c,
           Quiet(n, self, mid, {}, c), Quiet(n, mid, new, S, c),
           mid.mailbox = self.mailbox, mid.connected = self.connected
    PROVE  Quiet(n, self, new, S, c)
<1>1. mid.status = self.status /\ mid.own_groups = self.own_groups
  BY DEF Quiet
<1>2. ASSUME NEW t \in Node PROVE Posts(self, new, t, S, c)
  <2>1. Posts(mid, new, t, S, c)
    BY DEF Quiet
  <2>2. To(mid, t) = To(self, t)
    BY DEF To
  <2> QED BY <1>1, <2>1, <2>2 DEF Posts
<1>3. \A t \in Node : Told(mid, t) = Told(self, t)
  BY DEF Quiet
<1> QED BY <1>1, <1>2, <1>3 DEF Quiet

\* What JOIN or LEAVE makes of what was told before.
Followed(v, m) ==
    [known |-> TRUE, version |-> NextStatus(v.version),
     groups |-> IF m.command = "JOIN" THEN v.groups \cup m.groups
                ELSE v.groups \ m.groups]

\* zyre_node_join_peer_group or zyre_node_leave_peer_group, by the message.
GroupChanged(self, s, g, msg) ==
    IF msg.command = "JOIN" THEN JoinPeerGroup(self, s, g)
    ELSE LeavePeerGroup(self, s, g)

LEMMA GroupTold ==
    ASSUME NEW n \in Node, NEW self, Tidy(n, self), NEW s \in Node, s \in self.ready,
           NEW g \in Group, NEW msg \in Message, msg.command \in {"JOIN", "LEAVE"},
           msg.groups = {g}, NEW c
    PROVE  LET new == GroupChanged(self, s, g, msg)
           IN  /\ Learns(n, self, new, s, Followed(Told(self, s), msg), {}, c)
               /\ new.life = self.life /\ new.mailbox = self.mailbox
               /\ new.peer_status[s] = NextStatus(self.peer_status[s])
<1> DEFINE new == GroupChanged(self, s, g, msg)
           after(G) == IF msg.command = "JOIN" THEN G \cup {s} ELSE G \ {s}
<1>0. Sound(self) /\ self \in NodeState /\ s \in self.entered
  BY DEF Tidy, Sound
<1>1. Sound(new)
  BY <1>0, JoinPeerGroupSound, LeavePeerGroupSound DEF GroupChanged
<1>2. /\ new.life = self.life /\ new.status = self.status
      /\ new.own_groups = self.own_groups /\ new.peers = self.peers
      /\ new.connected = self.connected /\ new.mailbox = self.mailbox
      /\ new.ready = self.ready /\ new.entered = self.entered
      /\ \A t \in Node : new.peer_status[t] =
            IF t = s THEN NextStatus(self.peer_status[t]) ELSE self.peer_status[t]
      /\ \A h \in Group : new.peer_groups[h] =
            IF h = g THEN after(self.peer_groups[h]) ELSE self.peer_groups[h]
  <2>1. CASE msg.command = "JOIN"
    BY <1>0, <2>1 DEF GroupChanged, JoinPeerGroup, NodeState
  <2>2. CASE msg.command # "JOIN"
    BY <1>0, <2>2 DEF GroupChanged, LeavePeerGroup, NodeState
  <2> QED BY <2>1, <2>2
<1> HIDE DEF new
<1>3. Tidy(n, new)
  BY <1>1, <1>2 DEF Tidy, To
<1>4. Told(new, s) = Followed(Told(self, s), msg)
  <2> DEFINE G == {h \in Group : s \in self.peer_groups[h]}
             H == {h \in Group : s \in new.peer_groups[h]}
  <2>1. \A h \in Group : s \in new.peer_groups[h]
            <=> IF h = g THEN msg.command = "JOIN" ELSE s \in self.peer_groups[h]
    BY <1>2
  <2>2. CASE msg.command = "JOIN"
    <3>1. H = G \cup {g}
      BY <2>1, <2>2
    <3> QED BY <1>0, <1>2, <2>2, <3>1 DEF Told, Followed
  <2>3. CASE msg.command # "JOIN"
    <3>1. H = G \ {g}
      BY <2>1, <2>3
    <3> QED BY <1>0, <1>2, <2>3, <3>1 DEF Told, Followed
  <2> QED BY <2>2, <2>3
<1>5. ASSUME NEW t \in Node, t # s PROVE Told(new, t) = Told(self, t)
  <2>1. \A h \in Group : t \in new.peer_groups[h] <=> t \in self.peer_groups[h]
    BY <1>2, <1>5
  <2>2. {h \in Group : t \in new.peer_groups[h]} = {h \in Group : t \in self.peer_groups[h]}
    BY <2>1
  <2>3. new.entered = self.entered /\ new.peer_status[t] = self.peer_status[t]
    BY <1>2, <1>5
  <2> QED BY <2>2, <2>3 DEF Told
<1>6. \A t \in Node : Posts(self, new, t, {}, c)
  BY <1>2 DEF Posts, To
<1>7. Learns(n, self, new, s, Followed(Told(self, s), msg), {}, c)
  BY <1>2, <1>3, <1>4, <1>5, <1>6 DEF Learns
<1> QED BY <1>2, <1>7 DEF new

\* JOIN and LEAVE of the application: every peer is told.
Changes(n, old, new) ==
    /\ Tidy(n, new)
    /\ new.life = old.life /\ new.status = NextStatus(old.status)
    /\ new.connected = old.connected
    /\ \A t \in Node : Told(new, t) = Told(old, t)
    /\ \E g \in Group, c \in {"JOIN", "LEAVE"} :
          /\ c = "JOIN" => g \notin old.own_groups /\ new.own_groups = old.own_groups \cup {g}
          /\ c = "LEAVE" => g \in old.own_groups /\ new.own_groups = old.own_groups \ {g}
          /\ \A t \in Node :
                IF t \in old.connected
                THEN \E m \in Message :
                        /\ m.command = c /\ m.groups = {g} /\ m.status = new.status
                        /\ To(new, t) = Append(To(old, t), m)
                ELSE To(new, t) = To(old, t)

LEMMA ChangeSent ==
    ASSUME OwnRoom, NEW n \in Node, NEW old, Tidy(n, old), NEW g \in Group,
           NEW c \in {"JOIN", "LEAVE"}, NEW own \in SUBSET Group,
           c = "JOIN" => g \notin old.own_groups /\ own = old.own_groups \cup {g},
           c = "LEAVE" => g \in old.own_groups /\ own = old.own_groups \ {g},
           \A s \in old.peers : Len(To(old, s)) < MaxQueue
    PROVE  LET self == [old EXCEPT !.own_groups = own, !.status = NextStatus(old.status)]
           IN  Changes(n, old, Send(self, self.peers, Msg(c, NextStatus(old.status), {g})))
<1> DEFINE status == NextStatus(old.status)
           self == [old EXCEPT !.own_groups = own, !.status = status]
           msg == Msg(c, status, {g})
           new == Send(self, self.peers, msg)
<1>0. old \in NodeState /\ Sound(old) /\ old.peers = old.connected
  BY DEF Tidy, Sound
<1>1. status \in Status
  BY <1>0, NextStatusType DEF NodeState
<1>2. msg \in Draft /\ msg.command = c /\ msg.status = status /\ msg.groups = {g}
  <2>1. c \in Command
    BY DEF Command
  <2> QED BY <1>1, <2>1, MsgType DEF Msg
<1> HIDE DEF status, msg
<1>3. /\ self \in NodeState /\ self.life = old.life
      /\ self.own_groups = own /\ self.status = status
      /\ self.peers = old.peers /\ self.connected = old.connected
      /\ self.ready = old.ready /\ self.entered = old.entered
      /\ self.peer_status = old.peer_status /\ self.peer_groups = old.peer_groups
      /\ self.mailbox = old.mailbox
  BY <1>0, <1>1 DEF NodeState
<1> HIDE DEF self
<1>4. Sound(self) /\ self.peers \in SUBSET Node
  BY <1>0, <1>3 DEF Sound, NodeState
<1>5. \A s \in self.peers : Len(To(self, s)) < MaxQueue
  BY <1>3 DEF To
<1>6. /\ Sound(new)
      /\ new.life = self.life /\ new.status = self.status
      /\ new.own_groups = self.own_groups
      /\ new.peers = self.peers /\ new.connected = self.connected
      /\ new.ready = self.ready /\ new.entered = self.entered
      /\ new.peer_groups = self.peer_groups
      /\ new.peer_status = self.peer_status
      /\ \A t \in Node : t \in self.peers \cap self.connected
            => /\ Posted(self, msg, t) \in Message
               /\ To(new, t) = Append(To(self, t), Posted(self, msg, t))
      /\ \A t \in Node : t \notin self.peers \cap self.connected
            => To(new, t) = To(self, t)
  BY ZenonT(40), <1>2, <1>4, <1>5, SendRoomy
<1> HIDE DEF new
<1>7. \A t \in Node : Posted(self, msg, t).command = c /\ Posted(self, msg, t).groups = {g}
                      /\ Posted(self, msg, t).status = status
  BY <1>2 DEF Posted
<1>8. \A t \in Node : To(self, t) = To(old, t)
  BY <1>3 DEF To
<1>9. ASSUME NEW t \in Node
      PROVE  IF t \in old.connected
             THEN \E m \in Message :
                     /\ m.command = c /\ m.groups = {g} /\ m.status = new.status
                     /\ To(new, t) = Append(To(old, t), m)
             ELSE To(new, t) = To(old, t)
  BY <1>0, <1>3, <1>6, <1>7, <1>8
<1>10. Tidy(n, new)
  <2>1. n \notin old.connected
    BY <1>0 DEF Tidy
  <2>2. To(new, n) = <<>>
    BY <1>9, <2>1 DEF Tidy
  <2> QED BY <1>0, <1>3, <1>6, <2>2 DEF Tidy
<1>11. \A t \in Node : Told(new, t) = Told(old, t)
  BY <1>3, <1>6 DEF Told
<1>12. Changes(n, old, new)
  BY ZenonT(40), <1>3, <1>6, <1>9, <1>10, <1>11 DEF Changes, status
<1> QED BY <1>12 DEF new, msg, self, status

\* A process that ends: nothing is known, nobody is told.
Ends(n, old, new) ==
    /\ Tidy(n, new) /\ new.life \in {"dead", "aborted"}
    /\ new.peers = {} /\ new.own_groups = {} /\ new.status = 0
    /\ \A t \in Node : Told(new, t) = Stranger /\ To(new, t) = To(old, t)

LEMMA EndTold ==
    ASSUME NEW n \in Node, NEW old, Tidy(n, old), NEW l \in {"dead", "aborted"}
    PROVE  Ends(n, old, [NewNode EXCEPT !.life = l, !.mailbox = old.mailbox])
<1> DEFINE new == [NewNode EXCEPT !.life = l, !.mailbox = old.mailbox]
<1>1. Sound(new)
  <2>1. l \in Life /\ old.mailbox \in [Endpoint -> Seq(Message)]
    BY DEF Life, Tidy, Sound, NodeState
  <2> QED BY <2>1, NewNodeSound
<1>2. /\ new.life = l /\ new.own_groups = {} /\ new.status = 0
      /\ new.peers = {} /\ new.connected = {} /\ new.ready = {} /\ new.entered = {}
      /\ new.mailbox = old.mailbox
  BY DEF NewNode
<1> HIDE DEF new
<1>3. Tidy(n, new)
  BY <1>1, <1>2 DEF Tidy, To
<1>4. \A t \in Node : Told(new, t) = Stranger /\ To(new, t) = To(old, t)
  BY <1>2 DEF Told, To
<1>5. Ends(n, old, new)
  BY <1>2, <1>3, <1>4 DEF Ends
<1> QED BY <1>5 DEF new

-----------------------------------------------------------------------------
(***************************************************************************)
(* The handlers, by what they make of the views and the queues.            *)
(***************************************************************************)
\* JOIN and LEAVE name one group.
OneGroup(q) ==
    \A i \in DOMAIN q :
        q[i].command \in {"JOIN", "LEAVE"} => \E g \in Group : q[i].groups = {g}

TidyAll ==
    /\ IInv
    /\ \A n \in Node : Tidy(n, node[n])
    /\ \A s, t \in Node : OneGroup(To(node[s], t))
    /\ \A b \in air : b.to # b.from

\* Handlers of API commands, beacons, tuples and the reaper's tick replace the
\* record of one node.
ApiShape(n, new) ==
    \/ /\ \E g \in Group : Join(n, g) \/ Leave(n, g)
       /\ Changes(n, node[n], new)
    \/ Destroy(n) /\ Ends(n, node[n], new)
    \/ Stop(n) /\ Quiet(n, node[n], new, {}, "GOODBYE") /\ new.life = "stopped"
    \/ Start(n) /\ Quiet(n, node[n], new, {}, "PING") /\ new.life = "running"
    \/ /\ UNCHANGED <<air, published>>
       /\ Alive(n) /\ budget'.group = budget.group
       /\ Bound(n) \/ node[n].peers # {}
       /\ new.life = node[n].life
       /\ \E c \in {"SHOUT", "WHISPER", "PING"} : Quiet(n, node[n], new, {}, c)

LEMMA ApiShaped ==
    ASSUME OwnRoom, TidyAll, NEW n \in Node, Api(n)
    PROVE  \E new : Become(n, new) /\ ApiShape(n, new)
<1> DEFINE old == node[n]
<1>0. /\ Tidy(n, old) /\ old \in NodeState /\ node \in [Node -> NodeState]
      /\ old.peers \in SUBSET Node
      /\ \A g \in Group : old.peer_groups[g] \in SUBSET Node
      /\ budget \in [BudgetKinds -> Nat]
  BY DEF TidyAll, IInv, NodeState
<1>1. CASE Start(n)
  <2> DEFINE new == [old EXCEPT !.life = "running"]
  <2>1. Become(n, new)
    BY <1>1 DEF Start, Become
  <2>2. Quiet(n, old, new, {}, "PING") /\ new.life = "running"
    <3>1. Quiet(n, old, old, {}, "PING") /\ "running" \in Life
      BY <1>0, QuietStays DEF Life
    <3> HIDE DEF old
    <3> QED BY <3>1, LifeQuiet
  <2> QED BY <1>1, <2>1, <2>2 DEF ApiShape
<1>2. CASE Stop(n)
  <2> DEFINE self == IF Gossip THEN Send(old, old.peers, Msg("GOODBYE", 0, {})) ELSE old
             new == [self EXCEPT !.life = "stopped"]
  <2>1. Msg("GOODBYE", 0, {}) \in Draft /\ ~Tells(Msg("GOODBYE", 0, {}))
        /\ Msg("GOODBYE", 0, {}).command = "GOODBYE"
    BY ZeroStatus, MsgType DEF Command, Tells, Msg
  <2>2. \A s \in old.peers : Len(To(old, s)) < MaxQueue
    BY <1>2 DEF Stop, Room, To
  <2>3. Quiet(n, old, self, {}, "GOODBYE")
    <3>1. Quiet(n, old, Send(old, old.peers, Msg("GOODBYE", 0, {})), {}, "GOODBYE")
      BY <1>0, <2>1, <2>2, SendQuiet
    <3> QED BY <1>0, <3>1, QuietStays
  <2>4. Become(n, new)
    BY <1>2 DEF Stop
  <2> HIDE DEF self
  <2>5. Quiet(n, old, new, {}, "GOODBYE") /\ new.life = "stopped"
    <3>1. "stopped" \in Life
      BY DEF Life
    <3> HIDE DEF old
    <3> QED BY <2>3, <3>1, LifeQuiet
  <2> QED BY <1>2, <2>4, <2>5 DEF ApiShape
<1>3. CASE Destroy(n)
  <2> DEFINE new == [NewNode EXCEPT !.life = "dead", !.mailbox = old.mailbox]
  <2>1. Become(n, new) /\ Ends(n, old, new)
    BY <1>0, <1>3, EndTold DEF Destroy
  <2> QED BY <1>3, <2>1 DEF ApiShape
<1>4. ASSUME NEW g \in Group, Join(n, g) \/ Leave(n, g)
      PROVE  \E new : Become(n, new) /\ ApiShape(n, new)
  <2> DEFINE status == NextStatus(old.status)
             self(own) == [old EXCEPT !.own_groups = own, !.status = status]
             sent(c, own) == Send(self(own), self(own).peers, Msg(c, status, {g}))
  <2>1. PICK c \in {"JOIN", "LEAVE"}, own \in SUBSET Group :
          /\ c = "JOIN" => g \notin old.own_groups /\ own = old.own_groups \cup {g}
          /\ c = "LEAVE" => g \in old.own_groups /\ own = old.own_groups \ {g}
          /\ Become(n, sent(c, own))
    <3>1. CASE Join(n, g)
      <4>1. Become(n, sent("JOIN", old.own_groups \cup {g})) /\ g \notin old.own_groups
        BY <3>1 DEF Join
      <4>2. old.own_groups \cup {g} \in SUBSET Group
        BY <1>0 DEF NodeState
      <4> QED BY <4>1, <4>2
    <3>2. CASE Leave(n, g)
      <4>1. Become(n, sent("LEAVE", old.own_groups \ {g})) /\ g \in old.own_groups
        BY <3>2 DEF Leave
      <4>2. old.own_groups \ {g} \in SUBSET Group
        BY <1>0 DEF NodeState
      <4> QED BY <4>1, <4>2
    <3> QED BY <1>4, <3>1, <3>2
  <2>2. \A s \in old.peers : Len(To(old, s)) < MaxQueue
    BY <1>4 DEF Join, Leave, Room, To
  <2>3. Changes(n, old, sent(c, own))
    BY <1>0, <2>1, <2>2, ChangeSent
  <2> HIDE DEF sent
  <2> QED BY <1>4, <2>1, <2>3 DEF ApiShape
<1>5. ASSUME NEW S \in SUBSET Node, NEW c \in {"SHOUT", "WHISPER"}, NEW G \in SUBSET Group,
             Room(n, S), Alive(n), Spend("data", 1), UNCHANGED <<air, published>>,
             old.peers # {},
             Become(n, Send(old, S, Msg(c, 0, G)))
      PROVE  \E new : Become(n, new) /\ ApiShape(n, new)
  <2>1. Msg(c, 0, G) \in Draft /\ ~Tells(Msg(c, 0, G)) /\ Msg(c, 0, G).command = c
    BY ZeroStatus, MsgType DEF Command, Tells, Msg
  <2>2. \A s \in S : Len(To(old, s)) < MaxQueue
    BY <1>5 DEF Room, To
  <2> DEFINE new == Send(old, S, Msg(c, 0, G))
  <2>3. Quiet(n, old, new, {}, c)
    BY <1>0, <2>1, <2>2, SendQuiet
  <2>4. new.life = old.life
    BY <1>0, <2>1, <2>2, SendRoomy DEF Tidy
  <2>5. budget'.group = budget.group
    BY <1>0, <1>5 DEF Spend, BudgetKinds
  <2> HIDE DEF new
  <2> QED BY <1>5, <2>3, <2>4, <2>5 DEF ApiShape, new
<1>6. ASSUME NEW g \in Group, Shout(n, g) PROVE \E new : Become(n, new) /\ ApiShape(n, new)
  <2>1. {g} \in SUBSET Group
    OBVIOUS
  <2>2. old.peers # {}
    BY <1>0, <1>6 DEF Shout, Tidy, Sound
  <2> QED BY <1>0, <1>5, <1>6, <2>1, <2>2 DEF Shout
<1>7. ASSUME NEW m \in Node, Whisper(n, m) PROVE \E new : Become(n, new) /\ ApiShape(n, new)
  <2>1. {} \in SUBSET Group /\ {m} \in SUBSET Node
    OBVIOUS
  <2> QED BY <1>5, <1>7, <2>1 DEF Whisper
<1>8. ASSUME NEW m \in Node, RequirePeerCommand(n, m)
      PROVE  \E new : Become(n, new) /\ ApiShape(n, new)
  <2>1. PICK connects \in BOOLEAN :
          /\ budget' = [budget EXCEPT !.require = @ - 1,
                                      !.refuse = IF connects THEN @ ELSE @ - 1]
          /\ Become(n, RequirePeer(old, m, connects))
    BY <1>8 DEF RequirePeerCommand
  <2> DEFINE new == RequirePeer(old, m, connects)
  <2>2. Quiet(n, old, new, {}, "PING")
    <3>1. m # n
      BY <1>8 DEF RequirePeerCommand
    <3> QED BY <1>0, <3>1, RequireQuiet
  <2>3. new.life = old.life
    BY <1>0 DEF RequirePeer, ConnectPeer, Disconnect, NodeState
  <2>4. budget'.group = budget.group
    BY <1>0, <2>1 DEF BudgetKinds
  <2>5. Alive(n) /\ Bound(n) /\ UNCHANGED <<air, published>>
    BY <1>8 DEF RequirePeerCommand, Bound, Alive
  <2> HIDE DEF new
  <2> QED BY <2>1, <2>2, <2>3, <2>4, <2>5 DEF ApiShape, new
<1> QED BY <1>1, <1>2, <1>3, <1>4, <1>6, <1>7, <1>8 DEF Api

\* Why n may forget a peer s: a beacon with port zero, or its timers.
MayForget(n, s) ==
    \/ \E b \in air : b.from = s
    \/ s \in node[n].peers /\ Silent(n, s)
    \/ budget'.suspect < budget.suspect

DiscoverShape(n, new) ==
    /\ air' \subseteq air
    /\ Bound(n) /\ budget'.group = budget.group
    /\ new.life = node[n].life
    /\ \E S \in SUBSET Node : /\ Quiet(n, node[n], new, S, "PING")
                              /\ \A s \in S : MayForget(n, s)

LEMMA DiscoverShaped ==
    ASSUME OwnRoom, TidyAll, NEW n \in Node, Discover(n)
    PROVE  \E new : Become(n, new) /\ DiscoverShape(n, new)
<1> DEFINE old == node[n]
<1>0. /\ Tidy(n, old) /\ old \in NodeState /\ node \in [Node -> NodeState]
      /\ budget \in [BudgetKinds -> Nat]
  BY DEF TidyAll, IInv
<1>1. ASSUME NEW connects \in BOOLEAN, Connect(connects)
      PROVE  budget'.group = budget.group
  BY <1>0, <1>1 DEF Connect, Spend, BudgetKinds
<1>2. ASSUME NEW self, Tidy(n, self), NEW m \in Node, NEW connects
      PROVE  RequirePeer(self, m, connects).life = self.life
  BY <1>2 DEF RequirePeer, ConnectPeer, Disconnect, Tidy, Sound, NodeState
<1>3. ASSUME NEW m \in Node, RecvBeacon(n, m)
      PROVE  \E new : Become(n, new) /\ DiscoverShape(n, new)
  <2>1. PICK connects \in BOOLEAN :
          Connect(connects) /\ Become(n, RequirePeer(old, m, connects))
    BY <1>3 DEF RecvBeacon
  <2> DEFINE new == RequirePeer(old, m, connects)
  <2>2. Quiet(n, old, new, {}, "PING")
    <3>1. m # n
      BY <1>3 DEF RecvBeacon
    <3> QED BY <1>0, <3>1, RequireQuiet
  <2>3. new.life = old.life
    BY <1>0, <1>2
  <2>4. Bound(n) /\ UNCHANGED air
    BY <1>3 DEF RecvBeacon, Bound
  <2> HIDE DEF new
  <2> QED BY <1>1, <2>1, <2>2, <2>3, <2>4 DEF DiscoverShape, new
<1>4. ASSUME NEW m \in Node, RecvGossip(n, m)
      PROVE  \E new : Become(n, new) /\ DiscoverShape(n, new)
  <2> DEFINE self == [old EXCEPT !.heard = @ \cup {m}]
  <2>1. PICK connects \in BOOLEAN :
          /\ Connect(connects)
          /\ Become(n, IF EndpointOf[m] = EndpointOf[n] THEN self
                       ELSE RequirePeer(self, m, connects))
    BY <1>4 DEF RecvGossip
  <2>2. m # n /\ Bound(n) /\ UNCHANGED air
    BY <1>4 DEF RecvGossip
  <2>3. Quiet(n, old, self, {}, "PING") /\ self.life = old.life
    BY <1>0, HeardTidy
  <2>4. self.mailbox = old.mailbox /\ self.connected = old.connected
    BY <1>0 DEF NodeState
  <2> HIDE DEF self
  <2>5. Tidy(n, self)
    BY <2>3 DEF Quiet
  <2> DEFINE required == RequirePeer(self, m, connects)
             new == IF EndpointOf[m] = EndpointOf[n] THEN self ELSE required
  <2>6. Quiet(n, self, required, {}, "PING")
    BY <2>2, <2>5, RequireQuiet
  <2>7. Quiet(n, old, required, {}, "PING")
    <3> HIDE DEF required, old
    <3> QED BY <2>3, <2>4, <2>6, AfterQuiet
  <2>8. required.life = old.life
    BY <1>2, <2>3, <2>5
  <2> HIDE DEF required
  <2>9. Quiet(n, old, new, {}, "PING") /\ new.life = old.life
    BY <2>3, <2>7, <2>8
  <2>10. Become(n, new)
    BY <2>1 DEF required
  <2> HIDE DEF new
  <2> QED BY <1>1, <2>1, <2>2, <2>9, <2>10 DEF DiscoverShape
<1>5. ASSUME NEW b \in air, RecvLateBeacon(n, b)
      PROVE  \E new : Become(n, new) /\ DiscoverShape(n, new)
  <2>0. b.from \in Node /\ b.live \in BOOLEAN /\ b.to # b.from
    BY DEF TidyAll, IInv, Beacon
  <2>1. PICK connects \in BOOLEAN :
          /\ Connect(connects)
          /\ Become(n, IF b.live THEN RequirePeer(old, b.from, connects)
                       ELSE RemovePeers(old, {b.from} \cap old.peers))
    BY <1>5 DEF RecvLateBeacon
  <2>2. b.from # n /\ Bound(n) /\ air' \subseteq air
    BY <1>5, <2>0 DEF RecvLateBeacon, Bound
  <2> DEFINE required == RequirePeer(old, b.from, connects)
             S == {b.from} \cap old.peers
             removed == RemovePeers(old, S)
  <2>3. CASE b.live
    <3>1. Quiet(n, old, required, {}, "PING") /\ required.life = old.life
      BY <1>0, <1>2, <2>0, <2>2, RequireQuiet
    <3>2. Become(n, required)
      BY <2>1, <2>3
    <3> HIDE DEF required
    <3> QED BY <1>1, <2>1, <2>2, <3>1, <3>2 DEF DiscoverShape
  <2>4. CASE ~b.live
    <3>1. Quiet(n, old, removed, S, "PING") /\ removed.life = old.life
      BY <1>0, RemoveQuiet, RemoveFields
    <3>2. Become(n, removed)
      BY <2>1, <2>4
    <3>3. S \in SUBSET Node /\ \A s \in S : MayForget(n, s)
      BY <2>0 DEF MayForget
    <3> HIDE DEF removed, S
    <3> QED BY <1>1, <2>1, <2>2, <3>1, <3>2, <3>3 DEF DiscoverShape
  <2> QED BY <2>3, <2>4
<1> QED BY <1>3, <1>4, <1>5 DEF Discover

LEMMA ReaperShaped ==
    ASSUME OwnRoom, TidyAll, NEW n \in Node, Reaper(n)
    PROVE  \E new : Become(n, new) /\ DiscoverShape(n, new)
<1> DEFINE old == node[n]
<1>0. /\ Tidy(n, old) /\ old \in NodeState /\ old.peers \in SUBSET Node
      /\ budget \in [BudgetKinds -> Nat]
  BY DEF TidyAll, IInv, NodeState
<1>1. PICK expired \in SUBSET old.peers, evasive \in SUBSET old.peers :
        Reap(n, expired, evasive)
  BY DEF Reaper
<1> DEFINE wronged == Cardinality({m \in expired : ~Silent(n, m)})
           pinged == Cardinality(evasive)
           mid == RemovePeers(old, expired)
           new == Send(mid, evasive, Msg("PING", 0, {}))
<1>2. /\ Become(n, new) /\ Bound(n) /\ UNCHANGED air
      /\ budget' = [budget EXCEPT !.suspect = @ - wronged, !.ping = @ - pinged]
      /\ budget.suspect >= wronged
  BY <1>1 DEF Reap
<1>3. expired \in SUBSET Node /\ evasive \in SUBSET Node
  BY <1>0
<1>4. /\ Tidy(n, mid) /\ mid.life = old.life
      /\ \A t \in Node : To(mid, t) = To(old, t)
  <2>1. Quiet(n, old, mid, expired, "PING")
    BY <1>0, RemoveQuiet
  <2>2. mid.life = old.life /\ \A t \in Node : To(mid, t) = To(old, t)
    BY <1>0, RemoveFields
  <2> HIDE DEF mid, old
  <2> QED BY <2>1, <2>2 DEF Quiet
<1>5. \A s \in evasive : Len(To(mid, s)) < MaxQueue
  <2>1. \A s \in evasive : Len(To(old, s)) < MaxQueue
    BY <1>1 DEF Reap, Room, To
  <2> HIDE DEF mid, old
  <2> QED BY <1>3, <1>4, <2>1
<1>6. Msg("PING", 0, {}) \in Draft /\ ~Tells(Msg("PING", 0, {}))
      /\ Msg("PING", 0, {}).command = "PING"
  BY ZeroStatus, MsgType DEF Command, Tells, Msg
<1>7. Quiet(n, mid, new, {}, "PING") /\ new.life = mid.life
  <2> HIDE DEF mid, old
  <2>1. Quiet(n, mid, new, {}, "PING")
    BY <1>3, <1>4, <1>5, <1>6, SendQuiet
  <2>2. new.life = mid.life
    BY <1>3, <1>4, <1>5, <1>6, SendRoomy DEF Tidy
  <2> QED BY <2>1, <2>2
<1> HIDE DEF new
<1>8. Quiet(n, old, new, expired, "PING")
  BY <1>0, <1>7, AfterRemoval
<1>9. budget'.group = budget.group /\ budget'.suspect = budget.suspect - wronged
      /\ budget.suspect \in Nat
  <2> HIDE DEF wronged, pinged
  <2> QED BY <1>0, <1>2 DEF BudgetKinds
<1>10. ASSUME NEW s \in expired PROVE MayForget(n, s)
  <2>1. CASE Silent(n, s)
    BY <2>1 DEF MayForget
  <2>2. CASE ~Silent(n, s)
    <3> DEFINE W == {m \in expired : ~Silent(n, m)}
    <3>1. IsFiniteSet(W)
      BY <1>3, NodeAssumption, FS_Subset
    <3>2. W # {}
      BY <2>2
    <3> HIDE DEF W
    <3>3. Cardinality(W) \in Nat /\ Cardinality(W) # 0
      BY <3>1, <3>2, FS_CardinalityType, FS_EmptySet
    <3> QED BY <1>9, <3>3 DEF MayForget, W
  <2> QED BY <2>1, <2>2
<1> HIDE DEF wronged
<1> QED BY <1>2, <1>3, <1>4, <1>7, <1>8, <1>9, <1>10 DEF DiscoverShape

\* The queue from old to t becomes q, and nothing else changes.
Trims(n, old, new, t, q) ==
    /\ Tidy(n, new)
    /\ new.life = old.life /\ new.status = old.status /\ new.own_groups = old.own_groups
    /\ new.connected = old.connected
    /\ \A u \in Node : Told(new, u) = Told(old, u)
    /\ \A u \in Node : To(new, u) = IF u = t THEN q ELSE To(old, u)

LEMMA Trimmed ==
    ASSUME OwnRoom, NEW n \in Node, NEW old, Tidy(n, old), NEW t \in Node, t # n,
           NEW q \in Seq(Message)
    PROVE  Trims(n, old, [old EXCEPT !.mailbox[EndpointOf[t]] = q], t, q)
<1> DEFINE new == [old EXCEPT !.mailbox[EndpointOf[t]] = q]
<1>0. Sound(old) /\ old \in NodeState /\ EndpointOf[t] \in Endpoint
  BY BoxType DEF Tidy, Sound
<1>1. Sound(new)
  BY <1>0, QueueSound
<1>2. /\ new.life = old.life /\ new.status = old.status
      /\ new.own_groups = old.own_groups
      /\ new.peers = old.peers /\ new.connected = old.connected
      /\ new.ready = old.ready /\ new.entered = old.entered
      /\ new.peer_status = old.peer_status /\ new.peer_groups = old.peer_groups
      /\ \A e \in Endpoint : new.mailbox[e] = IF e = EndpointOf[t] THEN q ELSE old.mailbox[e]
  BY <1>0 DEF NodeState
<1> HIDE DEF new
<1>3. \A u \in Node : To(new, u) = IF u = t THEN q ELSE To(old, u)
  BY <1>0, <1>2, BoxType DEF To, OwnRoom
<1>4. Tidy(n, new)
  BY <1>1, <1>2, <1>3 DEF Tidy
<1>5. \A u \in Node : Told(new, u) = Told(old, u)
  BY <1>2 DEF Told
<1>6. Trims(n, old, new, t, q)
  BY <1>2, <1>3, <1>4, <1>5 DEF Trims
<1> QED BY <1>6 DEF new

\* What r makes of the first message m of the queue from s.
RecvShape(s, r, new, m) ==
    \/ /\ m.command # "HELLO" /\ s \notin node[r].ready
       /\ new = node[r]
    \/ /\ ~Tells(m) /\ (m.command = "GOODBYE" => ~Gossip)
       /\ s \in node[r].ready /\ new.life = node[r].life
       /\ Quiet(r, node[r], new, {}, "PING_OK")
    \/ /\ m.command = "HELLO" /\ new.life = node[r].life
       /\ \E S \in SUBSET {s} :
             Learns(r, node[r], new, s, Introduced(m), S, "PING_OK")
    \/ /\ m.command \in {"JOIN", "LEAVE"} /\ s \in node[r].ready
       /\ m.status = NextStatus(node[r].peer_status[s]) /\ new.life = node[r].life
       /\ Learns(r, node[r], new, s, Followed(Told(node[r], s), m), {}, "PING_OK")
    \/ /\ m.command \in {"JOIN", "LEAVE"} /\ s \in node[r].ready
       /\ m.status # NextStatus(node[r].peer_status[s])
       /\ Ends(r, node[r], new)
    \/ /\ Quiet(r, node[r], new, {s}, "PING_OK") /\ new.life = node[r].life
       /\ \/ m.command = "HELLO"
             /\ (budget'.refuse < budget.refuse \/ m.sequence # 1)
          \/ RecvLost(s, r)
          \/ m.command = "GOODBYE" /\ Gossip

\* The message is taken from the queue and r handles it.
Reads(s, r, new) ==
    /\ s # r /\ node[r].life = "running"
    /\ UNCHANGED <<air, published>> /\ budget'.group = budget.group
    /\ To(node[s], r) \in Seq(Message) /\ To(node[s], r) # <<>>
    /\ node'[r] = new
    /\ Trims(s, node[s], node'[s], r, Tail(To(node[s], r)))
    /\ \A t \in Node \ {s, r} : node'[t] = node[t]
    /\ RecvShape(s, r, new, To(node[s], r)[1])

LEMMA TakeRead ==
    ASSUME OwnRoom, TidyAll, NEW s \in Node, NEW r \in Node, Arriving(s, r) # <<>>
    PROVE  /\ s # r /\ Taken(s, r)[r] = node[r]
           /\ To(node[s], r) \in Seq(Message) /\ To(node[s], r) # <<>>
           /\ Front(s, r) = To(node[s], r)[1] /\ Front(s, r) \in Message
           /\ \A self : Finish(s, r, self) =>
                 /\ node'[r] = self
                 /\ Trims(s, node[s], node'[s], r, Tail(To(node[s], r)))
                 /\ \A t \in Node \ {s, r} : node'[t] = node[t]
<1> DEFINE q == To(node[s], r)
           shorter == [node[s] EXCEPT !.mailbox[EndpointOf[r]] = Tail(q)]
<1>0. /\ node \in [Node -> NodeState] /\ node[s] \in NodeState /\ Tidy(s, node[s])
      /\ EndpointOf[r] \in Endpoint
  BY EndpointAssumption DEF TidyAll, IInv
<1>1. q \in Seq(Message) /\ q # <<>>
  BY <1>0, BoxType DEF Arriving, To
<1>2. s # r
  BY <1>0, <1>1 DEF Tidy
<1>3. Front(s, r) = q[1] /\ Front(s, r) \in Message
  BY <1>1 DEF Front, Arriving, To
<1>4. Tail(q) \in Seq(Message)
  BY <1>1
<1>5. Taken(s, r) = [node EXCEPT ![s] = shorter]
  BY <1>0 DEF Taken, To, NodeState
<1>6. Trims(s, node[s], shorter, r, Tail(q))
  <2> HIDE DEF q
  <2> QED BY <1>0, <1>2, <1>4, Trimmed
<1> HIDE DEF shorter
<1>7. Taken(s, r)[r] = node[r]
  BY <1>0, <1>2, <1>5
<1>8. ASSUME NEW self, Finish(s, r, self)
      PROVE  /\ node'[r] = self
             /\ node'[s] = shorter
             /\ \A t \in Node \ {s, r} : node'[t] = node[t]
  BY <1>0, <1>2, <1>5, <1>8 DEF Finish
<1> QED BY <1>1, <1>2, <1>3, <1>6, <1>7, <1>8

LEMMA ReadShaped ==
    ASSUME OwnRoom, TidyAll, NEW s \in Node, NEW r \in Node, RecvPeer(s, r)
    PROVE  \E new : Reads(s, r, new)
<1> DEFINE old == node[r]
           m == Front(s, r)
           q == To(node[s], r)
           counted == Counted(s, r)
<1>1. /\ Arriving(s, r) # <<>> /\ UNCHANGED <<air, published>>
      /\ old.life = "running"
  BY DEF RecvPeer, RecvHello, RecvIgnored, RecvLost, RecvData, RecvPing,
         RecvJoin, RecvLeave, RecvGoodbye, Accept, Receive
<1>2. /\ s # r /\ Taken(s, r)[r] = old
      /\ q \in Seq(Message) /\ q # <<>>
      /\ m = q[1] /\ m \in Message
      /\ \A self : Finish(s, r, self) =>
            /\ node'[r] = self
            /\ Trims(s, node[s], node'[s], r, Tail(q))
            /\ \A t \in Node \ {s, r} : node'[t] = node[t]
  BY <1>1, TakeRead
<1>3. Tidy(r, old) /\ Tidy(s, node[s]) /\ old \in NodeState /\ budget \in [BudgetKinds -> Nat]
      /\ OneGroup(q)
  BY DEF TidyAll, IInv
<1>4. /\ Quiet(r, old, counted, {}, "PING_OK")
      /\ counted.life = old.life /\ counted.mailbox = old.mailbox
      /\ counted.peers = old.peers /\ counted.connected = old.connected
      /\ counted.ready = old.ready /\ counted.peer_status = old.peer_status
      /\ Tidy(r, counted)
      /\ \A t \in Node : Told(counted, t) = Told(old, t)
  <2>1. counted = [old EXCEPT !.want_sequence[s] = NextSequence(@)]
    BY <1>2 DEF Counted
  <2>2. /\ Quiet(r, old, counted, {}, "PING_OK")
        /\ counted.life = old.life /\ counted.mailbox = old.mailbox
        /\ counted.peers = old.peers /\ counted.connected = old.connected
        /\ counted.ready = old.ready /\ counted.peer_status = old.peer_status
    BY <1>3, <2>1, CountQuiet
  <2> QED BY <2>2 DEF Quiet
<1> HIDE DEF counted, m, q, old
<1>5. ASSUME NEW new, Handle(s, r, new), RecvShape(s, r, new, m)
      PROVE  Reads(s, r, new)
  BY <1>1, <1>2, <1>5 DEF Handle, Reads, q, old, m
<1>6. CASE RecvHello(s, r)
  <2>1. PICK connects \in BOOLEAN :
          Connect(connects) /\ Finish(s, r, Hello(old, s, m, connects))
    BY <1>2, <1>6 DEF RecvHello, old, m
  <2> DEFINE new == Hello(old, s, m, connects)
  <2>2. m.command = "HELLO"
    BY <1>6 DEF RecvHello, Receive, m
  <2>3. \/ Quiet(r, old, new, {s}, "PING_OK") /\ ~(connects /\ m.sequence = 1)
        \/ \E S \in SUBSET {s} : Learns(r, old, new, s, Introduced(m), S, "PING_OK")
    BY <1>2, <1>3, <2>2, HelloTold
  <2>4. new.life = old.life
    BY <1>2, <1>3, HelloLife
  <2>5. budget'.group = budget.group /\ (~connects => budget'.refuse < budget.refuse)
    BY <1>3, <2>1 DEF Connect, Spend, BudgetKinds
  <2> HIDE DEF new
  <2>6. RecvShape(s, r, new, m)
    BY <2>2, <2>3, <2>4, <2>5 DEF RecvShape, old
  <2> QED BY <1>1, <1>2, <2>1, <2>5, <2>6 DEF Reads, q, old, m, new
<1>7. CASE RecvIgnored(s, r)
  <2>1. m.command # "HELLO" /\ s \notin old.ready
    <3>1. ~OwnEndpointHello(s, r)
      BY <1>2 DEF OwnEndpointHello, OwnRoom
    <3> QED BY <1>7, <3>1 DEF RecvIgnored, m, old
  <2>2. Handle(s, r, old)
    BY <1>2, <1>7 DEF RecvIgnored
  <2>3. RecvShape(s, r, old, m)
    BY <2>1 DEF RecvShape, old
  <2> QED BY <1>5, <2>2, <2>3
<1>8. CASE RecvLost(s, r)
  <2> DEFINE new == RemovePeers(old, {s})
  <2>1. Quiet(r, old, new, {s}, "PING_OK")
    BY <1>3, RemoveQuiet
  <2>2. new.life = old.life
    BY <1>3, RemoveFields
  <2>3. Handle(s, r, new)
    BY <1>2, <1>8 DEF RecvLost
  <2> HIDE DEF new
  <2>4. RecvShape(s, r, new, m)
    BY <1>8, <2>1, <2>2 DEF RecvShape, old
  <2> QED BY <1>5, <2>3, <2>4
<1>9. CASE RecvData(s, r)
  <2>1. /\ ~Tells(m) /\ m.command # "GOODBYE" /\ s \in old.ready
        /\ Handle(s, r, counted)
    BY <1>9 DEF RecvData, Accept, Receive, Tells, m, old, counted
  <2>2. RecvShape(s, r, counted, m)
    BY <1>4, <2>1 DEF RecvShape, old
  <2> QED BY <1>5, <2>1, <2>2
<1>10. CASE RecvPing(s, r)
  <2> DEFINE new == Send(counted, {s}, Msg("PING_OK", 0, {}))
  <2>1. /\ ~Tells(m) /\ m.command # "GOODBYE" /\ s \in old.ready
        /\ Room(r, {s}) /\ Handle(s, r, new)
    BY <1>10 DEF RecvPing, Accept, Receive, Tells, m, old, counted
  <2>2. Msg("PING_OK", 0, {}) \in Draft /\ ~Tells(Msg("PING_OK", 0, {}))
        /\ Msg("PING_OK", 0, {}).command = "PING_OK"
    BY ZeroStatus, MsgType DEF Command, Tells, Msg
  <2>3. \A t \in {s} : Len(To(counted, t)) < MaxQueue
    <3>1. \A t \in {s} : Len(To(old, t)) < MaxQueue
      BY <2>1 DEF Room, To, old
    <3> QED BY <1>4, <3>1 DEF To
  <2>4. Quiet(r, counted, new, {}, "PING_OK")
    BY <1>4, <2>2, <2>3, SendQuiet
  <2>5. new.life = counted.life
    BY ZenonT(40), <1>4, <2>2, <2>3, SendRoomy DEF Tidy
  <2> HIDE DEF new
  <2>6. Quiet(r, old, new, {}, "PING_OK")
    BY <1>4, <2>4, AfterQuiet
  <2>7. RecvShape(s, r, new, m)
    BY <1>4, <2>1, <2>5, <2>6 DEF RecvShape, old
  <2> QED BY <1>5, <2>1, <2>7
<1>11. ASSUME RecvJoin(s, r) \/ RecvLeave(s, r)
       PROVE  \E new : Reads(s, r, new)
  <2> DEFINE followed(g) == GroupChanged(counted, s, g, m)
  <2>1. /\ m.command \in {"JOIN", "LEAVE"} /\ s \in old.ready
        /\ \E g \in m.groups : Handle(s, r, Checked(followed(g), s, m))
    BY <1>11 DEF RecvJoin, RecvLeave, Accept, Receive, m, old, counted, GroupChanged
  <2>2. PICK g \in m.groups : Handle(s, r, Checked(followed(g), s, m))
    BY <2>1
  <2>3. g \in Group /\ m.groups = {g}
    <3>1. 1 \in DOMAIN q
      BY <1>2
    <3> QED BY <1>2, <1>3, <2>1, <2>2, <3>1 DEF OneGroup
  <2> DEFINE mid == followed(g)
  <2>4. /\ Learns(r, counted, mid, s, Followed(Told(counted, s), m), {}, "PING_OK")
        /\ mid.life = counted.life /\ mid.mailbox = counted.mailbox
        /\ mid.peer_status[s] = NextStatus(counted.peer_status[s])
    <3>1. s \in counted.ready /\ Tidy(r, counted) /\ m \in Message
          /\ m.command \in {"JOIN", "LEAVE"} /\ m.groups = {g} /\ g \in Group
      BY <1>2, <1>4, <2>1, <2>3
    <3> HIDE <1>2, <1>4, <2>1, <2>3
    <3> QED BY <3>1, GroupTold
  <2>5. Checked(mid, s, m) = IF m.status = mid.peer_status[s] THEN mid
                             ELSE [NewNode EXCEPT !.life = "aborted", !.mailbox = mid.mailbox]
    BY DEF Checked
  <2> HIDE DEF mid
  <2>6. CASE m.status = mid.peer_status[s]
    <3>1. Learns(r, old, mid, s, Followed(Told(old, s), m), {}, "PING_OK")
      <4>1. \A t \in Node : Posts(old, mid, t, {}, "PING_OK")
        <5>1. ASSUME NEW t \in Node PROVE Posts(old, mid, t, {}, "PING_OK")
          <6>1. Posts(counted, mid, t, {}, "PING_OK") /\ To(counted, t) = To(old, t)
            BY <1>4, <2>4 DEF Learns, To
          <6>2. counted.status = old.status /\ counted.own_groups = old.own_groups
            BY <1>4 DEF Quiet
          <6> QED BY <1>4, <6>1, <6>2 DEF Posts
        <5> QED BY <5>1
      <4>2. counted.status = old.status /\ counted.own_groups = old.own_groups
        BY <1>4 DEF Quiet
      <4> QED BY <1>4, <2>4, <4>1, <4>2 DEF Learns
    <3>2. RecvShape(s, r, mid, m)
      BY <1>4, <2>1, <2>4, <2>6, <3>1 DEF RecvShape, old
    <3> QED BY <1>5, <2>2, <2>5, <2>6, <3>2 DEF mid
  <2>7. CASE m.status # mid.peer_status[s]
    <3> DEFINE new == [NewNode EXCEPT !.life = "aborted", !.mailbox = old.mailbox]
    <3>1. Ends(r, old, new)
      BY <1>3, EndTold
    <3>2. Checked(mid, s, m) = new
      BY <1>4, <2>4, <2>5, <2>7
    <3>3. Handle(s, r, new)
      BY <2>2, <3>2 DEF mid
    <3> HIDE DEF new
    <3>4. RecvShape(s, r, new, m)
      BY <1>4, <2>1, <2>4, <2>7, <3>1 DEF RecvShape, old
    <3> QED BY <1>5, <3>3, <3>4
  <2> QED BY <2>6, <2>7
<1>12. CASE RecvGoodbye(s, r)
  <2>1. /\ m.command = "GOODBYE" /\ s \in old.ready
        /\ Handle(s, r, IF Gossip THEN RemovePeers(counted, {s}) ELSE counted)
    BY <1>12 DEF RecvGoodbye, Accept, Receive, m, old, counted
  <2>2. CASE Gossip
    <3> DEFINE new == RemovePeers(counted, {s})
    <3>1. Quiet(r, counted, new, {s}, "PING_OK")
      BY <1>4, RemoveQuiet
    <3>2. new.life = counted.life
      BY <1>4, RemoveFields
    <3> HIDE DEF new
    <3>3. Quiet(r, old, new, {s}, "PING_OK")
      BY <1>4, <3>1, AfterQuiet
    <3>4. RecvShape(s, r, new, m)
      BY <1>4, <2>1, <2>2, <3>2, <3>3 DEF RecvShape, old
    <3> QED BY <1>5, <2>1, <2>2, <3>4 DEF new
  <2>3. CASE ~Gossip
    <3>1. ~Tells(m)
      BY <2>1 DEF Tells
    <3>2. RecvShape(s, r, counted, m)
      BY <1>4, <2>1, <2>3, <3>1 DEF RecvShape, old
    <3> QED BY <1>5, <2>1, <2>3, <3>2
  <2> QED BY <2>2, <2>3
<1> QED BY <1>6, <1>7, <1>8, <1>9, <1>10, <1>11, <1>12 DEF RecvPeer

\* The network takes one message from one queue.
NetShape(s, new) ==
    /\ UNCHANGED <<air, published>> /\ budget'.group = budget.group
    /\ new.life = node[s].life
    /\ \/ /\ Quiet(s, node[s], new, {}, "PING")
          /\ new.peers = node[s].peers
          /\ \A t \in Node : To(new, t) = To(node[s], t)
       \/ \E t \in Node \ {s} : \E i \in DOMAIN To(node[s], t) :
             /\ Trims(s, node[s], new, t, Without(To(node[s], t), i))
             /\ Stale(s, EndpointOf[t], i) \/ budget'.drop < budget.drop

LEMMA NetShaped ==
    ASSUME OwnRoom, TidyAll, NEW s \in Node, Network(s)
    PROVE  \E new : Become(s, new) /\ NetShape(s, new)
<1> DEFINE old == node[s]
<1>0. /\ Tidy(s, old) /\ old \in NodeState /\ node \in [Node -> NodeState]
      /\ budget \in [BudgetKinds -> Nat] /\ Sound(old)
  BY DEF TidyAll, IInv
<1>1. PICK e \in Endpoint : Discard(s, e) \/ Drop(s, e)
  BY DEF Network
<1> DEFINE q == old.mailbox[e]
<1>2. /\ UNCHANGED <<air, published>> /\ budget'.group = budget.group
      /\ \E i \in DOMAIN q :
            /\ node' = [node EXCEPT ![s].mailbox[e] = Without(@, i)]
            /\ Stale(s, e, i) \/ budget'.drop < budget.drop
  <2>1. CASE Discard(s, e)
    BY <2>1 DEF Discard
  <2>2. CASE Drop(s, e)
    <3>1. budget'.group = budget.group /\ budget'.drop < budget.drop
      BY <1>0, <2>2 DEF Drop, Spend, BudgetKinds
    <3> QED BY <2>2, <3>1 DEF Drop
  <2> QED BY <1>1, <2>1, <2>2
<1>3. PICK i \in DOMAIN q : /\ node' = [node EXCEPT ![s].mailbox[e] = Without(@, i)]
                            /\ Stale(s, e, i) \/ budget'.drop < budget.drop
  BY <1>2
<1> DEFINE p == Without(q, i)
           new == [old EXCEPT !.mailbox[e] = p]
<1>4. Become(s, new)
  BY <1>0, <1>3 DEF Become, NodeState
<1>5. p \in Seq(Message)
  BY <1>0, <1>3, WithoutType DEF NodeState
<1> HIDE DEF p
<1>6. /\ new.life = old.life /\ new.status = old.status
      /\ new.own_groups = old.own_groups
      /\ new.peers = old.peers /\ new.connected = old.connected
      /\ new.ready = old.ready /\ new.entered = old.entered
      /\ new.peer_status = old.peer_status /\ new.peer_groups = old.peer_groups
      /\ \A f \in Endpoint \ {e} : new.mailbox[f] = old.mailbox[f]
  BY <1>0 DEF NodeState
<1>7. CASE \E t \in Node : e = EndpointOf[t]
  <2>1. PICK t \in Node : e = EndpointOf[t]
    BY <1>7
  <2>2. q = To(old, t)
    BY <2>1 DEF To
  <2>3. t # s
    BY <1>0, <1>3, <2>2 DEF Tidy
  <2>4. Trims(s, old, new, t, p)
    BY <1>0, <1>5, <2>1, <2>3, Trimmed
  <2> HIDE DEF new
  <2> QED BY <1>2, <1>3, <1>4, <1>6, <2>1, <2>2, <2>3, <2>4 DEF NetShape, p
<1>8. CASE ~\E t \in Node : e = EndpointOf[t]
  <2>1. Sound(new)
    BY <1>0, <1>5, QueueSound
  <2> HIDE DEF new
  <2>2. \A t \in Node : To(new, t) = To(old, t)
    BY <1>6, <1>8, EndpointAssumption DEF To
  <2>3. Tidy(s, new)
    BY <1>0, <1>6, <2>1, <2>2 DEF Tidy
  <2>4. \A t \in Node : Told(new, t) = Told(old, t)
    BY <1>6 DEF Told
  <2>5. \A t \in Node : Posts(old, new, t, {}, "PING")
    BY <1>6, <2>2 DEF Posts
  <2>6. Quiet(s, old, new, {}, "PING")
    BY <1>6, <2>3, <2>4, <2>5 DEF Quiet
  <2> QED BY <1>2, <1>4, <1>6, <2>2, <2>6 DEF NetShape
<1> QED BY <1>7, <1>8

-----------------------------------------------------------------------------
(***************************************************************************)
(* Tables and queues stay tidy.                                            *)
(***************************************************************************)
LEMMA AppendIndex ==
    ASSUME NEW q \in Seq(Message), NEW m \in Message, NEW p, p = Append(q, m)
    PROVE  /\ p \in Seq(Message) /\ p # <<>>
           /\ Len(q) \in Nat /\ Len(p) = Len(q) + 1
           /\ DOMAIN q = 1 .. Len(q) /\ DOMAIN p = 1 .. Len(q) + 1
           /\ p[Len(q) + 1] = m
           /\ \A i \in DOMAIN q : p[i] = q[i]
<1>1. Len(q) \in Nat /\ DOMAIN q = 1 .. Len(q)
  OBVIOUS
<1>2. /\ p \in Seq(Message) /\ p # <<>>
      /\ Len(p) = Len(q) + 1 /\ DOMAIN p = 1 .. Len(q) + 1
  OBVIOUS
<1>3. p[Len(q) + 1] = m /\ \A i \in DOMAIN q : p[i] = q[i]
  OBVIOUS
<1> QED BY <1>1, <1>2, <1>3

LEMMA OneGroupAppend ==
    ASSUME NEW q \in Seq(Message), NEW m \in Message, OneGroup(q),
           m.command \in {"JOIN", "LEAVE"} => \E g \in Group : m.groups = {g}
    PROVE  OneGroup(Append(q, m))
<1> DEFINE p == Append(q, m)
<1>1. /\ Len(q) \in Nat
      /\ DOMAIN q = 1 .. Len(q) /\ DOMAIN p = 1 .. Len(q) + 1
      /\ p[Len(q) + 1] = m
      /\ \A i \in DOMAIN q : p[i] = q[i]
  BY AppendIndex
<1> HIDE DEF p
<1>2. ASSUME NEW i \in DOMAIN p PROVE p[i] = m \/ \E j \in DOMAIN q : p[i] = q[j]
  <2>1. CASE i = Len(q) + 1
    BY <1>1, <2>1
  <2>2. CASE i # Len(q) + 1
    <3>1. i \in DOMAIN q
      BY <1>1, <2>2
    <3> QED BY <1>1, <3>1
  <2> QED BY <2>1, <2>2
<1>3. OneGroup(p)
  BY <1>2 DEF OneGroup
<1> QED BY <1>3 DEF p

LEMMA OneGroupPosts ==
    ASSUME NEW old \in NodeState, NEW new, NEW t \in Node, NEW S,
           NEW c \in {"PING", "PING_OK", "SHOUT", "WHISPER", "GOODBYE"},
           Posts(old, new, t, S, c), OneGroup(To(old, t))
    PROVE  OneGroup(To(new, t))
<1> DEFINE q == To(old, t)
<1>1. q \in Seq(Message)
  BY BoxType
<1>2. CASE To(new, t) = q
  BY <1>2
<1>3. ASSUME NEW m \in Message, To(new, t) = Append(q, m),
             m.command \notin {"JOIN", "LEAVE"}
      PROVE  OneGroup(To(new, t))
  <2> HIDE DEF q
  <2> QED BY <1>1, <1>3, OneGroupAppend DEF q
<1> QED BY <1>2, <1>3 DEF Posts

LEMMA OneGroupChanges ==
    ASSUME NEW n \in Node, NEW old \in NodeState, NEW new, Changes(n, old, new),
           NEW t \in Node, OneGroup(To(old, t))
    PROVE  OneGroup(To(new, t))
<1> DEFINE q == To(old, t)
<1>1. q \in Seq(Message)
  BY BoxType
<1>2. PICK g \in Group, c \in {"JOIN", "LEAVE"} :
        IF t \in old.connected
        THEN \E m \in Message :
                /\ m.command = c /\ m.groups = {g} /\ m.status = new.status
                /\ To(new, t) = Append(q, m)
        ELSE To(new, t) = q
  BY DEF Changes
<1>3. CASE t \in old.connected
  <2>1. PICK m \in Message : m.groups = {g} /\ To(new, t) = Append(q, m)
    BY <1>2, <1>3
  <2> QED BY <1>1, <2>1, OneGroupAppend
<1>4. CASE t \notin old.connected
  BY <1>2, <1>4
<1> QED BY <1>3, <1>4

LEMMA OneGroupTail ==
    ASSUME NEW q \in Seq(Message), q # <<>>, OneGroup(q)
    PROVE  OneGroup(Tail(q))
BY DEF OneGroup

LEMMA OneGroupWithout ==
    ASSUME NEW q \in Seq(Message), NEW i \in DOMAIN q, OneGroup(q)
    PROVE  OneGroup(Without(q, i))
<1>1. /\ Len(q) \in Nat /\ i \in 1 .. Len(q) /\ Len(Without(q, i)) = Len(q) - 1
      /\ \A k \in 1 .. Len(q) - 1 : Without(q, i)[k] = IF k < i THEN q[k] ELSE q[k + 1]
  BY WithoutIndex
<1>2. DOMAIN q = 1 .. Len(q) /\ DOMAIN Without(q, i) = 1 .. Len(q) - 1
  BY <1>1, WithoutType
<1>3. \A k \in 1 .. Len(q) - 1 : \E j \in 1 .. Len(q) : Without(q, i)[k] = q[j]
  BY <1>1
<1>4. ASSUME NEW k \in DOMAIN Without(q, i), Without(q, i)[k].command \in {"JOIN", "LEAVE"}
      PROVE  \E g \in Group : Without(q, i)[k].groups = {g}
  <2>1. PICK j \in DOMAIN q : Without(q, i)[k] = q[j]
    BY <1>2, <1>3
  <2> QED BY <1>4, <2>1 DEF OneGroup
<1> QED BY <1>4 DEF OneGroup

LEMMA InitTidy == Init => TidyAll
<1> SUFFICES ASSUME Init PROVE TidyAll
  OBVIOUS
<1>1. IInv
  BY InitInvariant
<1>2. \A n \in Node : node[n] = NewNode /\ Sound(node[n])
  BY <1>1 DEF Init, IInv
<1>3. /\ NewNode.entered = {} /\ NewNode.ready = {} /\ NewNode.peers = {}
      /\ NewNode.connected = {}
      /\ \A t \in Node : To(NewNode, t) = <<>>
  BY EndpointAssumption DEF NewNode, To
<1>4. \A n \in Node : Tidy(n, node[n])
  BY <1>2, <1>3 DEF Tidy
<1>5. \A s, t \in Node : OneGroup(To(node[s], t))
  BY <1>2, <1>3 DEF OneGroup
<1> QED BY <1>1, <1>4, <1>5 DEF TidyAll, Init

\* One node's record has changed.
LEMMA TidyBecomes ==
    ASSUME TidyAll, IInv', NEW n \in Node, NEW new, Become(n, new), Tidy(n, new),
           \A t \in Node : OneGroup(To(new, t)), \A b \in air' : b.to # b.from
    PROVE  TidyAll'
<1>1. \A m \in Node : node'[m] = IF m = n THEN new ELSE node[m]
  BY DEF Become, TidyAll, IInv
<1> QED BY <1>1 DEF TidyAll

LEMMA NextTidy ==
    ASSUME OwnRoom, TidyAll, [Next]_vars
    PROVE  TidyAll'
<1>1. IInv'
  BY NextInvariant DEF TidyAll
<1>2. \A n \in Node : Tidy(n, node[n]) /\ node[n] \in NodeState
  BY DEF TidyAll, IInv
<1>3. CASE UNCHANGED vars
  BY <1>3 DEF vars, TidyAll, IInv
<1>4. ASSUME NEW n \in Node, NEW new, NEW S, NEW c \in {"PING", "PING_OK", "SHOUT", "WHISPER", "GOODBYE"},
             Quiet(n, node[n], new, S, c)
      PROVE  Tidy(n, new) /\ \A t \in Node : OneGroup(To(new, t))
  BY <1>2, <1>4, OneGroupPosts DEF Quiet, TidyAll
<1>5. ASSUME NEW n \in Node, Api(n) PROVE TidyAll'
  <2>1. PICK new : Become(n, new) /\ ApiShape(n, new)
    BY <1>5, ApiShaped
  <2>2. Tidy(n, new) /\ \A t \in Node : OneGroup(To(new, t))
    <3>1. CASE Changes(n, node[n], new)
      BY <1>2, <3>1, OneGroupChanges DEF Changes, TidyAll
    <3>2. CASE Ends(n, node[n], new)
      BY <3>2 DEF Ends, TidyAll
    <3>3. ASSUME NEW c \in {"PING", "SHOUT", "WHISPER", "GOODBYE"},
                 Quiet(n, node[n], new, {}, c)
          PROVE  Tidy(n, new) /\ \A t \in Node : OneGroup(To(new, t))
      BY <1>4, <3>3
    <3> QED BY <2>1, <3>1, <3>2, <3>3 DEF ApiShape
  <2>3. \A b \in air' : b.to # b.from
    BY <2>1 DEF ApiShape, Join, Leave, Start, Stop, Destroy, Trail, TidyAll
  <2> QED BY <1>1, <2>1, <2>2, <2>3, TidyBecomes
<1>6. ASSUME NEW n \in Node, Discover(n) \/ Reaper(n) PROVE TidyAll'
  <2>1. PICK new : Become(n, new) /\ DiscoverShape(n, new)
    BY <1>6, DiscoverShaped, ReaperShaped
  <2>2. Tidy(n, new) /\ \A t \in Node : OneGroup(To(new, t))
    BY <1>4, <2>1 DEF DiscoverShape
  <2>3. \A b \in air' : b.to # b.from
    BY <2>1 DEF DiscoverShape, TidyAll
  <2> QED BY <1>1, <2>1, <2>2, <2>3, TidyBecomes
<1>7. ASSUME NEW n \in Node, Network(n) PROVE TidyAll'
  <2>1. PICK new : Become(n, new) /\ NetShape(n, new)
    BY <1>7, NetShaped
  <2>2. Tidy(n, new) /\ \A t \in Node : OneGroup(To(new, t))
    <3>1. CASE Quiet(n, node[n], new, {}, "PING")
      BY <1>4, <3>1
    <3>2. ASSUME NEW t \in Node, NEW i \in DOMAIN To(node[n], t),
                 Trims(n, node[n], new, t, Without(To(node[n], t), i))
          PROVE  Tidy(n, new) /\ \A u \in Node : OneGroup(To(new, u))
      <4>1. OneGroup(Without(To(node[n], t), i))
        BY <1>2, <3>2, BoxType, OneGroupWithout DEF TidyAll
      <4> QED BY <3>2, <4>1 DEF Trims, TidyAll
    <3> QED BY <2>1, <3>1, <3>2 DEF NetShape
  <2>3. \A b \in air' : b.to # b.from
    BY <2>1 DEF NetShape, TidyAll
  <2> QED BY <1>1, <2>1, <2>2, <2>3, TidyBecomes
<1>8. ASSUME NEW r \in Node, NEW s \in Node, RecvPeer(s, r) PROVE TidyAll'
  <2>1. PICK new : Reads(s, r, new)
    BY <1>8, ReadShaped
  <2>2. Tidy(r, new) /\ \A t \in Node : OneGroup(To(new, t))
    <3> DEFINE m == To(node[s], r)[1]
    <3>1. CASE new = node[r]
      BY <1>2, <3>1 DEF TidyAll
    <3>2. ASSUME NEW S, Quiet(r, node[r], new, S, "PING_OK")
          PROVE  Tidy(r, new) /\ \A t \in Node : OneGroup(To(new, t))
      BY <1>4, <3>2
    <3>3. ASSUME NEW v, NEW S, Learns(r, node[r], new, s, v, S, "PING_OK")
          PROVE  Tidy(r, new) /\ \A t \in Node : OneGroup(To(new, t))
      BY <1>2, <3>3, OneGroupPosts DEF Learns, TidyAll
    <3>4. CASE Ends(r, node[r], new)
      BY <3>4 DEF Ends, TidyAll
    <3> QED BY <2>1, <3>1, <3>2, <3>3, <3>4 DEF Reads, RecvShape
  <2>3. Tidy(s, node'[s]) /\ \A t \in Node : OneGroup(To(node'[s], t))
    <3> DEFINE q == To(node[s], r)
    <3>1. q \in Seq(Message) /\ q # <<>> /\ OneGroup(q)
      BY <2>1 DEF Reads, TidyAll
    <3>2. Trims(s, node[s], node'[s], r, Tail(q))
      BY <2>1 DEF Reads
    <3> HIDE DEF q
    <3>3. OneGroup(Tail(q))
      BY <3>1, OneGroupTail
    <3> QED BY <3>2, <3>3 DEF Trims, TidyAll
  <2>4. /\ node'[r] = new /\ UNCHANGED air
        /\ \A t \in Node \ {s, r} : node'[t] = node[t]
    BY <2>1 DEF Reads
  <2> QED BY <1>1, <2>2, <2>3, <2>4 DEF TidyAll
<1> QED BY <1>3, <1>5, <1>6, <1>7, <1>8 DEF Next

-----------------------------------------------------------------------------
(***************************************************************************)
(* What r knows of s is out of date only by the messages under way.        *)
(***************************************************************************)
\* What b tells of s, as After reads it, and what a would tell of itself.
Seen(b, s) == [groups |-> Told(b, s).groups, status |-> Told(b, s).version]
Own(a) == [groups |-> a.own_groups, status |-> a.status]

Introducing(q) == \E i \in DOMAIN q : q[i].command = "HELLO"

\* a and b are the records of s and r.
UpToDate(a, b, s, r) ==
    (r \in a.connected /\ (s \in b.ready \/ Introducing(To(a, r))))
        => Leads(To(a, r), Seen(b, s), Own(a))

LEMMA AppendIntroducing ==
    ASSUME NEW q \in Seq(Message), NEW m \in Message, m.command # "HELLO",
           Introducing(Append(q, m))
    PROVE  Introducing(q)
<1> DEFINE p == Append(q, m)
<1>1. /\ Len(q) \in Nat
      /\ DOMAIN q = 1 .. Len(q) /\ DOMAIN p = 1 .. Len(q) + 1
      /\ p[Len(q) + 1] = m
      /\ \A i \in DOMAIN q : p[i] = q[i]
  BY AppendIndex
<1> HIDE DEF p
<1>2. PICK i \in DOMAIN p : p[i].command = "HELLO"
  BY DEF Introducing, p
<1>3. i # Len(q) + 1
  BY <1>1, <1>2
<1>4. i \in DOMAIN q
  BY <1>1, <1>3
<1> QED BY <1>1, <1>2, <1>4 DEF Introducing

LEMMA TailIntroducing ==
    ASSUME NEW q \in Seq(Message), q # <<>>, Introducing(Tail(q))
    PROVE  Introducing(q)
BY DEF Introducing

LEMMA AfterPlain ==
    ASSUME NEW m, ~Tells(m), NEW v PROVE After(v, m) = v
BY DEF After, Tells

\* The sender handles something.
LEMMA ViewPosts ==
    ASSUME NEW s \in Node, NEW r \in Node, NEW a \in NodeState, NEW b, NEW new,
           NEW S, NEW c, Posts(a, new, r, S, c), Own(new) = Own(a),
           UpToDate(a, b, s, r)
    PROVE  UpToDate(new, b, s, r)
<1> DEFINE q == To(a, r)
           v == Seen(b, s)
<1>0. q \in Seq(Message)
  BY BoxType
<1> SUFFICES ASSUME r \in new.connected, s \in b.ready \/ Introducing(To(new, r))
             PROVE  Leads(To(new, r), v, Own(a))
  BY DEF UpToDate
<1>1. CASE To(new, r) = q /\ (r \in new.connected <=> r \in a.connected \ S)
  BY <1>1 DEF UpToDate
<1>2. ASSUME NEW m \in Message, To(new, r) = Append(q, m), m.command = "HELLO",
             m.status = a.status, m.groups = a.own_groups
      PROVE  Leads(To(new, r), v, Own(a))
  <2>1. PICK x : Leads(q, v, x)
    BY <1>0, LeadsOne
  <2>2. Leads(Append(q, m), v, After(x, m))
    BY <1>0, <2>1, LeadsAppend
  <2>3. After(x, m) = Own(a)
    BY <1>2 DEF After, Own
  <2> QED BY <1>2, <2>2, <2>3
<1>3. ASSUME NEW m \in Message, To(new, r) = Append(q, m), ~Tells(m), r \in a.connected
      PROVE  Leads(To(new, r), v, Own(a))
  <2>1. m.command # "HELLO"
    BY <1>3 DEF Tells
  <2>2. s \in b.ready \/ Introducing(q)
    BY <1>0, <1>3, <2>1, AppendIntroducing
  <2>3. Leads(q, v, Own(a))
    BY <1>3, <2>2 DEF UpToDate
  <2>4. Leads(Append(q, m), v, After(Own(a), m))
    BY <1>0, <2>3, LeadsAppend
  <2> QED BY <1>3, <2>4, AfterPlain
<1> QED BY <1>1, <1>2, <1>3 DEF Posts

LEMMA ViewChanges ==
    ASSUME NEW s \in Node, NEW r \in Node, NEW a \in NodeState, NEW b, NEW new,
           Changes(s, a, new), UpToDate(a, b, s, r)
    PROVE  UpToDate(new, b, s, r)
<1> DEFINE q == To(a, r)
           v == Seen(b, s)
<1>0. q \in Seq(Message)
  BY BoxType
<1> SUFFICES ASSUME r \in new.connected, s \in b.ready \/ Introducing(To(new, r))
             PROVE  Leads(To(new, r), v, Own(new))
  BY DEF UpToDate
<1>1. r \in a.connected /\ new.status = NextStatus(a.status)
  BY DEF Changes
<1>2. PICK g \in Group, c \in {"JOIN", "LEAVE"} :
          /\ c = "JOIN" => g \notin a.own_groups /\ new.own_groups = a.own_groups \cup {g}
          /\ c = "LEAVE" => g \in a.own_groups /\ new.own_groups = a.own_groups \ {g}
          /\ \A t \in Node :
                IF t \in a.connected
                THEN \E m \in Message :
                        /\ m.command = c /\ m.groups = {g} /\ m.status = new.status
                        /\ To(new, t) = Append(To(a, t), m)
                ELSE To(new, t) = To(a, t)
  BY DEF Changes
<1>3. PICK m \in Message : /\ m.command = c /\ m.groups = {g} /\ m.status = new.status
                           /\ To(new, r) = Append(q, m)
  BY <1>1, <1>2
<1>4. s \in b.ready \/ Introducing(q)
  BY <1>0, <1>2, <1>3, AppendIntroducing
<1>5. Leads(q, v, Own(a))
  BY <1>1, <1>4 DEF UpToDate
<1>6. Leads(Append(q, m), v, After(Own(a), m))
  BY <1>0, <1>5, LeadsAppend
<1>7. After(Own(a), m) = Own(new)
  BY <1>1, <1>2, <1>3 DEF After, Own
<1> QED BY <1>3, <1>6, <1>7

\* The receiver handles something of another node: it knows what it knew of s,
\* or nothing any more.
LEMMA ViewKept ==
    ASSUME NEW s \in Node, NEW r \in Node, NEW a \in NodeState, NEW b, NEW new,
           Tidy(r, b), Tidy(r, new), Told(new, s) = Told(b, s), UpToDate(a, b, s, r)
    PROVE  UpToDate(a, new, s, r)
<1>1. Seen(new, s) = Seen(b, s)
  BY DEF Seen
<1>2. s \in new.ready <=> s \in b.ready
  BY ToldReady
<1> QED BY <1>1, <1>2 DEF UpToDate

LEMMA ViewForgotten ==
    ASSUME NEW s \in Node, NEW r \in Node, NEW a \in NodeState, NEW b, NEW new,
           Tidy(r, new), Told(new, s) = Stranger, UpToDate(a, b, s, r)
    PROVE  UpToDate(a, new, s, r)
<1> DEFINE q == To(a, r)
<1>0. q \in Seq(Message)
  BY BoxType
<1>1. s \notin new.ready
  BY ToldReady DEF Stranger
<1> SUFFICES ASSUME r \in a.connected, Introducing(q)
             PROVE  Leads(q, Seen(new, s), Own(a))
  BY <1>1 DEF UpToDate
<1>2. Leads(q, Seen(b, s), Own(a))
  BY DEF UpToDate
<1>3. PICK i \in DOMAIN q : q[i].command = "HELLO"
  BY DEF Introducing
<1> HIDE DEF q
<1> QED BY <1>0, <1>2, <1>3, LeadsAnew

\* Of a message of s itself.
LEMMA ViewRead ==
    ASSUME NEW s \in Node, NEW r \in Node, NEW a \in NodeState, NEW b, NEW cut, NEW new,
           To(a, r) # <<>>, To(cut, r) = Tail(To(a, r)),
           cut.connected = a.connected, Own(cut) = Own(a),
           Tidy(r, b), Tidy(r, new), UpToDate(a, b, s, r),
           LET m == To(a, r)[1]
           IN  \/ Told(new, s) = Stranger
               \/ /\ Seen(new, s) = After(Seen(b, s), m)
                  /\ s \in b.ready \/ m.command = "HELLO"
    PROVE  UpToDate(cut, new, s, r)
<1> DEFINE q == To(a, r)
           m == q[1]
<1>0. q \in Seq(Message) /\ q # <<>>
  BY BoxType
<1>1. 1 \in DOMAIN q
  BY <1>0
<1>2. Introducing(Tail(q)) => Introducing(q)
  BY <1>0, TailIntroducing
<1> SUFFICES ASSUME r \in a.connected, s \in new.ready \/ Introducing(Tail(q))
             PROVE  Leads(Tail(q), Seen(new, s), Own(a))
  BY DEF UpToDate
<1>3. s \in b.ready \/ Introducing(q)
  <2>1. Told(new, s) = Stranger => s \notin new.ready
    BY ToldReady DEF Stranger
  <2> QED BY <1>1, <1>2, <2>1 DEF Introducing
<1>4. Leads(q, Seen(b, s), Own(a))
  BY <1>3 DEF UpToDate
<1> HIDE DEF q
<1>5. Leads(Tail(q), After(Seen(b, s), m), Own(a))
  BY <1>0, <1>4, LeadsTail
<1>6. CASE Told(new, s) = Stranger
  <2>1. s \notin new.ready
    BY <1>6, ToldReady DEF Stranger
  <2>2. PICK i \in DOMAIN Tail(q) : Tail(q)[i].command = "HELLO"
    BY <2>1 DEF Introducing
  <2>3. Tail(q) \in Seq(Message)
    BY <1>0
  <2> QED BY <1>5, <2>2, <2>3, LeadsAnew
<1>7. CASE Seen(new, s) = After(Seen(b, s), m)
  BY <1>5, <1>7
<1> QED BY <1>6, <1>7 DEF q

\* A queue to another node is cut.
LEMMA ViewSame ==
    ASSUME NEW s \in Node, NEW r \in Node, NEW a, NEW b, NEW new,
           To(new, r) = To(a, r), new.connected = a.connected, Own(new) = Own(a),
           UpToDate(a, b, s, r)
    PROVE  UpToDate(new, b, s, r)
BY DEF UpToDate

LEMMA WithoutFirst ==
    ASSUME NEW q \in Seq(Message), 1 \in DOMAIN q
    PROVE  Without(q, 1) = Tail(q)
<1> DEFINE p == Without(q, 1)
           t == Tail(q)
           l == Len(q)
<1>1. /\ l \in Nat /\ 1 \in 1 .. l /\ DOMAIN p = 1 .. l - 1
      /\ \A k \in 1 .. l - 1 : p[k] = q[k + 1]
  BY WithoutIndex
<1>2. p \in Seq(Message)
  BY WithoutType
<1>3. t \in Seq(Message) /\ DOMAIN t = 1 .. l - 1 /\ \A k \in 1 .. l - 1 : t[k] = q[k + 1]
  BY <1>1
<1>4. p = [k \in 1 .. l - 1 |-> p[k]]
  <2>1. p = [k \in DOMAIN p |-> p[k]]
    BY <1>2
  <2> HIDE DEF p, l
  <2> QED BY <1>1, <2>1
<1>5. t = [k \in 1 .. l - 1 |-> t[k]]
  <2> HIDE DEF t, l
  <2>1. t = [k \in DOMAIN t |-> t[k]]
    BY <1>3
  <2> QED BY <1>3, <2>1
<1> HIDE DEF p, t, l
<1>6. [k \in 1 .. l - 1 |-> p[k]] = [k \in 1 .. l - 1 |-> t[k]]
  BY <1>1, <1>3
<1>7. p = t
  BY <1>4, <1>5, <1>6
<1> QED BY <1>7 DEF p, t

\* libzmq drops a message of a mailbox that is closed or of a receiver that is gone.
LEMMA ViewDiscarded ==
    ASSUME NEW s \in Node, NEW r \in Node, NEW a \in NodeState, NEW b, NEW new,
           NEW i \in DOMAIN To(a, r), To(new, r) = Without(To(a, r), i),
           new.connected = a.connected, Own(new) = Own(a),
           \/ i < Len(To(a, r)) /\ To(a, r)[i + 1].command = "HELLO"
           \/ r \notin a.connected
           \/ i = 1 /\ s \notin b.ready,
           UpToDate(a, b, s, r)
    PROVE  UpToDate(new, b, s, r)
<1> DEFINE q == To(a, r)
           p == Without(q, i)
<1>0. q \in Seq(Message) /\ p \in Seq(Message)
  BY BoxType, WithoutType
<1> HIDE DEF q
<1>1. Introducing(p) => Introducing(q)
  <2>1. /\ Len(q) \in Nat /\ i \in 1 .. Len(q)
        /\ DOMAIN q = 1 .. Len(q) /\ DOMAIN p = 1 .. Len(q) - 1
        /\ \A j \in 1 .. i - 1 : p[j] = q[j]
        /\ \A j \in i .. Len(q) - 1 : p[j] = q[j + 1]
    BY <1>0, WithoutIndex DEF q
  <2> HIDE DEF p
  <2>2. ASSUME NEW k \in DOMAIN p PROVE \E j \in DOMAIN q : p[k] = q[j]
    <3>1. CASE k \in 1 .. i - 1
      <4>1. k \in DOMAIN q
        BY <2>1, <3>1
      <4> QED BY <2>1, <3>1, <4>1
    <3>2. CASE k \in i .. Len(q) - 1
      <4>1. k + 1 \in DOMAIN q
        BY <2>1, <3>2
      <4>2. p[k] = q[k + 1]
        BY <2>1, <3>2
      <4> QED BY <4>1, <4>2
    <3>3. k \in 1 .. i - 1 \/ k \in i .. Len(q) - 1
      BY <2>1
    <3> QED BY <3>1, <3>2, <3>3
  <2> QED BY <2>2 DEF Introducing
<1> SUFFICES ASSUME r \in a.connected, s \in b.ready \/ Introducing(p)
             PROVE  Leads(p, Seen(b, s), Own(a))
  BY DEF UpToDate, q
<1>2. Leads(q, Seen(b, s), Own(a))
  BY <1>1 DEF UpToDate, q
<1>3. CASE i < Len(q) /\ q[i + 1].command = "HELLO"
  BY <1>0, <1>2, <1>3, LeadsWithout DEF q
<1>4. CASE i = 1 /\ s \notin b.ready
  <2>1. p = Tail(q) /\ q # <<>>
    BY <1>0, <1>4, WithoutFirst DEF q
  <2>2. Leads(Tail(q), After(Seen(b, s), q[1]), Own(a))
    BY <1>0, <1>2, <2>1, LeadsTail
  <2>3. PICK j \in DOMAIN p : p[j].command = "HELLO"
    BY <1>4 DEF Introducing
  <2> HIDE DEF p
  <2> QED BY <1>0, <2>1, <2>2, <2>3, LeadsAnew
<1> QED BY <1>3, <1>4 DEF q

Views == \A s, r \in Node : s # r => UpToDate(node[s], node[r], s, r)

\* The inductive invariant.
VInv == TidyAll /\ LInv /\ (NoDrop => Views)

LEMMA InitViews == Init => VInv
<1> SUFFICES ASSUME Init PROVE VInv
  OBVIOUS
<1>1. TidyAll /\ LInv
  BY InitTidy, InitLinks
<1>2. \A s \in Node : node[s].connected = {}
  BY DEF Init, NewNode
<1>3. Views
  BY <1>2 DEF Views, UpToDate
<1> QED BY <1>1, <1>3 DEF VInv

\* One node's record has changed.
LEMMA ViewsBecome ==
    ASSUME TidyAll, NEW n \in Node, NEW new, Become(n, new),
           \A t \in Node \ {n} : /\ UpToDate(new, node[t], n, t)
                                 /\ UpToDate(node[t], new, t, n),
           Views
    PROVE  Views'
<1>1. \A m \in Node : node'[m] = IF m = n THEN new ELSE node[m]
  BY DEF Become, TidyAll, IInv
<1>2. ASSUME NEW s \in Node, NEW r \in Node, s # r
      PROVE  UpToDate(node'[s], node'[r], s, r)
  <2>1. CASE s = n
    BY <1>1, <1>2, <2>1
  <2>2. CASE r = n
    BY <1>1, <1>2, <2>2
  <2>3. CASE s # n /\ r # n
    BY <1>1, <1>2, <2>3 DEF Views
  <2> QED BY <2>1, <2>2, <2>3
<1> QED BY <1>2 DEF Views

LEMMA QuietViews ==
    ASSUME TidyAll, Views, NEW n \in Node, NEW t \in Node, t # n, NEW new, NEW S, NEW c,
           Quiet(n, node[n], new, S, c)
    PROVE  UpToDate(new, node[t], n, t) /\ UpToDate(node[t], new, t, n)
<1>1. /\ node[n] \in NodeState /\ node[t] \in NodeState
      /\ Tidy(n, node[n]) /\ Tidy(n, new)
      /\ UpToDate(node[n], node[t], n, t) /\ UpToDate(node[t], node[n], t, n)
      /\ Posts(node[n], new, t, S, c)
  BY DEF TidyAll, IInv, Views, Quiet
<1>2. Own(new) = Own(node[n])
  BY DEF Quiet, Own
<1>3. UpToDate(new, node[t], n, t)
  BY <1>1, <1>2, ViewPosts
<1>4. UpToDate(node[t], new, t, n)
  <2>1. Told(new, t) = Stranger \/ Told(new, t) = Told(node[n], t)
    BY DEF Quiet
  <2> QED BY <1>1, <2>1, ViewKept, ViewForgotten
<1> QED BY <1>3, <1>4

LEMMA EndsViews ==
    ASSUME TidyAll, Views, NEW n \in Node, NEW t \in Node, t # n, NEW new,
           Ends(n, node[n], new)
    PROVE  UpToDate(new, node[t], n, t) /\ UpToDate(node[t], new, t, n)
<1>1. node[t] \in NodeState /\ Tidy(n, new) /\ UpToDate(node[t], node[n], t, n)
      /\ Told(new, t) = Stranger
  BY DEF TidyAll, IInv, Views, Ends
<1>2. new.connected = {}
  BY DEF Ends, Tidy
<1>3. UpToDate(new, node[t], n, t)
  BY <1>2 DEF UpToDate
<1> QED BY <1>1, <1>3, ViewForgotten

LEMMA NextViews ==
    ASSUME OwnRoom, VInv, [Next]_vars
    PROVE  VInv'
<1>1. TidyAll /\ TidyAll' /\ LInv /\ LInv'
  BY NextTidy, NextLinks DEF VInv
<1>2. NoDrop' => NoDrop /\ ~(budget'.drop < budget.drop)
  <2>1. budget'.drop <= budget.drop /\ budget.drop <= Budget.drop
    BY <1>1, DropFalls DEF LInv
  <2>2. budget.drop \in Nat /\ budget'.drop \in Nat /\ Budget.drop \in Nat
    BY <1>1, BudgetAssumption DEF TidyAll, IInv, BudgetKinds
  <2> QED BY <2>1, <2>2 DEF NoDrop
<1> SUFFICES ASSUME NoDrop' PROVE Views'
  BY <1>1 DEF VInv
<1>3. Views /\ Good(node)
  BY <1>1, <1>2 DEF VInv, LInv
<1>4. \A n \in Node : node[n] \in NodeState /\ Tidy(n, node[n])
  BY <1>1 DEF TidyAll, IInv
<1>5. CASE UNCHANGED vars
  BY <1>3, <1>5 DEF vars, Views
<1>6. ASSUME NEW n \in Node, Api(n) PROVE Views'
  <2>1. PICK new : Become(n, new) /\ ApiShape(n, new)
    BY <1>1, <1>6, ApiShaped
  <2>2. ASSUME NEW t \in Node \ {n}
        PROVE  UpToDate(new, node[t], n, t) /\ UpToDate(node[t], new, t, n)
    <3>0. UpToDate(node[n], node[t], n, t) /\ UpToDate(node[t], node[n], t, n)
      BY <1>3 DEF Views
    <3>1. CASE Changes(n, node[n], new)
      <4>1. UpToDate(new, node[t], n, t)
        BY <1>4, <3>0, <3>1, ViewChanges
      <4>2. Tidy(n, new) /\ Told(new, t) = Told(node[n], t)
        BY <3>1 DEF Changes
      <4>3. UpToDate(node[t], new, t, n)
        BY <1>4, <3>0, <4>2, ViewKept
      <4> QED BY <4>1, <4>3
    <3>2. CASE Ends(n, node[n], new)
      BY <1>1, <1>3, <3>2, EndsViews
    <3>3. ASSUME NEW c, Quiet(n, node[n], new, {}, c)
          PROVE  UpToDate(new, node[t], n, t) /\ UpToDate(node[t], new, t, n)
      BY <1>1, <1>3, <3>3, QuietViews
    <3> QED BY <2>1, <3>1, <3>2, <3>3 DEF ApiShape
  <2> QED BY <1>1, <1>3, <2>1, <2>2, ViewsBecome
<1>7. ASSUME NEW n \in Node, Discover(n) \/ Reaper(n) PROVE Views'
  <2>1. PICK new : Become(n, new) /\ DiscoverShape(n, new)
    BY <1>1, <1>7, DiscoverShaped, ReaperShaped
  <2>2. PICK S : Quiet(n, node[n], new, S, "PING")
    BY <2>1 DEF DiscoverShape
  <2>3. \A t \in Node \ {n} : UpToDate(new, node[t], n, t) /\ UpToDate(node[t], new, t, n)
    BY <1>1, <1>3, <2>2, QuietViews
  <2> QED BY <1>1, <1>3, <2>1, <2>3, ViewsBecome
<1>8. ASSUME NEW n \in Node, Network(n) PROVE Views'
  <2>1. PICK new : Become(n, new) /\ NetShape(n, new)
    BY <1>1, <1>8, NetShaped
  <2>2. CASE Quiet(n, node[n], new, {}, "PING")
    <3>1. \A t \in Node \ {n} : UpToDate(new, node[t], n, t) /\ UpToDate(node[t], new, t, n)
      BY <1>1, <1>3, <2>2, QuietViews
    <3> QED BY <1>1, <1>3, <2>1, <3>1, ViewsBecome
  <2>3. ASSUME NEW t \in Node \ {n}, NEW i \in DOMAIN To(node[n], t),
               Trims(n, node[n], new, t, Without(To(node[n], t), i)),
               Stale(n, EndpointOf[t], i) \/ budget'.drop < budget.drop
        PROVE  Views'
    <3>0. Stale(n, EndpointOf[t], i)
      BY <1>2, <2>3
    <3>1. /\ new.connected = node[n].connected /\ Own(new) = Own(node[n])
          /\ Tidy(n, new)
          /\ \A u \in Node : Told(new, u) = Told(node[n], u)
          /\ To(new, t) = Without(To(node[n], t), i)
          /\ \A u \in Node \ {t} : To(new, u) = To(node[n], u)
      BY <2>3 DEF Trims, Own
    <3>2. \/ i < Len(To(node[n], t)) /\ To(node[n], t)[i + 1].command = "HELLO"
          \/ t \notin node[n].connected
          \/ i = 1 /\ n \notin node[t].ready
      <4>1. ASSUME NEW d \in Node, EndpointOf[d] = EndpointOf[t],
                   node[d].life \in {"dead", "aborted"}
            PROVE  n \notin node[t].ready
        BY <1>3, <4>1 DEF OwnRoom, Good, OneBound
      <4> QED BY <3>0, <4>1 DEF Stale, At, To
    <3>3. UpToDate(new, node[t], n, t)
      BY <1>3, <1>4, <2>3, <3>1, <3>2, ViewDiscarded DEF Views
    <3>4. ASSUME NEW u \in Node \ {n}
          PROVE  UpToDate(new, node[u], n, u) /\ UpToDate(node[u], new, u, n)
      <4>1. UpToDate(node[u], new, u, n)
        BY <1>3, <1>4, <3>1, ViewKept DEF Views
      <4>2. u # t => UpToDate(new, node[u], n, u)
        BY <1>3, <3>1, ViewSame DEF Views
      <4> QED BY <3>3, <4>1, <4>2
    <3> QED BY <1>1, <1>3, <2>1, <3>4, ViewsBecome
  <2> QED BY <2>1, <2>2, <2>3 DEF NetShape
<1>9. ASSUME NEW r \in Node, NEW s \in Node, RecvPeer(s, r) PROVE Views'
  <2>1. PICK new : Reads(s, r, new)
    BY <1>1, <1>9, ReadShaped
  <2> DEFINE a == node[s]
             b == node[r]
             cut == node'[s]
             q == To(a, r)
             m == q[1]
  <2>2. /\ s # r /\ q \in Seq(Message) /\ q # <<>>
        /\ node'[r] = new /\ \A t \in Node \ {s, r} : node'[t] = node[t]
        /\ RecvShape(s, r, new, m)
        /\ Tidy(s, cut) /\ cut.connected = a.connected /\ Own(cut) = Own(a)
        /\ \A u \in Node : Told(cut, u) = Told(a, u)
        /\ To(cut, r) = Tail(q) /\ \A u \in Node \ {r} : To(cut, u) = To(a, u)
    BY <2>1 DEF Reads, Trims, Own
  <2>3. /\ a \in NodeState /\ b \in NodeState /\ Tidy(s, a) /\ Tidy(r, b)
        /\ UpToDate(a, b, s, r) /\ UpToDate(b, a, r, s)
        /\ cut \in NodeState
    BY <1>1, <1>3, <1>4, <2>2 DEF Views, TidyAll, IInv
  <2>4. Tidy(r, new)
    BY <1>1, <2>2 DEF TidyAll
  <2>5. \/ Told(new, s) = Stranger
        \/ /\ Seen(new, s) = After(Seen(b, s), m)
           /\ s \in b.ready \/ m.command = "HELLO"
    <3>1. ASSUME ~Tells(m), s \in b.ready, Quiet(r, b, new, {}, "PING_OK")
          PROVE  Seen(new, s) = After(Seen(b, s), m)
      <4>1. Told(new, s) = Told(b, s)
        BY <3>1 DEF Quiet
      <4>2. After(Seen(b, s), m) = Seen(b, s)
        BY <3>1, AfterPlain
      <4> QED BY <4>1, <4>2 DEF Seen
    <3>2. CASE m.command # "HELLO" /\ s \notin b.ready /\ new = b
      BY <2>3, <3>2, ToldReady
    <3>3. ASSUME m.command = "HELLO", NEW S, Learns(r, b, new, s, Introduced(m), S, "PING_OK")
          PROVE  Seen(new, s) = After(Seen(b, s), m)
      BY <3>3 DEF Learns, Seen, After, Introduced
    <3>4. ASSUME m.command \in {"JOIN", "LEAVE"}, s \in b.ready,
                 Learns(r, b, new, s, Followed(Told(b, s), m), {}, "PING_OK")
          PROVE  Seen(new, s) = After(Seen(b, s), m)
      BY <3>4 DEF Learns, Seen, After, Followed
    <3>5. Ends(r, b, new) => Told(new, s) = Stranger
      BY DEF Ends
    <3>6. Quiet(r, b, new, {s}, "PING_OK") => Told(new, s) = Stranger
      BY DEF Quiet
    <3> QED BY <2>2, <3>1, <3>2, <3>3, <3>4, <3>5, <3>6 DEF RecvShape
  <2>6. /\ Own(new) = Own(b) \/ new.connected = {}
        /\ new = b \/ new.connected = {} \/ \E S : \A t \in Node : Posts(b, new, t, S, "PING_OK")
    BY <2>2 DEF RecvShape, Quiet, Learns, Ends, Tidy, Own
  <2>7. \A t \in Node \ {s} : Told(new, t) = Told(b, t) \/ Told(new, t) = Stranger
    BY <2>2 DEF RecvShape, Quiet, Learns, Ends
  <2>8. UpToDate(cut, new, s, r)
    BY <2>2, <2>3, <2>4, <2>5, ViewRead
  <2>9. ASSUME NEW t \in Node, t # r, NEW z, UpToDate(b, z, r, t)
        PROVE  UpToDate(new, z, r, t)
    <3>1. CASE new.connected = {}
      BY <3>1 DEF UpToDate
    <3>2. CASE new = b
      BY <2>9, <3>2
    <3>3. ASSUME NEW S, \A u \in Node : Posts(b, new, u, S, "PING_OK"), Own(new) = Own(b)
          PROVE  UpToDate(new, z, r, t)
      <4>1. Posts(b, new, t, S, "PING_OK")
        BY <3>3
      <4> HIDE DEF b
      <4> QED BY <2>3, <2>9, <3>3, <4>1, ViewPosts
    <3> QED BY <2>6, <3>1, <3>2, <3>3
  <2>10. UpToDate(new, cut, r, s)
    <3>1. UpToDate(b, cut, r, s)
      BY <2>2, <2>3, ViewKept
    <3> QED BY <2>2, <2>9, <3>1
  <2>11. ASSUME NEW t \in Node \ {s, r}
         PROVE  /\ UpToDate(cut, node[t], s, t) /\ UpToDate(node[t], cut, t, s)
                /\ UpToDate(new, node[t], r, t) /\ UpToDate(node[t], new, t, r)
    <3>1. /\ UpToDate(a, node[t], s, t) /\ UpToDate(node[t], a, t, s)
          /\ UpToDate(b, node[t], r, t) /\ UpToDate(node[t], b, t, r)
      BY <1>3 DEF Views
    <3>2. UpToDate(cut, node[t], s, t)
      BY <2>2, <3>1, ViewSame
    <3>3. UpToDate(node[t], cut, t, s)
      BY <1>4, <2>2, <2>3, <3>1, ViewKept
    <3>4. UpToDate(new, node[t], r, t)
      BY <2>9, <3>1
    <3>5. UpToDate(node[t], new, t, r)
      <4>1. Told(new, t) = Told(b, t) \/ Told(new, t) = Stranger
        BY <2>7
      <4> HIDE DEF b
      <4> QED BY <1>4, <2>3, <2>4, <3>1, <4>1, ViewKept, ViewForgotten
    <3> QED BY <3>2, <3>3, <3>4, <3>5
  <2>12. ASSUME NEW t \in Node, NEW u \in Node, t # u
         PROVE  UpToDate(node'[t], node'[u], t, u)
    <3> HIDE DEF a, b, q
    <3>1. CASE t = s /\ u = r
      BY <2>2, <2>8, <3>1
    <3>2. CASE t = r /\ u = s
      BY <2>2, <2>10, <3>2
    <3>3. CASE t \notin {s, r} /\ u \notin {s, r}
      BY <1>3, <2>2, <2>12, <3>3 DEF Views
    <3>4. CASE t \in {s, r} /\ u \notin {s, r}
      BY <2>2, <2>11, <3>4
    <3>5. CASE t \notin {s, r} /\ u \in {s, r}
      BY <2>2, <2>11, <3>5
    <3> QED BY <2>12, <3>1, <3>2, <3>3, <3>4, <3>5
  <2> QED BY <2>12 DEF Views
<1> QED BY <1>5, <1>6, <1>7, <1>8, <1>9 DEF Next

\* CaughtUp computes what Leads names.
LEMMA CaughtUpLeads ==
    ASSUME IInv, NEW r \in Node, NEW s \in Node, NEW x,
           Leads(Arriving(s, r),
                 [groups |-> {g \in Group : s \in node[r].peer_groups[g]},
                  status |-> node[r].peer_status[s]], x)
    PROVE  CaughtUp(r, s) = x
<1> DEFINE q == Arriving(s, r)
           v == [groups |-> {g \in Group : s \in node[r].peer_groups[g]},
                 status |-> node[r].peer_status[s]]
           R(f) == f = [k \in 0 .. Len(q) |-> IF k = 0 THEN v ELSE After(f[k - 1], q[k])]
           after == CHOOSE f : R(f)
<1>1. q \in Seq(Message)
  BY BoxType DEF Arriving, To, IInv
<1>2. CaughtUp(r, s) = after[Len(q)]
  BY DEF CaughtUp, After
<1>3. \A f : IsRun(f, q, v) <=> R(f)
  BY DEF IsRun
<1>4. PICK f : IsRun(f, q, v) /\ f[Len(q)] = x
  BY DEF Leads
<1>5. R(after)
  BY <1>3, <1>4
<1> HIDE DEF q, v, after, R
<1>6. Leads(q, v, after[Len(q)])
  BY <1>3, <1>5 DEF Leads
<1>7. Leads(q, v, x)
  BY DEF q, v
<1> QED BY <1>1, <1>2, <1>6, <1>7, LeadsOne

LEMMA VInvImplies == ASSUME OwnRoom, VInv PROVE NoDrop => ViewCatchesUp
<1> SUFFICES ASSUME NoDrop, NEW r \in Node, NEW s \in Node, r # s,
                    r \in node[s].connected,
                    \/ s \in node[r].ready
                    \/ \E i \in DOMAIN Arriving(s, r) : Arriving(s, r)[i].command = "HELLO"
             PROVE  CaughtUp(r, s) = [groups |-> node[s].own_groups,
                                      status |-> node[s].status]
  BY DEF ViewCatchesUp
<1> DEFINE q == Arriving(s, r)
           v == [groups |-> {g \in Group : s \in node[r].peer_groups[g]},
                 status |-> node[r].peer_status[s]]
<1>1. /\ IInv /\ Tidy(r, node[r]) /\ UpToDate(node[s], node[r], s, r)
      /\ q = To(node[s], r) /\ q \in Seq(Message)
  BY BoxType DEF VInv, TidyAll, IInv, Views, Arriving, To
<1>2. Leads(q, Seen(node[r], s), Own(node[s]))
  BY <1>1 DEF UpToDate, Introducing
<1> HIDE DEF q
<1>3. Leads(q, v, Own(node[s]))
  <2>1. CASE s \in node[r].ready
    <3>1. s \in node[r].entered
      BY <1>1, <2>1 DEF Tidy
    <3>2. Seen(node[r], s) = v
      BY <3>1 DEF Seen, Told
    <3> QED BY <1>2, <3>2
  <2>2. CASE s \notin node[r].ready
    <3>1. PICK i \in DOMAIN q : q[i].command = "HELLO"
      BY <2>2 DEF q
    <3> HIDE DEF v
    <3> QED BY <1>1, <1>2, <3>1, LeadsAnew
  <2> QED BY <2>1, <2>2
<1>4. CaughtUp(r, s) = Own(node[s])
  BY <1>1, <1>3, CaughtUpLeads DEF q
<1> QED BY <1>4 DEF Own

\* As long as no connection breaks, what a node knows of the groups and of the
\* status of another, with the HELLO, JOIN and LEAVE that are under way, is what
\* the other has now: zyre_node_join and zyre_node_leave tell every peer, and
\* the HELLO of zyre_node_require_peer says what was said before it.
THEOREM ViewsCatchUp ==
    ASSUME OwnRoom
    PROVE  Spec => [](NoDrop => ViewCatchesUp)
<1>1. Init => VInv
  BY InitViews
<1>2. VInv /\ [Next]_vars => VInv'
  BY NextViews
<1>3. VInv => (NoDrop => ViewCatchesUp)
  BY VInvImplies
<1> QED BY <1>1, <1>2, <1>3, PTL DEF Spec

-----------------------------------------------------------------------------
(***************************************************************************)
(* What reaches a node over an open mailbox is never ignored.              *)
(***************************************************************************)
\* No connection has broken, no peer was given up that answers, no socket was
\* refused, and with gossip nobody has left yet: a node that left is said
\* GOODBYE to but its tuple stays, so it is met again.
Calm ==
    /\ \A k \in {"drop", "suspect", "refuse"} : budget[k] = Budget[k]
    /\ Gossip => budget.halt = Budget.halt

\* Nothing gives back what the budget has lost.
LEMMA BudgetFalls ==
    ASSUME IInv, [Next]_vars
    PROVE  /\ \A k \in BudgetKinds : budget'[k] <= budget[k]
           /\ \A n \in Node : Stop(n) \/ Destroy(n) => budget'.halt < budget.halt
<1> DEFINE Falls == \A k \in BudgetKinds : budget'[k] <= budget[k]
<1>0. budget \in [BudgetKinds -> Nat]
  BY DEF IInv
<1>1. UNCHANGED budget => Falls
  BY <1>0
<1>2. ASSUME NEW kind \in BudgetKinds, Spend(kind, 1) PROVE Falls /\ budget'[kind] < budget[kind]
  <2>1. \A k \in BudgetKinds : budget'[k] = IF k = kind THEN budget[k] - 1 ELSE budget[k]
    BY <1>0, <1>2 DEF Spend
  <2> QED BY <1>0, <2>1
<1>3. ASSUME NEW connects \in BOOLEAN, Connect(connects) PROVE Falls
  BY <1>1, <1>2, <1>3 DEF Connect, BudgetKinds
<1> HIDE DEF Falls
<1>4. ASSUME NEW n \in Node, Api(n) PROVE Falls
  <2>1. ASSUME NEW m \in Node, RequirePeerCommand(n, m) PROVE Falls
    <3>1. PICK connects \in BOOLEAN :
             budget' = [budget EXCEPT !.require = @ - 1,
                                      !.refuse = IF connects THEN @ ELSE @ - 1]
      BY <2>1 DEF RequirePeerCommand
    <3>2. ASSUME NEW k \in BudgetKinds PROVE budget'[k] = budget[k] \/ budget'[k] = budget[k] - 1
      BY <1>0, <3>1 DEF BudgetKinds
    <3> QED BY <1>0, <3>2 DEF Falls
  <2>2. Start(n) => Falls
    BY <1>1 DEF Start
  <2>3. Stop(n) \/ Destroy(n) => Falls
    BY <1>2 DEF Stop, Destroy, BudgetKinds
  <2>4. ASSUME NEW g \in Group, Join(n, g) \/ Leave(n, g) \/ Shout(n, g) PROVE Falls
    BY <1>2, <2>4 DEF Join, Leave, Shout, BudgetKinds
  <2>5. ASSUME NEW m \in Node, Whisper(n, m) PROVE Falls
    BY <1>2, <2>5 DEF Whisper, BudgetKinds
  <2> QED BY <1>4, <2>1, <2>2, <2>3, <2>4, <2>5 DEF Api
<1>5. ASSUME NEW n \in Node, Discover(n) PROVE Falls
  BY <1>3, <1>5 DEF Discover, RecvBeacon, RecvGossip, RecvLateBeacon
<1>6. ASSUME NEW n \in Node, Reaper(n) PROVE Falls
  <2>1. PICK expired \in SUBSET node[n].peers, evasive \in SUBSET node[n].peers :
          Reap(n, expired, evasive)
    BY <1>6 DEF Reaper
  <2> DEFINE wronged == Cardinality({m \in expired : ~Silent(n, m)})
             pinged == Cardinality(evasive)
  <2>2. budget' = [budget EXCEPT !.suspect = @ - wronged, !.ping = @ - pinged]
    BY <2>1 DEF Reap
  <2>3. wronged \in Nat /\ pinged \in Nat
    <3>1. node[n].peers \subseteq Node
      BY DEF IInv, NodeState
    <3>2. IsFiniteSet({m \in expired : ~Silent(n, m)}) /\ IsFiniteSet(evasive)
      BY <3>1, NodeAssumption, FS_Subset
    <3> QED BY <3>2, FS_CardinalityType
  <2> HIDE DEF wronged, pinged
  <2>4. ASSUME NEW k \in BudgetKinds PROVE budget'[k] <= budget[k]
    <3>1. \/ budget'[k] = budget[k]
          \/ budget'[k] = budget[k] - wronged
          \/ budget'[k] = budget[k] - pinged
      BY <1>0, <2>2 DEF BudgetKinds
    <3>2. budget[k] \in Nat
      BY <1>0
    <3> QED BY <2>3, <3>1, <3>2
  <2> QED BY <2>4 DEF Falls
<1>7. ASSUME NEW s \in Node, NEW r \in Node, RecvPeer(s, r) PROVE Falls
  <2>1. RecvHello(s, r) => Falls
    BY <1>3 DEF RecvHello
  <2>2. RecvIgnored(s, r) \/ RecvLost(s, r) \/ RecvData(s, r) \/ RecvPing(s, r) => Falls
    BY <1>1 DEF RecvIgnored, RecvLost, RecvData, RecvPing, Handle
  <2>3. RecvJoin(s, r) \/ RecvLeave(s, r) \/ RecvGoodbye(s, r) => Falls
    BY <1>1 DEF RecvJoin, RecvLeave, RecvGoodbye, Handle
  <2> QED BY <1>7, <2>1, <2>2, <2>3 DEF RecvPeer
<1>8. ASSUME NEW s \in Node, Network(s) PROVE Falls
  BY <1>1, <1>2, <1>8 DEF Network, Discard, Drop, BudgetKinds
<1>9. Falls
  BY <1>1, <1>4, <1>5, <1>6, <1>7, <1>8 DEF Next, vars
<1>10. \A n \in Node : Stop(n) \/ Destroy(n) => budget'.halt < budget.halt
  BY <1>2 DEF Stop, Destroy, BudgetKinds
<1> QED BY <1>9, <1>10 DEF Falls

\* Every message of the queue is one of C.
Among(q, C) == \A i \in DOMAIN q : q[i] \in C

LEMMA AmongAppend ==
    ASSUME NEW q \in Seq(Message), NEW m \in Message, NEW C, Among(q, C), m \in C
    PROVE  Among(Append(q, m), C)
<1> DEFINE p == Append(q, m)
<1>1. /\ Len(q) \in Nat
      /\ DOMAIN q = 1 .. Len(q) /\ DOMAIN p = 1 .. Len(q) + 1
      /\ p[Len(q) + 1] = m
      /\ \A i \in DOMAIN q : p[i] = q[i]
  BY AppendIndex
<1> HIDE DEF p
<1>2. ASSUME NEW i \in DOMAIN p PROVE p[i] \in C
  <2>1. CASE i = Len(q) + 1
    BY <1>1, <2>1
  <2>2. CASE i # Len(q) + 1
    <3>1. i \in DOMAIN q
      BY <1>1, <2>2
    <3> QED BY <1>1, <3>1 DEF Among
  <2> QED BY <2>1, <2>2
<1>3. Among(p, C)
  BY <1>2 DEF Among
<1> QED BY <1>3 DEF p

LEMMA AmongTail ==
    ASSUME NEW q \in Seq(Message), q # <<>>, NEW C, Among(q, C)
    PROVE  Among(Tail(q), C)
BY DEF Among

LEMMA AmongWithout ==
    ASSUME NEW q \in Seq(Message), NEW i \in DOMAIN q, NEW C, Among(q, C)
    PROVE  Among(Without(q, i), C)
<1> DEFINE p == Without(q, i)
<1>1. /\ Len(q) \in Nat /\ i \in 1 .. Len(q)
      /\ DOMAIN q = 1 .. Len(q) /\ DOMAIN p = 1 .. Len(q) - 1
      /\ \A j \in 1 .. i - 1 : p[j] = q[j]
      /\ \A j \in i .. Len(q) - 1 : p[j] = q[j + 1]
  BY WithoutIndex
<1> HIDE DEF p
<1>2. ASSUME NEW k \in DOMAIN p PROVE \E j \in DOMAIN q : p[k] = q[j]
  <2>1. CASE k \in 1 .. i - 1
    BY <1>1, <2>1
  <2>2. CASE k \in i .. Len(q) - 1
    <3>1. k + 1 \in DOMAIN q
      BY <1>1, <2>2
    <3>2. p[k] = q[k + 1]
      BY <1>1, <2>2
    <3> QED BY <3>1, <3>2
  <2> QED BY <1>1, <2>1, <2>2
<1>3. Among(p, C)
  BY <1>2 DEF Among
<1> QED BY <1>3 DEF p

\* No message says GOODBYE.
Plain == {m \in Message : m.command # "GOODBYE"}

\* The node was never stopped.
Young(self) == self.life \in {"created", "running"}

\* Who has not heard the HELLO of s finds it first in the queue from s, and if
\* the mailbox is open there is one to find.
Greets(a, b, s, r) ==
    (Young(a) /\ Young(b) /\ s \notin b.ready)
        => /\ To(a, r) # <<>> => To(a, r)[1].command = "HELLO"
           /\ r \in a.connected => To(a, r) # <<>>

\* Before START nobody is known and nothing was sent.
Fresh(self) ==
    self.life = "created" => self.peers = {} /\ \A t \in Node : To(self, t) = <<>>

Hail ==
    /\ \A s, r \in Node : s # r => Greets(node[s], node[r], s, r)
    /\ \A n \in Node : Fresh(node[n])
    /\ \A b \in air : ~Gossip /\ ~Young(node[b.from])
    /\ Gossip => \A n \in Node : Young(node[n])
    /\ Gossip => \A s, t \in Node : Among(To(node[s], t), Plain)

\* The inductive invariant.
GInv ==
    /\ TidyAll /\ LInv
    /\ \A k \in BudgetKinds : budget[k] <= Budget[k]
    /\ Calm => Hail

LEMMA FirstAppended ==
    ASSUME NEW q \in Seq(Message), NEW m \in Message
    PROVE  /\ Append(q, m) # <<>>
           /\ q = <<>> => Append(q, m)[1] = m
           /\ q # <<>> => Append(q, m)[1] = q[1]
OBVIOUS

\* The sender handles something.
LEMMA GreetPosts ==
    ASSUME NEW s \in Node, NEW r \in Node, NEW a \in NodeState, NEW b, NEW new,
           NEW S, NEW c, Posts(a, new, r, S, c), Young(new) => Young(a),
           Greets(a, b, s, r)
    PROVE  Greets(new, b, s, r)
<1> DEFINE q == To(a, r)
<1>0. q \in Seq(Message)
  BY BoxType
<1> SUFFICES ASSUME Young(new), Young(b), s \notin b.ready
             PROVE  /\ To(new, r) # <<>> => To(new, r)[1].command = "HELLO"
                    /\ r \in new.connected => To(new, r) # <<>>
  BY DEF Greets
<1>1. /\ q # <<>> => q[1].command = "HELLO"
      /\ r \in a.connected => q # <<>>
  BY DEF Greets
<1> HIDE DEF q
<1>2. CASE To(new, r) = q /\ (r \in new.connected <=> r \in a.connected \ S)
  BY <1>1, <1>2
<1>3. ASSUME NEW m \in Message, To(new, r) = Append(q, m),
             m.command = "HELLO" \/ r \in a.connected
      PROVE  To(new, r) # <<>> /\ To(new, r)[1].command = "HELLO"
  BY <1>0, <1>1, <1>3, FirstAppended
<1> QED BY <1>2, <1>3 DEF Posts, q

LEMMA GreetChanges ==
    ASSUME NEW s \in Node, NEW r \in Node, NEW a \in NodeState, NEW b, NEW new,
           Changes(s, a, new), Greets(a, b, s, r)
    PROVE  Greets(new, b, s, r)
<1> DEFINE q == To(a, r)
<1>0. q \in Seq(Message) /\ new.connected = a.connected /\ new.life = a.life
  BY BoxType DEF Changes
<1>1. \/ To(new, r) = q
      \/ r \in a.connected /\ \E m \in Message : To(new, r) = Append(q, m)
  BY DEF Changes
<1> SUFFICES ASSUME Young(new), Young(b), s \notin b.ready
             PROVE  /\ To(new, r) # <<>> => To(new, r)[1].command = "HELLO"
                    /\ r \in new.connected => To(new, r) # <<>>
  BY DEF Greets
<1>2. /\ q # <<>> => q[1].command = "HELLO"
      /\ r \in a.connected => q # <<>>
  BY <1>0 DEF Greets, Young
<1> HIDE DEF q
<1>3. CASE To(new, r) = q
  BY <1>0, <1>2, <1>3
<1>4. ASSUME NEW m \in Message, r \in a.connected, To(new, r) = Append(q, m)
      PROVE  To(new, r) # <<>> /\ To(new, r)[1].command = "HELLO"
  BY <1>0, <1>2, <1>4, FirstAppended
<1> QED BY <1>1, <1>3, <1>4

\* The receiver handles something and still knows whom it knew.
LEMMA GreetKept ==
    ASSUME NEW s \in Node, NEW r \in Node, NEW a, NEW b, NEW new,
           Tidy(r, b), Tidy(r, new), Told(new, s) = Told(b, s),
           Young(new) => Young(b), Greets(a, b, s, r)
    PROVE  Greets(a, new, s, r)
<1>1. s \notin new.ready => s \notin b.ready
  BY ToldReady
<1> QED BY <1>1 DEF Greets

\* The queue and the mailbox of the sender are what they were.
LEMMA GreetSame ==
    ASSUME NEW s, NEW r, NEW a, NEW b, NEW new, new.connected = a.connected,
           To(new, r) = To(a, r), new.life = a.life, Greets(a, b, s, r)
    PROVE  Greets(new, b, s, r)
BY DEF Greets, Young

\* The network discards a message.
LEMMA GreetDiscarded ==
    ASSUME NEW s \in Node, NEW r \in Node, NEW a \in NodeState, NEW b, NEW new,
           NEW i \in DOMAIN To(a, r), To(new, r) = Without(To(a, r), i),
           new.connected = a.connected, new.life = a.life,
           \/ i < Len(To(a, r)) /\ To(a, r)[i + 1].command = "HELLO"
           \/ i = Len(To(a, r)) /\ r \notin a.connected
           \/ ~Young(b),
           Greets(a, b, s, r)
    PROVE  Greets(new, b, s, r)
<1> DEFINE q == To(a, r)
           p == Without(q, i)
<1>0. q \in Seq(Message)
  BY BoxType
<1> SUFFICES ASSUME Young(a), Young(b), s \notin b.ready
             PROVE  /\ p # <<>> => p[1].command = "HELLO"
                    /\ r \in a.connected => p # <<>>
  BY DEF Greets, Young
<1>1. /\ q # <<>> => q[1].command = "HELLO"
      /\ \/ i < Len(q) /\ q[i + 1].command = "HELLO"
         \/ i = Len(q) /\ r \notin a.connected
  <2>1. q # <<>> => q[1].command = "HELLO"
    BY DEF Greets
  <2> QED BY <2>1
<1>2. /\ Len(q) \in Nat /\ i \in 1 .. Len(q)
      /\ DOMAIN q = 1 .. Len(q) /\ DOMAIN p = 1 .. Len(q) - 1
      /\ \A j \in 1 .. i - 1 : p[j] = q[j]
      /\ \A j \in i .. Len(q) - 1 : p[j] = q[j + 1]
  BY <1>0, WithoutIndex
<1>3. p \in Seq(Message)
  BY <1>0, WithoutType
<1> HIDE DEF p
<1>4. p # <<>> <=> Len(q) > 1
  BY <1>2, <1>3
<1>5. q[1].command = "HELLO"
  BY <1>0, <1>1, <1>2
<1> HIDE DEF q
<1>6. CASE i = 1
  BY <1>1, <1>2, <1>4, <1>6
<1>7. CASE i # 1
  <2>1. 1 \in 1 .. i - 1 /\ Len(q) > 1
    BY <1>2, <1>7
  <2> QED BY <1>2, <1>4, <1>5, <2>1
<1> QED BY <1>6, <1>7

LEMMA AmongPosts ==
    ASSUME NEW old \in NodeState, NEW new, NEW t \in Node, NEW S, NEW c,
           c # "GOODBYE", Posts(old, new, t, S, c), Among(To(old, t), Plain)
    PROVE  Among(To(new, t), Plain)
<1> DEFINE q == To(old, t)
<1>1. q \in Seq(Message)
  BY BoxType
<1>2. CASE To(new, t) = q
  BY <1>2
<1>3. ASSUME NEW m \in Message, To(new, t) = Append(q, m), m.command # "GOODBYE"
      PROVE  Among(To(new, t), Plain)
  <2>1. m \in Plain
    BY <1>3 DEF Plain
  <2> HIDE DEF q
  <2> QED BY <1>1, <1>3, <2>1, AmongAppend DEF q
<1> QED BY <1>2, <1>3 DEF Posts

LEMMA AmongChanges ==
    ASSUME NEW s, NEW old \in NodeState, NEW new, NEW t \in Node,
           Changes(s, old, new), Among(To(old, t), Plain)
    PROVE  Among(To(new, t), Plain)
<1> DEFINE q == To(old, t)
<1>1. q \in Seq(Message)
  BY BoxType
<1>2. CASE To(new, t) = q
  BY <1>2
<1>3. ASSUME NEW m \in Message, To(new, t) = Append(q, m), m.command # "GOODBYE"
      PROVE  Among(To(new, t), Plain)
  <2>1. m \in Plain
    BY <1>3 DEF Plain
  <2> HIDE DEF q
  <2> QED BY <1>1, <1>3, <2>1, AmongAppend DEF q
<1> QED BY <1>2, <1>3 DEF Changes

\* One node's record has changed.
LEMMA HailBecomes ==
    ASSUME TidyAll, Hail, NEW n \in Node, NEW new, Become(n, new),
           \A t \in Node \ {n} : /\ Greets(new, node[t], n, t)
                                 /\ Greets(node[t], new, t, n),
           Fresh(new), air' \subseteq Beacon,
           \A b \in air' : \/ b \in air /\ (Young(new) => Young(node[n]))
                           \/ b.from = n /\ ~Gossip /\ ~Young(new),
           Gossip => Young(new) /\ \A t \in Node : Among(To(new, t), Plain)
    PROVE  Hail'
<1>1. \A m \in Node : node'[m] = IF m = n THEN new ELSE node[m]
  BY DEF Become, TidyAll, IInv
<1>2. ASSUME NEW s \in Node, NEW r \in Node, s # r
      PROVE  Greets(node'[s], node'[r], s, r)
  <2>1. CASE s = n
    BY <1>1, <1>2, <2>1
  <2>2. CASE r = n
    BY <1>1, <1>2, <2>2
  <2>3. CASE s # n /\ r # n
    BY <1>1, <1>2, <2>3 DEF Hail
  <2> QED BY <2>1, <2>2, <2>3
<1>3. \A m \in Node : Fresh(node'[m])
  BY <1>1 DEF Hail
<1>4. ASSUME NEW b \in air' PROVE ~Gossip /\ ~Young(node'[b.from])
  <2>1. b.from \in Node
    BY DEF Beacon
  <2>2. b \in air => ~Gossip /\ ~Young(node[b.from])
    BY DEF Hail
  <2> QED BY <1>1, <2>1, <2>2
<1>5. Gossip => \A m \in Node : Young(node'[m])
  BY <1>1 DEF Hail
<1>6. Gossip => \A m, t \in Node : Among(To(node'[m], t), Plain)
  BY <1>1 DEF Hail
<1> QED BY <1>2, <1>3, <1>4, <1>5, <1>6 DEF Hail

LEMMA QuietHail ==
    ASSUME TidyAll, Hail, NEW n \in Node, NEW t \in Node, t # n, NEW new, NEW S, NEW c,
           Quiet(n, node[n], new, S, c), Young(new) => Young(node[n])
    PROVE  /\ Greets(new, node[t], n, t)
           /\ t \notin S => Greets(node[t], new, t, n)
<1>1. /\ node[n] \in NodeState /\ Tidy(n, node[n]) /\ Tidy(n, new)
      /\ Posts(node[n], new, t, S, c)
      /\ t \notin S => Told(new, t) = Told(node[n], t)
      /\ Greets(node[n], node[t], n, t) /\ Greets(node[t], node[n], t, n)
  BY DEF TidyAll, IInv, Hail, Quiet
<1>2. Greets(new, node[t], n, t)
  BY <1>1, GreetPosts
<1>3. t \notin S => Greets(node[t], new, t, n)
  BY <1>1, GreetKept
<1> QED BY <1>2, <1>3

LEMMA StillHail ==
    ASSUME TidyAll, Hail, NEW n \in Node, NEW t \in Node, t # n, NEW new, NEW c,
           Quiet(n, node[n], new, {}, c), Young(new) => Young(node[n])
    PROVE  Greets(new, node[t], n, t) /\ Greets(node[t], new, t, n)
<1> DEFINE S == {}
<1>1. Quiet(n, node[n], new, S, c) /\ t \notin S
  OBVIOUS
<1> HIDE DEF S
<1> QED BY <1>1, QuietHail

LEMMA QuietPlain ==
    ASSUME TidyAll, Hail, Gossip, NEW n \in Node, NEW t \in Node, NEW new, NEW S, NEW c,
           Quiet(n, node[n], new, S, c), c # "GOODBYE"
    PROVE  Among(To(new, t), Plain)
<1>1. /\ node[n] \in NodeState /\ Posts(node[n], new, t, S, c)
      /\ Among(To(node[n], t), Plain)
  BY DEF TidyAll, IInv, Hail, Quiet
<1> QED BY <1>1, AmongPosts

\* A node that ended greets nobody and is not greeted.
LEMMA OldHail ==
    ASSUME NEW new, ~Young(new), NEW t, NEW n, NEW other
    PROVE  Greets(new, other, n, t) /\ Greets(other, new, t, n) /\ Fresh(new)
BY DEF Greets, Fresh, Young

LEMMA ApiHail ==
    ASSUME OwnRoom, TidyAll, TidyAll', Hail, NEW n \in Node, Api(n),
           Gossip => ~(Stop(n) \/ Destroy(n))
    PROVE  Hail'
<1>1. PICK new : Become(n, new) /\ ApiShape(n, new)
  BY ApiShaped
<1>2. /\ node[n] \in NodeState /\ Tidy(n, node[n]) /\ node \in [Node -> NodeState]
      /\ Fresh(node[n]) /\ air' \subseteq Beacon
      /\ \A t \in Node \ {n} : /\ Greets(node[n], node[t], n, t)
                               /\ Greets(node[t], node[n], t, n)
      /\ Gossip => Young(node[n])
      /\ Gossip => \A t \in Node : Among(To(node[n], t), Plain)
  BY DEF TidyAll, IInv, Hail
<1>3. CASE (\E g \in Group : Join(n, g) \/ Leave(n, g)) /\ Changes(n, node[n], new)
  <2>1. Tidy(n, new) /\ new.life = node[n].life /\ new.connected = node[n].connected
        /\ \A t \in Node : Told(new, t) = Told(node[n], t)
    BY <1>3 DEF Changes
  <2>2. \A t \in Node \ {n} : Greets(new, node[t], n, t)
    BY <1>2, <1>3, GreetChanges
  <2>3. \A t \in Node \ {n} : Greets(node[t], new, t, n)
    BY <1>2, <2>1, GreetKept DEF Young
  <2>4. Fresh(new)
    <3>1. \A t \in Node : t \notin node[n].connected => To(new, t) = To(node[n], t)
      BY <1>3 DEF Changes
    <3> QED BY <1>2, <2>1, <3>1 DEF Fresh, Tidy
  <2>5. Gossip => \A t \in Node : Among(To(new, t), Plain)
    BY <1>2, <1>3, AmongChanges
  <2>6. air' = air
    BY <1>3 DEF Join, Leave
  <2> QED BY <1>1, <1>2, <2>1, <2>2, <2>3, <2>4, <2>5, <2>6, HailBecomes DEF Young
<1>4. CASE Destroy(n) /\ Ends(n, node[n], new)
  <2>1. ~Young(new) /\ ~Gossip
    BY <1>4 DEF Ends, Young
  <2>2. \A b \in air' : b \in air \/ b.from = n
    BY <1>4 DEF Destroy, Trail
  <2> QED BY <1>1, <1>2, <2>1, <2>2, HailBecomes, OldHail
<1>5. CASE Stop(n) /\ new.life = "stopped"
  <2>1. ~Young(new) /\ ~Gossip
    BY <1>5 DEF Young
  <2>2. \A b \in air' : b \in air \/ b.from = n
    BY <1>5 DEF Stop, Trail
  <2> QED BY <1>1, <1>2, <2>1, <2>2, HailBecomes, OldHail
<1>6. CASE Start(n) /\ Quiet(n, node[n], new, {}, "PING") /\ new.life = "running"
  <2>1. Young(node[n]) /\ Young(new) /\ Fresh(new) /\ air' = air
    BY <1>2, <1>6 DEF Start, Young, Fresh
  <2>2. /\ \A t \in Node \ {n} : Greets(new, node[t], n, t) /\ Greets(node[t], new, t, n)
        /\ Gossip => \A t \in Node : Among(To(new, t), Plain)
    BY <1>6, <2>1, StillHail, QuietPlain
  <2> QED BY <1>1, <1>2, <2>1, <2>2, HailBecomes
<1>7. ASSUME NEW c \in {"SHOUT", "WHISPER", "PING"}, air' = air, new.life = node[n].life,
             Bound(n) \/ node[n].peers # {}, Quiet(n, node[n], new, {}, c)
      PROVE  Hail'
  <2>1. (Young(new) <=> Young(node[n])) /\ Fresh(new)
    BY <1>2, <1>7 DEF Young, Fresh, Bound
  <2>2. /\ \A t \in Node \ {n} : Greets(new, node[t], n, t) /\ Greets(node[t], new, t, n)
        /\ Gossip => \A t \in Node : Among(To(new, t), Plain)
    BY <1>7, <2>1, StillHail, QuietPlain
  <2> QED BY <1>1, <1>2, <1>7, <2>1, <2>2, HailBecomes
<1> QED BY <1>1, <1>3, <1>4, <1>5, <1>6, <1>7 DEF ApiShape

LEMMA DiscoverHail ==
    ASSUME OwnRoom, TidyAll, TidyAll', Hail, NEW n \in Node, Discover(n) \/ Reaper(n),
           ~(budget'.suspect < budget.suspect)
    PROVE  Hail'
<1>1. PICK new : Become(n, new) /\ DiscoverShape(n, new)
  BY DiscoverShaped, ReaperShaped
<1>2. PICK S \in SUBSET Node : /\ Quiet(n, node[n], new, S, "PING")
                               /\ \A s \in S : MayForget(n, s)
  BY <1>1 DEF DiscoverShape
<1>3. /\ new.life = node[n].life /\ air' \subseteq air /\ Bound(n) /\ air \subseteq Beacon
      /\ Gossip => Young(node[n])
  BY <1>1 DEF DiscoverShape, TidyAll, IInv, Hail
<1>4. (Young(new) <=> Young(node[n])) /\ Fresh(new)
  BY <1>3 DEF Young, Fresh, Bound
<1>5. /\ \A t \in Node \ {n} : Greets(new, node[t], n, t)
      /\ \A t \in Node \ {n} : t \notin S => Greets(node[t], new, t, n)
      /\ Gossip => \A t \in Node : Among(To(new, t), Plain)
  BY <1>2, <1>4, QuietHail, QuietPlain
<1>6. ASSUME NEW t \in S, t # n PROVE Greets(node[t], new, t, n)
  <2>1. /\ Tidy(n, node[n]) /\ Tidy(t, node[t]) /\ Fresh(node[t])
        /\ Greets(node[n], node[t], n, t) /\ Greets(node[t], node[n], t, n)
    BY <1>6 DEF TidyAll, Hail
  <2> SUFFICES ASSUME Young(node[t]), Young(node[n])
               PROVE  To(node[t], n) = <<>> /\ n \notin node[t].connected
    BY <1>4 DEF Greets
  <2>2. t \in node[n].connected /\ Silent(n, t)
    BY <1>2, <1>6, <2>1 DEF MayForget, Hail, Tidy
  <2>3. node[n].life = "running"
    BY <1>3 DEF Young, Bound
  <2>4. CASE node[t].life = "created"
    BY <2>1, <2>4 DEF Fresh, Tidy
  <2>5. CASE node[t].life = "running"
    <3>1. /\ To(node[t], n) = <<>>
          /\ To(node[n], t) = <<>>
          /\ \/ n \notin node[t].connected \cap node[t].ready
             \/ t \notin node[n].connected \cap node[n].ready
      BY <2>2, <2>3, <2>5 DEF Silent, Arriving, To
    <3>2. n \in node[t].ready
      BY <2>1, <2>2, <3>1 DEF Greets
    <3> QED BY <2>1, <2>2, <3>1, <3>2 DEF Greets
  <2> QED BY <2>4, <2>5 DEF Young
<1> QED BY <1>1, <1>2, <1>3, <1>4, <1>5, <1>6, HailBecomes

LEMMA NetHail ==
    ASSUME OwnRoom, TidyAll, TidyAll', Hail, NEW n \in Node, Network(n),
           ~(budget'.drop < budget.drop)
    PROVE  Hail'
<1>1. PICK new : Become(n, new) /\ NetShape(n, new)
  BY NetShaped
<1>2. /\ node[n] \in NodeState /\ Tidy(n, node[n]) /\ node \in [Node -> NodeState]
      /\ Fresh(node[n]) /\ air' = air /\ air \subseteq Beacon
      /\ \A t \in Node \ {n} : /\ Greets(node[n], node[t], n, t)
                               /\ Greets(node[t], node[n], t, n)
      /\ Gossip => Young(node[n])
      /\ Gossip => \A t \in Node : Among(To(node[n], t), Plain)
  BY <1>1 DEF TidyAll, IInv, Hail, NetShape
<1>3. new.life = node[n].life /\ (Young(new) <=> Young(node[n]))
  BY <1>1 DEF NetShape, Young
<1>4. CASE /\ Quiet(n, node[n], new, {}, "PING")
           /\ new.peers = node[n].peers
           /\ \A t \in Node : To(new, t) = To(node[n], t)
  <2>1. Fresh(new)
    BY <1>2, <1>3, <1>4 DEF Fresh
  <2>2. /\ \A t \in Node \ {n} : Greets(new, node[t], n, t) /\ Greets(node[t], new, t, n)
        /\ Gossip => \A t \in Node : Among(To(new, t), Plain)
    BY <1>3, <1>4, StillHail, QuietPlain
  <2> QED BY <1>1, <1>2, <1>3, <2>1, <2>2, HailBecomes
<1>5. ASSUME NEW t \in Node \ {n}, NEW i \in DOMAIN To(node[n], t),
             Trims(n, node[n], new, t, Without(To(node[n], t), i)),
             Stale(n, EndpointOf[t], i)
      PROVE  Hail'
  <2>1. /\ Tidy(n, new) /\ new.connected = node[n].connected
        /\ \A u \in Node : Told(new, u) = Told(node[n], u)
        /\ To(new, t) = Without(To(node[n], t), i)
        /\ \A u \in Node \ {t} : To(new, u) = To(node[n], u)
    BY <1>5 DEF Trims
  <2>2. \/ i < Len(To(node[n], t)) /\ To(node[n], t)[i + 1].command = "HELLO"
        \/ i = Len(To(node[n], t)) /\ t \notin node[n].connected
        \/ ~Young(node[t])
    BY <1>5 DEF Stale, At, To, Young, OwnRoom
  <2>3. Greets(new, node[t], n, t)
    BY <1>2, <1>3, <1>5, <2>1, <2>2, GreetDiscarded
  <2>4. \A u \in Node \ {n} : Greets(new, node[u], n, u)
    BY <1>2, <1>3, <2>1, <2>3, GreetSame
  <2>5. \A u \in Node \ {n} : Greets(node[u], new, u, n)
    BY <1>2, <1>3, <2>1, GreetKept
  <2>6. Fresh(new)
    <3>1. node[n].life # "created"
      <4>1. To(node[n], t) # <<>>
        BY <1>5
      <4> QED BY <1>2, <4>1 DEF Fresh
    <3> QED BY <1>3, <3>1 DEF Fresh
  <2>7. Gossip => \A u \in Node : Among(To(new, u), Plain)
    <3>1. To(node[n], t) \in Seq(Message)
      BY <1>2, BoxType
    <3>2. Gossip => Among(To(new, t), Plain)
      BY <1>2, <1>5, <2>1, <3>1, AmongWithout
    <3> QED BY <1>2, <2>1, <3>2
  <2> QED BY <1>1, <1>2, <1>3, <2>4, <2>5, <2>6, <2>7, HailBecomes
<1> QED BY <1>1, <1>4, <1>5 DEF NetShape

\* r does not abort, forget s for a message or ignore one, unless it says GOODBYE.
LEMMA HeardHail ==
    ASSUME OwnRoom, TidyAll, LInv, NoDrop, Hail, NEW s \in Node, NEW r \in Node, NEW new,
           Reads(s, r, new), ~(budget'.refuse < budget.refuse), Young(node[s])
    PROVE  s \in new.ready /\ new.life = "running"
<1> DEFINE a == node[s]
           b == node[r]
           q == To(a, r)
           m == q[1]
<1>1. /\ s # r /\ b.life = "running" /\ q \in Seq(Message) /\ q # <<>>
      /\ RecvShape(s, r, new, m) /\ (Tidy(r, new) \/ new = b)
      /\ Greets(a, b, s, r)
  BY DEF Reads, RecvShape, Quiet, Learns, Ends, TidyAll, Hail
<1>2. Tidy(r, b)
  BY DEF TidyAll
<1>3. m.command # "HELLO" => s \in b.ready
  BY <1>1 DEF Greets, Young
<1>4. ~(m.command # "HELLO" /\ s \notin b.ready)
  BY <1>3
<1>5. Stream(q) /\ 1 \in DOMAIN q
  BY <1>1, EndpointAssumption DEF LInv, Good, Links, Mail, To
<1>6. m.command = "HELLO" => m.sequence = 1
  BY <1>5 DEF Stream
<1>7. (s \in b.ready /\ m.command \in {"JOIN", "LEAVE"})
         => m.status = NextStatus(b.peer_status[s])
  <2> SUFFICES ASSUME s \in b.ready, m.command \in {"JOIN", "LEAVE"}
               PROVE  m.status = NextStatus(b.peer_status[s])
    OBVIOUS
  <2>1. Begins(q, b.want_sequence[s], b.peer_status[s])
    BY DEF LInv, Good, Links, Linked, Cont, To
  <2>2. Silence(q, 0, 1)
    BY <1>1 DEF Silence
  <2> HIDE DEF q, b
  <2> QED BY <1>5, <2>1, <2>2 DEF Begins
<1>8. ~RecvLost(s, r)
  <2>1. NothingLost
    BY LInvImplies
  <2> QED BY <2>1 DEF NothingLost, NoDrop, RecvLost, Receive
<1>9. ~(m.command = "GOODBYE" /\ Gossip)
  <2>1. Gossip => Among(q, Plain)
    BY DEF Hail
  <2> QED BY <1>5, <2>1 DEF Among, Plain
<1>10. Told(new, s).known /\ new.life = b.life
  <2>1. ASSUME s \in b.ready, Quiet(r, b, new, {}, "PING_OK") PROVE Told(new, s).known
    <3>1. Told(new, s) = Told(b, s)
      BY <2>1 DEF Quiet
    <3> QED BY <1>2, <2>1, <3>1, ToldReady
  <2>2. ASSUME NEW S, Learns(r, b, new, s, Introduced(m), S, "PING_OK")
        PROVE  Told(new, s).known
    BY <2>2 DEF Learns, Introduced
  <2>3. ASSUME Learns(r, b, new, s, Followed(Told(b, s), m), {}, "PING_OK")
        PROVE  Told(new, s).known
    BY <2>3 DEF Learns, Followed
  <2> HIDE DEF q, b
  <2>4. RecvShape(s, r, new, m)
    BY <1>1
  <2> QED BY <1>4, <1>6, <1>7, <1>8, <1>9, <2>1, <2>2, <2>3, <2>4 DEF RecvShape, b
<1>11. Tidy(r, new)
  BY <1>1, <1>2
<1> QED BY <1>1, <1>10, <1>11, ToldReady

LEMMA ReadHail ==
    ASSUME OwnRoom, TidyAll, TidyAll', LInv, NoDrop, Hail,
           NEW s \in Node, NEW r \in Node, RecvPeer(s, r),
           ~(budget'.refuse < budget.refuse)
    PROVE  Hail'
<1>1. PICK new : Reads(s, r, new)
  BY ReadShaped
<1> DEFINE a == node[s]
           b == node[r]
           cut == node'[s]
           q == To(a, r)
<1>2. /\ s # r /\ q \in Seq(Message) /\ q # <<>> /\ b.life = "running" /\ air' = air
      /\ node'[r] = new /\ \A t \in Node \ {s, r} : node'[t] = node[t]
      /\ RecvShape(s, r, new, q[1])
      /\ Tidy(s, cut) /\ cut.connected = a.connected /\ cut.life = a.life
      /\ \A u \in Node : Told(cut, u) = Told(a, u)
      /\ To(cut, r) = Tail(q) /\ \A u \in Node \ {r} : To(cut, u) = To(a, u)
  BY <1>1 DEF Reads, Trims
<1>3. /\ a \in NodeState /\ b \in NodeState /\ Tidy(s, a) /\ Tidy(r, b) /\ Tidy(r, new)
      /\ \A t, u \in Node : t # u => Greets(node[t], node[u], t, u)
      /\ air \subseteq Beacon
  BY <1>2 DEF TidyAll, IInv, Hail
<1>4. Young(a) => s \in new.ready /\ new.life = "running"
  BY <1>1, HeardHail
<1>5. /\ new.life \in {"running", "dead", "aborted"}
      /\ \/ ~Young(new) \/ new = b
         \/ \E S : \A t \in Node : Posts(b, new, t, S, "PING_OK")
      /\ ~Young(new) \/ \A t \in Node \ {s} : Told(new, t) = Told(b, t)
  BY <1>2 DEF RecvShape, Quiet, Learns, Ends, Young
<1>6. Greets(cut, new, s, r)
  BY <1>2, <1>4 DEF Greets, Young
<1>7. \A t \in Node \ {r} : Greets(new, node[t], r, t)
  <2>1. ASSUME NEW t \in Node \ {r}, NEW S, \A u \in Node : Posts(b, new, u, S, "PING_OK")
        PROVE  Greets(new, node[t], r, t)
    <3>1. Young(b) /\ Greets(b, node[t], r, t)
      BY <1>2, <1>3 DEF Young
    <3>2. Posts(b, new, t, S, "PING_OK")
      BY <2>1
    <3> HIDE DEF b
    <3> QED BY <1>3, <3>1, <3>2, GreetPosts
  <2>2. ~Young(new) => \A t \in Node \ {r} : Greets(new, node[t], r, t)
    BY DEF Greets
  <2> QED BY <1>3, <1>5, <2>1, <2>2
<1>8. Greets(new, cut, r, s)
  <2>1. Greets(new, a, r, s)
    BY <1>2, <1>7
  <2> HIDE DEF a, q
  <2> QED BY <1>2, <1>3, <2>1, GreetKept DEF Young
<1>9. ASSUME NEW t \in Node \ {s, r}
      PROVE  /\ Greets(cut, node[t], s, t) /\ Greets(node[t], cut, t, s)
             /\ Greets(node[t], new, t, r)
  <2>1. Greets(a, node[t], s, t) /\ Greets(node[t], a, t, s) /\ Greets(node[t], b, t, r)
    BY <1>3
  <2>2. Greets(cut, node[t], s, t)
    BY <1>2, <2>1, GreetSame
  <2>3. Greets(node[t], cut, t, s)
    <3> HIDE DEF a, q
    <3> QED BY <1>2, <1>3, <2>1, GreetKept DEF Young
  <2>4. Greets(node[t], new, t, r)
    <3>1. CASE ~Young(new)
      BY <3>1 DEF Greets
    <3>2. CASE Young(new)
      <4>1. Young(b) /\ Told(new, t) = Told(b, t)
        BY <1>2, <1>5, <3>2 DEF Young
      <4> HIDE DEF b
      <4> QED BY <1>3, <2>1, <4>1, GreetKept
    <3> QED BY <3>1, <3>2
  <2> QED BY <2>2, <2>3, <2>4
<1>10. ASSUME NEW t \in Node, NEW u \in Node, t # u
       PROVE  Greets(node'[t], node'[u], t, u)
  <2> HIDE DEF a, b, q
  <2>1. CASE t = s /\ u = r
    BY <1>2, <1>6, <2>1
  <2>2. CASE t = r /\ u = s
    BY <1>2, <1>8, <2>2
  <2>3. CASE t \notin {s, r} /\ u \notin {s, r}
    BY <1>2, <1>3, <1>10, <2>3
  <2>4. CASE t \in {s, r} /\ u \notin {s, r}
    BY <1>2, <1>7, <1>9, <2>4
  <2>5. CASE t \notin {s, r} /\ u \in {s, r}
    BY <1>2, <1>9, <2>5
  <2> QED BY <1>10, <2>1, <2>2, <2>3, <2>4, <2>5
<1>11. \A t \in Node : Fresh(node'[t])
  <2>1. \A t \in Node : Fresh(node[t])
    BY DEF Hail
  <2>2. Fresh(cut)
    BY <1>2, <2>1 DEF Fresh
  <2>3. Fresh(new)
    BY <1>5 DEF Fresh
  <2> HIDE DEF a, b, q
  <2> QED BY <1>2, <2>1, <2>2, <2>3
<1>12. ASSUME NEW x \in air' PROVE ~Gossip /\ ~Young(node'[x.from])
  <2>1. x.from \in Node /\ ~Gossip /\ ~Young(node[x.from])
    BY <1>2, <1>3, <1>12 DEF Beacon, Hail
  <2>2. x.from # r
    BY <1>2, <2>1 DEF Young
  <2> QED BY <1>2, <2>1, <2>2 DEF Young
<1>13. Gossip => \A t \in Node : Young(node'[t])
  <2>1. Gossip => \A t \in Node : Young(node[t])
    BY DEF Hail
  <2> QED BY <1>2, <1>4, <2>1 DEF Young
<1>14. Gossip => \A t, u \in Node : Among(To(node'[t], u), Plain)
  <2> SUFFICES ASSUME Gossip PROVE \A t, u \in Node : Among(To(node'[t], u), Plain)
    OBVIOUS
  <2>1. \A t, u \in Node : Among(To(node[t], u), Plain)
    BY DEF Hail
  <2>2. \A u \in Node : Among(To(cut, u), Plain)
    <3>1. Among(Tail(q), Plain)
      <4>1. Among(q, Plain)
        BY <2>1
      <4> HIDE DEF q
      <4> QED BY <1>2, <4>1, AmongTail
    <3> HIDE DEF q
    <3> QED BY <1>2, <2>1, <3>1
  <2>3. ASSUME NEW u \in Node PROVE Among(To(new, u), Plain)
    <3>1. Young(new)
      BY <1>4 DEF Young, Hail
    <3>2. ASSUME NEW S, Posts(b, new, u, S, "PING_OK") PROVE Among(To(new, u), Plain)
      <4>1. Among(To(b, u), Plain)
        BY <2>1
      <4> HIDE DEF b
      <4> QED BY <1>3, <3>2, <4>1, AmongPosts
    <3> QED BY <1>5, <2>1, <3>1, <3>2
  <2> HIDE DEF a, b, q
  <2> QED BY <1>2, <2>1, <2>2, <2>3
<1> QED BY <1>10, <1>11, <1>12, <1>13, <1>14 DEF Hail

LEMMA InitGreets == Init => GInv
<1> SUFFICES ASSUME Init PROVE GInv
  OBVIOUS
<1>1. TidyAll /\ LInv
  BY InitTidy, InitLinks
<1>2. \A k \in BudgetKinds : budget[k] <= Budget[k]
  BY BudgetAssumption DEF Init
<1>3. /\ air = {}
      /\ \A n \in Node : /\ node[n].life = "created" /\ node[n].connected = {}
                         /\ node[n].peers = {} /\ \A t \in Node : To(node[n], t) = <<>>
  BY EndpointAssumption DEF Init, NewNode, To
<1>4. Hail
  BY <1>3 DEF Hail, Greets, Fresh, Young, Among
<1> QED BY <1>1, <1>2, <1>4 DEF GInv

LEMMA NextGreets ==
    ASSUME OwnRoom, GInv, [Next]_vars
    PROVE  GInv'
<1>1. TidyAll /\ TidyAll' /\ LInv /\ LInv' /\ IInv
  BY NextTidy, NextLinks DEF GInv, TidyAll
<1>2. /\ \A k \in BudgetKinds : budget'[k] <= budget[k] /\ budget[k] <= Budget[k]
      /\ \A k \in BudgetKinds : budget'[k] \in Nat /\ budget[k] \in Nat /\ Budget[k] \in Nat
      /\ \A n \in Node : Stop(n) \/ Destroy(n) => budget'.halt < budget.halt
  BY <1>1, BudgetFalls, BudgetAssumption DEF GInv, TidyAll, IInv
<1>3. \A k \in BudgetKinds : budget'[k] <= Budget[k]
  BY <1>2
<1> SUFFICES ASSUME Calm' PROVE Hail'
  BY <1>1, <1>3 DEF GInv
<1>4. ASSUME NEW k \in BudgetKinds, budget'[k] = Budget[k]
      PROVE  budget[k] = Budget[k] /\ ~(budget'[k] < budget[k])
  BY <1>2, <1>4
<1>5. Calm
  BY <1>4 DEF Calm, BudgetKinds
<1>6. /\ NoDrop /\ ~(budget'.drop < budget.drop) /\ ~(budget'.suspect < budget.suspect)
      /\ ~(budget'.refuse < budget.refuse)
      /\ Gossip => ~(budget'.halt < budget.halt)
  BY <1>4 DEF Calm, BudgetKinds, NoDrop
<1>7. Hail
  BY <1>5 DEF GInv
<1>8. CASE UNCHANGED vars
  BY <1>7, <1>8 DEF vars, Hail
<1>9. CASE Next
  BY <1>1, <1>2, <1>6, <1>7, <1>9, ApiHail, DiscoverHail, NetHail, ReadHail DEF Next
<1> QED BY <1>8, <1>9

LEMMA GInvImplies == ASSUME GInv PROVE Calm => NeverIgnored
<1> SUFFICES ASSUME Calm, NEW s \in Node, NEW r \in Node,
                    node[r].life = "running", node[s].life = "running",
                    Arriving(s, r) # <<>>, Front(s, r).command # "HELLO"
             PROVE  s \in node[r].ready
  BY DEF NeverIgnored
<1>1. Arriving(s, r) = To(node[s], r) /\ To(node[s], r) \in Seq(Message) /\ s # r
  BY BoxType DEF GInv, TidyAll, IInv, Tidy, Arriving, To
<1>2. Front(s, r) = To(node[s], r)[1]
  BY <1>1 DEF Front
<1> QED BY <1>1, <1>2 DEF GInv, Hail, Greets, Young

\* As long as no connection breaks, no socket is refused and no peer expires that
\* would have answered, no message that a peer sends over an open mailbox is
\* thrown away by zyre_node_recv_peer because its sender is not ready: whom a
\* node forgets, on a beacon with port zero or after expired_timeout, has
\* nothing to say to it any more.
THEOREM MessagesAreHeard ==
    ASSUME OwnRoom
    PROVE  Spec => [](Calm => NeverIgnored)
<1>1. Init => GInv
  BY InitGreets
<1>2. GInv /\ [Next]_vars => GInv'
  BY NextGreets
<1>3. GInv => (Calm => NeverIgnored)
  BY GInvImplies
<1> QED BY <1>1, <1>2, <1>3, PTL DEF Spec

-----------------------------------------------------------------------------
(***************************************************************************)
(* The nodes implement ZyrePresence.  A message or a view is true or not   *)
(* of what its sender was then: the invariant says that there is a history *)
(* of the groups of each node, by status, that every message under way and *)
(* every view agrees with, in order.                                       *)
(***************************************************************************)
\* A history of a node: h[k] are its groups after k changes.
History == [Status -> SUBSET Group]

\* The message tells the truth.
Names(m, h) ==
    /\ m.command = "HELLO" => m.groups = h[m.status]
    /\ m.command = "JOIN" =>
          /\ m.status > 0
          /\ \E g \in Group : /\ m.groups = {g} /\ g \notin h[m.status - 1]
                              /\ h[m.status] = h[m.status - 1] \cup {g}
    /\ m.command = "LEAVE" =>
          /\ m.status > 0
          /\ \E g \in Group : /\ m.groups = {g} /\ g \in h[m.status - 1]
                              /\ h[m.status] = h[m.status - 1] \ {g}

\* What is told first came first.
Sorted(q) ==
    \A i, j \in DOMAIN q :
        (i <= j /\ Tells(q[i]) /\ Tells(q[j])) => q[i].status <= q[j].status

Lives(self) == self.life \in {"created", "running", "stopped"}

\* The queue q from a node in state a and the view v of it are true, and in order.
Faithful(q, v, h, a) ==
    /\ \A i \in DOMAIN q : Names(q[i], h)
    /\ Sorted(q)
    /\ v.known => /\ v.groups = h[v.version]
                  /\ \A i \in DOMAIN q : Tells(q[i]) => v.version <= q[i].status
    /\ Lives(a) => /\ \A i \in DOMAIN q : Tells(q[i]) => q[i].status <= a.status
                   /\ v.known => v.version <= a.status

LEMMA StatusNat ==
    /\ \A m \in Message : m.status \in Nat
    /\ \A a \in NodeState : a.status \in Nat
    /\ \A q \in Seq(Message) : \A i \in DOMAIN q : q[i].status \in Nat
<1>1. \A m \in Message : m.status \in Nat
  BY DEF Message, Status
<1>2. \A a \in NodeState : a.status \in Nat
  BY DEF NodeState, Status
<1>3. \A q \in Seq(Message) : \A i \in DOMAIN q : q[i] \in Message
  OBVIOUS
<1> QED BY <1>1, <1>2, <1>3

LEMMA FaithfulAppend ==
    ASSUME NEW q \in Seq(Message), NEW m \in Message, NEW v, NEW h, NEW a \in NodeState,
           Faithful(q, v, h, a), Lives(a), Names(m, h), Tells(m) => m.status = a.status
    PROVE  Faithful(Append(q, m), v, h, a)
<1> DEFINE p == Append(q, m)
<1>1. /\ Len(q) \in Nat
      /\ DOMAIN q = 1 .. Len(q) /\ DOMAIN p = 1 .. Len(q) + 1
      /\ p[Len(q) + 1] = m
      /\ \A i \in DOMAIN q : p[i] = q[i]
  BY AppendIndex
<1>2. /\ a.status \in Nat /\ m.status \in Nat
      /\ \A i \in DOMAIN q : q[i].status \in Nat
  BY StatusNat
<1> HIDE DEF p
<1>3. \A i \in DOMAIN p : i \in DOMAIN q \/ i = Len(q) + 1
  BY <1>1
<1>4. \A i \in DOMAIN p : Names(p[i], h)
  BY <1>1, <1>3 DEF Faithful
<1>5. \A i \in DOMAIN p : Tells(p[i]) => p[i].status <= a.status
  BY <1>1, <1>2, <1>3 DEF Faithful
<1>6. Sorted(p)
  <2> SUFFICES ASSUME NEW i \in DOMAIN p, NEW j \in DOMAIN p, i <= j,
                      Tells(p[i]), Tells(p[j])
               PROVE  p[i].status <= p[j].status
    BY DEF Sorted
  <2>1. CASE j = Len(q) + 1
    BY <1>1, <1>5, <2>1
  <2>2. CASE j # Len(q) + 1
    <3>1. i \in DOMAIN q /\ j \in DOMAIN q
      BY <1>1, <1>3, <2>2
    <3> QED BY <1>1, <3>1 DEF Faithful, Sorted
  <2> QED BY <2>1, <2>2
<1>7. v.known => /\ v.groups = h[v.version]
                 /\ v.version <= a.status
                 /\ \A i \in DOMAIN p : Tells(p[i]) => v.version <= p[i].status
  BY <1>1, <1>3 DEF Faithful
<1>8. Faithful(p, v, h, a)
  BY <1>4, <1>5, <1>6, <1>7 DEF Faithful
<1> QED BY <1>8 DEF p

\* Part of a queue is true if the queue is.
LEMMA FaithfulPart ==
    ASSUME NEW q \in Seq(Message), NEW p, NEW v, NEW h, NEW a, Faithful(q, v, h, a),
           \A i, j \in DOMAIN p : i <= j =>
               \E k, l \in DOMAIN q : k <= l /\ p[i] = q[k] /\ p[j] = q[l],
           DOMAIN p \subseteq Nat
    PROVE  Faithful(p, v, h, a)
<1>1. \A i \in DOMAIN p : \E k \in DOMAIN q : p[i] = q[k]
  OBVIOUS
<1>2. Sorted(p)
  <2> SUFFICES ASSUME NEW i \in DOMAIN p, NEW j \in DOMAIN p, i <= j,
                      Tells(p[i]), Tells(p[j])
               PROVE  p[i].status <= p[j].status
    BY DEF Sorted
  <2>1. PICK k \in DOMAIN q, l \in DOMAIN q : k <= l /\ p[i] = q[k] /\ p[j] = q[l]
    OBVIOUS
  <2> QED BY <2>1 DEF Faithful, Sorted
<1> QED BY <1>1, <1>2 DEF Faithful

LEMMA FaithfulTail ==
    ASSUME NEW q \in Seq(Message), q # <<>>, NEW v, NEW h, NEW a, Faithful(q, v, h, a)
    PROVE  Faithful(Tail(q), v, h, a)
<1> DEFINE p == Tail(q)
<1>1. /\ Len(q) \in Nat /\ DOMAIN q = 1 .. Len(q) /\ DOMAIN p = 1 .. Len(q) - 1
      /\ \A i \in 1 .. Len(q) - 1 : p[i] = q[i + 1]
  OBVIOUS
<1> HIDE DEF p
<1>2. ASSUME NEW i \in DOMAIN p, NEW j \in DOMAIN p, i <= j
      PROVE  \E k, l \in DOMAIN q : k <= l /\ p[i] = q[k] /\ p[j] = q[l]
  <2>1. i + 1 \in DOMAIN q /\ j + 1 \in DOMAIN q /\ i + 1 <= j + 1
    BY <1>1, <1>2
  <2> QED BY <1>1, <2>1
<1>3. DOMAIN p \subseteq Nat
  BY <1>1
<1>4. Faithful(p, v, h, a)
  BY <1>2, <1>3, FaithfulPart
<1> QED BY <1>4 DEF p

LEMMA FaithfulWithout ==
    ASSUME NEW q \in Seq(Message), NEW i \in DOMAIN q, NEW v, NEW h, NEW a,
           Faithful(q, v, h, a)
    PROVE  Faithful(Without(q, i), v, h, a)
<1> DEFINE p == Without(q, i)
<1>1. /\ Len(q) \in Nat /\ i \in 1 .. Len(q)
      /\ DOMAIN q = 1 .. Len(q) /\ DOMAIN p = 1 .. Len(q) - 1
      /\ \A k \in 1 .. i - 1 : p[k] = q[k]
      /\ \A k \in i .. Len(q) - 1 : p[k] = q[k + 1]
  BY WithoutIndex
<1> HIDE DEF p
<1>2. ASSUME NEW j \in DOMAIN p, NEW k \in DOMAIN p, j <= k
      PROVE  \E l, n \in DOMAIN q : l <= n /\ p[j] = q[l] /\ p[k] = q[n]
  <2>1. CASE j < i /\ k < i
    BY <1>1, <1>2, <2>1
  <2>2. CASE j < i /\ k >= i
    <3>1. j \in DOMAIN q /\ k + 1 \in DOMAIN q /\ j <= k + 1
          /\ p[j] = q[j] /\ p[k] = q[k + 1]
      BY <1>1, <1>2, <2>2
    <3> QED BY <3>1
  <2>3. CASE j >= i /\ k >= i
    <3>1. j + 1 \in DOMAIN q /\ k + 1 \in DOMAIN q /\ j + 1 <= k + 1
          /\ p[j] = q[j + 1] /\ p[k] = q[k + 1]
      BY <1>1, <1>2, <2>3
    <3> QED BY <3>1
  <2> QED BY <1>1, <1>2, <2>1, <2>2, <2>3
<1>3. DOMAIN p \subseteq Nat
  BY <1>1
<1>4. Faithful(p, v, h, a)
  BY <1>2, <1>3, FaithfulPart
<1> QED BY <1>4 DEF p

\* The receiver forgets the sender.
LEMMA FaithfulForgotten ==
    ASSUME NEW q, NEW v, NEW h, NEW a, Faithful(q, v, h, a)
    PROVE  Faithful(q, Stranger, h, a)
BY DEF Faithful, Stranger

\* The sender lives on as it was, or it does not.
LEMMA FaithfulSender ==
    ASSUME NEW q, NEW v, NEW h, NEW a, NEW b, Faithful(q, v, h, a),
           Lives(b) => Lives(a) /\ b.status = a.status
    PROVE  Faithful(q, v, h, b)
BY DEF Faithful

\* The receiver handles the first message.
LEMMA FaithfulRead ==
    ASSUME NEW q \in Seq(Message), q # <<>>, NEW v, NEW h, NEW a, NEW w,
           Faithful(q, v, h, a), Tells(q[1]),
           w.known, w.version = q[1].status, w.groups = h[w.version]
    PROVE  Faithful(Tail(q), w, h, a)
<1> DEFINE p == Tail(q)
<1>1. Faithful(p, v, h, a)
  BY FaithfulTail
<1>2. /\ 1 \in DOMAIN q
      /\ \A i \in DOMAIN p : i + 1 \in DOMAIN q /\ p[i] = q[i + 1] /\ 1 <= i + 1
  OBVIOUS
<1> HIDE DEF p
<1>3. \A i \in DOMAIN p : Tells(p[i]) => w.version <= p[i].status
  BY <1>2 DEF Faithful, Sorted
<1>4. Faithful(p, w, h, a)
  BY <1>1, <1>2, <1>3 DEF Faithful
<1> QED BY <1>4 DEF p

\* The sender has changed once more: its history is longer.
LEMMA FaithfulLonger ==
    ASSUME NEW q \in Seq(Message), NEW v, NEW h, NEW g, NEW a \in NodeState, NEW b,
           Faithful(q, v, h, a), Lives(a), b.status = a.status + 1,
           v.known => v.version \in Nat,
           \A k \in 0 .. a.status : g[k] = h[k]
    PROVE  Faithful(q, v, g, b)
<1>1. /\ a.status \in Nat
      /\ \A i \in DOMAIN q : q[i].status \in Nat
  BY StatusNat
<1>2. ASSUME NEW i \in DOMAIN q PROVE Names(q[i], g)
  <2>1. Names(q[i], h) /\ (Tells(q[i]) => q[i].status <= a.status)
    BY DEF Faithful
  <2>2. Tells(q[i]) => g[q[i].status] = h[q[i].status]
    BY <1>1, <2>1
  <2>3. (Tells(q[i]) /\ q[i].status > 0) => g[q[i].status - 1] = h[q[i].status - 1]
    BY <1>1, <2>1
  <2> QED BY <2>1, <2>2, <2>3 DEF Names, Tells
<1>3. \A i \in DOMAIN q : Tells(q[i]) => q[i].status <= b.status
  BY <1>1 DEF Faithful
<1>4. v.known => v.version <= b.status /\ v.groups = g[v.version]
  BY <1>1 DEF Faithful
<1> QED BY <1>2, <1>3, <1>4 DEF Faithful

\* h is the history of s.
Truthful(s, h) ==
    /\ Lives(node[s]) => h[node[s].status] = node[s].own_groups
    /\ \A r \in Node \ {s} :
          Faithful(To(node[s], r), Told(node[r], s), h, node[s])

\* The inductive invariant.  The budget of JOIN and LEAVE bounds the status.
RInv ==
    /\ TidyAll
    /\ \A n \in Node : Lives(node[n]) => node[n].status + budget.group <= Budget.group
    /\ \A s \in Node : \E h \in History : Truthful(s, h)

LEMMA InitTruth == Init => RInv
<1> SUFFICES ASSUME Init PROVE RInv
  OBVIOUS
<1>1. TidyAll
  BY InitTidy
<1>2. \A n \in Node : /\ node[n].own_groups = {} /\ node[n].status = 0
                      /\ \A t \in Node : To(node[n], t) = <<>> /\ Told(node[n], t) = Stranger
  BY EndpointAssumption DEF Init, NewNode, To, Told
<1>3. budget.group = Budget.group /\ Budget.group \in Nat
  BY BudgetAssumption DEF Init, BudgetKinds
<1> DEFINE h == [k \in Status |-> {}]
<1>4. h \in History /\ h[0] = {}
  BY ZeroStatus DEF History
<1> HIDE DEF h
<1>5. ASSUME NEW a PROVE Faithful(<<>>, Stranger, h, a)
  BY DEF Faithful, Stranger, Sorted
<1>6. \A s \in Node : Truthful(s, h)
  BY <1>2, <1>4, <1>5 DEF Truthful
<1> QED BY <1>1, <1>2, <1>3, <1>4, <1>6 DEF RInv

\* What a living node sends is true.
LEMMA TruePosts ==
    ASSUME NEW r \in Node, NEW a \in NodeState, NEW new, NEW S, NEW c, NEW v, NEW h,
           Lives(a), h[a.status] = a.own_groups, new.status = a.status,
           Posts(a, new, r, S, c), Faithful(To(a, r), v, h, a)
    PROVE  Faithful(To(new, r), v, h, new)
<1> DEFINE q == To(a, r)
<1>0. q \in Seq(Message)
  BY BoxType
<1>1. Faithful(To(new, r), v, h, a)
  <2>1. CASE To(new, r) = q
    BY <2>1
  <2>2. ASSUME NEW m \in Message, To(new, r) = Append(q, m), m.command = "HELLO",
               m.status = a.status, m.groups = a.own_groups
        PROVE  Faithful(To(new, r), v, h, a)
    <3>1. Names(m, h)
      BY <2>2 DEF Names
    <3> HIDE DEF q
    <3> QED BY <1>0, <2>2, <3>1, FaithfulAppend DEF q
  <2>3. ASSUME NEW m \in Message, To(new, r) = Append(q, m), ~Tells(m)
        PROVE  Faithful(To(new, r), v, h, a)
    <3>1. Names(m, h)
      BY <2>3 DEF Names, Tells
    <3> HIDE DEF q
    <3> QED BY <1>0, <2>3, <3>1, FaithfulAppend DEF q
  <2> QED BY <2>1, <2>2, <2>3 DEF Posts
<1> QED BY <1>1, FaithfulSender

\* After one more JOIN or LEAVE.
LEMMA TrueChanges ==
    ASSUME NEW s \in Node, NEW a \in NodeState, NEW new \in NodeState, NEW h \in History,
           Lives(a), h[a.status] = a.own_groups, Changes(s, a, new),
           new.status = a.status + 1
    PROVE  \E g \in History :
              /\ g[new.status] = new.own_groups
              /\ \A r \in Node : \A v :
                    (Faithful(To(a, r), v, h, a) /\ (v.known => v.version \in Nat))
                       => Faithful(To(new, r), v, g, new)
<1> DEFINE g == [h EXCEPT ![a.status + 1] = new.own_groups]
<1>1. /\ a.status \in Nat /\ new.status \in Status
      /\ new.own_groups \in SUBSET Group /\ Lives(new)
  BY StatusNat DEF NodeState, Changes, Lives
<1>2. g \in History /\ g[a.status + 1] = new.own_groups
  BY <1>1 DEF History
<1>3. \A k \in 0 .. a.status : g[k] = h[k]
  BY <1>1 DEF History
<1> HIDE DEF g
<1>4. PICK x \in Group, c \in {"JOIN", "LEAVE"} :
          /\ c = "JOIN" => x \notin a.own_groups /\ new.own_groups = a.own_groups \cup {x}
          /\ c = "LEAVE" => x \in a.own_groups /\ new.own_groups = a.own_groups \ {x}
          /\ \A t \in Node :
                IF t \in a.connected
                THEN \E m \in Message :
                        /\ m.command = c /\ m.groups = {x} /\ m.status = new.status
                        /\ To(new, t) = Append(To(a, t), m)
                ELSE To(new, t) = To(a, t)
  BY DEF Changes
<1>5. ASSUME NEW r \in Node, NEW v, Faithful(To(a, r), v, h, a), v.known => v.version \in Nat
      PROVE  Faithful(To(new, r), v, g, new)
  <2> DEFINE q == To(a, r)
  <2>1. q \in Seq(Message) /\ Faithful(q, v, g, new)
    BY <1>1, <1>3, <1>5, BoxType, FaithfulLonger
  <2>2. ASSUME NEW m \in Message, m.command = c, m.groups = {x}, m.status = new.status,
               To(new, r) = Append(q, m)
        PROVE  Faithful(To(new, r), v, g, new)
    <3>1. /\ m.status = a.status + 1 /\ m.status > 0 /\ m.status - 1 = a.status
          /\ g[m.status] = new.own_groups /\ g[m.status - 1] = a.own_groups
      BY <1>1, <1>2, <1>3, <2>2
    <3>2. Names(m, g)
      BY <1>4, <2>2, <3>1 DEF Names
    <3> HIDE DEF q
    <3> QED BY <1>1, <2>1, <2>2, <3>2, FaithfulAppend
  <2> QED BY <1>4, <2>1, <2>2
<1> QED BY <1>2, <1>5

\* One node's record has changed.
LEMMA TruthBecomes ==
    ASSUME RInv, TidyAll', NEW n \in Node, NEW new, Become(n, new),
           Lives(new) => new.status + budget'.group <= Budget.group,
           budget'.group <= budget.group,
           \A t \in Node : Told(new, t) = Told(node[n], t) \/ Told(new, t) = Stranger,
           \A h \in History : Truthful(n, h) =>
               \E g \in History :
                  /\ Lives(new) => g[new.status] = new.own_groups
                  /\ \A t \in Node \ {n} : Faithful(To(new, t), Told(node[t], n), g, new)
    PROVE  RInv'
<1>1. \A m \in Node : node'[m] = IF m = n THEN new ELSE node[m]
  BY DEF Become, RInv, TidyAll, IInv
<1>2. \A m \in Node : Lives(node'[m]) => node'[m].status + budget'.group <= Budget.group
  <2>1. /\ budget.group \in Nat /\ budget'.group \in Nat /\ Budget.group \in Nat
        /\ \A m \in Node : node[m].status \in Nat
    BY StatusNat, BudgetAssumption DEF RInv, TidyAll, IInv, BudgetKinds
  <2> QED BY <1>1, <2>1 DEF RInv
<1>3. \E g \in History : Truthful(n, g)'
  <2>1. PICK h \in History : Truthful(n, h)
    BY DEF RInv
  <2>2. PICK g \in History :
                  /\ Lives(new) => g[new.status] = new.own_groups
                  /\ \A t \in Node \ {n} : Faithful(To(new, t), Told(node[t], n), g, new)
    BY <2>1
  <2>3. Truthful(n, g)'
    BY <1>1, <2>2 DEF Truthful
  <2> QED BY <2>3
<1>4. ASSUME NEW s \in Node \ {n} PROVE \E g \in History : Truthful(s, g)'
  <2>1. PICK h \in History : Truthful(s, h)
    BY DEF RInv
  <2>2. Faithful(To(node[s], n), Told(new, s), h, node[s])
    BY <2>1, FaithfulForgotten DEF Truthful
  <2>3. Truthful(s, h)'
    BY <1>1, <2>1, <2>2 DEF Truthful
  <2> QED BY <2>3
<1> QED BY <1>2, <1>3, <1>4 DEF RInv

LEMMA QuietTruth ==
    ASSUME RInv, TidyAll', [Next]_vars, NEW n \in Node, NEW new, NEW S, NEW c,
           Become(n, new), Quiet(n, node[n], new, S, c), Lives(node[n])
    PROVE  RInv'
<1>1. /\ node[n] \in NodeState /\ new.status = node[n].status
      /\ new.own_groups = node[n].own_groups
      /\ \A t \in Node : Posts(node[n], new, t, S, c)
      /\ \A t \in Node : Told(new, t) = Told(node[n], t) \/ Told(new, t) = Stranger
  BY DEF RInv, TidyAll, IInv, Quiet
<1>2. budget'.group <= budget.group
  BY BudgetFalls DEF RInv, TidyAll, BudgetKinds
<1>3. new.status + budget'.group <= Budget.group
  <2>1. /\ budget.group \in Nat /\ budget'.group \in Nat /\ Budget.group \in Nat
        /\ node[n].status \in Nat
    BY <1>1, StatusNat, BudgetAssumption DEF RInv, TidyAll, IInv, BudgetKinds
  <2> QED BY <1>1, <1>2, <2>1 DEF RInv
<1>4. ASSUME NEW h \in History, Truthful(n, h)
      PROVE  /\ h[new.status] = new.own_groups
             /\ \A t \in Node \ {n} : Faithful(To(new, t), Told(node[t], n), h, new)
  <2>1. h[node[n].status] = node[n].own_groups
    BY <1>4 DEF Truthful
  <2>2. ASSUME NEW t \in Node \ {n} PROVE Faithful(To(new, t), Told(node[t], n), h, new)
    <3>1. Faithful(To(node[n], t), Told(node[t], n), h, node[n]) /\ Posts(node[n], new, t, S, c)
      BY <1>1, <1>4 DEF Truthful
    <3> QED BY <1>1, <2>1, <3>1, TruePosts
  <2> QED BY <1>1, <2>1, <2>2
<1> QED BY <1>1, <1>2, <1>3, <1>4, TruthBecomes

\* A node ends: what it said stays true.
LEMMA EndTruth ==
    ASSUME RInv, TidyAll', [Next]_vars, NEW n \in Node, NEW new,
           Become(n, new), Ends(n, node[n], new)
    PROVE  RInv'
<1>1. /\ ~Lives(new)
      /\ \A t \in Node : Told(new, t) = Stranger /\ To(new, t) = To(node[n], t)
  BY DEF Ends, Lives
<1>2. budget'.group <= budget.group
  BY BudgetFalls DEF RInv, TidyAll, BudgetKinds
<1>3. ASSUME NEW h \in History, Truthful(n, h)
      PROVE  \A t \in Node \ {n} : Faithful(To(new, t), Told(node[t], n), h, new)
  BY <1>1, <1>3, FaithfulSender DEF Truthful
<1> QED BY <1>1, <1>2, <1>3, TruthBecomes

\* The status does not wrap.
LEMMA NextNumber ==
    ASSUME RInv, Budget.group < StatusMod, NEW n \in Node, NEW g \in Group,
           Join(n, g) \/ Leave(n, g)
    PROVE  /\ NextStatus(node[n].status) = node[n].status + 1
           /\ node[n].status + 1 < StatusMod
           /\ node[n].status + 1 + budget'.group <= Budget.group
           /\ Lives(node[n]) /\ budget'.group <= budget.group
<1>1. /\ budget.group \in Nat /\ Budget.group \in Nat /\ node[n].status \in Nat
      /\ StatusMod \in Nat /\ budget \in [BudgetKinds -> Nat] /\ "group" \in BudgetKinds
  BY StatusNat, BudgetAssumption, WidthAssumption DEF RInv, TidyAll, IInv, BudgetKinds
<1>2. Alive(n) /\ Spend("group", 1)
  BY DEF Join, Leave
<1>3. budget.group >= 1 /\ budget'.group = budget.group - 1
  BY <1>1, <1>2 DEF Spend
<1>4. Lives(node[n]) /\ node[n].status + budget.group <= Budget.group
  BY <1>2 DEF Alive, Lives, RInv
<1>5. node[n].status + 1 < StatusMod
  BY <1>1, <1>3, <1>4
<1>6. NextStatus(node[n].status) = node[n].status + 1
  BY <1>1, <1>5 DEF NextStatus
<1> QED BY <1>1, <1>3, <1>4, <1>5, <1>6

LEMMA ChangeTruth ==
    ASSUME RInv, TidyAll', Budget.group < StatusMod, NEW n \in Node, NEW new, NEW g \in Group,
           Join(n, g) \/ Leave(n, g), Become(n, new), Changes(n, node[n], new)
    PROVE  RInv'
<1>1. /\ node[n].status + 1 < StatusMod /\ new.status = node[n].status + 1
      /\ new.status + budget'.group <= Budget.group
      /\ Lives(node[n]) /\ budget'.group <= budget.group
  BY NextNumber DEF Changes
<1>2. /\ node[n] \in NodeState /\ new \in NodeState
      /\ \A t \in Node : Told(new, t) = Told(node[n], t)
      /\ \A t \in Node : Told(node[t], n).known => Told(node[t], n).version \in Nat
  <2>1. \A t \in Node : node[t] \in NodeState
    BY DEF RInv, TidyAll, IInv
  <2>2. ASSUME NEW t \in Node PROVE Told(node[t], n).version \in Nat
    <3>1. node[t].peer_status[n] \in Nat
      BY <2>1 DEF NodeState, Status
    <3> QED BY <3>1 DEF Told, Stranger
  <2> QED BY <2>1, <2>2 DEF Changes, Tidy, Sound
<1>3. ASSUME NEW h \in History, Truthful(n, h)
      PROVE  \E f \in History :
                  /\ f[new.status] = new.own_groups
                  /\ \A t \in Node \ {n} : Faithful(To(new, t), Told(node[t], n), f, new)
  <2>1. h[node[n].status] = node[n].own_groups
    BY <1>1, <1>3 DEF Truthful
  <2>2. PICK f \in History :
              /\ f[new.status] = new.own_groups
              /\ \A r \in Node : \A v :
                    (/\ Faithful(To(node[n], r), v, h, node[n])
                     /\ v.known => v.version \in Nat)
                       => Faithful(To(new, r), v, f, new)
    BY <1>1, <1>2, <2>1, TrueChanges
  <2>3. \A t \in Node \ {n} : Faithful(To(node[n], t), Told(node[t], n), h, node[n])
    BY <1>3 DEF Truthful
  <2> QED BY <1>2, <2>2, <2>3
<1> QED BY <1>1, <1>2, <1>3, TruthBecomes

\* The network takes a message away, and r reads one.
LEMMA TrimTruth ==
    ASSUME NEW s \in Node, NEW a \in NodeState, NEW new, NEW t \in Node, NEW q, NEW h,
           Trims(s, a, new, t, q),
           Lives(a) => h[a.status] = a.own_groups
    PROVE  /\ Lives(new) => h[new.status] = new.own_groups
           /\ \A r \in Node : \A v : (r # t /\ Faithful(To(a, r), v, h, a))
                                    => Faithful(To(new, r), v, h, new)
           /\ \A v : Faithful(q, v, h, a) => Faithful(To(new, t), v, h, new)
<1>1. /\ new.life = a.life /\ new.status = a.status /\ new.own_groups = a.own_groups
      /\ \A u \in Node : To(new, u) = IF u = t THEN q ELSE To(a, u)
  BY DEF Trims
<1>2. Lives(new) => Lives(a) /\ new.status = a.status
  BY <1>1 DEF Lives
<1>3. \A p, v : Faithful(p, v, h, a) => Faithful(p, v, h, new)
  BY <1>2, FaithfulSender
<1> QED BY <1>1, <1>2, <1>3

LEMMA NetTruth ==
    ASSUME OwnRoom, RInv, TidyAll', NEW n \in Node, Network(n)
    PROVE  RInv'
<1>1. PICK new : Become(n, new) /\ NetShape(n, new)
  BY NetShaped DEF RInv
<1>2. /\ node[n] \in NodeState /\ new.life = node[n].life
      /\ budget'.group = budget.group /\ budget.group \in Nat
  BY <1>1 DEF RInv, TidyAll, IInv, NetShape, BudgetKinds
<1>3. ASSUME new.status = node[n].status, new.own_groups = node[n].own_groups,
             \A t \in Node : Told(new, t) = Told(node[n], t) \/ Told(new, t) = Stranger,
             \A h \in History : Truthful(n, h) =>
                 \A t \in Node \ {n} : Faithful(To(new, t), Told(node[t], n), h, new)
      PROVE  RInv'
  <2>1. Lives(new) => new.status + budget'.group <= Budget.group
    BY <1>2, <1>3 DEF Lives, RInv
  <2>2. \A h \in History : Truthful(n, h) => (Lives(new) => h[new.status] = new.own_groups)
    BY <1>2, <1>3 DEF Lives, Truthful
  <2> QED BY <1>1, <1>2, <1>3, <2>1, <2>2, TruthBecomes
<1>4. CASE /\ Quiet(n, node[n], new, {}, "PING")
           /\ \A t \in Node : To(new, t) = To(node[n], t)
  <2>1. /\ new.status = node[n].status /\ new.own_groups = node[n].own_groups
        /\ \A t \in Node : Told(new, t) = Told(node[n], t)
    BY <1>4 DEF Quiet
  <2>2. ASSUME NEW h \in History, Truthful(n, h), NEW t \in Node \ {n}
        PROVE  Faithful(To(new, t), Told(node[t], n), h, new)
    <3>1. Faithful(To(node[n], t), Told(node[t], n), h, node[n])
      BY <2>2 DEF Truthful
    <3>2. Lives(new) => Lives(node[n]) /\ new.status = node[n].status
      BY <1>2, <2>1 DEF Lives
    <3> QED BY <1>4, <3>1, <3>2, FaithfulSender
  <2> QED BY <1>3, <2>1, <2>2
<1>5. ASSUME NEW t \in Node \ {n}, NEW i \in DOMAIN To(node[n], t),
             Trims(n, node[n], new, t, Without(To(node[n], t), i))
      PROVE  RInv'
  <2> DEFINE q == To(node[n], t)
  <2>0. q \in Seq(Message)
    BY <1>2, BoxType
  <2>1. /\ new.status = node[n].status /\ new.own_groups = node[n].own_groups
        /\ \A u \in Node : Told(new, u) = Told(node[n], u)
    BY <1>5 DEF Trims
  <2>2. ASSUME NEW h \in History, Truthful(n, h), NEW u \in Node \ {n}
        PROVE  Faithful(To(new, u), Told(node[u], n), h, new)
    <3>1. /\ Lives(node[n]) => h[node[n].status] = node[n].own_groups
          /\ Faithful(To(node[n], u), Told(node[u], n), h, node[n])
          /\ Faithful(q, Told(node[t], n), h, node[n])
      BY <2>2 DEF Truthful
    <3>2. Faithful(Without(q, i), Told(node[t], n), h, node[n])
      <4> HIDE DEF q
      <4>1. i \in DOMAIN q
        BY DEF q
      <4> QED BY <2>0, <3>1, <4>1, FaithfulWithout
    <3> DEFINE p == Without(q, i)
    <3>3. Trims(n, node[n], new, t, p)
      BY <1>5
    <3> HIDE DEF p
    <3>4. /\ \A r \in Node : \A v : (r # t /\ Faithful(To(node[n], r), v, h, node[n]))
                                    => Faithful(To(new, r), v, h, new)
          /\ \A v : Faithful(p, v, h, node[n]) => Faithful(To(new, t), v, h, new)
      BY <1>2, <3>1, <3>3, TrimTruth
    <3>5. Faithful(p, Told(node[t], n), h, node[n])
      BY <3>2 DEF p
    <3>6. u = t \/ u # t
      OBVIOUS
    <3> HIDE DEF q
    <3> QED BY <3>1, <3>4, <3>5, <3>6
  <2> QED BY <1>3, <2>1, <2>2
<1> QED BY <1>1, <1>4, <1>5 DEF NetShape

\* JOIN and LEAVE tell one change.
LEMMA FollowedTrue ==
    ASSUME NEW m \in Message, m.command \in {"JOIN", "LEAVE"}, NEW h \in History, Names(m, h),
           NEW v, v.groups = h[v.version], v.version \in Status,
           m.status = NextStatus(v.version)
    PROVE  LET w == Followed(v, m)
           IN  /\ w.known /\ w.version = m.status /\ w.version = v.version + 1
               /\ w.groups = h[w.version]
               /\ \E g \in Group : \/ g \notin v.groups /\ w.groups = v.groups \cup {g}
                                   \/ g \in v.groups /\ w.groups = v.groups \ {g}
<1> DEFINE w == Followed(v, m)
<1>1. m.status > 0
  BY DEF Names
<1>2. m.status = v.version + 1 /\ m.status - 1 = v.version /\ v.version \in Nat
  BY <1>1 DEF NextStatus, Status
<1>3. w.known /\ w.version = m.status
  BY DEF Followed
<1>4. CASE m.command = "JOIN"
  <2>1. PICK g \in Group : /\ m.groups = {g} /\ g \notin h[m.status - 1]
                           /\ h[m.status] = h[m.status - 1] \cup {g}
    BY <1>4 DEF Names
  <2>2. w.groups = v.groups \cup {g} /\ g \notin v.groups /\ w.groups = h[m.status]
    BY <1>2, <1>4, <2>1 DEF Followed
  <2> HIDE DEF w
  <2> QED BY <1>2, <1>3, <2>2 DEF w
<1>5. CASE m.command = "LEAVE"
  <2>1. PICK g \in Group : /\ m.groups = {g} /\ g \in h[m.status - 1]
                           /\ h[m.status] = h[m.status - 1] \ {g}
    BY <1>5 DEF Names
  <2>2. w.groups = v.groups \ {g} /\ g \in v.groups /\ w.groups = h[m.status]
    BY <1>2, <1>5, <2>1 DEF Followed
  <2> HIDE DEF w
  <2> QED BY <1>2, <1>3, <2>2 DEF w
<1> QED BY <1>4, <1>5

LEMMA ToldStatus ==
    ASSUME NEW n, NEW self, Tidy(n, self), NEW t \in Node
    PROVE  /\ Told(self, t).version \in Status
           /\ t \in self.ready => Told(self, t).known
                                  /\ Told(self, t).version = self.peer_status[t]
<1>1. self \in NodeState /\ self.ready = self.entered
  BY DEF Tidy, Sound
<1> QED BY <1>1, ZeroStatus DEF Told, Stranger, NodeState

\* What r knows of s after a message of s is true.
LEMMA ReadTold ==
    ASSUME RInv, NEW s \in Node, NEW r \in Node, NEW new, Reads(s, r, new),
           NEW h \in History, Truthful(s, h)
    PROVE  Faithful(Tail(To(node[s], r)), Told(new, s), h, node[s])
<1> DEFINE a == node[s]
           b == node[r]
           q == To(a, r)
           m == q[1]
           v == Told(b, s)
<1>1. /\ s # r /\ q \in Seq(Message) /\ q # <<>> /\ RecvShape(s, r, new, m)
      /\ Faithful(q, v, h, a) /\ Tidy(r, b)
  BY DEF Reads, Truthful, RInv, TidyAll
<1> HIDE DEF q
<1>2. m \in Message /\ 1 \in DOMAIN q
  BY <1>1
<1>3. Names(m, h)
  BY <1>1, <1>2 DEF Faithful
<1>4. Faithful(Tail(q), v, h, a)
  BY <1>1, FaithfulTail
<1>5. Told(new, s) = v => Faithful(Tail(q), Told(new, s), h, a)
  BY <1>4
<1>6. Told(new, s) = Stranger => Faithful(Tail(q), Told(new, s), h, a)
  BY <1>4, FaithfulForgotten
<1>7. ASSUME m.command = "HELLO", Told(new, s) = Introduced(m)
      PROVE  Faithful(Tail(q), Told(new, s), h, a)
  <2>1. /\ Introduced(m).known /\ Introduced(m).version = m.status
        /\ Introduced(m).groups = h[m.status] /\ Tells(m)
    BY <1>3, <1>7 DEF Introduced, Names, Tells
  <2> QED BY <1>1, <1>7, <2>1, FaithfulRead
<1>8. ASSUME m.command \in {"JOIN", "LEAVE"}, s \in b.ready,
             m.status = NextStatus(b.peer_status[s]), Told(new, s) = Followed(v, m)
      PROVE  Faithful(Tail(q), Told(new, s), h, a)
  <2>1. v.known /\ v.version = b.peer_status[s] /\ v.version \in Status
    BY <1>1, <1>8, ToldStatus
  <2>2. v.groups = h[v.version]
    BY <1>1, <2>1 DEF Faithful
  <2> DEFINE w == Followed(v, m)
  <2>3. w.known /\ w.version = m.status /\ w.groups = h[w.version]
    BY <1>2, <1>3, <1>8, <2>1, <2>2, FollowedTrue
  <2>4. Tells(m)
    BY <1>8 DEF Tells
  <2> HIDE DEF w
  <2>5. Faithful(Tail(q), w, h, a)
    BY <1>1, <2>3, <2>4, FaithfulRead
  <2> QED BY <1>8, <2>5 DEF w
<1>9. \/ Told(new, s) = v
      \/ Told(new, s) = Stranger
      \/ m.command = "HELLO" /\ Told(new, s) = Introduced(m)
      \/ /\ m.command \in {"JOIN", "LEAVE"} /\ s \in b.ready
         /\ m.status = NextStatus(b.peer_status[s]) /\ Told(new, s) = Followed(v, m)
  BY <1>1 DEF RecvShape, Quiet, Learns, Ends
<1> QED BY <1>5, <1>6, <1>7, <1>8, <1>9 DEF q

LEMMA ReadTruth ==
    ASSUME OwnRoom, RInv, TidyAll', NEW s \in Node, NEW r \in Node, RecvPeer(s, r)
    PROVE  RInv'
<1>1. PICK new : Reads(s, r, new)
  BY ReadShaped DEF RInv
<1> DEFINE a == node[s]
           b == node[r]
           cut == node'[s]
           q == To(a, r)
<1>2. /\ s # r /\ q \in Seq(Message) /\ q # <<>> /\ b.life = "running"
      /\ budget'.group = budget.group
      /\ node'[r] = new /\ \A t \in Node \ {s, r} : node'[t] = node[t]
      /\ RecvShape(s, r, new, q[1])
      /\ Trims(s, a, cut, r, Tail(q))
      /\ cut.life = a.life /\ cut.status = a.status
      /\ \A t \in Node : Told(cut, t) = Told(a, t)
  BY <1>1 DEF Reads, Trims
<1>3. /\ a \in NodeState /\ b \in NodeState
      /\ \A n \in Node : Lives(node[n]) => node[n].status + budget.group <= Budget.group
      /\ Lives(b)
  BY <1>2 DEF RInv, TidyAll, IInv, Lives
<1>4. /\ ~Lives(new) \/ new = b
         \/ /\ new.status = b.status /\ new.own_groups = b.own_groups
            /\ \E S : \A t \in Node : Posts(b, new, t, S, "PING_OK")
      /\ ~Lives(new) => \A t \in Node : To(new, t) = To(b, t)
      /\ Lives(new) => new.status = b.status /\ new.own_groups = b.own_groups
      /\ \A t \in Node \ {s} : Told(new, t) = Told(b, t) \/ Told(new, t) = Stranger
  BY <1>2, <1>3 DEF RecvShape, Quiet, Learns, Ends, Lives
<1>5. \A n \in Node : Lives(node'[n]) => node'[n].status + budget'.group <= Budget.group
  <2>1. Lives(cut) => cut.status + budget'.group <= Budget.group
    BY <1>2, <1>3 DEF Lives
  <2>2. Lives(new) => new.status + budget'.group <= Budget.group
    BY <1>2, <1>3, <1>4
  <2> HIDE DEF a, b, q
  <2> QED BY <1>2, <1>3, <2>1, <2>2
<1>6. \E h \in History : Truthful(s, h)'
  <2>1. PICK h \in History : Truthful(s, h)
    BY DEF RInv
  <2>2. /\ Lives(a) => h[a.status] = a.own_groups
        /\ Faithful(Tail(q), Told(new, s), h, a)
        /\ \A t \in Node \ {s, r} : Faithful(To(a, t), Told(node[t], s), h, a)
    BY <1>1, <2>1, ReadTold DEF Truthful
  <2> DEFINE p == Tail(q)
  <2>3. Trims(s, a, cut, r, p) /\ Faithful(p, Told(new, s), h, a)
    BY <1>2, <2>2
  <2> HIDE DEF p, q
  <2>4. /\ Lives(cut) => h[cut.status] = cut.own_groups
        /\ \A t \in Node : \A v : (t # r /\ Faithful(To(a, t), v, h, a))
                                 => Faithful(To(cut, t), v, h, cut)
        /\ \A v : Faithful(p, v, h, a) => Faithful(To(cut, r), v, h, cut)
    BY <1>3, <2>2, <2>3, TrimTruth
  <2> HIDE DEF a, b, cut
  <2>5. \A t \in Node \ {s} : Faithful(To(cut, t), Told(node'[t], s), h, cut)
    BY <1>2, <2>2, <2>3, <2>4
  <2> QED BY <2>4, <2>5 DEF Truthful, cut
<1>7. \E h \in History : Truthful(r, h)'
  <2>1. PICK h \in History : Truthful(r, h)
    BY DEF RInv
  <2>2. /\ h[b.status] = b.own_groups
        /\ \A t \in Node \ {r} : Faithful(To(b, t), Told(node[t], r), h, b)
    BY <1>3, <2>1 DEF Truthful
  <2>3. Lives(new) => h[new.status] = new.own_groups
    BY <1>4, <2>2
  <2>4. ASSUME NEW t \in Node \ {r} PROVE Faithful(To(new, t), Told(node[t], r), h, new)
    <3>0. Faithful(To(b, t), Told(node[t], r), h, b)
      BY <2>2
    <3>1. CASE ~Lives(new)
      BY <1>4, <3>0, <3>1, FaithfulSender
    <3>2. CASE new = b
      BY <3>0, <3>2
    <3>3. ASSUME NEW S, Posts(b, new, t, S, "PING_OK"), new.status = b.status
          PROVE  Faithful(To(new, t), Told(node[t], r), h, new)
      <4> HIDE DEF b
      <4> QED BY <1>3, <2>2, <3>0, <3>3, TruePosts
    <3> QED BY <1>4, <3>1, <3>2, <3>3
  <2>5. \A t \in Node \ {r} : Told(node'[t], r) = Told(node[t], r)
    BY <1>2
  <2> QED BY <1>2, <2>3, <2>4, <2>5 DEF Truthful
<1>8. ASSUME NEW n \in Node \ {s, r} PROVE \E h \in History : Truthful(n, h)'
  <2>1. PICK h \in History : Truthful(n, h)
    BY DEF RInv
  <2>2. \A t \in Node \ {n} : Faithful(To(node[n], t), Told(node[t], n), h, node[n])
    BY <2>1 DEF Truthful
  <2>3. Faithful(To(node[n], r), Told(new, n), h, node[n])
    BY <1>4, <2>2, FaithfulForgotten
  <2>4. Faithful(To(node[n], s), Told(cut, n), h, node[n])
    BY <1>2, <2>2
  <2>5. \A t \in Node \ {n} : Faithful(To(node[n], t), Told(node'[t], n), h, node[n])
    <3> HIDE DEF a, b, q
    <3> QED BY <1>2, <2>2, <2>3, <2>4
  <2>6. node'[n] = node[n]
    BY <1>2
  <2> QED BY <2>1, <2>5, <2>6 DEF Truthful
<1> QED BY <1>5, <1>6, <1>7, <1>8 DEF RInv

LEMMA NextTruth ==
    ASSUME OwnRoom, Budget.group < StatusMod, RInv, [Next]_vars
    PROVE  RInv'
<1>1. TidyAll /\ TidyAll'
  BY NextTidy DEF RInv
<1>2. CASE UNCHANGED vars
  BY <1>1, <1>2 DEF vars, RInv, Truthful
<1>3. ASSUME NEW n \in Node, Api(n) PROVE RInv'
  <2>1. PICK new : Become(n, new) /\ ApiShape(n, new)
    BY <1>1, <1>3, ApiShaped
  <2>2. Start(n) \/ Stop(n) \/ Alive(n) => Lives(node[n])
    BY DEF Start, Stop, Alive, Lives
  <2>3. ASSUME NEW c, Quiet(n, node[n], new, {}, c), Lives(node[n]) PROVE RInv'
    BY <1>1, <2>1, <2>3, QuietTruth
  <2>4. Ends(n, node[n], new) => RInv'
    BY <1>1, <2>1, EndTruth
  <2>5. ASSUME NEW g \in Group, Join(n, g) \/ Leave(n, g), Changes(n, node[n], new)
        PROVE  RInv'
    BY <1>1, <2>1, <2>5, ChangeTruth
  <2> QED BY <2>1, <2>2, <2>3, <2>4, <2>5 DEF ApiShape
<1>4. ASSUME NEW n \in Node, Discover(n) \/ Reaper(n) PROVE RInv'
  <2>1. PICK new : Become(n, new) /\ DiscoverShape(n, new)
    BY <1>1, <1>4, DiscoverShaped, ReaperShaped
  <2>2. PICK S : Quiet(n, node[n], new, S, "PING")
    BY <2>1 DEF DiscoverShape
  <2>3. Lives(node[n])
    BY <2>1 DEF DiscoverShape, Bound, Lives
  <2> QED BY <1>1, <2>1, <2>2, <2>3, QuietTruth
<1>5. ASSUME NEW n \in Node, Network(n) PROVE RInv'
  BY <1>1, <1>5, NetTruth
<1>6. ASSUME NEW r \in Node, NEW s \in Node, RecvPeer(s, r) PROVE RInv'
  BY <1>1, <1>6, ReadTruth
<1> QED BY <1>2, <1>3, <1>4, <1>5, <1>6 DEF Next

-----------------------------------------------------------------------------
(***************************************************************************)
(* The steps of the nodes as the steps of ZyrePresence.                    *)
(***************************************************************************)
\* The state of ZyrePresence.
Up == {n \in Node : Alive(n)}
OwnGroups == [n \in Node |-> node[n].own_groups]
Versions == [n \in Node |-> node[n].status]
Table == [r \in Node |-> [s \in Node |-> ViewOf(r, s)]]

LEMMA TableTold ==
    /\ \A r, s \in Node : Table[r][s] = Told(node[r], s)
    /\ \A r, s \in Node : Table'[r][s] = Told(node'[r], s)
    /\ Table = [r \in Node |-> [s \in Node |-> Told(node[r], s)]]
    /\ Table' = [r \in Node |-> [s \in Node |-> Told(node'[r], s)]]
<1>1. \A r, s : ViewOf(r, s) = Told(node[r], s)
  BY DEF ViewOf, Told, Stranger
<1>2. \A r, s : ViewOf(r, s)' = Told(node'[r], s)
  BY DEF ViewOf, Told, Stranger
<1> QED BY <1>1, <1>2 DEF Table

\* The node lives as it did, in the same groups.
Same(old, new) ==
    /\ Lives(new) <=> Lives(old)
    /\ new.own_groups = old.own_groups /\ new.status = old.status

LEMMA StillUp ==
    ASSUME \A n \in Node : Same(node[n], node'[n])
    PROVE  Up' = Up /\ OwnGroups' = OwnGroups /\ Versions' = Versions
<1>1. Up' = Up
  BY DEF Up, Alive, Same, Lives
<1>2. OwnGroups' = OwnGroups /\ Versions' = Versions
  BY DEF OwnGroups, Versions, Same
<1> QED BY <1>1, <1>2

LEMMA AsExit ==
    ASSUME NEW n \in Node, NEW S \in SUBSET Node, Lives(node[n]),
           \A m \in Node : Same(node[m], node'[m]),
           \A r, t \in Node : Told(node'[r], t) = IF r = n /\ t \in S THEN Stranger
                                                  ELSE Told(node[r], t)
    PROVE  Presence!Next
<1>1. Up' = Up /\ OwnGroups' = OwnGroups /\ Versions' = Versions /\ n \in Up
  BY StillUp DEF Up, Alive, Lives
<1>2. Table' = [Table EXCEPT ![n] = [t \in Node |-> IF t \in S THEN Stranger ELSE @[t]]]
  <2>1. Table' = [r \in Node |-> [t \in Node |-> IF r = n /\ t \in S THEN Stranger
                                                 ELSE Told(node[r], t)]]
    BY TableTold
  <2>2. Table = [r \in Node |-> [t \in Node |-> Told(node[r], t)]]
    BY TableTold
  <2> QED BY <2>1, <2>2
<1>3. Presence!Exit(n, S)
  BY <1>1, <1>2 DEF Presence!Exit, Presence!Nothing, Stranger, Up, OwnGroups, Versions, Table
<1> QED BY <1>3 DEF Presence!Next

LEMMA AsLearn ==
    ASSUME NEW r \in Node, NEW s \in Node, r # s, NEW v \in Presence!View,
           Lives(node[r]), Lives(node[s]) => /\ v.version <= node[s].status
                                             /\ v.version = node[s].status
                                                   => v.groups = node[s].own_groups,
           \A m \in Node : Same(node[m], node'[m]),
           \A n, t \in Node : Told(node'[n], t) = IF n = r /\ t = s THEN v
                                                  ELSE Told(node[n], t)
    PROVE  Presence!Learn(r, s, v)
<1>1. Up' = Up /\ OwnGroups' = OwnGroups /\ Versions' = Versions /\ r \in Up
  BY StillUp DEF Up, Alive, Lives
<1>2. Table' = [Table EXCEPT ![r][s] = v]
  <2>1. Table' = [n \in Node |-> [t \in Node |-> IF n = r /\ t = s THEN v
                                                 ELSE Told(node[n], t)]]
    BY TableTold
  <2>2. Table = [n \in Node |-> [t \in Node |-> Told(node[n], t)]]
    BY TableTold
  <2> QED BY <2>1, <2>2
<1>3. s \in Up => Presence!Lags(s, v)
  BY DEF Presence!Lags, Up, Alive, Lives
<1> QED BY <1>1, <1>2, <1>3 DEF Presence!Learn, Up, OwnGroups, Versions, Table

LEMMA AsChange ==
    ASSUME NEW n \in Node, NEW new, Become(n, new), TidyAll, Lives(node[n]),
           new \in NodeState, Changes(n, node[n], new), new.status = node[n].status + 1
    PROVE  Presence!Next
<1>1. \A m \in Node : node'[m] = IF m = n THEN new ELSE node[m]
  BY DEF Become, TidyAll, IInv
<1>2. /\ Lives(new) /\ new.own_groups \in SUBSET Group
      /\ \A t \in Node : Told(new, t) = Told(node[n], t)
  BY DEF Changes, Lives, NodeState
<1>3. \E g \in Group : \/ /\ g \notin node[n].own_groups
                          /\ new.own_groups = node[n].own_groups \cup {g}
                       \/ /\ g \in node[n].own_groups
                          /\ new.own_groups = node[n].own_groups \ {g}
  BY DEF Changes
<1>4. Up' = Up /\ n \in Up
  BY <1>1, <1>2 DEF Up, Alive, Lives
<1>5. OwnGroups' = [OwnGroups EXCEPT ![n] = new.own_groups] /\ OwnGroups[n] = node[n].own_groups
  BY <1>1 DEF OwnGroups
<1>6. Versions' = [Versions EXCEPT ![n] = @ + 1]
  BY <1>1 DEF Versions
<1>7. Table' = Table
  BY <1>1, <1>2, TableTold
<1>8. Presence!OneChange(OwnGroups[n], new.own_groups) /\ new.own_groups \in Presence!Groups
  BY <1>2, <1>3, <1>5 DEF Presence!OneChange, Presence!Groups
<1>9. Presence!Change(n)
  BY <1>4, <1>5, <1>6, <1>7, <1>8
  DEF Presence!Change, Up, OwnGroups, Versions, Table
<1> QED BY <1>9 DEF Presence!Next

LEMMA AsEnd ==
    ASSUME NEW n \in Node, Lives(node[n]), ~Lives(node'[n]),
           node'[n].own_groups = {}, node'[n].status = 0,
           \A t \in Node : Told(node'[n], t) = Stranger,
           \A m \in Node \ {n} : /\ Same(node[m], node'[m])
                                 /\ \A t \in Node : Told(node'[m], t) = Told(node[m], t)
    PROVE  Presence!Next
<1>1. Up' = Up \ {n} /\ n \in Up
  BY DEF Up, Alive, Lives, Same
<1>2. OwnGroups' = [OwnGroups EXCEPT ![n] = {}]
  BY DEF OwnGroups, Same
<1>3. Versions' = [Versions EXCEPT ![n] = 0]
  BY DEF Versions, Same
<1>4. Table' = [Table EXCEPT ![n] = [t \in Node |-> Stranger]]
  <2>1. Table' = [r \in Node |-> [t \in Node |-> Told(node'[r], t)]]
    BY TableTold
  <2>2. Table = [r \in Node |-> [t \in Node |-> Told(node[r], t)]]
    BY TableTold
  <2>3. ASSUME NEW r \in Node
        PROVE  Table'[r] = IF r = n THEN [t \in Node |-> Stranger] ELSE Table[r]
    <3>1. Table'[r] = [t \in Node |-> Told(node'[r], t)]
      BY <2>1
    <3>2. Table[r] = [t \in Node |-> Told(node[r], t)]
      BY <2>2
    <3> QED BY <3>1, <3>2
  <2> QED BY <2>1, <2>2, <2>3
<1>5. Presence!End(n)
  BY <1>1, <1>2, <1>3, <1>4
  DEF Presence!End, Presence!Nothing, Stranger, Up, OwnGroups, Versions, Table
<1> QED BY <1>5 DEF Presence!Next

LEMMA AsNothing ==
    ASSUME \A m \in Node : /\ Same(node[m], node'[m])
                           /\ \A t \in Node : Told(node'[m], t) = Told(node[m], t)
    PROVE  UNCHANGED Presence!vars
<1>1. Up' = Up /\ OwnGroups' = OwnGroups /\ Versions' = Versions
  BY StillUp
<1>2. Table' = Table
  BY TableTold
<1> QED BY <1>1, <1>2 DEF Presence!vars, Up, OwnGroups, Versions, Table

\* A handler that tells nothing but EXIT.
LEMMA QuietStep ==
    ASSUME TidyAll, NEW n \in Node, NEW new, NEW S \in SUBSET Node, NEW c,
           Become(n, new), Quiet(n, node[n], new, S, c), Lives(node[n]), Lives(new)
    PROVE  Presence!Next
<1>1. \A m \in Node : node'[m] = IF m = n THEN new ELSE node[m]
  BY DEF Become, TidyAll, IInv
<1>2. \A m \in Node : Same(node[m], node'[m])
  BY <1>1 DEF Quiet, Same
<1>3. \A r, t \in Node : Told(node'[r], t) = IF r = n /\ t \in S THEN Stranger
                                             ELSE Told(node[r], t)
  BY <1>1 DEF Quiet
<1> QED BY <1>2, <1>3, AsExit

LEMMA NetStep ==
    ASSUME OwnRoom, TidyAll, NEW n \in Node, Network(n)
    PROVE  UNCHANGED Presence!vars
<1>1. PICK new : Become(n, new) /\ NetShape(n, new)
  BY NetShaped
<1>2. /\ Same(node[n], new)
      /\ \A t \in Node : Told(new, t) = Told(node[n], t)
  BY <1>1 DEF NetShape, Quiet, Trims, Same, Lives
<1>3. \A m \in Node : node'[m] = IF m = n THEN new ELSE node[m]
  BY <1>1 DEF Become, TidyAll, IInv
<1>4. \A m \in Node : /\ Same(node[m], node'[m])
                      /\ \A t \in Node : Told(node'[m], t) = Told(node[m], t)
  BY <1>2, <1>3 DEF Same
<1> QED BY <1>4, AsNothing

LEMMA ApiStep ==
    ASSUME OwnRoom, Budget.group < StatusMod, RInv, NEW n \in Node, Api(n)
    PROVE  Presence!Next
<1>1. TidyAll
  BY DEF RInv
<1>2. PICK new : Become(n, new) /\ ApiShape(n, new)
  BY <1>1, ApiShaped
<1>3. \A m \in Node : node'[m] = IF m = n THEN new ELSE node[m]
  BY <1>1, <1>2 DEF Become, TidyAll, IInv
<1>4. ASSUME NEW c, Quiet(n, node[n], new, {}, c), Lives(node[n]), Lives(new)
      PROVE  Presence!Next
  BY <1>1, <1>2, <1>4, QuietStep
<1>5. CASE Destroy(n) /\ Ends(n, node[n], new)
  <2>1. Lives(node[n]) /\ ~Lives(new)
    BY <1>5 DEF Destroy, Bound, Ends, Lives
  <2>2. /\ new.own_groups = {} /\ new.status = 0
        /\ \A t \in Node : Told(new, t) = Stranger
    BY <1>5 DEF Ends
  <2>3. \A m \in Node \ {n} : /\ Same(node[m], node'[m])
                              /\ \A t \in Node : Told(node'[m], t) = Told(node[m], t)
    BY <1>3 DEF Same
  <2> QED BY <1>3, <2>1, <2>2, <2>3, AsEnd
<1>6. ASSUME NEW g \in Group, Join(n, g) \/ Leave(n, g), Changes(n, node[n], new)
      PROVE  Presence!Next
  <2>1. new.status = node[n].status + 1 /\ Lives(node[n])
    BY <1>6, NextNumber DEF Changes
  <2>2. new \in NodeState
    BY <1>6 DEF Changes, Tidy, Sound
  <2> QED BY <1>1, <1>2, <1>6, <2>1, <2>2, AsChange
<1>7. Start(n) \/ Stop(n) \/ Alive(n) => Lives(node[n])
  BY DEF Start, Stop, Alive, Lives
<1>8. (new.life \in {"stopped", "running"} => Lives(new)) /\ (new.life = node[n].life => (Lives(new) <=> Lives(node[n])))
  BY DEF Lives
<1> QED BY <1>2, <1>4, <1>5, <1>6, <1>7, <1>8 DEF ApiShape

LEMMA DiscoverStep ==
    ASSUME OwnRoom, TidyAll, NEW n \in Node, Discover(n) \/ Reaper(n)
    PROVE  Presence!Next
<1>1. PICK new : Become(n, new) /\ DiscoverShape(n, new)
  BY DiscoverShaped, ReaperShaped
<1>2. PICK S \in SUBSET Node : Quiet(n, node[n], new, S, "PING")
  BY <1>1 DEF DiscoverShape
<1>3. Lives(node[n]) /\ Lives(new)
  BY <1>1 DEF DiscoverShape, Bound, Lives
<1> QED BY <1>1, <1>2, <1>3, QuietStep

\* What a message says of a living node is not ahead of it, nor beside it.
LEMMA SaidLags ==
    ASSUME NEW s \in Node, NEW h, Truthful(s, h), NEW w,
           w.groups = h[w.version], Lives(node[s]) => w.version <= node[s].status
    PROVE  Lives(node[s]) => /\ w.version <= node[s].status
                             /\ w.version = node[s].status => w.groups = node[s].own_groups
BY DEF Truthful

LEMMA HelloStep ==
    ASSUME RInv, NEW s \in Node, NEW r \in Node, NEW new, Reads(s, r, new), Lives(node[r]),
           \A n \in Node : Same(node[n], node'[n]),
           To(node[s], r)[1].command = "HELLO",
           \A n, t \in Node : Told(node'[n], t) =
               IF n = r /\ t = s THEN Introduced(To(node[s], r)[1]) ELSE Told(node[n], t)
    PROVE  Presence!Next
<1> DEFINE q == To(node[s], r)
           m == q[1]
           w == Introduced(m)
           v == Told(node[r], s)
<1>1. s # r /\ q \in Seq(Message) /\ q # <<>> /\ TidyAll
  BY DEF Reads, RInv
<1>2. PICK h \in History : Truthful(s, h)
  BY DEF RInv
<1>3. Faithful(q, v, h, node[s])
  BY <1>1, <1>2 DEF Truthful
<1>4. /\ \A n, t \in Node : Told(node'[n], t) = IF n = r /\ t = s THEN w ELSE Told(node[n], t)
      /\ m.command = "HELLO"
  OBVIOUS
<1> HIDE DEF q
<1>5. m \in Message /\ 1 \in DOMAIN q /\ Tells(m)
  BY <1>1, <1>4 DEF Tells
<1>6. Names(m, h)
  BY <1>3, <1>5 DEF Faithful
<1>7. w.known /\ w.version = m.status /\ w.groups = m.groups /\ w.groups = h[w.version]
  BY <1>4, <1>6 DEF Introduced, Names
<1>8. w \in Presence!View
  BY <1>5 DEF Introduced, Presence!View, Presence!Groups, Message, Status
<1>9. Lives(node[s]) => w.version <= node[s].status
  BY <1>3, <1>5, <1>7 DEF Faithful
<1>10. v.known => v.version <= w.version
  BY <1>3, <1>5, <1>7 DEF Faithful
<1>11. v.version \in Nat /\ w.version \in Nat
  BY <1>1, <1>5, <1>7, ToldStatus, StatusNat DEF TidyAll, Status
<1> HIDE DEF w, v
<1>12. Lives(node[s]) => /\ w.version <= node[s].status
                         /\ w.version = node[s].status => w.groups = node[s].own_groups
  BY <1>2, <1>7, <1>9, SaidLags
<1>13. Presence!Learn(r, s, w)
  BY <1>1, <1>4, <1>8, <1>12, AsLearn
<1>14. Table[r][s] = v
  BY TableTold DEF v
<1>15. CASE ~v.known
  <2>1. ~Table[r][s].known
    BY <1>14, <1>15
  <2>2. Presence!Enter(r, s)
    BY <1>7, <1>8, <1>13, <2>1 DEF Presence!Enter, Table
  <2> QED BY <2>2 DEF Presence!Next
<1>16. CASE v.known
  <2>1. Table[r][s].known /\ w.version >= Table[r][s].version
    BY <1>10, <1>11, <1>14, <1>16
  <2>2. Presence!Renew(r, s)
    BY <1>7, <1>8, <1>13, <2>1 DEF Presence!Renew, Table
  <2> QED BY <2>2 DEF Presence!Next
<1> QED BY <1>15, <1>16

LEMMA NextView ==
    ASSUME NEW v \in [known: BOOLEAN, version: Nat, groups: SUBSET Group],
           NEW w \in [known: BOOLEAN, version: Nat, groups: SUBSET Group],
           w.known = v.known, w.version = v.version + 1
    PROVE  w = [v EXCEPT !.version = @ + 1, !.groups = w.groups]
<1> DEFINE View == [known: BOOLEAN, version: Nat, groups: SUBSET Group]
<1>1. ASSUME NEW x \in Nat, NEW y \in SUBSET Group, NEW z, z = [v EXCEPT !.version = x, !.groups = y]
      PROVE  z \in View /\ z.known = v.known /\ z.version = x /\ z.groups = y
  BY <1>1
<1> DEFINE z == [v EXCEPT !.version = v.version + 1, !.groups = w.groups]
<1>2. v.version + 1 \in Nat /\ w.groups \in SUBSET Group
  OBVIOUS
<1>3. z \in View /\ z.known = v.known /\ z.version = v.version + 1 /\ z.groups = w.groups
  BY <1>1, <1>2
<1> HIDE DEF z
<1>4. z = w
  BY <1>3
<1> QED BY <1>4 DEF z

LEMMA FollowStep ==
    ASSUME RInv, NEW s \in Node, NEW r \in Node, NEW new, Reads(s, r, new), Lives(node[r]),
           \A n \in Node : Same(node[n], node'[n]),
           To(node[s], r)[1].command \in {"JOIN", "LEAVE"}, s \in node[r].ready,
           To(node[s], r)[1].status = NextStatus(node[r].peer_status[s]),
           \A n, t \in Node : Told(node'[n], t) =
               IF n = r /\ t = s THEN Followed(Told(node[r], s), To(node[s], r)[1])
               ELSE Told(node[n], t)
    PROVE  Presence!Next
<1> DEFINE q == To(node[s], r)
           m == q[1]
           v == Told(node[r], s)
           w == Followed(v, m)
<1>1. s # r /\ q \in Seq(Message) /\ q # <<>> /\ Tidy(r, node[r])
  BY DEF Reads, RInv, TidyAll
<1>2. PICK h \in History : Truthful(s, h)
  BY DEF RInv
<1>3. Faithful(q, v, h, node[s])
  BY <1>1, <1>2 DEF Truthful
<1>4. /\ \A n, t \in Node : Told(node'[n], t) = IF n = r /\ t = s THEN w ELSE Told(node[n], t)
      /\ m.command \in {"JOIN", "LEAVE"} /\ m.status = NextStatus(node[r].peer_status[s])
  OBVIOUS
<1>5. v.known /\ v.version = node[r].peer_status[s] /\ v.version \in Status
      /\ \E k, f : v = [known |-> TRUE, version |-> k, groups |-> f]
  BY <1>1, ToldStatus DEF Told, Stranger
<1> HIDE DEF q
<1>6. m \in Message /\ 1 \in DOMAIN q /\ Tells(m)
  BY <1>1, <1>4 DEF Tells
<1>7. Names(m, h) /\ v.groups = h[v.version] /\ m.status = NextStatus(v.version)
  BY <1>3, <1>4, <1>5, <1>6 DEF Faithful
<1>8. /\ w.known /\ w.version = m.status /\ w.version = v.version + 1
      /\ w.groups = h[w.version]
      /\ \E g \in Group : \/ g \notin v.groups /\ w.groups = v.groups \cup {g}
                          \/ g \in v.groups /\ w.groups = v.groups \ {g}
  <2> HIDE DEF v, m
  <2> QED BY <1>4, <1>5, <1>6, <1>7, FollowedTrue
<1>9. w.version \in Status /\ w.groups \in SUBSET Group
  BY <1>6, <1>8 DEF Message, History, Status
<1>10. PICK x, y : w = [known |-> TRUE, version |-> x, groups |-> y]
  BY DEF Followed
<1>11. Lives(node[s]) => w.version <= node[s].status
  BY <1>3, <1>6, <1>8 DEF Faithful
<1> HIDE DEF w, v
<1>12. w \in Presence!View
  <2>1. x \in Status /\ y \in SUBSET Group
    BY <1>9, <1>10
  <2> QED BY <1>10, <2>1 DEF Presence!View, Presence!Groups, Status
<1>13. Lives(node[s]) => /\ w.version <= node[s].status
                         /\ w.version = node[s].status => w.groups = node[s].own_groups
  BY <1>2, <1>8, <1>11, SaidLags
<1>14. Presence!Learn(r, s, w)
  BY <1>1, <1>4, <1>12, <1>13, AsLearn
<1>15. Table[r][s] = v
  BY TableTold DEF v
<1>16. w = [v EXCEPT !.version = @ + 1, !.groups = w.groups]
  <2> DEFINE View == [known: BOOLEAN, version: Nat, groups: SUBSET Group]
  <2>1. v \in View
    <3>1. PICK k, f : v = [known |-> TRUE, version |-> k, groups |-> f]
      BY <1>5
    <3>2. k \in Nat /\ f \in SUBSET Group
      BY <1>5, <1>7, <3>1 DEF History, Status
    <3> QED BY <3>1, <3>2
  <2>2. w \in View
    BY <1>12 DEF Presence!View, Presence!Groups
  <2>3. w.known = v.known /\ w.version = v.version + 1
    BY <1>5, <1>8
  <2> HIDE DEF View
  <2> QED BY <2>1, <2>2, <2>3, NextView DEF View
<1>17. Presence!OneChange(v.groups, w.groups) /\ w.groups \in Presence!Groups
  BY <1>8, <1>9 DEF Presence!OneChange, Presence!Groups
<1>18. /\ Table[r][s].known
       /\ Presence!OneChange(Table[r][s].groups, w.groups)
       /\ Presence!Learn(r, s, [Table[r][s] EXCEPT !.version = @ + 1, !.groups = w.groups])
  BY <1>5, <1>14, <1>15, <1>16, <1>17
<1>19. Presence!Follow(r, s)
  BY <1>17, <1>18 DEF Presence!Follow, Table
<1> QED BY <1>19 DEF Presence!Next

LEMMA ReadStep ==
    ASSUME OwnRoom, RInv, NEW s \in Node, NEW r \in Node, RecvPeer(s, r)
    PROVE  Presence!Next \/ UNCHANGED Presence!vars
<1>1. PICK new : Reads(s, r, new)
  BY ReadShaped DEF RInv
<1> DEFINE a == node[s]
           b == node[r]
           m == To(a, r)[1]
<1>2. /\ s # r /\ Lives(b) /\ RecvShape(s, r, new, m) /\ node'[r] = new
      /\ \A t \in Node \ {s, r} : node'[t] = node[t]
      /\ Same(a, node'[s]) /\ \A t \in Node : Told(node'[s], t) = Told(a, t)
  BY <1>1 DEF Reads, Trims, Same, Lives
<1> HIDE DEF m
<1>3. \A n \in Node \ {r} : /\ Same(node[n], node'[n])
                            /\ \A t \in Node : Told(node'[n], t) = Told(node[n], t)
  BY <1>2 DEF Same
<1>4. ASSUME Same(b, new) PROVE \A n \in Node : Same(node[n], node'[n])
  BY <1>2, <1>3, <1>4
<1>5. ASSUME Same(b, new), NEW S \in SUBSET Node,
             \A t \in Node : Told(new, t) = IF t \in S THEN Stranger ELSE Told(b, t)
      PROVE  Presence!Next
  <2>1. \A n, t \in Node : Told(node'[n], t) = IF n = r /\ t \in S THEN Stranger
                                               ELSE Told(node[n], t)
    BY <1>2, <1>3, <1>5
  <2> QED BY <1>2, <1>4, <1>5, <2>1, AsExit
<1>6. ASSUME new.life = b.life, NEW S \in SUBSET Node, Quiet(r, b, new, S, "PING_OK")
      PROVE  Presence!Next
  <2>1. Same(b, new)
    BY <1>6 DEF Quiet, Same, Lives
  <2> QED BY <1>5, <1>6, <2>1 DEF Quiet
<1>7. CASE new = b
  <2>1. Same(b, new)
    BY <1>7 DEF Same
  <2>2. \A n \in Node : /\ Same(node[n], node'[n])
                        /\ \A t \in Node : Told(node'[n], t) = Told(node[n], t)
    BY <1>2, <1>3, <1>7, <2>1
  <2> QED BY <2>2, AsNothing
<1>8. ASSUME new.life = b.life, NEW v, NEW S, Learns(r, b, new, s, v, S, "PING_OK")
      PROVE  /\ \A n \in Node : Same(node[n], node'[n])
             /\ \A n, t \in Node : Told(node'[n], t) = IF n = r /\ t = s THEN v
                                                       ELSE Told(node[n], t)
  <2>1. Same(b, new)
    BY <1>8 DEF Learns, Same, Lives
  <2>2. \A t \in Node : Told(new, t) = IF t = s THEN v ELSE Told(b, t)
    BY <1>8 DEF Learns
  <2> QED BY <1>2, <1>3, <1>4, <2>1, <2>2
<1>9. ASSUME m.command = "HELLO", new.life = b.life, NEW S,
             Learns(r, b, new, s, Introduced(m), S, "PING_OK")
      PROVE  Presence!Next
  BY <1>1, <1>2, <1>8, <1>9, HelloStep DEF m
<1>10. ASSUME m.command \in {"JOIN", "LEAVE"}, s \in b.ready,
              m.status = NextStatus(b.peer_status[s]), new.life = b.life,
              Learns(r, b, new, s, Followed(Told(b, s), m), {}, "PING_OK")
       PROVE  Presence!Next
  BY <1>1, <1>2, <1>8, <1>10, FollowStep DEF m
<1>11. CASE Ends(r, b, new)
  BY <1>2, <1>3, <1>11, AsEnd DEF Ends, Lives
<1> HIDE DEF a, b
<1> QED BY <1>2, <1>6, <1>7, <1>9, <1>10, <1>11 DEF RecvShape, b

LEMMA InitPresence == Init => Presence!Init
<1> SUFFICES ASSUME Init PROVE Presence!Init
  OBVIOUS
<1>1. \A n \in Node : node[n] = NewNode
  BY DEF Init
<1>2. Up = Node
  BY <1>1 DEF Up, Alive, NewNode
<1>3. OwnGroups = [n \in Node |-> {}] /\ Versions = [n \in Node |-> 0]
  BY <1>1 DEF OwnGroups, Versions, NewNode
<1>4. \A s \in Node : Told(NewNode, s) = Stranger
  BY DEF Told, NewNode
<1>5. Table = [r \in Node |-> [s \in Node |-> Stranger]]
  BY <1>1, <1>4, TableTold
<1> QED BY <1>2, <1>3, <1>5
    DEF Presence!Init, Presence!Nothing, Stranger, Up, OwnGroups, Versions, Table

LEMMA NextPresence ==
    ASSUME OwnRoom, Budget.group < StatusMod, RInv, [Next]_vars
    PROVE  Presence!Next \/ UNCHANGED Presence!vars
<1>1. TidyAll
  BY DEF RInv
<1>2. CASE UNCHANGED vars
  BY <1>2, AsNothing DEF vars, Same
<1>3. CASE Next
  BY <1>1, <1>3, ApiStep, DiscoverStep, NetStep, ReadStep DEF Next
<1> QED BY <1>2, <1>3

\* The nodes implement ZyrePresence: for the events of zyre_node.c, ENTER and
\* EXIT alternate, JOIN and LEAVE tell what the peer did, one by one and in
\* order, and a view is never ahead of the peer nor beside it.  It holds even
\* when connections break, as long as no status counter wraps.
THEOREM PromiseKept ==
    ASSUME OwnRoom, Budget.group < StatusMod
    PROVE  Spec => KeepsPromise
<1>1. Init => RInv /\ Presence!Init
  BY InitTruth, InitPresence
<1>2. RInv /\ [Next]_vars => RInv'
  BY NextTruth
<1>3. RInv /\ [Next]_vars => [Presence!Next]_(Presence!vars)
  BY NextPresence
<1> QED BY <1>1, <1>2, <1>3, PTL DEF Spec, KeepsPromise, Presence!Spec

=============================================================================
