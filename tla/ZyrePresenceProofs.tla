-------------------------- MODULE ZyrePresenceProofs --------------------------
(***************************************************************************)
(* The promise of ZyrePresence, for any nodes, groups and number of        *)
(* changes: a view is never ahead of the peer nor beside it.               *)
(***************************************************************************)
EXTENDS ZyrePresence, TLAPS

\* Versions are numbers, and an unknown peer has told nothing.
Typed ==
    /\ up \subseteq Node
    /\ own \in [Node -> Groups]
    /\ version \in [Node -> Nat]
    /\ view \in [Node -> [Node -> View]]

Inv == Typed /\ NeverAhead

LEMMA InitInv == ASSUME MaxVersion \in Nat, Init PROVE Inv
<1>1. Nothing \in View
  BY DEF Nothing, View, Groups
<1>2. Typed
  BY <1>1 DEF Init, Typed, Groups
<1>3. NeverAhead
  BY DEF Init, NeverAhead, Nothing
<1> QED
  BY <1>2, <1>3 DEF Inv

\* What a step of Learn does, whoever takes it.
LEMMA LearnInv ==
    ASSUME NEW r \in Node, NEW s \in Node, NEW v, Inv, Learn(r, s, v)
    PROVE  Inv'
<1>1. Typed'
  BY DEF Inv, Typed, Learn
<1>2. \A q \in Node, t \in Node :
          view'[q][t] = IF q = r /\ t = s THEN v ELSE view[q][t]
  BY DEF Inv, Typed, Learn
<1>3. ASSUME NEW q \in Node, NEW t \in up', view'[q][t].known
      PROVE  Lags(t, view[q][t])'
  <2>1. t \in Node /\ t \in up
    BY <1>3 DEF Learn, Inv, Typed
  <2>2. CASE q = r /\ t = s
    BY <2>1, <2>2, <1>2 DEF Learn, Lags
  <2>3. CASE ~(q = r /\ t = s)
    <3>1. view'[q][t] = view[q][t]
      BY <2>1, <2>3, <1>2
    <3>2. Lags(t, view[q][t])
      BY <1>3, <2>1, <3>1 DEF Inv, NeverAhead
    <3> QED
      BY <3>1, <3>2 DEF Learn, Lags
  <2> QED
    BY <2>2, <2>3
<1> QED
  BY <1>1, <1>3 DEF Inv, NeverAhead

LEMMA ChangeInv == ASSUME NEW s \in Node, Inv, Change(s) PROVE Inv'
<1>1. Typed'
  BY DEF Inv, Typed, Change
<1>2. ASSUME NEW q \in Node, NEW t \in up', view'[q][t].known
      PROVE  Lags(t, view[q][t])'
  <2>1. t \in Node /\ t \in up /\ Lags(t, view[q][t]) /\ view'[q][t] = view[q][t]
    BY <1>2 DEF Change, Inv, Typed, NeverAhead
  <2>2. view[q][t].version \in Nat /\ version[t] \in Nat
    BY <2>1 DEF Inv, Typed, View
  <2>3. CASE t = s
    BY <2>1, <2>2, <2>3 DEF Change, Lags, Inv, Typed
  <2>4. CASE t # s
    BY <2>1, <2>2, <2>4 DEF Change, Lags, Inv, Typed
  <2> QED
    BY <2>3, <2>4
<1> QED
  BY <1>1, <1>2 DEF Inv, NeverAhead

LEMMA ExitInv ==
    ASSUME NEW r \in Node, NEW S \in SUBSET Node, MaxVersion \in Nat, Inv, Exit(r, S)
    PROVE  Inv'
<1>1. Nothing \in View
  BY DEF Nothing, View, Groups
<1>2. Typed'
  BY <1>1 DEF Inv, Typed, Exit
<1>3. \A q, t \in Node : view'[q][t].known => view'[q][t] = view[q][t]
  BY DEF Inv, Typed, Exit, Nothing
<1>4. NeverAhead'
  BY <1>3 DEF Inv, Typed, NeverAhead, Exit, Lags
<1> QED
  BY <1>2, <1>4 DEF Inv

LEMMA EndInv == ASSUME NEW n \in Node, MaxVersion \in Nat, Inv, End(n) PROVE Inv'
<1>1. Nothing \in View
  BY DEF Nothing, View, Groups
<1>2. Typed'
  BY <1>1 DEF Inv, Typed, End, Groups
<1>3. \A q, t \in Node : view'[q][t].known => view'[q][t] = view[q][t]
  BY DEF Inv, Typed, End, Nothing
<1>4. ASSUME NEW q \in Node, NEW t \in up', view'[q][t].known
      PROVE  Lags(t, view[q][t])'
  <2>1. t \in Node /\ t \in up /\ t # n
    BY <1>4 DEF End, Inv, Typed
  <2>2. own'[t] = own[t] /\ version'[t] = version[t]
    BY <2>1 DEF End, Inv, Typed
  <2>3. view'[q][t] = view[q][t] /\ Lags(t, view[q][t])
    BY <1>3, <1>4, <2>1 DEF Inv, NeverAhead
  <2> QED
    BY <2>2, <2>3 DEF Lags
<1> QED
  BY <1>2, <1>4 DEF Inv, NeverAhead

\* Whoever has seen every change of a living peer knows exactly its groups, and
\* nobody has seen more changes than there were: what the JOIN and LEAVE events
\* of zyre_node.c tell is a past or present state of the peer.
THEOREM ViewsAreReal == ASSUME MaxVersion \in Nat PROVE Spec => []NeverAhead
<1>1. Init => Inv
  BY InitInv
<1>2. Inv /\ [Next]_vars => Inv'
  <2> SUFFICES ASSUME Inv, [Next]_vars PROVE Inv'
    OBVIOUS
  <2>1. CASE UNCHANGED vars
    BY <2>1 DEF vars, Inv, Typed, NeverAhead, Lags
  <2>2. ASSUME NEW s \in Node, Change(s) PROVE Inv'
    BY <2>2, ChangeInv
  <2>3. ASSUME NEW s \in Node, End(s) PROVE Inv'
    BY <2>3, EndInv
  <2>4. ASSUME NEW r \in Node, NEW s \in Node, Enter(r, s) PROVE Inv'
    BY <2>4, LearnInv DEF Enter
  <2>5. ASSUME NEW r \in Node, NEW s \in Node, Renew(r, s) PROVE Inv'
    BY <2>5, LearnInv DEF Renew
  <2>6. ASSUME NEW r \in Node, NEW s \in Node, Follow(r, s) PROVE Inv'
    <3>1. PICK next \in Groups :
              Learn(r, s, [view[r][s] EXCEPT !.version = @ + 1, !.groups = next])
      BY <2>6 DEF Follow
    <3> QED
      BY <3>1, LearnInv
  <2>7. ASSUME NEW r \in Node, NEW S \in SUBSET Node, Exit(r, S) PROVE Inv'
    BY <2>7, ExitInv
  <2> QED
    BY <2>1, <2>2, <2>3, <2>4, <2>5, <2>6, <2>7 DEF Next
<1> QED
  BY <1>1, <1>2, PTL DEF Spec, Inv

=============================================================================
