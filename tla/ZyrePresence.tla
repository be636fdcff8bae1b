----------------------------- MODULE ZyrePresence -----------------------------
(***************************************************************************)
(* What Zyre promises an application about the other nodes, whatever the   *)
(* protocol does for it: ENTER and EXIT alternate, and in between the      *)
(* JOIN and LEAVE events tell, one by one and in order, the changes that   *)
(* the peer made to its groups.  A view may lag behind; it is never ahead, *)
(* and once it has caught up it is exact.                                  *)
(*                                                                         *)
(* A peer numbers its changes.  ZyreNode implements this specification as  *)
(* long as a mailbox is never full or purged and the numbers do not wrap.  *)
(***************************************************************************)
EXTENDS Naturals

CONSTANTS
    Node, Group,
    MaxVersion      \* bound: changes a peer makes

VARIABLES
    up,         \* the nodes that live
    own,        \* own[s]: the groups of s
    version,    \* version[s]: how often s has changed them
    view        \* view[r][s]: what the events of r tell of s

vars == <<up, own, version, view>>

Groups == SUBSET Group
View == [known: BOOLEAN, version: 0 .. MaxVersion, groups: Groups]
Nothing == [known |-> FALSE, version |-> 0, groups |-> {}]

\* groups and next differ in one group.
OneChange(groups, next) ==
    \E g \in Group : \/ g \notin groups /\ next = groups \cup {g}
                     \/ g \in groups /\ next = groups \ {g}

\* v is a past or the present state of the groups of s.
Lags(s, v) ==
    /\ v.version <= version[s]
    /\ v.version = version[s] => v.groups = own[s]

Init ==
    /\ up = Node
    /\ own = [s \in Node |-> {}]
    /\ version = [s \in Node |-> 0]
    /\ view = [r \in Node |-> [s \in Node |-> Nothing]]

Change(s) ==
    /\ s \in up
    /\ \E next \in Groups : OneChange(own[s], next) /\ own' = [own EXCEPT ![s] = next]
    /\ version' = [version EXCEPT ![s] = @ + 1]
    /\ UNCHANGED <<up, view>>

\* The view r has of s becomes v.
Learn(r, s, v) ==
    /\ r \in up /\ r # s /\ v \in View
    /\ s \in up => Lags(s, v)
    /\ view' = [view EXCEPT ![r][s] = v]
    /\ UNCHANGED <<up, own, version>>

\* ENTER, with the JOINs of the groups the peer is in.
Enter(r, s) ==
    /\ ~view[r][s].known
    /\ \E v \in View : v.known /\ Learn(r, s, v)

\* EXIT and ENTER at once, when a peer says HELLO again: nothing is unlearnt.
Renew(r, s) ==
    /\ view[r][s].known
    /\ \E v \in View : v.known /\ v.version >= view[r][s].version /\ Learn(r, s, v)

\* JOIN or LEAVE
Follow(r, s) ==
    /\ view[r][s].known
    /\ \E next \in Groups :
        /\ OneChange(view[r][s].groups, next)
        /\ Learn(r, s, [view[r][s] EXCEPT !.version = @ + 1, !.groups = next])

\* EXIT
Exit(r, S) ==
    /\ r \in up
    /\ view' = [view EXCEPT ![r] = [s \in Node |-> IF s \in S THEN Nothing ELSE @[s]]]
    /\ UNCHANGED <<up, own, version>>

\* A node ends: it has no groups and tells nothing any more.
End(n) ==
    /\ n \in up
    /\ up' = up \ {n}
    /\ own' = [own EXCEPT ![n] = {}]
    /\ version' = [version EXCEPT ![n] = 0]
    /\ view' = [view EXCEPT ![n] = [s \in Node |-> Nothing]]

Next ==
    \/ \E s \in Node : Change(s) \/ End(s)
    \/ \E r, s \in Node : Enter(r, s) \/ Renew(r, s) \/ Follow(r, s)
    \/ \E r \in Node, S \in SUBSET Node : Exit(r, S)

Spec == Init /\ [][Next]_vars

\* Whoever has seen all the changes of a living node knows its groups: what
\* the events say of a peer is never ahead of it nor beside it.
NeverAhead ==
    \A r \in Node : \A s \in up : view[r][s].known => Lags(s, view[r][s])

=============================================================================
