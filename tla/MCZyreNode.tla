---------------------------- MODULE MCZyreNode ----------------------------
(* Small instances of ZyreNode for TLC. *)
EXTENDS ZyreNode, TLC

CONSTANTS n1, n2, n3

\* Every node has an endpoint of its own.
OwnEndpoints == [n \in Node |-> n]

\* n3 is n2's successor: a process restarted on the endpoint of n2.
Successor == [n \in Node |-> IF n = n3 THEN n2 ELSE n]

Allow(group, data, require, halt, suspect, ping, drop, refuse) ==
    [group |-> group, data |-> data, require |-> require, halt |-> halt,
     suspect |-> suspect, ping |-> ping, drop |-> drop, refuse |-> refuse]

\*                        group data require halt suspect ping drop refuse
BeaconBudget     == Allow(3,    1,   0,      1,   1,      0,   0,   0)
SettleBudget     == Allow(2,    0,   0,      1,   0,      1,   0,   0)
FaultBudget      == Allow(1,    0,   0,      1,   0,      0,   1,   1)
StormBudget      == Allow(0,    0,   0,      0,   1,      0,   0,   0)
LossBudget       == Allow(2,    0,   0,      0,   1,      0,   1,   0)
GossipBudget     == Allow(2,    1,   1,      0,   0,      1,   0,   0)

Symmetry == Permutations(Node)
=============================================================================
