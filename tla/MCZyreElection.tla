-------------------------- MODULE MCZyreElection --------------------------
(***************************************************************************)
(* Values of Budget for the runs of ZyreElection.                          *)
(***************************************************************************)
EXTENDS ZyreElection

Allow(contest, join, leave, die) ==
    [contest |-> contest, join |-> join, leave |-> leave, die |-> die]

NoChange   == Allow(0, 0, 0, 0)
AllJoin    == Allow(0, 4, 0, 0)
ManyChange == Allow(1, 1, 2, 1)

=============================================================================
