------------------------------- MODULE MCZreMsg -------------------------------
(***************************************************************************)
(* Values of the constants for the run of ZreMsg: Base is 16, a buffer     *)
(* holds 15 octets.                                                        *)
(***************************************************************************)
EXTENDS ZreMsg

Repeated(octet, n) == [i \in 1 .. n |-> octet]

Short == <<7>>
Full  == Repeated(5, Base)      \* one octet more than a buffer holds
MCText == {Full}
MCNumber == {300}
MCGroupList == { <<Short, Full>> }
\* A nested name before the name of its section, a name that begins with '/'.
MCHeaderHash == { << <<Short \o <<Slash>> \o Short, <<>>>>, <<Short, Short>>,
                     <<<<Slash>> \o Repeated(5, Base - 2), Full>> >>,
                  << <<Full, Short>> >> }
MCContent == { <<>>, << <<0, 9>>, <<>> >> }
MCRoutingId == { <<3>> }
MCGarbage == {0, 1}

\* A HELLO that promises more than it has, a JOIN without a status, and behind them
\* frames that the next call takes for a message: an empty one, a wrong signature,
\* a routing id with nothing behind it.
Intro(id) == PutNumber2(Signature) \o <<id, 2, 0, 1>>
MCStray ==
    { << Intro(HELLO) \o <<1, 4, 0, 0, 0, 2, 0, 0, 0, 1, 9>>, <<1>>, <<>> >>,
      << Intro(JOIN) \o <<1, 4>>, <<>>, <<1, 1, 4>>, <<8>> >> }

MCBudget(set, take, send, stray, copy, test) ==
    [set |-> set, take |-> take, send |-> send, stray |-> stray, copy |-> copy,
     test |-> test]

Few == MCBudget(2, 1, 2, 1, 1, 2)

=============================================================================
