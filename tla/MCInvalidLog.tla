---------------------------- MODULE MCInvalidLog ----------------------------
(* Instances of InvalidLog for TLC. *)
EXTENDS InvalidLog, TLC

CONSTANTS e1, u1, t1, t2

MCTimes == {1, 2}
MCCalls == (t1 :> 2) @@ (t2 :> 1)
MCEmptyOnly == {Empty}
\* One entry seen early or late, and the URL withheld at another time.
MCSome ==
    {Empty, [invalid |-> [e \in Entries |-> 2], withheld |-> {<<u1, 1>>}],
            [invalid |-> [e \in Entries |-> 1], withheld |-> {<<u1, 2>>}]}
=============================================================================
