---------------------------- MODULE MCTripStore ----------------------------
(* Two servers on one Redis, for TLC. *)
EXTENDS TripStore, TLC

MCEnvironments ==
    {e \cup {"lapse"} : e \in {{}, {"two"}, {"resend"}, {"restart"}, {"resend", "restart"},
                               {"two", "resend"}, {"two", "restart"}}}
MCTripLimit == [e \in MCEnvironments |-> IF Cardinality(e) < 3 THEN 3 ELSE 2]
MCActiveRiders ==
    [e \in MCEnvironments |->
        IF e \cap {"two", "resend"} = {} THEN Riders ELSE {CHOOSE r \in Riders : TRUE}]
MCTwoServers == {{"two"}}
MCTwoTripLimit == [e \in MCTwoServers |-> 3]
MCTwoActiveRiders == [e \in MCTwoServers |-> Riders]

Symmetric == Permutations(Servers)

=============================================================================
