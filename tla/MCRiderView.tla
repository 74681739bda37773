---------------------------- MODULE MCRiderView ----------------------------
(* Simulated drivers, riders and one dashboard, for TLC. *)
EXTENDS RiderView

CONSTANTS d1, d2, r1, r2

Scenario(ds, rs, nRides, nResets, open, nDrops, short, clicks) ==
    [drivers |-> ds, riders |-> rs, maxRides |-> nRides, maxResets |-> nResets,
     dashboard |-> open, maxDrops |-> nDrops, shortRides |-> short, panel |-> clicks]

MCScenarios ==
    {Scenario({d1, d2}, {r1, r2}, 2, 1, FALSE, 0, FALSE, FALSE),
     Scenario({d1}, {r1, r2}, 2, 0, FALSE, 0, TRUE, FALSE),
     Scenario({d1}, {r1, r2}, 2, 0, FALSE, 0, FALSE, TRUE),
     Scenario({d1}, {r1}, 2, 1, FALSE, 0, FALSE, TRUE),
     Scenario({d1}, {}, 2, 0, TRUE, 0, FALSE, FALSE),
     Scenario({d1}, {}, 1, 0, TRUE, 1, FALSE, FALSE),
     Scenario({d1}, {}, 1, 0, TRUE, 0, FALSE, TRUE)}

MCDashboardOnly == {Scenario({d1, d2}, {}, 2, 0, TRUE, 0, FALSE, FALSE)}
=============================================================================
