------------------------ MODULE MCLeaseCoordinator --------------------------
EXTENDS LeaseCoordinator, TLC

CONSTANTS n1, n2, m1, m2

MCLeaseOf == (n1 :> 2) @@ (n2 :> 1)
=============================================================================
