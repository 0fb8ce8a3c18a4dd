------------------------- MODULE MCDistributedRun ---------------------------
EXTENDS DistributedRun, TLC

CONSTANTS vps, laptop, workpc

MCManifests == (SUBSET Nodes) \ {{}}
MCLeaseOf == [n \in Nodes |-> 1]

\* Both workers while the operator keeps out of it, or an operator who pauses, resumes
\* and releases beside the laptop's worker, with the worker of the VPS not started.
Unattended == commands = 0
VpsAtRest == pc[vps] = "loop" /\ failures[vps] = 0 /\ agent[vps] = NoCommand

MCSpec == Init /\ [][Next /\ (Unattended' \/ VpsAtRest')]_vars
=============================================================================
