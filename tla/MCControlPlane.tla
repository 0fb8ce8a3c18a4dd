--------------------------- MODULE MCControlPlane ---------------------------
(* The two control planes of a distributed run beyond the instance of       *)
(* MCDistributedRun: the Cloudflare relay (CloudRelay), and remote workers  *)
(* over the SSH gateway (DistributedRun). They share no state; a behaviour  *)
(* runs one of them (part).                                                 *)
EXTENDS CloudRelay, DistributedRun, TLC

CONSTANTS
    n1, n2,   \* the nodes of the relay
    vps, laptop, workpc   \* the nodes of the SSH runs

VARIABLE part   \* the component that runs, chosen once

\* Two remote workers and no worker on the VPS, one batch of two candidates.
MCManifests == (SUBSET Nodes) \ {{}}
MCLeaseOf == [n \in Nodes |-> 1]

-----------------------------------------------------------------------------
\* The relay, in two ways. Results of one batch, one of whose calls may arrive late.
ResultBound ==
    /\ clock <= 3
    /\ \A n \in RelayNodes : call[n] # None =>
          call[n].batch = 1 /\ call[n].kind \in {"claim", "artifact", "manifest", "ready"}

\* Leases of two batches, no call of which arrives late.
LeaseBound ==
    /\ lates = 0 /\ \A n \in RelayNodes : calls[n] <= 3
    /\ \A n \in RelayNodes : call[n] # None =>
          call[n].kind \in {"auto", "heartbeat", "pause", "paused", "resume", "release"}

-----------------------------------------------------------------------------
\* The components share no state: the ones that do not run stay in their initial states.
MCInit == part \in {"relay", "lease", "remote"} /\ RelayInit /\ Init

MCNext ==
    \/ part = "relay" /\ RelayNext /\ ResultBound' /\ UNCHANGED <<part, vars>>
    \/ part = "lease" /\ RelayNext /\ LeaseBound' /\ UNCHANGED <<part, vars>>
    \/ part = "remote" /\ Next /\ UNCHANGED <<part, relayVars>>

MCSpec == MCInit /\ [][MCNext]_<<part, relayVars, vars>>

RelaySymmetry == Permutations({n1, n2})
=============================================================================
