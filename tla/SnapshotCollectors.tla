------------------------- MODULE SnapshotCollectors -------------------------
(***************************************************************************)
(* The collectors that poll the host and diff snapshots of it, as           *)
(* runtime.py's build_collectors puts them together: each enabled one scans *)
(* in its own worker thread, and they share nothing but the host.           *)
(***************************************************************************)
EXTENDS ProcessCollector, FileIntegrity

CONSTANTS Ports, SocketLimits, MaxOpened, MaxActivity

ASSUME SocketAssumption == SocketLimits \subseteq Nat /\ MaxOpened \in Nat

VARIABLES
  enabled,   \* settings.enabled_collectors
  socks, opened, turns, readable, maxSockets, tracked, netPc, own, rows, found,
  netBaseline, netSeeded, netEvents, netTold, netCut, netQuiet

Network == INSTANCE NetworkCollector

netVars == <<socks, opened, turns, readable, maxSockets, tracked, netPc, own, rows, found,
             netBaseline, netSeeded, netEvents, netTold, netCut, netQuiet>>

allVars == <<vars, netVars, integrityVars, enabled>>

BuildCollectors == enabled \in SUBSET {"process", "network", "integrity"}

ProcessSteps == "process" \in enabled /\ Next /\ UNCHANGED <<netVars, integrityVars, enabled>>

NetworkSteps == "network" \in enabled /\ Network!Next /\ UNCHANGED <<vars, integrityVars, enabled>>

IntegritySteps == "integrity" \in enabled /\ IntegrityNext /\ UNCHANGED <<vars, netVars, enabled>>

CollectorsNext == ProcessSteps \/ NetworkSteps \/ IntegritySteps

CollectorsInit == Init /\ Network!Init /\ IntegrityInit /\ BuildCollectors

Collectors == CollectorsInit /\ [][CollectorsNext]_allVars
-----------------------------------------------------------------------------
\* The network collector's promise about its quiet passes (network.py, _scan).
QuietPassKnowsSockets == Network!QuietPassKnowsSockets

\* The network collector's promise about close events (network.py, _diff).
ClosedMeansGone == Network!ClosedMeansGone
=============================================================================
