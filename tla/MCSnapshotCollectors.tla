------------------------ MODULE MCSnapshotCollectors ------------------------
EXTENDS SnapshotCollectors, TLC

FileHost(inodes, cap, time, most, failing) ==
  [inodes |-> inodes, cap |-> cap, time |-> time, changes |-> most, faults |-> failing]

\* One hashable file and time for it to change and change back, or for a call to fail; two
\* files, one of them unhashable, with room for both and a call that fails, or without.
MCHosts ==
  {FileHost([passwd |-> 1], 1, 4, 3, 0), FileHost([passwd |-> 1], 1, 4, 2, 1),
   FileHost([passwd |-> 1, shadow |-> 2], 2, 2, 2, 1),
   FileHost([passwd |-> 1, shadow |-> 2], 1, 3, 2, 0)}

\* One collector at a time, since they share no state; the hosts of the others are idle.
MCInit ==
  /\ CollectorsInit
  /\ Cardinality(enabled) = 1
  /\ "process" \notin enabled => Listed(procs) = {} /\ maxProcs = 1
  /\ "network" \notin enabled => tracked = {"LISTEN"}
  /\ "integrity" \notin enabled => There = {} /\ host.time = 4 /\ host.faults = 0

MCSpec == MCInit /\ [][CollectorsNext]_allVars

Pids == Permutations(Pid)
=============================================================================
