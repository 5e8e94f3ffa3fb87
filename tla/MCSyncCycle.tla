---------------------------- MODULE MCSyncCycle ----------------------------
EXTENDS SyncCycle, TLC
Symmetry == Permutations(Devices) \cup Permutations(Docs)
Several  == {<<3, 0>>, <<2, 1>>}
Single   == {<<2, 1>>}
=============================================================================
