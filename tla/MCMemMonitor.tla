---------------------------- MODULE MCMemMonitor ----------------------------
EXTENDS MemMonitor, TLC
CONSTANTS p1, p2, t1, t2, r1, r2, r3, r4, g1, s1
MCIdOf == [j \in Jobs |-> IF j = r2 THEN r1 ELSE j]
MCSizeOf == [j \in Jobs |-> IF j = s1 THEN 20 ELSE 2048]
=============================================================================
