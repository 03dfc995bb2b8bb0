------------------------------ MODULE MCEdgeJobs ------------------------------
\* Small instances of EdgeJobs for TLC.
EXTENDS EdgeJobs

CONSTANTS s1, s2, p1, r1, r2, h1, h2, h3

\* One stage of run r1, and a stage and the push of run r2.  OneHandlerPerJob holds,
\* so a pool with one handler per job never turns a frame away.
MCStages    == {s1, s2}
MCPushes    == {p1}
MCRuns      == {r1, r2}
MCRunOf     == [j \in MCStages \cup MCPushes |-> IF j = s1 THEN r1 ELSE r2]
MCStageRunOf == [j \in MCStages |-> IF j = s1 THEN r1 ELSE r2]
MCHandlers  == {h1, h2, h3}
MCTwoHandlers == {h1, h2}
MCVersioned == {s1}
MCAllJobs   == MCStages \cup MCPushes
MCS1        == {s1}
MCNobody    == {}
MCHandlerSymmetry == Permutations(MCHandlers)
===============================================================================
