-------------------------- MODULE MCProcessManager --------------------------
EXTENDS ProcessManager, TLC
CONSTANTS p1, r1
OneRun == [p \in Procs |-> r1]
=============================================================================
