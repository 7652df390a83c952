---------------------------- MODULE MCWriteLock ----------------------------
EXTENDS WriteLock, TLC

CONSTANTS p1, p2, p3

MCPids == {p1, p2, p3}
=============================================================================
