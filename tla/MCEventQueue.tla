---------------------------- MODULE MCEventQueue ----------------------------
EXTENDS EventQueue

CONSTANTS t1, t2, t3, v1, v2
=============================================================================
