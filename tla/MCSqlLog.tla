------------------------------ MODULE MCSqlLog ------------------------------
EXTENDS SqlLog
=============================================================================
