------------------------------ MODULE MC_Process ------------------------------
EXTENDS Process
=============================================================================
