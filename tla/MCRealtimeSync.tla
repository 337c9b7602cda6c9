---------------------------- MODULE MCRealtimeSync ----------------------------
EXTENDS RealtimeSync
===============================================================================
