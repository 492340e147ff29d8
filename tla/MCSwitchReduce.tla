---------------------------- MODULE MCSwitchReduce ----------------------------
EXTENDS SwitchReduce
===============================================================================
