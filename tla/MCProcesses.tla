----------------------------- MODULE MCProcesses -----------------------------
EXTENDS Processes
==============================================================================
