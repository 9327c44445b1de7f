------------------------------ MODULE MCSession ------------------------------
EXTENDS Session
==============================================================================
