------------------------------ MODULE MCFdCan ------------------------------
EXTENDS FdCan
=============================================================================
