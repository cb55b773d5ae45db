---------------------------- MODULE MCImplements ----------------------------
EXTENDS MCListener, Implements
=============================================================================
