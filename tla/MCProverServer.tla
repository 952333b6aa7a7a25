---------------------------- MODULE MCProverServer ----------------------------
EXTENDS ProverServer
=============================================================================
