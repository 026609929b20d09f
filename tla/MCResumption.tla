---------------------------- MODULE MCResumption ----------------------------
EXTENDS Resumption
=============================================================================
