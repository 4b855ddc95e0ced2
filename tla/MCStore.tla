------------------------------ MODULE MCStore -------------------------------
EXTENDS Store
=============================================================================
