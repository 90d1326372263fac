------------------------------ MODULE MCBody ------------------------------
EXTENDS Body
=============================================================================
