---------------------------- MODULE MCUnlocking ----------------------------
EXTENDS Unlocking
=============================================================================
