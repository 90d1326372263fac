---------------------------- MODULE MCWorkspace ----------------------------
EXTENDS Workspace, TLC

CONSTANTS b1, b2, d1, d2

\* Two volumes, each in a directory of its own.
Apart == b1 :> d1 @@ b2 :> d2
=============================================================================
