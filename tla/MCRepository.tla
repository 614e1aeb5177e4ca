---------------------------- MODULE MCRepository ----------------------------
EXTENDS Repository, TLC

CONSTANTS App, Other

MCApps == {App, Other}
MCInputBlocks == App :> {1, 2} @@ Other :> {2}
=============================================================================
