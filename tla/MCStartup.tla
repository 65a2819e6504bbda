------------------------------ MODULE MCStartup ------------------------------
(* An instance of Startup: an old and two new binaries, three migrations. *)
EXTENDS Startup, TLC

CONSTANTS old, new, provision

ThreeProcesses == {old, new, provision}
ThreeReleases  == old :> 2 @@ new :> 3 @@ provision :> 3
=============================================================================
