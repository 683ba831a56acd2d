-------------------------------- MODULE MCUp --------------------------------
(* Model-checking instance of Up.  One network drop is enough for a       *)
(* disconnect to be consumed, a reconnection to complete and a stale      *)
(* completion of the first shell to reach the second activation; a second *)
(* drop multiplies the state space by some 250 without a new kind of      *)
(* step.  The manifests give one list of local ports without and one with *)
(* a duplicate port, so that Forwarder.Add can fail.                      *)
EXTENDS Up

MCMaxDrops == 1
MCManifests == {<<22000, 8384, 8080>>, <<22000, 8384, 22000>>}
=============================================================================
