---------------------------- MODULE MCReplication ----------------------------
(* A source of two objects, of which the second has two segments.            *)
EXTENDS Replication

SegsTwo == <<0, 2>>
=============================================================================
