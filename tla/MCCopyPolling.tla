---------------------------- MODULE MCCopyPolling ----------------------------
(* A source of two objects, of which the second has two segments.            *)
EXTENDS CopyPolling

SegsTwo == <<0, 2>>
=============================================================================
