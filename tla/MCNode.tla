------------------------------- MODULE MCNode -------------------------------
(* One socket and one REST request, for model checking.                    *)
EXTENDS Node

CONSTANTS alice, r1

MCOwner == [s \in Sockets |-> alice]
MCAskers == {r1, "heartbeat"}
=============================================================================
