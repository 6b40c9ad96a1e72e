------------------------------ MODULE MCPresence ------------------------------
(* Instances of PresenceClient for model checking.                         *)
EXTENDS PresenceClient

CONSTANTS beat, page1, page2

(* The heartbeat has a deadline of OpenFor (5 s), a page of a fifth of it. *)
MCTimeout == [c \in Callers |-> IF c = beat THEN OpenFor ELSE 1]
===============================================================================
