------------------------------- MODULE MCUnread -------------------------------
(* Instances of UnreadConsumer for model checking.                         *)
EXTENDS UnreadConsumer

CONSTANTS m1, m2, u1, u2

(* u1 writes every message; u2 is the other user of the room.              *)
MCUsers    == {u1, u2}
MCSenderOf == [m \in Messages |-> u1]
===============================================================================
