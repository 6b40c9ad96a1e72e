------------------------------- MODULE ChatLog -------------------------------
(***************************************************************************)
(* What the message path promises, with no database, relay or broker in    *)
(* sight.                                                                  *)
(*                                                                         *)
(* A room is an append-only log of posts.  A post that carries a           *)
(* client_msg_id is in the log at most once, however often it is sent.     *)
(* Every post is eventually announced to the rest of the system, and the   *)
(* posts of one room are first announced in the order of the log.          *)
(***************************************************************************)
EXTENDS Naturals, Sequences

CONSTANTS Rooms,    \* conversations
          Senders,  \* users that send
          Keys,     \* values of client_msg_id
          NoKey     \* a send without a client_msg_id

VARIABLES log,      \* log[c]: the posts of room c, oldest first
          heard     \* heard[c]: the positions of log[c] announced so far

logVars == <<log, heard>>

Post == [sender : Senders, key : Keys \cup {NoKey}]

LogTypeOK == /\ log \in [Rooms -> Seq(Post)]
             /\ heard \in [Rooms -> SUBSET Nat]

LogInit == /\ log = [c \in Rooms |-> <<>>]
           /\ heard = [c \in Rooms |-> {}]

(* A retried post finds itself in the log and appends nothing.             *)
AlreadyPosted(c, p) == p.key # NoKey /\ \E i \in DOMAIN log[c] : log[c][i] = p

AppendPost(c) == \E p \in Post : /\ ~AlreadyPosted(c, p)
                              /\ log' = [log EXCEPT ![c] = Append(@, p)]
                              /\ UNCHANGED heard

(* The next post of the room, and no other, becomes known.                 *)
Announce(c) == \E s \in DOMAIN log[c] : /\ heard[c] = 1..(s - 1)
                                        /\ heard' = [heard EXCEPT ![c] = 1..s]
                                        /\ UNCHANGED log

LogNext == \E c \in Rooms : AppendPost(c) \/ Announce(c)

LogSpec == LogInit /\ [][LogNext]_logVars

LogFairSpec == LogSpec /\ \A c \in Rooms : WF_logVars(Announce(c))
==============================================================================
