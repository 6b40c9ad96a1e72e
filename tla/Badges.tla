------------------------------- MODULE Badges -------------------------------
(***************************************************************************)
(* What the unread badges of one room promise: each message is counted at  *)
(* most once, at one moment, for everybody who is a member then except its *)
(* sender; reading the room sets one badge to zero and touches nothing     *)
(* else.                                                                   *)
(***************************************************************************)
EXTENDS Naturals

CONSTANTS Users, Messages,
          SenderOf    \* the user who wrote each message

VARIABLES counted,    \* messages counted so far
          members,    \* the users in the room
          unread      \* the badge of each user

badgeVars == <<counted, members, unread>>

BadgesInit == /\ counted = {}
              /\ members \in SUBSET Users
              /\ unread = [u \in Users |-> 0]

Count(m) ==
  /\ m \notin counted
  /\ counted' = counted \cup {m}
  /\ unread' = [u \in Users |-> IF u \in members \ {SenderOf[m]} THEN unread[u] + 1
                                                                 ELSE unread[u]]
  /\ UNCHANGED members

Read(u) == /\ unread' = [unread EXCEPT ![u] = 0]
           /\ UNCHANGED <<counted, members>>

Join(u) == /\ members' = members \cup {u}
           /\ UNCHANGED <<counted, unread>>

BadgesNext == \/ \E m \in Messages : Count(m)
              \/ \E u \in Users : Read(u) \/ Join(u)

BadgesSpec == BadgesInit /\ [][BadgesNext]_badgeVars
==============================================================================
