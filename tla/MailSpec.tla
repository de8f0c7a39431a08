------------------------------ MODULE MailSpec ------------------------------
(* What the post office promises: mail for a machine arrives in the order in  *)
(* which the network took it, once, in the mailbox it is addressed to, unless *)
(* the network lost it when it was sent.                                      *)
EXTENDS Sequences, Naturals

CONSTANTS Machine, Box,
          Mail,     \* records with at least the fields to and box
          BoxRoom   \* bound on the mail in a box

VARIABLES inTransit, boxes

vars == <<inTransit, boxes>>

Init ==
  /\ inTransit = [m \in Machine |-> <<>>]
  /\ boxes = [m \in Machine |-> [b \in Box |-> <<>>]]

Post(letter) ==
  /\ inTransit' = [inTransit EXCEPT ![letter.to] = Append(@, letter)]
  /\ UNCHANGED boxes

Deliver(m) ==
  /\ inTransit[m] # <<>>
  /\ LET letter == Head(inTransit[m]) IN
     /\ Len(boxes[m][letter.box]) < BoxRoom
     /\ boxes' = [boxes EXCEPT ![m][letter.box] = Append(@, letter)]
  /\ inTransit' = [inTransit EXCEPT ![m] = Tail(@)]

Take(m, b) ==
  /\ boxes[m][b] # <<>>
  /\ boxes' = [boxes EXCEPT ![m][b] = Tail(@)]
  /\ UNCHANGED inTransit

Next ==
  \/ \E letter \in Mail : Post(letter)
  \/ \E m \in Machine : Deliver(m) \/ \E b \in Box : Take(m, b)

Spec == Init /\ [][Next]_vars

(* Mail that has arrived reaches its box when there is room. *)
FairSpec == Spec /\ \A m \in Machine : WF_vars(Deliver(m))
=============================================================================
