------------------------------ MODULE QueueSpec ------------------------------
(* What SynchList promises its callers: a queue whose operations are atomic,  *)
(* RemoveFront waiting until the list is not empty.                           *)
EXTENDS Naturals, Sequences

CONSTANTS Client, Item, NoItem

VARIABLES queue,   \* the list
          state,   \* the call each client is in: "none", "append" or "remove"
          value    \* what the client appends, or got last

vars == <<queue, state, value>>

Init ==
  /\ queue = <<>>
  /\ state = [c \in Client |-> "none"]
  /\ value = [c \in Client |-> NoItem]

CallAppend(c, i) ==
  /\ state[c] = "none"
  /\ state' = [state EXCEPT ![c] = "append"]
  /\ value' = [value EXCEPT ![c] = i]
  /\ UNCHANGED queue

CallRemove(c) ==
  /\ state[c] = "none"
  /\ state' = [state EXCEPT ![c] = "remove"]
  /\ value' = [value EXCEPT ![c] = NoItem]
  /\ UNCHANGED queue

DoAppend(c) ==
  /\ state[c] = "append"
  /\ queue' = Append(queue, value[c])
  /\ state' = [state EXCEPT ![c] = "none"]
  /\ UNCHANGED value

DoRemove(c) ==
  /\ state[c] = "remove"
  /\ queue # <<>>
  /\ queue' = Tail(queue)
  /\ value' = [value EXCEPT ![c] = Head(queue)]
  /\ state' = [state EXCEPT ![c] = "none"]

Do == \E c \in Client : DoAppend(c) \/ DoRemove(c)

Next == Do \/ \E c \in Client : CallRemove(c) \/ \E i \in Item : CallAppend(c, i)

Spec == Init /\ [][Next]_vars

(* As long as some call can return, some call does. *)
FairSpec == Spec /\ WF_vars(Do)
=============================================================================
