------------------------------- MODULE DiskSpec -------------------------------
(* What SynchDisk promises its callers: sectors read and written one request  *)
(* at a time, each call returning after its own request completed.            *)
EXTENDS Naturals

CONSTANTS Client, Sector, Value, InitialContents, NoClient

VARIABLES contents,  \* the sectors
          serving,   \* the client whose request the disk works on
          call       \* what each client asked for

vars == <<contents, serving, call>>

NoCall == [stage |-> "none"]

Init ==
  /\ contents = InitialContents
  /\ serving = NoClient
  /\ call = [c \in Client |-> NoCall]

Read(c, n) ==
  /\ call[c] = NoCall
  /\ call' = [call EXCEPT ![c] = [stage |-> "called", op |-> "read", sector |-> n]]
  /\ UNCHANGED <<contents, serving>>

Write(c, n, v) ==
  /\ call[c] = NoCall
  /\ call' = [call EXCEPT ![c] =
                [stage |-> "called", op |-> "write", sector |-> n, data |-> v]]
  /\ UNCHANGED <<contents, serving>>

(* The disk takes up a request. *)
Transfer(c) ==
  /\ serving = NoClient
  /\ call[c].stage = "called"
  /\ serving' = c
  /\ contents' = IF call[c].op = "write"
                 THEN [contents EXCEPT ![call[c].sector] = call[c].data]
                 ELSE contents
  /\ call' = [call EXCEPT ![c] =
                [stage |-> "transferred", op |-> @.op, sector |-> @.sector,
                 data |-> contents'[@.sector]]]

Complete(c) ==
  /\ serving = c
  /\ serving' = NoClient
  /\ call' = [call EXCEPT ![c].stage = "completed"]
  /\ UNCHANGED contents

(* The client has the data of its own request. *)
Return(c) ==
  /\ call[c].stage = "completed"
  /\ call' = [call EXCEPT ![c] = NoCall]
  /\ UNCHANGED <<contents, serving>>

Next ==
  \E c \in Client :
    \/ Transfer(c) \/ Complete(c) \/ Return(c)
    \/ \E n \in Sector : Read(c, n) \/ \E v \in Value : Write(c, n, v)

Spec == Init /\ [][Next]_vars

Fairness ==
  /\ WF_vars(\E c \in Client : Transfer(c))
  /\ \A c \in Client : WF_vars(Complete(c)) /\ WF_vars(Return(c))

FairSpec == Spec /\ Fairness
=============================================================================
