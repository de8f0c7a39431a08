----------------------------- MODULE PostOffices -----------------------------
(* Machines that exchange mail: the post office of network/post.cc on the     *)
(* network device of machine/network.cc.  Every machine runs one Nachos.      *)
(*                                                                            *)
(* Semaphores and locks are SemaphoreSpec's permits and a mailbox's SynchList *)
(* is QueueSpec's queue: the runs of Semaphores.tla and SynchLists.tla show   *)
(* that the code implements those.  A sending thread is                       *)
(*   "idle", "acquire" (in sendLock->Acquire()), "sent" (in messageSent->P()) *)
(*   or "release" (that P returned);                                          *)
(* a postal worker is in                                                      *)
(*   "wait" (messageAvailable->P()), "receive" or "put".                      *)
EXTENDS Naturals, Sequences, FiniteSets

CONSTANTS Machine,
          Destination,  \* the machines mail is sent to
          Box,          \* the mailboxes of a machine
          Sender,       \* threads that send mail
          HostOf,       \* the machine a sender runs on
          NoSender,
          NoMail,
          SocketRoom,   \* bound on the packets a socket holds
          BoxRoom       \* bound on the mail in a box

ASSUME PostOfficeAssumption ==
  /\ HostOf \in [Sender -> Machine] /\ Destination \subseteq Machine
  /\ NoSender \notin Sender
  /\ SocketRoom \in Nat \ {0} /\ BoxRoom \in Nat \ {0}

(* Mail tells its sender, and consecutive mails of one sender, apart. *)
Mail == [from : Sender, to : Machine, box : Box, turn : {0, 1}]

ASSUME NoMailAssumption == NoMail \notin Mail

VARIABLES pc,               \* of a sender
          mail,             \* what a sender sends
          turn,             \* of its next mail
          sendLock,         \* PostOfficeOutput::sendLock, its holder
          messageSent,      \* PostOfficeOutput::messageSent
          sending,          \* the interrupt NetworkOutput::Send scheduled
          socket,           \* the packets in a machine's socket
          inbox,            \* NetworkInput::inHdr and inbox; NoMail for length 0
          messageAvailable, \* PostOfficeInput::messageAvailable
          worker,           \* where the postal worker is
          hand,             \* what the postal worker has in its buffer
          boxes             \* PostOfficeInput::boxes

outVars == <<pc, mail, turn, sendLock, messageSent, sending>>
inVars == <<inbox, messageAvailable, worker, hand, boxes>>
vars == <<outVars, socket, inVars>>

TypeOK ==
  /\ pc \in [Sender -> {"idle", "acquire", "sent", "release"}]
  /\ mail \in [Sender -> Mail \cup {NoMail}]
  /\ \A s \in Sender : pc[s] # "idle" => mail[s] \in Mail
  /\ turn \in [Sender -> {0, 1}]
  /\ sendLock \in [Machine -> Sender \cup {NoSender}]
  /\ messageSent \in [Machine -> Nat]
  /\ sending \in [Machine -> BOOLEAN]
  /\ socket \in [Machine -> Seq(Mail)]
  /\ inbox \in [Machine -> Mail \cup {NoMail}]
  /\ messageAvailable \in [Machine -> Nat]
  /\ worker \in [Machine -> {"wait", "receive", "put"}]
  /\ hand \in [Machine -> Mail \cup {NoMail}]
  /\ \A m \in Machine : worker[m] = "put" => hand[m] \in Mail
  /\ boxes \in [Machine -> [Box -> Seq(Mail)]]

Init ==
  /\ pc = [s \in Sender |-> "idle"]
  /\ mail = [s \in Sender |-> NoMail]
  /\ turn = [s \in Sender |-> 0]
  /\ sendLock = [m \in Machine |-> NoSender]
  /\ messageSent = [m \in Machine |-> 0]
  /\ sending = [m \in Machine |-> FALSE]
  /\ socket = [m \in Machine |-> <<>>]
  /\ inbox = [m \in Machine |-> NoMail]
  /\ messageAvailable = [m \in Machine |-> 0]
  /\ worker = [m \in Machine |-> "wait"]
  /\ hand = [m \in Machine |-> NoMail]
  /\ boxes = [m \in Machine |-> [b \in Box |-> <<>>]]

-----------------------------------------------------------------------------
CallSend(s, m, b) ==
  /\ pc[s] = "idle"
  /\ mail' = [mail EXCEPT ![s] = [from |-> s, to |-> m, box |-> b, turn |-> turn[s]]]
  /\ turn' = [turn EXCEPT ![s] = 1 - @]
  /\ pc' = [pc EXCEPT ![s] = "acquire"]
  /\ UNCHANGED <<sendLock, messageSent, sending, socket, inVars>>

(* The packet goes into the socket of its destination or is dropped. *)
ToSocket(s) ==
  /\ Len(socket[mail[s].to]) < SocketRoom
  /\ socket' = [socket EXCEPT ![mail[s].to] = Append(@, mail[s])]

(* NetworkOutput::Send, which schedules its interrupt first. *)
NetworkSend(s) ==
  /\ sending' = [sending EXCEPT ![HostOf[s]] = TRUE]
  /\ ToSocket(s) \/ UNCHANGED socket

(* Mutant: sendLock is not acquired. *)
AcquireAndSendUnlocked(s) ==
  /\ pc[s] = "acquire"
  /\ sendLock' = [sendLock EXCEPT ![HostOf[s]] = s]
  /\ NetworkSend(s)
  /\ pc' = [pc EXCEPT ![s] = "sent"]
  /\ UNCHANGED <<mail, turn, messageSent, inVars>>

AcquireAndSend(s) ==
  /\ pc[s] = "acquire" /\ sendLock[HostOf[s]] = NoSender
  /\ sendLock' = [sendLock EXCEPT ![HostOf[s]] = s]
  /\ NetworkSend(s)
  /\ pc' = [pc EXCEPT ![s] = "sent"]
  /\ UNCHANGED <<mail, turn, messageSent, inVars>>

(* NetworkOutput::CallBack and PostOfficeOutput::CallBack. *)
SendInterrupt(m) ==
  /\ sending[m]
  /\ sending' = [sending EXCEPT ![m] = FALSE]
  /\ messageSent' = [messageSent EXCEPT ![m] = @ + 1]
  /\ UNCHANGED <<pc, mail, turn, sendLock, socket, inVars>>

MessageSent(s) ==
  /\ pc[s] = "sent" /\ messageSent[HostOf[s]] > 0
  /\ messageSent' = [messageSent EXCEPT ![HostOf[s]] = @ - 1]
  /\ pc' = [pc EXCEPT ![s] = "release"]
  /\ UNCHANGED <<mail, turn, sendLock, sending, socket, inVars>>

Release(s) ==
  /\ pc[s] = "release"
  /\ sendLock' = [sendLock EXCEPT ![HostOf[s]] = NoSender]
  /\ pc' = [pc EXCEPT ![s] = "idle"]
  /\ mail' = [mail EXCEPT ![s] = NoMail]
  /\ UNCHANGED <<turn, messageSent, sending, socket, inVars>>

-----------------------------------------------------------------------------
(* Mutant: a packet is read in although one is buffered. *)
NetworkInterruptOverwrites(m) ==
  /\ socket[m] # <<>>
  /\ inbox' = [inbox EXCEPT ![m] = Head(socket[m])]
  /\ socket' = [socket EXCEPT ![m] = Tail(@)]
  /\ messageAvailable' = [messageAvailable EXCEPT ![m] = @ + 1]
  /\ UNCHANGED <<outVars, worker, hand, boxes>>

(* NetworkInput::CallBack, which does nothing while a packet is buffered or   *)
(* the socket is empty, and PostOfficeInput::CallBack.                        *)
NetworkInterrupt(m) ==
  /\ inbox[m] = NoMail /\ socket[m] # <<>>
  /\ inbox' = [inbox EXCEPT ![m] = Head(socket[m])]
  /\ socket' = [socket EXCEPT ![m] = Tail(@)]
  /\ messageAvailable' = [messageAvailable EXCEPT ![m] = @ + 1]
  /\ UNCHANGED <<outVars, worker, hand, boxes>>

(* Mutant: P does not wait for a permit. *)
WorkerPUntested(m) ==
  /\ worker[m] = "wait"
  /\ messageAvailable' = [messageAvailable EXCEPT ![m] = @ - 1]
  /\ worker' = [worker EXCEPT ![m] = "receive"]
  /\ UNCHANGED <<outVars, socket, inbox, hand, boxes>>

WorkerP(m) ==
  /\ worker[m] = "wait" /\ messageAvailable[m] > 0
  /\ messageAvailable' = [messageAvailable EXCEPT ![m] = @ - 1]
  /\ worker' = [worker EXCEPT ![m] = "receive"]
  /\ UNCHANGED <<outVars, socket, inbox, hand, boxes>>

(* Mutant: Receive leaves the packet's length in inHdr. *)
ReceiveKeepsHeader(m) ==
  /\ worker[m] = "receive"
  /\ hand' = [hand EXCEPT ![m] = inbox[m]]
  /\ worker' = [worker EXCEPT ![m] = "put"]
  /\ UNCHANGED <<outVars, socket, inbox, messageAvailable, boxes>>

(* NetworkInput::Receive. *)
Receive(m) ==
  /\ worker[m] = "receive"
  /\ hand' = [hand EXCEPT ![m] = inbox[m]]
  /\ inbox' = [inbox EXCEPT ![m] = NoMail]
  /\ worker' = [worker EXCEPT ![m] = "put"]
  /\ UNCHANGED <<outVars, socket, messageAvailable, boxes>>

(* MailBox::Put; what is left in the buffer is the next Receive's to overwrite. *)
Put(m) ==
  LET b == hand[m].box IN
  /\ worker[m] = "put"
  /\ Len(boxes[m][b]) < BoxRoom
  /\ boxes' = [boxes EXCEPT ![m][b] = Append(@, hand[m])]
  /\ worker' = [worker EXCEPT ![m] = "wait"]
  /\ hand' = [hand EXCEPT ![m] = NoMail]
  /\ UNCHANGED <<outVars, socket, inbox, messageAvailable>>

(* MailBox::Get by some thread of m. *)
Get(m, b) ==
  /\ boxes[m][b] # <<>>
  /\ boxes' = [boxes EXCEPT ![m][b] = Tail(@)]
  /\ UNCHANGED <<outVars, socket, inbox, messageAvailable, worker, hand>>

Next ==
  \/ \E s \in Sender :
       \/ AcquireAndSend(s) \/ MessageSent(s) \/ Release(s)
       \/ \E m \in Destination, b \in Box : CallSend(s, m, b)
  \/ \E m \in Machine :
       \/ SendInterrupt(m) \/ NetworkInterrupt(m)
       \/ WorkerP(m) \/ Receive(m) \/ Put(m)
       \/ \E b \in Box : Get(m, b)

Spec == Init /\ [][Next]_vars

(* The network device polls its socket for ever, and the postal worker gets   *)
(* the CPU when it is ready.                                                  *)
Fairness ==
  \A m \in Machine : WF_vars(NetworkInterrupt(m))
                     /\ WF_vars(WorkerP(m) \/ Receive(m) \/ Put(m))

FairSpec == Spec /\ Fairness

-----------------------------------------------------------------------------
(* One message at a time is given to the network, and a Send returns after    *)
(* the interrupt of its own message, not of an earlier one: the ASSERT on     *)
(* sendBusy holds for a reason other than sendBusy, which is never TRUE.      *)
SendsAreSerial ==
  /\ \A s \in Sender : pc[s] \in {"sent", "release"} <=> sendLock[HostOf[s]] = s
  /\ \A m \in Machine :
       messageSent[m] + (IF sending[m] THEN 1 ELSE 0)
         = IF \E s \in Sender : HostOf[s] = m /\ pc[s] = "sent" THEN 1 ELSE 0

(* A permit of messageAvailable stands for the one packet that is buffered,   *)
(* so the worker never takes an empty inbox, and no packet waits unannounced. *)
PermitPerPacket ==
  \A m \in Machine :
    messageAvailable[m] + (IF worker[m] = "receive" THEN 1 ELSE 0)
      = IF inbox[m] = NoMail THEN 0 ELSE 1

(* The mail on its way to m's boxes, the next to arrive first. *)
InHand(m) == IF worker[m] = "put" THEN <<hand[m]>> ELSE <<>>
Buffered(m) == IF inbox[m] = NoMail THEN <<>> ELSE <<inbox[m]>>

(* Mail is lost only by the network: nothing that reached the machine is      *)
(* lost, duplicated, reordered or put in another box, and it does get there.  *)
Carrier == INSTANCE MailSpec WITH
  inTransit <- [m \in Machine |-> InHand(m) \o (Buffered(m) \o socket[m])]

CarriesMail == Carrier!FairSpec
=============================================================================
