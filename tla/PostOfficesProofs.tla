-------------------------- MODULE PostOfficesProofs --------------------------
(* What is proved of the post office, for any number of machines, boxes and   *)
(* senders.  The three parts of IInv need each other: that the worker has     *)
(* mail in its hand when it puts it rests on PermitPerPacket, and that a      *)
(* semaphore is not decremented below zero on the tests of its own P.         *)
EXTENDS PostOffices, SequenceTheorems, TLAPS

IInv == TypeOK /\ SendsAreSerial /\ PermitPerPacket

(* The sender whose message a machine is sending. *)
Sending(m) == \E s \in Sender : HostOf[s] = m /\ pc[s] = "sent"

Pending(m) == messageSent[m] + (IF sending[m] THEN 1 ELSE 0)

(* SendsAreSerial, as the steps below use it. *)
LEMMA SerialFacts ==
  ASSUME SendsAreSerial
  PROVE  /\ \A s \in Sender : pc[s] \in {"sent", "release"} <=> sendLock[HostOf[s]] = s
         /\ \A m \in Machine : Pending(m) = IF Sending(m) THEN 1 ELSE 0
BY DEF SendsAreSerial, Pending, Sending

LEMMA InitIInv == Init => IInv
<1> SUFFICES ASSUME Init PROVE IInv
  OBVIOUS
<1>1. TypeOK
  BY DEF Init, TypeOK
<1>2. SendsAreSerial
  BY PostOfficeAssumption DEF Init, SendsAreSerial
<1>3. PermitPerPacket
  BY DEF Init, PermitPerPacket
<1> QED BY <1>1, <1>2, <1>3 DEF IInv

-----------------------------------------------------------------------------
(* The senders' steps.  Nothing of a receiving machine changes but what is in *)
(* its socket.                                                                *)
LEMMA SenderPermits ==
  ASSUME PermitPerPacket, UNCHANGED inVars
  PROVE  PermitPerPacket'
BY DEF PermitPerPacket, inVars

LEMMA CallSendStep ==
  ASSUME IInv, NEW s \in Sender, NEW m \in Destination, NEW b \in Box, CallSend(s, m, b)
  PROVE  IInv'
<1>1. m \in Machine
  BY PostOfficeAssumption
<1>2. TypeOK'
  <2>1. [from |-> s, to |-> m, box |-> b, turn |-> turn[s]] \in Mail
    BY <1>1 DEF IInv, TypeOK, Mail
  <2>2. mail' \in [Sender -> Mail \cup {NoMail}] /\ mail'[s] \in Mail
        /\ \A u \in Sender : u # s => mail'[u] = mail[u]
    BY <2>1 DEF IInv, TypeOK, CallSend
  <2>3. pc' \in [Sender -> {"idle", "acquire", "sent", "release"}]
        /\ \A u \in Sender : pc'[u] # "idle" => mail'[u] \in Mail
    BY <2>2 DEF IInv, TypeOK, CallSend
  <2>4. turn' \in [Sender -> {0, 1}]
    <3>1. turn[s] \in {0, 1}
      BY DEF IInv, TypeOK
    <3>2. 1 - turn[s] \in {0, 1}
      BY <3>1
    <3> QED BY <3>2 DEF IInv, TypeOK, CallSend
  <2> QED BY <2>2, <2>3, <2>4 DEF IInv, TypeOK, CallSend, inVars
<1>3. SendsAreSerial'
  <2>1. \A u \in Sender : pc[u] = "sent" <=> pc'[u] = "sent"
    BY DEF IInv, TypeOK, CallSend
  <2>2. \A u \in Sender : pc[u] \in {"sent", "release"} <=> pc'[u] \in {"sent", "release"}
    BY DEF IInv, TypeOK, CallSend
  <2> QED BY <2>1, <2>2 DEF IInv, SendsAreSerial, CallSend
<1>4. PermitPerPacket'
  BY SenderPermits DEF IInv, CallSend
<1> QED BY <1>2, <1>3, <1>4 DEF IInv

LEMMA AcquireAndSendStep ==
  ASSUME IInv, NEW s \in Sender, AcquireAndSend(s)
  PROVE  IInv'
<1> DEFINE h == HostOf[s]
<1>1. h \in Machine /\ NoSender \notin Sender
  BY PostOfficeAssumption
<1>2. TypeOK'
  <2>1. mail[s] \in Mail
    BY DEF IInv, TypeOK, AcquireAndSend
  <2>2. mail[s].to \in Machine
    BY <2>1 DEF Mail
  <2>3. socket' \in [Machine -> Seq(Mail)]
    <3>1. Append(socket[mail[s].to], mail[s]) \in Seq(Mail)
      BY <2>1, <2>2 DEF IInv, TypeOK
    <3>2. \/ socket' = socket
          \/ socket' = [socket EXCEPT ![mail[s].to] = Append(@, mail[s])]
      BY DEF AcquireAndSend, NetworkSend, ToSocket
    <3> QED BY <2>2, <3>1, <3>2 DEF IInv, TypeOK
  <2>4. pc' \in [Sender -> {"idle", "acquire", "sent", "release"}]
        /\ mail' = mail /\ \A u \in Sender : pc'[u] # "idle" => mail'[u] \in Mail
    BY <2>1 DEF IInv, TypeOK, AcquireAndSend
  <2>5. sendLock' \in [Machine -> Sender \cup {NoSender}] /\ sending' \in [Machine -> BOOLEAN]
    BY <1>1 DEF IInv, TypeOK, AcquireAndSend, NetworkSend
  <2> QED BY <2>3, <2>4, <2>5 DEF IInv, TypeOK, AcquireAndSend, inVars
<1>3. SendsAreSerial'
  <2>1. \A u \in Sender : HostOf[u] = h => pc[u] \notin {"sent", "release"}
    BY <1>1, SerialFacts DEF IInv, AcquireAndSend
  <2>2. messageSent[h] = 0 /\ sending[h] = FALSE
    <3>1. ~Sending(h)
      BY <2>1 DEF Sending
    <3> QED BY <1>1, <3>1, SerialFacts DEF IInv, TypeOK, Pending
  <2>3. /\ pc' = [pc EXCEPT ![s] = "sent"] /\ sendLock' = [sendLock EXCEPT ![h] = s]
        /\ sending' = [sending EXCEPT ![h] = TRUE] /\ messageSent' = messageSent
    BY DEF AcquireAndSend, NetworkSend
  <2>4. ASSUME NEW u \in Sender
        PROVE  (pc[u] \in {"sent", "release"})' <=> (sendLock[HostOf[u]] = u)'
    <3>1. HostOf[u] \in Machine
      BY PostOfficeAssumption
    <3>2. CASE u = s
      BY <1>1, <2>3, <3>2 DEF IInv, TypeOK
    <3>3. CASE u # s /\ HostOf[u] = h
      BY <1>1, <2>1, <2>3, <3>3 DEF IInv, TypeOK
    <3>4. CASE u # s /\ HostOf[u] # h
      BY <1>1, <2>3, <3>1, <3>4, SerialFacts DEF IInv, TypeOK
    <3> QED BY <3>2, <3>3, <3>4
  <2>5. ASSUME NEW m \in Machine
        PROVE  Pending(m)' = IF Sending(m)' THEN 1 ELSE 0
    <3>1. CASE m = h
      <4>1. Sending(m)'
        BY <2>3, <3>1 DEF Sending, IInv, TypeOK
      <4> QED BY <1>1, <2>2, <2>3, <3>1, <4>1 DEF Pending, IInv, TypeOK
    <3>2. CASE m # h
      <4>1. Sending(m)' <=> Sending(m)
        BY <2>3, <3>2 DEF Sending, IInv, TypeOK
      <4>2. Pending(m)' = Pending(m)
        BY <2>3, <3>2 DEF Pending, IInv, TypeOK
      <4> QED BY <4>1, <4>2, SerialFacts DEF IInv
    <3> QED BY <3>1, <3>2
  <2> QED BY <2>4, <2>5 DEF SendsAreSerial, Pending, Sending
<1>4. PermitPerPacket'
  BY SenderPermits DEF IInv, AcquireAndSend
<1> QED BY <1>2, <1>3, <1>4 DEF IInv

LEMMA SendInterruptStep ==
  ASSUME IInv, NEW m \in Machine, SendInterrupt(m)
  PROVE  IInv'
<1>1. TypeOK'
  BY DEF IInv, TypeOK, SendInterrupt, inVars
<1>2. SendsAreSerial'
  <2>1. \A n \in Machine : Pending(n)' = Pending(n)
    BY DEF IInv, TypeOK, SendInterrupt, Pending
  <2>2. \A n \in Machine : Sending(n)' <=> Sending(n)
    BY DEF SendInterrupt, Sending
  <2>3. pc' = pc /\ sendLock' = sendLock
    BY DEF SendInterrupt
  <2>4. \A n \in Machine : Pending(n)' = IF Sending(n)' THEN 1 ELSE 0
    BY <2>1, <2>2, SerialFacts DEF IInv
  <2> QED BY <2>3, <2>4 DEF IInv, SendsAreSerial, Pending, Sending
<1>3. PermitPerPacket'
  BY SenderPermits DEF IInv, SendInterrupt
<1> QED BY <1>1, <1>2, <1>3 DEF IInv

(* At most one thread of a machine is between Acquire and Release. *)
LEMMA OneSender ==
  ASSUME SendsAreSerial, NEW s \in Sender, NEW u \in Sender, HostOf[s] = HostOf[u],
         pc[s] \in {"sent", "release"}, pc[u] \in {"sent", "release"}
  PROVE  s = u
BY SerialFacts

LEMMA MessageSentStep ==
  ASSUME IInv, NEW s \in Sender, MessageSent(s)
  PROVE  IInv'
<1> DEFINE h == HostOf[s]
<1>1. h \in Machine
  BY PostOfficeAssumption
<1>2. /\ pc[s] = "sent" /\ pc' = [pc EXCEPT ![s] = "release"]
      /\ messageSent[h] > 0 /\ messageSent' = [messageSent EXCEPT ![h] = @ - 1]
      /\ sending' = sending /\ sendLock' = sendLock
  BY DEF MessageSent
<1>3. TypeOK'
  BY <1>1 DEF IInv, TypeOK, MessageSent, inVars
<1>4. SendsAreSerial'
  <2>1. Pending(h) = 1
    <3>1. Sending(h)
      BY <1>2 DEF Sending
    <3> QED BY <1>1, <3>1, SerialFacts DEF IInv
  <2>2. ~Sending(h)'
    <3>1. \A u \in Sender : HostOf[u] = h /\ pc[u] = "sent" => u = s
      BY <1>2, OneSender DEF IInv
    <3> QED BY <1>2, <3>1 DEF Sending, IInv, TypeOK
  <2>3. Pending(h)' = 0
    BY <1>1, <1>2, <2>1 DEF Pending, IInv, TypeOK
  <2>4. ASSUME NEW m \in Machine, m # h
        PROVE  Pending(m)' = IF Sending(m)' THEN 1 ELSE 0
    <3>1. Sending(m)' <=> Sending(m)
      BY <1>2, <2>4 DEF Sending, IInv, TypeOK
    <3>2. Pending(m)' = Pending(m)
      BY <1>2, <2>4 DEF Pending, IInv, TypeOK
    <3> QED BY <3>1, <3>2, SerialFacts DEF IInv
  <2>5. \A u \in Sender : pc'[u] \in {"sent", "release"} <=> sendLock'[HostOf[u]] = u
    BY <1>2, SerialFacts DEF IInv, TypeOK
  <2> QED BY <2>2, <2>3, <2>4, <2>5 DEF SendsAreSerial, Pending, Sending
<1>5. PermitPerPacket'
  BY SenderPermits DEF IInv, MessageSent
<1> QED BY <1>3, <1>4, <1>5 DEF IInv

LEMMA ReleaseStep ==
  ASSUME IInv, NEW s \in Sender, Release(s)
  PROVE  IInv'
<1> DEFINE h == HostOf[s]
<1>1. h \in Machine /\ NoSender \notin Sender
  BY PostOfficeAssumption
<1>2. /\ pc[s] = "release" /\ pc' = [pc EXCEPT ![s] = "idle"]
      /\ sendLock' = [sendLock EXCEPT ![h] = NoSender]
      /\ sending' = sending /\ messageSent' = messageSent
  BY DEF Release
<1>3. TypeOK'
  BY <1>1 DEF IInv, TypeOK, Release, inVars
<1>4. SendsAreSerial'
  <2>1. \A m \in Machine : Sending(m)' <=> Sending(m)
    BY <1>2 DEF Sending, IInv, TypeOK
  <2>2. \A m \in Machine : Pending(m)' = IF Sending(m)' THEN 1 ELSE 0
    BY <1>2, <2>1, SerialFacts DEF IInv, Pending
  <2>3. ASSUME NEW u \in Sender
        PROVE  (pc[u] \in {"sent", "release"})' <=> (sendLock[HostOf[u]] = u)'
    <3>1. HostOf[u] \in Machine
      BY PostOfficeAssumption
    <3>2. CASE HostOf[u] = h
      <4>1. u # s => pc[u] \notin {"sent", "release"}
        BY <1>2, <3>2, OneSender DEF IInv
      <4> QED BY <1>1, <1>2, <3>2, <4>1 DEF IInv, TypeOK
    <3>3. CASE HostOf[u] # h
      BY <1>2, <3>1, <3>3, SerialFacts DEF IInv, TypeOK
    <3> QED BY <3>2, <3>3
  <2> QED BY <2>2, <2>3 DEF SendsAreSerial, Pending, Sending
<1>5. PermitPerPacket'
  BY SenderPermits DEF IInv, Release
<1> QED BY <1>3, <1>4, <1>5 DEF IInv

-----------------------------------------------------------------------------
(* The receiving machine's steps leave every sender alone. *)
LEMMA ReceiverSerial ==
  ASSUME SendsAreSerial, UNCHANGED outVars
  PROVE  SendsAreSerial'
BY DEF SendsAreSerial, outVars

LEMMA NetworkInterruptStep ==
  ASSUME IInv, NEW m \in Machine, NetworkInterrupt(m)
  PROVE  IInv'
<1>1. Head(socket[m]) \in Mail /\ Tail(socket[m]) \in Seq(Mail)
  BY DEF IInv, TypeOK, NetworkInterrupt
<1>2. TypeOK'
  BY <1>1 DEF IInv, TypeOK, NetworkInterrupt, outVars
<1>3. PermitPerPacket'
  BY <1>1, NoMailAssumption DEF IInv, TypeOK, PermitPerPacket, NetworkInterrupt
<1> QED BY <1>2, <1>3, ReceiverSerial DEF IInv, NetworkInterrupt

LEMMA WorkerPStep ==
  ASSUME IInv, NEW m \in Machine, WorkerP(m)
  PROVE  IInv'
<1>1. TypeOK'
  BY DEF IInv, TypeOK, WorkerP, outVars
<1>2. PermitPerPacket'
  BY DEF IInv, TypeOK, PermitPerPacket, WorkerP
<1> QED BY <1>1, <1>2, ReceiverSerial DEF IInv, WorkerP

(* The inbox is not empty when the worker receives. *)
LEMMA ReceiveStep ==
  ASSUME IInv, NEW m \in Machine, Receive(m)
  PROVE  IInv'
<1>1. inbox[m] \in Mail /\ messageAvailable[m] = 0
  <2>1. messageAvailable[m] + 1 = IF inbox[m] = NoMail THEN 0 ELSE 1
    BY DEF IInv, PermitPerPacket, Receive
  <2> QED BY <2>1 DEF IInv, TypeOK
<1>2. TypeOK'
  BY <1>1 DEF IInv, TypeOK, Receive, outVars
<1>3. PermitPerPacket'
  BY <1>1 DEF IInv, TypeOK, PermitPerPacket, Receive
<1> QED BY <1>2, <1>3, ReceiverSerial DEF IInv, Receive

LEMMA PutStep ==
  ASSUME IInv, NEW m \in Machine, Put(m)
  PROVE  IInv'
<1>1. hand[m] \in Mail /\ hand[m].box \in Box
  BY DEF IInv, TypeOK, Put, Mail
<1>2. boxes' \in [Machine -> [Box -> Seq(Mail)]]
  BY <1>1 DEF IInv, TypeOK, Put
<1>3. TypeOK'
  BY <1>2 DEF IInv, TypeOK, Put, outVars
<1>4. PermitPerPacket'
  BY DEF IInv, TypeOK, PermitPerPacket, Put
<1> QED BY <1>3, <1>4, ReceiverSerial DEF IInv, Put

LEMMA GetStep ==
  ASSUME IInv, NEW m \in Machine, NEW b \in Box, Get(m, b)
  PROVE  IInv'
<1>1. TypeOK'
  BY DEF IInv, TypeOK, Get, outVars
<1>2. PermitPerPacket'
  BY DEF IInv, PermitPerPacket, Get
<1> QED BY <1>1, <1>2, ReceiverSerial DEF IInv, Get

-----------------------------------------------------------------------------
LEMMA NextIInv == IInv /\ [Next]_vars => IInv'
<1> SUFFICES ASSUME IInv, [Next]_vars PROVE IInv'
  OBVIOUS
<1>1. CASE UNCHANGED vars
  BY <1>1 DEF IInv, TypeOK, SendsAreSerial, PermitPerPacket, vars, outVars, inVars
<1>2. ASSUME NEW s \in Sender, AcquireAndSend(s) \/ MessageSent(s) \/ Release(s)
      PROVE  IInv'
  BY <1>2, AcquireAndSendStep, MessageSentStep, ReleaseStep
<1>3. ASSUME NEW s \in Sender, NEW m \in Destination, NEW b \in Box, CallSend(s, m, b)
      PROVE  IInv'
  BY <1>3, CallSendStep
<1>4. ASSUME NEW m \in Machine, SendInterrupt(m) \/ NetworkInterrupt(m)
      PROVE  IInv'
  BY <1>4, SendInterruptStep, NetworkInterruptStep
<1>5. ASSUME NEW m \in Machine, WorkerP(m) \/ Receive(m) \/ Put(m)
      PROVE  IInv'
  BY <1>5, WorkerPStep, ReceiveStep, PutStep
<1>6. ASSUME NEW m \in Machine, NEW b \in Box, Get(m, b)
      PROVE  IInv'
  BY <1>6, GetStep
<1> QED BY <1>1, <1>2, <1>3, <1>4, <1>5, <1>6 DEF Next

LEMMA Invariance == Spec => []IInv
BY InitIInv, NextIInv, PTL DEF Spec

(* Every reachable state of the machines and their senders is well typed; in  *)
(* particular the postal worker never puts an empty buffer into a box.        *)
THEOREM TypeCorrect == Spec => []TypeOK
<1>1. IInv => TypeOK
  BY DEF IInv
<1> QED BY <1>1, Invariance, PTL

(* PostOfficeOutput::Send gives the network one message at a time and returns *)
(* on the interrupt of its own.                                               *)
THEOREM SendsStaySerial == Spec => []SendsAreSerial
<1>1. IInv => SendsAreSerial
  BY DEF IInv
<1> QED BY <1>1, Invariance, PTL

(* PostalDelivery's P returns once for each packet the device buffered.       *)
THEOREM PermitsMatchPackets == Spec => []PermitPerPacket
<1>1. IInv => PermitPerPacket
  BY DEF IInv
<1> QED BY <1>1, Invariance, PTL

-----------------------------------------------------------------------------
(* CarriesMail but for liveness.  Mail is posted when it enters a socket and  *)
(* delivered by Put; between the two it only changes hands.                   *)
LEMMA AppendToConcat ==
  ASSUME NEW S, NEW a \in Seq(S), NEW b \in Seq(S), NEW x \in S
  PROVE  a \o Append(b, x) = Append(a \o b, x)
<1>1. /\ a \o b \in Seq(S) /\ a \o Append(b, x) \in Seq(S) /\ Append(a \o b, x) \in Seq(S)
      /\ Len(a) \in Nat /\ Len(b) \in Nat
  BY ConcatProperties, LenProperties
<1>2. Len(a \o b) = Len(a) + Len(b) /\ Len(a \o Append(b, x)) = Len(a) + Len(b) + 1
  BY ConcatProperties, LenProperties
<1>3. Len(a \o Append(b, x)) = Len(Append(a \o b, x))
  BY <1>1, <1>2
<1>4. ASSUME NEW i \in 1 .. Len(a \o Append(b, x))
      PROVE  (a \o Append(b, x))[i] = Append(a \o b, x)[i]
  <2>1. CASE i <= Len(a)
    BY <1>1, <1>2, <2>1, ConcatProperties
  <2>2. CASE i > Len(a) /\ i <= Len(a) + Len(b)
    BY <1>1, <1>2, <2>2, ConcatProperties
  <2>3. CASE i = Len(a) + Len(b) + 1
    BY <1>1, <1>2, <2>3, ConcatProperties
  <2> QED BY <1>1, <1>2, <2>1, <2>2, <2>3
<1> QED BY <1>1, <1>3, <1>4, SeqEqual

LEMMA OneThenRest ==
  ASSUME NEW S, NEW x \in S, NEW s \in Seq(S)
  PROVE  <<x>> \o s # <<>> /\ Head(<<x>> \o s) = x /\ Tail(<<x>> \o s) = s
<1>1. <<x>> \in Seq(S) /\ Len(<<x>>) = 1 /\ Len(s) \in Nat
  BY LenProperties
<1>2. <<x>> \o s \in Seq(S) /\ Len(<<x>> \o s) = Len(s) + 1
  BY <1>1, ConcatProperties
<1>3. \A i \in 1 .. Len(s) + 1 : (<<x>> \o s)[i] = IF i <= 1 THEN x ELSE s[i - 1]
  BY <1>1, ConcatProperties
<1>4. <<x>> \o s # <<>>
  BY <1>1, <1>2, EmptySeq
<1>5. Head(<<x>> \o s) = x
  BY <1>1, <1>2, <1>3, <1>4
<1>6. /\ Tail(<<x>> \o s) \in Seq(S) /\ Len(Tail(<<x>> \o s)) = Len(s)
      /\ \A i \in 1 .. Len(s) : Tail(<<x>> \o s)[i] = (<<x>> \o s)[i + 1]
  BY <1>1, <1>2, <1>4, HeadTailProperties
<1>7. Tail(<<x>> \o s) = s
  BY <1>1, <1>3, <1>6, SeqEqual
<1> QED BY <1>4, <1>5, <1>7

LEMMA FirstAndRest ==
  ASSUME NEW S, NEW s \in Seq(S), s # <<>>
  PROVE  s = <<Head(s)>> \o Tail(s)
<1>1. /\ Head(s) \in S /\ Tail(s) \in Seq(S) /\ Len(Tail(s)) = Len(s) - 1
      /\ \A i \in 1 .. Len(s) - 1 : Tail(s)[i] = s[i + 1]
      /\ Len(s) \in Nat \ {0} /\ Head(s) = s[1]
  BY HeadTailProperties, EmptySeq
<1>2. /\ <<Head(s)>> \in Seq(S) /\ Len(<<Head(s)>>) = 1 /\ <<Head(s)>>[1] = Head(s)
  BY <1>1
<1>3. /\ <<Head(s)>> \o Tail(s) \in Seq(S) /\ Len(<<Head(s)>> \o Tail(s)) = Len(s)
      /\ \A i \in 1 .. Len(s) : (<<Head(s)>> \o Tail(s))[i]
                              = IF i <= 1 THEN <<Head(s)>>[i] ELSE Tail(s)[i - 1]
  BY <1>1, <1>2, ConcatProperties
<1>4. \A i \in 1 .. Len(s) : (<<Head(s)>> \o Tail(s))[i] = s[i]
  BY <1>1, <1>2, <1>3
<1> QED BY <1>3, <1>4, SeqEqual

(* Carrier's inTransit. *)
Transit(m) == InHand(m) \o (Buffered(m) \o socket[m])

LEMMA TransitFacts ==
  ASSUME TypeOK, NEW m \in Machine
  PROVE  /\ InHand(m) \in Seq(Mail) /\ Buffered(m) \in Seq(Mail) /\ socket[m] \in Seq(Mail)
         /\ Buffered(m) \o socket[m] \in Seq(Mail)
         /\ Transit(m) \in Seq(Mail)
<1>1. /\ InHand(m) \in Seq(Mail) /\ Buffered(m) \in Seq(Mail) /\ socket[m] \in Seq(Mail)
  BY EmptySeq DEF TypeOK, InHand, Buffered
<1> QED BY <1>1, ConcatProperties DEF Transit

(* A step that leaves the mail of every machine where it was. *)
LEMMA Stutter ==
  ASSUME \A m \in Machine : Transit(m)' = Transit(m), boxes' = boxes
  PROVE  [Carrier!Next]_(Carrier!vars)
<1>1. [m \in Machine |-> Transit(m)]' = [m \in Machine |-> Transit(m)]
  OBVIOUS
<1> QED BY <1>1 DEF Carrier!vars, Transit

LEMMA SendingStutters ==
  ASSUME UNCHANGED <<socket, inVars>>
  PROVE  [Carrier!Next]_(Carrier!vars)
<1>1. \A m \in Machine : Transit(m)' = Transit(m)
  BY DEF Transit, InHand, Buffered, inVars
<1> QED BY <1>1, Stutter DEF inVars

(* What enters a socket is posted. *)
LEMMA IntoSocket ==
  ASSUME IInv, NEW x \in Mail, NEW to \in Machine, x.to = to,
         UNCHANGED inVars, socket' = [socket EXCEPT ![to] = Append(@, x)]
  PROVE  Carrier!Post(x)
<1>1. \A m \in Machine : InHand(m)' = InHand(m) /\ Buffered(m)' = Buffered(m)
  BY DEF InHand, Buffered, inVars
<1>2. Transit(to)' = Append(Transit(to), x)
  <2>1. socket'[to] = Append(socket[to], x)
    BY DEF IInv, TypeOK
  <2>2. /\ InHand(to) \in Seq(Mail) /\ Buffered(to) \in Seq(Mail)
        /\ socket[to] \in Seq(Mail) /\ Buffered(to) \o socket[to] \in Seq(Mail)
    BY TransitFacts DEF IInv
  <2>3. Buffered(to) \o Append(socket[to], x) = Append(Buffered(to) \o socket[to], x)
    BY <2>2, AppendToConcat
  <2>4. InHand(to) \o Append(Buffered(to) \o socket[to], x)
          = Append(InHand(to) \o (Buffered(to) \o socket[to]), x)
    BY <2>2, AppendToConcat
  <2> QED BY <1>1, <2>1, <2>3, <2>4 DEF Transit
<1>3. \A m \in Machine : m # to => Transit(m)' = Transit(m)
  BY <1>1 DEF Transit, IInv, TypeOK
<1>4. [m \in Machine |-> Transit(m)]'
        = [[m \in Machine |-> Transit(m)] EXCEPT ![to] = Append(@, x)]
  BY <1>2, <1>3
<1> QED BY <1>4 DEF Carrier!Post, Transit, inVars

LEMMA SendPosts ==
  ASSUME IInv, NEW s \in Sender, AcquireAndSend(s)
  PROVE  [Carrier!Next]_(Carrier!vars)
<1>1. mail[s] \in Mail /\ mail[s].to \in Machine
  BY DEF IInv, TypeOK, AcquireAndSend, Mail
<1>2. UNCHANGED inVars
  BY DEF AcquireAndSend
<1>3. CASE UNCHANGED socket
  BY <1>2, <1>3, SendingStutters
<1>4. CASE socket' = [socket EXCEPT ![mail[s].to] = Append(@, mail[s])]
  <2>1. PICK x \in Mail, to \in Machine : x = mail[s] /\ to = x.to
    BY <1>1
  <2>2. socket' = [socket EXCEPT ![to] = Append(@, x)]
    BY <1>4, <2>1
  <2>3. Carrier!Post(x)
    BY <1>2, <2>1, <2>2, IntoSocket
  <2> QED BY <2>3 DEF Carrier!Next
<1> QED BY <1>3, <1>4 DEF AcquireAndSend, NetworkSend, ToSocket

(* From socket to inbox to the worker's buffer. *)
LEMMA HandOver ==
  ASSUME IInv, NEW m \in Machine, NetworkInterrupt(m) \/ WorkerP(m) \/ Receive(m)
  PROVE  [Carrier!Next]_(Carrier!vars)
<1>1. ASSUME NEW n \in Machine, n # m
      PROVE  Transit(n)' = Transit(n)
  BY <1>1 DEF Transit, InHand, Buffered, NetworkInterrupt, WorkerP, Receive, IInv, TypeOK
<1>2. boxes' = boxes
  BY DEF NetworkInterrupt, WorkerP, Receive
<1>3. CASE NetworkInterrupt(m)
  <2>1. /\ Buffered(m) = <<>> /\ InHand(m)' = InHand(m)
        /\ socket[m] # <<>> /\ socket'[m] = Tail(socket[m])
    BY <1>3 DEF NetworkInterrupt, Buffered, InHand, IInv, TypeOK
  <2>2. Head(socket[m]) \in Mail
    BY <2>1 DEF IInv, TypeOK
  <2>3. Buffered(m)' = <<Head(socket[m])>>
    BY <1>3, <2>2, NoMailAssumption DEF NetworkInterrupt, Buffered, IInv, TypeOK
  <2>4. Buffered(m) \o socket[m] = socket[m]
    BY <2>1, TransitFacts, ConcatEmptySeq DEF IInv
  <2>5. <<Head(socket[m])>> \o Tail(socket[m]) = socket[m]
    BY <2>1, TransitFacts, FirstAndRest DEF IInv
  <2>6. Transit(m)' = Transit(m)
    BY <2>1, <2>3, <2>4, <2>5 DEF Transit
  <2> QED BY <1>1, <1>2, <2>6, Stutter
<1>4. CASE WorkerP(m)
  <2>1. Transit(m)' = Transit(m)
    BY <1>4 DEF WorkerP, Transit, InHand, Buffered, IInv, TypeOK
  <2> QED BY <1>1, <1>2, <2>1, Stutter
<1>5. CASE Receive(m)
  <2>1. inbox[m] # NoMail
    <3>1. messageAvailable[m] + 1 = IF inbox[m] = NoMail THEN 0 ELSE 1
      BY <1>5 DEF IInv, PermitPerPacket, Receive
    <3> QED BY <3>1 DEF IInv, TypeOK
  <2>2. /\ InHand(m) = <<>> /\ InHand(m)' = <<inbox[m]>>
        /\ Buffered(m) = <<inbox[m]>> /\ Buffered(m)' = <<>>
        /\ socket' = socket
    BY <1>5, <2>1 DEF Receive, InHand, Buffered, IInv, TypeOK
  <2>3. <<>> \o (<<inbox[m]>> \o socket[m]) = <<inbox[m]>> \o socket[m]
    BY <2>2, TransitFacts, ConcatEmptySeq DEF IInv
  <2>4. <<>> \o socket[m] = socket[m]
    BY TransitFacts, ConcatEmptySeq DEF IInv
  <2>5. Transit(m)' = Transit(m)
    BY <2>2, <2>3, <2>4 DEF Transit
  <2> QED BY <1>1, <1>2, <2>5, Stutter
<1> QED BY <1>3, <1>4, <1>5

LEMMA PutDelivers ==
  ASSUME IInv, NEW m \in Machine, Put(m)
  PROVE  [Carrier!Next]_(Carrier!vars)
<1> DEFINE rest == Buffered(m) \o socket[m]
<1>1. hand[m] \in Mail /\ InHand(m) = <<hand[m]>> /\ InHand(m)' = <<>>
  BY DEF IInv, TypeOK, Put, InHand
<1>2. \A n \in Machine : Buffered(n)' = Buffered(n)
  BY DEF Put, Buffered
<1>3. Transit(m) # <<>> /\ Head(Transit(m)) = hand[m] /\ Tail(Transit(m)) = rest
  BY <1>1, TransitFacts, OneThenRest DEF IInv, Transit
<1>4. Transit(m)' = rest
  <2>1. <<>> \o rest = rest
    BY TransitFacts, ConcatEmptySeq DEF IInv
  <2> QED BY <1>1, <1>2, <2>1 DEF Transit, Put
<1>5. ASSUME NEW n \in Machine, n # m
      PROVE  Transit(n)' = Transit(n)
  BY <1>2, <1>5 DEF Transit, InHand, Put, IInv, TypeOK
<1>6. [n \in Machine |-> Transit(n)]'
        = [[n \in Machine |-> Transit(n)] EXCEPT ![m] = Tail(@)]
  BY <1>3, <1>4, <1>5
<1>7. Carrier!Deliver(m)
  BY <1>3, <1>6 DEF Carrier!Deliver, Transit, Put
<1> QED BY <1>7 DEF Carrier!Next

LEMMA GetTakes ==
  ASSUME IInv, NEW m \in Machine, NEW b \in Box, Get(m, b)
  PROVE  [Carrier!Next]_(Carrier!vars)
<1>1. [n \in Machine |-> Transit(n)]' = [n \in Machine |-> Transit(n)]
  BY DEF Get, Transit, InHand, Buffered
<1>2. Carrier!Take(m, b)
  BY <1>1 DEF Get, Carrier!Take, Transit
<1> QED BY <1>2 DEF Carrier!Next

LEMMA NextCarries == IInv /\ [Next]_vars => [Carrier!Next]_(Carrier!vars)
<1> SUFFICES ASSUME IInv, [Next]_vars PROVE [Carrier!Next]_(Carrier!vars)
  OBVIOUS
<1>1. CASE UNCHANGED vars
  BY <1>1, SendingStutters DEF vars
<1>2. ASSUME NEW s \in Sender, AcquireAndSend(s)
      PROVE  [Carrier!Next]_(Carrier!vars)
  BY <1>2, SendPosts
<1>3. ASSUME NEW s \in Sender, MessageSent(s) \/ Release(s)
      PROVE  [Carrier!Next]_(Carrier!vars)
  BY <1>3, SendingStutters DEF MessageSent, Release
<1>4. ASSUME NEW s \in Sender, NEW m \in Destination, NEW b \in Box, CallSend(s, m, b)
      PROVE  [Carrier!Next]_(Carrier!vars)
  BY <1>4, SendingStutters DEF CallSend
<1>5. ASSUME NEW m \in Machine, SendInterrupt(m)
      PROVE  [Carrier!Next]_(Carrier!vars)
  BY <1>5, SendingStutters DEF SendInterrupt
<1>6. ASSUME NEW m \in Machine, NetworkInterrupt(m) \/ WorkerP(m) \/ Receive(m) \/ Put(m)
      PROVE  [Carrier!Next]_(Carrier!vars)
  BY <1>6, HandOver, PutDelivers
<1>7. ASSUME NEW m \in Machine, NEW b \in Box, Get(m, b)
      PROVE  [Carrier!Next]_(Carrier!vars)
  BY <1>7, GetTakes
<1> QED BY <1>1, <1>2, <1>3, <1>4, <1>5, <1>6, <1>7 DEF Next

LEMMA InitCarries == Init => Carrier!Init
<1> SUFFICES ASSUME Init PROVE Carrier!Init
  OBVIOUS
<1>1. \A m \in Machine : InHand(m) \o (Buffered(m) \o socket[m]) = <<>>
  BY EmptySeq, ConcatEmptySeq DEF Init, InHand, Buffered
<1> QED BY <1>1 DEF Init, Carrier!Init

(* The post office and the network under it implement the ordered carrier of  *)
(* MailSpec: mail is lost, if at all, before it is in a socket, and never     *)
(* duplicated or reordered after that.                                        *)
THEOREM PostOfficesCarryMail == Spec => Carrier!Spec
BY InitCarries, NextCarries, Invariance, PTL DEF Spec, Carrier!Spec
=============================================================================
