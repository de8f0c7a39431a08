CONSTANTS
  hostA = hostA
  hostB = hostB
  s1 = s1
  s2 = s2
  NoSender = NoSender
  NoMail = NoMail
  Machine <- MCMachine
  Destination <- MCDestination
  Sender <- MCSender
  HostOf <- MCHostOf
  Box = {0}
  SocketRoom = 2
  BoxRoom = 1
SPECIFICATION FairSpec
INVARIANT TypeOK
INVARIANT SendsAreSerial
INVARIANT PermitPerPacket
PROPERTY CarriesMail
