CONSTANTS
  c1 = c1
  c2 = c2
  Clients = {c1, c2}
  Fds = {f1, f2}
  NoFd = nofd
  Room = 1
  Script <- MCScript
  MaxPresses = 2
SPECIFICATION FairSpec
INVARIANTS
  TypeOK
  ObserverOwnsDescriptor
  AtMostOneLateCall
  SubscriberMissesNothing
  EveryCommandAnswered
  OnlyClientsAreWaitedFor
PROPERTIES
  ImplementsBroadcast
  GoneSubscriberDropped
  NotifyReturns
  MainEnds
