SPECIFICATION FairSpec
CONSTANTS
  c1 = c1
  c2 = c2
  c3 = c3
  Clients <- ThreeClients
  Limit = 2
  MaxJoins = 5
  MaxErrors = 1
  MaxPanics = 1
  MaxServed = 2
INVARIANT TypeOK
INVARIANT PermitsConserved
INVARIANT CountersFollow
PROPERTY EveryoneGetsIn
PROPERTY SignalEndsProcess
PROPERTY IsTurnstile
