\* Two clients, two components, up to three wrappers in the store.
CONSTANTS
  Clients = {k1, k2}
  Components = {a, b}
  MaxStore = 3
  MaxDialogs = 2
  RemoveInStore = FALSE
SPECIFICATION FairSpec
INVARIANTS
  TypeOK
  
  HandledIsInStore
  ArmedOnlyWhenIdle
  CountsSessions
PROPERTIES
  ImplementsLifecycle
  
