\* Two components, one SIS and one Java application, one request of a client
\* besides the downloads: handlers of every kind nest.
CONSTANTS
  SisApps = {sis}
  JavaApps = {java}
  NoApp = NoApp
  MaxId = 2
  MaxRequests = 1
SPECIFICATION FairSpec
INVARIANTS
  TypeOK
  OneRequest
PROPERTIES
  
  ActivatedIsInstalled
  HandlersEnd
CHECK_DEADLOCK FALSE
