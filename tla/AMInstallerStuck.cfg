\* An update that fails leaves iInstallInProgress set.
CONSTANTS
  SisApps = {sis}
  JavaApps = {}
  NoApp = NoApp
  MaxId = 2
  MaxRequests = 2
SPECIFICATION FairSpec
INVARIANTS
  InProgressHasHolder
CHECK_DEADLOCK FALSE
