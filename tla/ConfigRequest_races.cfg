SPECIFICATION Spec
CONSTANTS
  Requesters = {uart, httpd}
  Null = Null
  MaxCalls = 3
INVARIANT FaultNeedsRace
INVARIANT WaitingIsRegistered
INVARIANT RestIsClean
SYMMETRY Symmetry
