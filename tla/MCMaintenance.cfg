SPECIFICATION Spec
CONSTANTS
  None = None
  Profiles <- Hosts
INVARIANTS ResultsTrue Exclusive RetriesAreSafe
PROPERTIES TerminalIsFinal
CHECK_DEADLOCK FALSE
