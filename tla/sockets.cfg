SPECIFICATION Spec
CONSTANTS
  Channels = {"s", "c", "t", "u", "f"}
  Worker <- Workers
  Role <- Roles
  Kind <- Kinds
  Asked <- AskedOptions
  MaxFd = 2
  Process = Process
  Nobody = Nobody
INVARIANTS TypeOK LeftoversAreKnown OptionsAreKnown
PROPERTIES ClosesOnlyOwn
CHECK_DEADLOCK FALSE
