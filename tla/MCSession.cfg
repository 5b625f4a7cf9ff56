SPECIFICATION MCSpec
CONSTANTS
  Jobs = {"session", "data", "dkim", "aliases"}
  s1 = s1
  s2 = s2
  Mode <- AllModes
  Sender = {s1}
  MaxRcpt = 1
  MaxMsgs = 2
  MaxBytes = 11
  MaxSize = 6
  headersToSign <- MCToSign
  extraHeadersToSign <- MCExtra
  maxHeaders = 3
  Signers <- MCSigners
  Others <- MCOthers
  Messages <- MCMessages
  Zone <- MCZone
  MaxHops = 2
  NoSig = NoSig
  None = None
  c1 = c1
  local = local
  remote = remote
  cmd = cmd
  c2 = c2
  Caller = {c1}
  Local = {local}
  Asked <- MCAsked
  Users <- MCUsers
  Files <- MCFiles
  Hook <- MCHook
  Limit = 3
  MaxReloads = 2
  MaxHookFaults = 2
INVARIANTS
  TypeOK
  RelayNeedsAuth
  OneTransaction
  
  AnswerIsTrue
  
  OneLateCommand
  MessageExact
  
  ChangeDetected
  
  AcceptedIsKnown
PROPERTIES
  SessionEnds
  EveryCallEnds
CHECK_DEADLOCK FALSE
