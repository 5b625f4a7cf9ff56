SPECIFICATION TextSpec
CONSTANTS
  Jobs = {"aliases"}
  MaxBytes = 12
  MaxSize = 7
  headersToSign <- MCToSign
  extraHeadersToSign <- MCExtra
  maxHeaders = 3
  Signers <- MCSigners
  Others <- MCOthers
  Messages <- MCMessages
  Zone <- MCZone
  MaxHops = 2
  NoSig = NoSig
  None = None
  c1 = c1
  local = local
  remote = remote
  cmd = cmd
  c2 = c2
  Caller = {c1, c2}
  Local = {local}
  Asked <- TwoSpellings
  Users <- MCUsers
  Files <- MCFiles
  Hook <- MCHook
  Limit = 3
  MaxReloads = 0
  MaxHookFaults = 0
INVARIANT ResolvesAsWritten
CHECK_DEADLOCK FALSE
