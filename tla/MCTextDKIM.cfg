SPECIFICATION TextSpec
CONSTANTS
  Jobs = {"dkim"}
  MaxBytes = 12
  MaxSize = 7
  headersToSign <- MCToSign
  extraHeadersToSign <- MCExtra
  maxHeaders = 3
  Signers <- MCSigners
  Others <- MCOthers
  Messages <- Repeated
  Zone <- MCZone
  MaxHops = 0
  NoSig = NoSig
  None = None
  c1 = c1
  local = local
  remote = remote
  cmd = cmd
  c2 = c2
  Caller = {c1}
  Local = {local}
  Asked <- MCAsked
  Users <- MCUsers
  Files <- MCFiles
  Hook <- MCHook
  Limit = 3
  MaxReloads = 2
  MaxHookFaults = 2
INVARIANT SignaturesHold
CHECK_DEADLOCK FALSE
