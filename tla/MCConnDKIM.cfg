SPECIFICATION Spec
CONSTANTS
  s1 = s1
  s2 = s2
  Mode <- SMTPOnly
  Sender = {s1}
  MaxRcpt = 0
  MaxMsgs = 2
INVARIANT OwnDKIM
CHECK_DEADLOCK FALSE
