SPECIFICATION Spec
CONSTANTS
  c1 = c1
  m1 = m1
  m2 = m2
  n1 = n1
  r1 = r1
  Conn = {c1}
  Mail = {m1, m2}
  Notice = {n1}
  Rcpt = {r1}
  Pipe = {}
  MailTo = {{r1}}
  NoticeTo = {{r1}}
  MaxItems = 2
  DefaultMaxItems = 2
  GiveUpAfter = 1
  DefaultGiveUpAfter = 1
  MaxCrashes = 0
  MaxFaults = 0
INVARIANT FailureReported
