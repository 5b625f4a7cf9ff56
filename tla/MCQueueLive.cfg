SPECIFICATION FairSpec
CONSTANTS
  c1 = c1
  m1 = m1
  n1 = n1
  n2 = n2
  r1 = r1
  Conn = {c1}
  Mail = {m1}
  Notice = {n1, n2}
  Rcpt = {r1}
  Pipe = {}
  MailTo = {{r1}}
  NoticeTo = {{r1}}
  MaxItems = 2
  DefaultMaxItems = 2
  GiveUpAfter = 1
  DefaultGiveUpAfter = 1
  MaxCrashes = 1
  MaxFaults = 1
PROPERTY EventuallySettled EventuallyLeaves
