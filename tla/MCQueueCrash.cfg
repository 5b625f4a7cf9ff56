SPECIFICATION Spec
CONSTANTS
  c1 = c1
  c2 = c2
  m1 = m1
  m2 = m2
  n1 = n1
  n2 = n2
  r1 = r1
  r2 = r2
  Conn = {c1, c2}
  Mail = {m1, m2}
  Notice = {n1, n2}
  Rcpt = {r1, r2}
  Pipe = {r2}
  MailTo = {{r1, r2}}
  NoticeTo = {{r1}}
  MaxItems = 2
  DefaultMaxItems = 2
  GiveUpAfter = 1
  DefaultGiveUpAfter = 1
  MaxCrashes = 1
  MaxFaults = 1
INVARIANT TypeOK
INVARIANT NoMailLost
 
INVARIANT NoBounceOfBounce
PROPERTY RemovedStaysRemoved
PROPERTY DurableOutcomeFinal
SYMMETRY Symmetry
CONSTRAINT OneAtATime
