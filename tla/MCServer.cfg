SPECIFICATION MCSpec
CONSTANTS
  q1 = q1
  t1 = t1
  t2 = t2
  u1 = u1
  u2 = u2
  p1 = p1
  c1 = c1
  s1 = s1
  Absent = Absent
  Torn = Torn
  Idle = Idle
  Denied = Denied
  NoUser = NoUser
  Writer = {q1, t1, t2}
  Fsync = {q1}
  Value <- MCValue
  MaxFaults = 1
  MaxPower = 1
  User = {u1, u2}
  Password = {p1}
  Tool = {t1, t2}
  Command <- MCCommand
  MaxCommands = 2
  Reloader = {"signal", "tick"}
  Session = {s1}
  Paths <- MCPaths
  DovecotUsers <- MCDovecot
  MaxMoves = 1
  Client = {c1}
  Flaw = {"config", "maillog", "no certs", "users", "aliases", "dkim", "dinfo", "port", "rpc"}
  MaxFlaws = 1
  MaxSignals = 2
  MaxCrashes = 1
  MaxCalls = 1
INVARIANTS
  
  NeverHalfStarted
PROPERTIES
  FileAtomic
  CommandsTakeEffect
  HupReloads
  
