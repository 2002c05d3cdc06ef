SPECIFICATION Spec
CONSTANTS
  lights = lights
  lamps = lamps
  bulb = bulb
  plug = plug
  a = a
  b = b
  c = c
  d = d
  e = e
  f = f
  g = g
  h = h
  on = on
  off = off
  None = None
  Callers = {lights, lamps}
  Works <- MCWorks
  Foreign <- MCForeign
  Ids = {1, 3, 4, 5, 6, 214}
  Devices = {bulb, plug}
  Names = {a, b, c, d, e, f, g, h}
  Settings = {on, off}
  Existing <- MCExisting
  Environments = {{"slow", "again", "garble", "unsent"}, {"lose", "refuse", "others"}}
  Buffer = 2
  MaxPending = 2
CHECK_DEADLOCK FALSE
INVARIANTS
  TypeOK
  AnswersAreOwn
  OkIsTrue
