SPECIFICATION Spec
CONSTANTS
  w1 = w1
  w2 = w2
  ma = ma
  mb = mb
  mc = mc
  ga = ga
  gb = gb
  gc = gc
  gd = gd
  Null = Null
  Unset = Unset
  Workers = {w1, w2}
  Emails = {ma, mb, mc}
  Subjects = {ga, gb, gc, gd}
  Credentials <- MCHandedOver
  InitialUsers <- MCUsers
  FirstId = 3
  MaxId = 3
INVARIANTS AdminExists
SYMMETRY Symmetric
