CONSTANTS
  NoSession = NoSession
  s1 = s1
  s2 = s2
  s3 = s3
  s4 = s4
  v1 = v1
  v2 = v2
  u1 = u1
  u2 = u2
  u3 = u3
  Callers = {a, b}
  Sessions <- FourSessions
  UserOf <- SessionUsers
  DevOf <- Devices
  AppList = {"Android", "IOS"}
  MaxCalls = 4
  Clients = {c, d}
  Users = {u1, u2, u3}
  Known = {u2, u3}
  Unames <- OneUname
  Profiles <- UserProfiles
  RegisterNick <- Bob
  OtherNicks <- NoneOrBobs
  Randoms = {1}
  Days = 2
  MaxUserCalls = 3
SYMMETRY ClientSymmetry
SPECIFICATION Spec
INVARIANTS
  OneGroup
  NickIsFree
  LoginSyncs
  RegisteredOnce
CHECK_DEADLOCK FALSE
