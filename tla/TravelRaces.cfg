SPECIFICATION MCSpec
CONSTANTS
  Bookings = {b1, b2, b3}
  Packages = {p1, p2}
  Agencies = {a1, a2}
  PackageOf <- MCPackageOf
  AgencyOf <- MCAgencyOf
  Prices = {100}
  Requests = {r1, r2}
  MaxYear = 1
  MaxAudits = 1
  MaxAttempts = 1
  MaxCodes = 2
  MaxSessions = 2
  MaxPasswords = 2
  MaxLinks = 1
  Pilgrims = {p1, p2}
  Owners = {o1, o2}
  Guides = {u1, u2}
  Admins = {root}
  Groups = {g1, g2}
  Pilgrim = p1
  Owner = o1
  PlannedGuides = {u1}
  Absences = {a1}
  LastDay = 2
  GroupBookings = {b1}
  Guide = u1
  Agency = a1
  MaxMessages = 2
  Shifts = {s1, s2}
  Horizon = 4
  MaxShift = 3
  Take = 1
  Trip <- MCTrip
  MaxStamp = 2
  MaxDay = 7
  Period = 2
  Departures = {7, 9}
  DueDays = 3
  Offsets = {1, 2, 4}
  None = None
  r1 = r1
  r2 = r2
  b1 = b1
  b2 = b2
  b3 = b3
  p1 = p1
  p2 = p2
  a1 = a1
  a2 = a2
  u1 = u1
  u2 = u2
  g1 = g1
  g2 = g2
  o1 = o1
  o2 = o2
  root = root
  s1 = s1
  s2 = s2
SYMMETRY Symmetry
INVARIANTS
  NumberedWithoutGap
  
  SessionsEndWithPassword
  
  
  
  BookingIsInItsGroup
  PositionsAreConsented
  ThreadsReachTheirReaders
  RotaIsSound
  NewestItemWins
  InstallmentsFollowPlan
  RemindersArrive
PROPERTIES
  AccountKeepsRole
