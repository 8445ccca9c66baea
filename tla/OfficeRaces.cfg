SPECIFICATION MCSpec
CONSTANTS
  Bookings = {b1, b2, b3, b4}
  Requests = {r1}
  Steps = {s1}
  InitCapacity = 2
  NewCapacities = {}
  Handlers = {"create", "cancel", "close"}
  MayFail = FALSE
  NoBooking = NoBooking
  Tickets = {k1, k2}
  Clients = {c1, c2}
  Ttl = 2
  MaxNow = 4
  Disputes = {d1}
  DisputeRequests = {r1, r2}
  ResponseDays = 2
  Retention = 1
  AgencyRequests = {r1, r2, r3}
  MaxPackages = 3
  MaxTokens = 4
  ReviewRequests = {r1, r2}
  ReviewBookings = {b1, b2, b3}
  Ratings = {1, 5}
  Threshold = 70
  MinReviews = 2
  Reviewers = {a1, a2}
  QuizRequests = {r1, r2, r3}
  MaxVersion = 3
  MaxAttempts = 2
  Trips = {t1, t2}
  LastTripDay = 3
  Seats = {1, 3}
  PilgrimsPerGuide = 2
  Guides = 4
  Prices = {3, 5}
  Rates = {0, 10}
  Costs = {1, 4}
  FixedCosts = {0, 7}
  Capacities = {1, 5, 6}
  Payments = {p1, p2}
  Amount = 2
  Price = 5
  LastBooksDay = 2
  Departures = {2, 6}
  Month = 3
  DueDays = 3
  Plans <- MCPlans
  DocRequests = {r1, r2}
  Docs = {d1, d2, d3}
  Types = {"passport", "flight_ticket"}
  None = None
  r1 = r1
  r2 = r2
  r3 = r3
  d1 = d1
  d2 = d2
  d3 = d3
  b1 = b1
  b2 = b2
  b3 = b3
  b4 = b4
  k1 = k1
  k2 = k2
  c1 = c1
  c2 = c2
  t1 = t1
  t2 = t2
  p1 = p1
  p2 = p2
  a1 = a1
  a2 = a2
INVARIANTS
  TicketServesOnce
  ArbitrationIsEarned
  SharedLinkOpens
  ReviewComesFirst
  
  
  StepFollowsDocuments
PROPERTIES
  ImplementsLedger
  NothingLingers
  VerdictsStand
  ScoreIsFair
