\* The browser and the request handlers, one part at a time.
SPECIFICATION WebSpec

CONSTANTS
  Tabs = {t1, t2}
  MaxRequests = 4
  Dates = {1, 2}
  MaxPublications = 3
  PageDates = {1, 2}
  MaxLoads = 3
  PageSymbols = {s1, s2}
  NoSymbol = none
  MaxQueries = 5
  ListDates = {1, 2}
  LegacyDates = {2}
  MaxVisits = 2
  Runs = {r1, r2}
  NoResult = none
  MaxClicks = 3
  Posts = {p1, p2}
  ChartDays = {1, 2, 3, 4}
  MaxCandles = 2
  MaxRevisions = 1
  Providers = {slack, other}
  MaxRetries = 2

\* The bounds on requests and clicks let a behaviour end.
CHECK_DEADLOCK FALSE

INVARIANTS
  WebTypeOK
  CookieIsUsable
  SessionsOfALogin
  ReadersAreConsistent
  PagesShowTheSelection
  PagesSettle
  OneFetchPerRun
  StoredRunsAreSound
  ChartIsWhole
  NotifiedOnce

PROPERTIES
  EverythingEnds
