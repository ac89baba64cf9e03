SPECIFICATION Spec
CONSTANTS
  t1 = t1  t2 = t2  f1 = f1  f2 = f2  c1 = c1  c2 = c2
  Titles = {t1}
  Files = {f1, f2}
  Shipped = {f1}
  Calls = {c1, c2}
  Ops = {"core", "ship", "discover", "clear", "remove", "reload", "refuse", "evict"}
  None = None
  Art = Art
  Whole = Whole
INVARIANTS TypeOK NeverHalf BusyMeansRunning Relocatable NothingOfAGoneSource Accounted RemovalHolds
INVARIANTS SurvivesReload PointersHonest
SYMMETRY Interchangeable
CONSTRAINT Bounds
