SPECIFICATION Spec
CONSTANTS
  m1 = m1 m2 = m2 m3 = m3 x = x y = y
  Names = {m1, m2, m3, x, y}
  Horizon = 3
  Admins = {a1}
  Calls = {"reconcile"}
  MaxJobs = 2
  None = None
  Events <- FeedEvents
PROPERTIES ReconcilingIsHarmless
