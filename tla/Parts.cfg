SPECIFICATION FairSpec
CONSTANTS
  f1 = f1
  f2 = f2
  f3 = f3
  f4 = f4
  f5 = f5
  f6 = f6
  MaxAttempts = 4
  File = {f1, f2, f3, f4, f5, f6}
  Copies <- MCCopies
  BadType = {f4}
  TooLarge = {f5}
  MaxFiles = 2
  MinFiles = 1
  MaxBatch = 2
  MaxRuns = 4
  Figure <- MCFigures
  MaxEdits = 2
  RowId = {s1, s2, s3}
  SweepId = {a, b}
  BatchSizes = {1, 2}
  Ceilings = {2}
  Ttl = 1
  MaxTime = 1
  MaxMishaps = 1
INVARIANTS CountedOnce ShowsLatest UpMeansFit ReportsAddUp
PROPERTIES AddsWhatItAnnounces CleanSweep ExpiredRowsGo
CHECK_DEADLOCK FALSE
