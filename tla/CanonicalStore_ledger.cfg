\* Refinement and termination: three ingests, two processes.
SPECIFICATION FairSpec
CONSTANTS
  r1 = r1  r2 = r2  r3 = r3  r4 = r4  s1 = s1  s2 = s2
  Runs = {r1, r2, r3}
  Sources = {s1, s2}
  Contents = {a, b}
  FileNames = {s1, s2}
  FileName <- OwnName
  Rewritable = {}
  MaxActive = 2
  NoRow = NoRow
PROPERTIES
  ImplementsLedger
  RunsTerminate
