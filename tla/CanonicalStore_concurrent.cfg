\* Four ingests of two sources and two contents by two processes.
SPECIFICATION Spec
CONSTANTS
  r1 = r1  r2 = r2  r3 = r3  r4 = r4  s1 = s1  s2 = s2
  Runs = {r1, r2, r3, r4}
  Sources = {s1, s2}
  Contents = {a, b}
  FileNames = {s1, s2}
  FileName <- OwnName
  Rewritable = {s2}
  MaxActive = 2
  NoRow = NoRow
SYMMETRY Symmetry
INVARIANTS
  TypeOK
  OneDocumentPerPath
  VersionsNumbered
  ChunksOfCurrent
  NoPartialIdentity
  DoneIsObserved
