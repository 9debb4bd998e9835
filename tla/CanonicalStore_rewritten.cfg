\* One process, and a sync that rewrites the staged file.
SPECIFICATION Spec
CONSTANTS
  r1 = r1  r2 = r2  r3 = r3  r4 = r4  s1 = s1  s2 = s2
  Runs = {r1, r2}
  Sources = {s1, s2}
  Contents = {a, b}
  FileNames = {s1, s2}
  FileName <- OwnName
  Rewritable = {s2}
  MaxActive = 1
  NoRow = NoRow
INVARIANT ChunksAreOfTheBlob
