\* The command, run twice, beside two ingests of any of the paths.
SPECIFICATION FairSpec
CONSTANTS
  r1 = r1  r2 = r2  twice = twice  once = once  fresh = fresh  h1 = h1  h2 = h2
  Docs <- InOrder
  Hashes = {h1, h2}
  Legacy <- Before
  Runs = {r1, r2}
  MaxBackfills = 2
  Migrate = migrate
INVARIANTS
  PromisedIsCanonical
  ChunkIsOfItsVersion
PROPERTY EveryoneEnds
CHECK_DEADLOCK FALSE
