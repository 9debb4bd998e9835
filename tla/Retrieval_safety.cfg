\* A question of each strategy; the file has three chunks without a version and gets one.
SPECIFICATION Spec
CONSTANTS
  Docs = {"file", "mail"}
  Locator <- VersionLocators
  Priority <- LocalFirst
  Weight <- MailFirst
  Words <- Corpus
  FirstVersion <- AtFirst
  Questions <- Asked
  MinScore <- Threshold
  TopK = 3
  MaxPerSource = 2
  Window = 1
  MaxExpanded = 2
INVARIANTS
  TypeOK
  OneRecordPerCall
  PerSourceLimit
  DefaultIsBestLineage
  ContextIsGrounded
CHECK_DEADLOCK FALSE
