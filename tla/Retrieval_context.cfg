\* An anchor whose version is replaced before its neighbours are read.
SPECIFICATION Spec
CONSTANTS
  Docs = {"file", "mail"}
  Locator <- VersionLocators
  Priority <- LocalFirst
  Weight <- MailFirst
  Words <- Corpus
  FirstVersion <- AtFirst
  Questions <- Asked
  MinScore <- Threshold
  TopK = 3
  MaxPerSource = 2
  Window = 1
  MaxExpanded = 2
INVARIANT EvidenceInContext
CHECK_DEADLOCK FALSE
