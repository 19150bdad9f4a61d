SPECIFICATION Spec
CONSTANTS
  Retries = 1
  Replies <- MCReplies
  Corpus <- MCCorpus
  View = "evaluation"
  Configured <- MCConfigured
  MaxKills = 1
INVARIANTS
  TypeOK
  RebuildReproduces
  SummariesAreOfLog
  SentAsLogged
  OneSample
  CreditIsDeserved
PROPERTIES Finishes
