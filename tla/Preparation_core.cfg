SPECIFICATION Spec
CONSTANTS
  Main = "main"
  Sub = "sub"
  Procs = {"p1"}
  Urls <- MCUrls
  Dir <- Directories
  Unwanted <- VendoredFile
INVARIANTS LoadsSurvive ShardsPartitionFiles LimitsHold CapsBind AnswersAreFinal
PROPERTIES RestrictionsHold PinsFreeze
CHECK_DEADLOCK FALSE
