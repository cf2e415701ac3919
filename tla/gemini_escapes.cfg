SPECIFICATION Spec
CONSTANTS
  MaxAttempts = 3
  Base = 1
  LlmModel <- MCLlmModel
  Models <- MCModels
  Rates <- MCRates
  Unit = 10
  Usages <- MCUsages
  Unknown = Unknown
  Statuses <- MCStatuses
  Delays = {0, 7}
  NoHint = NoHint
  Date = Date
  Replies = {"Hello."}
  Empty = "no text"
  Characters <- MCCharacters
  Histories <- MCHistories
  MaxTurns = 1
INVARIANTS NothingEscapes
