\* Queries of every provider, and what the page makes of their results.
SPECIFICATION ViewSpec

CONSTANTS
  Fetches   <- MCFetches
  Exchanges <- MCExchanges
  Data      <- MCData
  Others    <- MCOthers
  MaxPages  = 3
  MaxCount  = 7

INVARIANTS
  FetchTypeOK
  RetriesOnlyAfterRejection
  OutcomeMatchesAnswers
  RowsReadBack
  SummaryAccountsForAll

PROPERTIES
  KeepsPromise
