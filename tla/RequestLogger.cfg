\* A request of each kind, an application that may answer again.
CONSTANTS
  Requests <- MCRequests
  Whitelisted <- MCWhitelisted
  Malformed <- MCMalformed
  Codes = {200, 400}
  OK = 200
  BadRequest = 400
  Bodies = {error}
  ErrorBody = error
  NoBody = NoBody
  MaxCopies = 2
SPECIFICATION FairSpec
INVARIANTS
  OneEntryPerResponse
  EntryMatchesAnswer
PROPERTY HandledIsSaved
\* Requests come to an end.
CHECK_DEADLOCK FALSE
