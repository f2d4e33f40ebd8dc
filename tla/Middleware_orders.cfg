SPECIFICATION FairSpec
CONSTANTS
  Orders = {"retry_timeout_limit", "retry_limit_timeout", "limit_retry_timeout"}
  Requests = {1, 2, 3}
  Limit = 1
  RetryCount = 1
  Errors = {"refused", "denied"}
  Transient = {"refused", "timed out", "broken pipe"}
INVARIANTS
  PermitsConserved
  AttemptsExact
PROPERTIES
  NoHostages
  AllAnswered
CHECK_DEADLOCK FALSE
