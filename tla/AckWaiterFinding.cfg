SPECIFICATION Spec
CONSTANTS
  TimeoutMs = 2
  RetryInterval = 1
  MaxRetries = 2
  SendMayThrow = FALSE
PROPERTIES
  NeverResentIntoWork
