SPECIFICATION FairSpec
CONSTANTS
  Ops = {"upload", "download", "clear", "set-current", "log", "log-list", "param-backup", "param-read", "param-restore", "ftp", "ftp-tree"}
  StepTimeout = 1
  MaxRetries = 1
  SendMayThrow = TRUE
  UploadCount = 2
  HeldCount = 3
  OtherCount = 2
  LogSizes = {0, 4, 7}
  PacketSize = 2
  WindowPackets = 2
  LogCount = 2
  TableSizes = {0, 2}
  RestoreCount = 2
  FileSize = 3
  MaxData = 2
  Names = {1, 2}
  TreeSize = 4
CHECK_DEADLOCK FALSE
INVARIANTS
  OutcomeIsTrue
  TransfersEnd
  DataIsExact
PROPERTIES
  AlwaysSettles
