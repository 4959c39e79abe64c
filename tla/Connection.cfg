SPECIFICATION FairSpec
CONSTANTS
  None = None
  Modes = {"tcp", "stream", "udp"}
  Names = {n1}
  Identities = {gcs, companion}
  Refused = {companion}
  MaxDials = 5
  WriteIds = {w1, w2, w3}
INVARIANTS
  StateIsTrue
  PumpIsSound
PROPERTIES
  LinkComesBack
