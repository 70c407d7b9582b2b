\* Two uploads of one name, or two downloads of up to two chunks through channels
\* of one, over two connections of the agent
SPECIFICATION TransferSpec
CONSTANTS
  Uploads = {1, 2}
  Web = {1}
  Sizes = {2}
  MaxSize = 2
  MaxConn = 2
  Deleted = {0}
  Downloads = {d1, d2}
  DownCap = 1
INVARIANTS
  FilesKept
  NothingLeftOpen
  BodyFaithful
PROPERTIES
  DeliversFiles
CHECK_DEADLOCK FALSE
