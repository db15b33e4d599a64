SPECIFICATION Spec
CONSTANTS
  AttachmentLists <- MCAttachments
  Sizes = {1, 5}
  ChunkSize = 2
  MaxMedia = 2
  Ceiling = 3
  CheckAfters = {0, 2}
  DefaultWait = 1
  PollInterval = 1
  NoInfo = NoInfo
CHECK_DEADLOCK FALSE
INVARIANTS TypeOK AttachmentsKept MediaWhole
PROPERTIES ImplementsPostCall CallEnds
