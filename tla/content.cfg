CONSTANTS
  Cases <- MCCases
  Defaults <- MCDefaults
  TextMax <- MCTextMax
  Attachments <- MCAttachments
  MediaLimits <- MCMediaLimits
  EncodedSizes = {1, 4, 9}
  FetchLimit = 9
  MinEdge = 2
  VideoEdge = 6
  Qualities = 2
  NoFile = NoFile
SPECIFICATION ContentSpec
CHECK_DEADLOCK FALSE
INVARIANTS
  ContentTypeOK
  StartsWhenComplete
  RoutesSound
  NewerIsGreater
  MarkupOnlyDropped
  SameWordsSameHash
  LinksExpandedInPlace
  TextFits
  LinksWhole
  MediaFits
  BestShown
