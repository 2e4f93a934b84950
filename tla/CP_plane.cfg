CONSTANTS
  w1 = w1
  w2 = w2
  rom = rom
  Addrs = {w1, w2, rom}
  Writable = {w1, w2}
  Readable = {w1, w2}
  WriteLists <- MCWriteLists
  ReadLists <- MCReadLists
  BatchMax = 2
  ParamDiv = 2
  MaxRequests = 4
  MaxStarts = 1
SPECIFICATION FairSpec
INVARIANTS TypeOK PreparedIsPublished StagedBatch ReadAnswersRequest
           PageAnswersRequest
PROPERTIES StatusNamesItsBatch ImplementsParamStore CommitDecided ReadAcknowledged
