CONSTANTS
  MinTokens = 2
  MaxTokens = 4
  LongestWord = 10
  OverlapTokens = 2
  BlockRows = 2
  Docs <- AllDocs
  Listed <- ListedDocs
  InScope <- ScopeDocs
  NoDocument = "none"
  MaxChunks = 2
  InitialRows <- StoredAtFirst
  DenseK = 2
  FtsK = 2
  TopK = 2
  RrfK = 60
  PassageLimit = 2
  Files <- Uploads
  Incoming <- n
  ThinPage = 10
  BatchSize = 2
  OddChunks = 3
  MaxRetries = 2
SPECIFICATION Spec
INVARIANTS
  RetrievalTypeOK
  SourcesAllowed
  FusionAgrees
  OneSearchSuffices
  RecordedSourcesExist
  OnceSeenIsKept
  ChunksCover
  ChunkFits
  AcceptedIsReadable
  VectorsFollowTexts
CHECK_DEADLOCK FALSE
