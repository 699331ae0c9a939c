SPECIFICATION FairSdkSpec
CONSTANTS
  c1 = c1  c2 = c2  s1 = s1
  Calls = {c1, c2}
  Signals = {s1}
  RequestsOf <- MCRequestsOf
  Randoms = {0, 2}
  ResponsesOf <- MCResponsesOf
  Configurations <- MCConfigurations
  Batches <- MCBatches
  Identifiers = {"acme", "shop", "prod", "limits", "high", "load", "mode", "ratio", "tags"}
  MemberNames = {"load", "mode", "ratio", "tags"}
  Sha256Digests = {"sha256:1", "sha256:2", "sha256:e", "sha256:j"}
  CorrelationTexts = {"asked"}
  UriReferences = {"/v3"}
  UuidV4s = {"uuid1", "uuid2"}
  ResultHash <- MCResultHash
  CorrelationKey <- MCCorrelationKey
  CorrelationKeys = {"flaggo.correlation.load", "flaggo.correlation.mode",
                     "flaggo.correlation.ratio", "flaggo.correlation.tags"}
  MultilineTexts = {}
  MaximumDocumentBytes = 8
  MaximumJsonDepth = 4
  MaximumCollectionSize = 4
  MaximumStringBytes = 2
  MaximumAttributes = 3
  MaximumUrlLength = 1
  MaximumExposureBytes = 1
INVARIANTS
  CallsEndClean
  DecisionsObserved
  ExportsAreEvidence
PROPERTIES
  AttemptsRepeatTheRequest
  CallsSettle
CHECK_DEADLOCK FALSE
