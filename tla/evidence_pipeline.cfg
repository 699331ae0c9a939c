SPECIFICATION FairPipelineSpec
CONSTANTS
  w1 = w1  w2 = w2  v1 = v1  v2 = v2
  Bytes <- MCBytes
  SizeOf <- MCSizeOf
  Identifiers <- MCIdentifiers
  AuthorityNames <- MCIdentifiers
  UuidV4s = {"uuid"}
  Sha256Digests <- MCDigests
  DigestTexts <- MCDigests
  ResultHash <- MCResultHash
  CorrelationKeys = {}
  MultilineTexts = {}
  SourceTexts <- MCSourceTexts
  UnitTexts = {"1"}
  ByteOrder <- MCByteOrder
  Listed <- MCListed
  MaxRetainedBytes = 2
  HardRetention = 1
  Versions = {v1, v2}
  Requests <- MCRequests
  MaxRequestBytes = 2
  Published <- MCPublished
  Workers = {w1, w2}
  VersionOf <- MCVersionOf
  ReadLimit = 2
  Projection <- ProjectionOf
  Clocks = {0, 2}
  MaxBatches = 2
  MaxFaults = 1
CHECK_DEADLOCK FALSE
INVARIANTS
  InboxBooks
  NoPoison
  OneObservationPerSource
  DecisionEvidenceSound
PROPERTIES
  CatalogDurable
  ImplementsLedger
  BatchesSettle
