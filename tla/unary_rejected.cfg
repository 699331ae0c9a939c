SPECIFICATION AuthoredSpec
CONSTANTS
  Documents <- MCDocuments
  Worlds <- UnaryWorlds
  Programs <- MCPrograms
  Inputs <- MCInputs
  MaxDamages = 0
  Threads = {t1}
  Slots = {s1, s2}
  NoSlot = NoSlot
  MaximumCompiled = 1
  NoRequest = NoRequest
  NoRow = NoRow
  NoResult = NoResult
  Requests <- RequestsOf
  Rows <- RowsOf
  Results <- ResultsOf
  Key <- KeyOf
  Materialized <- MaterializedOf
  IsCompiled <- IsCompiledOf
  IsInvalid <- IsInvalidOf
  Evaluated <- EvaluatedOf
  Contract <- ContractOf
  IsSubmission <- IsSubmissionOf
  IsExecutable <- IsExecutableOf
  StoreTakes <- StoreTakesOf
  Executable <- ExecutableOf
  Loads <- LoadsOf
  InputFits <- InputFitsOf
  Follows <- FollowsOf
  Concerns <- ConcernsOf
  NameShape <- MCNameShape
  MaximumAttributes = 3
  MaximumDepth = 2
  MaximumString = 3
  MaximumCollection = 2
  MaximumInt = 7
  MaximumDouble = 14
  MaximumNesting = 3
  MaximumParsedDepth = 10
  MaximumTokens = 20
  MaximumTreeDepth = 8
  MaximumTreeNodes = 20
  MaximumCost = 40
  ReservedWords = {}
CHECK_DEADLOCK FALSE
INVARIANT DeploymentsAccepted
