SPECIFICATION MCSpec
CONSTANTS
  Policies <- MCPolicies
  Edits = 2
  Changes = 2
  ConfigEdits = 2
  ConfigValues = {"one", "two", " one", "", "bad", "control", "long"}
  DiscoveryLimit = 2
  Keys = {"sso_session", "sso_account_id", "sso_role_name", "region", "sso_start_url", "sso_registration_scopes", "credential_process"}
  Operations = {"DescribeStackResources", "DescribeLogStreams", "BatchGetBuilds", "ListFunctions"}
  Values = {"x", "-x", "[x]", "7", "LastEventTime", "ALL"}
  MaxArguments = 3
  MaxWords = 2
  MaxPages = 3
  MaxBytes = 2
  PageTokens = {"t1", "t2"}
  MaxRows = 2
  MaxEntries = 3
  DetailLimit = 1
  Batch = 3
  Concurrency = 2
  Letters = {"a", "b"}
  PatternLength = 4
  TextLength = 4
INVARIANTS
  EntryGuardsFirstCall
  SavedReadsBack
  ProfileExact
  CommandReadsBack
  GlobMatchesReference
  DispatchedUnderCurrentPolicy
  RowsInRequestOrder
  CoverageHonest
CHECK_DEADLOCK FALSE
