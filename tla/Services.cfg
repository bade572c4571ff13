\* Every service module on its own small instance, one at a time.
\* Users and clients may simply stop, so may the states: no deadlock check.
CONSTANTS
  \* GraphBudget: two calls of one connection, a window of 2 per minute of 2
  Connections = {"ms"}
  Calls = {call1, call2}
  ConnectionOf <- MCConnectionOf
  Budgets = {1, 2, 3}
  NoBudget = 0
  Minute = 2
  Hour = 6
  PerMinute = 2
  PerHour = 2
  Spacing = 1
  Concurrency = 1
  IdleEvict = 3
  EvictInterval = 0
  CooldownCap = 2
  Jitter = 0
  MaxLevel = 2
  Decay = 2
  RetryAfterCap = 3
  MaxRetries = 2
  MaxNow = 7
  \* GraphPaging: four members, pages of two, a fifth that may join
  Members = {1, 2, 3, 4, 5}
  Listed <- MCListed
  PageSize = 2
  MaxEdits = 3
  \* SnippetSelection: a long page, and a short one that is longer when lowered
  Pages = {"p", "q"}
  ContentLength <- MCContentLength
  LoweredLength <- MCLoweredLength
  PathLength <- MCPathLength
  TermLengths = {1, 2, 5}
  HalfWidth = 1
  MaxSnippetChars = 6
  MaxSnippets = 4
  MaxSnippetsPerPage = 3
  ResponseBudget = 22
  Overhead = 2
  \* LoginFlow: two logins, two codes, two people, two callbacks
  OAuthStates = {state1, state2}
  AuthCodes = {code1, code2}
  People = {ann, bob}
  Callbacks = {cb1, cb2}
  FlowTTL = 1
  LoginTimeLimit = 2
  MaxUserId = 3
  \* MicrosoftToken: a worker's run and a web request
  TokenRuns = {"worker", "web"}
  MaxLogins = 3
  \* McpServer: one key, two notebooks of one page each
  Keys = {"k1"}
  Notebooks = {1, 2}
  NotePages = {"a", "b"}
  NotebookOf <- MCNotebookOf
  Cuts <- MCCuts
  TextLength = 8
  ExpandStep = 2
  MaxRevision = 2
  \* Dashboard: two rows, two clicks
  Rows = {row1, row2}
  Posts = {post1, post2}
  MaxClicks = 2
  MaxOutside = 1
  \* PageContent: every page of two blocks and a PDF
  Blocks = {"b1", "b2"}
  Attachments = {"d1"}
  \* ContentOverlap: two runs of a notebook, a page, two edits, short lists
  SyncRuns = {run1, run2}
  SyncSections = {"s"}
  SyncPages = {"p"}
  SectionOf <- MCSectionOf
  MaxEdit = 2
  MayOmit = TRUE
SPECIFICATION ServicesSpec
INVARIANTS
  ServicesTypeOK
  BudgetInUseIsKept HourOverrunIsTwofold NeverOversleeps
  QuietListIsExact CompleteMissesOnlyUnderSwap RepeatsOnlyUnderGrowth
  SnippetsAreDisjoint AnswerIsWhatMatched BudgetIsAccounted 
  UsedFlowIsGone IdentitiesAreNeverShared
  StaleWritesNeedAnOverlap DisconnectIsFinal
  AnswersStayInScope HandlesNameTheirText
  PageAtRestIsCurrent
  FreshPagesKeepTheirText
  MissedOnlyIfHarmed
PROPERTIES
  ReleasesArePaced CooldownIsHonoured UsersKeepTheirId RevocationIsFinal
SYMMETRY Symmetry
CHECK_DEADLOCK FALSE
