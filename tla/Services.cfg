SPECIFICATION ServicesSpec
CONSTANTS
  Autos = {a1}
  Runs = {1, 2}
  MaxAtOnce = 1
  RetriesOf <- MCRetriesOf
  Attended = {1}
  MaxCalls = 1
  NoAuto = NoAuto
  DayHours = 3
  WeekDays = 2
  MonthDays = 3
  SearchDays = 6
  LastHour = 9
  Zones <- MCZones
  Schedules <- MCSchedules
  Approvals = {ap1, ap2}
  Paths = {f1, f2}
  Contents = {x1}
  Turns = {tn1, tn2}
  MaxCheckpoints = 1
  MaxRequests = 1
  MaxFaults = 1
  NoTurn = NoTurn
  Absent = Absent
  Links = {l1}
  Commands = {rc1, rc2}
  MaxUploads = 1
  MaxSockets = 2
  MaxSends = 3
  NoLink = NoLink
  MaxQueue = 2
  TrustAsks = {k1, k2, k3}
  MaxTrusts = 2
  Lifetime = 3
  MaxDelay = 2
  Prompts = {pr1, pr2}
  MaxTurns = 2
  NoPrompt = NoPrompt
  Direct = Direct
  Dispatches = {dp1, dp2}
  MaxChatTurns = 2
  MaxEntries = 1
  MaxRecorders = 1
  MaxTexts = 2
  Chats = {t1, t2}
  MaxDeltas = 1
  MaxStreamed = 1
  MaxPages = 1
  MaxLoads = 2
  Segments = {1, 2}
  MaxSegText = 2
  Assets = {v1, v2}
  NoAsset = NoAsset
  MaxAttempts = 2
  MaxUpdates = 2
  Events = {"e1", "e2"}
  Ends = {"n1"}
  MaxRenames = 1
  Profiles = {p1}
  InstallStarts = {st1, st2}
  MaxTries = 2
  MaxInstalls = 2
  HostTools = {tool1, tool2, tool3}
  tool1 = tool1
  tool2 = tool2
  tool3 = tool3
  HostCommands = {"brew", "apt", "git", "bwrap"}
  HostManifests <- MCHostManifests
  StoreJobs = {j1, j2}
  Artifacts = {art1, art2}
  Roots = {root1}
  MaxStoreFaults = 1
  Users = {u1, u2}
  NoUser = NoUser
  ApiCalls = {1, 2}
  NoCall = NoCall
  MaxSignIns = 2
  MaxBuilds = 3
  Manifests = {m1, m2}
  Nothing = Nothing
  Targets = {tg1, tg2}
  MaxChanges = 1
  Terminals = {1, 2}
  Directories = {d1, d2}
  OutputCap = 1
  MaxChunks = 2
  MaxShows = 2
  HostAsks = {r1}
  NoAnswer = NoAnswer
  WindowCmds = {w1}
  Plugins = {pl1}
  Listing = Listing
  MaxOutputs = 2
  BufferCap = 1
  MaxStarts = 2
  Projects = {pj1, pj2}
  NoProject = NoProject
  MaxPageLoads = 3
  TreeFiles = {tf1, tf2}
  MaxStashes = 2
  MaxEdits = 2
  ConfigEntries = {g1, g2}
  MaxFileChanges = 1
  MaxLaunches = 2
  MaxAsked = 1
  MaxSyncs = 3
  Askers = {as1, as2, as3}
  MaxAsks = 4
  NoLoad = NoLoad
  DraftTasks = {dt1, dt2}
  NewDraft = dt2
  NoDraft = NoDraft
  MaxDrafts = 2
  MaxDirect = 1
  Attached = {at1, at2}
  PastedTexts = {at1}
  MaxTakes = 3
  Transcriptions = {sp1, sp2}
  MaxModelFaults = 1
  AgentMade = {"approvals", "deltas", "guest"}
INVARIANTS
  ServicesTypeOK
  DoneOnce
  KeptRecords
  ShownIsCurrent
  VerifiedBeforeUse
PROPERTIES
  FilesAsAsked
  ConversationKept
  ScheduleKept
  ServicesEnd
CHECK_DEADLOCK FALSE
