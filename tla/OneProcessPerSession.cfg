SPECIFICATION SessionsAlone
CONSTANTS
  c1 = c1
  c2 = c2
  s1 = s1
  h1 = h1
  hs = hs
  uf = uf
  Calls = {c1, c2}
  Stops = {s1}
  HostCalls = {h1}
  HostCap = 1
  MaxGen = 4
  Handshake = hs
  Unfit = uf
  sess1 = sess1
  sess2 = sess2
  open1 = open1
  open2 = open2
  Sessions = {sess1, sess2}
  Opens = {open1, open2, open3}
  OpenOf <- MCOpenOf
  Projects = {"p1", "p2"}
  ProjectOf <- MCProjectOf
  MaxSessions = 1
  MaxTries = 1
  MaxBindings = 3
  MaxCrashes = 1
  Requests = {r1, r2}
  Health = health
  q1 = q1
  q2 = q2
  k1 = k1
  run1 = run1
  Asks = {q1, q2}
  AskKey <- MCAskKey
  AskRun <- MCAskRun
  Closers = {closer1}
  MaxBGen = 2
  NoAsk = NoAsk
  NoRun = NoRun
  Uses = {use1, use2}
  Actions = {"drag", "ocr", "wait"}
  MaxPolls = 2
  Budget = 3
  Chunk = 2
  Tabs = {t1, t2}
  Sizes = {size1}
  Downloads = {d1, d2}
  NoTab = NoTab
  NoDownload = NoDownload
  MaxFrames = 2
  MaxStarts = 2
  Hidden = Hidden
  MaxOut = 3
  PipeChunk = 2
  DiskLimit = 1
  MaxAsks = 2
  Elements = {e1, e2}
  MaxWindow = 1
  PageSessions = {ps1, ps2}
  PageTabs = {pt1, pt2}
  Sites = {u1, u2}
  Allowed = {u1}
  Blank = Blank
  NoSite = NoSite
  DevCommands = {dc1, dc2}
  Controls = {x1}
  MaxWaits = 2
  y1 = y1
  y2 = y2
  y3 = y3
  wh1 = wh1
  wh2 = wh2
  pv1 = pv1
  pv2 = pv2
  Preparations = {y1, y2, y3}
  Wheels = {wh1, wh2}
  PyVersions = {pv1, pv2}
  NoVersion = NoVersion
  WheelsOf <- MCWheelsOf
INVARIANTS OneProcessPerSession
CHECK_DEADLOCK FALSE
