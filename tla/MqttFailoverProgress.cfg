SPECIFICATION FairSpec
CONSTANTS
  h1 = h1
  h2 = h2
  Host = {h1, h2}
  NoHost = NoHost
  Directories <- MCDirectories
  SameHostAttempts = 2
  FailWindow = 0
  HealthWindow = 1
  ProbeInterval = 1
  Jitter = 0
  ReconnectWait = 1
  AuthWait = 1
  SettleWait = 1
  SuppressMax = 1
PROPERTIES RetriesForever 
