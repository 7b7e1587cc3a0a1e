SPECIFICATION HSpec
CONSTANTS
  h1 = h1
  h2 = h2
  h3 = h3
  Host = {h1, h2, h3}
  NoHost = NoHost
  Directories <- MCDirectories
  SameHostAttempts = 2
  FailWindow = 2
  HealthWindow = 1
  ProbeInterval = 1
  Jitter = 1
  ReconnectWait = 1
  AuthWait = 1
  SettleWait = 1
  SuppressMax = 1
INVARIANT AlwaysRetrying
