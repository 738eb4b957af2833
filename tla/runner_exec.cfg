SPECIFICATION ExecFairSpec
CONSTANTS
  None = None  Root = Root  Watchdog = Watchdog  Sleep = Sleep  Runner = Runner
  Children = {c1, c2, c3}
  MaxForks = 3
INVARIANT ExecTypeOK
INVARIANT NoNextLine
INVARIANT KilledMeansTimedOut
INVARIANT TreeIsGone
INVARIANT NoStrayWatchdog
PROPERTY RunnerComesBack
