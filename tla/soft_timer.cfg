CONSTANTS
  TimeWidth = 3
  tcp_timer = tcp_timer
  udp_t = udp_t
  dns_t = dns_t
  Timers = {tcp_timer}
  TimerPeriod <- MCTimerPeriod
  SleepMs <- MCSleepMs
  LoopBound = 2
  ListNodes <- MCListNodes
  NULL = NULL
SPECIFICATION Spec
INVARIANT TypeOK
INVARIANT TimerNotEarly
INVARIANT StmrListOpsCorrect
PROPERTY SleepNotShort
PROPERTY TimersKeepRunning
