SPECIFICATION Spec
CONSTANTS
  NR_TASKS = 4
  MaxPid = 4
  Priority = 1
  MaxForks = 4
  CountForks = TRUE
  MaxSets = 1
  MaxAlarm = 1
  WaitFor <- Any
  Calls = {"fork", "exit", "waitpid", "kill", "pause", "alarm", "ssetmask", "signal", "setsid", "setpgid"}
INVARIANTS
  FatherLives
  WaiterIsTold
