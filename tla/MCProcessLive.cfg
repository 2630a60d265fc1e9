SPECIFICATION FairSpec
CONSTANTS
  NR_TASKS = 4
  MaxPid = 4
  Priority = 1
  MaxForks = 1
  CountForks = FALSE
  MaxSets = 0
  MaxAlarm = 1
  WaitFor <- AnyChild
  Calls = {"fork", "exit", "waitpid", "kill", "pause"}
PROPERTIES
  RunnableRuns
  KillIsFinal
