SPECIFICATION Spec
CONSTANTS
  Workers = {"alerting", "api"}
  AttemptsCap = 2
  RepairCooldown = 1
  MaxRepairs = 1
  RepairWindow = 1
  SpikeThreshold = 2
  SpikeWindow = 1
  TriggerCooldown = 2
  Crashes = 1
  Failing = {"redis"}
INVARIANTS FlagTracksThread KillSwitch
PROPERTIES RunsAreBounded RedisRecovers
