SPECIFICATION Spec
CONSTANTS
  Sockets <- MCSockets
  Ips = {"office", "mobile"}
  IpOf <- MCIpOf
  MaxConnections = 2
  MaxPerIp = 2
  MaxPerMinute = 1
  Minute = 1
INVARIANTS LimitsHold CountersTell
CHECK_DEADLOCK FALSE
