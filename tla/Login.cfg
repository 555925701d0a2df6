CONSTANTS
  b1 = b1
  b2 = b2
  ip1 = ip1
  ip2 = ip2
  Browsers = {b1, b2}
  Ips = {ip1, ip2}
  IpOf <- MCIpOf
  Limit = 2
  Window = 2
  OtpTTL = 1
  SessionTTL = 1
  MaxTime = 3
  MaxAttempts = 4
  MaxFaults = 1
  None = None
SPECIFICATION Spec
INVARIANTS LimitIsExact RefusalIsExcused AccessGoesBackToOneCode
CHECK_DEADLOCK FALSE
