SPECIFICATION DeploymentSpec
CONSTANTS
  Request = {p1}
  StopOrder = {d1}
  Runner = {r1}
  Authorized = FALSE
  MaxJobs = 2
  MaxRetries = 1
  Run = {s1, s2}
  Decision = {"stop", "consent", "bank"}
  MaxStarts = 3
INVARIANTS
  StopObeyed
  StopBounds
  SettingBounds
  
  
CHECK_DEADLOCK FALSE
