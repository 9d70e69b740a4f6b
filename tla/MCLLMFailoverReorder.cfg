\* Two profiles, whose order the user changes between two sessions.
CONSTANTS
  p1 = p1
  p2 = p2
  p3 = p3
  Profile = {p1, p2}
  Configs <- Reordered
  Hint = {2}
  DefaultWait = 1
  Backoff = 1
  Healthy = {}
SPECIFICATION Spec
INVARIANTS
  CooldownsOwned
