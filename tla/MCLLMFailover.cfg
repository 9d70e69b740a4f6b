\* Three profiles, of which a later session may find two; a short and a long wait.
CONSTANTS
  p1 = p1
  p2 = p2
  p3 = p3
  Profile = {p1, p2, p3}
  Configs <- Edited
  Hint = {2}
  DefaultWait = 1
  Backoff = 1
  Healthy = {p3}
SPECIFICATION FairSpec
INVARIANTS
  TypeOK
  CooldownRespected
PROPERTIES
  Rotates
  RequestAnswered
