SPECIFICATION JobQueueSpec
CONSTANTS
  Submissions = {s1, s2}
  Cancellers = {c}
  Orgs = {org}
  AllowedOrgs = {}
  Nobody = Nobody
PROPERTY QueuedJobIsSeen
CHECK_DEADLOCK FALSE
