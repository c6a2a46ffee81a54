\* One process, no failures, a chat whose row never comes, and content that
\* MySQL refuses.
SPECIFICATION FairSpec
CONSTANTS
  there = there
  missing = missing
  unknown = unknown
  Nothing = Nothing
  Requests = {r1, r2}
  Sends = 2
  Chats = {there, missing}
  Refused = {}
  Created = {there}
  Contents = {"fits", "too_long"}
  UniqueIndex = FALSE
  Workers = {w1}
  Faults = {}
  MaxFaults = 0
PROPERTY GuaranteedDelivery
CHECK_DEADLOCK FALSE
