CONSTANTS
  s1 = s1
  s2 = s2
  s3 = s3
  d1 = d1
  till = till
  c1 = c1
  c2 = c2
  Subjects <- MCSubjects
  DueOrder <- MCDueOrder
  AlwaysDue = {s1, s3}
  Cap = 2
  Quiet <- MCQuiet
  MaxFaults = 1
  Dealers = {e1, e2}
  Runs = {r1, r2}
  MaxRecipients = 2
  MaxStarts = 3
  Sessions = {q1, q2}
  Callers = {web1, web2, admin}
  Public = {web1, web2}
  MaxFlips = 2
  Companies = {c1, c2}
  BriefingSlot <- MCBriefingSlot
  Slots = 6
  Interval = 5
  Chain <- MCChain
  Keys = {"groq", "gemini"}
  Figures = {v1, v2}
  MaxSteps = 1
  Retained = 3
CHECK_DEADLOCK FALSE
SPECIFICATION DigestSpec
PROPERTY
  NothingIsLost
