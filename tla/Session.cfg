CONSTANTS
  Tabs = {t1, t2}
  Calls = {1, 2}
  Emails = {a, b}
  DefaultEmail = a
  Nobody = Nobody
  NoToken = NoToken
  MaxClicks = 3
  MaxDays = 1
  MaxFaults = 1
SPECIFICATION FairSpec
INVARIANTS TypeOK StaysSignedOut SessionKept
PROPERTIES RedirectsEnd
CHECK_DEADLOCK FALSE
