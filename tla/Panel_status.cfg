\* A read of the status fails before a version was checked.
CONSTANTS
  Parts = {"panel"}
  d1 = d1  d2 = d2  c1 = c1
  home = home  duplicate = duplicate  found = found
  logo = logo  photo = photo  extra = extra
  old1 = old1  old2 = old2  b1 = b1  b2 = b2
  Drafts = {home, duplicate, found}
  Items = {logo, photo, extra}
  Uploads = {old1, old2}
  Images = {b1, b2}
  Recovery = found
  MaxAssets = 3
  Worlds <- LibraryWorlds
  HostWorlds <- MCHostWorlds
  Commands = {c1}  DayLength = 2  WeekLength = 2  KeepDays = 1  KeepWeeks = 2
  MaxBackups = 3  MaxTime = 5
  PanelWorlds <- MCPanelWorlds
  MaxJobs = 2  MaxKeys = 3  MaxRuns = 3  MaxDecisions = 3
SPECIFICATION WorkbenchSpec
CHECK_DEADLOCK FALSE
INVARIANT CheckIsOffered
