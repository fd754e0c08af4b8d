SPECIFICATION BrowserSpec
CONSTANTS
  PagesChecked = {"upload"}
  LastSession = 2  Selections = {"q1", "q2"}  Ids = {"m1"}  Forms = {"f1", "f2"}  Nothing = Nothing
  EditorAccounts = {"u1", "u2"}  EditorProfiles = {"q1", "q2"}
  Entries = {"m1", "m2"}  EntryForms = {"f1", "f2"}  MaxCalls = 2  NoForm = NoForm
  Viewpoints <- MCViewpoints  MaxAsked = 2  NoMovie = NoMovie
  Owners = {"q1", "q2"}  RowsOf <- MCRowsOf  PageRows = 1  LastPage = 2  NoRows = NoRows
  PageSize = 2  MaxRows = 4  MaxChanges = 2  Durationless = {2}
  Titles = {"t1", "t2"}  Tokens = {"k1", "k2"}  EndOf = 2  MaxRecovery = 2  Progress = 2  MaxTrail = 3
  HistorySize = 1  MaxSaves = 2  NoSource = NoSource
  Logins = {"i1", "i2"}  AdminLogins = {"i1"}  Added = {"p1", "p2"}  SystemAccounts = {"s1"}
  MaxInFlight = 1  NoOne = NoOne  NoList = NoList
INVARIANT WarnsOnlyInFlight
CHECK_DEADLOCK FALSE
