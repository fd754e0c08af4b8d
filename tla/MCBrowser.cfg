SPECIFICATION BrowserSpec
CONSTANTS
  PagesChecked = {"upload", "editor", "video", "dashboard", "listing", "player", "account"}
  LastSession = 2  Selections = {s1, s2}  Ids = {m1, m2}  Forms = {f1, f2}  Nothing = Nothing
  EditorAccounts = {"u1", "u2"}  EditorProfiles = {"q1", "q2"}
  Entries = {m1, m2}  EntryForms = {"f1", "f2"}  MaxCalls = 2  NoForm = NoForm
  Viewpoints <- MCViewpoints  MaxAsked = 2  NoMovie = NoMovie
  Owners = {"q1", "q2"}  RowsOf <- MCRowsOf  PageRows = 1  LastPage = 2  NoRows = NoRows
  PageSize = 2  MaxRows = 4  MaxChanges = 2  Durationless = {2}
  Titles = {m1, m2}  Tokens = {"k1", "k2"}  EndOf = 2  MaxRecovery = 2  Progress = 2  MaxTrail = 3
  HistorySize = 1  MaxSaves = 2  NoSource = NoSource
  Logins = {"i1", "i2"}  AdminLogins = {"i1"}  Added = {m1, m2}  SystemAccounts = {"s1"}
  MaxInFlight = 1  NoOne = NoOne  NoList = NoList
INVARIANTS BrowserTypeOK SavedIsStored OwnSessionOnly FormIsOwn ListIsStored
  DeletesAsListed CompleteAtEnd GivesUp ActsAsShown
PROPERTIES EditsKept
SYMMETRY MCAlike
CHECK_DEADLOCK FALSE
