SPECIFICATION ServicesSpec
CONSTANTS
  Replicas = {"r1", "r2"}  MaxRequests = 2  NoReplica = "none"
  m1 = m1 m2 = m2 s1 = s1 s2 = s2 p1 = p1 u = u sys = sys
  Users = {u, "admin"}  Systems = {sys}  AdminUsers = {"admin"}
  Movies = {m1, m2}  Series = {s1, s2}  Playlists = {p1}  AuthorOf <- MCAuthorOf
  MaxOrder = 2  Slots = {1, 2}  Shelves <- MCShelves  None = None
  AuthIds = {"auth1"}  UserIds = {"i1", "i2", "i3"}  Usernames = {"n1", "n2"}  Films = {"f1"}
  MaxProfiles = 1  MaxAttempts = 3  Callers = {1, 2}  NoRow = NoRow
  Streams = {1, 2}  Scans = {"q1", "q2"}  Written = {"queued", "completed"}
  MaxEmptyPolls = 2  NoScan = NoScan
  a1 = a1 a2 = a2 b1 = b1 b2 = b2 z1 = z1
  Accounts = {"a", "b", "z"}  Profiles = {a1, a2, b1, b2, z1}  Admins = {"z"}  Author = a2
  AccountOf <- MCAccountOf  DefaultOf <- MCDefaultOf  Nobody = Nobody
  Settings = {"LIMITED", "UNLISTED"}  Invitees = {"b"}  InvitationIds = {1}  Requests = {1, 2}
  Keys = {"k1", "k2", "k3"}  ValidKeys = {"k1", "k2"}  TtlHours = 6  MaxTime = 20  NoUrl = NoUrl
INVARIANT SuggestedAsListed
CHECK_DEADLOCK FALSE
