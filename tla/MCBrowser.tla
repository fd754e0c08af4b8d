----------------------------- MODULE MCBrowser -----------------------------
(***************************************************************************)
(* The pages of the web frontend, one at a time: they share no state that  *)
(* these modules follow.  The page is chosen at the start; the other       *)
(* modules stay in their initial state.                                    *)
(***************************************************************************)
EXTENDS UploadPage, EntityEditor, VideoEditor, DashboardList, Listing, Player,
  AccountSwitch

CONSTANT PagesChecked

VARIABLE shownPage

\* The profiles and the forms of the upload page are alike, and so are its movies.
\* The movies of the editor and of the player, and the profiles that are created in
\* the switcher, are the same values: no two pages are shown in one behaviour.
MCAlike == Permutations(Ids) \cup Permutations(Forms) \cup Permutations(Selections)

MCRowsOf == "q1" :> <<"m1", "m2">> @@ "q2" :> <<"m3">>
MCViewpoints == [account : {"u1", "u2"}, profile : {"q1", "q2"}]

\* What each page leaves unchanged.
NotUpload == <<editorVars, videoVars, dashboardVars, listingVars, playerVars, switchVars, shownPage>>
NotEditor == <<pageVars, videoVars, dashboardVars, listingVars, playerVars, switchVars, shownPage>>
NotVideo == <<pageVars, editorVars, dashboardVars, listingVars, playerVars, switchVars, shownPage>>
NotDashboard == <<pageVars, editorVars, videoVars, listingVars, playerVars, switchVars, shownPage>>
NotListing == <<pageVars, editorVars, videoVars, dashboardVars, playerVars, switchVars, shownPage>>
NotPlayer == <<pageVars, editorVars, videoVars, dashboardVars, listingVars, switchVars, shownPage>>
NotSwitch == <<pageVars, editorVars, videoVars, dashboardVars, listingVars, playerVars, shownPage>>
browserVars == <<pageVars, editorVars, videoVars, dashboardVars, listingVars, playerVars, switchVars, shownPage>>

\* A page that is not shown starts in one of its initial states, any one.
OnlyFor(p, first) == shownPage = p \/ first

BrowserInit ==
  /\ shownPage \in PagesChecked
  /\ PageInit /\ EditorInit /\ VideoInit /\ DashboardInit /\ ListingInit /\ PlayerInit
  /\ SwitchInit
  /\ OnlyFor("upload", selected = CHOOSE s \in Selections : TRUE)
  /\ OnlyFor("editor", choice = CHOOSE v \in MCViewpoints : TRUE)
  /\ OnlyFor("editor", entity.form = CHOOSE f \in EntryForms : TRUE)
  /\ OnlyFor("video", viewpoint = CHOOSE v \in Viewpoints : TRUE)
  /\ OnlyFor("video", stage = "READY")
  /\ OnlyFor("dashboard", owner = CHOOSE o \in Owners : TRUE)
  /\ OnlyFor("listing", newest = 0)
  /\ OnlyFor("account", chosen = NoOne)

BrowserNext ==
  \/ shownPage = "upload" /\ PageNext /\ UNCHANGED NotUpload
  \/ shownPage = "editor" /\ EditorNext /\ UNCHANGED NotEditor
  \/ shownPage = "video" /\ VideoNext /\ UNCHANGED NotVideo
  \/ shownPage = "dashboard" /\ DashboardNext /\ UNCHANGED NotDashboard
  \/ shownPage = "listing" /\ ListingNext /\ UNCHANGED NotListing
  \/ shownPage = "player" /\ PlayerNext /\ UNCHANGED NotPlayer
  \/ shownPage = "account" /\ SwitchNext /\ UNCHANGED NotSwitch

BrowserSpec == BrowserInit /\ [][BrowserNext]_browserVars

BrowserTypeOK ==
  PageTypeOK /\ EditorTypeOK /\ VideoTypeOK /\ DashboardTypeOK /\ ListingTypeOK /\ PlayerTypeOK
  /\ SwitchTypeOK
=============================================================================
