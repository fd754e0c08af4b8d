----------------------------- MODULE MCServices -----------------------------
(***************************************************************************)
(* The services beside the encode pipeline, one area at a time: they share *)
(* no state that these modules follow.  The area is chosen at the start;   *)
(* the other modules stay in their initial state.                          *)
(***************************************************************************)
EXTENDS BackendStart, Catalogue, Accounts, ProgressStream, EncoderProcess, Sharing, Playback, TLC

CONSTANTS m1, m2, s1, s2, p1, u, sys, a1, a2, b1, b2, z1

VARIABLE area

Areas == {"backend", "catalogue", "accounts", "stream", "encoder", "sharing", "playback"}

MCAuthorOf == [x \in Movies \cup Series \cup Playlists |-> IF x \in {m1, s1, p1} THEN u ELSE sys]
MCAccountOf == a1 :> "a" @@ a2 :> "a" @@ b1 :> "b" @@ b2 :> "b" @@ z1 :> "z"
MCDefaultOf == "a" :> a1 @@ "b" :> b1 @@ "z" :> z1
MCShelves == {{s1, s2}, {p1}}

\* What each area leaves unchanged.
NotBackend ==
  <<catalogueVars, accountVars, streamVars, encoderVars, sharingVars, playbackVars, area>>
NotCatalogue ==
  <<backendVars, accountVars, streamVars, encoderVars, sharingVars, playbackVars, area>>
NotAccounts ==
  <<backendVars, catalogueVars, streamVars, encoderVars, sharingVars, playbackVars, area>>
NotStream ==
  <<backendVars, catalogueVars, accountVars, encoderVars, sharingVars, playbackVars, area>>
NotEncoder ==
  <<backendVars, catalogueVars, accountVars, streamVars, sharingVars, playbackVars, area>>
NotSharing ==
  <<backendVars, catalogueVars, accountVars, streamVars, encoderVars, playbackVars, area>>
NotPlayback ==
  <<backendVars, catalogueVars, accountVars, streamVars, encoderVars, sharingVars, area>>
servicesVars ==
  <<backendVars, catalogueVars, accountVars, streamVars, encoderVars, sharingVars, playbackVars, area>>

ServicesInit ==
  /\ area \in Areas
  /\ BootInit /\ CatalogueInit /\ AccountsInit /\ StreamInit /\ EncoderInit
  /\ SharingInit /\ PlaybackInit
  /\ area # "catalogue" => shelf = {p1}
  /\ area # "sharing" => visibility = [t \in SharedTargets |-> "LIMITED"]
  /\ area # "playback" => ~unsigned

ServicesNext ==
  \/ area = "backend" /\ BootNext /\ UNCHANGED NotBackend
  \/ area = "catalogue" /\ CatalogueNext /\ UNCHANGED NotCatalogue
  \/ area = "accounts" /\ AccountsNext /\ UNCHANGED NotAccounts
  \/ area = "stream" /\ StreamNext /\ UNCHANGED NotStream
  \/ area = "encoder" /\ EncoderNext /\ UNCHANGED NotEncoder
  \/ area = "sharing" /\ SharingNext /\ UNCHANGED NotSharing
  \/ area = "playback" /\ PlaybackNext /\ UNCHANGED NotPlayback

\* BootFairness and EncoderFairness, while their area is the one that runs.
ServicesFairness ==
  /\ \A r \in Replicas :
       /\ WF_backendVars(area = "backend" /\ BootStep(r))
       /\ WF_backendVars(area = "backend" /\ ServerStep(r))
  /\ WF_encoderVars(area = "encoder" /\ KillTimer) /\ SF_encoderVars(area = "encoder" /\ Timeout)
  /\ WF_encoderVars(area = "encoder" /\ kill = "fired" /\ ChildExits)
  /\ WF_encoderVars(area = "encoder" /\ ChildCloses)

ServicesSpec == ServicesInit /\ [][ServicesNext]_servicesVars /\ ServicesFairness

ServicesTypeOK ==
  /\ BootTypeOK /\ CatalogueTypeOK /\ AccountsTypeOK /\ StreamTypeOK /\ EncoderTypeOK
  /\ SharingTypeOK /\ PlaybackTypeOK
=============================================================================
