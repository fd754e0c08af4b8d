------------------------------ MODULE Playback ------------------------------
(***************************************************************************)
(* Playback URLs (vod-token.ts, vod.ts) and the player that holds one: the *)
(* API signs the key of a movie with an expiry, the player asks nginx for  *)
(* segments under that URL, nginx asks the mapping endpoint, and useMovie  *)
(* fetches a new URL every half hour.                                      *)
(*                                                                         *)
(* A token is the key and the expiry it was made for: the HMAC accepts no  *)
(* other.  Time goes in half hours.                                        *)
(***************************************************************************)
EXTENDS Naturals

CONSTANTS
  Keys, ValidKeys,  \* the keys, and those isValidS3Key accepts
  TtlHours,         \* VOD_TOKEN_TTL_SECONDS
  MaxTime,          \* bound: the half hours that pass
  NoUrl

ASSUME PlaybackAssumption ==
  /\ ValidKeys \subseteq Keys \ {"refused", "token/key"} /\ TtlHours \in Nat \ {0} /\ MaxTime \in Nat

VARIABLES
  clock,     \* half hours
  url,       \* the URL the player holds: its key, and the token in it if signed
  issued,    \* when the response it is from was made
  unsigned   \* VOD_ALLOW_UNSIGNED, for a rolling deploy

playbackVars == <<clock, url, issued, unsigned>>

\* createVodToken: the expiry in whole hours, rounded up.
Expiry(t) == (t + 2 * TtlHours + 1) \div 2

\* verifyVodToken
Verifies(token, key, t) == token # NoUrl /\ token.key = key /\ 2 * token.exp > t

\* signVodContentUrl; a variant without a key or a marker keeps its plain URL.
Sign(key, t) == [key |-> key, token |-> [key |-> key, exp |-> Expiry(t)]]
Plain(key) == [key |-> key, token |-> NoUrl]

\* GET /vod/mapping/*: the key the mapping is for, or "refused".  Where unsigned
\* URLs are let through, the whole of a path that does not verify is the key: that
\* of a plain URL, and none that any movie has ("token/key") of a signed one.
Mapped(u, t) ==
  LET verified == Verifies(u.token, u.key, t)
  IN  IF u.key \notin ValidKeys \/ ~(verified \/ unsigned) THEN "refused"
      ELSE IF verified \/ u.token = NoUrl THEN u.key ELSE "token/key"

\* GET /vod/thumbnail/:token/*
ThumbnailMapped(u, t) ==
  IF u.key \in ValidKeys /\ Verifies(u.token, u.key, t) THEN u.key ELSE "refused"

PlaybackInit == clock = 0 /\ url = NoUrl /\ issued = 0 /\ unsigned \in BOOLEAN

\* GET /movies/:movie answers; an old pod signs nothing.
FetchMovie(key) ==
  /\ url # NoUrl => url.key = key
  /\ \/ url' = Sign(key, clock)
     \/ unsigned /\ url' = Plain(key)
  /\ issued' = clock
  /\ UNCHANGED <<clock, unsigned>>

\* Half an hour goes by; a fetch that fails leaves the player its old URL.
HalfHour == clock < MaxTime /\ clock' = clock + 1 /\ UNCHANGED <<url, issued, unsigned>>

\* The rollout is over; what older pods have handed out is still held.
RolloutEnds == unsigned /\ unsigned' = FALSE /\ UNCHANGED <<clock, url, issued>>

PlaybackNext == HalfHour \/ RolloutEnds \/ \E key \in Keys : FetchMovie(key)
PlaybackSpec == PlaybackInit /\ [][PlaybackNext]_playbackVars

PlaybackTypeOK ==
  /\ clock \in 0..MaxTime /\ issued \in 0..MaxTime /\ unsigned \in BOOLEAN
  /\ url # NoUrl => url.key \in Keys

\* A signed URL "keeps working, at least" for the six hours (vod-token.ts:5-7),
\* so that a player whose refetches fail for hours plays on; an hour later at the
\* latest it serves its key no more, and it never serves another key.
UrlLastsTtl ==
  url # NoUrl /\ url.token # NoUrl =>
    /\ url.key \in ValidKeys /\ clock < issued + 2 * TtlHours => Mapped(url, clock) = url.key
    /\ clock >= issued + 2 * TtlHours + 2 =>
         ThumbnailMapped(url, clock) = "refused" /\ Mapped(url, clock) \in {"refused", "token/key"}
    /\ \A key \in Keys \ {url.key} : ~Verifies(url.token, key, clock)
=============================================================================
