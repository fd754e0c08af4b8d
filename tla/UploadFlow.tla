----------------------------- MODULE UploadFlow -----------------------------
(***************************************************************************)
(* The upload routes of the backend (routes/api/v4/upload.ts) around one   *)
(* movie, with what may run beside them: the cleanup of stale uploads      *)
(* (lib/cleanup-stale-uploads.ts) and DELETE /movies/:movie.  Each request *)
(* reads the row, then acts on what it read; one step is one awaited call. *)
(* No route touches two movies, and object keys are never reused, so one   *)
(* movie is enough.                                                        *)
(***************************************************************************)
EXTENDS Naturals, FiniteSets

CONSTANTS
  Keys,       \* the values generateUploadKey may return
  Oversized,  \* the keys whose file is larger than MAX_UPLOAD_BYTES
  Requests,   \* the requests, and runs of the cleanup, that are made
  Kinds,      \* which kinds of them: "url", "complete", "delete", "cleanup"
  MaxFaults,  \* how many calls to Redis may fail
  MaxCrashes  \* how often the backend may be killed

ASSUME UploadAssumption ==
  /\ Oversized \subseteq Keys
  /\ Kinds \subseteq {"url", "complete", "delete", "cleanup"}
  /\ MaxFaults \in Nat /\ MaxCrashes \in Nat

VARIABLES
  row,      \* the MovieVariant row: status ("none" before, "gone" after), s3Key
            \* and old, whether updatedAt is past the cutoff of the cleanup
  issued,   \* the keys a presigned URL was made for
  tmp,      \* the objects in the tmp bucket
  jobs,     \* the encode jobs not yet settled, each [s3Key, by]
  request,  \* where each request stands, what it read and what it answered
  faults, crashes

\* History: the jobs ever pushed; the keys whose object was ever stored.
VARIABLES pushed, stored

uploadVars == <<row, issued, tmp, jobs, request, faults, crashes, pushed, stored>>

\* key: the s3Key it read; fresh: the key it generated.
Fresh == [kind |-> "none", at |-> "idle", key |-> "none", fresh |-> "none", reply |-> "none"]

UploadInit ==
  /\ row = [status |-> "none", s3Key |-> "none", old |-> FALSE]
  /\ issued = {} /\ tmp = {} /\ jobs = {} /\ pushed = {} /\ stored = {}
  /\ request = [r \in Requests |-> Fresh]
  /\ faults = 0 /\ crashes = 0

-----------------------------------------------------------------------------
At(r, label) == request[r].at = label
Goto(r, label) == request' = [request EXCEPT ![r].at = label]
Reply(r, reply) == request' = [request EXCEPT ![r].at = "done", ![r].reply = reply]

\* A request starts with the row it reads.
Start(r, kind, label) ==
  request' = [request EXCEPT ![r] =
    [Fresh EXCEPT !.kind = kind, !.at = label, !.key = row.s3Key]]
Refuse(r, kind, reply) ==
  request' = [request EXCEPT ![r] = [Fresh EXCEPT !.kind = kind, !.at = "done", !.reply = reply]]

Existing == row.status \notin {"none", "gone"}
Generated == {request[r].fresh : r \in Requests}

\* deleteTmpFile where its error is ignored.
BestEffort(k) == tmp' \in {tmp, tmp \ {k}}

\* POST /init
InitUpload ==
  /\ row.status = "none"
  /\ \E k \in Keys : /\ row' = [status |-> "UPLOADING", s3Key |-> k, old |-> FALSE]
                     /\ issued' = {k}
  /\ UNCHANGED <<tmp, jobs, request, faults, crashes, pushed, stored>>

\* The client's PUT to a presigned URL completes, perhaps after the key was replaced.
PutObject(k) ==
  /\ k \in issued \ stored
  /\ tmp' = tmp \cup {k} /\ stored' = stored \cup {k}
  /\ UNCHANGED <<row, issued, jobs, request, faults, crashes, pushed>>

\* POST /:movieId/url: read the row, swap the key, drop the old object.
ReadForUrl(r) ==
  /\ At(r, "idle") /\ "url" \in Kinds /\ row.status # "none"
  /\ IF row.status = "UPLOADING" THEN Start(r, "url", "swap") ELSE Refuse(r, "url", "bad")
  /\ UNCHANGED <<row, issued, tmp, jobs, faults, crashes, pushed, stored>>

SwapKey(r) ==
  /\ At(r, "swap")
  /\ IF row.status = "UPLOADING"
     THEN \E k \in Keys \ (issued \cup Generated) :
            /\ row' = [row EXCEPT !.s3Key = k, !.old = FALSE]
            /\ request' = [request EXCEPT ![r].at = "drop", ![r].fresh = k]
     ELSE Reply(r, "bad") /\ UNCHANGED row
  /\ UNCHANGED <<issued, tmp, jobs, faults, crashes, pushed, stored>>

DropOld(r) ==
  /\ At(r, "drop")
  /\ BestEffort(request[r].key)
  /\ issued' = issued \cup {request[r].fresh}
  /\ Reply(r, "success")
  /\ UNCHANGED <<row, jobs, faults, crashes, pushed, stored>>

\* POST /:movieId/complete: read the row, look for the object, claim the
\* transition, push the job, publish the progress.
ReadForComplete(r) ==
  /\ At(r, "idle") /\ "complete" \in Kinds /\ row.status # "none"
  /\ CASE row.status = "UPLOADING" -> Start(r, "complete", "head")
       [] row.status = "gone" -> Refuse(r, "complete", "bad")
       [] OTHER -> Refuse(r, "complete", "success")
  /\ UNCHANGED <<row, issued, tmp, jobs, faults, crashes, pushed, stored>>

\* Mutant: the object is not looked for.
HeadSkipped(r) ==
  /\ At(r, "head") /\ Goto(r, "claim")
  /\ UNCHANGED <<row, issued, tmp, jobs, faults, crashes, pushed, stored>>

HeadObject(r) ==
  /\ At(r, "head")
  /\ CASE request[r].key \notin tmp -> Reply(r, "bad")
       [] request[r].key \in tmp /\ request[r].key \in Oversized -> Goto(r, "dropBig")
       [] OTHER -> Goto(r, "claim")
  /\ UNCHANGED <<row, issued, tmp, jobs, faults, crashes, pushed, stored>>

DropOversized(r) ==
  /\ At(r, "dropBig")
  /\ BestEffort(request[r].key)
  /\ Reply(r, "bad")
  /\ UNCHANGED <<row, issued, jobs, faults, crashes, pushed, stored>>

\* Mutants: the claim asks only for the key, or only for the status.
ClaimAnyStatus(r) ==
  /\ At(r, "claim")
  /\ IF Existing /\ row.s3Key = request[r].key
     THEN row' = [row EXCEPT !.status = "PROCESSING", !.old = FALSE] /\ Goto(r, "push")
     ELSE Goto(r, "recheck") /\ UNCHANGED row
  /\ UNCHANGED <<issued, tmp, jobs, faults, crashes, pushed, stored>>

ClaimAnyKey(r) ==
  /\ At(r, "claim")
  /\ IF row.status = "UPLOADING"
     THEN row' = [row EXCEPT !.status = "PROCESSING", !.old = FALSE] /\ Goto(r, "push")
     ELSE Goto(r, "recheck") /\ UNCHANGED row
  /\ UNCHANGED <<issued, tmp, jobs, faults, crashes, pushed, stored>>

ClaimTransition(r) ==
  /\ At(r, "claim")
  /\ IF row.status = "UPLOADING" /\ row.s3Key = request[r].key
     THEN row' = [row EXCEPT !.status = "PROCESSING", !.old = FALSE] /\ Goto(r, "push")
     ELSE Goto(r, "recheck") /\ UNCHANGED row
  /\ UNCHANGED <<issued, tmp, jobs, faults, crashes, pushed, stored>>

\* The claim failed: was the upload restarted, or has someone else completed it?
Recheck(r) ==
  /\ At(r, "recheck")
  /\ IF row.status = "UPLOADING" THEN Reply(r, "bad") ELSE Reply(r, "success")
  /\ UNCHANGED <<row, issued, tmp, jobs, faults, crashes, pushed, stored>>

\* addEncodeJob; a lost reply reads like a failure.
PushJob(r) ==
  LET job == [s3Key |-> request[r].key, by |-> r]
      Pushed == jobs' = jobs \cup {job} /\ pushed' = pushed \cup {job}
  IN  /\ At(r, "push")
      /\ \/ Pushed /\ Goto(r, "announce") /\ UNCHANGED faults
         \/ /\ faults < MaxFaults /\ faults' = faults + 1
            /\ Pushed \/ UNCHANGED <<jobs, pushed>>
            /\ Goto(r, "revert")
      /\ UNCHANGED <<row, issued, tmp, crashes, stored>>

\* Mutant: the failed push leaves the row as it is.
RevertForgotten(r) ==
  /\ At(r, "revert") /\ Reply(r, "error")
  /\ UNCHANGED <<row, issued, tmp, jobs, faults, crashes, pushed, stored>>

RevertClaim(r) ==
  /\ At(r, "revert")
  /\ row' = IF row.status = "PROCESSING" THEN [row EXCEPT !.status = "UPLOADING", !.old = FALSE] ELSE row
  /\ Reply(r, "error")
  /\ UNCHANGED <<issued, tmp, jobs, faults, crashes, pushed, stored>>

\* setEncodeProgress; its failure fails the request, not the upload.
Announce(r) ==
  /\ At(r, "announce")
  /\ \/ Reply(r, "success") /\ UNCHANGED faults
     \/ faults < MaxFaults /\ faults' = faults + 1 /\ Reply(r, "error")
  /\ UNCHANGED <<row, issued, tmp, jobs, crashes, pushed, stored>>

-----------------------------------------------------------------------------
\* DELETE /movies/:movie: read, delete the row, then the objects it read of.
ReadForDelete(r) ==
  /\ At(r, "idle") /\ "delete" \in Kinds /\ Existing
  /\ Start(r, "delete", "deleteRow")
  /\ UNCHANGED <<row, issued, tmp, jobs, faults, crashes, pushed, stored>>

DeleteRow(r) ==
  /\ At(r, "deleteRow")
  /\ IF Existing THEN row' = [row EXCEPT !.status = "gone"] /\ Goto(r, "deleteObject")
                 ELSE Reply(r, "error") /\ UNCHANGED row
  /\ UNCHANGED <<issued, tmp, jobs, faults, crashes, pushed, stored>>

\* cleanupStaleUploads: list the stale movies, delete each under a guard.
ReadForCleanup(r) ==
  /\ At(r, "idle") /\ "cleanup" \in Kinds
  /\ row.status = "UPLOADING" /\ row.old
  /\ Start(r, "cleanup", "deleteStale")
  /\ UNCHANGED <<row, issued, tmp, jobs, faults, crashes, pushed, stored>>

\* Mutant: the delete is not guarded.
DeleteListed(r) ==
  /\ At(r, "deleteStale") /\ Existing
  /\ row' = [row EXCEPT !.status = "gone"] /\ Goto(r, "deleteObject")
  /\ UNCHANGED <<issued, tmp, jobs, faults, crashes, pushed, stored>>

DeleteStale(r) ==
  /\ At(r, "deleteStale")
  /\ IF row.status = "UPLOADING" /\ row.old
     THEN row' = [row EXCEPT !.status = "gone"] /\ Goto(r, "deleteObject")
     ELSE Reply(r, "success") /\ UNCHANGED row
  /\ UNCHANGED <<issued, tmp, jobs, faults, crashes, pushed, stored>>

DeleteObject(r) ==
  /\ At(r, "deleteObject")
  /\ BestEffort(request[r].key)
  /\ Reply(r, "success")
  /\ UNCHANGED <<row, issued, jobs, faults, crashes, pushed, stored>>

\* A day passes without a change of the row.
Age ==
  /\ row.status = "UPLOADING" /\ ~row.old
  /\ row' = [row EXCEPT !.old = TRUE]
  /\ UNCHANGED <<issued, tmp, jobs, request, faults, crashes, pushed, stored>>

\* A worker settles a job: only the row still processing its key moves, and a
\* successful encode consumes the source.
Settle(j, status) ==
  /\ j \in jobs
  /\ jobs' = jobs \ {j}
  /\ row' = IF row.status = "PROCESSING" /\ row.s3Key = j.s3Key
            THEN [row EXCEPT !.status = status] ELSE row
  /\ IF status = "READY" THEN j.s3Key \in tmp /\ tmp' = tmp \ {j.s3Key} ELSE UNCHANGED tmp
  /\ UNCHANGED <<issued, request, faults, crashes, pushed, stored>>

\* The backend process is killed, or its database calls fail from here on; its
\* requests are never answered.
Crash ==
  /\ crashes < MaxCrashes /\ crashes' = crashes + 1
  /\ \E r \in Requests : request[r].at \notin {"idle", "done"}
  /\ request' = [r \in Requests |-> IF At(r, "idle") THEN request[r]
                                    ELSE [request[r] EXCEPT !.at = "done"]]
  /\ UNCHANGED <<row, issued, tmp, jobs, faults, pushed, stored>>

UploadNext ==
  \/ InitUpload \/ Age \/ Crash
  \/ \E k \in Keys : PutObject(k)
  \/ \E r \in Requests :
       \/ ReadForUrl(r) \/ SwapKey(r) \/ DropOld(r)
       \/ ReadForComplete(r) \/ HeadObject(r) \/ DropOversized(r) \/ ClaimTransition(r)
       \/ Recheck(r) \/ PushJob(r) \/ RevertClaim(r) \/ Announce(r)
       \/ ReadForDelete(r) \/ DeleteRow(r) \/ ReadForCleanup(r) \/ DeleteStale(r)
       \/ DeleteObject(r)
  \/ \E j \in jobs, status \in {"READY", "FAILED"} : Settle(j, status)

UploadSpec == UploadInit /\ [][UploadNext]_uploadVars

-----------------------------------------------------------------------------
RequestRecord ==
  [kind : Kinds \cup {"none"},
   at : {"idle", "swap", "drop", "head", "dropBig", "claim", "recheck", "push", "revert",
         "announce", "deleteRow", "deleteStale", "deleteObject", "done"},
   key : Keys \cup {"none"}, fresh : Keys \cup {"none"},
   reply : {"none", "success", "bad", "error"}]

RequestsOK == request \in [Requests -> RequestRecord]

StoreOK ==
  /\ row \in [status : {"none", "UPLOADING", "PROCESSING", "READY", "FAILED", "gone"},
              s3Key : Keys \cup {"none"}, old : BOOLEAN]
  /\ issued \subseteq Keys /\ stored \subseteq issued /\ tmp \subseteq stored
  /\ pushed \subseteq [s3Key : stored, by : Requests] /\ jobs \subseteq pushed
  /\ faults \in 0..MaxFaults /\ crashes \in 0..MaxCrashes

UploadTypeOK == RequestsOK /\ StoreOK

Ended == \A r \in Requests : request[r].at \in {"idle", "done"}
Succeeded(kind) == \E r \in Requests : request[r].kind = kind /\ request[r].reply = "success"

\* A file too large to encode never gets as far as a job (upload.ts:185-190).
NoOversizedJob == \A j \in pushed : j.s3Key \notin Oversized

\* "a duplicate request can't queue a second encode job for the same movie"
\* (upload.ts:192-193), as long as every push is answered.
OneJob == Cardinality(pushed) <= 1 + faults

\* A movie that is processing has a job for its key, or the request that claimed
\* it is about to push one or to take the claim back, so it does not sit there
\* "with no encode job ever queued" (upload.ts:219-220).  Only a backend killed
\* between the claim and the push leaves it so.
ProcessingHasJob ==
  row.status = "PROCESSING" /\ crashes = 0 =>
    \/ \E j \in jobs : j.s3Key = row.s3Key
    \/ \E r \in Requests : At(r, "push") \/ At(r, "revert")

\* The upload a processing movie waits for is in the bucket: no retry swapped
\* the key or dropped the object under it (upload.ts:129-131, 194-195), unless
\* the failed push of an earlier job was a success after all.
JobHasSource ==
  row.status = "PROCESSING" /\ faults = 0 => row.s3Key \in tmp

\* A client told that its upload is complete has an encode queued, or lost its
\* movie: the route is idempotent because "the job was already queued"
\* (upload.ts:153-155).
SuccessMeansQueued ==
  Ended /\ Succeeded("complete") => pushed # {} \/ row.status = "gone"

\* The cleanup deletes no movie that has ever had a job: "the guarded delete
\* prevents a concurrent /complete or retry request from deleting a movie that
\* has become active" (cleanup-stale-uploads.ts:37-38).
CleanupSparesActive ==
  [][\A r \in Requests :
       At(r, "deleteStale") /\ request'[r].at = "deleteObject"
       => pushed = {} \/ faults > 0]_uploadVars
=============================================================================
