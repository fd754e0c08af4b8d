-------------------------- MODULE UploadFlowProofs --------------------------
(***************************************************************************)
(* Theorems of UploadFlow, for any keys and any number of requests, faults *)
(* and crashes.                                                            *)
(***************************************************************************)
EXTENDS UploadFlow, FiniteSetTheorems, TLAPS

\* Before POST /init there is nothing; after DELETE there is no row.
Lifetime ==
  /\ row.status = "none" => issued = {} /\ \A r \in Requests : At(r, "idle")
  /\ \A r \in Requests : At(r, "deleteObject") => row.status = "gone"

\* A request that is past HeadObject saw its object, and saw that it fits.
Examined ==
  /\ \A r \in Requests : At(r, "claim") \/ At(r, "push") => request[r].key \in stored \ Oversized
  /\ \A r \in Requests : At(r, "dropBig") => request[r].key \in Oversized
  /\ row.status = "PROCESSING" => row.s3Key \notin Oversized
  /\ NoOversizedJob

\* The keys that were generated so far; whatever was read of a row is one.
Known == issued \cup {request[r].fresh : r \in {q \in Requests : ~At(q, "idle") /\ ~At(q, "swap")}}
KeysKnown ==
  /\ row.status # "none" => row.s3Key \in Known
  /\ \A r \in Requests : ~At(r, "idle") => request[r].key \in Known \/ request[r].at = "done"
  /\ \A r \in Requests : At(r, "drop") => request[r].fresh \in Keys /\ request[r].key # row.s3Key

\* While every push is answered, none is taken back: a movie that has a job, or
\* is about to, is not waiting for an upload.
NeverTakenBack ==
  faults = 0 =>
    /\ \A r \in Requests : ~At(r, "revert")
    /\ pushed # {} \/ (\E r \in Requests : At(r, "push")) => row.status \notin {"none", "UPLOADING"}

\* The object a claim is about to be made for is still there.
ClaimHasSource ==
  faults = 0 /\ row.status = "UPLOADING" =>
    \A r \in Requests : At(r, "claim") /\ request[r].key = row.s3Key => row.s3Key \in tmp

\* ProcessingHasJob, with the key the pushing request carries.
JobIsComing ==
  row.status = "PROCESSING" /\ crashes = 0 =>
    \/ \E j \in jobs : j.s3Key = row.s3Key
    \/ \E r \in Requests : At(r, "push") /\ request[r].key = row.s3Key
    \/ \E r \in Requests : At(r, "revert")

UploadInv ==
  /\ UploadTypeOK /\ Lifetime /\ Examined /\ KeysKnown /\ NeverTakenBack
  /\ ClaimHasSource /\ JobHasSource /\ JobIsComing

\* The jobs that were pushed or may still be: a free row admits one claim, and a
\* claim whose push failed frees the row again.
Claimants == {r \in Requests : At(r, "push") \/ At(r, "revert")}
Free == IF row.status \in {"none", "UPLOADING"} THEN 1 ELSE 0
JobsCounted ==
  /\ IsFiniteSet(pushed) /\ IsFiniteSet(Claimants)
  /\ Cardinality(pushed) + Cardinality(Claimants) + Free <= 1 + faults

-----------------------------------------------------------------------------
\* Request r is now at the given place with the given keys; no other moved.
Moved(r, at, key, fresh) ==
  /\ request'[r].at = at /\ request'[r].key = key /\ request'[r].fresh = fresh
  /\ \A q \in Requests \ {r} : request'[q] = request[q]

\* What going on, replying, starting and refusing do to the requests.
LEMMA Moves ==
  ASSUME RequestsOK, NEW r \in Requests
  PROVE  /\ \A label : Goto(r, label) => Moved(r, label, request[r].key, request[r].fresh)
         /\ \A reply : Reply(r, reply) => Moved(r, "done", request[r].key, request[r].fresh)
         /\ \A kind, label : Start(r, kind, label) => Moved(r, label, row.s3Key, "none")
         /\ \A kind, reply : Refuse(r, kind, reply) => Moved(r, "done", "none", "none")
<1>1. request[r] \in RequestRecord
  BY DEF RequestsOK
<1>2. ASSUME NEW label, Goto(r, label) PROVE Moved(r, label, request[r].key, request[r].fresh)
  BY <1>1, <1>2 DEF Goto, Moved, RequestsOK, RequestRecord
<1>3. ASSUME NEW reply, Reply(r, reply) PROVE Moved(r, "done", request[r].key, request[r].fresh)
  BY <1>1, <1>3 DEF Reply, Moved, RequestsOK, RequestRecord
<1>4. ASSUME NEW kind, NEW label, Start(r, kind, label) PROVE Moved(r, label, row.s3Key, "none")
  BY <1>4 DEF Start, Moved, RequestsOK, Fresh
<1>5. ASSUME NEW kind, NEW reply, Refuse(r, kind, reply) PROVE Moved(r, "done", "none", "none")
  BY <1>5 DEF Refuse, Moved, RequestsOK, Fresh
<1>6. QED
  BY <1>2, <1>3, <1>4, <1>5

\* The requests stay well-formed.
Places ==
  {"swap", "drop", "head", "dropBig", "claim", "recheck", "push", "revert", "announce",
   "deleteRow", "deleteStale", "deleteObject", "done"}

LEMMA Formed ==
  ASSUME RequestsOK, NEW r \in Requests
  PROVE  /\ \A label \in Places : Goto(r, label) => RequestsOK'
         /\ \A kind \in Kinds, label \in Places :
              Start(r, kind, label) /\ row.s3Key \in Keys \cup {"none"}
              => RequestsOK'
         /\ \A reply \in {"success", "bad", "error"} :
              Reply(r, reply) => RequestsOK'
         /\ \A kind \in Kinds, reply \in {"success", "bad", "error"} :
              Refuse(r, kind, reply) => RequestsOK'
<1>1. request[r] \in RequestRecord
  BY DEF RequestsOK
<1>2. ASSUME NEW label \in Places, Goto(r, label) PROVE RequestsOK'
  <2>1. [request[r] EXCEPT !.at = label] \in RequestRecord
    BY <1>1 DEF RequestRecord, Places
  <2>2. QED
    BY <1>2, <2>1 DEF Goto, RequestsOK
<1>3. ASSUME NEW kind \in Kinds, NEW label \in Places, Start(r, kind, label),
             row.s3Key \in Keys \cup {"none"}
      PROVE  RequestsOK'
  <2>1. [Fresh EXCEPT !.kind = kind, !.at = label, !.key = row.s3Key] \in RequestRecord
    BY <1>3 DEF RequestRecord, Places, Fresh
  <2>2. QED
    BY <1>3, <2>1 DEF Start, RequestsOK
<1>4. ASSUME NEW reply \in {"success", "bad", "error"}, Reply(r, reply)
      PROVE  RequestsOK'
  <2>1. [request[r] EXCEPT !.at = "done", !.reply = reply] \in RequestRecord
    BY <1>1 DEF RequestRecord
  <2>2. QED
    BY <1>4, <2>1 DEF Reply, RequestsOK
<1>5. ASSUME NEW kind \in Kinds, NEW reply \in {"success", "bad", "error"}, Refuse(r, kind, reply)
      PROVE  RequestsOK'
  <2>1. [Fresh EXCEPT !.kind = kind, !.at = "done", !.reply = reply] \in RequestRecord
    BY DEF RequestRecord, Fresh
  <2>2. QED
    BY <1>5, <2>1 DEF Refuse, RequestsOK
<1>6. QED
  BY <1>2, <1>3, <1>4, <1>5

\* The two guarded updates: they change the row and go on, or change nothing of it.
LEMMA Swapped ==
  ASSUME UploadTypeOK, NEW r \in Requests, SwapKey(r)
  PROVE  /\ At(r, "swap") /\ UNCHANGED <<issued, tmp, jobs, faults, crashes, pushed, stored>>
         /\ \/ /\ row.status = "UPLOADING" /\ row'.status = "UPLOADING"
               /\ row'.s3Key \in Keys \ (issued \cup Generated)
               /\ Moved(r, "drop", request[r].key, row'.s3Key)
            \/ row' = row /\ Moved(r, "done", request[r].key, request[r].fresh)
<1>1. RequestsOK /\ request[r] \in RequestRecord
  BY DEF UploadTypeOK, RequestsOK
<1>2. ASSUME NEW k \in Keys, request' = [request EXCEPT ![r].at = "drop", ![r].fresh = k]
      PROVE  Moved(r, "drop", request[r].key, k)
  BY <1>1, <1>2 DEF Moved, RequestRecord, RequestsOK
<1>3. CASE row.status = "UPLOADING"
  <2>1. PICK k \in Keys \ (issued \cup Generated) :
          /\ row' = [row EXCEPT !.s3Key = k, !.old = FALSE]
          /\ request' = [request EXCEPT ![r].at = "drop", ![r].fresh = k]
    BY <1>3 DEF SwapKey
  <2>2. row'.s3Key = k /\ row'.status = row.status
    BY <2>1 DEF UploadTypeOK, StoreOK
  <2>3. Moved(r, "drop", request[r].key, row'.s3Key)
    BY <1>2, <2>1, <2>2
  <2>4. At(r, "swap") /\ UNCHANGED <<issued, tmp, jobs, faults, crashes, pushed, stored>>
    BY DEF SwapKey
  <2>5. QED
    BY <1>3, <2>2, <2>3, <2>4
<1>4. CASE row.status # "UPLOADING"
  BY <1>1, <1>4, Moves DEF SwapKey
<1>5. QED
  BY <1>3, <1>4 DEF SwapKey

LEMMA Claimed ==
  ASSUME UploadTypeOK, NEW r \in Requests, ClaimTransition(r)
  PROVE  /\ At(r, "claim") /\ UNCHANGED <<issued, tmp, jobs, faults, crashes, pushed, stored>>
         /\ \/ /\ row.status = "UPLOADING" /\ row.s3Key = request[r].key
               /\ row'.status = "PROCESSING" /\ row'.s3Key = row.s3Key
               /\ Moved(r, "push", request[r].key, request[r].fresh)
            \/ row' = row /\ Moved(r, "recheck", request[r].key, request[r].fresh)
<1>1. RequestsOK
  BY DEF UploadTypeOK
<1>2. CASE row.status = "UPLOADING" /\ row.s3Key = request[r].key
  <2>1. row' = [row EXCEPT !.status = "PROCESSING", !.old = FALSE] /\ Goto(r, "push")
    BY <1>2 DEF ClaimTransition
  <2>2. row'.status = "PROCESSING" /\ row'.s3Key = row.s3Key
    BY <2>1 DEF UploadTypeOK, StoreOK
  <2>3. Moved(r, "push", request[r].key, request[r].fresh)
    BY <1>1, <2>1, Moves
  <2>4. At(r, "claim") /\ UNCHANGED <<issued, tmp, jobs, faults, crashes, pushed, stored>>
    BY DEF ClaimTransition
  <2>5. QED
    BY <1>2, <2>2, <2>3, <2>4
<1>3. CASE ~(row.status = "UPLOADING" /\ row.s3Key = request[r].key)
  BY <1>1, <1>3, Moves DEF ClaimTransition
<1>4. QED
  BY <1>2, <1>3 DEF ClaimTransition

\* The requests stay well-formed.
LEMMA RequestsStep == UploadInv /\ UploadNext => RequestsOK'
<1> SUFFICES ASSUME UploadInv, UploadNext PROVE RequestsOK'
  OBVIOUS
<1>a. RequestsOK /\ row.s3Key \in Keys \cup {"none"}
  BY DEF UploadInv, UploadTypeOK, StoreOK
<1> USE DEF RequestsOK, Places
<1>1. CASE InitUpload
  BY <1>1, <1>a, Formed DEF InitUpload
<1>2. CASE Age
  BY <1>2, <1>a, Formed DEF Age
<1>3. CASE Crash
  <2>1. \A r \in Requests : request[r] \in RequestRecord /\ [request[r] EXCEPT !.at = "done"] \in RequestRecord
    BY <1>a DEF RequestRecord
  <2>2. QED
    BY <1>3, <1>a, <2>1 DEF Crash
<1>4. ASSUME NEW k \in Keys, PutObject(k) PROVE RequestsOK'
  BY <1>4, <1>a, Formed DEF PutObject
<1>5. ASSUME NEW r \in Requests, ReadForUrl(r) PROVE RequestsOK'
  BY <1>5, <1>a, Formed DEF ReadForUrl, At
<1>6. ASSUME NEW r \in Requests, SwapKey(r) PROVE RequestsOK'
  <2>1. CASE row.status # "UPLOADING"
    BY <1>6, <1>a, Formed, <2>1 DEF SwapKey
  <2>2. CASE row.status = "UPLOADING"
    <3>1. PICK k \in Keys : request' = [request EXCEPT ![r].at = "drop", ![r].fresh = k]
      BY <1>6, <2>2 DEF SwapKey
    <3>2. [request[r] EXCEPT !.at = "drop", !.fresh = k] \in RequestRecord
      BY <1>a DEF RequestRecord
    <3>3. QED
      BY <1>a, <3>1, <3>2
  <2>3. QED
    BY <2>1, <2>2
<1>7. ASSUME NEW r \in Requests, DropOld(r) PROVE RequestsOK'
  BY <1>7, <1>a, Formed DEF DropOld, At, BestEffort
<1>8. ASSUME NEW r \in Requests, ReadForComplete(r) PROVE RequestsOK'
  BY <1>8, <1>a, Formed DEF ReadForComplete, At
<1>9. ASSUME NEW r \in Requests, HeadObject(r) PROVE RequestsOK'
  BY <1>9, <1>a, Formed DEF HeadObject, At
<1>10. ASSUME NEW r \in Requests, DropOversized(r) PROVE RequestsOK'
  BY <1>10, <1>a, Formed DEF DropOversized, At, BestEffort
<1>11. ASSUME NEW r \in Requests, ClaimTransition(r) PROVE RequestsOK'
  BY <1>11, <1>a, Formed DEF ClaimTransition, At
<1>12. ASSUME NEW r \in Requests, Recheck(r) PROVE RequestsOK'
  BY <1>12, <1>a, Formed DEF Recheck, At
<1>13. ASSUME NEW r \in Requests, PushJob(r) PROVE RequestsOK'
  BY <1>13, <1>a, Formed DEF PushJob, At
<1>14. ASSUME NEW r \in Requests, RevertClaim(r) PROVE RequestsOK'
  BY <1>14, <1>a, Formed DEF RevertClaim, At
<1>15. ASSUME NEW r \in Requests, Announce(r) PROVE RequestsOK'
  BY <1>15, <1>a, Formed DEF Announce, At
<1>16. ASSUME NEW r \in Requests, ReadForDelete(r) PROVE RequestsOK'
  BY <1>16, <1>a, Formed DEF ReadForDelete, At
<1>17. ASSUME NEW r \in Requests, DeleteRow(r) PROVE RequestsOK'
  BY <1>17, <1>a, Formed DEF DeleteRow, At
<1>18. ASSUME NEW r \in Requests, ReadForCleanup(r) PROVE RequestsOK'
  BY <1>18, <1>a, Formed DEF ReadForCleanup, At
<1>19. ASSUME NEW r \in Requests, DeleteStale(r) PROVE RequestsOK'
  BY <1>19, <1>a, Formed DEF DeleteStale, At
<1>20. ASSUME NEW r \in Requests, DeleteObject(r) PROVE RequestsOK'
  BY <1>20, <1>a, Formed DEF DeleteObject, At, BestEffort
<1>21. ASSUME NEW j \in jobs, NEW status \in {"READY", "FAILED"}, Settle(j, status) PROVE RequestsOK'
  BY <1>21, <1>a, Formed DEF Settle
<1>22. QED
  BY <1>1, <1>2, <1>3, <1>4, <1>5, <1>6, <1>7, <1>8, <1>9, <1>10, <1>11, <1>12, <1>13, <1>14, <1>15, <1>16, <1>17, <1>18, <1>19, <1>20, <1>21 DEF UploadNext

\* So does the rest of the state.
LEMMA StoreStep == UploadInv /\ UploadNext => StoreOK'
<1> SUFFICES ASSUME UploadInv, UploadNext PROVE StoreOK'
  OBVIOUS
<1>a. UploadTypeOK /\ StoreOK /\ Lifetime /\ Examined /\ KeysKnown /\ (\A r \in Requests : request[r].key \in Keys \cup {"none"})
  BY DEF UploadInv, UploadTypeOK, StoreOK, RequestsOK, RequestRecord
<1> USE DEF StoreOK, At
<1>1. CASE InitUpload
  BY <1>1, <1>a DEF InitUpload, Lifetime
<1>2. CASE Age
  BY <1>2, <1>a, UploadAssumption DEF Age
<1>3. CASE Crash
  BY <1>3, <1>a, UploadAssumption DEF Crash
<1>4. ASSUME NEW k \in Keys, PutObject(k) PROVE StoreOK'
  BY <1>4, <1>a, UploadAssumption DEF PutObject
<1>5. ASSUME NEW r \in Requests, ReadForUrl(r) PROVE StoreOK'
  BY <1>5, <1>a, UploadAssumption DEF ReadForUrl
<1>6. ASSUME NEW r \in Requests, SwapKey(r) PROVE StoreOK'
  BY <1>6, <1>a DEF SwapKey
<1>7. ASSUME NEW r \in Requests, DropOld(r) PROVE StoreOK'
  BY <1>7, <1>a DEF DropOld, BestEffort, KeysKnown
<1>8. ASSUME NEW r \in Requests, ReadForComplete(r) PROVE StoreOK'
  BY <1>8, <1>a, UploadAssumption DEF ReadForComplete
<1>9. ASSUME NEW r \in Requests, HeadObject(r) PROVE StoreOK'
  BY <1>9, <1>a, UploadAssumption DEF HeadObject
<1>10. ASSUME NEW r \in Requests, DropOversized(r) PROVE StoreOK'
  BY <1>10, <1>a, UploadAssumption DEF DropOversized, BestEffort
<1>11. ASSUME NEW r \in Requests, ClaimTransition(r) PROVE StoreOK'
  BY <1>11, <1>a DEF ClaimTransition
<1>12. ASSUME NEW r \in Requests, Recheck(r) PROVE StoreOK'
  BY <1>12, <1>a, UploadAssumption DEF Recheck
<1>13. ASSUME NEW r \in Requests, PushJob(r) PROVE StoreOK'
  <2>1. [s3Key |-> request[r].key, by |-> r] \in [s3Key : stored, by : Requests]
    BY <1>13, <1>a DEF PushJob, Examined
  <2>2. faults' \in 0..MaxFaults
    BY <1>13, <1>a, UploadAssumption DEF PushJob
  <2>3. QED
    BY <1>13, <1>a, <2>1, <2>2 DEF PushJob
<1>14. ASSUME NEW r \in Requests, RevertClaim(r) PROVE StoreOK'
  BY <1>14, <1>a, UploadAssumption DEF RevertClaim
<1>15. ASSUME NEW r \in Requests, Announce(r) PROVE StoreOK'
  BY <1>15, <1>a, UploadAssumption DEF Announce
<1>16. ASSUME NEW r \in Requests, ReadForDelete(r) PROVE StoreOK'
  BY <1>16, <1>a, UploadAssumption DEF ReadForDelete
<1>17. ASSUME NEW r \in Requests, DeleteRow(r) PROVE StoreOK'
  BY <1>17, <1>a, UploadAssumption DEF DeleteRow
<1>18. ASSUME NEW r \in Requests, ReadForCleanup(r) PROVE StoreOK'
  BY <1>18, <1>a, UploadAssumption DEF ReadForCleanup
<1>19. ASSUME NEW r \in Requests, DeleteStale(r) PROVE StoreOK'
  BY <1>19, <1>a, UploadAssumption DEF DeleteStale
<1>20. ASSUME NEW r \in Requests, DeleteObject(r) PROVE StoreOK'
  BY <1>20, <1>a, UploadAssumption DEF DeleteObject, BestEffort
<1>21. ASSUME NEW j \in jobs, NEW status \in {"READY", "FAILED"}, Settle(j, status) PROVE StoreOK'
  BY <1>21, <1>a, UploadAssumption DEF Settle
<1>22. QED
  BY <1>1, <1>2, <1>3, <1>4, <1>5, <1>6, <1>7, <1>8, <1>9, <1>10, <1>11, <1>12, <1>13, <1>14, <1>15, <1>16, <1>17, <1>18, <1>19, <1>20, <1>21 DEF UploadNext

\* No request starts before POST /init, and a deleted row never returns.
LEMMA LifetimeStep == UploadInv /\ UploadNext => Lifetime'
<1> SUFFICES ASSUME UploadInv, UploadNext PROVE Lifetime'
  OBVIOUS
<1>a. UploadTypeOK /\ StoreOK /\ RequestsOK /\ Lifetime
  BY DEF UploadInv, UploadTypeOK
<1> USE DEF Lifetime, At, Moved, StoreOK
<1>1. CASE InitUpload
  BY <1>1, <1>a, Moves DEF InitUpload
<1>2. CASE Age
  BY <1>2, <1>a, Moves DEF Age
<1>3. CASE Crash
  BY <1>3, <1>a, Moves DEF Crash
<1>4. ASSUME NEW k \in Keys, PutObject(k) PROVE Lifetime'
  BY <1>4, <1>a, Moves DEF PutObject
<1>5. ASSUME NEW r \in Requests, ReadForUrl(r) PROVE Lifetime'
  BY <1>5, <1>a, Moves DEF ReadForUrl
<1>6. ASSUME NEW r \in Requests, SwapKey(r) PROVE Lifetime'
  BY <1>6, <1>a, Moves, Swapped
<1>7. ASSUME NEW r \in Requests, DropOld(r) PROVE Lifetime'
  BY <1>7, <1>a, Moves DEF DropOld, BestEffort
<1>8. ASSUME NEW r \in Requests, ReadForComplete(r) PROVE Lifetime'
  BY <1>8, <1>a, Moves DEF ReadForComplete
<1>9. ASSUME NEW r \in Requests, HeadObject(r) PROVE Lifetime'
  BY <1>9, <1>a, Moves DEF HeadObject
<1>10. ASSUME NEW r \in Requests, DropOversized(r) PROVE Lifetime'
  BY <1>10, <1>a, Moves DEF DropOversized, BestEffort
<1>11. ASSUME NEW r \in Requests, ClaimTransition(r) PROVE Lifetime'
  BY <1>11, <1>a, Moves, Claimed
<1>12. ASSUME NEW r \in Requests, Recheck(r) PROVE Lifetime'
  BY <1>12, <1>a, Moves DEF Recheck
<1>13. ASSUME NEW r \in Requests, PushJob(r) PROVE Lifetime'
  BY <1>13, <1>a, Moves DEF PushJob
<1>14. ASSUME NEW r \in Requests, RevertClaim(r) PROVE Lifetime'
  BY <1>14, <1>a, Moves DEF RevertClaim
<1>15. ASSUME NEW r \in Requests, Announce(r) PROVE Lifetime'
  BY <1>15, <1>a, Moves DEF Announce
<1>16. ASSUME NEW r \in Requests, ReadForDelete(r) PROVE Lifetime'
  BY <1>16, <1>a, Moves DEF ReadForDelete, Existing
<1>17. ASSUME NEW r \in Requests, DeleteRow(r) PROVE Lifetime'
  BY <1>17, <1>a, Moves DEF DeleteRow
<1>18. ASSUME NEW r \in Requests, ReadForCleanup(r) PROVE Lifetime'
  BY <1>18, <1>a, Moves DEF ReadForCleanup
<1>19. ASSUME NEW r \in Requests, DeleteStale(r) PROVE Lifetime'
  BY <1>19, <1>a, Moves DEF DeleteStale
<1>20. ASSUME NEW r \in Requests, DeleteObject(r) PROVE Lifetime'
  BY <1>20, <1>a, Moves DEF DeleteObject, BestEffort
<1>21. ASSUME NEW j \in jobs, NEW status \in {"READY", "FAILED"}, Settle(j, status) PROVE Lifetime'
  BY <1>21, <1>a, Moves DEF Settle
<1>22. QED
  BY <1>1, <1>2, <1>3, <1>4, <1>5, <1>6, <1>7, <1>8, <1>9, <1>10, <1>11, <1>12, <1>13, <1>14, <1>15, <1>16, <1>17, <1>18, <1>19, <1>20, <1>21 DEF UploadNext

\* Only HeadObject lets a request on to the claim.
LEMMA ExaminedStep == UploadInv /\ UploadNext => Examined'
<1> SUFFICES ASSUME UploadInv, UploadNext PROVE Examined'
  OBVIOUS
<1>a. UploadTypeOK /\ StoreOK /\ RequestsOK /\ Lifetime /\ Examined
  BY DEF UploadInv, UploadTypeOK
<1> USE DEF Lifetime, Examined, NoOversizedJob, At, Moved, StoreOK
<1>1. CASE InitUpload
  BY <1>1, <1>a, Moves DEF InitUpload
<1>2. CASE Age
  BY <1>2, <1>a, Moves DEF Age
<1>3. CASE Crash
  BY <1>3, <1>a, Moves DEF Crash
<1>4. ASSUME NEW k \in Keys, PutObject(k) PROVE Examined'
  BY <1>4, <1>a, Moves DEF PutObject
<1>5. ASSUME NEW r \in Requests, ReadForUrl(r) PROVE Examined'
  BY <1>5, <1>a, Moves DEF ReadForUrl
<1>6. ASSUME NEW r \in Requests, SwapKey(r) PROVE Examined'
  BY <1>6, <1>a, Moves, Swapped
<1>7. ASSUME NEW r \in Requests, DropOld(r) PROVE Examined'
  BY <1>7, <1>a, Moves DEF DropOld, BestEffort
<1>8. ASSUME NEW r \in Requests, ReadForComplete(r) PROVE Examined'
  BY <1>8, <1>a, Moves DEF ReadForComplete
<1>9. ASSUME NEW r \in Requests, HeadObject(r) PROVE Examined'
  BY <1>9, <1>a, Moves DEF HeadObject
<1>10. ASSUME NEW r \in Requests, DropOversized(r) PROVE Examined'
  BY <1>10, <1>a, Moves DEF DropOversized, BestEffort
<1>11. ASSUME NEW r \in Requests, ClaimTransition(r) PROVE Examined'
  BY <1>11, <1>a, Moves, Claimed
<1>12. ASSUME NEW r \in Requests, Recheck(r) PROVE Examined'
  BY <1>12, <1>a, Moves DEF Recheck
<1>13. ASSUME NEW r \in Requests, PushJob(r) PROVE Examined'
  BY <1>13, <1>a, Moves DEF PushJob
<1>14. ASSUME NEW r \in Requests, RevertClaim(r) PROVE Examined'
  BY <1>14, <1>a, Moves DEF RevertClaim
<1>15. ASSUME NEW r \in Requests, Announce(r) PROVE Examined'
  BY <1>15, <1>a, Moves DEF Announce
<1>16. ASSUME NEW r \in Requests, ReadForDelete(r) PROVE Examined'
  BY <1>16, <1>a, Moves DEF ReadForDelete
<1>17. ASSUME NEW r \in Requests, DeleteRow(r) PROVE Examined'
  BY <1>17, <1>a, Moves DEF DeleteRow
<1>18. ASSUME NEW r \in Requests, ReadForCleanup(r) PROVE Examined'
  BY <1>18, <1>a, Moves DEF ReadForCleanup
<1>19. ASSUME NEW r \in Requests, DeleteStale(r) PROVE Examined'
  BY <1>19, <1>a, Moves DEF DeleteStale
<1>20. ASSUME NEW r \in Requests, DeleteObject(r) PROVE Examined'
  BY <1>20, <1>a, Moves DEF DeleteObject, BestEffort
<1>21. ASSUME NEW j \in jobs, NEW status \in {"READY", "FAILED"}, Settle(j, status) PROVE Examined'
  BY <1>21, <1>a, Moves DEF Settle
<1>22. QED
  BY <1>1, <1>2, <1>3, <1>4, <1>5, <1>6, <1>7, <1>8, <1>9, <1>10, <1>11, <1>12, <1>13, <1>14, <1>15, <1>16, <1>17, <1>18, <1>19, <1>20, <1>21 DEF UploadNext

\* A swap generates a key nobody has read.
LEMMA KeysStep == UploadInv /\ UploadNext => KeysKnown'
<1> SUFFICES ASSUME UploadInv, UploadNext PROVE KeysKnown'
  OBVIOUS
<1>a. UploadTypeOK /\ StoreOK /\ RequestsOK /\ Lifetime /\ KeysKnown
  BY DEF UploadInv, UploadTypeOK
<1> USE DEF Lifetime, KeysKnown, Known, Generated, At, Moved, StoreOK
<1>1. CASE InitUpload
  BY <1>1, <1>a, Moves DEF InitUpload
<1>2. CASE Age
  BY <1>2, <1>a, Moves DEF Age
<1>3. CASE Crash
  BY <1>3, <1>a, Moves DEF Crash
<1>4. ASSUME NEW k \in Keys, PutObject(k) PROVE KeysKnown'
  BY <1>4, <1>a, Moves DEF PutObject
<1>5. ASSUME NEW r \in Requests, ReadForUrl(r) PROVE KeysKnown'
  BY <1>5, <1>a, Moves DEF ReadForUrl
<1>6. ASSUME NEW r \in Requests, SwapKey(r) PROVE KeysKnown'
  <2>1. At(r, "swap") /\ issued' = issued
    BY <1>6, <1>a, Swapped
  <2>2. CASE row' = row /\ Moved(r, "done", request[r].key, request[r].fresh)
    BY <1>a, <2>1, <2>2
  <2>3. CASE /\ row.status = "UPLOADING" /\ row'.status = "UPLOADING"
             /\ row'.s3Key \in Keys \ (issued \cup Generated)
             /\ Moved(r, "drop", request[r].key, row'.s3Key)
    <3>1. Known \subseteq Known' /\ row'.s3Key \in Known'
      BY <2>1, <2>3
    <3>2. row'.s3Key \notin Known
      BY <2>3
    <3>3. QED
      BY <1>a, <2>1, <2>3, <3>1, <3>2
  <2>4. QED
    BY <1>6, <1>a, <2>2, <2>3, Swapped
<1>7. ASSUME NEW r \in Requests, DropOld(r) PROVE KeysKnown'
  BY <1>7, <1>a, Moves DEF DropOld, BestEffort
<1>8. ASSUME NEW r \in Requests, ReadForComplete(r) PROVE KeysKnown'
  BY <1>8, <1>a, Moves DEF ReadForComplete
<1>9. ASSUME NEW r \in Requests, HeadObject(r) PROVE KeysKnown'
  BY <1>9, <1>a, Moves DEF HeadObject
<1>10. ASSUME NEW r \in Requests, DropOversized(r) PROVE KeysKnown'
  BY <1>10, <1>a, Moves DEF DropOversized, BestEffort
<1>11. ASSUME NEW r \in Requests, ClaimTransition(r) PROVE KeysKnown'
  BY <1>11, <1>a, Moves, Claimed
<1>12. ASSUME NEW r \in Requests, Recheck(r) PROVE KeysKnown'
  BY <1>12, <1>a, Moves DEF Recheck
<1>13. ASSUME NEW r \in Requests, PushJob(r) PROVE KeysKnown'
  BY <1>13, <1>a, Moves DEF PushJob
<1>14. ASSUME NEW r \in Requests, RevertClaim(r) PROVE KeysKnown'
  BY <1>14, <1>a, Moves DEF RevertClaim
<1>15. ASSUME NEW r \in Requests, Announce(r) PROVE KeysKnown'
  BY <1>15, <1>a, Moves DEF Announce
<1>16. ASSUME NEW r \in Requests, ReadForDelete(r) PROVE KeysKnown'
  BY <1>16, <1>a, Moves DEF ReadForDelete, Existing
<1>17. ASSUME NEW r \in Requests, DeleteRow(r) PROVE KeysKnown'
  BY <1>17, <1>a, Moves DEF DeleteRow
<1>18. ASSUME NEW r \in Requests, ReadForCleanup(r) PROVE KeysKnown'
  BY <1>18, <1>a, Moves DEF ReadForCleanup
<1>19. ASSUME NEW r \in Requests, DeleteStale(r) PROVE KeysKnown'
  BY <1>19, <1>a, Moves DEF DeleteStale
<1>20. ASSUME NEW r \in Requests, DeleteObject(r) PROVE KeysKnown'
  BY <1>20, <1>a, Moves DEF DeleteObject, BestEffort
<1>21. ASSUME NEW j \in jobs, NEW status \in {"READY", "FAILED"}, Settle(j, status) PROVE KeysKnown'
  BY <1>21, <1>a, Moves DEF Settle
<1>22. QED
  BY <1>1, <1>2, <1>3, <1>4, <1>5, <1>6, <1>7, <1>8, <1>9, <1>10, <1>11, <1>12, <1>13, <1>14, <1>15, <1>16, <1>17, <1>18, <1>19, <1>20, <1>21 DEF UploadNext

\* Only a failed push takes a claim back.
LEMMA TakenStep == UploadInv /\ UploadNext => NeverTakenBack'
<1> SUFFICES ASSUME UploadInv, UploadNext PROVE NeverTakenBack'
  OBVIOUS
<1>a. UploadTypeOK /\ StoreOK /\ RequestsOK /\ Lifetime /\ NeverTakenBack
  BY DEF UploadInv, UploadTypeOK
<1> USE DEF Lifetime, NeverTakenBack, At, Moved, StoreOK
<1>1. CASE InitUpload
  BY <1>1, <1>a, Moves DEF InitUpload
<1>2. CASE Age
  BY <1>2, <1>a, Moves DEF Age
<1>3. CASE Crash
  BY <1>3, <1>a, Moves DEF Crash
<1>4. ASSUME NEW k \in Keys, PutObject(k) PROVE NeverTakenBack'
  BY <1>4, <1>a, Moves DEF PutObject
<1>5. ASSUME NEW r \in Requests, ReadForUrl(r) PROVE NeverTakenBack'
  BY <1>5, <1>a, Moves DEF ReadForUrl
<1>6. ASSUME NEW r \in Requests, SwapKey(r) PROVE NeverTakenBack'
  BY <1>6, <1>a, Moves, Swapped
<1>7. ASSUME NEW r \in Requests, DropOld(r) PROVE NeverTakenBack'
  BY <1>7, <1>a, Moves DEF DropOld, BestEffort
<1>8. ASSUME NEW r \in Requests, ReadForComplete(r) PROVE NeverTakenBack'
  BY <1>8, <1>a, Moves DEF ReadForComplete
<1>9. ASSUME NEW r \in Requests, HeadObject(r) PROVE NeverTakenBack'
  BY <1>9, <1>a, Moves DEF HeadObject
<1>10. ASSUME NEW r \in Requests, DropOversized(r) PROVE NeverTakenBack'
  BY <1>10, <1>a, Moves DEF DropOversized, BestEffort
<1>11. ASSUME NEW r \in Requests, ClaimTransition(r) PROVE NeverTakenBack'
  BY <1>11, <1>a, Moves, Claimed
<1>12. ASSUME NEW r \in Requests, Recheck(r) PROVE NeverTakenBack'
  BY <1>12, <1>a, Moves DEF Recheck
<1>13. ASSUME NEW r \in Requests, PushJob(r) PROVE NeverTakenBack'
  BY <1>13, <1>a, Moves DEF PushJob
<1>14. ASSUME NEW r \in Requests, RevertClaim(r) PROVE NeverTakenBack'
  BY <1>14, <1>a, Moves DEF RevertClaim
<1>15. ASSUME NEW r \in Requests, Announce(r) PROVE NeverTakenBack'
  BY <1>15, <1>a, Moves DEF Announce
<1>16. ASSUME NEW r \in Requests, ReadForDelete(r) PROVE NeverTakenBack'
  BY <1>16, <1>a, Moves DEF ReadForDelete
<1>17. ASSUME NEW r \in Requests, DeleteRow(r) PROVE NeverTakenBack'
  BY <1>17, <1>a, Moves DEF DeleteRow
<1>18. ASSUME NEW r \in Requests, ReadForCleanup(r) PROVE NeverTakenBack'
  BY <1>18, <1>a, Moves DEF ReadForCleanup
<1>19. ASSUME NEW r \in Requests, DeleteStale(r) PROVE NeverTakenBack'
  BY <1>19, <1>a, Moves DEF DeleteStale
<1>20. ASSUME NEW r \in Requests, DeleteObject(r) PROVE NeverTakenBack'
  BY <1>20, <1>a, Moves DEF DeleteObject, BestEffort
<1>21. ASSUME NEW j \in jobs, NEW status \in {"READY", "FAILED"}, Settle(j, status) PROVE NeverTakenBack'
  BY <1>21, <1>a, Moves DEF Settle
<1>22. QED
  BY <1>1, <1>2, <1>3, <1>4, <1>5, <1>6, <1>7, <1>8, <1>9, <1>10, <1>11, <1>12, <1>13, <1>14, <1>15, <1>16, <1>17, <1>18, <1>19, <1>20, <1>21 DEF UploadNext

\* No step drops the object a claim is about to be made for: the dropped keys are
\* superseded, too large, or of a deleted row.
LEMMA ClaimStep == UploadInv /\ UploadNext => ClaimHasSource'
<1> SUFFICES ASSUME UploadInv, UploadNext PROVE ClaimHasSource'
  OBVIOUS
<1>a. UploadTypeOK /\ StoreOK /\ RequestsOK /\ Lifetime /\ Examined /\ KeysKnown /\ NeverTakenBack /\ ClaimHasSource
  BY DEF UploadInv, UploadTypeOK
<1> USE DEF Lifetime, Examined, KeysKnown, Known, Generated, NeverTakenBack, ClaimHasSource, At, Moved, StoreOK
<1>1. CASE InitUpload
  BY <1>1, <1>a, Moves DEF InitUpload
<1>2. CASE Age
  BY <1>2, <1>a, Moves DEF Age
<1>3. CASE Crash
  BY <1>3, <1>a, Moves DEF Crash
<1>4. ASSUME NEW k \in Keys, PutObject(k) PROVE ClaimHasSource'
  BY <1>4, <1>a, Moves DEF PutObject
<1>5. ASSUME NEW r \in Requests, ReadForUrl(r) PROVE ClaimHasSource'
  BY <1>5, <1>a, Moves DEF ReadForUrl
<1>6. ASSUME NEW r \in Requests, SwapKey(r) PROVE ClaimHasSource'
  BY <1>6, <1>a, Moves, Swapped
<1>7. ASSUME NEW r \in Requests, DropOld(r) PROVE ClaimHasSource'
  BY <1>7, <1>a, Moves DEF DropOld, BestEffort
<1>8. ASSUME NEW r \in Requests, ReadForComplete(r) PROVE ClaimHasSource'
  BY <1>8, <1>a, Moves DEF ReadForComplete
<1>9. ASSUME NEW r \in Requests, HeadObject(r) PROVE ClaimHasSource'
  BY <1>9, <1>a, Moves DEF HeadObject
<1>10. ASSUME NEW r \in Requests, DropOversized(r) PROVE ClaimHasSource'
  BY <1>10, <1>a, Moves DEF DropOversized, BestEffort
<1>11. ASSUME NEW r \in Requests, ClaimTransition(r) PROVE ClaimHasSource'
  BY <1>11, <1>a, Moves, Claimed
<1>12. ASSUME NEW r \in Requests, Recheck(r) PROVE ClaimHasSource'
  BY <1>12, <1>a, Moves DEF Recheck
<1>13. ASSUME NEW r \in Requests, PushJob(r) PROVE ClaimHasSource'
  BY <1>13, <1>a, Moves DEF PushJob
<1>14. ASSUME NEW r \in Requests, RevertClaim(r) PROVE ClaimHasSource'
  BY <1>14, <1>a, Moves DEF RevertClaim
<1>15. ASSUME NEW r \in Requests, Announce(r) PROVE ClaimHasSource'
  BY <1>15, <1>a, Moves DEF Announce
<1>16. ASSUME NEW r \in Requests, ReadForDelete(r) PROVE ClaimHasSource'
  BY <1>16, <1>a, Moves DEF ReadForDelete
<1>17. ASSUME NEW r \in Requests, DeleteRow(r) PROVE ClaimHasSource'
  BY <1>17, <1>a, Moves DEF DeleteRow
<1>18. ASSUME NEW r \in Requests, ReadForCleanup(r) PROVE ClaimHasSource'
  BY <1>18, <1>a, Moves DEF ReadForCleanup
<1>19. ASSUME NEW r \in Requests, DeleteStale(r) PROVE ClaimHasSource'
  BY <1>19, <1>a, Moves DEF DeleteStale
<1>20. ASSUME NEW r \in Requests, DeleteObject(r) PROVE ClaimHasSource'
  BY <1>20, <1>a, Moves DEF DeleteObject, BestEffort
<1>21. ASSUME NEW j \in jobs, NEW status \in {"READY", "FAILED"}, Settle(j, status) PROVE ClaimHasSource'
  BY <1>21, <1>a, Moves DEF Settle
<1>22. QED
  BY <1>1, <1>2, <1>3, <1>4, <1>5, <1>6, <1>7, <1>8, <1>9, <1>10, <1>11, <1>12, <1>13, <1>14, <1>15, <1>16, <1>17, <1>18, <1>19, <1>20, <1>21 DEF UploadNext

\* Nor the object of a movie that is processing.
LEMMA SourceStep == UploadInv /\ UploadNext => JobHasSource'
<1> SUFFICES ASSUME UploadInv, UploadNext PROVE JobHasSource'
  OBVIOUS
<1>a. UploadTypeOK /\ StoreOK /\ RequestsOK /\ Lifetime /\ Examined /\ KeysKnown /\ NeverTakenBack /\ ClaimHasSource /\ JobHasSource
  BY DEF UploadInv, UploadTypeOK
<1> USE DEF Lifetime, Examined, KeysKnown, NeverTakenBack, ClaimHasSource, JobHasSource, At, Moved, StoreOK
<1>1. CASE InitUpload
  BY <1>1, <1>a, Moves DEF InitUpload
<1>2. CASE Age
  BY <1>2, <1>a, Moves DEF Age
<1>3. CASE Crash
  BY <1>3, <1>a, Moves DEF Crash
<1>4. ASSUME NEW k \in Keys, PutObject(k) PROVE JobHasSource'
  BY <1>4, <1>a, Moves DEF PutObject
<1>5. ASSUME NEW r \in Requests, ReadForUrl(r) PROVE JobHasSource'
  BY <1>5, <1>a, Moves DEF ReadForUrl
<1>6. ASSUME NEW r \in Requests, SwapKey(r) PROVE JobHasSource'
  BY <1>6, <1>a, Moves, Swapped
<1>7. ASSUME NEW r \in Requests, DropOld(r) PROVE JobHasSource'
  BY <1>7, <1>a, Moves DEF DropOld, BestEffort
<1>8. ASSUME NEW r \in Requests, ReadForComplete(r) PROVE JobHasSource'
  BY <1>8, <1>a, Moves DEF ReadForComplete
<1>9. ASSUME NEW r \in Requests, HeadObject(r) PROVE JobHasSource'
  BY <1>9, <1>a, Moves DEF HeadObject
<1>10. ASSUME NEW r \in Requests, DropOversized(r) PROVE JobHasSource'
  BY <1>10, <1>a, Moves DEF DropOversized, BestEffort
<1>11. ASSUME NEW r \in Requests, ClaimTransition(r) PROVE JobHasSource'
  BY <1>11, <1>a, Moves, Claimed
<1>12. ASSUME NEW r \in Requests, Recheck(r) PROVE JobHasSource'
  BY <1>12, <1>a, Moves DEF Recheck
<1>13. ASSUME NEW r \in Requests, PushJob(r) PROVE JobHasSource'
  BY <1>13, <1>a, Moves DEF PushJob
<1>14. ASSUME NEW r \in Requests, RevertClaim(r) PROVE JobHasSource'
  BY <1>14, <1>a, Moves DEF RevertClaim
<1>15. ASSUME NEW r \in Requests, Announce(r) PROVE JobHasSource'
  BY <1>15, <1>a, Moves DEF Announce
<1>16. ASSUME NEW r \in Requests, ReadForDelete(r) PROVE JobHasSource'
  BY <1>16, <1>a, Moves DEF ReadForDelete
<1>17. ASSUME NEW r \in Requests, DeleteRow(r) PROVE JobHasSource'
  BY <1>17, <1>a, Moves DEF DeleteRow
<1>18. ASSUME NEW r \in Requests, ReadForCleanup(r) PROVE JobHasSource'
  BY <1>18, <1>a, Moves DEF ReadForCleanup
<1>19. ASSUME NEW r \in Requests, DeleteStale(r) PROVE JobHasSource'
  BY <1>19, <1>a, Moves DEF DeleteStale
<1>20. ASSUME NEW r \in Requests, DeleteObject(r) PROVE JobHasSource'
  BY <1>20, <1>a, Moves DEF DeleteObject, BestEffort
<1>21. ASSUME NEW j \in jobs, NEW status \in {"READY", "FAILED"}, Settle(j, status) PROVE JobHasSource'
  BY <1>21, <1>a, Moves DEF Settle
<1>22. QED
  BY <1>1, <1>2, <1>3, <1>4, <1>5, <1>6, <1>7, <1>8, <1>9, <1>10, <1>11, <1>12, <1>13, <1>14, <1>15, <1>16, <1>17, <1>18, <1>19, <1>20, <1>21 DEF UploadNext

\* A processing movie keeps its job, or the request that will push it.
LEMMA JobStep == UploadInv /\ UploadNext => JobIsComing'
<1> SUFFICES ASSUME UploadInv, UploadNext PROVE JobIsComing'
  OBVIOUS
<1>a. UploadTypeOK /\ StoreOK /\ RequestsOK /\ Lifetime /\ JobIsComing
  BY DEF UploadInv, UploadTypeOK
<1> USE DEF Lifetime, JobIsComing, At, Moved, StoreOK
<1>1. CASE InitUpload
  BY <1>1, <1>a, Moves DEF InitUpload
<1>2. CASE Age
  BY <1>2, <1>a, Moves DEF Age
<1>3. CASE Crash
  BY <1>3, <1>a, Moves DEF Crash
<1>4. ASSUME NEW k \in Keys, PutObject(k) PROVE JobIsComing'
  BY <1>4, <1>a, Moves DEF PutObject
<1>5. ASSUME NEW r \in Requests, ReadForUrl(r) PROVE JobIsComing'
  BY <1>5, <1>a, Moves DEF ReadForUrl
<1>6. ASSUME NEW r \in Requests, SwapKey(r) PROVE JobIsComing'
  BY <1>6, <1>a, Moves, Swapped
<1>7. ASSUME NEW r \in Requests, DropOld(r) PROVE JobIsComing'
  BY <1>7, <1>a, Moves DEF DropOld, BestEffort
<1>8. ASSUME NEW r \in Requests, ReadForComplete(r) PROVE JobIsComing'
  BY <1>8, <1>a, Moves DEF ReadForComplete
<1>9. ASSUME NEW r \in Requests, HeadObject(r) PROVE JobIsComing'
  BY <1>9, <1>a, Moves DEF HeadObject
<1>10. ASSUME NEW r \in Requests, DropOversized(r) PROVE JobIsComing'
  BY <1>10, <1>a, Moves DEF DropOversized, BestEffort
<1>11. ASSUME NEW r \in Requests, ClaimTransition(r) PROVE JobIsComing'
  BY <1>11, <1>a, Moves, Claimed
<1>12. ASSUME NEW r \in Requests, Recheck(r) PROVE JobIsComing'
  BY <1>12, <1>a, Moves DEF Recheck
<1>13. ASSUME NEW r \in Requests, PushJob(r) PROVE JobIsComing'
  <2>1. CASE Goto(r, "announce") /\ jobs' = jobs \cup {[s3Key |-> request[r].key, by |-> r]}
    <3>1. Moved(r, "announce", request[r].key, request[r].fresh)
      BY <1>a, <2>1, Moves
    <3>2. UNCHANGED <<row, crashes>>
      BY <1>13 DEF PushJob
    <3>3. [s3Key |-> request[r].key, by |-> r] \in jobs' /\ jobs \subseteq jobs'
      BY <2>1
    <3>4. SUFFICES ASSUME row.status = "PROCESSING", crashes = 0
                   PROVE  JobIsComing'
      BY <3>2
    <3>5. CASE \E j \in jobs : j.s3Key = row.s3Key
      BY <3>2, <3>3, <3>5
    <3>6. ASSUME NEW q \in Requests, At(q, "push"), request[q].key = row.s3Key
          PROVE  JobIsComing'
      <4>1. CASE q = r
        BY <3>2, <3>3, <3>6, <4>1
      <4>2. CASE q # r
        BY <3>1, <3>2, <3>6, <4>2
      <4>3. QED
        BY <4>1, <4>2
    <3>7. ASSUME NEW q \in Requests, At(q, "revert")
          PROVE  JobIsComing'
      <4>1. q # r
        BY <1>13, <3>7 DEF PushJob
      <4>2. QED
        BY <3>1, <3>2, <3>7, <4>1
    <3>8. QED
      BY <1>a, <3>4, <3>5, <3>6, <3>7
  <2>2. CASE Goto(r, "revert")
    <3>1. Moved(r, "revert", request[r].key, request[r].fresh)
      BY <1>a, <2>2, Moves
    <3>2. QED
      BY <3>1
  <2>3. QED
    BY <1>13, <2>1, <2>2 DEF PushJob
<1>14. ASSUME NEW r \in Requests, RevertClaim(r) PROVE JobIsComing'
  BY <1>14, <1>a, Moves DEF RevertClaim
<1>15. ASSUME NEW r \in Requests, Announce(r) PROVE JobIsComing'
  BY <1>15, <1>a, Moves DEF Announce
<1>16. ASSUME NEW r \in Requests, ReadForDelete(r) PROVE JobIsComing'
  BY <1>16, <1>a, Moves DEF ReadForDelete
<1>17. ASSUME NEW r \in Requests, DeleteRow(r) PROVE JobIsComing'
  BY <1>17, <1>a, Moves DEF DeleteRow
<1>18. ASSUME NEW r \in Requests, ReadForCleanup(r) PROVE JobIsComing'
  BY <1>18, <1>a, Moves DEF ReadForCleanup
<1>19. ASSUME NEW r \in Requests, DeleteStale(r) PROVE JobIsComing'
  BY <1>19, <1>a, Moves DEF DeleteStale
<1>20. ASSUME NEW r \in Requests, DeleteObject(r) PROVE JobIsComing'
  BY <1>20, <1>a, Moves DEF DeleteObject, BestEffort
<1>21. ASSUME NEW j \in jobs, NEW status \in {"READY", "FAILED"}, Settle(j, status) PROVE JobIsComing'
  BY <1>21, <1>a, Moves DEF Settle
<1>22. QED
  BY <1>1, <1>2, <1>3, <1>4, <1>5, <1>6, <1>7, <1>8, <1>9, <1>10, <1>11, <1>12, <1>13, <1>14, <1>15, <1>16, <1>17, <1>18, <1>19, <1>20, <1>21 DEF UploadNext

-----------------------------------------------------------------------------
\* The invariant holds at the start.
LEMMA InitInv == UploadInit => UploadInv
<1> SUFFICES ASSUME UploadInit PROVE UploadInv
  OBVIOUS
<1> USE DEF UploadInit, At
<1>1. Fresh \in RequestRecord
  BY DEF Fresh, RequestRecord
<1>2. RequestsOK
  BY <1>1 DEF RequestsOK
<1>3. StoreOK
  BY UploadAssumption DEF StoreOK
<1>4. Lifetime /\ Examined /\ KeysKnown /\ NeverTakenBack
  BY DEF Lifetime, Examined, NoOversizedJob, KeysKnown, NeverTakenBack, Fresh
<1>5. ClaimHasSource /\ JobHasSource /\ JobIsComing
  BY DEF ClaimHasSource, JobHasSource, JobIsComing
<1>6. QED
  BY <1>2, <1>3, <1>4, <1>5 DEF UploadInv, UploadTypeOK

\* Every step keeps it.
LEMMA NextInv == UploadInv /\ [UploadNext]_uploadVars => UploadInv'
<1>1. CASE UploadNext
  BY <1>1, RequestsStep, StoreStep, LifetimeStep, ExaminedStep, KeysStep, TakenStep, ClaimStep,
     SourceStep, JobStep DEF UploadInv, UploadTypeOK
<1>2. CASE UNCHANGED uploadVars
  BY <1>2 DEF uploadVars, UploadInv, UploadTypeOK, RequestsOK, StoreOK, Lifetime, Examined,
     NoOversizedJob, KeysKnown, Known, NeverTakenBack, ClaimHasSource, JobHasSource, JobIsComing, At
<1>3. QED
  BY <1>1, <1>2

\* The invariant of the upload routes, on which the theorems below rest.
THEOREM UploadInvariance == UploadSpec => []UploadInv
<1>1. QED
  BY InitInv, NextInv, PTL DEF UploadSpec

\* The row, the buckets, the jobs and the requests have their types.
THEOREM UploadTypeCorrect == UploadSpec => []UploadTypeOK
<1>1. UploadInv => UploadTypeOK
  BY DEF UploadInv
<1>2. QED
  BY UploadInvariance, <1>1, PTL

\* /complete never pushes a job for a file that is too large.
THEOREM OversizedNeverQueued == UploadSpec => []NoOversizedJob
<1>1. UploadInv => NoOversizedJob
  BY DEF UploadInv, Examined
<1>2. QED
  BY UploadInvariance, <1>1, PTL

\* While Redis answers, the source of a processing movie is in the tmp bucket,
\* whatever retries, deletions and cleanups run beside it.
THEOREM ProcessingKeepsSource == UploadSpec => []JobHasSource
<1>1. UploadInv => JobHasSource
  BY DEF UploadInv
<1>2. QED
  BY UploadInvariance, <1>1, PTL

\* While the backend is not killed, a processing movie has a job, or a request
\* that is to push it or to take its claim back.
THEOREM ProcessingIsServed == UploadSpec => []ProcessingHasJob
<1>1. UploadInv => ProcessingHasJob
  BY DEF UploadInv, JobIsComing, ProcessingHasJob
<1>2. QED
  BY UploadInvariance, <1>1, PTL

\* While Redis answers, the cleanup deletes no movie that has had a job.
THEOREM CleanupIsSafe == UploadSpec => CleanupSparesActive
<1>1. ASSUME UploadInv, UploadNext, NEW s \in Requests,
             At(s, "deleteStale"), request'[s].at = "deleteObject"
      PROVE  pushed = {} \/ faults > 0
  <2> USE DEF At, Moved
  <2>a. RequestsOK /\ UploadTypeOK /\ StoreOK /\ NeverTakenBack
    BY <1>1 DEF UploadInv, UploadTypeOK
  <2>1. CASE InitUpload \/ Age \/ Crash
    <3>1. request[s].at = "deleteStale" /\ request[s] \in RequestRecord
      BY <1>1, <2>a DEF RequestsOK
    <3>2. CASE InitUpload \/ Age
      BY <1>1, <3>1, <3>2 DEF InitUpload, Age
    <3>3. CASE Crash
      <4>1. request'[s] = [request[s] EXCEPT !.at = "done"]
        BY <3>1, <3>3 DEF Crash
      <4>2. QED
        BY <1>1, <3>1, <4>1 DEF RequestRecord
    <3>4. QED
      BY <2>1, <3>2, <3>3
  <2>2. ASSUME NEW k \in Keys, PutObject(k) PROVE FALSE
    BY <1>1, <2>2 DEF PutObject
  <2>3. ASSUME NEW j \in jobs, NEW status \in {"READY", "FAILED"}, Settle(j, status) PROVE FALSE
    BY <1>1, <2>3 DEF Settle
  <2>4. ASSUME NEW r \in Requests, ReadForUrl(r) PROVE FALSE
    BY <1>1, <2>a, <2>4, Moves DEF ReadForUrl
  <2>5. ASSUME NEW r \in Requests, SwapKey(r) PROVE FALSE
    BY <1>1, <2>a, <2>5, Swapped
  <2>6. ASSUME NEW r \in Requests, DropOld(r) PROVE FALSE
    BY <1>1, <2>a, <2>6, Moves DEF DropOld
  <2>7. ASSUME NEW r \in Requests, ReadForComplete(r) PROVE FALSE
    BY <1>1, <2>a, <2>7, Moves DEF ReadForComplete
  <2>8. ASSUME NEW r \in Requests, HeadObject(r) PROVE FALSE
    BY <1>1, <2>a, <2>8, Moves DEF HeadObject
  <2>9. ASSUME NEW r \in Requests, DropOversized(r) PROVE FALSE
    BY <1>1, <2>a, <2>9, Moves DEF DropOversized
  <2>10. ASSUME NEW r \in Requests, ClaimTransition(r) PROVE FALSE
    BY <1>1, <2>a, <2>10, Claimed
  <2>11. ASSUME NEW r \in Requests, Recheck(r) PROVE FALSE
    BY <1>1, <2>a, <2>11, Moves DEF Recheck
  <2>12. ASSUME NEW r \in Requests, PushJob(r) PROVE FALSE
    BY <1>1, <2>a, <2>12, Moves DEF PushJob
  <2>13. ASSUME NEW r \in Requests, RevertClaim(r) PROVE FALSE
    BY <1>1, <2>a, <2>13, Moves DEF RevertClaim
  <2>14. ASSUME NEW r \in Requests, Announce(r) PROVE FALSE
    BY <1>1, <2>a, <2>14, Moves DEF Announce
  <2>15. ASSUME NEW r \in Requests, ReadForDelete(r) PROVE FALSE
    BY <1>1, <2>a, <2>15, Moves DEF ReadForDelete
  <2>16. ASSUME NEW r \in Requests, DeleteRow(r) PROVE FALSE
    BY <1>1, <2>a, <2>16, Moves DEF DeleteRow
  <2>17. ASSUME NEW r \in Requests, ReadForCleanup(r) PROVE FALSE
    BY <1>1, <2>a, <2>17, Moves DEF ReadForCleanup
  <2>18. ASSUME NEW r \in Requests, DeleteStale(r) PROVE pushed = {} \/ faults > 0
    BY <1>1, <2>a, <2>18, Moves, UploadAssumption DEF DeleteStale, NeverTakenBack, StoreOK
  <2>19. ASSUME NEW r \in Requests, DeleteObject(r) PROVE FALSE
    BY <1>1, <2>a, <2>19, Moves DEF DeleteObject
  <2>20. QED
    BY <1>1, <2>1, <2>2, <2>3, <2>4, <2>5, <2>6, <2>7, <2>8, <2>9, <2>10, <2>11, <2>12, <2>13, <2>14, <2>15, <2>16, <2>17, <2>18, <2>19 DEF UploadNext
<1>2. UploadInv /\ [UploadNext]_uploadVars =>
        [\A r \in Requests :
           At(r, "deleteStale") /\ request'[r].at = "deleteObject"
           => pushed = {} \/ faults > 0]_uploadVars
  BY <1>1
<1>3. QED
  BY UploadInvariance, <1>2, PTL DEF UploadSpec, CleanupSparesActive

-----------------------------------------------------------------------------
\* The count of jobs holds at the start.
LEMMA InitCount == UploadInit => JobsCounted
<1> SUFFICES ASSUME UploadInit PROVE JobsCounted
  OBVIOUS
<1>1. Claimants = {}
  BY DEF UploadInit, Claimants, At, Fresh
<1>2. QED
  BY <1>1, FS_EmptySet DEF UploadInit, JobsCounted, Free

\* One more element makes a finite set larger by one at most.
LEMMA OneMore ==
  \A S, x : IsFiniteSet(S) =>
    IsFiniteSet(S \cup {x}) /\ Cardinality(S \cup {x}) <= Cardinality(S) + 1
<1> SUFFICES ASSUME NEW S, NEW x, IsFiniteSet(S)
             PROVE  IsFiniteSet(S \cup {x}) /\ Cardinality(S \cup {x}) <= Cardinality(S) + 1
  OBVIOUS
<1>1. Cardinality(S) \in Nat
  BY FS_CardinalityType
<1>2. /\ IsFiniteSet(S \cup {x})
      /\ Cardinality(S \cup {x}) = IF x \in S THEN Cardinality(S) ELSE Cardinality(S) + 1
  BY FS_AddElement
<1>3. QED
  BY <1>1, <1>2

\* A step that adds no job, no claimant and no free row keeps the count.
LEMMA CountKept ==
  ASSUME JobsCounted, StoreOK, StoreOK', pushed' = pushed, Claimants' \subseteq Claimants,
         Free' <= Free, faults' >= faults
  PROVE  JobsCounted'
<1>1. IsFiniteSet(Claimants') /\ Cardinality(Claimants') <= Cardinality(Claimants)
  BY FS_Subset DEF JobsCounted
<1>2. /\ Cardinality(pushed) \in Nat /\ Cardinality(Claimants) \in Nat
      /\ Cardinality(Claimants') \in Nat
  BY <1>1, FS_CardinalityType DEF JobsCounted
<1>3. faults \in Nat /\ faults' \in Nat /\ Free \in {0, 1} /\ Free' \in {0, 1}
  BY UploadAssumption DEF StoreOK, Free
<1>4. QED
  BY <1>1, <1>2, <1>3 DEF JobsCounted

\* Every step keeps it: a claim trades the free row for a claimant, a push a
\* claimant for a job, and a failed push is paid for by its fault.
LEMMA NextCount == UploadInv /\ UploadInv' /\ JobsCounted /\ UploadNext => JobsCounted'
<1> SUFFICES ASSUME UploadInv, UploadInv', JobsCounted, UploadNext PROVE JobsCounted'
  OBVIOUS
<1>a. UploadTypeOK /\ RequestsOK /\ StoreOK /\ StoreOK' /\ Lifetime
  BY DEF UploadInv, UploadTypeOK
<1>b. /\ IsFiniteSet(pushed) /\ IsFiniteSet(Claimants)
      /\ Cardinality(pushed) \in Nat /\ Cardinality(Claimants) \in Nat
      /\ faults \in Nat /\ faults' \in Nat /\ Free \in {0, 1} /\ Free' \in {0, 1}
  BY <1>a, UploadAssumption, FS_CardinalityType DEF JobsCounted, StoreOK, Free
<1>1. CASE InitUpload
  <2>1. pushed' = pushed /\ Claimants' \subseteq Claimants /\ faults' >= faults
    BY <1>1, <1>a, <1>b, Moves DEF InitUpload, Claimants, At, Moved
  <2>2. Free' <= Free
    BY <1>1, <1>a DEF InitUpload, Free, StoreOK
  <2>3. QED
    BY <1>a, <2>1, <2>2, CountKept
<1>2. CASE Age
  <2>1. pushed' = pushed /\ Claimants' \subseteq Claimants /\ faults' >= faults
    BY <1>2, <1>a, <1>b, Moves DEF Age, Claimants, At, Moved
  <2>2. Free' <= Free
    BY <1>2, <1>a DEF Age, Free, StoreOK
  <2>3. QED
    BY <1>a, <2>1, <2>2, CountKept
<1>3. CASE Crash
  <2>1. \A r \in Requests : request[r] \in RequestRecord
    BY <1>a DEF RequestsOK
  <2>2. \A r \in Requests : request'[r] = request[r] \/ request'[r].at = "done"
    BY <1>3, <2>1 DEF Crash, RequestRecord
  <2>3. pushed' = pushed /\ Claimants' \subseteq Claimants /\ faults' >= faults /\ Free' <= Free
    BY <1>3, <1>b, <2>2 DEF Crash, Claimants, At, Free
  <2>4. QED
    BY <1>a, <2>3, CountKept
<1>4. ASSUME NEW k \in Keys, PutObject(k) PROVE JobsCounted'
  <2>1. pushed' = pushed /\ Claimants' \subseteq Claimants /\ faults' >= faults
    BY <1>4, <1>a, <1>b, Moves DEF PutObject, Claimants, At, Moved
  <2>2. Free' <= Free
    BY <1>4, <1>a DEF PutObject, Free, StoreOK
  <2>3. QED
    BY <1>a, <2>1, <2>2, CountKept
<1>5. ASSUME NEW r \in Requests, ReadForUrl(r) PROVE JobsCounted'
  <2>1. pushed' = pushed /\ Claimants' \subseteq Claimants /\ faults' >= faults
    BY <1>5, <1>a, <1>b, Moves DEF ReadForUrl, Claimants, At, Moved
  <2>2. Free' <= Free
    BY <1>5, <1>a DEF ReadForUrl, Free, StoreOK
  <2>3. QED
    BY <1>a, <2>1, <2>2, CountKept
<1>6. ASSUME NEW r \in Requests, SwapKey(r) PROVE JobsCounted'
  <2>1. pushed' = pushed /\ faults' = faults /\ Free' = Free
    BY <1>6, <1>a, Swapped DEF Free
  <2>2. Claimants' \subseteq Claimants
    BY <1>6, <1>a, Swapped DEF Claimants, At, Moved
  <2>3. QED
    BY <1>a, <1>b, <2>1, <2>2, CountKept
<1>7. ASSUME NEW r \in Requests, DropOld(r) PROVE JobsCounted'
  <2>1. pushed' = pushed /\ Claimants' \subseteq Claimants /\ faults' >= faults
    BY <1>7, <1>a, <1>b, Moves DEF DropOld, Claimants, At, Moved
  <2>2. Free' <= Free
    BY <1>7, <1>a DEF DropOld, Free, StoreOK
  <2>3. QED
    BY <1>a, <2>1, <2>2, CountKept
<1>8. ASSUME NEW r \in Requests, ReadForComplete(r) PROVE JobsCounted'
  <2>1. pushed' = pushed /\ Claimants' \subseteq Claimants /\ faults' >= faults
    BY <1>8, <1>a, <1>b, Moves DEF ReadForComplete, Claimants, At, Moved
  <2>2. Free' <= Free
    BY <1>8, <1>a DEF ReadForComplete, Free, StoreOK
  <2>3. QED
    BY <1>a, <2>1, <2>2, CountKept
<1>9. ASSUME NEW r \in Requests, HeadObject(r) PROVE JobsCounted'
  <2>1. pushed' = pushed /\ Claimants' \subseteq Claimants /\ faults' >= faults
    BY <1>9, <1>a, <1>b, Moves DEF HeadObject, Claimants, At, Moved
  <2>2. Free' <= Free
    BY <1>9, <1>a DEF HeadObject, Free, StoreOK
  <2>3. QED
    BY <1>a, <2>1, <2>2, CountKept
<1>10. ASSUME NEW r \in Requests, DropOversized(r) PROVE JobsCounted'
  <2>1. pushed' = pushed /\ Claimants' \subseteq Claimants /\ faults' >= faults
    BY <1>10, <1>a, <1>b, Moves DEF DropOversized, Claimants, At, Moved
  <2>2. Free' <= Free
    BY <1>10, <1>a DEF DropOversized, Free, StoreOK
  <2>3. QED
    BY <1>a, <2>1, <2>2, CountKept
<1>11. ASSUME NEW r \in Requests, ClaimTransition(r) PROVE JobsCounted'
  <2>1. pushed' = pushed /\ faults' = faults
    BY <1>11, <1>a, Claimed
  <2>2. CASE row' = row /\ Moved(r, "recheck", request[r].key, request[r].fresh)
    <3>1. Claimants' \subseteq Claimants
      BY <2>2 DEF Claimants, At, Moved
    <3>2. QED
      BY <1>a, <1>b, <2>1, <2>2, <3>1, CountKept DEF Free
  <2>3. CASE /\ row.status = "UPLOADING" /\ row'.status = "PROCESSING"
             /\ Moved(r, "push", request[r].key, request[r].fresh)
    <3>1. Claimants' = Claimants \cup {r}
      BY <2>3 DEF Claimants, At, Moved
    <3>2. IsFiniteSet(Claimants') /\ Cardinality(Claimants') <= Cardinality(Claimants) + 1
      BY <1>b, <3>1, OneMore
    <3>3. Cardinality(Claimants') \in Nat
      BY <3>2, FS_CardinalityType
    <3>4. Free = 1 /\ Free' = 0
      BY <2>3 DEF Free
    <3>5. QED
      BY <1>b, <2>1, <3>2, <3>3, <3>4 DEF JobsCounted
  <2>4. QED
    BY <1>11, <1>a, <2>2, <2>3, Claimed
<1>12. ASSUME NEW r \in Requests, Recheck(r) PROVE JobsCounted'
  <2>1. pushed' = pushed /\ Claimants' \subseteq Claimants /\ faults' >= faults
    BY <1>12, <1>a, <1>b, Moves DEF Recheck, Claimants, At, Moved
  <2>2. Free' <= Free
    BY <1>12, <1>a DEF Recheck, Free, StoreOK
  <2>3. QED
    BY <1>a, <2>1, <2>2, CountKept
<1>13. ASSUME NEW r \in Requests, PushJob(r) PROVE JobsCounted'
  <2> DEFINE job == [s3Key |-> request[r].key, by |-> r]
  <2>1. IsFiniteSet(pushed \cup {job}) /\ Cardinality(pushed \cup {job}) <= Cardinality(pushed) + 1
    BY <1>b, OneMore
  <2>2. (pushed' = pushed \/ pushed' = pushed \cup {job}) /\ Free' = Free
    BY <1>13 DEF PushJob, Free
  <2>3. IsFiniteSet(pushed') /\ Cardinality(pushed') <= Cardinality(pushed) + 1
    BY <1>b, <2>1, <2>2
  <2>4. Cardinality(pushed') \in Nat
    BY <2>3, FS_CardinalityType
  <2>5. r \in Claimants
    BY <1>13 DEF PushJob, Claimants, At
  <2>6. CASE Goto(r, "announce") /\ faults' = faults
    <3>1. Claimants' = Claimants \ {r}
      BY <1>a, <2>6, Moves DEF Claimants, At, Moved
    <3>2. IsFiniteSet(Claimants') /\ Cardinality(Claimants') = Cardinality(Claimants) - 1
      BY <1>b, <2>5, <3>1, FS_RemoveElement
    <3>3. QED
      BY <1>b, <2>2, <2>3, <2>4, <2>6, <3>2 DEF JobsCounted
  <2>7. CASE Goto(r, "revert") /\ faults' = faults + 1
    <3>1. Claimants' = Claimants
      BY <1>a, <2>5, <2>7, Moves DEF Claimants, At, Moved
    <3>2. QED
      BY <1>b, <2>2, <2>3, <2>4, <2>7, <3>1 DEF JobsCounted
  <2>8. QED
    BY <1>13, <2>6, <2>7 DEF PushJob
<1>14. ASSUME NEW r \in Requests, RevertClaim(r) PROVE JobsCounted'
  <2>1. r \in Claimants /\ pushed' = pushed /\ faults' = faults
    BY <1>14 DEF RevertClaim, Claimants, At
  <2>2. Claimants' = Claimants \ {r}
    BY <1>14, <1>a, Moves DEF RevertClaim, Claimants, At, Moved
  <2>3. IsFiniteSet(Claimants') /\ Cardinality(Claimants') = Cardinality(Claimants) - 1
    BY <1>b, <2>1, <2>2, FS_RemoveElement
  <2>4. Free' <= Free + 1
    BY <1>b
  <2>5. QED
    BY <1>b, <2>1, <2>3, <2>4 DEF JobsCounted
<1>15. ASSUME NEW r \in Requests, Announce(r) PROVE JobsCounted'
  <2>1. pushed' = pushed /\ Claimants' \subseteq Claimants /\ faults' >= faults
    BY <1>15, <1>a, <1>b, Moves DEF Announce, Claimants, At, Moved
  <2>2. Free' <= Free
    BY <1>15, <1>a DEF Announce, Free, StoreOK
  <2>3. QED
    BY <1>a, <2>1, <2>2, CountKept
<1>16. ASSUME NEW r \in Requests, ReadForDelete(r) PROVE JobsCounted'
  <2>1. pushed' = pushed /\ Claimants' \subseteq Claimants /\ faults' >= faults
    BY <1>16, <1>a, <1>b, Moves DEF ReadForDelete, Claimants, At, Moved
  <2>2. Free' <= Free
    BY <1>16, <1>a DEF ReadForDelete, Free, StoreOK
  <2>3. QED
    BY <1>a, <2>1, <2>2, CountKept
<1>17. ASSUME NEW r \in Requests, DeleteRow(r) PROVE JobsCounted'
  <2>1. pushed' = pushed /\ Claimants' \subseteq Claimants /\ faults' >= faults
    BY <1>17, <1>a, <1>b, Moves DEF DeleteRow, Claimants, At, Moved
  <2>2. Free' <= Free
    BY <1>17, <1>a DEF DeleteRow, Free, StoreOK
  <2>3. QED
    BY <1>a, <2>1, <2>2, CountKept
<1>18. ASSUME NEW r \in Requests, ReadForCleanup(r) PROVE JobsCounted'
  <2>1. pushed' = pushed /\ Claimants' \subseteq Claimants /\ faults' >= faults
    BY <1>18, <1>a, <1>b, Moves DEF ReadForCleanup, Claimants, At, Moved
  <2>2. Free' <= Free
    BY <1>18, <1>a DEF ReadForCleanup, Free, StoreOK
  <2>3. QED
    BY <1>a, <2>1, <2>2, CountKept
<1>19. ASSUME NEW r \in Requests, DeleteStale(r) PROVE JobsCounted'
  <2>1. pushed' = pushed /\ Claimants' \subseteq Claimants /\ faults' >= faults
    BY <1>19, <1>a, <1>b, Moves DEF DeleteStale, Claimants, At, Moved
  <2>2. Free' <= Free
    BY <1>19, <1>a DEF DeleteStale, Free, StoreOK
  <2>3. QED
    BY <1>a, <2>1, <2>2, CountKept
<1>20. ASSUME NEW r \in Requests, DeleteObject(r) PROVE JobsCounted'
  <2>1. pushed' = pushed /\ Claimants' \subseteq Claimants /\ faults' >= faults
    BY <1>20, <1>a, <1>b, Moves DEF DeleteObject, Claimants, At, Moved
  <2>2. Free' <= Free
    BY <1>20, <1>a DEF DeleteObject, Free, StoreOK
  <2>3. QED
    BY <1>a, <2>1, <2>2, CountKept
<1>21. ASSUME NEW j \in jobs, NEW status \in {"READY", "FAILED"}, Settle(j, status) PROVE JobsCounted'
  <2>1. pushed' = pushed /\ Claimants' \subseteq Claimants /\ faults' >= faults
    BY <1>21, <1>a, <1>b, Moves DEF Settle, Claimants, At, Moved
  <2>2. Free' <= Free
    BY <1>21, <1>a DEF Settle, Free, StoreOK
  <2>3. QED
    BY <1>a, <2>1, <2>2, CountKept
<1>22. QED
  BY <1>1, <1>2, <1>3, <1>4, <1>5, <1>6, <1>7, <1>8, <1>9, <1>10, <1>11, <1>12, <1>13, <1>14, <1>15, <1>16, <1>17, <1>18, <1>19, <1>20, <1>21 DEF UploadNext

\* A movie gets one job, and one more for each failed call: the duplicates of a
\* request find the transition claimed.
THEOREM OneJobOnly == UploadSpec => []OneJob
<1>1. JobsCounted /\ UNCHANGED uploadVars => JobsCounted'
  BY DEF uploadVars, JobsCounted, Claimants, Free, At
<1>2. UploadInv /\ UploadInv' /\ JobsCounted /\ [UploadNext]_uploadVars => JobsCounted'
  BY NextCount, <1>1
<1>3. UploadInv /\ JobsCounted => OneJob
  <2> SUFFICES ASSUME UploadInv, JobsCounted PROVE OneJob
    OBVIOUS
  <2>1. /\ Cardinality(pushed) \in Nat /\ Cardinality(Claimants) \in Nat
        /\ faults \in Nat /\ Free \in {0, 1}
    BY UploadAssumption, FS_CardinalityType DEF JobsCounted, UploadInv, UploadTypeOK, StoreOK, Free
  <2>2. QED
    BY <2>1 DEF JobsCounted, OneJob
<1>4. QED
  BY InitCount, UploadInvariance, <1>2, <1>3, PTL DEF UploadSpec
=============================================================================
