----------------------------- MODULE JobLedger -----------------------------
(***************************************************************************)
(* What the queue promises about an encode job, with no list, set, script  *)
(* or claim in sight: a job that was sent is in one place at a time, and   *)
(* leaves the places only by being settled.  A job whose removed claim was *)
(* put back (expireProcessingJob) is "loose": nothing more is promised.    *)
(***************************************************************************)
EXTENDS Naturals

CONSTANTS Jobs

VARIABLE place

Places == {"unsent", "queued", "waiting", "held", "settled", "loose"}

LedgerTypeOK == place \in [Jobs -> Places]

LedgerInit == place \in [Jobs -> {"unsent", "waiting"}]

Move(j, from, to) == place[j] \in from /\ place' = [place EXCEPT ![j] = to]

Send(j) == Move(j, {"unsent"}, "queued")
Take(j) == Move(j, {"queued"}, "held")
Refuse(j) == Move(j, {"queued"}, "settled")
HandBack(j) == Move(j, {"held"}, "queued")
Postpone(j) == Move(j, {"held"}, "waiting")
Settle(j) == Move(j, {"held"}, "settled")
Loosen(j) == Move(j, Places \ {"unsent"}, "loose")

\* Several waiting jobs come due in one step; those of Bad are refused.
ComeDue(Due, Bad) ==
  /\ \A j \in Due : place[j] = "waiting"
  /\ place' = [j \in Jobs |-> IF j \notin Due THEN place[j]
                              ELSE IF j \in Bad THEN "settled" ELSE "queued"]

LedgerNext ==
  \/ \E j \in Jobs : \/ Send(j) \/ Take(j) \/ Refuse(j) \/ HandBack(j)
                     \/ Postpone(j) \/ Settle(j) \/ Loosen(j)
  \/ \E Due, Bad \in SUBSET Jobs : ComeDue(Due, Bad)

LedgerSpec == LedgerInit /\ [][LedgerNext]_place
=============================================================================
