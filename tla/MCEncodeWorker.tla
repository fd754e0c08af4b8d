--------------------------- MODULE MCEncodeWorker ---------------------------
(* Two worker processes; one movie, with one upload or with two.           *)
EXTENDS EncodeWorker, TLC

CONSTANTS v1, k1, k2, p1, p2, c1, c2, c3, c4

J1 == [movieId |-> v1, s3Key |-> k1, createdAt |-> 1]
J2 == [movieId |-> v1, s3Key |-> k2, createdAt |-> 2]
BothJobs == {J1, J2}

\* TwoJobs: the reply to the LPUSH of J1 was lost, the user uploaded again.
OneJob == <<J1>>
TwoJobs == <<J1, J2>>

NoBudget == [what \in Bounds |-> 0]
With(backlog, bounds, misfortunes, mayReject) ==
  [backlog |-> backlog, bounds |-> bounds, left |-> bounds,
   misfortunes |-> misfortunes, mayReject |-> mayReject]

\* Two different ones of a fault, a stall and a SIGTERM.
Adversity ==
  {With(OneJob, [NoBudget EXCEPT ![x] = 1, ![y] = 1], {}, FALSE) :
     <<x, y>> \in {<<"fault", "stall">>, <<"fault", "sigterm">>, <<"stall", "sigterm">>}}
Crashes ==
  {With(OneJob, [NoBudget EXCEPT !.crash = 2], {"transient", "permanent", "nospace"}, FALSE)}
\* Two shutdowns; a deletion under a backend that may refuse; two uploads.
Shutdowns == With(OneJob, [NoBudget EXCEPT !.sigterm = 2], {}, FALSE)
Deletion == With(OneJob, [NoBudget EXCEPT !.delete = 1], {"transient", "permanent"}, TRUE)
TwoUploads == With(TwoJobs, NoBudget, {"transient", "permanent"}, FALSE)
ThreeScenarios == {Shutdowns, Deletion, TwoUploads}
CrashAndRetry == {With(OneJob, [NoBudget EXCEPT !.crash = 1], {"transient"}, FALSE)}
CrashAndFailure == {With(OneJob, [NoBudget EXCEPT !.crash = 1], {"permanent"}, FALSE)}
OneStall == {With(OneJob, [NoBudget EXCEPT !.stall = 1], {}, FALSE)}

Hardships == Adversity \cup Crashes

ClaimSymmetry == Permutations(ClaimIds)
=============================================================================
