-------------------------- MODULE CalmWorkerProofs --------------------------
(***************************************************************************)
(* Theorems of EncodeWorker about scenarios in which no call fails and no  *)
(* process stalls or crashes, for any processes, movies, uploads, claims,  *)
(* misfortunes and, but where a theorem says otherwise, any shutdowns and  *)
(* deletions.                                                              *)
(***************************************************************************)
EXTENDS EncodeWorkerProofs

\* What the theorems suppose of a scenario; the uploads have keys of their own,
\* and every message is one the scripts accept.
Calm ==
  /\ \A what \in {"fault", "stall", "crash"} : scenario.bounds[what] = 0
  /\ \A j, k \in sent : j.s3Key = k.s3Key => j = k
  /\ sent \cap Malformed = {}

Noted(m) == CompletionKey(JobOf(m)) \in completion
\* A claim that only a reaper has still to look at: its output is committed.
Closed(m) == Present(m) => Noted(m)

\* Where a poll loop is after the commit.
Closing == {"toDelete", "delete", "succeed", "succeedCallback", "discard", "unwanted",
            "failProgress", "failCallback", "recommit", "finish", "resolve"}
\* Where one is that gave its claim up by itself, or has just seen it gone.
Parting == {"handBack", "handedBack", "postponed", "resolve"}
Done == {"completed", "failed"}

\* The claim m of a poll loop, whose process's handler is in phase h.
InHand(l, h, m) ==
  /\ Present(m) => (Noted(m) <=> l.committed)
  /\ l.committed => l.at \in Closing
  /\ ~l.relinquished => lease[m] # "stale"
  /\ ~l.relinquished /\ (l.committed \/ l.at \notin Parting) => lease[m] = "live"
  /\ l.relinquished /\ ~l.committed => ~Present(m) \/ (l.at = "handBack" /\ h # "leaving")
  /\ l.relinquished /\ h # "leaving" => ~l.committed /\ l.at \in Parting
  /\ h = "leaving" => l.relinquished
  /\ l.at \in {"handBack", "handedBack", "reconcile", "recommit", "finish"} \/ l.mode \in {"loop", "prior"} => l.relinquished
  /\ l.at = "postponed" => ~Present(m)
  /\ l.at = "retry" => claims[m].retryCount < MaxRetry
  /\ l.at = "resolve" /\ ~l.relinquished => l.result \in Done \/ ~Present(m)

Lawful(l, h) ==
  /\ l.claim = None => (h = "leaving" => l.at = "idle")
  /\ l.claim # None => InHand(l, h, l.claim)

\* A reaper has to do with committed claims only.
Reaping(l) ==
  /\ \A m \in l.todo : Closed(m)
  /\ l.claim # None => Closed(l.claim)
  /\ l.at \in {"guess", "release"} => ~Present(l.claim)

\* Every claim that is there is some poll loop's, or committed; every record of
\* a completion is of a claim that is there.
Books ==
  /\ revived = {}
  /\ \A m \in ClaimIds : lease[m] = "stale" => Noted(m)
  /\ \A m \in ClaimIds : Present(m) => Noted(m) \/ \E p \in Processes : task[Loop(p)].claim = m
  /\ \A k \in completion : \E m \in ClaimIds : Present(m) /\ CompletionKey(JobOf(m)) = k

\* A reaper has nothing to do with a claim its poll loop has not given up.
Aloof ==
  \A p \in Processes, q \in Reapers : task[Loop(p)].claim # None /\ ~task[Loop(p)].relinquished =>
    task[Reaper(q)].claim # task[Loop(p)].claim /\ task[Loop(p)].claim \notin task[Reaper(q)].todo

InOrder ==
  /\ Books
  /\ \A p \in Processes : Lawful(task[Loop(p)], handler[p])
  /\ \A q \in Reapers : Reaping(task[Reaper(q)])
  /\ Aloof

Quiet == WorkerInv /\ Roles /\ Calm /\ InOrder

-----------------------------------------------------------------------------
\* No call fails.
LEMMA CalmCalls ==
  ASSUME WorkerInv, Calm
  PROVE  ~Spend("fault") /\ ~Spend("stall") /\ ~Spend("crash")
<1> SUFFICES ASSUME NEW what \in {"fault", "stall", "crash"}, Spend(what) PROVE FALSE
  OBVIOUS
<1>1. scenario.left[what] \in Nat /\ scenario.left[what] <= scenario.bounds[what]
  BY DEF WorkerInv, BoundsTypeOK, Scenario, Bounds
<1>2. QED
  BY <1>1 DEF Calm, Spend

LEMMA LeaseTyped ==
  ASSUME WorkerInv
  PROVE  /\ lease \in [ClaimIds -> {"none", "live", "stale"}]
         /\ \A m \in ClaimIds : Present(m) => Issued(m)
         /\ \A t \in Tasks : task[t] \in Fit /\ task[t] \in Local
BY DEF WorkerInv, Shared, QueueInv, QueueTypeOK, Known, Fit

\* Two claims that are there are on different uploads.
LEMMA ClaimsDiffer ==
  ASSUME Quiet, NEW m \in ClaimIds, NEW n \in ClaimIds, Present(m), Present(n),
         CompletionKey(JobOf(m)) = CompletionKey(JobOf(n))
  PROVE  m = n
<1>1. WorkerInv /\ revived = {}
  BY DEF Quiet, InOrder, Books
<1>2. Issued(m) /\ Issued(n)
  BY <1>1, LeaseTyped
<1>3. JobOf(m) \in Jobs /\ JobOf(m) \in sent /\ JobOf(n) \in sent
  BY <1>1, <1>2, IssuedJob
<1>4. JobOf(m) = JobOf(n)
  BY <1>3 DEF Quiet, Calm, CompletionKey
<1>5. AtMostOnce(JobOf(m))
  BY <1>1, <1>3 DEF WorkerInv, Shared, QueueInv, OnePlace, Loose
<1>6. QED
  BY <1>4, <1>5 DEF AtMostOnce, HeldBy

\* What a step does with the claim m: nothing, move its job on, commit it, finish
\* it, or let its lease run out.
Moves(m) == /\ lease' = [lease EXCEPT ![m] = "none"] /\ completion' = completion
            /\ Present(m) => ~Noted(m)
Commits(m) == /\ Present(m) /\ lease' = [lease EXCEPT ![m] = "live"]
              /\ completion' = completion \cup {CompletionKey(JobOf(m))}
Finishes(m) == /\ Present(m) /\ lease' = [lease EXCEPT ![m] = "none"]
               /\ completion' = completion \ {CompletionKey(JobOf(m))}
Expires(m) == /\ Present(m) /\ Noted(m)
              /\ lease' = [lease EXCEPT ![m] = "stale"] /\ completion' = completion
Effect(m) ==
  /\ UNCHANGED <<claims, revived>>
  /\ UNCHANGED <<lease, completion>> \/ Moves(m) \/ Commits(m) \/ Finishes(m) \/ Expires(m)

LEMMA EffectApart ==
  ASSUME Quiet, NEW m \in ClaimIds, Effect(m)
  PROVE  /\ \A n \in ClaimIds \ {m} : lease'[n] = lease[n] /\ (Present(n) => (Noted(n)' <=> Noted(n)))
         /\ \A n \in ClaimIds : (Closed(n) => Closed(n)') /\ (~Present(n) => ~Present(n)')
         /\ \A n \in ClaimIds : lease'[n] = "stale" => Noted(n)'
         /\ \A k \in completion' : \E n \in ClaimIds : Present(n)' /\ CompletionKey(JobOf(n))' = k
         /\ revived' = {}
<1>1. /\ lease \in [ClaimIds -> {"none", "live", "stale"}] /\ revived = {}
      /\ \A n \in ClaimIds : lease[n] = "stale" => Noted(n)
      /\ \A k \in completion : \E n \in ClaimIds : Present(n) /\ CompletionKey(JobOf(n)) = k
  BY LeaseTyped DEF Quiet, InOrder, Books
<1>2. revived' = {} /\ \A n : JobOf(n)' = JobOf(n) /\ CompletionKey(JobOf(n))' = CompletionKey(JobOf(n))
  BY <1>1 DEF Effect, JobOf, CompletionKey
<1>3. \A n \in ClaimIds : /\ n # m => lease'[n] = lease[n]
                          /\ lease[n] = "none" => lease'[n] = "none"
  BY <1>1 DEF Effect, Moves, Commits, Finishes, Expires, Present
<1>4. ASSUME NEW n \in ClaimIds \ {m}, Present(n) PROVE Noted(n)' <=> Noted(n)
  <2>1. CompletionKey(JobOf(n)) = CompletionKey(JobOf(m)) => ~Present(m)
    BY <1>4, ClaimsDiffer
  <2>2. QED
    BY <1>2, <2>1 DEF Effect, Moves, Commits, Finishes, Expires, Noted
<1>5. Closed(m) => Closed(m)'
  BY <1>1, <1>2 DEF Effect, Moves, Commits, Finishes, Expires, Noted, Present, Closed
<1>6. \A n \in ClaimIds : Closed(n) => Closed(n)'
  BY <1>3, <1>4, <1>5 DEF Closed, Present
<1>7. lease'[m] = "stale" => Noted(m)'
  BY <1>1, <1>2 DEF Effect, Moves, Commits, Finishes, Expires, Noted, Present
<1>8. \A n \in ClaimIds : lease'[n] = "stale" => Noted(n)'
  BY <1>1, <1>3, <1>4, <1>7 DEF Present
<1>9. ASSUME NEW k \in completion' PROVE \E n \in ClaimIds : Present(n)' /\ CompletionKey(JobOf(n))' = k
  <2>1. CASE k \in completion /\ k # CompletionKey(JobOf(m))
    <3>1. PICK n \in ClaimIds : Present(n) /\ CompletionKey(JobOf(n)) = k
      BY <1>1, <2>1
    <3>2. QED
      BY <1>2, <1>3, <2>1, <3>1 DEF Present
  <2>2. CASE k = CompletionKey(JobOf(m))
    <3>1. ~Moves(m) \/ ~Present(m)
      BY <1>9, <2>2 DEF Moves, Noted
    <3>2. CASE UNCHANGED <<lease, completion>> \/ (Moves(m) /\ ~Present(m))
      <4>1. \A n \in ClaimIds : Present(n)' <=> Present(n)
        BY <1>1, <3>2 DEF Moves, Present
      <4>2. k \in completion
        BY <1>9, <3>2 DEF Moves
      <4>3. QED
        BY <1>1, <1>2, <4>1, <4>2
    <3>3. CASE Commits(m) \/ Expires(m)
      BY <1>1, <1>2, <2>2, <3>3 DEF Commits, Expires, Present
    <3>4. CASE Finishes(m)
      BY <1>9, <2>2, <3>4 DEF Finishes
    <3>5. QED
      BY <3>1, <3>2, <3>3, <3>4 DEF Effect
  <2>3. QED
    BY <1>9, <2>1, <2>2 DEF Effect, Moves, Commits, Finishes, Expires
<1>10. QED
  BY <1>2, <1>3, <1>4, <1>6, <1>8, <1>9 DEF Present

-----------------------------------------------------------------------------
\* What is known of a claim holds on when the claim and its record do not change.
LEMMA SameHand ==
  ASSUME NEW l, NEW h, NEW g, NEW m \in ClaimIds, InHand(l, h, m), g = "leaving" <=> h = "leaving",
         lease'[m] = lease[m], claims' = claims, Present(m) => (Noted(m)' <=> Noted(m))
  PROVE  InHand(l, g, m)'
BY DEF InHand, Present

\* A loop's claim is an issued one.
LEMMA LoopsClaim ==
  ASSUME Quiet, NEW p \in Processes
  PROVE  /\ Loop(p) \in Tasks /\ task[Loop(p)] \in Fit /\ task[Loop(p)] \in Local
         /\ task[Loop(p)].claim # None => task[Loop(p)].claim \in ClaimIds /\ Issued(task[Loop(p)].claim)
         /\ task[Loop(p)].claim = None => task[Loop(p)].at \in {"idle", "poll", "reap"}
         /\ task[Loop(p)].claim # None => task[Loop(p)].at \notin {"idle", "poll", "reap"} /\ InHand(task[Loop(p)], handler[p], task[Loop(p)].claim)
         /\ Lawful(task[Loop(p)], handler[p])
<1>1. Loop(p) \in Tasks /\ WorkerInv /\ Roles /\ Lawful(task[Loop(p)], handler[p])
  BY DEF Tasks, Quiet, InOrder
<1>2. task[Loop(p)] \in Fit /\ task[Loop(p)] \in Local
  BY <1>1, LeaseTyped
<1>3. task[Loop(p)].claim # None => task[Loop(p)].claim \in ClaimIds /\ Issued(task[Loop(p)].claim)
  BY <1>1, ClaimIsOfTask
<1>4. task[Loop(p)].at \in {"idle", "poll", "reap"} => task[Loop(p)].claim = None
  BY <1>1 DEF Roles
<1>5. task[Loop(p)].claim = None => task[Loop(p)].at \in {"idle", "poll", "reap"}
  BY <1>2, WorkerAssumption DEF Fit
<1>6. QED
  BY <1>1, <1>2, <1>3, <1>4, <1>5 DEF Lawful

\* A step of a poll loop with its claim.
LEMMA LoopOrder ==
  ASSUME Quiet, NEW p \in Processes, NEW m \in ClaimIds, task[Loop(p)].claim = m, Effect(m),
         NEW l, Put(Loop(p), l), l.claim \in {None, m}, Lawful(l, handler[p])',
         \A q \in Processes \ {p} : handler'[q] = handler[q],
         task[Loop(p)].relinquished => l.relinquished \/ l.claim = None,
         l.claim = None => Closed(m)'
  PROVE  InOrder'
<1> DEFINE t == Loop(p)
<1>1. t \in Tasks /\ WorkerInv /\ Roles /\ InOrder
  BY DEF Tasks, Quiet
<1>2. \A u \in Tasks : task'[u] = IF u = t THEN l ELSE task[u]
  BY <1>1 DEF Put, WorkerInv
<1>3. \A q \in Processes : Loop(q) \in Tasks /\ (q # p => Loop(q) # t)
  BY DEF Tasks, Loop
<1>4. \A q \in Reapers : Reaper(q) \in Tasks /\ Reaper(q) # t
  BY LoopIsNoReaper DEF Tasks
<1>5. task'[t] = l /\ (\A q \in Processes \ {p} : task'[Loop(q)] = task[Loop(q)])
      /\ \A q \in Reapers : task'[Reaper(q)] = task[Reaper(q)]
  BY <1>1, <1>2, <1>3, <1>4
<1>6. \A q \in Processes \ {p} : task[Loop(q)].claim # m
  BY <1>1, WorkerAssumption DEF Roles
<1>7. /\ \A n \in ClaimIds \ {m} : lease'[n] = lease[n] /\ (Present(n) => (Noted(n)' <=> Noted(n)))
      /\ \A n \in ClaimIds : (Closed(n) => Closed(n)') /\ (~Present(n) => ~Present(n)')
      /\ \A n \in ClaimIds : lease'[n] = "stale" => Noted(n)'
      /\ \A k \in completion' : \E n \in ClaimIds : Present(n)' /\ CompletionKey(JobOf(n))' = k
      /\ revived' = {}
  BY EffectApart
<1>8. ASSUME NEW n \in ClaimIds, Present(n)' PROVE Noted(n)' \/ \E q \in Processes : task'[Loop(q)].claim = n
  <2>1. CASE n = m
    BY <1>5, <1>8, <2>1 DEF Closed
  <2>2. CASE n # m
    <3>1. Present(n) /\ (Noted(n)' <=> Noted(n))
      BY <1>7, <1>8, <2>2
    <3>2. CASE Noted(n)
      BY <3>1, <3>2
    <3>3. CASE ~Noted(n)
      <4>1. PICK q \in Processes : task[Loop(q)].claim = n
        BY <1>1, <3>1, <3>3 DEF InOrder, Books
      <4>2. QED
        BY <1>5, <2>2, <4>1
    <3>4. QED
      BY <3>2, <3>3
  <2>3. QED
    BY <2>1, <2>2
<1>9. Books'
  BY <1>7, <1>8 DEF Books
<1>10. ASSUME NEW q \in Processes PROVE Lawful(task[Loop(q)], handler[q])'
  <2>1. CASE q = p
    BY <1>5, <2>1 DEF Lawful, InHand
  <2>2. CASE q # p
    <3>1. task'[Loop(q)] = task[Loop(q)] /\ handler'[q] = handler[q]
      BY <1>5, <2>2
    <3>2. Lawful(task[Loop(q)], handler[q])
      BY <1>1 DEF InOrder
    <3>3. CASE task[Loop(q)].claim = None
      BY <3>1, <3>2, <3>3 DEF Lawful
    <3>4. CASE task[Loop(q)].claim # None
      <4>1. PICK n : n = task[Loop(q)].claim
        OBVIOUS
      <4>2. n \in ClaimIds \ {m}
        BY <1>6, <2>2, <3>4, <4>1, LoopsClaim
      <4>3. PICK k, h : k = task[Loop(q)] /\ h = handler[q]
        OBVIOUS
      <4>4. InHand(k, h, n)
        BY <3>2, <3>4, <4>1, <4>3 DEF Lawful
      <4>5. claims' = claims
        BY DEF Effect
      <4>6. InHand(k, h, n)'
        BY <1>7, <4>2, <4>4, <4>5, SameHand
      <4>7. QED
        BY <3>1, <3>4, <4>1, <4>3, <4>6 DEF Lawful
    <3>5. QED
      BY <3>3, <3>4
  <2>3. QED
    BY <2>1, <2>2
<1>11. ASSUME NEW q \in Reapers PROVE Reaping(task[Reaper(q)])'
  <2>1. Reaping(task[Reaper(q)]) /\ task[Reaper(q)] \in Fit /\ task[Reaper(q)] \in Local
    BY <1>1, <1>4, LeaseTyped DEF InOrder
  <2>2. task'[Reaper(q)] = task[Reaper(q)]
    BY <1>5
  <2>3. QED
    BY <1>7, <2>1, <2>2 DEF Reaping, Fit, Local
<1>12. Aloof'
  <2>1. SUFFICES ASSUME NEW q \in Processes, NEW r \in Reapers, task'[Loop(q)].claim # None, ~task'[Loop(q)].relinquished
                 PROVE  task'[Reaper(r)].claim # task'[Loop(q)].claim /\ task'[Loop(q)].claim \notin task'[Reaper(r)].todo
    BY DEF Aloof
  <2>2. task[Loop(q)].claim = task'[Loop(q)].claim /\ ~task[Loop(q)].relinquished
    BY <1>5, <2>1
  <2>3. QED
    BY <1>1, <1>5, <2>1, <2>2 DEF InOrder, Aloof
<1>13. QED
  BY <1>9, <1>10, <1>11, <1>12 DEF InOrder

\* A step of another task, or of no task, that leaves the loops where they are.
LEMMA OthersOrder ==
  ASSUME Quiet, NEW m \in ClaimIds, Effect(m), UNCHANGED handler,
         \A q \in Processes : task'[Loop(q)] = task[Loop(q)],
         \A q \in Processes : task[Loop(q)].claim = m =>
           UNCHANGED <<lease, completion>> \/ (task[Loop(q)].relinquished /\ ~Present(m)'),
         \A q \in Reapers : Reaping(task[Reaper(q)])',
         Aloof'
  PROVE  InOrder'
<1>1. InOrder /\ claims' = claims
  BY DEF Quiet, Effect
<1>2. /\ \A n \in ClaimIds \ {m} : lease'[n] = lease[n] /\ (Present(n) => (Noted(n)' <=> Noted(n)))
      /\ \A n \in ClaimIds : (Closed(n) => Closed(n)') /\ (~Present(n) => ~Present(n)')
      /\ \A n \in ClaimIds : lease'[n] = "stale" => Noted(n)'
      /\ \A k \in completion' : \E n \in ClaimIds : Present(n)' /\ CompletionKey(JobOf(n))' = k
      /\ revived' = {}
  BY EffectApart
<1>3. \A n \in ClaimIds : Present(n)' => Noted(n)' \/ \E q \in Processes : task'[Loop(q)].claim = n
  BY <1>1, <1>2 DEF InOrder, Books, Closed
<1>4. Books'
  BY <1>2, <1>3 DEF Books
<1>5. ASSUME NEW q \in Processes PROVE Lawful(task[Loop(q)], handler[q])'
  <2>1. PICK k, h : k = task[Loop(q)] /\ h = handler[q]
    OBVIOUS
  <2>2. k = task'[Loop(q)] /\ h = handler'[q] /\ Lawful(k, h)
    BY <1>1, <2>1 DEF InOrder
  <2>3. CASE k.claim = None
    BY <2>2, <2>3 DEF Lawful
  <2>4. CASE k.claim # None
    <3>1. PICK n : n = k.claim
      OBVIOUS
    <3>2. n \in ClaimIds /\ InHand(k, h, n)
      BY <2>1, <2>2, <2>4, <3>1, LoopsClaim DEF Lawful
    <3>3. CASE n # m
      <4>1. InHand(k, h, n)'
        BY <1>1, <1>2, <3>2, <3>3, SameHand
      <4>2. QED
        BY <2>2, <2>4, <3>1, <4>1 DEF Lawful
    <3>4. CASE UNCHANGED <<lease, completion>>
      <4>1. InHand(k, h, n)'
        BY <1>1, <3>2, <3>4 DEF InHand, Present, Noted, JobOf, CompletionKey
      <4>2. QED
        BY <2>2, <2>4, <3>1, <4>1 DEF Lawful
    <3>5. CASE n = m /\ k.relinquished /\ ~Present(m)'
      <4>1. InHand(k, h, n)'
        BY <1>1, <3>2, <3>5 DEF InHand
      <4>2. QED
        BY <2>2, <2>4, <3>1, <4>1 DEF Lawful
    <3>6. QED
      BY <2>1, <3>1, <3>3, <3>4, <3>5
  <2>5. QED
    BY <2>3, <2>4
<1>6. QED
  BY <1>4, <1>5 DEF InOrder

\* A reaper that has not to do with the claims their loops have not given up.
Spares(l) ==
  \A p \in Processes : task[Loop(p)].claim # None /\ ~task[Loop(p)].relinquished =>
    l.claim # task[Loop(p)].claim /\ task[Loop(p)].claim \notin l.todo

\* A step that does nothing with the claims.
LEMMA StillOrder ==
  ASSUME Quiet, UNCHANGED <<lease, completion, claims, revived>>,
         \A q \in Processes : /\ task'[Loop(q)].claim = task[Loop(q)].claim
                              /\ task[Loop(q)].claim # None /\ task[Loop(q)].relinquished => task'[Loop(q)].relinquished
                              /\ \/ Lawful(task[Loop(q)], handler[q])'
                                 \/ /\ task'[Loop(q)] = task[Loop(q)]
                                    /\ handler'[q] = "leaving" <=> handler[q] = "leaving",
         \A q \in Reapers : \/ task'[Reaper(q)] = task[Reaper(q)]
                            \/ \E l : task'[Reaper(q)] = l /\ Reaping(l) /\ Spares(l)
  PROVE  InOrder'
<1>1. InOrder
  BY DEF Quiet
<1>2. \A n : (Present(n)' <=> Present(n)) /\ (Noted(n)' <=> Noted(n)) /\ (Closed(n)' <=> Closed(n))
             /\ CompletionKey(JobOf(n))' = CompletionKey(JobOf(n))
  BY DEF Present, Noted, Closed, CompletionKey, JobOf
<1>3. Books'
  BY <1>1, <1>2 DEF InOrder, Books
<1>4. ASSUME NEW q \in Processes, task'[Loop(q)] = task[Loop(q)], handler'[q] = "leaving" <=> handler[q] = "leaving"
      PROVE  Lawful(task[Loop(q)], handler[q])'
  <2>1. Lawful(task[Loop(q)], handler[q])
    BY <1>1 DEF InOrder
  <2>2. QED
    BY <1>2, <1>4, <2>1 DEF Lawful, InHand
<1>5. ASSUME NEW q \in Reapers PROVE \E l : task'[Reaper(q)] = l /\ Reaping(l) /\ Spares(l)
  BY <1>1 DEF InOrder, Aloof, Spares
<1>6. \A q \in Reapers : Reaping(task[Reaper(q)])'
  BY <1>2, <1>5 DEF Reaping
<1>7. Aloof'
  BY <1>5 DEF Spares, Aloof
<1>8. QED
  BY <1>3, <1>4, <1>6, <1>7 DEF InOrder

\* A step of a reaper with its claim, which it finishes or leaves alone.
LEMMA ReaperOrder ==
  ASSUME Quiet, NEW p \in Reapers, NEW m \in ClaimIds, task[Reaper(p)].claim = m,
         NEW l, Put(Reaper(p), l), l.claim \in {None, m}, l.todo \subseteq task[Reaper(p)].todo,
         l.claim # None /\ l.at \in {"guess", "release"} => ~Present(m),
         l.claim = None => l.at \notin {"guess", "release"},
         Effect(m), UNCHANGED handler, UNCHANGED <<lease, completion>> \/ Finishes(m)
  PROVE  InOrder'
<1> DEFINE t == Reaper(p)
<1>1. t \in Tasks /\ WorkerInv /\ InOrder
  BY DEF Tasks, Quiet
<1>2. \A u \in Tasks : task'[u] = IF u = t THEN l ELSE task[u]
  BY <1>1 DEF Put, WorkerInv
<1>3. \A q \in Processes : task'[Loop(q)] = task[Loop(q)]
  BY <1>2, LoopIsNoReaper DEF Tasks
<1>4. \A q \in Reapers : task'[Reaper(q)] = IF q = p THEN l ELSE task[Reaper(q)]
  BY <1>2 DEF Tasks, Reaper
<1>5. \A n \in ClaimIds : (Closed(n) => Closed(n)') /\ (~Present(n) => ~Present(n)')
  BY EffectApart
<1>6. \A q \in Reapers : Reaping(task[Reaper(q)]) /\ task[Reaper(q)] \in Local /\ task[Reaper(q)] \in Fit
  BY <1>1, LeaseTyped DEF InOrder, Tasks
<1>7. ASSUME NEW q \in Reapers PROVE Reaping(task[Reaper(q)])'
  <2>1. CASE q = p
    <3>1. l = task'[Reaper(q)] /\ (\A n \in l.todo : Closed(n)') /\ (l.claim # None => Closed(m)')
      BY <1>4, <1>5, <1>6, <2>1 DEF Reaping, Local
    <3>2. QED
      BY <1>5, <2>1, <3>1 DEF Reaping
  <2>2. CASE q # p
    BY <1>4, <1>5, <1>6, <2>2 DEF Reaping, Local, Fit
  <2>3. QED
    BY <2>1, <2>2
<1>8. Aloof'
  BY <1>1, <1>3, <1>4 DEF InOrder, Aloof
<1>9. ASSUME NEW q \in Processes, task[Loop(q)].claim = m PROVE UNCHANGED <<lease, completion>> \/ (task[Loop(q)].relinquished /\ ~Present(m)')
  <2>1. task[Loop(q)].relinquished
    BY <1>1, <1>9, WorkerAssumption DEF InOrder, Aloof
  <2>2. Finishes(m) => ~Present(m)'
    BY LeaseTyped, <1>1 DEF Finishes, Present
  <2>3. QED
    BY <2>1, <2>2
<1>10. QED
  BY <1>3, <1>7, <1>8, <1>9, OthersOrder

-----------------------------------------------------------------------------
\* A poll loop goes on with its claim.
Stays(p, l) ==
  /\ l.claim = task[Loop(p)].claim
  /\ InHand(l, handler[p], task[Loop(p)].claim)
  /\ task[Loop(p)].relinquished => l.relinquished

LEMMA LoopStays ==
  ASSUME Quiet, NEW p \in Processes, task[Loop(p)].claim # None, NEW l, Put(Loop(p), l), Stays(p, l),
         UNCHANGED <<lease, completion, claims, revived, handler>>
  PROVE  InOrder'
<1>1. PICK m, h : m = task[Loop(p)].claim /\ h = handler[p]
  OBVIOUS
<1>2. m \in ClaimIds /\ m # None
  BY <1>1, LoopsClaim
<1>3. InHand(l, h, m) /\ l.claim = m /\ (task[Loop(p)].relinquished => l.relinquished)
  BY <1>1 DEF Stays
<1>4. InHand(l, h, m)'
  BY <1>2, <1>3 DEF InHand, Present, Noted, CompletionKey, JobOf
<1>5. Lawful(l, handler[p])'
  BY <1>1, <1>2, <1>3, <1>4 DEF Lawful
<1>6. Effect(m)
  BY DEF Effect
<1>7. QED
  BY <1>1, <1>2, <1>3, <1>5, <1>6, LoopOrder

\* The labels a loop at work goes to; the last three only once it is relinquished.
Onward == Labels \ ({"idle", "poll", "reap", "guess", "release", "requeue"} \cup Parting)
Owns(l) == l.at \notin {"idle", "poll", "reap"} \cup Parting

LEMMA HandGoes ==
  ASSUME Quiet, NEW p \in Processes, Owns(task[Loop(p)])
  PROVE  /\ task[Loop(p)].claim \in ClaimIds /\ task[Loop(p)].claim # None /\ task[Loop(p)] \in Local
         /\ InHand(task[Loop(p)], handler[p], task[Loop(p)].claim)
         /\ task[Loop(p)].relinquished <=> handler[p] = "leaving"
         /\ ~task[Loop(p)].relinquished => Present(task[Loop(p)].claim)
         /\ task[Loop(p)].relinquished /\ ~task[Loop(p)].committed => ~Present(task[Loop(p)].claim)
         /\ \A label \in Onward \ {"retry"} :
              (task[Loop(p)].committed => label \in Closing)
              /\ (label \in {"reconcile", "recommit", "finish"} => task[Loop(p)].relinquished)
              => /\ Stays(p, Go(Loop(p), label))
                 /\ \A mode : (mode \in {"loop", "prior"} => task[Loop(p)].relinquished)
                              => Stays(p, GoIn(Loop(p), label, mode))
         /\ \A result : task[Loop(p)].relinquished \/ result \in Done => Stays(p, Return(Loop(p), result))
         /\ \A mode \in {"encode", "catch"}, b \in BOOLEAN : ~task[Loop(p)].committed => Stays(p, RetryOrDeadLetter(Loop(p), mode, b))
         /\ \A mode \in {"body", "last"} : ~task[Loop(p)].committed /\ ~task[Loop(p)].relinquished => Stays(p, HandBack(Loop(p), mode))
         /\ \A kind : Stays(p, Caught(Loop(p), kind))
<1> DEFINE t == Loop(p)
           m == task[t].claim
<1>1. t \in Tasks /\ task[t] \in Fit /\ task[t] \in Local /\ task[t].at \notin {"idle", "poll", "reap"} \cup Parting
  BY LoopsClaim DEF Owns
<1>2. m \in ClaimIds /\ m # None /\ InHand(task[t], handler[p], m)
  BY <1>1, LoopsClaim
<1>3. (task[t].relinquished <=> handler[p] = "leaving") /\ task[t].relinquished \in BOOLEAN /\ task[t].committed \in BOOLEAN
  BY <1>1, <1>2 DEF InHand, Local
<1>4. (~task[t].relinquished => lease[m] = "live") /\ (task[t].relinquished /\ ~task[t].committed => ~Present(m))
  BY <1>1, <1>2 DEF InHand, Parting
<1>5. ~task[t].relinquished => Present(m)
  BY <1>4 DEF Present
<1>6. ASSUME NEW label \in Labels \ ({"idle", "poll", "reap"} \cup Parting), NEW l, l.at = label, l.claim = m,
             l.committed = task[t].committed, l.relinquished = task[t].relinquished,
             task[t].committed => label \in Closing,
             label \in {"reconcile", "recommit", "finish"} => task[t].relinquished,
             l.mode \in {"loop", "prior"} => task[t].relinquished,
             label = "retry" => claims[m].retryCount < MaxRetry
      PROVE  Stays(p, l)
  <2>1. InHand(l, handler[p], m)
    BY <1>1, <1>2, <1>3, <1>4, <1>6 DEF InHand, Parting
  <2>2. QED
    BY <1>6, <2>1 DEF Stays
<1>7. task[t].mode \in {"loop", "prior"} => task[t].relinquished
  BY <1>2 DEF InHand
<1>8. \A label \in Labels : \A mode :
        /\ Go(t, label).at = label /\ Go(t, label).claim = m /\ Go(t, label).committed = task[t].committed
        /\ Go(t, label).relinquished = task[t].relinquished /\ Go(t, label).mode = task[t].mode
        /\ GoIn(t, label, mode).at = label /\ GoIn(t, label, mode).claim = m /\ GoIn(t, label, mode).committed = task[t].committed
        /\ GoIn(t, label, mode).relinquished = task[t].relinquished /\ GoIn(t, label, mode).mode = mode
  BY <1>1 DEF Go, GoIn, Local
<1>9. Onward \subseteq Labels \ ({"idle", "poll", "reap"} \cup Parting)
  BY DEF Onward
<1>10. ASSUME NEW label \in Onward \ {"retry"}, task[t].committed => label \in Closing,
              label \in {"reconcile", "recommit", "finish"} => task[t].relinquished
       PROVE  /\ Stays(p, Go(t, label))
              /\ \A mode : (mode \in {"loop", "prior"} => task[t].relinquished) => Stays(p, GoIn(t, label, mode))
  BY <1>6, <1>7, <1>8, <1>9, <1>10
<1>11. ASSUME NEW result, task[t].relinquished \/ result \in Done PROVE Stays(p, Return(t, result))
  <2>1. PICK l : l = Return(t, result)
    OBVIOUS
  <2>2. l.at = "resolve" /\ l.result = result /\ l.claim = m /\ l.committed = task[t].committed
        /\ l.relinquished = task[t].relinquished /\ l.mode = task[t].mode
    BY <1>1, <2>1 DEF Return, Local
  <2>3. InHand(l, handler[p], m)
    BY <1>1, <1>2, <1>3, <1>4, <1>11, <2>2 DEF InHand, Parting, Closing
  <2>4. QED
    BY <2>1, <2>2, <2>3 DEF Stays
<1>12. ASSUME NEW mode \in {"encode", "catch"}, NEW b \in BOOLEAN, ~task[t].committed
       PROVE  Stays(p, RetryOrDeadLetter(t, mode, b))
  <2>1. {"retry", "dead"} \subseteq Onward
    BY DEF Onward, Labels, Parting
  <2>2. CASE b /\ claims[m].retryCount < MaxRetry
    <3>1. Stays(p, GoIn(t, "retry", mode))
      BY <1>6, <1>8, <1>9, <1>12, <2>1, <2>2
    <3>2. QED
      BY <2>2, <3>1 DEF RetryOrDeadLetter
  <2>3. CASE ~(b /\ claims[m].retryCount < MaxRetry)
    <3>1. Stays(p, GoIn(t, "dead", mode))
      BY <1>10, <1>12, <2>1
    <3>2. QED
      BY <2>3, <3>1 DEF RetryOrDeadLetter
  <2>4. QED
    BY <2>2, <2>3
<1>13. ASSUME NEW mode \in {"body", "last"}, ~task[t].committed, ~task[t].relinquished
       PROVE  Stays(p, HandBack(t, mode))
  <2>1. PICK l : l = HandBack(t, mode)
    OBVIOUS
  <2>2. l.at = "handBack" /\ l.claim = m /\ ~l.committed /\ l.relinquished /\ l.mode = mode
    BY <1>1, <1>13, <2>1 DEF HandBack, GoIn, Local
  <2>3. InHand(l, handler[p], m)
    BY <1>1, <1>2, <1>3, <1>4, <1>13, <2>2 DEF InHand, Parting
  <2>4. QED
    BY <2>1, <2>2, <2>3 DEF Stays
<1>14. ASSUME NEW kind PROVE Stays(p, Caught(t, kind))
  <2>1. {"succeed", "defer"} \subseteq Onward \ {"retry"} /\ "succeed" \in Closing
    BY DEF Onward, Labels, Parting, Closing
  <2>2. CASE task[t].relinquished
    BY <1>11, <2>2 DEF Caught
  <2>3. CASE ~task[t].relinquished /\ task[t].committed
    BY <1>10, <2>1, <2>3 DEF Caught
  <2>4. CASE ~task[t].relinquished /\ ~task[t].committed
    <3>1. Stays(p, HandBack(t, "last")) /\ Stays(p, GoIn(t, "defer", "last")) /\ \A b \in BOOLEAN : Stays(p, RetryOrDeadLetter(t, "catch", b))
      BY <1>10, <1>12, <1>13, <2>1, <2>4
    <3>2. QED
      BY <2>4, <3>1 DEF Caught
  <2>5. QED
    BY <1>3, <2>2, <2>3, <2>4
<1>15. QED
  BY <1>1, <1>2, <1>3, <1>4, <1>5, <1>10, <1>11, <1>12, <1>13, <1>14

\* The poll loop from the claim to the commit.
LEMMA BodyOrder ==
  ASSUME Quiet, NEW p \in Processes,
         \/ CheckCompletion(p) \/ Begin(p) \/ Inspect(p) \/ StartStage(p) \/ Download(p) \/ Encode(p)
         \/ Upload(p) \/ DeleteSource(p)
  PROVE  InOrder'
<1> DEFINE t == Loop(p)
           m == task[t].claim
<1>1. task[t].at \in {"claimed", "begin", "inspect", "toDownload", "download", "toEncode", "encode", "toUpload",
                      "upload", "toDelete", "delete"}
  BY DEF CheckCompletion, Begin, Inspect, StartStage, Download, Encode, Upload, DeleteSource, At
<1>2. Owns(task[t])
  BY <1>1 DEF Owns, Parting
<1>3. /\ m \in ClaimIds /\ m # None /\ task[t] \in Local
      /\ InHand(task[t], handler[p], m)
      /\ task[t].relinquished <=> handler[p] = "leaving"
      /\ ~task[t].relinquished => Present(m)
      /\ task[t].relinquished /\ ~task[t].committed => ~Present(m)
      /\ \A label \in Onward \ {"retry"} :
           (task[t].committed => label \in Closing)
           /\ (label \in {"reconcile", "recommit", "finish"} => task[t].relinquished)
           => /\ Stays(p, Go(t, label))
              /\ \A mode : (mode \in {"loop", "prior"} => task[t].relinquished) => Stays(p, GoIn(t, label, mode))
      /\ \A result : task[t].relinquished \/ result \in Done => Stays(p, Return(t, result))
      /\ \A mode \in {"encode", "catch"}, b \in BOOLEAN : ~task[t].committed => Stays(p, RetryOrDeadLetter(t, mode, b))
      /\ \A mode \in {"body", "last"} : ~task[t].committed /\ ~task[t].relinquished => Stays(p, HandBack(t, mode))
      /\ \A kind : Stays(p, Caught(t, kind))
  BY <1>2, HandGoes
<1>4. ~Spend("fault") /\ WorkerInv
  BY CalmCalls DEF Quiet
<1>5. ASSUME UNCHANGED <<lease, completion, claims, revived, handler>>, NEW l, Put(t, l), Stays(p, l) PROVE InOrder'
  BY <1>3, <1>5, LoopStays
<1>6. UNCHANGED <<lease, completion, claims, revived, handler>>
  BY DEF CheckCompletion, Begin, Inspect, StartStage, Download, Encode, Upload, DeleteSource, Report, Read, Call,
     Redis, Nothing, SetEncodeProgress, queueVars, redis, history
<1>7. {"begin", "inspect", "toDownload", "download", "toEncode", "encode", "toUpload", "upload", "commit", "delete",
       "succeed", "dead", "defer"} \subseteq Onward \ {"retry", "reconcile", "recommit", "finish"}
      /\ {"toDelete", "delete", "succeed"} \subseteq Closing
  BY DEF Onward, Labels, Parting, Closing
<1>8. task[t].at \notin {"toDelete", "delete"} => ~task[t].committed
  BY <1>1, <1>3 DEF InHand, Closing
<1> HIDE DEF t, m
<1>9. CASE CheckCompletion(p)
  <2>1. ~task[t].committed
    BY <1>8, <1>9 DEF CheckCompletion, At, t
  <2>2. CASE Noted(m)
    <3>1. task[t].relinquished /\ ~Present(m) /\ handler[p] = "leaving"
      BY <1>3, <2>1, <2>2 DEF InHand
    <3>2. PICK l : l = [GoIn(t, "succeed", "prior") EXCEPT !.committed = TRUE]
      OBVIOUS
    <3>3. l.at = "succeed" /\ l.mode = "prior" /\ l.committed /\ l.claim = m /\ l.relinquished
      BY <1>3, <3>1, <3>2 DEF GoIn, Local, m
    <3>4. Stays(p, l)
      BY <1>3, <1>7, <3>1, <3>3 DEF Stays, InHand, m, t
    <3>5. Put(t, l)
      BY <1>4, <1>9, <2>2, <3>2 DEF CheckCompletion, Read, Call, Noted, Job, t, m
    <3>6. QED
      BY <1>5, <1>6, <3>4, <3>5
  <2>3. CASE ~Noted(m)
    <3>1. Put(t, GoIn(t, "begin", "last"))
      BY <1>4, <1>9, <2>3 DEF CheckCompletion, Read, Call, Noted, Job, t, m
    <3>2. QED
      BY <1>3, <1>5, <1>6, <1>7, <2>1, <3>1
  <2>4. QED
    BY <2>2, <2>3
<1>10. CASE Begin(p)
  <2>1. ~task[t].committed
    BY <1>8, <1>10 DEF Begin, At, t
  <2>2. (task[t].relinquished /\ Put(t, Return(t, "relinquished"))) \/ Put(t, GoIn(t, "inspect", "body"))
    BY <1>4, <1>10 DEF Begin, Report, Call, t
  <2>3. QED
    BY <1>3, <1>5, <1>6, <1>7, <2>1, <2>2
<1>11. CASE Inspect(p)
  <2>1. ~task[t].committed
    BY <1>8, <1>11 DEF Inspect, At, t
  <2>2. \/ Put(t, Go(t, "toDownload")) \/ Put(t, GoIn(t, "dead", "body")) \/ Put(t, GoIn(t, "defer", "body"))
        \/ Put(t, Caught(t, "permanent"))
    BY <1>4, <1>11 DEF Inspect, Read, Call, t
  <2>3. QED
    BY <1>3, <1>5, <1>6, <1>7, <2>1, <2>2
<1>12. CASE StartStage(p)
  <2>1. \/ task[t].at \in {"toDownload", "toEncode", "toUpload"} /\ \E label \in {"download", "encode", "upload"} : Put(t, Go(t, label))
        \/ task[t].at = "toDelete" /\ Put(t, Go(t, "delete"))
    <3>1. task[t].at \in {"toDownload", "toEncode", "toUpload", "toDelete"}
      BY <1>12 DEF StartStage, t
    <3>2. QED
      BY <1>4, <1>12, <3>1 DEF StartStage, Report, Call, t
  <2>2. QED
    BY <1>3, <1>5, <1>6, <1>7, <1>8, <2>1
<1>13. CASE Download(p)
  <2>1. ~task[t].committed
    BY <1>8, <1>13 DEF Download, At, t
  <2>2. Put(t, Go(t, "toEncode")) \/ \E kind : Put(t, Caught(t, kind))
    BY <1>4, <1>13 DEF Download, Read, Call, t
  <2>3. QED
    BY <1>3, <1>5, <1>6, <1>7, <2>1, <2>2
<1>14. CASE Encode(p)
  <2>1. ~task[t].committed
    BY <1>8, <1>14 DEF Encode, At, t
  <2> DEFINE failure == [transient |-> RetryOrDeadLetter(t, "encode", TRUE),
                         permanent |-> GoIn(t, "dead", "body"),
                         nospace   |-> GoIn(t, "defer", "body")]
  <2>2. \/ task[t].relinquished /\ Put(t, Return(t, "relinquished"))
        \/ Put(t, Go(t, "toUpload"))
        \/ \E kind \in scenario.misfortunes : Put(t, failure[kind])
        \/ ~task[t].relinquished /\ Put(t, HandBack(t, "body"))
    BY <1>14 DEF Encode, t
  <2>3. CASE \E kind \in scenario.misfortunes : Put(t, failure[kind])
    <3>1. scenario.misfortunes \subseteq {"transient", "permanent", "nospace"}
      BY <1>4 DEF WorkerInv, BoundsTypeOK, Scenario
    <3>2. PICK kind \in {"transient", "permanent", "nospace"} : Put(t, failure[kind])
      BY <2>3, <3>1
    <3>3. \/ Put(t, RetryOrDeadLetter(t, "encode", TRUE)) \/ Put(t, GoIn(t, "dead", "body"))
          \/ Put(t, GoIn(t, "defer", "body"))
      <4>1. CASE kind = "transient"
        BY <3>2, <4>1
      <4>2. CASE kind = "permanent"
        BY <3>2, <4>2
      <4>3. CASE kind = "nospace"
        BY <3>2, <4>3
      <4>4. QED
        BY <4>1, <4>2, <4>3
    <3>4. QED
      BY <1>3, <1>5, <1>6, <1>7, <2>1, <3>3
  <2>4. QED
    BY <1>3, <1>5, <1>6, <1>7, <2>1, <2>2, <2>3
<1>15. CASE Upload(p)
  <2>1. ~task[t].committed
    BY <1>8, <1>15 DEF Upload, At, t
  <2>2. Put(t, Go(t, "commit")) \/ Put(t, Caught(t, "abort"))
    BY <1>4, <1>15 DEF Upload, Call, t
  <2>3. QED
    BY <1>3, <1>5, <1>6, <1>7, <2>1, <2>2
<1>16. CASE DeleteSource(p)
  <2>1. \/ Put(t, GoIn(t, "succeed", "main")) \/ Put(t, Caught(t, "abort"))
        \/ (task[t].relinquished /\ Put(t, Return(t, "relinquished")))
    BY <1>4, <1>16 DEF DeleteSource, Call, t
  <2>2. QED
    BY <1>3, <1>5, <1>6, <1>7, <2>1
<1>17. QED
  BY <1>9, <1>10, <1>11, <1>12, <1>13, <1>14, <1>15, <1>16

\* The commit, and what moves the job on.
LEMMA CommitOrder ==
  ASSUME Quiet, NEW p \in Processes, Commit(p) \/ Reconcile(p) \/ Recommit(p) \/ Postpone(p)
  PROVE  InOrder'
<1> DEFINE t == Loop(p)
<1> PICK m : m = task[t].claim
  OBVIOUS
<1>1. task[t].at \in {"commit", "reconcile", "recommit", "retry", "defer"}
  BY DEF Commit, Reconcile, Recommit, Postpone, At
<1>2. Owns(task[t])
  BY <1>1 DEF Owns, Parting
<1>3. /\ m \in ClaimIds /\ m # None /\ task[t] \in Local
      /\ InHand(task[t], handler[p], m)
      /\ task[t].relinquished <=> handler[p] = "leaving"
      /\ ~task[t].relinquished => Present(m)
      /\ task[t].relinquished /\ ~task[t].committed => ~Present(m)
      /\ \A label \in Onward \ {"retry"} :
           (task[t].committed => label \in Closing)
           /\ (label \in {"reconcile", "recommit", "finish"} => task[t].relinquished)
           => /\ Stays(p, Go(t, label))
              /\ \A mode : (mode \in {"loop", "prior"} => task[t].relinquished) => Stays(p, GoIn(t, label, mode))
      /\ \A result : task[t].relinquished \/ result \in Done => Stays(p, Return(t, result))
      /\ \A kind : Stays(p, Caught(t, kind))
  BY <1>2, HandGoes
<1>4. ~Spend("fault") /\ WorkerInv /\ Roles /\ Issued(m) /\ t \in Tasks
  <2>1. WorkerInv /\ Roles /\ Calm
    BY DEF Quiet
  <2>2. QED
    BY <1>3, <2>1, CalmCalls, LoopsClaim
<1>5. ASSUME UNCHANGED <<lease, completion, claims, revived, handler>>, NEW l, Put(t, l), Stays(p, l) PROVE InOrder'
  BY <1>3, <1>5, LoopStays
<1>6. UNCHANGED <<claims, revived, handler>>
  BY DEF Commit, Reconcile, Recommit, Postpone, IfHeld, Read, Call, Redis, Nothing, CommitProcessingJob,
     AddJobToRetryQueue, DeferJobForInfrastructure, queueVars, redis, history
<1>7. {"toDelete", "reconcile", "dead", "recommit"} \subseteq Onward \ {"retry"} /\ {"toDelete", "recommit"} \subseteq Closing
  BY DEF Onward, Labels, Parting, Closing
<1>8. task[t].at # "recommit" => ~task[t].committed
  BY <1>1, <1>3 DEF InHand, Closing
<1>9. ASSUME Effect(m), NEW l, Put(t, l), l.claim = m, InHand(l, handler[p], m)', task[t].relinquished => l.relinquished
      PROVE  InOrder'
  <2>1. Lawful(l, handler[p])'
    BY <1>3, <1>9 DEF Lawful
  <2>2. QED
    BY <1>3, <1>6, <1>9, <2>1, LoopOrder
<1>10. lease \in [ClaimIds -> {"none", "live", "stale"}]
  BY <1>4, LeaseTyped
<1> HIDE DEF t
<1>11. CASE Commit(p)
  <2>1. ~task[t].committed /\ task[t].at = "commit"
    BY <1>8, <1>11 DEF Commit, At, t
  <2>2. CASE Present(m)
    <3>1. PICK l : l = [Go(t, "toDelete") EXCEPT !.committed = TRUE]
      OBVIOUS
    <3>2. Put(t, l) /\ CommitProcessingJob(m)
      BY <1>4, <1>11, <2>2, <3>1 DEF Commit, Call, IfHeld, Redis, t
    <3>3. l.at = "toDelete" /\ l.claim = m /\ l.committed /\ l.relinquished = task[t].relinquished /\ l.mode = task[t].mode
      BY <1>3, <3>1 DEF Go, Local
    <3>4. ~task[t].relinquished
      BY <1>3, <2>1, <2>2
    <3>5. Commits(m) /\ lease'[m] = "live" /\ Noted(m)'
      BY <1>3, <1>6, <1>10, <2>2, <3>2 DEF Commits, CommitProcessingJob, Noted, JobOf, CompletionKey
    <3>6. InHand(l, handler[p], m)'
      BY <1>3, <1>6, <2>1, <3>3, <3>4, <3>5 DEF InHand, Closing, Parting
    <3>7. Effect(m)
      BY <1>6, <3>5 DEF Effect
    <3>8. QED
      BY <1>9, <3>2, <3>3, <3>4, <3>6, <3>7
  <2>3. CASE ~Present(m)
    <3>1. task[t].relinquished
      BY <1>3, <2>3
    <3>2. UNCHANGED <<lease, completion>>
      BY <1>4, <1>11, <2>3 DEF Commit, Call, IfHeld, Nothing, queueVars, redis, t
    <3>3. Put(t, Go(t, "reconcile")) \/ Put(t, [task[t] EXCEPT !.tries = @ + 1])
      BY <1>4, <1>11, <2>3 DEF Commit, Call, t
    <3>4. Stays(p, Go(t, "reconcile"))
      BY <1>3, <1>7, <2>1, <3>1
    <3>5. PICK l : l = [task[t] EXCEPT !.tries = @ + 1]
      OBVIOUS
    <3>6. l.at = task[t].at /\ l.claim = m /\ l.committed = task[t].committed /\ l.relinquished = task[t].relinquished
          /\ l.mode = task[t].mode /\ l.result = task[t].result
      BY <1>3, <3>5 DEF Local
    <3>7. Stays(p, l)
      BY <1>3, <3>6 DEF Stays, InHand, t
    <3>8. QED
      BY <1>5, <1>6, <3>2, <3>3, <3>4, <3>5, <3>7
  <2>4. QED
    BY <2>2, <2>3
<1>12. CASE Reconcile(p)
  <2>1. ~task[t].committed /\ task[t].at = "reconcile"
    BY <1>8, <1>12 DEF Reconcile, At, t
  <2>2. task[t].relinquished /\ ~Present(m) /\ handler[p] = "leaving"
    BY <1>3, <2>1 DEF InHand
  <2>3. UNCHANGED <<lease, completion>>
    BY <1>12 DEF Reconcile, Read, Call, Nothing, queueVars, redis
  <2>4. PICK l \in {[Go(t, "toDelete") EXCEPT !.committed = TRUE], [Return(t, "relinquished") EXCEPT !.relinquished = TRUE]} : Put(t, l)
    BY <1>4, <1>12 DEF Reconcile, Read, Call, t
  <2>5. l.at \in {"toDelete", "resolve"} /\ l.claim = m /\ l.relinquished
    BY <1>3, <2>2, <2>4 DEF Go, Return, Local
  <2>6. Stays(p, l)
    BY <1>3, <2>2, <2>5 DEF Stays, InHand, Closing, t
  <2>7. QED
    BY <1>5, <1>6, <2>3, <2>4, <2>6
<1>13. CASE Recommit(p)
  <2>1. task[t].relinquished /\ handler[p] = "leaving"
    BY <1>3, <1>13 DEF Recommit, At, InHand, t
  <2>2. PICK l : l = Return(t, "error")
    OBVIOUS
  <2>3. Put(t, l) /\ Stays(p, l) /\ l.at = "resolve" /\ l.claim = m /\ l.relinquished /\ l.committed = task[t].committed
    BY <1>3, <1>4, <1>13, <2>1, <2>2 DEF Recommit, Call, Return, Local, t
  <2>4. CASE Present(m)
    <3>1. task[t].committed
      BY <1>3, <2>1, <2>4
    <3>2. CommitProcessingJob(m)
      BY <1>4, <1>13, <2>4 DEF Recommit, Call, IfHeld, Redis, t
    <3>3. Commits(m) /\ lease'[m] = "live" /\ Noted(m)'
      BY <1>3, <1>6, <1>10, <2>4, <3>2 DEF Commits, CommitProcessingJob, Noted, JobOf, CompletionKey
    <3>4. InHand(l, handler[p], m)'
      BY <1>6, <2>1, <2>3, <3>1, <3>3 DEF InHand, Closing
    <3>5. Effect(m)
      BY <1>6, <3>3 DEF Effect
    <3>6. QED
      BY <1>9, <2>3, <3>4, <3>5
  <2>5. CASE ~Present(m)
    <3>1. UNCHANGED <<lease, completion>>
      BY <1>4, <1>13, <2>5 DEF Recommit, Call, IfHeld, Nothing, queueVars, redis, t
    <3>2. QED
      BY <1>5, <1>6, <2>3, <3>1
  <2>6. QED
    BY <2>4, <2>5
<1>14. CASE Postpone(p)
  <2>1. ~task[t].committed /\ task[t].at \in {"retry", "defer"}
    BY <1>8, <1>14 DEF Postpone, t
  <2>2. CASE Present(m)
    <3>1. ~task[t].relinquished /\ ~Noted(m)
      BY <1>3, <2>1, <2>2 DEF InHand
    <3>2. PICK l : l = Go(t, "postponed")
      OBVIOUS
    <3>3. Put(t, l) /\ (At(t, "retry") => AddJobToRetryQueue(m)) /\ (~At(t, "retry") => DeferJobForInfrastructure(m))
      BY <1>4, <1>14, <2>2, <3>2 DEF Postpone, Call, Redis, t
    <3>4. l.at = "postponed" /\ l.claim = m /\ ~l.committed /\ ~l.relinquished /\ l.mode = task[t].mode
      BY <1>3, <2>1, <3>1, <3>2 DEF Go, Local
    <3>5. lease' = [lease EXCEPT ![m] = "none"] /\ completion' = completion
      <4>1. CASE At(t, "retry")
        <5>1. claims[m].retryCount < MaxRetry /\ claims[m].retryCount \in Nat /\ MaxRetry \in Nat
          <6>1. claims[m] \in Entry
            BY <1>3, <1>4 DEF WorkerInv, Shared, QueueInv, QueueTypeOK, Issued
          <6>2. claims[m].retryCount < MaxRetry
            BY <1>3, <4>1 DEF InHand, At
          <6>3. QED
            BY <6>1, <6>2, MaxRetryAssumption DEF Entry
        <5>2. ~(claims[m].retryCount + 1 > MaxRetry)
          BY <5>1
        <5>3. QED
          BY <3>3, <4>1, <5>2 DEF AddJobToRetryQueue
      <4>2. CASE ~At(t, "retry")
        BY <3>3, <4>2 DEF DeferJobForInfrastructure
      <4>3. QED
        BY <4>1, <4>2
    <3>6. Effect(m) /\ lease'[m] = "none"
      BY <1>3, <1>6, <1>10, <3>1, <3>5 DEF Effect, Moves
    <3>7. InHand(l, handler[p], m)'
      BY <1>3, <1>6, <3>1, <3>4, <3>6 DEF InHand, Present, Parting
    <3>8. QED
      BY <1>9, <3>1, <3>3, <3>4, <3>6, <3>7
  <2>3. CASE ~Present(m)
    <3>1. task[t].relinquished
      BY <1>3, <2>3
    <3>2. UNCHANGED <<lease, completion>>
      BY <1>14, <2>3 DEF Postpone, Read, Call, Nothing, queueVars, redis, t
    <3>3. PICK l \in Errors(t) : Put(t, l)
      BY <1>14, <2>3 DEF Postpone, Read, Call, t
    <3>4. task[t].mode \in Modes \ {"none", "reap"}
      BY <1>4, <2>1, LoopsClaim DEF Fit, Local, Roles, t
    <3>5. Stays(p, l)
      <4>1. CASE task[t].mode \in {"body", "main"}
        BY <1>3, <3>3, <4>1 DEF Errors, Thrown
      <4>2. CASE task[t].mode \in {"encode", "catch", "last", "prior"}
        BY <1>3, <1>7, <2>1, <3>1, <3>3, <4>2 DEF Errors
      <4>3. CASE task[t].mode \in {"loop", "again"}
        BY <1>3, <1>7, <2>1, <3>1, <3>3, <4>3 DEF Errors
      <4>4. QED
        BY <3>4, <4>1, <4>2, <4>3 DEF Modes
    <3>6. QED
      BY <1>5, <1>6, <3>2, <3>3, <3>5
  <2>4. QED
    BY <2>2, <2>3
<1>15. QED
  BY <1>11, <1>12, <1>13, <1>14

\* What a poll loop does with a claim that is moved on, or whose job is over.
LEMMA EndOrder ==
  ASSUME Quiet, NEW p \in Processes, ReportPostponed(p) \/ GiveBack(p) \/ ReportHandedBack(p) \/ Resolve(p)
  PROVE  InOrder'
<1> DEFINE t == Loop(p)
<1> PICK m : m = task[t].claim
  OBVIOUS
<1>1. task[t].at \in Parting
  BY DEF ReportPostponed, GiveBack, ReportHandedBack, Resolve, At, Parting
<1>2. /\ t \in Tasks /\ m \in ClaimIds /\ m # None /\ task[t] \in Local /\ Issued(m) /\ InHand(task[t], handler[p], m)
  BY <1>1, LoopsClaim DEF Parting
<1>3. ~Spend("fault") /\ WorkerInv
  <2>1. WorkerInv /\ Calm
    BY DEF Quiet
  <2>2. QED
    BY <2>1, CalmCalls
<1>4. ASSUME UNCHANGED <<lease, completion, claims, revived, handler>>, NEW l, Put(t, l), Stays(p, l) PROVE InOrder'
  BY <1>2, <1>4, LoopStays
<1>5. UNCHANGED <<claims, revived, handler>>
  BY DEF ReportPostponed, GiveBack, ReportHandedBack, Resolve, Report, Read, Call, Redis, Nothing, SetEncodeProgress,
     RequeueProcessingJob, FinishProcessingJob, ReleaseProcessingJob, queueVars, redis, history
<1>6. lease \in [ClaimIds -> {"none", "live", "stale"}]
  BY <1>3, LeaseTyped
<1>7. ASSUME NEW result PROVE /\ Return(t, result).at = "resolve" /\ Return(t, result).claim = m
                              /\ Return(t, result).committed = task[t].committed
                              /\ Return(t, result).relinquished = task[t].relinquished
                              /\ Return(t, result).mode = task[t].mode
  BY <1>2 DEF Return, Local
<1> HIDE DEF t
<1>8. CASE ReportPostponed(p)
  <2>1. task[t].at = "postponed"
    BY <1>8 DEF ReportPostponed, At, t
  <2>2. PICK l : l = Return(t, "retrying")
    OBVIOUS
  <2>3. Put(t, l) /\ UNCHANGED <<lease, completion>>
    BY <1>3, <1>8, <2>2 DEF ReportPostponed, Report, Call, Redis, SetEncodeProgress, t
  <2>4. Stays(p, l)
    BY <1>2, <1>7, <2>1, <2>2 DEF Stays, InHand, Closing, Parting, t
  <2>5. QED
    BY <1>4, <1>5, <2>3, <2>4
<1>9. CASE GiveBack(p)
  <2>1. task[t].at = "handBack" /\ task[t].relinquished /\ ~task[t].committed
    BY <1>2, <1>9 DEF GiveBack, At, InHand, Closing, t
  <2>2. CASE Present(m)
    <3>1. ~Noted(m)
      BY <1>2, <2>1, <2>2 DEF InHand
    <3>2. PICK l : l = Go(t, "handedBack")
      OBVIOUS
    <3>3. Put(t, l) /\ RequeueProcessingJob(m)
      BY <1>3, <1>9, <2>2, <3>1, <3>2 DEF GiveBack, Call, Redis, Noted, Job, t
    <3>4. l.at = "handedBack" /\ l.claim = m /\ ~l.committed /\ l.relinquished
      BY <1>2, <2>1, <3>2 DEF Go, Local
    <3>5. Effect(m) /\ lease'[m] = "none"
      BY <1>2, <1>5, <1>6, <3>1, <3>3 DEF Effect, Moves, RequeueProcessingJob
    <3>6. InHand(l, handler[p], m)'
      BY <1>2, <1>5, <2>1, <3>4, <3>5 DEF InHand, Present, Parting
    <3>7. Lawful(l, handler[p])'
      BY <1>2, <3>4, <3>6 DEF Lawful
    <3>8. QED
      BY <1>2, <1>5, <3>3, <3>4, <3>5, <3>7, LoopOrder DEF t
  <2>3. CASE ~Present(m)
    <3>1. PICK l : l = Return(t, "relinquished")
      OBVIOUS
    <3>2. Put(t, l) /\ UNCHANGED <<lease, completion>>
      BY <1>3, <1>9, <2>3, <3>1 DEF GiveBack, Read, Call, Nothing, queueVars, redis, t
    <3>3. Stays(p, l)
      BY <1>2, <1>7, <2>1, <2>3, <3>1 DEF Stays, InHand, Parting, Closing, t
    <3>4. QED
      BY <1>4, <1>5, <3>2, <3>3
  <2>4. QED
    BY <2>2, <2>3
<1>10. CASE ReportHandedBack(p)
  <2>1. task[t].at = "handedBack" /\ task[t].relinquished /\ ~task[t].committed /\ ~Present(m)
    BY <1>2, <1>10 DEF ReportHandedBack, At, InHand, Closing, t
  <2>2. PICK l : l = Return(t, "relinquished")
    OBVIOUS
  <2>3. Put(t, l) /\ UNCHANGED <<lease, completion>>
    BY <1>3, <1>10, <2>2 DEF ReportHandedBack, Report, Call, Redis, SetEncodeProgress, t
  <2>4. Stays(p, l)
    BY <1>2, <1>7, <2>1, <2>2 DEF Stays, InHand, Closing, Parting, t
  <2>5. QED
    BY <1>4, <1>5, <2>3, <2>4
<1>11. CASE Resolve(p)
  <2>1. PICK l : l = Resting
    OBVIOUS
  <2>2. task[t].at = "resolve" /\ Put(t, l) /\ l.claim = None /\ Lawful(l, handler[p])'
    BY <1>3, <1>11, <2>1 DEF Resolve, At, Call, Resting, Lawful, t
  <2>3. ASSUME Effect(m), Closed(m)' PROVE InOrder'
    BY <1>2, <1>5, <2>2, <2>3, LoopOrder DEF t
  <2>4. /\ task[t].committed => Closed(m)
        /\ task[t].relinquished /\ ~task[t].committed => ~Present(m)
        /\ Present(m) /\ ~task[t].committed => ~Noted(m)
        /\ ~task[t].relinquished => task[t].result \in Done \/ ~Present(m)
    BY <1>2, <2>2 DEF InHand, Closed
  <2>5. CASE UNCHANGED <<lease, completion>>
    <3>1. CASE Closed(m)
      <4>1. Effect(m) /\ Closed(m)'
        BY <1>5, <2>5, <3>1 DEF Effect, Closed, Present, Noted, JobOf, CompletionKey
      <4>2. QED
        BY <2>3, <4>1
    <3>2. CASE ~Closed(m)
      <4>1. ~task[t].committed /\ Present(m) /\ ~task[t].relinquished
        BY <1>2, <2>4, <3>2 DEF Closed, Local
      <4>2. FinishProcessingJob(m) \/ ReleaseProcessingJob(m)
        BY <1>3, <1>11, <4>1 DEF Resolve, Call, Redis, t
      <4>3. lease'[m] = "none"
        BY <1>2, <1>6, <4>1, <4>2 DEF FinishProcessingJob, ReleaseProcessingJob
      <4>4. QED
        BY <2>5, <4>1, <4>3 DEF Present
    <3>3. QED
      BY <3>1, <3>2
  <2>6. CASE ~UNCHANGED <<lease, completion>>
    <3>1. /\ ~task[t].relinquished
          /\ \/ FinishProcessingJob(m)
             \/ ReleaseProcessingJob(m) /\ ~task[t].committed
      BY <1>3, <1>11, <2>6 DEF Resolve, Call, Redis, queueVars, redis, t
    <3>2. Present(m)
      BY <2>6, <3>1 DEF FinishProcessingJob, ReleaseProcessingJob
    <3>3. lease' = [lease EXCEPT ![m] = "none"]
      BY <3>1, <3>2 DEF FinishProcessingJob, ReleaseProcessingJob
    <3>4. Finishes(m) \/ Moves(m)
      BY <2>4, <3>1, <3>2 DEF FinishProcessingJob, ReleaseProcessingJob, Finishes, Moves
    <3>5. Effect(m) /\ Closed(m)'
      BY <1>2, <1>5, <1>6, <3>3, <3>4 DEF Effect, Closed, Present
    <3>6. QED
      BY <2>3, <3>5
  <2>7. QED
    BY <2>5, <2>6
<1>12. QED
  BY <1>8, <1>9, <1>10, <1>11

\* The verdicts, by a poll loop.
LEMMA VerdictOrder ==
  ASSUME Quiet, NEW p \in Processes, FinalStep(Loop(p))
  PROVE  InOrder'
<1> DEFINE t == Loop(p)
<1> PICK m : m = task[t].claim
  OBVIOUS
<1>1. task[t].at \in {"succeed", "succeedCallback", "discard", "unwanted", "dead", "failProgress", "failCallback", "finish"}
  BY DEF FinalStep, Succeed, SucceedCallback, DiscardOutput, DropRejected, DeadLetter, ReportFailure, FailCallback,
     FinishFinalized, At
<1>2. Owns(task[t])
  BY <1>1 DEF Owns, Parting
<1>3. /\ m \in ClaimIds /\ m # None /\ task[t] \in Local
      /\ InHand(task[t], handler[p], m)
      /\ task[t].relinquished <=> handler[p] = "leaving"
      /\ ~task[t].relinquished => Present(m)
      /\ task[t].relinquished /\ ~task[t].committed => ~Present(m)
      /\ \A label \in Onward \ {"retry"} :
           (task[t].committed => label \in Closing)
           /\ (label \in {"reconcile", "recommit", "finish"} => task[t].relinquished)
           => /\ Stays(p, Go(t, label))
              /\ \A mode : (mode \in {"loop", "prior"} => task[t].relinquished) => Stays(p, GoIn(t, label, mode))
      /\ \A result : task[t].relinquished \/ result \in Done => Stays(p, Return(t, result))
  BY <1>2, HandGoes
<1>4. ~Spend("fault") /\ WorkerInv /\ Roles /\ t \in Tasks
  <2>1. WorkerInv /\ Roles /\ Calm
    BY DEF Quiet
  <2>2. QED
    BY <2>1, CalmCalls, LoopsClaim
<1>5. ASSUME UNCHANGED <<lease, completion, claims, revived, handler>>, NEW l, Put(t, l), Stays(p, l) PROVE InOrder'
  BY <1>3, <1>5, LoopStays
<1>6. UNCHANGED <<claims, revived, handler>>
  BY DEF FinalStep, Succeed, SucceedCallback, DiscardOutput, DropRejected, DeadLetter, ReportFailure, FailCallback,
     FinishFinalized, Report, Read, Call, Redis, SetEncodeProgress, Callback, Discard, AddJobToDeadLetterQueue,
     FinishProcessingJob, Nothing, queueVars, redis, history
<1>7. {"succeedCallback", "discard", "unwanted", "failProgress", "failCallback"} \subseteq Onward \ {"retry", "reconcile", "recommit", "finish"}
      /\ {"succeedCallback", "discard", "unwanted", "failProgress", "failCallback", "finish"} \subseteq Closing
      /\ "finish" \in Onward \ {"retry"}
  BY DEF Onward, Labels, Parting, Closing
<1>8. task[t].mode # "reap" /\ (task[t].mode \in {"prior", "loop"} => task[t].relinquished)
  BY <1>3, <1>4 DEF Roles, InHand
<1>9. \A result \in Done : Stays(p, Finalized(t, result))
  BY <1>3, <1>7, <1>8 DEF Finalized
<1>10. ~FinishFinalized(t) => UNCHANGED <<lease, completion>>
  BY DEF FinalStep, Succeed, SucceedCallback, DiscardOutput, DropRejected, DeadLetter, ReportFailure, FailCallback,
     Report, Read, Call, Redis, SetEncodeProgress, Callback, Discard, AddJobToDeadLetterQueue, Nothing, queueVars, redis
<1> HIDE DEF t
<1>11. CASE Succeed(t) \/ DropRejected(t) \/ DeadLetter(t) \/ ReportFailure(t)
  <2>1. ~FinishFinalized(t)
    BY <1>11 DEF Succeed, DropRejected, DeadLetter, ReportFailure, FinishFinalized, At
  <2>2. \E label \in {"succeedCallback", "failProgress", "failCallback"} : Put(t, Go(t, label))
    BY <1>4, <1>11 DEF Succeed, DropRejected, DeadLetter, ReportFailure, Report, Call
  <2>3. QED
    BY <1>3, <1>5, <1>6, <1>7, <1>10, <2>1, <2>2
<1>12. CASE SucceedCallback(t) \/ DiscardOutput(t)
  <2>1. ~FinishFinalized(t)
    BY <1>12 DEF SucceedCallback, DiscardOutput, FinishFinalized, At
  <2>2. Put(t, Go(t, "discard")) \/ Put(t, Go(t, "unwanted")) \/ Put(t, Finalized(t, "completed"))
    BY <1>4, <1>12 DEF SucceedCallback, DiscardOutput, Read, Call
  <2>3. "completed" \in Done
    BY DEF Done
  <2>4. QED
    BY <1>3, <1>5, <1>6, <1>7, <1>9, <1>10, <2>1, <2>2, <2>3
<1>13. CASE FailCallback(t)
  <2>1. ~FinishFinalized(t)
    BY <1>13 DEF FailCallback, FinishFinalized, At
  <2>2. \/ Put(t, Finalized(t, "failed")) \/ (task[t].relinquished /\ Put(t, Return(t, "error"))) \/ Put(t, Return(t, "failed"))
    BY <1>4, <1>8, <1>13 DEF FailCallback, Call
  <2>3. "failed" \in Done
    BY DEF Done
  <2>4. QED
    BY <1>3, <1>5, <1>6, <1>9, <1>10, <2>1, <2>2, <2>3
<1>14. CASE FinishFinalized(t)
  <2>1. task[t].relinquished /\ handler[p] = "leaving"
    BY <1>3, <1>14 DEF FinishFinalized, At, InHand, t
  <2>2. PICK l : l = Return(t, "completed")
    OBVIOUS
  <2>3. Put(t, l) /\ Stays(p, l) /\ FinishProcessingJob(m)
    BY <1>3, <1>4, <1>8, <1>14, <2>1, <2>2 DEF FinishFinalized, Call, Redis, t
  <2>4. CASE Present(m)
    <3>1. Effect(m) /\ lease'[m] = "none"
      BY <1>3, <1>4, <1>6, <2>3, <2>4, LeaseTyped DEF Effect, Finishes, FinishProcessingJob
    <3>2. l.at = "resolve" /\ l.claim = m /\ l.relinquished /\ l.committed = task[t].committed
      BY <1>3, <2>1, <2>2 DEF Return, Local
    <3>3. InHand(l, handler[p], m)'
      BY <1>6, <2>1, <3>1, <3>2 DEF InHand, Present, Closing
    <3>4. Lawful(l, handler[p])'
      BY <1>3, <3>2, <3>3 DEF Lawful
    <3>5. QED
      BY <1>3, <1>6, <2>3, <3>1, <3>2, <3>4, LoopOrder DEF t
  <2>5. CASE ~Present(m)
    <3>1. UNCHANGED <<lease, completion>>
      BY <2>3, <2>5 DEF FinishProcessingJob
    <3>2. QED
      BY <1>5, <1>6, <2>3, <3>1
  <2>6. QED
    BY <2>4, <2>5
<1>15. QED
  BY <1>11, <1>12, <1>13, <1>14 DEF FinalStep, t

\* A claim is of a job that no other claim, and no completion, is of.
LEMMA ClaimOrder ==
  ASSUME Quiet, NEW p \in Processes, BeginPoll(p) \/ Claim(p) \/ FindNothing(p)
  PROVE  InOrder'
<1> DEFINE t == Loop(p)
<1>1. /\ t \in Tasks /\ WorkerInv /\ Roles /\ InOrder /\ task[t] \in Local
      /\ task[t].at \in {"idle", "poll"} /\ task[t].claim = None /\ Lawful(task[t], handler[p])
  BY LoopsClaim DEF Quiet, Roles, BeginPoll, Claim, FindNothing, At
<1>2. ASSUME NEW l, Put(t, l) PROVE /\ task'[t] = l
                                    /\ \A q \in Processes \ {p} : task'[Loop(q)] = task[Loop(q)]
                                    /\ \A q \in Reapers : task'[Reaper(q)] = task[Reaper(q)]
  <2>1. \A u \in Tasks : task'[u] = IF u = t THEN l ELSE task[u]
    BY <1>1, <1>2 DEF Put, WorkerInv
  <2>2. \A q \in Processes : Loop(q) \in Tasks /\ (q # p => Loop(q) # t)
    BY DEF Tasks, Loop
  <2>3. \A q \in Reapers : Reaper(q) \in Tasks /\ Reaper(q) # t
    BY LoopIsNoReaper DEF Tasks
  <2>4. QED
    BY <1>1, <2>1, <2>2, <2>3
<1>3. ASSUME NEW l, Put(t, l), l.claim = None, handler[p] = "leaving" => l.at = "idle",
             UNCHANGED <<lease, completion, claims, revived, handler>>
      PROVE  InOrder'
  <2>1. Lawful(l, handler[p])'
    BY <1>3 DEF Lawful
  <2>2. QED
    BY <1>1, <1>2, <1>3, <2>1, StillOrder
<1>4. CASE BeginPoll(p)
  <2>1. PICK l : l = Go(t, "poll")
    OBVIOUS
  <2>2. Put(t, l) /\ l.claim = None /\ handler[p] # "leaving"
    BY <1>1, <1>4, <2>1 DEF BeginPoll, Go, Local
  <2>3. UNCHANGED <<lease, completion, claims, revived, handler>>
    BY <1>4 DEF BeginPoll, queueVars, redis, history
  <2>4. QED
    BY <1>3, <2>2, <2>3
<1>5. Resting.claim = None /\ Resting.at = "idle"
  BY DEF Resting
<1>6. CASE FindNothing(p)
  <2>1. Put(t, Resting) /\ UNCHANGED <<lease, completion, claims, revived, handler>>
    BY <1>6 DEF FindNothing, queueVars, redis, history
  <2>2. QED
    BY <1>3, <1>5, <2>1
<1>7. CASE Claim(p)
  <2>1. PICK m \in ClaimIds :
          Call(t, Redis(ClaimNextEncodeJob(m)), Nothing,
               IF Head(main).job \in Malformed THEN Resting
               ELSE [Resting EXCEPT !.at = "claimed", !.claim = m], {Resting})
    BY <1>7 DEF Claim
  <2>2. ~Spend("fault")
    <3>1. WorkerInv /\ Calm
      BY DEF Quiet
    <3>2. QED
      BY <3>1, CalmCalls
  <2>3. ClaimNextEncodeJob(m) /\ UNCHANGED <<handler, revived, completion>>
    BY <2>1, <2>2 DEF Call, Redis, ClaimNextEncodeJob
  <2>4. CASE Head(main).job \in Malformed
    <3>1. Put(t, Resting) /\ UNCHANGED <<lease, claims>>
      BY <2>1, <2>2, <2>3, <2>4 DEF Call, ClaimNextEncodeJob
    <3>2. QED
      BY <1>3, <1>5, <2>3, <3>1
  <2>5. CASE Head(main).job \notin Malformed
    <3>1. PICK l : l = [Resting EXCEPT !.at = "claimed", !.claim = m]
      OBVIOUS
    <3>2. Put(t, l)
      BY <2>1, <2>2, <2>5, <3>1 DEF Call
    <3>3. l.at = "claimed" /\ l.claim = m /\ ~l.relinquished /\ ~l.committed /\ l.mode = "none"
      BY <3>1 DEF Resting
    <3>4. /\ lease \in [ClaimIds -> {"none", "live", "stale"}] /\ claims \in [ClaimIds -> Entry \cup {NoEntry}]
          /\ \A n \in ClaimIds : Present(n) => Issued(n)
          /\ main \in Seq(Entry) /\ main # <<>> /\ ~Issued(m) /\ m # None
      BY <1>1, <2>3, WorkerAssumption DEF ClaimNextEncodeJob, WorkerInv, Shared, QueueInv, QueueTypeOK, Known
    <3>5. claims' = [claims EXCEPT ![m] = Head(main)] /\ lease' = [lease EXCEPT ![m] = "live"]
      BY <2>3, <2>5 DEF ClaimNextEncodeJob
    <3>6. \A n \in ClaimIds \ {m} : lease'[n] = lease[n] /\ claims'[n] = claims[n]
      BY <3>4, <3>5
    <3>7. \A n \in ClaimIds \ {m} : /\ Present(n)' <=> Present(n)
                                    /\ CompletionKey(JobOf(n))' = CompletionKey(JobOf(n))
                                    /\ Noted(n)' <=> Noted(n)
                                    /\ Closed(n)' <=> Closed(n)
      BY <2>3, <3>6 DEF Present, CompletionKey, JobOf, Noted, Closed
    <3>8. \A u \in Tasks : task[u].claim # m /\ m \notin task[u].todo
      BY <1>1, <3>4, ClaimIsOfTask DEF WorkerInv, Fit
    <3>9. ~Noted(m)'
      <4>1. SUFFICES ASSUME Noted(m)' PROVE FALSE
        OBVIOUS
      <4>2. PICK j : j = Head(main).job
        OBVIOUS
      <4>3. Head(main) = main[1] /\ 1 \in DOMAIN main /\ j \in Jobs /\ j \in sent
        <5>1. Head(main) = main[1] /\ 1 \in DOMAIN main /\ main[1] \in Entry
          BY <3>4
        <5>2. QED
          BY <1>1, <4>2, <5>1 DEF WorkerInv, Shared, QueueInv, Known, Entry
      <4>4. JobOf(m)' = j
        BY <3>4, <3>5, <4>2 DEF JobOf
      <4>5. PICK n \in ClaimIds : Present(n) /\ CompletionKey(JobOf(n)) = CompletionKey(j)
        BY <1>1, <2>3, <4>1, <4>4 DEF InOrder, Books, Noted, CompletionKey
      <4>6. JobOf(n) \in sent /\ JobOf(n).s3Key = j.s3Key
        BY <1>1, <3>4, <4>5, IssuedJob DEF CompletionKey
      <4>7. JobOf(n) = j
        BY <4>3, <4>6 DEF Quiet, Calm
      <4>8. Queued(j) /\ Held(j)
        BY <4>2, <4>3, <4>5, <4>7 DEF Queued, Held, HeldBy
      <4>9. ~Loose(j)
        BY <1>1 DEF InOrder, Books, Loose
      <4>10. QED
        BY <1>1, <4>3, <4>8, <4>9 DEF WorkerInv, Shared, QueueInv, OnePlace, Exclusive
    <3>10. handler[p] # "leaving"
      BY <1>1, <1>7 DEF Claim, At, Lawful
    <3>11. lease'[m] = "live" /\ Present(m)'
      BY <3>4, <3>5 DEF Present
    <3>12. InHand(l, handler[p], m)'
      BY <2>3, <3>3, <3>9, <3>10, <3>11 DEF InHand, Parting
    <3>13. Books'
      <4>1. revived' = {}
        BY <1>1, <2>3 DEF InOrder, Books
      <4>2. \A n \in ClaimIds : lease'[n] = "stale" => Noted(n)'
        BY <1>1, <3>6, <3>7, <3>11 DEF InOrder, Books
      <4>3. ASSUME NEW n \in ClaimIds, Present(n)' PROVE Noted(n)' \/ \E q \in Processes : task'[Loop(q)].claim = n
        <5>1. CASE n = m
          BY <1>2, <3>2, <3>3, <5>1
        <5>2. CASE n # m
          <6>1. CASE Noted(n)
            BY <3>7, <5>2, <6>1
          <6>2. CASE ~Noted(n)
            <7>1. PICK q \in Processes : task[Loop(q)].claim = n
              BY <1>1, <3>7, <4>3, <5>2, <6>2 DEF InOrder, Books
            <7>2. QED
              BY <1>1, <1>2, <3>2, <7>1, WorkerAssumption
          <6>3. QED
            BY <6>1, <6>2
        <5>3. QED
          BY <5>1, <5>2
      <4>4. ASSUME NEW k \in completion' PROVE \E n \in ClaimIds : Present(n)' /\ CompletionKey(JobOf(n))' = k
        <5>1. PICK n \in ClaimIds : Present(n) /\ CompletionKey(JobOf(n)) = k
          BY <1>1, <2>3, <4>4 DEF InOrder, Books
        <5>2. n # m
          BY <3>4, <5>1
        <5>3. QED
          BY <3>7, <5>1, <5>2
      <4>5. QED
        BY <4>1, <4>2, <4>3, <4>4 DEF Books
    <3>14. ASSUME NEW q \in Processes PROVE Lawful(task[Loop(q)], handler[q])'
      <4>1. CASE q = p
        <5>1. Lawful(l, handler[p])'
          BY <3>3, <3>4, <3>12 DEF Lawful
        <5>2. QED
          BY <1>2, <3>2, <4>1, <5>1 DEF Lawful, InHand
      <4>2. CASE q # p
        <5>1. PICK k, h : k = task[Loop(q)] /\ h = handler[q]
          OBVIOUS
        <5>2. k = task'[Loop(q)] /\ h = handler'[q] /\ Lawful(k, h) /\ Loop(q) \in Tasks
          BY <1>1, <1>2, <2>3, <3>2, <4>2, <5>1 DEF InOrder, Tasks
        <5>3. CASE k.claim = None
          BY <5>2, <5>3 DEF Lawful
        <5>4. CASE k.claim # None
          <6>1. PICK n : n = k.claim
            OBVIOUS
          <6>2. n \in ClaimIds \ {m} /\ InHand(k, h, n)
            <7>1. InHand(k, h, n) /\ n # m
              BY <3>8, <5>1, <5>2, <5>4, <6>1 DEF Lawful
            <7>2. n \in ClaimIds
              BY <5>1, <5>4, <6>1, LoopsClaim
            <7>3. QED
              BY <7>1, <7>2
          <6>3. InHand(k, h, n)'
            BY <3>6, <3>7, <6>2 DEF InHand
          <6>4. QED
            BY <5>2, <5>4, <6>1, <6>3 DEF Lawful
        <5>5. QED
          BY <5>3, <5>4
      <4>3. QED
        BY <4>1, <4>2
    <3>15. ASSUME NEW q \in Reapers PROVE Reaping(task[Reaper(q)])'
      <4>1. task'[Reaper(q)] = task[Reaper(q)] /\ Reaper(q) \in Tasks /\ Reaping(task[Reaper(q)]) /\ task[Reaper(q)] \in Fit
            /\ task[Reaper(q)] \in Local
        BY <1>1, <1>2, <3>2, LeaseTyped DEF InOrder, Tasks
      <4>2. \A n \in task[Reaper(q)].todo : n \in ClaimIds \ {m}
        BY <3>8, <4>1 DEF Local
      <4>3. task[Reaper(q)].claim # None => task[Reaper(q)].claim \in ClaimIds \ {m}
        BY <3>8, <4>1 DEF Local
      <4>4. task[Reaper(q)].at \in {"guess", "release"} => task[Reaper(q)].claim \in ClaimIds \ {m}
        BY <3>8, <4>1 DEF Fit
      <4>5. QED
        BY <3>7, <4>1, <4>2, <4>3, <4>4 DEF Reaping
    <3>16. Aloof'
      <4>1. SUFFICES ASSUME NEW q \in Processes, NEW r \in Reapers, task'[Loop(q)].claim # None, ~task'[Loop(q)].relinquished
                     PROVE  task'[Reaper(r)].claim # task'[Loop(q)].claim /\ task'[Loop(q)].claim \notin task'[Reaper(r)].todo
        BY DEF Aloof
      <4>2. Reaper(r) \in Tasks /\ task'[Reaper(r)] = task[Reaper(r)]
        BY <1>2, <3>2 DEF Tasks
      <4>3. CASE q = p
        BY <1>2, <3>2, <3>3, <3>8, <4>2, <4>3
      <4>4. CASE q # p
        <5>1. task'[Loop(q)] = task[Loop(q)]
          BY <1>2, <3>2, <4>4
        <5>2. QED
          BY <1>1, <4>1, <4>2, <5>1 DEF InOrder, Aloof
      <4>5. QED
        BY <4>3, <4>4
    <3>17. QED
      BY <3>13, <3>14, <3>15, <3>16 DEF InOrder
  <2>6. QED
    BY <2>4, <2>5
<1>8. QED
  BY <1>4, <1>6, <1>7

\* A reaper finds only claims whose output is committed, and finishes them.
LEMMA ReaperCalm ==
  ASSUME Quiet, NEW p \in Reapers, ReaperStep(p) \/ FinalStep(Reaper(p))
  PROVE  InOrder'
<1> DEFINE t == Reaper(p)
<1> PICK m : m = task[t].claim
  OBVIOUS
<1>1. /\ t \in Tasks /\ WorkerInv /\ Roles /\ InOrder /\ task[t] \in Local /\ task[t] \in Fit /\ Reaping(task[t])
      /\ lease \in [ClaimIds -> {"none", "live", "stale"}]
  BY LeaseTyped DEF Tasks, Quiet, InOrder
<1>2. ~Spend("fault")
  <2>1. WorkerInv /\ Calm
    BY DEF Quiet
  <2>2. QED
    BY <2>1, CalmCalls
<1>3. ASSUME NEW l, Put(t, l), UNCHANGED <<lease, completion, claims, revived, handler>>, Reaping(l), Spares(l)
      PROVE  InOrder'
  <2>1. \A u \in Tasks : task'[u] = IF u = t THEN l ELSE task[u]
    BY <1>1, <1>3 DEF Put, WorkerInv
  <2>2. \A q \in Processes : task'[Loop(q)] = task[Loop(q)]
    BY <2>1, LoopIsNoReaper DEF Tasks
  <2>3. \A q \in Reapers : task'[Reaper(q)] = task[Reaper(q)] \/ task'[Reaper(q)] = l
    BY <2>1 DEF Tasks
  <2>4. QED
    BY <1>3, <2>2, <2>3, StillOrder
<1>4. Spares(task[t])
  BY <1>1 DEF InOrder, Aloof, Spares
<1>5. Reaping(Resting) /\ Spares(Resting)
  BY DEF Reaping, Spares, Resting
<1>6. CASE ReapStart(p)
  <2>1. PICK l : l = [Resting EXCEPT !.at = "reap", !.mode = "reap", !.todo = {n \in ClaimIds : lease[n] = "stale"}]
    OBVIOUS
  <2>2. l.claim = None /\ l.todo = {n \in ClaimIds : lease[n] = "stale"} /\ l.at = "reap"
    BY <2>1 DEF Resting
  <2>3. Put(t, l) /\ UNCHANGED <<lease, completion, claims, revived, handler>>
    BY <1>6, <2>1 DEF ReapStart, queueVars, redis, history
  <2>4. Reaping(l)
    BY <1>1, <2>2 DEF InOrder, Books, Reaping, Closed
  <2>5. Spares(l)
    <3>1. SUFFICES ASSUME NEW q \in Processes, task[Loop(q)].claim # None, ~task[Loop(q)].relinquished
                   PROVE  lease[task[Loop(q)].claim] # "stale"
      BY <2>2 DEF Spares
    <3>2. InHand(task[Loop(q)], handler[q], task[Loop(q)].claim)
      BY <3>1, LoopsClaim
    <3>3. QED
      BY <3>1, <3>2 DEF InHand
  <2>6. QED
    BY <1>3, <2>3, <2>4, <2>5
<1>7. CASE Reap(p)
  <2>1. UNCHANGED <<lease, completion, claims, revived, handler>>
    BY <1>7 DEF Reap, Read, Call, Nothing, queueVars, redis, history
  <2>2. CASE Put(t, Resting)
    BY <1>3, <1>5, <2>1, <2>2
  <2>3. CASE ~Put(t, Resting)
    <3>1. PICK n \in task[t].todo :
            \/ Noted(n) /\ Put(t, [[task[t] EXCEPT !.claim = n, !.todo = @ \ {n}] EXCEPT !.at = "succeed"])
            \/ ~Noted(n) /\ Put(t, [[task[t] EXCEPT !.claim = n, !.todo = @ \ {n}] EXCEPT !.at = "guess"])
      BY <1>2, <1>7, <2>3 DEF Reap, Read, Call, Noted
    <3>2. PICK at \in {"succeed", "guess"} :
            /\ Put(t, [[task[t] EXCEPT !.claim = n, !.todo = @ \ {n}] EXCEPT !.at = at])
            /\ at = "guess" => ~Noted(n)
      BY <3>1
    <3>3. PICK l : l = [[task[t] EXCEPT !.claim = n, !.todo = @ \ {n}] EXCEPT !.at = at]
      OBVIOUS
    <3>4. Put(t, l) /\ l.claim = n /\ l.todo = task[t].todo \ {n} /\ l.at = at
      BY <1>1, <3>2, <3>3 DEF Local
    <3>5. Closed(n)
      BY <1>1, <3>1 DEF Reaping
    <3>6. Reaping(l)
      BY <1>1, <3>2, <3>4, <3>5 DEF Reaping, Closed
    <3>7. Spares(l)
      BY <1>4, <3>1, <3>4 DEF Spares
    <3>8. QED
      BY <1>3, <2>1, <3>4, <3>6, <3>7
  <2>4. QED
    BY <2>2, <2>3
<1>8. ASSUME task[t].at \notin {"idle", "poll", "reap"}, NEW l, Put(t, l), l.claim \in {None, m}, l.todo \subseteq task[t].todo,
             l.at \in {"guess", "release"} => l.claim = m /\ ~Present(m),
             UNCHANGED <<claims, revived, handler>>, UNCHANGED <<lease, completion>> \/ Finishes(m)
      PROVE  InOrder'
  <2>1. m \in ClaimIds
    BY <1>1, <1>8 DEF Fit
  <2>2. Effect(m)
    BY <1>8 DEF Effect
  <2>3. m # None
    BY <2>1, WorkerAssumption
  <2>4. QED
    BY <1>8, <2>1, <2>2, <2>3, ReaperOrder
<1>9. CASE Guess(p) \/ ReleaseFailed(p) \/ RequeueStale(p)
  <2>1. task[t].at \in {"guess", "release", "requeue"} /\ UNCHANGED <<claims, revived, handler>>
    BY <1>9 DEF Guess, ReleaseFailed, RequeueStale, At, Read, Call, Redis, Nothing, ReleaseProcessingJob,
       RequeueProcessingJob, queueVars, redis, history
  <2>2. m \in ClaimIds /\ m # None /\ Closed(m)
    BY <1>1, <2>1, WorkerAssumption DEF Fit, Reaping
  <2>3. PICK l : Put(t, l) /\ l \in {Go(t, "release"), Go(t, "succeed"), Go(t, "requeue"), NextClaim(t)}
                 /\ (l = Go(t, "release") => task[t].at = "guess")
    <3>1. CASE Guess(p)
      BY <3>1 DEF Guess, Read, Call, At
    <3>2. CASE ReleaseFailed(p) \/ RequeueStale(p)
      <4>1. Put(t, NextClaim(t))
        BY <3>2 DEF ReleaseFailed, RequeueStale, Read, Call
      <4>2. NextClaim(t).at = "reap" /\ Go(t, "release").at = "release"
        BY <1>1 DEF NextClaim, Go, Local
      <4>3. NextClaim(t) # Go(t, "release")
        BY <4>2
      <4>4. QED
        BY <4>1, <4>3
    <3>3. QED
      BY <1>9, <3>1, <3>2
  <2>4. l.claim \in {None, m} /\ l.todo \subseteq task[t].todo /\ l.at # "guess"
        /\ (l.at = "release" => l = Go(t, "release") /\ l.claim = m)
    <3>1. ASSUME NEW label \in Labels
          PROVE  Go(t, label).claim = m /\ Go(t, label).todo = task[t].todo /\ Go(t, label).at = label
      BY <1>1 DEF Go, Local
    <3>2. NextClaim(t).claim = None /\ NextClaim(t).todo = task[t].todo /\ NextClaim(t).at = "reap"
      BY <1>1 DEF NextClaim, Local
    <3>3. {"release", "succeed", "requeue"} \subseteq Labels
      BY DEF Labels
    <3>4. QED
      BY <2>3, <3>1, <3>2, <3>3
  <2>5. l.at = "release" => ~Present(m)
    BY <1>1, <2>3, <2>4 DEF Reaping
  <2>6. UNCHANGED <<lease, completion>>
    <3>1. CASE Guess(p)
      BY <3>1 DEF Guess, Read, Call, Nothing, queueVars, redis
    <3>2. CASE ReleaseFailed(p)
      <4>1. ~Present(m)
        BY <1>1, <3>2 DEF ReleaseFailed, At, Reaping
      <4>2. QED
        BY <1>2, <3>2, <4>1 DEF ReleaseFailed, Call, Redis, ReleaseProcessingJob
    <3>3. CASE RequeueStale(p)
      <4>1. ~(Present(m) /\ CompletionKey(JobOf(m)) \notin completion)
        BY <2>2 DEF Closed, Noted
      <4>2. QED
        BY <3>3, <4>1 DEF RequeueStale, Read, Call, Nothing, queueVars, redis
    <3>4. QED
      BY <1>9, <3>1, <3>2, <3>3
  <2>7. QED
    BY <1>8, <2>1, <2>3, <2>4, <2>5, <2>6
<1>10. CASE FinalStep(t)
  <2>1. task[t].at \in TerminalWrites \cup {"finish"}
    BY <1>10 DEF FinalStep, TerminalWrites, Succeed, SucceedCallback, DiscardOutput, DropRejected, DeadLetter,
       ReportFailure, FailCallback, FinishFinalized, At
  <2>2. m \in ClaimIds
    BY <1>1, <2>1 DEF Fit, TerminalWrites
  <2>3. UNCHANGED <<claims, revived, handler>> /\ (UNCHANGED <<lease, completion>> \/ FinishProcessingJob(m))
    BY <1>10 DEF FinalStep, Succeed, SucceedCallback, DiscardOutput, DropRejected, DeadLetter, ReportFailure, FailCallback,
       FinishFinalized, Report, Read, Call, Redis, SetEncodeProgress, Callback, Discard, AddJobToDeadLetterQueue,
       FinishProcessingJob, Nothing, queueVars, redis, history
  <2>4. UNCHANGED <<lease, completion>> \/ Finishes(m)
    BY <2>3 DEF FinishProcessingJob, Finishes
  <2>5. PICK l : Put(t, l) /\ Follows(t, l) /\ l.at \notin {"guess", "release"}
    <3>1. task[t].mode = "reap"
      BY <1>1, <2>1 DEF Roles, TerminalWrites
    <3>2. \E l : Put(t, l) /\ Follows(t, l)
      BY <1>1, <1>10, FinalFollows
    <3>3. PICK l \in {Go(t, "succeedCallback"), Go(t, "discard"), Go(t, "unwanted"), Go(t, "failProgress"),
                      Go(t, "failCallback"), Go(t, "finish"), NextClaim(t)} : Put(t, l)
      BY <1>2, <1>10, <3>1 DEF FinalStep, Succeed, SucceedCallback, DiscardOutput, DropRejected, DeadLetter,
         ReportFailure, FailCallback, FinishFinalized, Report, Read, Call, Finalized
    <3>4. l.at \notin {"guess", "release"}
      BY <1>1, <3>3 DEF Go, NextClaim, Local
    <3>5. \A k : Put(t, k) => k = l
      BY <1>1, <3>3 DEF Put, WorkerInv
    <3>6. QED
      BY <3>2, <3>3, <3>4, <3>5
  <2>6. l.claim \in {None, m} /\ l.todo \subseteq task[t].todo
    BY <1>1, <2>5, FollowsClaim
  <2>7. QED
    BY <1>8, <2>1, <2>3, <2>4, <2>5, <2>6 DEF TerminalWrites
<1>11. QED
  BY <1>6, <1>7, <1>9, <1>10 DEF ReaperStep

\* The heartbeat finds its claim there; the shutdown hands the claim off, or
\* expires it once it is committed, and leaves.
LEMMA ProcessOrder ==
  ASSUME Quiet, NEW p \in Processes,
         EncodeProgress(p) \/ Heartbeat(p) \/ Sigterm(p) \/ HandlerStep(p) \/ Crash(p)
  PROVE  InOrder'
<1> DEFINE t == Loop(p)
<1> PICK m : m = task[t].claim
  OBVIOUS
<1>1. /\ t \in Tasks /\ WorkerInv /\ Roles /\ InOrder /\ task[t] \in Local /\ task[t] \in Fit
      /\ lease \in [ClaimIds -> {"none", "live", "stale"}] /\ Lawful(task[t], handler[p])
      /\ task[t].claim = None => task[t].at \in {"idle", "poll", "reap"}
      /\ task[t].claim # None => task[t].claim \in ClaimIds /\ Issued(task[t].claim) /\ InHand(task[t], handler[p], task[t].claim)
      /\ handler \in [Processes -> Phases]
  BY LoopsClaim, LeaseTyped DEF Quiet, WorkerInv
<1>2. ~Spend("fault") /\ ~Spend("stall") /\ ~Spend("crash")
  <2>1. WorkerInv /\ Calm
    BY DEF Quiet
  <2>2. QED
    BY <2>1, CalmCalls
<1>3. ASSUME UNCHANGED <<lease, completion, claims, revived, task>>,
             \A q \in Processes : (handler'[q] = "leaving" <=> handler[q] = "leaving") \/ Lawful(task[Loop(q)], handler[q])'
      PROVE  InOrder'
  BY <1>3, StillOrder
<1>4. CASE EncodeProgress(p)
  <2>1. UNCHANGED <<lease, completion, claims, revived, task, handler>>
    BY <1>4 DEF EncodeProgress, Redis, SetEncodeProgress, history
  <2>2. QED
    BY <1>3, <2>1
<1>5. CASE Heartbeat(p)
  <2>1. m # None /\ ~At(t, "resolve") /\ ~task[t].relinquished /\ m \in ClaimIds
    BY <1>1, <1>5 DEF Heartbeat, Beating
  <2>2. InHand(task[t], handler[p], m)
    BY <1>1, <2>1
  <2>3. lease[m] # "stale"
    BY <2>1, <2>2 DEF InHand
  <2>4. ~Present(m) /\ Put(t, [task[t] EXCEPT !.relinquished = TRUE]) /\ UNCHANGED <<lease, completion, claims, revived, handler>>
    BY <1>5, <2>3 DEF Heartbeat, Nothing, queueVars, redis, history
  <2>5. task[t].at = "postponed" /\ ~task[t].committed
    BY <1>1, <2>1, <2>2, <2>4 DEF InHand, Present, Parting, At, Local
  <2>6. PICK l : l = [task[t] EXCEPT !.relinquished = TRUE]
    OBVIOUS
  <2>7. l.at = "postponed" /\ l.claim = m /\ ~l.committed /\ l.relinquished
    BY <1>1, <2>5, <2>6 DEF Local
  <2>8. InHand(l, handler[p], m)
    BY <2>2, <2>4, <2>5, <2>7 DEF InHand, Parting
  <2>9. Stays(p, l)
    BY <2>7, <2>8 DEF Stays
  <2>10. QED
    BY <2>1, <2>4, <2>6, <2>9, LoopStays
<1>6. CASE Sigterm(p)
  <2>1. UNCHANGED <<lease, completion, claims, revived, task>>
    BY <1>6 DEF Sigterm, queueVars, redis, history
  <2>2. \A q \in Processes : handler'[q] = "leaving" <=> handler[q] = "leaving"
    BY <1>1, <1>6 DEF Sigterm
  <2>3. QED
    BY <1>3, <2>1, <2>2
<1>7. CASE DrainEnds(p)
  <2>1. UNCHANGED <<lease, completion, claims, revived, task>>
    BY <1>7 DEF DrainEnds, queueVars, redis, history
  <2>2. \A q \in Processes : handler'[q] = "leaving" <=> handler[q] = "leaving"
    BY <1>1, <1>7 DEF DrainEnds
  <2>3. QED
    BY <1>3, <2>1, <2>2
<1>8. CASE Settled(p)
  <2>1. UNCHANGED <<lease, completion, claims, revived, task>> /\ task[t].claim = None /\ task[t].at = "idle"
    BY <1>2, <1>8 DEF Settled, At, queueVars, redis, history
  <2>2. handler' = [handler EXCEPT ![p] = "leaving"]
    BY <1>8 DEF Settled
  <2>3. Lawful(task[Loop(p)], handler[p])'
    BY <2>1 DEF Lawful
  <2>4. \A q \in Processes : handler'[q] = handler[q] \/ q = p
    BY <1>1, <2>2
  <2>5. QED
    BY <1>3, <2>1, <2>3, <2>4
<1>9. CASE HandOff(p)
  <2>1. /\ m # None /\ m \in ClaimIds /\ handler[p] # "leaving" /\ handler' = [handler EXCEPT ![p] = "leaving"]
        /\ Issued(m) /\ InHand(task[t], handler[p], m)
    BY <1>1, <1>9 DEF HandOff
  <2>2. PICK l : l = [task[t] EXCEPT !.relinquished = TRUE]
    OBVIOUS
  <2>3. l.at = task[t].at /\ l.claim = m /\ l.committed = task[t].committed /\ l.relinquished /\ l.mode = task[t].mode /\ l.result = task[t].result
    BY <1>1, <2>2 DEF Local
  <2>4. Put(t, l)
    BY <1>9, <2>2 DEF HandOff
  <2>5. ASSUME Effect(m), InHand(l, "leaving", m)' PROVE InOrder'
    <3>1. handler'[p] = "leaving" /\ \A q \in Processes \ {p} : handler'[q] = handler[q]
      BY <1>1, <2>1
    <3>2. Lawful(l, handler[p])'
      BY <2>1, <2>3, <2>5, <3>1 DEF Lawful
    <3>3. QED
      BY <2>1, <2>3, <2>4, <2>5, <3>1, <3>2, LoopOrder
  <2>6. CASE task[t].committed
    <3>1. Present(m) /\ Noted(m) /\ task[t].at \in Closing
      BY <1>1, <2>1, <2>6 DEF InHand, Present, Local
    <3>2. ExpireProcessingJob(m)
      BY <1>2, <1>9, <2>6 DEF HandOff, Redis
    <3>3. UNCHANGED <<claims, revived, completion>> /\ lease' = [lease EXCEPT ![m] = "stale"]
      BY <3>1, <3>2 DEF ExpireProcessingJob
    <3>4. Effect(m)
      BY <3>1, <3>3 DEF Effect, Expires
    <3>5. Noted(m)'
      BY <3>1, <3>3 DEF Noted, CompletionKey, JobOf
    <3>6. InHand(l, "leaving", m)'
      BY <2>1, <2>3, <2>6, <3>1, <3>3, <3>5 DEF InHand, Closing
    <3>7. QED
      BY <2>5, <3>4, <3>6
  <2>7. CASE ~task[t].committed
    <3>1. Present(m) => ~Noted(m)
      BY <2>1, <2>7 DEF InHand
    <3>2. CASE Present(m)
      <4>1. RequeueProcessingJob(m)
        BY <1>2, <1>9, <2>7, <3>1, <3>2 DEF HandOff, Redis, Noted, Job
      <4>2. UNCHANGED <<claims, revived, completion>> /\ lease' = [lease EXCEPT ![m] = "none"]
        BY <4>1 DEF RequeueProcessingJob, history
      <4>3. Effect(m) /\ ~Present(m)'
        BY <1>1, <2>1, <3>1, <4>2 DEF Effect, Moves, Present
      <4>4. InHand(l, "leaving", m)'
        BY <2>1, <2>3, <2>7, <4>2, <4>3 DEF InHand
      <4>5. QED
        BY <2>5, <4>3, <4>4
    <3>3. CASE ~Present(m)
      <4>1. UNCHANGED <<lease, completion, claims, revived>>
        BY <1>2, <1>9, <2>7, <3>3 DEF HandOff, Nothing, queueVars, redis, history
      <4>2. Effect(m) /\ ~Present(m)'
        BY <3>3, <4>1 DEF Effect, Present
      <4>3. InHand(l, "leaving", m)'
        BY <2>1, <2>3, <2>7, <4>1, <4>2 DEF InHand
      <4>4. QED
        BY <2>5, <4>2, <4>3
    <3>4. QED
      BY <3>2, <3>3
  <2>8. QED
    BY <2>6, <2>7
<1>10. CASE Exit(p)
  <2>1. /\ handler[p] = "leaving" /\ UNCHANGED <<lease, completion, claims, revived>>
        /\ handler' = [handler EXCEPT ![p] = "up"] /\ task' = [u \in Tasks |-> IF u[1] = p THEN Resting ELSE task[u]]
    BY <1>10 DEF Exit, Replaced, Nothing, queueVars, redis, history
  <2>2. Resting.claim = None /\ Resting.todo = {} /\ Resting.at = "idle"
    BY DEF Resting
  <2>3. \A n : (Present(n)' <=> Present(n)) /\ (Noted(n)' <=> Noted(n)) /\ (Closed(n)' <=> Closed(n))
               /\ CompletionKey(JobOf(n))' = CompletionKey(JobOf(n))
    BY <2>1 DEF Present, Noted, Closed, CompletionKey, JobOf
  <2>4. /\ task'[Loop(p)] = Resting /\ handler'[p] = "up"
        /\ \A q \in Processes \ {p} : task'[Loop(q)] = task[Loop(q)] /\ handler'[q] = handler[q]
        /\ \A q \in Reapers : task'[Reaper(q)] \in {Resting, task[Reaper(q)]}
    BY <1>1, <2>1 DEF Tasks, Loop, Reaper
  <2>5. m # None => Closed(m)
    BY <1>1, <2>1 DEF InHand, Closed, Local
  <2>6. ASSUME NEW n \in ClaimIds, Present(n) PROVE Noted(n) \/ \E q \in Processes : task'[Loop(q)].claim = n
    <3>1. CASE Noted(n)
      BY <3>1
    <3>2. CASE ~Noted(n)
      <4>1. PICK q \in Processes : task[Loop(q)].claim = n
        BY <1>1, <2>6, <3>2 DEF InOrder, Books
      <4>2. q # p
        BY <2>5, <2>6, <3>2, <4>1, WorkerAssumption DEF Closed
      <4>3. QED
        BY <2>4, <4>1, <4>2
    <3>3. QED
      BY <3>1, <3>2
  <2>7. Books'
    BY <1>1, <2>1, <2>3, <2>6 DEF InOrder, Books
  <2>8. ASSUME NEW q \in Processes PROVE Lawful(task[Loop(q)], handler[q])'
    <3>1. CASE q = p
      BY <2>2, <2>4, <3>1 DEF Lawful
    <3>2. CASE q # p
      <4>1. Lawful(task[Loop(q)], handler[q])
        BY <1>1 DEF InOrder
      <4>2. QED
        BY <2>1, <2>3, <2>4, <3>2, <4>1 DEF Lawful, InHand
    <3>3. QED
      BY <3>1, <3>2
  <2>9. \A q \in Reapers : Reaping(task[Reaper(q)])'
    BY <1>1, <2>2, <2>3, <2>4 DEF InOrder, Reaping
  <2>10. Aloof'
    <3>1. \A q \in Processes : task'[Loop(q)] \in {Resting, task[Loop(q)]}
      BY <2>4
    <3>2. QED
      BY <1>1, <2>2, <2>4, <3>1 DEF InOrder, Aloof
  <2>11. QED
    BY <2>7, <2>8, <2>9, <2>10 DEF InOrder
<1>11. CASE Crash(p)
  BY <1>2, <1>11 DEF Crash
<1>12. QED
  BY <1>4, <1>5, <1>6, <1>7, <1>8, <1>9, <1>10, <1>11 DEF HandlerStep

\* A lease runs out only of a committed claim.
LEMMA OutsideOrder ==
  ASSUME Quiet,
         \/ \E m \in ClaimIds : LeaseEnds(m) \/ Stall(m)
         \/ \E ready \in SUBSET retry : RetriesComeDue(ready)
         \/ \E v \in Movies : ProgressTtl(v) \/ DeleteMovie(v)
         \/ \E object \in erasing : Erase(object)
  PROVE  InOrder'
<1>1. WorkerInv /\ InOrder /\ Calm
  BY DEF Quiet
<1>2. ~Spend("stall")
  BY <1>1, CalmCalls
<1>3. UNCHANGED <<task, handler>>
  BY DEF LeaseEnds, Stall, RetriesComeDue, ProgressTtl, DeleteMovie, Erase
<1>4. ASSUME NEW m \in ClaimIds, LeaseEnds(m) PROVE InOrder'
  <2>1. /\ lease[m] = "live" /\ lease' = [lease EXCEPT ![m] = "stale"] /\ UNCHANGED <<claims, revived, completion>>
        /\ \A q \in Processes : task[Loop(q)].claim # m
    BY <1>4 DEF LeaseEnds, Redis, LeaseRunsOut, history
  <2>2. Present(m) /\ Noted(m)
    BY <1>1, <2>1 DEF InOrder, Books, Present
  <2>3. Effect(m)
    BY <2>1, <2>2 DEF Effect, Expires
  <2>4. \A n \in ClaimIds : (Closed(n) => Closed(n)') /\ (~Present(n) => ~Present(n)')
    BY <2>3, EffectApart
  <2>5. \A q \in Reapers : Reaping(task[Reaper(q)]) /\ task[Reaper(q)] \in Local /\ task[Reaper(q)] \in Fit
    BY <1>1, LeaseTyped DEF InOrder, Tasks
  <2>6. \A q \in Reapers : Reaping(task[Reaper(q)])'
    BY <1>3, <2>4, <2>5 DEF Reaping, Local, Fit
  <2>7. Aloof'
    BY <1>1, <1>3 DEF InOrder, Aloof
  <2>8. QED
    BY <1>3, <2>1, <2>3, <2>6, <2>7, OthersOrder
<1>5. ASSUME \/ \E ready \in SUBSET retry : RetriesComeDue(ready)
             \/ \E v \in Movies : ProgressTtl(v) \/ DeleteMovie(v)
             \/ \E object \in erasing : Erase(object)
      PROVE  InOrder'
  <2>1. UNCHANGED <<lease, completion, claims, revived>>
    BY <1>5 DEF RetriesComeDue, ProgressTtl, DeleteMovie, Erase, Redis, ProcessRetryQueue, ProgressExpires,
       queueVars, redis, history
  <2>2. QED
    BY <1>3, <2>1, StillOrder
<1>6. QED
  BY <1>2, <1>4, <1>5 DEF Stall

-----------------------------------------------------------------------------
CalmInv == Calm => InOrder

LEMMA CalmInit == WorkerInit => CalmInv
<1> SUFFICES ASSUME WorkerInit PROVE InOrder
  BY DEF CalmInv
<1>1. \A t \in Tasks : task[t] = Resting
  BY DEF WorkerInit
<1>2. Resting.claim = None /\ Resting.todo = {} /\ Resting.at = "idle"
  BY DEF Resting
<1>3. (\A p \in Processes : Loop(p) \in Tasks) /\ (\A p \in Reapers : Reaper(p) \in Tasks)
  BY DEF Tasks
<1>4. Books
  BY DEF WorkerInit, Books, Present
<1>5. QED
  BY <1>1, <1>2, <1>3, <1>4 DEF InOrder, Lawful, Reaping, Aloof

\* Nothing a scenario was said not to have comes up later.
LEMMA CalmKept ==
  ASSUME WorkerInv, [WorkerNext]_workerVars
  PROVE  scenario'.bounds = scenario.bounds /\ scenario'.mayReject = scenario.mayReject
         /\ scenario'.misfortunes = scenario.misfortunes /\ sent' = sent
<1>1. UNCHANGED scenario \/ \E what \in Bounds : Spend(what)
  BY ScenarioStep
<1>2. scenario \in Scenario
  BY DEF WorkerInv, BoundsTypeOK
<1>3. sent' = sent
  BY QueueKeeps
<1>4. QED
  BY <1>1, <1>2, <1>3 DEF Spend, Scenario

LEMMA CalmNext == WorkerInv /\ Roles /\ CalmInv /\ [WorkerNext]_workerVars => CalmInv'
<1> SUFFICES ASSUME WorkerInv, Roles, CalmInv, [WorkerNext]_workerVars, Calm' PROVE InOrder'
  BY DEF CalmInv
<1>1. Calm
  BY CalmKept DEF Calm
<1>2. Quiet
  BY <1>1 DEF Quiet, CalmInv
<1>3. CASE UNCHANGED workerVars
  <2>1. UNCHANGED <<lease, completion, claims, revived, task, handler>>
    BY <1>3 DEF workerVars, queueVars, redis, history
  <2>2. QED
    BY <1>2, <2>1, StillOrder
<1>4. ASSUME NEW p \in Processes, LoopStep(p) PROVE InOrder'
  BY <1>2, <1>4, ClaimOrder, BodyOrder, CommitOrder, EndOrder DEF LoopStep
<1>5. ASSUME NEW t \in Tasks, FinalStep(t) PROVE InOrder'
  BY <1>2, <1>5, VerdictOrder, ReaperCalm DEF Tasks
<1>6. CASE ~UNCHANGED workerVars
  BY <1>2, <1>4, <1>5, <1>6, ReaperCalm, ProcessOrder, OutsideOrder DEF WorkerNext
<1>7. QED
  BY <1>3, <1>6

LEMMA CalmInvariance == WorkerSpec => [](WorkerInv /\ Roles /\ CalmInv)
<1>1. WorkerInv /\ Roles /\ CalmInv /\ [WorkerNext]_workerVars => (WorkerInv /\ Roles /\ CalmInv)'
  BY WorkerNextInv, RolesNext, CalmNext
<1>2. QED
  BY WorkerInitInv, RolesInit, CalmInit, <1>1, PTL DEF WorkerSpec

-----------------------------------------------------------------------------
(***************************************************************************)
(* Where a step takes a task, in a scenario without faults.                *)
(***************************************************************************)
\* The movie of the job j is no longer processing this upload.
Shown(j) == variant[j.movieId].s3Key = j.s3Key => variant[j.movieId].status # "PROCESSING"
ShownNext(j) == variant'[j.movieId].s3Key = j.s3Key => variant'[j.movieId].status # "PROCESSING"

\* The claim will be finished or released.
Ends(l) == l.at \in {"discard", "finish"} \/ (l.at = "resolve" /\ l.result \in Done)

\* What may spoil the job of a poll loop: a misfortune, or an upload that is not there.
Excused(t) ==
  /\ task[t].mode # "reap"
  /\ \/ scenario.misfortunes # {}
     \/ task[t].at \in {"retry", "defer"}
     \/ /\ task[t].at \in {"inspect", "download"} /\ Job(t).s3Key \notin tmp
        /\ ~task[t].relinquished /\ ~task[t].committed

\* A task with a claim goes to l.
Edge(t, l) ==
  /\ l.claim # None => l.claim = task[t].claim /\ (task[t].committed => l.committed)
  /\ l.committed => task[t].committed \/ (l.at \in {"toDelete", "succeed"} /\ CompletionKey(Job(t)) \in completion')
  /\ l.at \in {"toDelete", "delete"} => l.committed \/ task[t].at = "toDelete"
  /\ l.at \in {"dead", "retry", "defer"} => Excused(t)
  /\ l.at = "unwanted" => scenario.mayReject
  /\ l.at = "failProgress" => task[t].at \in {"unwanted", "dead"}
  /\ l.at = "failCallback" => task[t].at = "failProgress"
  /\ Ends(l) => Ends(task[t]) \/ scenario.mayReject \/ ShownNext(Job(t))

\* It keeps its place, but for the claim it may have given up.
Keeping(t, l) == l \in {task[t], [task[t] EXCEPT !.relinquished = TRUE]}

\* It has nothing, or a claim of which it knows nothing yet.
Fresh(l) ==
  /\ l.at \in {"idle", "poll", "claimed", "reap", "guess"} \/ (l.mode = "reap" /\ l.at = "succeed")
  /\ l.mode # "reap" /\ l.claim # None => ~l.committed

\* The places with nothing to be shown.
Unmarked == Labels \ {"idle", "poll", "reap", "discard", "finish", "unwanted", "failProgress", "failCallback",
                      "dead", "retry", "defer", "toDelete", "delete", "resolve"}

LEMMA EdgeGoes ==
  ASSUME WorkerInv, NEW t \in Tasks
  PROVE  /\ \A label \in Unmarked : Edge(t, Go(t, label)) /\ \A mode : Edge(t, GoIn(t, label, mode))
         /\ Excused(t) => \A label \in {"dead", "defer"}, mode \in Modes : Edge(t, GoIn(t, label, mode))
         /\ \A result \in Results \ Done : Edge(t, Return(t, result))
         /\ Excused(t) => \A mode \in Modes, b \in BOOLEAN : Edge(t, RetryOrDeadLetter(t, mode, b))
         /\ \A mode \in Modes : Edge(t, HandBack(t, mode))
         /\ Edge(t, Caught(t, "abort")) /\ (task[t].relinquished \/ task[t].committed \/ Excused(t) => \A kind : Edge(t, Caught(t, kind)))
<1>1. task[t] \in Local
  BY LeaseTyped
<1>2. \A label \in Unmarked : Edge(t, Go(t, label)) /\ \A mode : Edge(t, GoIn(t, label, mode))
  BY <1>1 DEF Edge, Go, GoIn, Unmarked, Ends, Local
<1>3. Excused(t) => \A label \in {"dead", "defer", "retry"}, mode \in Modes : Edge(t, GoIn(t, label, mode))
  BY <1>1 DEF Edge, GoIn, Ends, Local
<1>4. \A result \in Results \ Done : Edge(t, Return(t, result))
  BY <1>1 DEF Edge, Return, Ends, Local, Done
<1>5. Excused(t) => \A mode \in Modes, b \in BOOLEAN : Edge(t, RetryOrDeadLetter(t, mode, b))
  BY <1>3 DEF RetryOrDeadLetter
<1>6. \A mode \in Modes : Edge(t, HandBack(t, mode))
  BY <1>1 DEF Edge, HandBack, GoIn, Ends, Local
<1>7. Edge(t, Return(t, "relinquished")) /\ Edge(t, GoIn(t, "succeed", "again")) /\ Edge(t, HandBack(t, "last"))
      /\ (Excused(t) => Edge(t, GoIn(t, "defer", "last")) /\ \A b \in BOOLEAN : Edge(t, RetryOrDeadLetter(t, "catch", b)))
  BY <1>2, <1>3, <1>4, <1>5, <1>6 DEF Unmarked, Labels, Results, Done, Modes
<1>8. Edge(t, Caught(t, "abort"))
  BY <1>1, <1>7 DEF Caught, Local
<1>9. ASSUME task[t].relinquished \/ task[t].committed \/ Excused(t), NEW kind PROVE Edge(t, Caught(t, kind))
  BY <1>1, <1>7, <1>9 DEF Caught, Local
<1>10. QED
  BY <1>2, <1>3, <1>4, <1>5, <1>6, <1>8, <1>9

\* The poll loop, after its claim and before the finalization.
LEMMA LoopEdges ==
  ASSUME Quiet, NEW p \in Processes, LoopStep(p), ~BeginPoll(p), ~Claim(p), ~FindNothing(p), ~Resolve(p)
  PROVE  \E l : Put(Loop(p), l) /\ Edge(Loop(p), l)
<1> DEFINE t == Loop(p)
<1>1. WorkerInv /\ Calm /\ t \in Tasks /\ task[t] \in Local /\ task[t].mode # "reap"
  BY LoopsClaim DEF Quiet, Roles
<1>2. ~Spend("fault")
  BY <1>1, CalmCalls
<1>3. /\ \A label \in Unmarked : Edge(t, Go(t, label)) /\ \A mode : Edge(t, GoIn(t, label, mode))
      /\ Excused(t) => \A label \in {"dead", "defer"}, mode \in Modes : Edge(t, GoIn(t, label, mode))
      /\ \A result \in Results \ Done : Edge(t, Return(t, result))
      /\ Excused(t) => \A mode \in Modes, b \in BOOLEAN : Edge(t, RetryOrDeadLetter(t, mode, b))
      /\ \A mode \in Modes : Edge(t, HandBack(t, mode))
      /\ Edge(t, Caught(t, "abort")) /\ (task[t].relinquished \/ task[t].committed \/ Excused(t) => \A kind : Edge(t, Caught(t, kind)))
  BY <1>1, EdgeGoes
<1>4. {"begin", "inspect", "toDownload", "download", "toEncode", "encode", "toUpload", "upload", "commit", "reconcile",
       "succeed", "recommit", "postponed", "handedBack"} \subseteq Unmarked
      /\ {"body", "encode", "last", "main", "again", "prior"} \subseteq Modes /\ {"relinquished", "error", "retrying"} \subseteq Results \ Done
  BY DEF Unmarked, Labels, Modes, Results, Done
<1> HIDE DEF t
<1>5. CASE CheckCompletion(p)
  <2>1. CASE CompletionKey(Job(t)) \in completion
    <3>1. PICK l : l = [GoIn(t, "succeed", "prior") EXCEPT !.committed = TRUE]
      OBVIOUS
    <3>2. Put(t, l) /\ completion' = completion
      BY <1>2, <1>5, <2>1, <3>1 DEF CheckCompletion, Read, Call, Nothing, queueVars, redis, t
    <3>3. Edge(t, l)
      BY <1>1, <2>1, <3>1, <3>2 DEF Edge, GoIn, Ends, Local
    <3>4. QED
      BY <3>2, <3>3 DEF t
  <2>2. CASE CompletionKey(Job(t)) \notin completion
    <3>1. Put(t, GoIn(t, "begin", "last"))
      BY <1>2, <1>5, <2>2 DEF CheckCompletion, Read, Call, t
    <3>2. QED
      BY <1>3, <1>4, <3>1 DEF t
  <2>3. QED
    BY <2>1, <2>2
<1>6. CASE Begin(p)
  <2>1. Put(t, Return(t, "relinquished")) \/ Put(t, GoIn(t, "inspect", "body"))
    BY <1>2, <1>6 DEF Begin, Report, Call, t
  <2>2. QED
    BY <1>3, <1>4, <2>1 DEF t
<1>7. CASE Inspect(p)
  <2>1. CASE Job(t).s3Key \in tmp
    <3>1. \/ Put(t, Go(t, "toDownload"))
          \/ scenario.misfortunes # {} /\ (Put(t, GoIn(t, "dead", "body")) \/ Put(t, GoIn(t, "defer", "body")))
      BY <1>2, <1>7, <2>1 DEF Inspect, Read, Call, t
    <3>2. QED
      BY <1>1, <1>3, <1>4, <3>1 DEF Excused, t
  <2>2. CASE Job(t).s3Key \notin tmp
    <3>1. Put(t, Caught(t, "permanent")) /\ task[t].at = "inspect"
      BY <1>2, <1>7, <2>2 DEF Inspect, Read, Call, At, t
    <3>2. task[t].relinquished \/ task[t].committed \/ Excused(t)
      BY <1>1, <2>2, <3>1 DEF Excused
    <3>3. QED
      BY <1>3, <3>1, <3>2 DEF t
  <2>3. QED
    BY <2>1, <2>2
<1>8. CASE StartStage(p)
  <2>1. task[t].at \in {"toDownload", "toEncode", "toUpload", "toDelete"}
    BY <1>8 DEF StartStage, t
  <2>2. \/ \E label \in {"download", "encode", "upload"} : Put(t, Go(t, label))
        \/ task[t].at = "toDelete" /\ Put(t, Go(t, "delete"))
    BY <1>2, <1>8, <2>1 DEF StartStage, Report, Call, t
  <2>3. task[t].at = "toDelete" => Edge(t, Go(t, "delete"))
    BY <1>1 DEF Edge, Go, Ends, Local
  <2>4. QED
    BY <1>3, <1>4, <2>2, <2>3 DEF t
<1>9. CASE Download(p)
  <2>1. \/ Put(t, Go(t, "toEncode")) \/ Put(t, Caught(t, "abort"))
        \/ (Job(t).s3Key \notin tmp \/ scenario.misfortunes # {}) /\ \E kind : Put(t, Caught(t, kind))
    BY <1>2, <1>9 DEF Download, Read, Call, t
  <2>2. CASE (Job(t).s3Key \notin tmp \/ scenario.misfortunes # {}) /\ \E kind : Put(t, Caught(t, kind))
    <3>1. task[t].relinquished \/ task[t].committed \/ Excused(t)
      BY <1>1, <1>9, <2>2 DEF Excused, Download, At, t
    <3>2. QED
      BY <1>3, <2>2, <3>1 DEF t
  <2>3. QED
    BY <1>3, <1>4, <2>1, <2>2 DEF t
<1>10. CASE Encode(p)
  <2> DEFINE failure == [transient |-> RetryOrDeadLetter(t, "encode", TRUE),
                         permanent |-> GoIn(t, "dead", "body"),
                         nospace   |-> GoIn(t, "defer", "body")]
  <2>1. \/ Put(t, Return(t, "relinquished")) \/ Put(t, Go(t, "toUpload")) \/ Put(t, HandBack(t, "body"))
        \/ \E kind \in scenario.misfortunes : Put(t, failure[kind])
    BY <1>10 DEF Encode, t
  <2>2. CASE \E kind \in scenario.misfortunes : Put(t, failure[kind])
    <3>1. scenario.misfortunes \subseteq {"transient", "permanent", "nospace"}
      BY <1>1 DEF WorkerInv, BoundsTypeOK, Scenario
    <3>2. PICK kind \in {"transient", "permanent", "nospace"} : Put(t, failure[kind])
      BY <2>2, <3>1
    <3>3. Excused(t)
      BY <1>1, <2>2 DEF Excused
    <3>4. CASE kind = "transient"
      BY <1>3, <1>4, <3>2, <3>3, <3>4 DEF t
    <3>5. CASE kind = "permanent"
      BY <1>3, <1>4, <3>2, <3>3, <3>5 DEF t
    <3>6. CASE kind = "nospace"
      BY <1>3, <1>4, <3>2, <3>3, <3>6 DEF t
    <3>7. QED
      BY <3>4, <3>5, <3>6
  <2>3. QED
    BY <1>3, <1>4, <2>1, <2>2 DEF t
<1>11. CASE Upload(p)
  <2>1. Put(t, Go(t, "commit")) \/ Put(t, Caught(t, "abort"))
    BY <1>2, <1>11 DEF Upload, Call, t
  <2>2. QED
    BY <1>3, <1>4, <2>1 DEF t
<1>12. CASE DeleteSource(p)
  <2>1. Put(t, GoIn(t, "succeed", "main")) \/ Put(t, Caught(t, "abort")) \/ Put(t, Return(t, "relinquished"))
    BY <1>2, <1>12 DEF DeleteSource, Call, t
  <2>2. QED
    BY <1>3, <1>4, <2>1 DEF t
<1>13. CASE Recommit(p)
  <2>1. Put(t, Return(t, "error"))
    BY <1>2, <1>13 DEF Recommit, Call, t
  <2>2. QED
    BY <1>3, <1>4, <2>1 DEF t
<1>14. CASE ReportPostponed(p) \/ GiveBack(p) \/ ReportHandedBack(p)
  <2>1. Put(t, Return(t, "retrying")) \/ Put(t, Return(t, "relinquished")) \/ Put(t, Go(t, "handedBack"))
    BY <1>2, <1>14 DEF ReportPostponed, GiveBack, ReportHandedBack, Report, Read, Call, t
  <2>2. QED
    BY <1>3, <1>4, <2>1 DEF t
<1>15. CASE Postpone(p)
  <2>1. Put(t, Go(t, "postponed")) \/ \E l \in Errors(t) : Put(t, l)
    BY <1>2, <1>15 DEF Postpone, Read, Call, t
  <2>2. Excused(t) /\ task[t].mode # "reap" /\ task[t].mode # "none"
    <3>1. task[t].at \in {"retry", "defer"} /\ task[t].mode # "reap"
      BY <1>15 DEF Postpone, Quiet, Roles, t
    <3>2. QED
      BY <1>1, <3>1, LeaseTyped DEF Excused, Fit
  <2>3. \A l \in Thrown(t) : Edge(t, l)
    BY <1>3, <2>2 DEF Thrown
  <2>4. \A l \in Errors(t) : Edge(t, l)
    <3>1. Edge(t, GoIn(t, "dead", "body")) /\ Edge(t, GoIn(t, "dead", "last")) /\ Edge(t, GoIn(t, "dead", "loop"))
          /\ Edge(t, Return(t, "error")) /\ Edge(t, Go(t, "recommit"))
      BY <1>3, <1>4, <2>2 DEF Modes
    <3>2. QED
      BY <1>1, <2>2, <2>3, <3>1 DEF Errors, Local, Modes
  <2>5. QED
    BY <1>3, <1>4, <2>1, <2>4 DEF t
<1>16. CASE Commit(p) \/ Reconcile(p)
  <2> DEFINE m == task[t].claim
             done == [Go(t, "toDelete") EXCEPT !.committed = TRUE]
             again == [task[t] EXCEPT !.tries = @ + 1]
             giveUp == [Return(t, "relinquished") EXCEPT !.relinquished = TRUE]
  <2>1. task[t].at \in {"commit", "reconcile"}
    BY <1>16 DEF Commit, Reconcile, At, t
  <2>2. \/ Put(t, done) /\ CompletionKey(Job(t)) \in completion'
        \/ Put(t, again) \/ Put(t, Go(t, "reconcile")) \/ Put(t, giveUp)
    <3>1. CASE Commit(p) /\ Present(m)
      BY <1>2, <3>1 DEF Commit, Call, IfHeld, Redis, CommitProcessingJob, Job, t
    <3>2. CASE Commit(p) /\ ~Present(m)
      BY <1>2, <3>2 DEF Commit, Call, t
    <3>3. CASE Reconcile(p)
      BY <1>2, <3>3 DEF Reconcile, Read, Call, Nothing, queueVars, redis, t
    <3>4. QED
      BY <1>16, <3>1, <3>2, <3>3
  <2>3. CompletionKey(Job(t)) \in completion' => Edge(t, done)
    BY <1>1 DEF Edge, Go, Ends, Local
  <2>4. Edge(t, again)
    BY <1>1, <2>1 DEF Edge, Ends, Local
  <2>5. Edge(t, giveUp)
    BY <1>1 DEF Edge, Return, Ends, Done, Local
  <2>6. QED
    BY <1>3, <1>4, <2>2, <2>3, <2>4, <2>5 DEF t
<1>17. QED
  BY <1>5, <1>6, <1>7, <1>8, <1>9, <1>10, <1>11, <1>12, <1>13, <1>14, <1>15, <1>16 DEF LoopStep

\* The finalization, of a poll loop or a reaper.
LEMMA FinalEdges ==
  ASSUME WorkerInv, Calm, NEW t \in Tasks, FinalStep(t)
  PROVE  \E l : Put(t, l) /\ Edge(t, l)
<1>1. task[t] \in Local /\ ~Spend("fault")
  BY CalmCalls, LeaseTyped
<1>2. \A label \in Unmarked : Edge(t, Go(t, label))
  BY EdgeGoes
<1>3. {"succeedCallback", "failProgress", "failCallback", "unwanted"} \subseteq Labels
  BY DEF Labels
<1>4. ASSUME Ends(task[t]) \/ scenario.mayReject \/ ShownNext(Job(t))
      PROVE  /\ \A label \in {"discard", "finish"} : Edge(t, Go(t, label))
             /\ \A result \in Results : Edge(t, Return(t, result)) /\ Edge(t, Finalized(t, result))
  <2>1. \A label \in {"discard", "finish"} : Edge(t, Go(t, label))
    BY <1>1, <1>4 DEF Edge, Go, Local
  <2>2. \A result \in Results : Edge(t, Return(t, result))
    BY <1>1, <1>4 DEF Edge, Return, Local
  <2>3. QED
    BY <2>1, <2>2 DEF Finalized
<1>5. variant \in [Movies -> [status : {"PROCESSING", "READY", "FAILED", "DELETED"}, s3Key : Keys]]
  BY DEF WorkerInv, Shared, StoreTypeOK
<1>6. ASSUME NEW status \in {"READY", "FAILED"}, Callback(Job(t), status), SucceedCallback(t) \/ FailCallback(t)
      PROVE  ShownNext(Job(t))
  <2>1. Job(t).movieId \in Movies
    BY <1>6, Goes DEF SucceedCallback, FailCallback, At
  <2>2. QED
    BY <1>5, <1>6, <2>1 DEF Callback, ShownNext
<1>7. CASE Succeed(t)
  <2>1. Put(t, Go(t, "succeedCallback"))
    BY <1>1, <1>7 DEF Succeed, Report, Call
  <2>2. QED
    BY <1>2, <2>1 DEF Unmarked, Labels
<1>8. CASE SucceedCallback(t)
  <2>1. CASE scenario.mayReject /\ Read(t, Go(t, "unwanted"), Errors(t))
    <3>1. Put(t, Go(t, "unwanted"))
      BY <1>1, <2>1 DEF Read, Call
    <3>2. Edge(t, Go(t, "unwanted"))
      BY <1>1, <2>1 DEF Edge, Go, Ends, Local
    <3>3. QED
      BY <3>1, <3>2
  <2>2. CASE Call(t, Callback(Job(t), "READY"), Nothing,
                  IF variant[Job(t).movieId].status = "DELETED" THEN Go(t, "discard")
                  ELSE Finalized(t, "completed"), Errors(t))
    <3>1. Callback(Job(t), "READY") /\ (Put(t, Go(t, "discard")) \/ Put(t, Finalized(t, "completed")))
      BY <1>1, <2>2 DEF Call
    <3>2. "completed" \in Results /\ ShownNext(Job(t))
      BY <1>6, <1>8, <3>1 DEF Results
    <3>3. QED
      BY <1>4, <3>1, <3>2
  <2>3. QED
    BY <1>8, <2>1, <2>2 DEF SucceedCallback
<1>9. CASE DiscardOutput(t)
  <2>1. Put(t, Finalized(t, "completed")) /\ Ends(task[t])
    BY <1>1, <1>9 DEF DiscardOutput, Call, At, Ends
  <2>2. QED
    BY <1>4, <2>1 DEF Results
<1>10. CASE DropRejected(t) \/ DeadLetter(t)
  <2>1. Put(t, Go(t, "failProgress")) /\ task[t].at \in {"unwanted", "dead"}
    BY <1>1, <1>10 DEF DropRejected, DeadLetter, Call, At
  <2>2. Edge(t, Go(t, "failProgress"))
    BY <1>1, <2>1 DEF Edge, Go, Ends, Local
  <2>3. QED
    BY <2>1, <2>2
<1>11. CASE ReportFailure(t)
  <2>1. Put(t, Go(t, "failCallback")) /\ task[t].at = "failProgress"
    BY <1>1, <1>11 DEF ReportFailure, Report, Call, At
  <2>2. Edge(t, Go(t, "failCallback"))
    BY <1>1, <2>1 DEF Edge, Go, Ends, Local
  <2>3. QED
    BY <2>1, <2>2
<1>12. CASE FailCallback(t)
  <2>1. /\ Callback(Job(t), "FAILED") \/ scenario.mayReject
        /\ Put(t, Finalized(t, "failed")) \/ Put(t, Return(t, "error")) \/ Put(t, Return(t, "failed"))
    BY <1>1, <1>12 DEF FailCallback, Call
  <2>2. scenario.mayReject \/ ShownNext(Job(t))
    BY <1>6, <1>12, <2>1
  <2>3. QED
    BY <1>4, <2>1, <2>2 DEF Results
<1>13. CASE FinishFinalized(t)
  <2>1. (Put(t, NextClaim(t)) \/ Put(t, Return(t, "completed"))) /\ Ends(task[t])
    BY <1>1, <1>13 DEF FinishFinalized, Call, At, Ends
  <2>2. Edge(t, NextClaim(t))
    BY <1>1, <2>1 DEF Edge, NextClaim, Local
  <2>3. QED
    BY <1>4, <2>1, <2>2 DEF Results
<1>14. QED
  BY <1>7, <1>8, <1>9, <1>10, <1>11, <1>12, <1>13 DEF FinalStep

\* The reaper, before the finalization.
LEMMA ReaperEdges ==
  ASSUME WorkerInv, Calm, Roles, NEW p \in Reapers, ReaperStep(p)
  PROVE  \E l : Put(Reaper(p), l) /\ (Fresh(l) \/ Edge(Reaper(p), l))
<1> DEFINE t == Reaper(p)
<1>1. t \in Tasks /\ task[t] \in Local /\ ~Spend("fault")
  BY CalmCalls, LeaseTyped DEF Tasks
<1>2. CASE ReapStart(p)
  <2>1. PICK l : /\ l = [Resting EXCEPT !.at = "reap", !.mode = "reap",
                                        !.todo = {m \in ClaimIds : lease[m] = "stale"}]
                 /\ Put(t, l)
    BY <1>2 DEF ReapStart
  <2>2. l.at = "reap" /\ l.mode = "reap"
    BY <2>1 DEF Resting
  <2>3. QED
    BY <2>1, <2>2 DEF Fresh
<1>3. CASE Reap(p)
  <2>1. task[t].mode = "reap"
    BY <1>1, <1>3 DEF Reap, At, Roles
  <2>2. CASE Put(t, Resting)
    <3>1. Fresh(Resting)
      BY DEF Fresh, Resting
    <3>2. QED
      BY <2>2, <3>1
  <2>3. CASE task[t].todo # {}
    <3>1. PICK m \in task[t].todo :
            \E at \in {"succeed", "guess"} :
              Put(t, [[task[t] EXCEPT !.claim = m, !.todo = @ \ {m}] EXCEPT !.at = at])
      BY <1>1, <1>3, <2>3 DEF Reap, Read, Call
    <3>2. PICK at \in {"succeed", "guess"}, l \in Local :
            l = [[task[t] EXCEPT !.claim = m, !.todo = @ \ {m}] EXCEPT !.at = at] /\ Put(t, l)
      <4>1. \A at \in {"succeed", "guess"} :
              [[task[t] EXCEPT !.claim = m, !.todo = @ \ {m}] EXCEPT !.at = at] \in Local
        BY <1>1 DEF Local, Labels
      <4>2. QED
        BY <3>1, <4>1
    <3>3. l.at = at /\ l.mode = "reap"
      BY <1>1, <2>1, <3>2 DEF Local
    <3>4. QED
      BY <3>2, <3>3 DEF Fresh
  <2>4. QED
    BY <1>3, <2>2, <2>3 DEF Reap
<1>4. CASE Guess(p) \/ ReleaseFailed(p) \/ RequeueStale(p)
  <2>1. \/ \E label \in {"release", "succeed", "requeue"} : Put(t, Go(t, label))
        \/ Put(t, NextClaim(t))
    BY <1>1, <1>4 DEF Guess, ReleaseFailed, RequeueStale, Read, Call
  <2>2. \A label \in {"release", "succeed", "requeue"} : Edge(t, Go(t, label))
    BY <1>1, EdgeGoes DEF Unmarked, Labels
  <2>3. Fresh(NextClaim(t))
    BY <1>1 DEF Fresh, NextClaim, Local
  <2>4. QED
    BY <2>1, <2>2, <2>3
<1>5. QED
  BY <1>2, <1>3, <1>4 DEF ReaperStep

\* What a step makes of a task.
LEMMA Edges ==
  ASSUME Quiet, [WorkerNext]_workerVars, NEW t \in Tasks
  PROVE  Keeping(t, task'[t]) \/ Fresh(task'[t]) \/ Edge(t, task'[t])
<1> DEFINE Goal == Keeping(t, task'[t]) \/ Fresh(task'[t]) \/ Edge(t, task'[t])
<1>1. WorkerInv /\ Calm /\ Roles /\ task \in [Tasks -> Fit] /\ task[t] \in Local
  BY LeaseTyped DEF Quiet, WorkerInv
<1>2. ~Spend("fault") /\ ~Spend("crash")
  BY <1>1, CalmCalls
<1>3. ASSUME UNCHANGED task PROVE Goal
  BY <1>3 DEF Keeping
<1>4. ASSUME NEW u \in Tasks, NEW l, Put(u, l), u = t => Fresh(l) \/ Edge(t, l) \/ Keeping(t, l) PROVE Goal
  <2>1. task'[t] = IF u = t THEN l ELSE task[t]
    BY <1>1, <1>4 DEF Put
  <2>2. QED
    BY <1>4, <2>1 DEF Keeping
<1>5. ASSUME NEW p \in Processes, LoopStep(p) PROVE Goal
  <2>1. CASE BeginPoll(p) \/ FindNothing(p) \/ Resolve(p)
    <3>1. Fresh(Resting) /\ (At(Loop(p), "idle") => Fresh(Go(Loop(p), "poll")))
      BY <1>1 DEF Fresh, Resting, Go, At, Roles, Tasks, Local, Fit
    <3>2. Put(Loop(p), Resting) \/ (At(Loop(p), "idle") /\ Put(Loop(p), Go(Loop(p), "poll")))
      BY <1>2, <2>1 DEF BeginPoll, FindNothing, Resolve, Call
    <3>3. \E l : Put(Loop(p), l) /\ Fresh(l)
      BY <3>1, <3>2, Zenon
    <3>4. QED
      BY <1>4, <3>3 DEF Tasks
  <2>2. CASE Claim(p)
    <3>1. \E m \in ClaimIds : Put(Loop(p), Resting) \/ Put(Loop(p), [Resting EXCEPT !.at = "claimed", !.claim = m])
      BY <1>2, <2>2, Zenon DEF Claim, Call
    <3>2. Fresh(Resting) /\ \A m \in ClaimIds : Fresh([Resting EXCEPT !.at = "claimed", !.claim = m])
      BY DEF Fresh, Resting
    <3>3. \E l : Put(Loop(p), l) /\ Fresh(l)
      BY <3>1, <3>2, Zenon
    <3>4. QED
      BY <1>4, <3>3 DEF Tasks
  <2>3. CASE ~BeginPoll(p) /\ ~FindNothing(p) /\ ~Resolve(p) /\ ~Claim(p)
    BY <1>4, <1>5, <2>3, LoopEdges DEF Tasks
  <2>4. QED
    BY <2>1, <2>2, <2>3
<1>6. ASSUME NEW u \in Tasks, FinalStep(u) PROVE Goal
  BY <1>1, <1>4, <1>6, FinalEdges
<1>7. ASSUME NEW p \in Reapers, ReaperStep(p) PROVE Goal
  BY <1>1, <1>4, <1>7, ReaperEdges DEF Tasks
<1>8. ASSUME NEW p \in Processes, EncodeProgress(p) \/ Heartbeat(p) \/ Sigterm(p) \/ HandlerStep(p) \/ Crash(p) PROVE Goal
  <2>1. \/ UNCHANGED task
        \/ Put(Loop(p), [task[Loop(p)] EXCEPT !.relinquished = TRUE])
        \/ task' = [u \in Tasks |-> IF u[1] = p THEN Resting ELSE task[u]]
    BY <1>2, <1>8 DEF EncodeProgress, Heartbeat, Sigterm, HandlerStep, DrainEnds, HandOff, Settled, Exit, Crash, Replaced
  <2>2. ASSUME task' = [u \in Tasks |-> IF u[1] = p THEN Resting ELSE task[u]] PROVE Goal
    BY <2>2 DEF Keeping, Fresh, Resting
  <2>3. QED
    BY <1>3, <1>4, <2>1, <2>2 DEF Keeping, Tasks
<1>9. ASSUME \/ UNCHANGED workerVars
             \/ \E m \in ClaimIds : LeaseEnds(m) \/ Stall(m)
             \/ \E ready \in SUBSET retry : RetriesComeDue(ready)
             \/ \E v \in Movies : ProgressTtl(v) \/ DeleteMovie(v)
             \/ \E object \in erasing : Erase(object)
      PROVE  Goal
  <2>1. UNCHANGED task
    BY <1>9 DEF workerVars, LeaseEnds, Stall, RetriesComeDue, ProgressTtl, DeleteMovie, Erase
  <2>2. QED
    BY <1>3, <2>1
<1>10. QED
  BY <1>5, <1>6, <1>7, <1>8, <1>9 DEF WorkerNext

\* Who settles a claim, writes a dead letter or spends a retry.
LEMMA VerdictsMove ==
  ASSUME [WorkerNext]_workerVars
  PROVE  \/ UNCHANGED <<resolved, dead, spent>>
         \/ \E m \in ClaimIds : ClaimNextEncodeJob(m)
         \/ \E ready \in SUBSET retry : ProcessRetryQueue(ready)
         \/ \E t \in Tasks : FinishFinalized(t) \/ DeadLetter(t)
         \/ \E p \in Processes : Resolve(p) \/ Postpone(p)
         \/ \E p \in Reapers : ReleaseFailed(p)
<1> DEFINE Same == UNCHANGED <<resolved, dead, spent>>
<1>1. (\A v, s : SetEncodeProgress(v, s) => Same) /\ (\A m : CommitProcessingJob(m) => Same)
      /\ (\A m : RequeueProcessingJob(m) => Same) /\ (\A m : RefreshProcessingJob(m) => Same)
      /\ (\A m : ExpireProcessingJob(m) => Same) /\ (\A m : LeaseRunsOut(m) => Same)
      /\ (\A v : ProgressExpires(v) => Same) /\ (UNCHANGED queueVars => Same) /\ (Nothing => Same)
  BY DEF SetEncodeProgress, CommitProcessingJob, RequeueProcessingJob, RefreshProcessingJob, ExpireProcessingJob,
     LeaseRunsOut, ProgressExpires, queueVars, redis, history, Nothing
<1>2. ASSUME NEW p \in Processes, LoopStep(p), ~Claim(p), ~Resolve(p), ~Postpone(p) PROVE Same
  <2>1. CASE BeginPoll(p) \/ FindNothing(p) \/ CheckCompletion(p) \/ Begin(p) \/ Inspect(p) \/ StartStage(p)
    BY <1>1, <2>1, Zenon DEF BeginPoll, FindNothing, CheckCompletion, Begin, Inspect, StartStage, Report, Read, Call, Redis
  <2>2. CASE Download(p) \/ Encode(p)
    BY <1>1, <2>2, Zenon DEF Download, Encode, Read, Call
  <2>3. CASE Upload(p) \/ DeleteSource(p)
    BY <1>1, <2>3 DEF Upload, DeleteSource, Call, Nothing
  <2>4. CASE Commit(p) \/ Reconcile(p) \/ Recommit(p)
    BY <1>1, <2>4, Zenon DEF Commit, Reconcile, Recommit, IfHeld, Read, Call, Redis
  <2>5. CASE ReportPostponed(p) \/ GiveBack(p) \/ ReportHandedBack(p)
    BY <1>1, <2>5, Zenon DEF ReportPostponed, GiveBack, ReportHandedBack, Report, Read, Call, Redis
  <2>6. QED
    BY <1>2, <2>1, <2>2, <2>3, <2>4, <2>5 DEF LoopStep
<1>3. ASSUME NEW p \in Processes, Claim(p) PROVE Same \/ \E m \in ClaimIds : ClaimNextEncodeJob(m)
  BY <1>1, <1>3, Zenon DEF Claim, Call, Redis
<1>4. ASSUME NEW t \in Tasks, FinalStep(t), ~FinishFinalized(t), ~DeadLetter(t) PROVE Same
  <2>1. CASE Succeed(t) \/ ReportFailure(t)
    BY <1>1, <2>1, Zenon DEF Succeed, ReportFailure, Report, Call, Redis
  <2>2. CASE SucceedCallback(t) \/ FailCallback(t) \/ DiscardOutput(t) \/ DropRejected(t)
    BY <1>1, <2>2 DEF SucceedCallback, FailCallback, DiscardOutput, DropRejected, Callback, Discard, Read, Call, Nothing
  <2>3. QED
    BY <1>4, <2>1, <2>2 DEF FinalStep
<1>5. ASSUME NEW p \in Reapers, ReaperStep(p), ~ReleaseFailed(p) PROVE Same
  <2>1. CASE ReapStart(p) \/ Reap(p)
    BY <1>1, <2>1, Zenon DEF ReapStart, Reap, Read, Call, Nothing
  <2>2. CASE Guess(p) \/ RequeueStale(p)
    BY <1>1, <2>2, Zenon DEF Guess, RequeueStale, Read, Call, Redis
  <2>3. QED
    BY <1>5, <2>1, <2>2 DEF ReaperStep
<1>6. ASSUME NEW p \in Processes, EncodeProgress(p) \/ Heartbeat(p) \/ Sigterm(p) \/ HandlerStep(p) \/ Crash(p) PROVE Same
  BY <1>1, <1>6 DEF EncodeProgress, Heartbeat, Sigterm, HandlerStep, DrainEnds, HandOff, Settled, Exit, Crash, Replaced, Redis
<1>7. CASE \/ UNCHANGED workerVars
           \/ \E m \in ClaimIds : LeaseEnds(m) \/ Stall(m)
           \/ \E v \in Movies : ProgressTtl(v) \/ DeleteMovie(v)
           \/ \E object \in erasing : Erase(object)
  BY <1>1, <1>7 DEF workerVars, LeaseEnds, Stall, ProgressTtl, DeleteMovie, Erase, Redis
<1>8. CASE \E ready \in SUBSET retry : RetriesComeDue(ready)
  BY <1>8 DEF RetriesComeDue, Redis
<1>9. QED
  BY <1>2, <1>3, <1>4, <1>5, <1>6, <1>7, <1>8 DEF WorkerNext

\* Who touches the buckets, and what a movie's deletion has still to remove.
LEMMA FilesMove ==
  ASSUME [WorkerNext]_workerVars
  PROVE  \/ UNCHANGED <<tmp, prod, erasing>>
         \/ \E v \in Movies : DeleteMovie(v)
         \/ \E object \in erasing : Erase(object)
         \/ \E p \in Processes : Upload(p) \/ DeleteSource(p)
         \/ \E t \in Tasks : DiscardOutput(t) \/ DropRejected(t)
<1> DEFINE Same == UNCHANGED <<tmp, prod, erasing>>
<1>1. (UNCHANGED store => Same) /\ (Nothing => Same) /\ \A j, s : Callback(j, s) => Same
  BY DEF store, Nothing, Callback
<1>2. ASSUME NEW p \in Processes, LoopStep(p), ~Upload(p), ~DeleteSource(p) PROVE Same
  <2>1. CASE BeginPoll(p) \/ Claim(p) \/ FindNothing(p) \/ CheckCompletion(p) \/ Begin(p) \/ Inspect(p) \/ StartStage(p)
    BY <1>1, <2>1, Zenon DEF BeginPoll, Claim, FindNothing, CheckCompletion, Begin, Inspect, StartStage, Report, Read, Call, Redis
  <2>2. CASE Download(p) \/ Encode(p) \/ Commit(p) \/ Reconcile(p) \/ Recommit(p)
    BY <1>1, <2>2, Zenon DEF Download, Encode, Commit, Reconcile, Recommit, IfHeld, Read, Call, Redis
  <2>3. CASE Postpone(p) \/ ReportPostponed(p) \/ GiveBack(p) \/ ReportHandedBack(p) \/ Resolve(p)
    BY <1>1, <2>3, Zenon DEF Postpone, ReportPostponed, GiveBack, ReportHandedBack, Resolve, Report, Read, Call, Redis
  <2>4. QED
    BY <1>2, <2>1, <2>2, <2>3 DEF LoopStep
<1>3. ASSUME NEW t \in Tasks, FinalStep(t), ~DiscardOutput(t), ~DropRejected(t) PROVE Same
  BY <1>1, <1>3, Zenon DEF FinalStep, Succeed, SucceedCallback, DeadLetter, ReportFailure, FailCallback, FinishFinalized,
     Report, Read, Call, Redis
<1>4. ASSUME NEW p \in Reapers, ReaperStep(p) PROVE Same
  BY <1>1, <1>4, Zenon DEF ReaperStep, ReapStart, Reap, Guess, ReleaseFailed, RequeueStale, Read, Call, Redis
<1>5. ASSUME NEW p \in Processes, EncodeProgress(p) \/ Heartbeat(p) \/ Sigterm(p) \/ HandlerStep(p) \/ Crash(p) PROVE Same
  BY <1>1, <1>5 DEF EncodeProgress, Heartbeat, Sigterm, HandlerStep, DrainEnds, HandOff, Settled, Exit, Crash, Replaced, Redis, store
<1>6. CASE \/ UNCHANGED workerVars
           \/ \E m \in ClaimIds : LeaseEnds(m) \/ Stall(m)
           \/ \E ready \in SUBSET retry : RetriesComeDue(ready)
           \/ \E v \in Movies : ProgressTtl(v)
  BY <1>1, <1>6 DEF workerVars, LeaseEnds, Stall, RetriesComeDue, ProgressTtl, Redis
<1>7. QED
  BY <1>2, <1>3, <1>4, <1>5, <1>6 DEF WorkerNext

\* A claim is settled by a task that ends it.
LEMMA NewlyResolved ==
  ASSUME Quiet, [WorkerNext]_workerVars, NEW j \in resolved', j \notin resolved
  PROVE  \E t \in Tasks : Job(t) = j /\ Ends(task[t])
<1>1. WorkerInv /\ Calm /\ InOrder
  BY DEF Quiet
<1>2. main \in Seq(Entry) /\ retry \subseteq Entry /\ (\A e \in retry : e.job \in sent)
      /\ \A a \in DOMAIN main : main[a].job \in sent
  BY <1>1 DEF WorkerInv, Shared, QueueInv, QueueTypeOK, Known
<1>3. CASE UNCHANGED <<resolved, dead, spent>>
  BY <1>3
<1>4. ASSUME NEW m \in ClaimIds, ClaimNextEncodeJob(m) PROVE FALSE
  <2>1. Head(main) = main[1] /\ 1 \in DOMAIN main
    BY <1>2, <1>4 DEF ClaimNextEncodeJob
  <2>2. Head(main).job \notin Malformed
    BY <1>1, <1>2, <2>1 DEF Calm
  <2>3. QED
    BY <1>4, <2>2 DEF ClaimNextEncodeJob
<1>5. ASSUME NEW ready \in SUBSET retry, ProcessRetryQueue(ready) PROVE FALSE
  <2>1. {e \in ready : e.job \in Malformed} = {}
    BY <1>1, <1>2 DEF Calm
  <2>2. QED
    BY <1>5, <2>1 DEF ProcessRetryQueue
<1>6. ASSUME NEW t \in Tasks, FinishFinalized(t) PROVE Job(t) = j /\ Ends(task[t])
  <2>1. resolved' \subseteq resolved \cup {Job(t)} /\ task[t].at = "finish"
    BY <1>6 DEF FinishFinalized, Call, Redis, Nothing, FinishProcessingJob, queueVars, history, Job, At
  <2>2. QED
    BY <2>1 DEF Ends
<1>7. ASSUME \/ \E t \in Tasks : DeadLetter(t)
             \/ \E p \in Processes : Postpone(p)
      PROVE  FALSE
  <2>1. resolved' = resolved
    BY <1>7 DEF DeadLetter, Postpone, Read, Call, Redis, Nothing, AddJobToDeadLetterQueue, AddJobToRetryQueue,
       DeferJobForInfrastructure, queueVars, history
  <2>2. QED
    BY <2>1
<1>8. ASSUME NEW p \in Processes, Resolve(p) PROVE Job(Loop(p)) = j /\ Ends(task[Loop(p)])
  <2> DEFINE m == task[Loop(p)].claim
  <2>1. task[Loop(p)].at = "resolve"
    BY <1>8 DEF Resolve, At
  <2>2. ~task[Loop(p)].relinquished /\ Present(m) /\ resolved' \subseteq resolved \cup {Job(Loop(p))}
    BY <1>8 DEF Resolve, Call, Redis, Nothing, FinishProcessingJob, ReleaseProcessingJob, queueVars, history, Job
  <2>3. InHand(task[Loop(p)], handler[p], m)
    BY <2>1, LoopsClaim
  <2>4. QED
    BY <2>1, <2>2, <2>3 DEF Ends, InHand
<1>9. ASSUME NEW p \in Reapers, ReleaseFailed(p) PROVE FALSE
  <2>1. task[Reaper(p)].at = "release" /\ Reaping(task[Reaper(p)])
    BY <1>1, <1>9 DEF ReleaseFailed, At, InOrder
  <2>2. ~Present(task[Reaper(p)].claim)
    BY <2>1 DEF Reaping
  <2>3. QED
    BY <1>9, <2>2 DEF ReleaseFailed, Call, Redis, Nothing, ReleaseProcessingJob, queueVars, history
<1>10. QED
  BY <1>3, <1>4, <1>5, <1>6, <1>7, <1>8, <1>9, VerdictsMove DEF Tasks

-----------------------------------------------------------------------------
(***************************************************************************)
(* No movie waits for work that nobody has.  A claim ends for good only    *)
(* once the backend has heard of the job, so the movie of a job that is in *)
(* no list and under no claim is not processing this upload any more.      *)
(***************************************************************************)
Answered ==
  ~scenario.mayReject =>
    /\ \A j \in resolved : Shown(j)
    /\ \A t \in Tasks : Ends(task[t]) => Shown(Job(t))
    /\ \A v \in Movies : \E j \in sent : Encodes(j, v)

LEMMA AnsweredInit == WorkerInit => Answered
<1> SUFFICES ASSUME WorkerInit PROVE Answered
  OBVIOUS
<1>1. \A t \in Tasks : ~Ends(task[t])
  BY DEF WorkerInit, Ends, Resting
<1>2. ASSUME NEW v \in Movies PROVE \E j \in sent : Encodes(j, v)
  <2>1. PICK i \in DOMAIN scenario.backlog :
          scenario.backlog[i].movieId = v /\ scenario.backlog[i].s3Key = NewestKey(scenario.backlog, v)
    BY NewestKeyFound DEF WorkerInit
  <2>2. scenario.backlog[i] \in sent /\ variant[v].s3Key = NewestKey(scenario.backlog, v)
    BY DEF WorkerInit
  <2>3. QED
    BY <2>1, <2>2 DEF Encodes
<1>3. QED
  BY <1>1, <1>2 DEF Answered, WorkerInit

LEMMA AnsweredNext ==
  ASSUME Quiet, WorkerInv', [WorkerNext]_workerVars, Answered
  PROVE  Answered'
<1> SUFFICES ASSUME ~scenario'.mayReject PROVE Answered'
  BY DEF Answered
<1>1. WorkerInv /\ ~scenario.mayReject /\ sent' = sent
  BY CalmKept DEF Quiet
<1>2. /\ \A j \in resolved : Shown(j)
      /\ \A t \in Tasks : Ends(task[t]) => Shown(Job(t))
      /\ \A v \in Movies : \E j \in sent : Encodes(j, v)
  BY <1>1 DEF Answered
<1>3. \A v \in Movies : /\ variant[v].status # "PROCESSING" => variant'[v].status # "PROCESSING"
                        /\ variant'[v].s3Key = variant[v].s3Key
  BY <1>1, StatusKept
<1>4. \A j \in Jobs : Shown(j) => Shown(j)'
  BY <1>3, JobsAssumption DEF Shown
<1>5. resolved \subseteq Jobs /\ sent \subseteq Jobs
  BY <1>1 DEF WorkerInv, Shared, QueueInv, QueueTypeOK
<1>6. ASSUME NEW t \in Tasks, Ends(task[t])
      PROVE  Job(t) \in Jobs /\ Shown(Job(t)) /\ Issued(task[t].claim) /\ task[t].claim \in ClaimIds
  BY <1>1, <1>2, <1>6, Goes DEF Ends
<1>7. ASSUME NEW j \in resolved' PROVE Shown(j)'
  <2>1. CASE j \in resolved
    BY <1>2, <1>4, <1>5, <2>1
  <2>2. CASE j \notin resolved
    <3>1. PICK t \in Tasks : Job(t) = j /\ Ends(task[t])
      BY <2>2, NewlyResolved
    <3>2. QED
      BY <1>4, <1>6, <3>1
  <2>3. QED
    BY <2>1, <2>2
<1>8. ASSUME NEW t \in Tasks, Ends(task[t])' PROVE Shown(Job(t))'
  <2>1. PICK l, m, j : l = task'[t] /\ m = task[t].claim /\ j = JobOf(m)
    OBVIOUS
  <2>2. l.claim = m /\ (Ends(task[t]) \/ ShownNext(j)) /\ Issued(m) /\ m \in ClaimIds
    <3>1. Ends(l) /\ ~Fresh(l)
      BY <1>8, <2>1 DEF Ends, Fresh
    <3>2. l.claim \in ClaimIds
      BY <1>8, <2>1 DEF Ends, WorkerInv, Fit
    <3>3. CASE Keeping(t, l)
      <4>1. task[t] \in Local
        BY <1>1, LeaseTyped
      <4>2. l.claim = m /\ Ends(task[t])
        BY <2>1, <3>1, <3>3, <4>1 DEF Keeping, Ends, Local
      <4>3. QED
        BY <1>6, <2>1, <4>2
    <3>4. CASE Edge(t, l)
      <4>1. l.claim = m /\ (Ends(task[t]) \/ ShownNext(j))
        BY <1>1, <2>1, <3>1, <3>2, <3>4, WorkerAssumption DEF Edge, Job
      <4>2. task[t].claim # None
        BY <2>1, <3>2, <4>1, WorkerAssumption
      <4>3. Issued(m)
        BY <1>1, <2>1, <4>2, ClaimIsOfTask DEF Quiet
      <4>4. QED
        BY <3>2, <4>1, <4>3
    <3>5. QED
      BY <2>1, <3>1, <3>3, <3>4, Edges
  <2>3. claims'[m] = claims[m]
    BY <1>1, <2>2, QueueKeeps DEF ClaimsKept
  <2>4. Shown(j)'
    <3>1. CASE Ends(task[t])
      BY <1>4, <1>6, <2>1, <3>1 DEF Job
    <3>2. CASE ShownNext(j)
      BY <3>2 DEF Shown, ShownNext
    <3>3. QED
      BY <2>2, <3>1, <3>2
  <2>5. Job(t)' = j
    BY <2>1, <2>2, <2>3 DEF Job, JobOf
  <2>6. QED
    BY <2>4, <2>5 DEF Shown
<1>9. ASSUME NEW v \in Movies PROVE (\E j \in sent : Encodes(j, v))'
  BY <1>1, <1>2, <1>3 DEF Encodes
<1>10. QED
  BY <1>7, <1>8, <1>9 DEF Answered

\* A movie that is still processing has a job in the queue that will settle it,
\* whatever is deleted, shut down or goes wrong with the files: where no call
\* fails and no process stalls or crashes, and the backend takes the callbacks,
\* no claim is finished or released before the callback has been answered
\* (finalizeSuccess and notifyFailure of job-finalizer.ts before the finally
\* block of worker-loop.ts).
THEOREM MoviesStillRunning == WorkerSpec => [](Calm => StillRunning)
<1>1. WorkerInv /\ Answered => StillRunning
  <2> SUFFICES ASSUME WorkerInv, Answered, ~scenario.mayReject, NEW v \in Movies, variant[v].status = "PROCESSING"
               PROVE  \E j \in sent : Encodes(j, v) /\ Live(j)
    BY DEF StillRunning
  <2>1. PICK j \in sent : Encodes(j, v)
    BY DEF Answered
  <2>2. j \notin resolved
    BY <2>1 DEF Answered, Shown, Encodes
  <2>3. Live(j)
    BY <2>2 DEF WorkerInv, Shared, QueueInv, NothingLost, Live
  <2>4. QED
    BY <2>1, <2>3
<1>2. WorkerInit => (Calm => Answered)
  BY AnsweredInit
<1>3. WorkerInv /\ WorkerInv' /\ Roles /\ CalmInv /\ (Calm => Answered) /\ [WorkerNext]_workerVars => (Calm => Answered)'
  <2> SUFFICES ASSUME WorkerInv, WorkerInv', Roles, CalmInv, Calm => Answered, [WorkerNext]_workerVars, Calm'
               PROVE  Answered'
    OBVIOUS
  <2>1. Calm
    BY CalmKept DEF Calm
  <2>2. QED
    BY <2>1, AnsweredNext DEF Quiet, CalmInv
<1>4. QED
  BY <1>1, <1>2, <1>3, CalmInvariance, PTL DEF WorkerSpec

-----------------------------------------------------------------------------
(***************************************************************************)
(* A shutdown harms no job.  Where nothing but shutdowns happens, a claim  *)
(* that is given up goes back to the queue with its retries as they were,  *)
(* and the next owner still finds the upload, or the record that it is     *)
(* done with.                                                              *)
(***************************************************************************)
\* A completion goes only with the claim of its job.
LEMMA RecordsEnd ==
  ASSUME Quiet, [WorkerNext]_workerVars
  PROVE  /\ resolved \subseteq resolved'
         /\ \A j \in sent : CompletionKey(j) \in completion => CompletionKey(j) \in completion' \/ j \in resolved'
<1>1. WorkerInv /\ Calm
  BY DEF Quiet
<1>2. ASSUME NEW m \in ClaimIds, FinishProcessingJob(m), NEW j \in sent, CompletionKey(j) = CompletionKey(JobOf(m)), Present(m)
      PROVE  j \in resolved'
  <2>1. JobOf(m) \in sent /\ JobOf(m) \in resolved'
    BY <1>1, <1>2, IssuedJob DEF FinishProcessingJob
  <2>2. j.s3Key = JobOf(m).s3Key
    BY <1>2 DEF CompletionKey
  <2>3. QED
    BY <1>1, <2>1, <2>2 DEF Calm
<1>3. ASSUME NEW m \in ClaimIds, FinishProcessingJob(m)
      PROVE  /\ resolved \subseteq resolved'
             /\ \A j \in sent : CompletionKey(j) \in completion => CompletionKey(j) \in completion' \/ j \in resolved'
  BY <1>2, <1>3 DEF FinishProcessingJob
<1>4. ASSUME NEW m \in ClaimIds, OwnerCall(m) \/ LeaseRunsOut(m) \/ ClaimNextEncodeJob(m), ~FinishProcessingJob(m)
      PROVE  resolved \subseteq resolved' /\ completion \subseteq completion'
  <2>1. CASE OwnerCall(m)
    BY <1>4, <2>1 DEF OwnerCall, AddJobToRetryQueue, DeferJobForInfrastructure, CommitProcessingJob,
       ReleaseProcessingJob, RefreshProcessingJob, RequeueProcessingJob, history
  <2>2. CASE LeaseRunsOut(m) \/ ClaimNextEncodeJob(m)
    BY <2>2 DEF LeaseRunsOut, ClaimNextEncodeJob, history
  <2>3. QED
    BY <1>4, <2>1, <2>2
<1>5. ASSUME \/ UNCHANGED queueVars
             \/ \E ready \in SUBSET retry : ProcessRetryQueue(ready)
             \/ \E v \in Movies : ProgressExpires(v) \/ \E s \in Status : SetEncodeProgress(v, s)
             \/ \E j \in Jobs : AddJobToDeadLetterQueue(j)
             \/ \E p \in Processes : HandOff(p) /\ ExpireProcessingJob(task[Loop(p)].claim)
      PROVE  resolved \subseteq resolved' /\ completion \subseteq completion'
  <2>1. CASE \E ready \in SUBSET retry : ProcessRetryQueue(ready)
    BY <2>1 DEF ProcessRetryQueue
  <2>2. CASE UNCHANGED queueVars \/ \E p \in Processes : HandOff(p) /\ ExpireProcessingJob(task[Loop(p)].claim)
    BY <2>2 DEF ExpireProcessingJob, queueVars, redis, history
  <2>3. CASE \/ \E v \in Movies : ProgressExpires(v) \/ \E s \in Status : SetEncodeProgress(v, s)
             \/ \E j \in Jobs : AddJobToDeadLetterQueue(j)
    BY <2>3 DEF ProgressExpires, SetEncodeProgress, AddJobToDeadLetterQueue, history
  <2>4. QED
    BY <1>5, <2>1, <2>2, <2>3
<1>6. QED
  BY <1>1, <1>3, <1>4, <1>5, QueueEffect

\* Where a job that is spoiled, rejected or to be tried again has its claim.
Spoiled == {"unwanted", "dead", "failProgress", "failCallback", "retry", "defer"}

Unharmed ==
  /\ \A t \in Tasks : task[t].at \notin Spoiled
  /\ \A p \in Processes : task[Loop(p)].claim # None =>
       /\ task[Loop(p)].at \in {"toDelete", "delete"} => task[Loop(p)].committed
       /\ task[Loop(p)].committed => Noted(task[Loop(p)].claim) \/ Job(Loop(p)) \in resolved
  /\ \A j \in sent : j.s3Key \in tmp \/ CompletionKey(j) \in completion \/ j \in resolved
  /\ erasing = {}
  /\ \A v \in Movies : variant[v].status # "FAILED"
  /\ dead = {} /\ \A j \in sent : spent[j] = 0

LEMMA UnharmedInit == WorkerInit => Unharmed
<1> SUFFICES ASSUME WorkerInit PROVE Unharmed
  OBVIOUS
<1>1. \A t \in Tasks : task[t] = Resting
  BY DEF WorkerInit
<1>2. Resting.claim = None /\ Resting.at \notin Spoiled
  BY DEF Resting, Spoiled
<1>3. sent \subseteq Jobs
  BY WorkerInitInv DEF WorkerInv, Shared, QueueInv, QueueTypeOK
<1>4. \A j \in sent : j.s3Key \in tmp /\ spent[j] = 0
  BY <1>3 DEF WorkerInit
<1>5. QED
  BY <1>1, <1>2, <1>4 DEF Unharmed, WorkerInit, Tasks

\* The upload of a job at work that is not committed is still there.
LEMMA SourceThere ==
  ASSUME Quiet, Unharmed, NEW t \in Tasks, task[t].mode # "reap", task[t].at \notin {"idle", "poll", "reap"} \cup Parting,
         ~task[t].relinquished, ~task[t].committed
  PROVE  Job(t).s3Key \in tmp
<1>1. WorkerInv /\ Roles /\ InOrder
  BY DEF Quiet
<1>2. PICK p \in Processes : t = Loop(p)
  <2>1. \A q \in Reapers : t # Reaper(q)
    BY <1>1 DEF Roles
  <2>2. QED
    BY <2>1 DEF Tasks
<1>3. PICK m : m = task[t].claim
  OBVIOUS
<1>4. m \in ClaimIds /\ Issued(m) /\ InHand(task[t], handler[p], m)
  BY <1>2, <1>3, LoopsClaim
<1>5. Present(m) /\ ~Noted(m)
  BY <1>4 DEF InHand, Present
<1>6. Job(t) = JobOf(m) /\ Job(t) \in sent /\ Job(t) \in Jobs
  BY <1>1, <1>3, <1>4, IssuedJob DEF Job
<1>7. Job(t) \notin resolved
  <2>1. Exclusive(Job(t))
    BY <1>1, <1>6 DEF WorkerInv, Shared, QueueInv, OnePlace, Loose, InOrder, Books
  <2>2. Held(Job(t))
    BY <1>4, <1>5, <1>6 DEF Held, HeldBy
  <2>3. QED
    BY <2>1, <2>2 DEF Exclusive
<1>8. QED
  BY <1>5, <1>6, <1>7 DEF Unharmed, Noted

LEMMA UnharmedNext ==
  ASSUME Quiet, WorkerInv', Roles', [WorkerNext]_workerVars, OnlyShutdowns, Unharmed
  PROVE  Unharmed'
<1>1. WorkerInv /\ Calm /\ Roles /\ InOrder /\ sent' = sent
  BY CalmKept DEF Quiet
<1>2. /\ \A t \in Tasks : task[t].at \notin Spoiled
      /\ \A p \in Processes : task[Loop(p)].claim # None =>
           /\ task[Loop(p)].at \in {"toDelete", "delete"} => task[Loop(p)].committed
           /\ task[Loop(p)].committed => Noted(task[Loop(p)].claim) \/ Job(Loop(p)) \in resolved
      /\ \A j \in sent : j.s3Key \in tmp \/ CompletionKey(j) \in completion \/ j \in resolved
      /\ erasing = {}
      /\ \A v \in Movies : variant[v].status # "FAILED"
      /\ dead = {} /\ \A j \in sent : spent[j] = 0
  BY DEF Unharmed
<1>3. scenario.misfortunes = {} /\ ~scenario.mayReject /\ ~Spend("delete")
  <2>1. scenario.left["delete"] \in Nat /\ scenario.left["delete"] <= scenario.bounds["delete"]
    BY <1>1 DEF WorkerInv, BoundsTypeOK, Scenario, Bounds
  <2>2. scenario.bounds["delete"] = 0
    BY DEF OnlyShutdowns, Bounds
  <2>3. QED
    BY <2>1, <2>2 DEF OnlyShutdowns, Spend
<1>4. ASSUME NEW t \in Tasks PROVE task'[t].at \notin Spoiled
  <2>1. ~Excused(t)
    BY <1>2, <1>3, SourceThere DEF Excused, Spoiled, Parting
  <2>2. PICK l : l = task'[t]
    OBVIOUS
  <2>3. CASE Keeping(t, l)
    <3>1. task[t] \in Local
      BY <1>1, LeaseTyped
    <3>2. QED
      BY <1>2, <2>2, <2>3, <3>1 DEF Keeping, Local
  <2>4. CASE Fresh(l)
    BY <2>2, <2>4 DEF Fresh, Spoiled
  <2>5. CASE Edge(t, l)
    BY <1>2, <1>3, <2>1, <2>2, <2>5 DEF Edge, Spoiled
  <2>6. QED
    BY <2>2, <2>3, <2>4, <2>5, Edges
<1>5. /\ resolved \subseteq resolved'
      /\ \A j \in sent : CompletionKey(j) \in completion => CompletionKey(j) \in completion' \/ j \in resolved'
  BY RecordsEnd
<1>6. ASSUME NEW p \in Processes, task'[Loop(p)].claim # None
      PROVE  /\ task'[Loop(p)].at \in {"toDelete", "delete"} => task'[Loop(p)].committed
             /\ task'[Loop(p)].committed => Noted(task[Loop(p)].claim)' \/ Job(Loop(p))' \in resolved'
  <2>1. PICK t, k, l, m : t = Loop(p) /\ k = task[t] /\ l = task'[t] /\ m = task[t].claim
    OBVIOUS
  <2>2. t \in Tasks /\ k \in Local /\ l \in Local /\ l.mode # "reap" /\ k.mode # "reap" /\ l.claim # None
    BY <1>1, <1>6, <2>1, LoopsClaim DEF Roles, WorkerInv, Fit
  <2>3. CASE Fresh(l)
    BY <1>6, <2>1, <2>2, <2>3 DEF Fresh
  <2>4. CASE ~Fresh(l)
    <3>1. l.claim = m
      BY <2>1, <2>2, <2>4, Edges DEF Keeping, Edge, Local
    <3>2. m \in ClaimIds /\ Issued(m) /\ JobOf(m) \in sent
      BY <1>1, <2>1, <2>2, <3>1, LoopsClaim, IssuedJob
    <3>3. JobOf(m)' = JobOf(m) /\ Job(t) = JobOf(m)
      BY <1>1, <2>1, <3>2, QueueKeeps DEF ClaimsKept, JobOf, Job
    <3>4. Noted(m) \/ JobOf(m) \in resolved => CompletionKey(JobOf(m)) \in completion' \/ JobOf(m) \in resolved'
      BY <1>5, <3>2 DEF Noted
    <3>5. /\ k.at \in {"toDelete", "delete"} => k.committed
          /\ k.committed => Noted(m) \/ JobOf(m) \in resolved
      BY <1>2, <2>1, <2>2, <3>1, <3>3
    <3>6. /\ l.at \in {"toDelete", "delete"} => l.committed
          /\ l.committed => k.committed \/ CompletionKey(JobOf(m)) \in completion'
      <4>1. CASE Keeping(t, l)
        BY <2>1, <2>2, <3>5, <4>1 DEF Keeping, Local
      <4>2. CASE Edge(t, l)
        BY <2>1, <2>2, <3>3, <3>5, <4>2 DEF Edge
      <4>3. QED
        BY <2>1, <2>2, <2>4, <4>1, <4>2, Edges
    <3>7. Job(t)' = JobOf(m)
      BY <2>1, <3>1, <3>3 DEF Job, JobOf
    <3>8. l.committed => CompletionKey(JobOf(m)) \in completion' \/ Job(t)' \in resolved'
      BY <3>4, <3>5, <3>6, <3>7
    <3>9. CompletionKey(JobOf(m)) \in completion' => Noted(task[t].claim)'
      BY <2>1, <3>1, <3>3 DEF Noted, CompletionKey, JobOf
    <3>10. QED
      BY <2>1, <3>6, <3>8, <3>9
  <2>5. QED
    BY <2>3, <2>4
<1>7. erasing' = {}
  BY <1>2, <1>3, FilesMove DEF DeleteMovie, Upload, DeleteSource, DiscardOutput, DropRejected, Discard, Call, Nothing, store
<1>8. ASSUME NEW j \in sent PROVE j.s3Key \in tmp' \/ CompletionKey(j) \in completion' \/ j \in resolved'
  <2>1. CASE tmp \subseteq tmp'
    BY <1>2, <1>5, <2>1
  <2>2. CASE ~(tmp \subseteq tmp')
    <3>1. PICK p \in Processes : DeleteSource(p)
      BY <1>2, <1>3, <2>2, FilesMove DEF DeleteMovie, Upload, DiscardOutput, DropRejected, Discard, Call, Nothing, store
    <3>2. tmp \ {Job(Loop(p)).s3Key} \subseteq tmp' /\ task[Loop(p)].at = "delete"
      BY <3>1 DEF DeleteSource, Call, At, Nothing, store
    <3>3. task[Loop(p)].claim \in ClaimIds /\ Issued(task[Loop(p)].claim) /\ task[Loop(p)].claim # None
      BY <3>2, LoopsClaim
    <3>4. Noted(task[Loop(p)].claim) \/ Job(Loop(p)) \in resolved
      BY <1>2, <3>2, <3>3
    <3>5. Job(Loop(p)) \in sent /\ Job(Loop(p)) = JobOf(task[Loop(p)].claim)
      BY <1>1, <3>3, IssuedJob DEF Job
    <3>6. j.s3Key = Job(Loop(p)).s3Key => j = Job(Loop(p))
      BY <1>1, <3>5 DEF Calm
    <3>7. QED
      BY <1>2, <1>5, <3>2, <3>4, <3>5, <3>6 DEF Noted
  <2>3. QED
    BY <2>1, <2>2
<1>9. ASSUME NEW v \in Movies PROVE variant'[v].status # "FAILED"
  <2>1. variant \in [Movies -> [status : {"PROCESSING", "READY", "FAILED", "DELETED"}, s3Key : Keys]]
    BY <1>1 DEF WorkerInv, Shared, StoreTypeOK
  <2>2. ASSUME NEW t \in Tasks, SucceedCallback(t), Callback(Job(t), "READY") PROVE variant'[v].status # "FAILED"
    <3>1. Job(t).movieId \in Movies
      BY <1>1, <2>2, Goes DEF SucceedCallback, At
    <3>2. QED
      BY <1>2, <2>1, <2>2, <3>1 DEF Callback
  <2>3. \A t \in Tasks : ~FailCallback(t)
    BY <1>2 DEF FailCallback, At, Spoiled
  <2>4. \A w \in Movies : ~DeleteMovie(w)
    BY <1>3 DEF DeleteMovie
  <2>5. QED
    BY <1>2, <2>2, <2>3, <2>4, RowsMove
<1>10. dead' = {} /\ \A j \in sent : spent'[j] = 0
  <2>1. main \in Seq(Entry) /\ retry \subseteq Entry /\ (\A e \in retry : e.job \in sent)
        /\ \A a \in DOMAIN main : main[a].job \in sent
    BY <1>1 DEF WorkerInv, Shared, QueueInv, QueueTypeOK, Known
  <2>2. ASSUME NEW m \in ClaimIds, ClaimNextEncodeJob(m) PROVE UNCHANGED <<dead, spent>>
    <3>1. Head(main) = main[1] /\ 1 \in DOMAIN main
      BY <2>1, <2>2 DEF ClaimNextEncodeJob
    <3>2. Head(main).job \notin Malformed
      BY <1>1, <2>1, <3>1 DEF Calm
    <3>3. QED
      BY <2>2, <3>2 DEF ClaimNextEncodeJob
  <2>3. ASSUME NEW ready \in SUBSET retry, ProcessRetryQueue(ready) PROVE UNCHANGED <<dead, spent>>
    <3>1. {e.job : e \in {e \in ready : e.job \in Malformed}} = {}
      BY <1>1, <2>1 DEF Calm
    <3>2. QED
      BY <2>3, <3>1 DEF ProcessRetryQueue
  <2>4. (\A t \in Tasks : ~DeadLetter(t)) /\ \A p \in Processes : ~Postpone(p)
    BY <1>2 DEF DeadLetter, Postpone, At, Spoiled, Tasks
  <2>5. ASSUME \/ \E t \in Tasks : FinishFinalized(t)
               \/ \E p \in Processes : Resolve(p)
               \/ \E p \in Reapers : ReleaseFailed(p)
        PROVE  UNCHANGED <<dead, spent>>
    BY <2>5 DEF FinishFinalized, Resolve, ReleaseFailed, Call, Redis, Nothing, FinishProcessingJob, ReleaseProcessingJob,
       queueVars, redis, history
  <2>6. UNCHANGED <<dead, spent>>
    BY <2>2, <2>3, <2>4, <2>5, VerdictsMove
  <2>7. QED
    BY <1>2, <2>6
<1>11. QED
  BY <1>1, <1>4, <1>6, <1>7, <1>8, <1>9, <1>10 DEF Unharmed

\* Shutdowns alone never fail a movie, dead-letter a job or cost it a retry,
\* however many processes are told to stop and whenever: handBackOnShutdown and
\* the hand-off of shutdown.ts requeue a claim as it was claimed, or leave a
\* committed one to the reaper ("the job did nothing wrong, so it must not
\* consume a retry", job-runner.ts:124-126).
THEOREM ShutdownsAreHarmless == WorkerSpec => [](Calm => UnharmedByShutdown)
<1>1. WorkerInit => (Calm /\ OnlyShutdowns => Unharmed)
  BY UnharmedInit
<1>2. WorkerInv /\ WorkerInv' /\ Roles /\ Roles' /\ CalmInv /\ (Calm /\ OnlyShutdowns => Unharmed) /\ [WorkerNext]_workerVars
      => (Calm /\ OnlyShutdowns => Unharmed)'
  <2> SUFFICES ASSUME WorkerInv, WorkerInv', Roles, Roles', CalmInv, Calm /\ OnlyShutdowns => Unharmed,
                      [WorkerNext]_workerVars, Calm', OnlyShutdowns'
               PROVE  Unharmed'
    OBVIOUS
  <2>1. Calm /\ OnlyShutdowns
    BY CalmKept DEF Calm, OnlyShutdowns
  <2>2. QED
    BY <2>1, UnharmedNext DEF Quiet, CalmInv
<1>3. (Calm /\ OnlyShutdowns => Unharmed) => (Calm => UnharmedByShutdown)
  BY DEF Unharmed, UnharmedByShutdown
<1>4. QED
  BY <1>1, <1>2, <1>3, CalmInvariance, PTL DEF WorkerSpec

-----------------------------------------------------------------------------
(***************************************************************************)
(* A recorded completion is not reported as a failure.  A poll loop that   *)
(* works on without its claim would do it, so either no process is told to *)
(* stop, or nothing but that happens.                                      *)
(***************************************************************************)
Undisturbed == scenario.bounds["sigterm"] = 0

\* Where a job is about to be reported as failed.
Failing == {"dead", "failProgress", "failCallback"}

Approved ==
  /\ Undisturbed => \A p \in Processes : handler[p] = "up"
  /\ ~scenario.mayReject =>
       /\ \A t \in Tasks : task[t].at # "unwanted"
       /\ \A p \in Processes : task[Loop(p)].at \in Failing => ~task[Loop(p)].committed
       /\ \A q \in Reapers : task[Reaper(q)].at \notin Failing

LEMMA ApprovedInit == WorkerInit => Approved
  BY DEF WorkerInit, Approved, Resting, Failing, Tasks

LEMMA HandlersUp ==
  ASSUME WorkerInv, [WorkerNext]_workerVars, Undisturbed, \A p \in Processes : handler[p] = "up", NEW p \in Processes
  PROVE  handler'[p] = "up"
<1>1. ~Spend("sigterm")
  <2>1. scenario.left["sigterm"] \in Nat /\ scenario.left["sigterm"] <= scenario.bounds["sigterm"]
    BY DEF WorkerInv, BoundsTypeOK, Scenario, Bounds
  <2>2. QED
    BY <2>1 DEF Undisturbed, Spend
<1>2. handler \in [Processes -> Phases]
  BY DEF WorkerInv
<1>3. ASSUME NEW q \in Processes, EncodeProgress(q) \/ Heartbeat(q) \/ Sigterm(q) \/ HandlerStep(q) \/ Crash(q)
      PROVE  handler'[p] = "up"
  BY <1>1, <1>2, <1>3 DEF EncodeProgress, Heartbeat, Sigterm, HandlerStep, DrainEnds, HandOff, Settled, Exit, Crash, Replaced
<1>4. ASSUME NEW q \in Processes, LoopStep(q) PROVE UNCHANGED handler
  BY <1>4, Zenon DEF LoopStep, BeginPoll, Claim, FindNothing, CheckCompletion, Begin, Inspect, StartStage, Download, Encode,
     Upload, Commit, Reconcile, DeleteSource, Recommit, Postpone, ReportPostponed, GiveBack, ReportHandedBack, Resolve,
     Report, Read, Call
<1>5. ASSUME NEW t \in Tasks, FinalStep(t) PROVE UNCHANGED handler
  BY <1>5, Zenon DEF FinalStep, Succeed, SucceedCallback, DiscardOutput, DropRejected, DeadLetter, ReportFailure, FailCallback,
     FinishFinalized, Report, Read, Call
<1>6. ASSUME NEW q \in Reapers, ReaperStep(q) PROVE UNCHANGED handler
  BY <1>6, Zenon DEF ReaperStep, ReapStart, Reap, Guess, ReleaseFailed, RequeueStale, Read, Call
<1>7. ASSUME \/ UNCHANGED workerVars
             \/ \E m \in ClaimIds : LeaseEnds(m) \/ Stall(m)
             \/ \E ready \in SUBSET retry : RetriesComeDue(ready)
             \/ \E v \in Movies : ProgressTtl(v) \/ DeleteMovie(v)
             \/ \E object \in erasing : Erase(object)
      PROVE  UNCHANGED handler
  BY <1>7 DEF workerVars, LeaseEnds, Stall, RetriesComeDue, ProgressTtl, DeleteMovie, Erase
<1>8. QED
  BY <1>3, <1>4, <1>5, <1>6, <1>7 DEF WorkerNext

LEMMA ApprovedNext ==
  ASSUME Quiet, WorkerInv', Roles', InOrder', [WorkerNext]_workerVars, Approved
  PROVE  Approved'
<1>1. WorkerInv /\ Roles /\ scenario'.mayReject = scenario.mayReject /\ scenario'.bounds = scenario.bounds
  BY CalmKept DEF Quiet
<1>2. Undisturbed' => \A p \in Processes : handler'[p] = "up"
  BY <1>1, HandlersUp DEF Approved, Undisturbed
<1>3. ASSUME ~scenario.mayReject, NEW t \in Tasks
      PROVE  /\ task'[t].at # "unwanted"
             /\ task'[t].at \in Failing =>
                  \/ task[t].at \in Failing /\ (task'[t].committed => task[t].committed)
                  \/ task[t].mode # "reap" /\ task[t].claim # None /\ task'[t].at = "dead"
  <2>1. PICK l : l = task'[t]
    OBVIOUS
  <2>2. task[t] \in Local /\ task[t].at # "unwanted"
    BY <1>1, <1>3, LeaseTyped DEF Approved
  <2>3. CASE Keeping(t, l)
    BY <2>1, <2>2, <2>3 DEF Keeping, Local
  <2>4. CASE Fresh(l)
    BY <2>1, <2>4 DEF Fresh, Failing
  <2>5. CASE Edge(t, l)
    <3>1. l.at \in Failing => l.claim # None
      BY <2>1, WorkerAssumption DEF WorkerInv, Fit, Failing
    <3>2. QED
      BY <1>3, <2>1, <2>2, <2>5, <3>1 DEF Edge, Excused, Failing
  <2>6. QED
    BY <2>1, <2>3, <2>4, <2>5, Edges
<1>4. ASSUME ~scenario.mayReject, NEW p \in Processes, task'[Loop(p)].at \in Failing PROVE ~task'[Loop(p)].committed
  <2>1. Loop(p) \in Tasks
    BY DEF Tasks
  <2>2. CASE task'[Loop(p)].at = "dead"
    <3>1. PICK l, h : l = task'[Loop(p)] /\ h = handler'[p]
      OBVIOUS
    <3>2. Lawful(l, h)' /\ l.claim # None
      BY <2>1, <2>2, <3>1, WorkerAssumption DEF InOrder, WorkerInv, Fit
    <3>3. QED
      BY <2>2, <3>1, <3>2 DEF Lawful, InHand, Closing
  <2>3. CASE task'[Loop(p)].at # "dead"
    BY <1>3, <1>4, <2>1, <2>3 DEF Approved
  <2>4. QED
    BY <2>2, <2>3
<1>5. ASSUME ~scenario.mayReject, NEW q \in Reapers PROVE task'[Reaper(q)].at \notin Failing
  <2>1. Reaper(q) \in Tasks /\ task[Reaper(q)].at \notin Failing
    BY <1>5 DEF Tasks, Approved
  <2>2. task[Reaper(q)].mode # "reap" => task[Reaper(q)].claim = None
    BY <1>1, <2>1 DEF Roles
  <2>3. QED
    BY <1>3, <1>5, <2>1, <2>2
<1>6. QED
  BY <1>1, <1>2, <1>3, <1>4, <1>5 DEF Approved

\* A job whose completion is recorded is finalized as a success, by its worker
\* or by a later one, and its movie does not turn FAILED while the record is
\* there (job-runner.ts:190-192): where no call fails and no process stalls or
\* crashes, and either no process is told to stop or nothing else happens.
THEOREM RecordedNeverFails ==
  WorkerSpec /\ Calm /\ (Undisturbed \/ OnlyShutdowns) => CommittedNeverFails
<1> DEFINE Premise == Calm /\ (Undisturbed \/ OnlyShutdowns)
           Kept == Approved /\ (OnlyShutdowns => Unharmed)
           Safe == \A v \in Movies :
                     ~scenario.mayReject /\ variant[v].status = "PROCESSING" /\ <<v, variant[v].s3Key>> \in completion
                     => variant'[v].status # "FAILED"
<1>1. WorkerInit => Kept
  BY ApprovedInit, UnharmedInit
<1>2. ASSUME WorkerInv, WorkerInv', Roles, Roles', CalmInv, CalmInv', Premise, Kept, [WorkerNext]_workerVars
      PROVE  Premise' /\ Kept'
  <2>1. Premise' /\ (OnlyShutdowns' => OnlyShutdowns)
    BY <1>2, CalmKept DEF Calm, Undisturbed, OnlyShutdowns
  <2>2. Quiet /\ InOrder'
    BY <1>2, <2>1 DEF Quiet, CalmInv
  <2>3. QED
    BY <1>2, <2>1, <2>2, ApprovedNext, UnharmedNext
<1>3. ASSUME WorkerInv, Roles, CalmInv, Premise, Kept, [WorkerNext]_workerVars PROVE Safe
  <2>1. SUFFICES ASSUME NEW v \in Movies, ~scenario.mayReject, variant[v].status = "PROCESSING",
                        <<v, variant[v].s3Key>> \in completion, variant'[v].status = "FAILED"
                 PROVE  FALSE
    OBVIOUS
  <2>2. Quiet /\ InOrder
    BY <1>3 DEF Quiet, CalmInv
  <2>3. variant \in [Movies -> [status : {"PROCESSING", "READY", "FAILED", "DELETED"}, s3Key : Keys]]
    BY <1>3 DEF WorkerInv, Shared, StoreTypeOK
  <2>4. PICK t \in Tasks : FailCallback(t) /\ Callback(Job(t), "FAILED")
    <3>1. ASSUME NEW w \in Movies, DeleteMovie(w) PROVE FALSE
      BY <2>1, <2>3, <3>1 DEF DeleteMovie
    <3>2. ASSUME NEW t \in Tasks, SucceedCallback(t), Callback(Job(t), "READY") PROVE FALSE
      <4>1. Job(t).movieId \in Movies
        BY <1>3, <3>2, Goes DEF SucceedCallback, At
      <4>2. QED
        BY <2>1, <2>3, <3>2, <4>1 DEF Callback
    <3>3. QED
      BY <1>3, <2>1, <3>1, <3>2, RowsMove
  <2>5. task[t].at = "failCallback" /\ Job(t).movieId \in Movies
    BY <1>3, <2>4, Goes DEF FailCallback, At
  <2>6. CompletionKey(Job(t)) \in completion
    BY <2>1, <2>3, <2>4, <2>5 DEF Callback, CompletionKey
  <2>7. Undisturbed
    BY <1>3, <2>5 DEF Unharmed, Spoiled
  <2>8. PICK p \in Processes : t = Loop(p)
    BY <1>3, <2>1, <2>5 DEF Approved, Failing, Tasks
  <2>9. ~task[t].committed /\ handler[p] = "up"
    BY <1>3, <2>1, <2>5, <2>7, <2>8 DEF Approved, Failing
  <2>10. PICK m : m = task[t].claim
    OBVIOUS
  <2>11. InHand(task[t], handler[p], m)
    BY <2>2, <2>5, <2>8, <2>10, LoopsClaim
  <2>12. Present(m) /\ Noted(m)
    BY <2>5, <2>6, <2>9, <2>10, <2>11 DEF InHand, Parting, Present, Noted, Job
  <2>13. QED
    BY <2>9, <2>11, <2>12 DEF InHand
<1>4. WorkerSpec /\ Premise => [][Safe]_workerVars
  BY <1>1, <1>2, <1>3, CalmInvariance, PTL DEF WorkerSpec
<1>5. QED
  BY <1>4 DEF CommittedNeverFails

-----------------------------------------------------------------------------
(***************************************************************************)
(* A deleted movie leaves no output.  What the production bucket still     *)
(* holds of it is either on the list of its deletion, or in the hands of a *)
(* poll loop that has stored it and has yet to hear that the movie is      *)
(* gone.  A process told to stop may abort the upload after the object is  *)
(* complete, so the theorem is about scenarios without shutdowns.          *)
(***************************************************************************)
\* A poll loop between storing its output and the backend's answer about it.
Storing == {"commit", "toDelete", "delete", "succeed", "succeedCallback", "discard", "unwanted"}

Tracked(v) ==
  \/ <<"prod", variant[v].s3Key>> \in erasing
  \/ \E p \in Processes : /\ task[Loop(p)].claim # None /\ task[Loop(p)].at \in Storing
                          /\ Job(Loop(p)).s3Key = variant[v].s3Key

Tracking ==
  /\ \A v \in Movies : \E j \in sent : Encodes(j, v)
  /\ Undisturbed => \A v \in Movies :
       variant[v].status = "DELETED" /\ variant[v].s3Key \in prod => Tracked(v)

LEMMA TrackingInit == WorkerInit => Tracking
<1> SUFFICES ASSUME WorkerInit PROVE Tracking
  OBVIOUS
<1>1. ASSUME NEW v \in Movies PROVE \E j \in sent : Encodes(j, v)
  <2>1. PICK i \in DOMAIN scenario.backlog :
          scenario.backlog[i].movieId = v /\ scenario.backlog[i].s3Key = NewestKey(scenario.backlog, v)
    BY NewestKeyFound DEF WorkerInit
  <2>2. scenario.backlog[i] \in sent /\ variant[v].s3Key = NewestKey(scenario.backlog, v)
    BY DEF WorkerInit
  <2>3. QED
    BY <2>1, <2>2 DEF Encodes
<1>2. prod = {}
  BY DEF WorkerInit
<1>3. QED
  BY <1>1, <1>2 DEF Tracking

\* Another task's step leaves a poll loop where it is.
LEMMA LoopAlone ==
  ASSUME Quiet, [WorkerNext]_workerVars, NEW p \in Processes, handler[p] = "up", ~LoopStep(p), ~FinalStep(Loop(p))
  PROVE  Keeping(Loop(p), task'[Loop(p)])
<1> DEFINE t == Loop(p)
<1>1. WorkerInv /\ Calm /\ Roles /\ t \in Tasks /\ task \in [Tasks -> Fit]
  BY LoopsClaim DEF Quiet, WorkerInv
<1>2. ~Spend("fault") /\ ~Spend("crash")
  BY <1>1, CalmCalls
<1>3. ASSUME NEW u \in Tasks, NEW l, Put(u, l), u # t PROVE task'[t] = task[t]
  BY <1>1, <1>3 DEF Put
<1>4. ASSUME NEW q \in Processes, LoopStep(q) PROVE task'[t] = task[t]
  <2>1. Loop(q) \in Tasks /\ Loop(q) # t
    BY <1>4 DEF Tasks, Loop
  <2>2. \E l : Put(Loop(q), l)
    <3>1. CASE BeginPoll(q) \/ FindNothing(q) \/ Resolve(q)
      BY <1>2, <3>1, Zenon DEF BeginPoll, FindNothing, Resolve, Call
    <3>2. CASE Claim(q)
      BY <1>2, <3>2, Zenon DEF Claim, Call
    <3>3. QED
      BY <1>4, <3>1, <3>2, LoopEdges
  <2>3. QED
    BY <1>3, <2>1, <2>2
<1>5. ASSUME NEW u \in Tasks, FinalStep(u) PROVE task'[t] = task[t]
  BY <1>1, <1>3, <1>5, FinalEdges
<1>6. ASSUME NEW q \in Reapers, ReaperStep(q) PROVE task'[t] = task[t]
  BY <1>1, <1>3, <1>6, ReaperEdges, LoopIsNoReaper DEF Tasks
<1>7. ASSUME NEW q \in Processes, EncodeProgress(q) \/ Heartbeat(q) \/ Sigterm(q) \/ HandlerStep(q) \/ Crash(q)
      PROVE  Keeping(t, task'[t])
  <2>1. \/ UNCHANGED task
        \/ Put(Loop(q), [task[Loop(q)] EXCEPT !.relinquished = TRUE])
        \/ handler[q] = "leaving" /\ task' = [u \in Tasks |-> IF u[1] = q THEN Resting ELSE task[u]]
    BY <1>2, <1>7 DEF EncodeProgress, Heartbeat, Sigterm, HandlerStep, DrainEnds, HandOff, Settled, Exit, Crash, Replaced
  <2>2. CASE handler[q] = "leaving" /\ task' = [u \in Tasks |-> IF u[1] = q THEN Resting ELSE task[u]]
    BY <1>1, <2>2 DEF Keeping, Loop
  <2>3. CASE Put(Loop(q), [task[Loop(q)] EXCEPT !.relinquished = TRUE])
    <3>1. Loop(q) = t => task'[t] = [task[t] EXCEPT !.relinquished = TRUE]
      BY <1>1, <2>3 DEF Put
    <3>2. Loop(q) # t => task'[t] = task[t]
      BY <1>3, <2>3 DEF Tasks
    <3>3. QED
      BY <3>1, <3>2 DEF Keeping
  <2>4. QED
    BY <2>1, <2>2, <2>3 DEF Keeping
<1>8. ASSUME \/ UNCHANGED workerVars
             \/ \E m \in ClaimIds : LeaseEnds(m) \/ Stall(m)
             \/ \E ready \in SUBSET retry : RetriesComeDue(ready)
             \/ \E v \in Movies : ProgressTtl(v) \/ DeleteMovie(v)
             \/ \E object \in erasing : Erase(object)
      PROVE  UNCHANGED task
  BY <1>8 DEF workerVars, LeaseEnds, Stall, RetriesComeDue, ProgressTtl, DeleteMovie, Erase
<1>9. QED
  BY <1>4, <1>5, <1>6, <1>7, <1>8 DEF WorkerNext, Keeping

\* A poll loop that has stored its output goes on to the backend's answer, and
\* to the removal of what is not wanted.
LEMMA StoringGoes ==
  ASSUME Quiet, [WorkerNext]_workerVars, NEW p \in Processes, handler[p] = "up",
         task[Loop(p)].claim # None, task[Loop(p)].at \in Storing
  PROVE  \/ task'[Loop(p)].claim = task[Loop(p)].claim /\ task'[Loop(p)].at \in Storing
         \/ variant[Job(Loop(p)).movieId].status # "DELETED" /\ SucceedCallback(Loop(p))
         \/ Job(Loop(p)).s3Key \notin prod'
<1>1. PICK t, k, m : t = Loop(p) /\ k = task[t] /\ m = k.claim
  OBVIOUS
<1>2. WorkerInv /\ Calm /\ t \in Tasks /\ k \in Local /\ task \in [Tasks -> Fit] /\ m \in ClaimIds
      /\ InHand(k, handler[p], m)
  BY <1>1, LoopsClaim DEF Quiet, WorkerInv
<1>3. ~Spend("fault") /\ ~k.relinquished /\ Present(m) /\ k.at \in Storing
  BY <1>1, <1>2, CalmCalls DEF InHand, Storing, Parting, Present
<1>4. \A l : Put(t, l) => task'[t] = l
  BY <1>2 DEF Put
<1>5. \A label \in Labels : /\ Go(t, label).claim = m /\ Go(t, label).at = label
                           /\ \A mode : GoIn(t, label, mode).claim = m /\ GoIn(t, label, mode).at = label
  BY <1>1, <1>2 DEF Go, GoIn, Local
<1>6. {"toDelete", "delete", "succeed", "succeedCallback", "discard", "unwanted"} \subseteq Labels \cap Storing
  BY DEF Labels, Storing
<1>7. CASE Commit(p)
  <2>1. Put(t, [Go(t, "toDelete") EXCEPT !.committed = TRUE])
    BY <1>1, <1>3, <1>7 DEF Commit, Call
  <2>2. [Go(t, "toDelete") EXCEPT !.committed = TRUE].claim = m
        /\ [Go(t, "toDelete") EXCEPT !.committed = TRUE].at = "toDelete"
    BY <1>1, <1>2 DEF Go, Local
  <2>3. QED
    BY <1>1, <1>4, <1>6, <2>1, <2>2
<1>8. CASE StartStage(p)
  <2>1. k.at = "toDelete"
    BY <1>1, <1>3, <1>8 DEF StartStage, Storing
  <2>2. Put(t, Go(t, "delete"))
    BY <1>1, <1>3, <1>8, <2>1 DEF StartStage, Report, Call
  <2>3. QED
    BY <1>1, <1>4, <1>5, <1>6, <2>2
<1>9. CASE DeleteSource(p)
  <2>1. Put(t, GoIn(t, "succeed", "main"))
    BY <1>1, <1>3, <1>9 DEF DeleteSource, Call, Aborted
  <2>2. QED
    BY <1>1, <1>4, <1>5, <1>6, <2>1
<1>10. CASE LoopStep(p)
  <2>1. Commit(p) \/ StartStage(p) \/ DeleteSource(p)
    BY <1>1, <1>3, <1>10 DEF LoopStep, Storing, BeginPoll, Claim, FindNothing, CheckCompletion, Begin, Inspect, Download, Encode,
       Upload, Reconcile, Recommit, Postpone, ReportPostponed, GiveBack, ReportHandedBack, Resolve, At
  <2>2. QED
    BY <1>7, <1>8, <1>9, <2>1
<1>11. CASE Succeed(t)
  <2>1. Put(t, Go(t, "succeedCallback"))
    BY <1>3, <1>11 DEF Succeed, Report, Call
  <2>2. QED
    BY <1>1, <1>4, <1>5, <1>6, <2>1
<1>12. CASE SucceedCallback(t)
  <2>1. \/ Put(t, Go(t, "unwanted"))
        \/ variant[Job(t).movieId].status = "DELETED" /\ Put(t, Go(t, "discard"))
        \/ variant[Job(t).movieId].status # "DELETED"
    BY <1>3, <1>12 DEF SucceedCallback, Read, Call
  <2>2. QED
    BY <1>1, <1>4, <1>5, <1>6, <1>12, <2>1
<1>13. CASE DiscardOutput(t) \/ DropRejected(t)
  BY <1>1, <1>3, <1>13 DEF DiscardOutput, DropRejected, Discard, Call
<1>14. CASE FinalStep(t)
  <2>1. Succeed(t) \/ SucceedCallback(t) \/ DiscardOutput(t) \/ DropRejected(t)
    BY <1>1, <1>3, <1>14 DEF FinalStep, Storing, DeadLetter, ReportFailure, FailCallback, FinishFinalized, At
  <2>2. QED
    BY <1>11, <1>12, <1>13, <2>1
<1>15. CASE ~LoopStep(p) /\ ~FinalStep(t)
  <2>1. Keeping(t, task'[t])
    BY <1>1, <1>15, LoopAlone
  <2>2. QED
    BY <1>1, <1>2, <1>3, <2>1 DEF Keeping, Local
<1>16. QED
  BY <1>10, <1>14, <1>15

LEMMA TrackingNext ==
  ASSUME Quiet, WorkerInv', [WorkerNext]_workerVars, Undisturbed => \A p \in Processes : handler[p] = "up", Tracking
  PROVE  Tracking'
<1>1. WorkerInv /\ Calm /\ sent' = sent /\ scenario'.bounds = scenario.bounds /\ ClaimsKept
  BY CalmKept, QueueKeeps DEF Quiet
<1>2. \A v \in Movies : variant'[v].s3Key = variant[v].s3Key
  BY <1>1, StatusKept
<1>3. \A v \in Movies : \E j \in sent' : Encodes(j, v)'
  BY <1>1, <1>2 DEF Tracking, Encodes
<1>4. ASSUME NEW p \in Processes, task[Loop(p)].claim # None
      PROVE  /\ Job(Loop(p)) \in sent
             /\ task'[Loop(p)].claim = task[Loop(p)].claim => Job(Loop(p))' = Job(Loop(p))
  BY <1>1, <1>4, LoopsClaim, IssuedJob DEF ClaimsKept, Job, JobOf
<1>5. ASSUME Undisturbed', NEW v \in Movies, variant'[v].status = "DELETED", variant[v].s3Key \in prod'
      PROVE  Tracked(v)'
  <2>1. PICK key : key = variant[v].s3Key /\ variant'[v].s3Key = key /\ key \in prod'
    BY <1>2, <1>5
  <2>2. Undisturbed /\ \A p \in Processes : handler[p] = "up"
    BY <1>1, <1>5 DEF Undisturbed
  <2>3. ASSUME NEW p \in Processes, task'[Loop(p)].claim # None, task'[Loop(p)].at \in Storing, Job(Loop(p))'.s3Key = key
        PROVE  Tracked(v)'
    BY <2>1, <2>3 DEF Tracked
  <2>4. CASE key \notin prod
    <3>1. PICK p \in Processes : Upload(p)
      <4>1. ~\E w \in Movies : DeleteMovie(w)
        BY <2>1, <2>4 DEF DeleteMovie
      <4>2. ~\E object \in erasing : Erase(object)
        BY <2>1, <2>4 DEF Erase
      <4>3. ~\E p \in Processes : DeleteSource(p)
        BY <2>1, <2>4 DEF DeleteSource, Call, Nothing, store
      <4>4. ~\E t \in Tasks : DiscardOutput(t) \/ DropRejected(t)
        BY <2>1, <2>4 DEF DiscardOutput, DropRejected, Discard, Call, Nothing, store
      <4>5. QED
        BY <2>1, <2>4, <4>1, <4>2, <4>3, <4>4, FilesMove
    <3>2. PICK t : t = Loop(p)
      OBVIOUS
    <3>3. task[t].at = "upload" /\ task[t] \in Local /\ t \in Tasks /\ task \in [Tasks -> Fit]
      BY <1>1, <3>1, <3>2, LoopsClaim DEF Upload, At, WorkerInv
    <3>4. task[t].claim # None /\ InHand(task[t], handler[p], task[t].claim)
      BY <3>2, <3>3, LoopsClaim
    <3>5. ~task[t].relinquished /\ ~Aborted(p) /\ ~Spend("fault")
      BY <1>1, <2>2, <3>3, <3>4, CalmCalls DEF InHand, Parting, Aborted
    <3>6. Put(t, Go(t, "commit")) /\ prod' = prod \cup {Job(t).s3Key}
      BY <3>1, <3>2, <3>5 DEF Upload, Call
    <3>7. task'[t].claim = task[t].claim /\ task'[t].at = "commit" /\ Job(t).s3Key = key
      BY <2>1, <2>4, <3>3, <3>6 DEF Put, Go, Local
    <3>8. QED
      BY <1>4, <2>3, <3>2, <3>4, <3>7 DEF Storing
  <2>5. CASE variant[v].status # "DELETED"
    <3>1. variant \in [Movies -> [status : {"PROCESSING", "READY", "FAILED", "DELETED"}, s3Key : Keys]]
      BY <1>1 DEF WorkerInv, Shared, StoreTypeOK
    <3>2. ASSUME NEW t \in Tasks, NEW status \in {"READY", "FAILED"}, Callback(Job(t), status),
                 SucceedCallback(t) \/ FailCallback(t)
          PROVE  FALSE
      <4>1. Job(t).movieId \in Movies
        BY <1>1, <3>2, Goes DEF SucceedCallback, FailCallback, At
      <4>2. QED
        BY <1>5, <2>5, <3>1, <3>2, <4>1 DEF Callback
    <3>3. PICK w \in Movies : DeleteMovie(w)
      BY <1>5, <2>5, <3>2, RowsMove
    <3>4. w = v /\ <<"prod", key>> \in erasing'
      <4>1. w # v => variant'[v] = variant[v]
        BY <3>1, <3>3 DEF DeleteMovie
      <4>2. QED
        BY <1>5, <2>1, <2>5, <3>3, <4>1 DEF DeleteMovie
    <3>5. QED
      BY <2>1, <3>4 DEF Tracked
  <2>6. CASE <<"prod", key>> \in erasing
    <3>1. <<"prod", key>> \in erasing'
      <4>1. \A object \in erasing : Erase(object) => object # <<"prod", key>> /\ erasing' = erasing \ {object}
        BY <2>1 DEF Erase
      <4>2. \A w \in Movies : DeleteMovie(w) => erasing \subseteq erasing'
        BY DEF DeleteMovie
      <4>3. \A p \in Processes : Upload(p) \/ DeleteSource(p) => erasing' = erasing
        BY DEF Upload, DeleteSource, Call, Nothing, store
      <4>4. \A t \in Tasks : DiscardOutput(t) \/ DropRejected(t) => erasing' = erasing
        BY DEF DiscardOutput, DropRejected, Discard, Call, Nothing, store
      <4>5. QED
        BY <2>6, <4>1, <4>2, <4>3, <4>4, FilesMove
    <3>2. QED
      BY <2>1, <3>1 DEF Tracked
  <2>7. ASSUME NEW p \in Processes, task[Loop(p)].claim # None, task[Loop(p)].at \in Storing, Job(Loop(p)).s3Key = key,
               variant[v].status = "DELETED"
        PROVE  Tracked(v)'
    <3>1. PICK j \in sent : Encodes(j, v)
      BY DEF Tracking
    <3>2. Job(Loop(p)).movieId = v
      BY <1>1, <1>4, <2>1, <2>7, <3>1 DEF Calm, Encodes
    <3>3. task'[Loop(p)].claim = task[Loop(p)].claim /\ task'[Loop(p)].at \in Storing
      BY <2>1, <2>2, <2>7, <3>2, StoringGoes
    <3>4. QED
      BY <1>4, <2>3, <2>7, <3>3
  <2>8. QED
    BY <2>1, <2>2, <2>4, <2>5, <2>6, <2>7 DEF Tracking, Tracked
<1>6. QED
  BY <1>2, <1>3, <1>5 DEF Tracking

\* When all work on it is over, a deleted movie has left no file in the
\* production bucket, although its encode ran on after the deletion: the
\* backend's 410 makes its worker remove what it has stored (callback.ts:95-96),
\* and the deletion what was there before.  Where no call fails, no process
\* stalls or crashes, and none is told to stop.
THEOREM DeletionsLeaveNothing == WorkerSpec => [](Calm /\ Undisturbed => DeletedLeavesNothing)
<1> DEFINE Kept == Approved /\ Tracking
<1>1. WorkerInit => Kept
  BY ApprovedInit, TrackingInit
<1>2. WorkerInv /\ WorkerInv' /\ Roles /\ Roles' /\ CalmInv /\ CalmInv' /\ (Calm => Kept) /\ [WorkerNext]_workerVars
      => (Calm => Kept)'
  <2> SUFFICES ASSUME WorkerInv, WorkerInv', Roles, Roles', CalmInv, CalmInv', Calm => Kept, [WorkerNext]_workerVars, Calm'
               PROVE  Kept'
    OBVIOUS
  <2>1. Calm /\ Quiet /\ InOrder'
    BY CalmKept DEF Calm, Quiet, CalmInv
  <2>2. Approved'
    BY <2>1, ApprovedNext
  <2>3. Tracking'
    BY <2>1, TrackingNext DEF Approved
  <2>4. QED
    BY <2>2, <2>3
<1>3. (Calm => Kept) => (Calm /\ Undisturbed => DeletedLeavesNothing)
  BY DEF Tracking, Tracked, DeletedLeavesNothing, Tasks
<1>4. QED
  BY <1>1, <1>2, <1>3, CalmInvariance, PTL DEF WorkerSpec
=============================================================================
