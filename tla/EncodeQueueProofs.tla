------------------------- MODULE EncodeQueueProofs -------------------------
(***************************************************************************)
(* Theorems of EncodeQueue, for any jobs, claims and retry budget.         *)
(***************************************************************************)
EXTENDS EncodeQueue, SequenceTheorems, FiniteSetTheorems, TLAPS

\* What the scripts can rely on: a claim in the set has a text, a job that is
\* anywhere was sent, an unsent job has no history, and the retry set is finite.
Known ==
  /\ \A m \in ClaimIds : Present(m) => Issued(m)
  /\ \A m \in ClaimIds : Issued(m) => JobOf(m) \in sent
  /\ \A m \in revived : Issued(m)
  /\ \A a \in DOMAIN main : main[a].job \in sent
  /\ \A e \in retry : e.job \in sent
  /\ resolved \subseteq sent
  /\ \A j \in Jobs \ sent : spent[j] = 0
  /\ IsFiniteSet(retry)

QueueInv == QueueTypeOK /\ Known /\ OnePlace /\ NothingLost /\ BudgetExact

-----------------------------------------------------------------------------
\* An entry is told from the absence of one by its fields.
LEMMA EntryIsSome == \A e \in Entry : e # NoEntry
<1>1. SUFFICES ASSUME NEW e \in Entry, e = NoEntry PROVE FALSE
  OBVIOUS
<1>2. DOMAIN e = {"job", "retryCount"}
  BY <1>1 DEF Entry
<1>3. DOMAIN e = {"job"}
  BY <1>1 DEF NoEntry
<1>4. QED
  BY <1>2, <1>3

\* What a listing appended to a list yields: the list, then the elements of the
\* listed set, each once.
LEMMA AppendedListing ==
  ASSUME NEW S, S \subseteq Entry, IsFiniteSet(S), NEW q \in Seq(Entry), NEW s \in Listings(S)
  PROVE  /\ q \o s \in Seq(Entry)
         /\ Len(q) \in Nat
         /\ DOMAIN q = 1..Len(q)
         /\ DOMAIN (q \o s) = 1..Len(q \o s)
         /\ \A a \in DOMAIN q : a \in DOMAIN (q \o s) /\ (q \o s)[a] = q[a]
         /\ \A a \in DOMAIN (q \o s) : a \notin DOMAIN q => (q \o s)[a] \in S
         /\ \A a, b \in DOMAIN (q \o s) :
              a \notin DOMAIN q /\ b \notin DOMAIN q /\ (q \o s)[a] = (q \o s)[b] => a = b
         /\ \A e \in S : \E a \in DOMAIN (q \o s) : (q \o s)[a] = e
<1>1. Cardinality(S) \in Nat
  BY FS_CardinalityType
<1>2. s \in [1..Cardinality(S) -> S]
  BY DEF Listings
<1>3. s \in Seq(Entry) /\ Len(s) = Cardinality(S)
  BY <1>1, <1>2
<1>4. /\ q \o s \in Seq(Entry)
      /\ Len(q \o s) = Len(q) + Len(s)
      /\ \A i \in 1 .. Len(q) + Len(s) : (q \o s)[i] = IF i <= Len(q) THEN q[i] ELSE s[i - Len(q)]
  BY <1>3, ConcatProperties
<1>5. Len(q) \in Nat /\ DOMAIN q = 1..Len(q) /\ Len(s) \in Nat /\ DOMAIN s = 1..Len(s)
  BY <1>3, LenProperties
<1>6. DOMAIN (q \o s) = 1..(Len(q) + Len(s))
  BY <1>4, LenProperties
<1>7. \A a \in DOMAIN (q \o s) : a \notin DOMAIN q => (a - Len(q)) \in DOMAIN s /\ (q \o s)[a] = s[a - Len(q)]
  BY <1>4, <1>5, <1>6
<1>8. \A a, b \in DOMAIN s : s[a] = s[b] => a = b
  BY DEF Listings
<1>9. \A e \in S : \E a \in DOMAIN s : s[a] = e
  BY DEF Listings
<1>10. \A a \in DOMAIN s : Len(q) + a \in DOMAIN (q \o s) /\ (q \o s)[Len(q) + a] = s[a]
  BY <1>4, <1>5, <1>6
<1>11. \A e \in S : \E a \in DOMAIN (q \o s) : (q \o s)[a] = e
  BY <1>9, <1>10
<1>12. \A a, b \in DOMAIN (q \o s) :
         a \notin DOMAIN q /\ b \notin DOMAIN q /\ (q \o s)[a] = (q \o s)[b] => a = b
  BY <1>5, <1>6, <1>7, <1>8
<1>13. \A a \in DOMAIN (q \o s) : a \notin DOMAIN q => (q \o s)[a] \in S
  BY <1>1, <1>2, <1>3, <1>5, <1>7
<1>14. \A a \in DOMAIN q : a \in DOMAIN (q \o s) /\ (q \o s)[a] = q[a]
  BY <1>4, <1>5, <1>6
<1>15. QED
  BY <1>4, <1>5, <1>6, <1>11, <1>12, <1>13, <1>14

-----------------------------------------------------------------------------
LEMMA InitInv == QueueInit => QueueInv
<1> SUFFICES ASSUME QueueInit PROVE QueueInv
  OBVIOUS
<1> USE JobsAssumption, MaxRetryAssumption
<1>1. retry \subseteq [job : Malformed, retryCount : {0}]
  BY DEF QueueInit
<1>2. QueueTypeOK
  BY <1>1 DEF QueueInit, QueueTypeOK, Entry
<1>3. IsFiniteSet(retry)
  <2>1. [e \in retry |-> e.job] \in Injection(retry, Jobs)
    BY <1>1 DEF Injection, IsInjective
  <2>2. QED
    BY <2>1, FS_Injection
<1>4. Known
  BY <1>3, <1>1 DEF QueueInit, Known, Present, Issued, NoEntry, JobOf
<1>5. OnePlace
  BY <1>1 DEF QueueInit, OnePlace, AtMostOnce, Exclusive, Queued, Waiting, Held, HeldBy, Loose, Present
<1>6. NothingLost
  BY <1>1 DEF QueueInit, NothingLost, Waiting
<1>7. BudgetExact
  BY <1>1 DEF QueueInit, BudgetExact, Present, HeldBy
<1>8. QED
  BY <1>2, <1>4, <1>5, <1>6, <1>7 DEF QueueInv

-----------------------------------------------------------------------------
\* A step that moves no job and changes no claim's presence keeps the invariant.
LEMMA NoMove ==
  ASSUME QueueInv, QueueTypeOK',
         UNCHANGED <<main, retry, claims, sent, resolved, revived, spent>>,
         \A m \in ClaimIds : lease'[m] = "none" <=> lease[m] = "none"
  PROVE  QueueInv'
<1> USE DEF QueueInv
<1>1. Known'
  BY DEF Known, Present, Issued, JobOf
<1>2. OnePlace'
  BY DEF OnePlace, AtMostOnce, Exclusive, Queued, Waiting, Held, HeldBy, Present, Loose, JobOf
<1>3. NothingLost'
  BY DEF NothingLost, Queued, Waiting, Held, HeldBy, Present, JobOf
<1>4. BudgetExact'
  BY DEF BudgetExact, HeldBy, Present, Loose, JobOf
<1>5. QED
  BY <1>1, <1>2, <1>3, <1>4

\* The main list after an LPUSH of e.
LEMMA Pushed ==
  ASSUME NEW q \in Seq(Entry), NEW e \in Entry
  PROVE  /\ Append(q, e) \in Seq(Entry)
         /\ Len(q) \in Nat
         /\ DOMAIN q = 1..Len(q)
         /\ DOMAIN Append(q, e) = 1..(Len(q) + 1)
         /\ \A a \in DOMAIN q : Append(q, e)[a] = q[a]
         /\ Append(q, e)[Len(q) + 1] = e
  BY AppendProperties, LenProperties

LEMMA AddStep ==
  ASSUME QueueInv, NEW j \in Jobs, AddEncodeJob(j)
  PROVE  QueueInv'
<1> USE JobsAssumption, MaxRetryAssumption DEF QueueInv
<1> DEFINE new == [job |-> j, retryCount |-> 0]
<1>1. new \in Entry /\ new.job = j /\ new.retryCount = 0
  BY DEF Entry
<1>2. main \in Seq(Entry) /\ main' = Append(main, new) /\ j \notin sent /\ sent' = sent \cup {j}
      /\ UNCHANGED <<retry, claims, lease, completion, progress, dead, resolved, revived, spent>>
  BY DEF AddEncodeJob, QueueTypeOK
<1> HIDE DEF new
<1>3. /\ main' \in Seq(Entry)
      /\ Len(main) \in Nat
      /\ DOMAIN main = 1..Len(main)
      /\ DOMAIN main' = 1..(Len(main) + 1)
      /\ \A a \in DOMAIN main : main'[a] = main[a]
      /\ main'[Len(main) + 1] = new
  BY <1>1, <1>2, Pushed
<1>4. QueueTypeOK'
  BY <1>2, <1>3 DEF QueueTypeOK
<1>5. Known'
  BY <1>1, <1>2, <1>3 DEF Known, Present, Issued, JobOf
<1>6. ~Queued(j) /\ ~Waiting(j) /\ ~Held(j) /\ j \notin resolved /\ spent[j] = 0
  BY <1>2 DEF Known, Queued, Waiting, Held, HeldBy
<1>7. ASSUME NEW i \in Jobs
      PROVE  /\ Loose(i)' <=> Loose(i)
             /\ Waiting(i)' <=> Waiting(i)
             /\ Held(i)' <=> Held(i)
             /\ \A m \in ClaimIds : HeldBy(m, i)' <=> HeldBy(m, i)
             /\ Queued(i)' <=> Queued(i) \/ i = j
             /\ \A a \in DOMAIN main' : main'[a].job = i =>
                   \/ a \in DOMAIN main /\ main[a].job = i
                   \/ a = Len(main) + 1 /\ i = j
  BY <1>1, <1>2, <1>3 DEF Loose, Waiting, Held, HeldBy, Present, JobOf, Queued
<1>8. OnePlace'
  BY <1>1, <1>2, <1>3, <1>6, <1>7 DEF OnePlace, AtMostOnce, Exclusive, Queued
<1>9. NothingLost'
  BY <1>1, <1>2, <1>7 DEF NothingLost, QueueTypeOK
<1>10. BudgetExact'
  BY <1>1, <1>2, <1>3, <1>6, <1>7 DEF BudgetExact, Queued
<1>11. QED
  BY <1>4, <1>5, <1>8, <1>9, <1>10

LEMMA ClaimStep ==
  ASSUME QueueInv, NEW m \in ClaimIds, ClaimNextEncodeJob(m)
  PROVE  QueueInv'
<1> USE JobsAssumption, MaxRetryAssumption DEF QueueInv
<1>1. main \in Seq(Entry) /\ main # <<>> /\ main' = Tail(main) /\ ~Issued(m)
      /\ UNCHANGED <<retry, completion, progress, sent, revived, spent>>
  BY DEF ClaimNextEncodeJob, QueueTypeOK
<1>a. PICK e \in Entry : e = Head(main)
  BY <1>1, HeadTailProperties
<1>2. /\ e \in Entry
      /\ main' \in Seq(Entry)
      /\ Len(main) \in Nat
      /\ DOMAIN main = 1..Len(main)
      /\ DOMAIN main' = 1..(Len(main) - 1)
      /\ 1 \in DOMAIN main /\ main[1] = e
      /\ \A a \in DOMAIN main' : a + 1 \in DOMAIN main /\ main'[a] = main[a + 1]
      /\ \A a \in DOMAIN main : a # 1 => a - 1 \in DOMAIN main' /\ main'[a - 1] = main[a]
  BY <1>1, <1>a, HeadTailProperties, LenProperties, EmptySeq
<1>3. e.job \in Jobs /\ e.retryCount \in 0..MaxRetry /\ e.job \in sent /\ e # NoEntry
  BY <1>2, EntryIsSome DEF Known, Entry
<1>4. ~Present(m) /\ m \notin revived
  BY <1>1 DEF Known
<1>5. ASSUME NEW i \in Jobs
      PROVE  /\ Waiting(i)' <=> Waiting(i)
             /\ Queued(i)' => Queued(i)
             /\ Queued(i) => Queued(i)' \/ i = e.job
             /\ \A a \in DOMAIN main' : main'[a].job = i => a + 1 \in DOMAIN main /\ main[a + 1].job = i
  <2>1. Waiting(i)' <=> Waiting(i)
    BY <1>1 DEF Waiting
  <2>2. \A a \in DOMAIN main' : main'[a].job = i => a + 1 \in DOMAIN main /\ main[a + 1].job = i
    BY <1>2
  <2>3. Queued(i)' => Queued(i)
    BY <2>2 DEF Queued
  <2>4. Queued(i) => Queued(i)' \/ i = e.job
    <3>1. SUFFICES ASSUME NEW a \in DOMAIN main, main[a].job = i, i # e.job PROVE Queued(i)'
      BY DEF Queued
    <3>2. a # 1
      BY <3>1, <1>2
    <3>3. a - 1 \in DOMAIN main' /\ main'[a - 1].job = i
      BY <3>1, <3>2, <1>2
    <3>4. QED
      BY <3>3 DEF Queued
  <2>5. QED
    BY <2>1, <2>2, <2>3, <2>4
<1>6. Queued(e.job)
  BY <1>2 DEF Queued
<1>7. ASSUME ~Loose(e.job) PROVE ~Queued(e.job)'
  <2>1. SUFFICES ASSUME NEW a \in DOMAIN main', main'[a].job = e.job PROVE FALSE
    BY DEF Queued
  <2>2. a + 1 = 1
    BY <1>2, <1>3, <1>7, <2>1 DEF OnePlace, AtMostOnce
  <2>3. QED
    BY <2>1, <2>2, <1>2
<1>8. CASE e.job \in Malformed
  <2>1. dead' = dead \cup {e.job} /\ resolved' = resolved \cup {e.job} /\ UNCHANGED <<claims, lease>>
    BY <1>8, <1>a DEF ClaimNextEncodeJob
  <2>2. QueueTypeOK'
    BY <1>1, <1>2, <1>3, <2>1 DEF QueueTypeOK
  <2>3. Known'
    BY <1>1, <1>2, <1>3, <2>1 DEF Known, Present, Issued, JobOf
  <2>4. ASSUME NEW i \in Jobs
        PROVE  /\ Loose(i)' <=> Loose(i)
               /\ Held(i)' <=> Held(i)
               /\ \A n \in ClaimIds : HeldBy(n, i)' <=> HeldBy(n, i)
    BY <1>1, <2>1 DEF Loose, Held, HeldBy, Present, JobOf
  <2>5. OnePlace'
    <3>1. SUFFICES ASSUME NEW i \in Jobs, ~Loose(i) PROVE AtMostOnce(i)' /\ Exclusive(i)'
      BY <2>4 DEF OnePlace
    <3>2. AtMostOnce(i) /\ Exclusive(i)
      BY <3>1 DEF OnePlace
    <3>3. AtMostOnce(i)'
      <4>1. \A a, b \in DOMAIN main' : main'[a].job = i /\ main'[b].job = i => a = b
        BY <1>2, <1>5, <3>2 DEF AtMostOnce
      <4>2. QED
        BY <4>1, <1>1, <2>4, <3>2 DEF AtMostOnce
    <3>4. Exclusive(i)'
      BY <1>5, <1>6, <1>7, <2>1, <2>4, <3>1, <3>2 DEF Exclusive
    <3>5. QED
      BY <3>3, <3>4
  <2>6. NothingLost'
    BY <1>1, <1>3, <1>5, <2>1, <2>4 DEF NothingLost, QueueTypeOK
  <2>7. BudgetExact'
    BY <1>1, <1>2, <1>5, <2>1, <2>4 DEF BudgetExact
  <2>8. QED
    BY <2>2, <2>3, <2>5, <2>6, <2>7
<1>9. CASE e.job \notin Malformed
  <2>1. claims' = [claims EXCEPT ![m] = e] /\ lease' = [lease EXCEPT ![m] = "live"]
        /\ UNCHANGED <<dead, resolved>>
    BY <1>9, <1>a DEF ClaimNextEncodeJob
  <2>2. QueueTypeOK'
    BY <1>1, <1>2, <1>3, <2>1 DEF QueueTypeOK
  <2>3. \A n \in ClaimIds : /\ Present(n)' <=> Present(n) \/ n = m
                            /\ Issued(n)' <=> Issued(n) \/ n = m
                            /\ claims'[n] = IF n = m THEN e ELSE claims[n]
                            /\ JobOf(n)' = IF n = m THEN e.job ELSE JobOf(n)
    BY <1>3, <2>1 DEF Present, Issued, JobOf, QueueTypeOK
  <2>4. Known'
    <3>1. \A n \in ClaimIds : Present(n)' => Issued(n)'
      BY <2>3 DEF Known
    <3>2. \A n \in ClaimIds : Issued(n)' => JobOf(n)' \in sent'
      BY <1>1, <1>3, <2>3 DEF Known
    <3>3. \A n \in revived' : Issued(n)'
      BY <1>1, <2>3 DEF Known, QueueTypeOK
    <3>4. \A a \in DOMAIN main' : main'[a].job \in sent'
      BY <1>1, <1>2 DEF Known
    <3>5. resolved' \subseteq sent' /\ (\A f \in retry' : f.job \in sent')
          /\ (\A j \in Jobs \ sent' : spent'[j] = 0) /\ IsFiniteSet(retry')
      BY <1>1, <2>1 DEF Known
    <3>6. QED
      BY <3>1, <3>2, <3>3, <3>4, <3>5 DEF Known
  <2>5. ASSUME NEW i \in Jobs
        PROVE  /\ Loose(i)' <=> Loose(i)
               /\ \A n \in ClaimIds : HeldBy(n, i)' <=> HeldBy(n, i) \/ (n = m /\ i = e.job)
               /\ Held(i)' <=> Held(i) \/ i = e.job
    <3>1. Loose(i)' <=> Loose(i)
      BY <1>1, <1>4, <2>3 DEF Loose, QueueTypeOK
    <3>2. \A n \in ClaimIds : HeldBy(n, i)' <=> HeldBy(n, i) \/ (n = m /\ i = e.job)
      BY <1>4, <2>3 DEF HeldBy
    <3>3. QED
      BY <3>1, <3>2 DEF Held
  <2>6. OnePlace'
    <3>1. SUFFICES ASSUME NEW i \in Jobs, ~Loose(i) PROVE AtMostOnce(i)' /\ Exclusive(i)'
      BY <2>5 DEF OnePlace
    <3>2. AtMostOnce(i) /\ Exclusive(i)
      BY <3>1 DEF OnePlace
    <3>3. AtMostOnce(i)'
      <4>1. \A a, b \in DOMAIN main' : main'[a].job = i /\ main'[b].job = i => a = b
        BY <1>2, <1>5, <3>2 DEF AtMostOnce
      <4>2. \A n, k \in ClaimIds : HeldBy(n, i)' /\ HeldBy(k, i)' => n = k
        BY <1>6, <2>5, <3>2 DEF AtMostOnce, Exclusive, Held
      <4>3. QED
        BY <4>1, <4>2, <1>1, <3>2 DEF AtMostOnce
    <3>4. Exclusive(i)'
      BY <1>5, <1>6, <1>7, <2>1, <2>5, <3>1, <3>2 DEF Exclusive
    <3>5. QED
      BY <3>3, <3>4
  <2>7. NothingLost'
    BY <1>1, <1>3, <1>5, <2>1, <2>5 DEF NothingLost, QueueTypeOK
  <2>8. BudgetExact'
    <3>1. ASSUME NEW i \in Jobs, NEW n \in ClaimIds, HeldBy(n, i)', ~Loose(i)
          PROVE  claims'[n].retryCount = spent[i]
      BY <3>1, <1>2, <2>3, <2>5, <1>4 DEF BudgetExact, HeldBy
    <3>2. QED
      BY <1>1, <1>2, <1>5, <2>5, <3>1 DEF BudgetExact
  <2>9. QED
    BY <2>2, <2>4, <2>6, <2>7, <2>8
<1>10. QED
  BY <1>8, <1>9

\* A step that drops the claim m and touches no other.
LEMMA Dropped ==
  ASSUME QueueInv, NEW m \in ClaimIds, Present(m),
         lease' = [lease EXCEPT ![m] = "none"], UNCHANGED <<claims, revived>>
  PROVE  /\ JobOf(m) \in Jobs /\ JobOf(m) \in sent /\ claims[m] \in Entry /\ claims[m] # NoEntry
         /\ lease' \in [ClaimIds -> {"none", "live", "stale"}]
         /\ \A n \in ClaimIds : Present(n)' <=> Present(n) /\ n # m
         /\ \A n \in ClaimIds : (Issued(n)' <=> Issued(n)) /\ JobOf(n)' = JobOf(n)
         /\ \A i \in Jobs : Loose(i)' <=> Loose(i)
         /\ \A i \in Jobs, n \in ClaimIds : HeldBy(n, i)' <=> HeldBy(n, i) /\ n # m
         /\ \A i \in Jobs : Held(i)' => Held(i)
         /\ \A i \in Jobs : Held(i) => Held(i)' \/ i = JobOf(m)
         /\ Held(JobOf(m))
         /\ Loose(JobOf(m)) \/ \A i \in Jobs : i = JobOf(m) => ~Held(i)'
<1> USE DEF QueueInv
<1>1. claims[m] \in Entry /\ claims[m] # NoEntry
  BY DEF Known, Issued, QueueTypeOK
<1>2. JobOf(m) \in Jobs /\ JobOf(m) \in sent
  BY <1>1 DEF Known, Entry, JobOf
<1>3. lease' \in [ClaimIds -> {"none", "live", "stale"}]
      /\ \A n \in ClaimIds : lease'[n] = IF n = m THEN "none" ELSE lease[n]
  BY DEF QueueTypeOK
<1>4. \A n \in ClaimIds : Present(n)' <=> Present(n) /\ n # m
  BY <1>3 DEF Present
<1>5. \A n \in ClaimIds : (Issued(n)' <=> Issued(n)) /\ JobOf(n)' = JobOf(n)
  BY DEF Issued, JobOf
<1>6. \A i \in Jobs : Loose(i)' <=> Loose(i)
  BY DEF Loose, JobOf
<1>7. \A i \in Jobs, n \in ClaimIds : HeldBy(n, i)' <=> HeldBy(n, i) /\ n # m
  BY <1>4, <1>5 DEF HeldBy
<1>8. HeldBy(m, JobOf(m))
  BY DEF HeldBy
<1>9. /\ \A i \in Jobs : Held(i)' => Held(i)
      /\ \A i \in Jobs : Held(i) => Held(i)' \/ i = JobOf(m)
      /\ Held(JobOf(m))
  <2>1. \A i \in Jobs : HeldBy(m, i) => i = JobOf(m)
    BY DEF HeldBy
  <2>2. QED
    BY <1>7, <1>8, <2>1 DEF Held
<1>10. ASSUME ~Loose(JobOf(m)), NEW i \in Jobs, i = JobOf(m) PROVE ~Held(i)'
  <2>1. \A n \in ClaimIds : HeldBy(n, i) => n = m
    BY <1>2, <1>8, <1>10 DEF OnePlace, AtMostOnce
  <2>2. QED
    BY <1>7, <2>1 DEF Held
<1>11. QED
  BY <1>1, <1>2, <1>3, <1>4, <1>5, <1>6, <1>7, <1>9, <1>10

\* Finishing or releasing a claim that is there.
LEMMA SettleStep ==
  ASSUME QueueInv, QueueTypeOK', NEW m \in ClaimIds, Present(m),
         lease' = [lease EXCEPT ![m] = "none"], resolved' = resolved \cup {JobOf(m)},
         UNCHANGED <<main, retry, claims, sent, revived, spent>>
  PROVE  QueueInv'
<1> USE DEF QueueInv
<1>a. /\ JobOf(m) \in Jobs /\ JobOf(m) \in sent /\ claims[m] \in Entry
      /\ \A n \in ClaimIds : Present(n)' <=> Present(n) /\ n # m
      /\ \A n \in ClaimIds : (Issued(n)' <=> Issued(n)) /\ JobOf(n)' = JobOf(n)
      /\ \A i \in Jobs : Loose(i)' <=> Loose(i)
      /\ \A i \in Jobs, n \in ClaimIds : HeldBy(n, i)' <=> HeldBy(n, i) /\ n # m
      /\ \A i \in Jobs : Held(i)' => Held(i)
      /\ \A i \in Jobs : Held(i) => Held(i)' \/ i = JobOf(m)
      /\ Held(JobOf(m))
      /\ Loose(JobOf(m)) \/ \A i \in Jobs : i = JobOf(m) => ~Held(i)'
  BY Dropped
<1> USE <1>a
<1>1. Known'
  <2>1. \A n \in ClaimIds : Present(n)' => Issued(n)'
    BY <1>a DEF Known
  <2>2. \A n \in ClaimIds : Issued(n)' => JobOf(n)' \in sent'
    BY <1>a DEF Known
  <2>3. \A n \in revived' : Issued(n)'
    BY DEF Known, Issued
  <2>4. resolved' \subseteq sent'
    BY <1>a DEF Known
  <2>5. QED
    BY <2>1, <2>2, <2>3, <2>4 DEF Known
<1>2. OnePlace'
  <2>1. SUFFICES ASSUME NEW i \in Jobs, ~Loose(i) PROVE AtMostOnce(i)' /\ Exclusive(i)'
    BY DEF OnePlace
  <2>2. AtMostOnce(i) /\ Exclusive(i)
    BY <2>1 DEF OnePlace
  <2>3. AtMostOnce(i)'
    BY <2>2 DEF AtMostOnce
  <2>4. (Queued(i)' <=> Queued(i)) /\ (Waiting(i)' <=> Waiting(i))
    BY DEF Queued, Waiting
  <2>5. Exclusive(i)'
    BY <2>1, <2>2, <2>4 DEF Exclusive
  <2>6. QED
    BY <2>3, <2>5
<1>3. NothingLost'
  <2>1. \A i \in Jobs : (Queued(i)' <=> Queued(i)) /\ (Waiting(i)' <=> Waiting(i))
    BY DEF Queued, Waiting
  <2>2. QED
    BY <2>1 DEF NothingLost, QueueTypeOK
<1>4. BudgetExact'
  BY DEF BudgetExact
<1>5. QED
  BY <1>1, <1>2, <1>3, <1>4

\* Moving a claim's job to the retry set, with count c, spent with it.
LEMMA PostponeStep ==
  ASSUME QueueInv, QueueTypeOK', NEW m \in ClaimIds, Present(m), NEW c \in 0..MaxRetry,
         lease' = [lease EXCEPT ![m] = "none"],
         retry' = retry \cup {[job |-> JobOf(m), retryCount |-> c]},
         \/ spent' = [spent EXCEPT ![JobOf(m)] = c]
         \/ UNCHANGED spent /\ c = claims[m].retryCount,
         UNCHANGED <<main, claims, sent, resolved, revived>>
  PROVE  QueueInv'
<1> USE MaxRetryAssumption DEF QueueInv
<1>a. /\ JobOf(m) \in Jobs /\ JobOf(m) \in sent /\ claims[m] \in Entry
      /\ \A n \in ClaimIds : Present(n)' <=> Present(n) /\ n # m
      /\ \A n \in ClaimIds : (Issued(n)' <=> Issued(n)) /\ JobOf(n)' = JobOf(n)
      /\ \A i \in Jobs : Loose(i)' <=> Loose(i)
      /\ \A i \in Jobs, n \in ClaimIds : HeldBy(n, i)' <=> HeldBy(n, i) /\ n # m
      /\ \A i \in Jobs : Held(i)' => Held(i)
      /\ \A i \in Jobs : Held(i) => Held(i)' \/ i = JobOf(m)
      /\ Held(JobOf(m))
      /\ Loose(JobOf(m)) \/ \A i \in Jobs : i = JobOf(m) => ~Held(i)'
  BY Dropped
<1> USE <1>a
<1>1. PICK e \in Entry : e.job = JobOf(m) /\ e.retryCount = c /\ retry' = retry \cup {e}
  BY DEF Entry
<1>2. /\ spent' \in [Jobs -> 0..MaxRetry]
      /\ \A i \in Jobs : i # JobOf(m) => spent'[i] = spent[i]
      /\ Loose(JobOf(m)) \/ spent'[JobOf(m)] = c
  <2>1. spent \in [Jobs -> 0..MaxRetry]
    BY DEF QueueTypeOK
  <2>2. Loose(JobOf(m)) \/ claims[m].retryCount = spent[JobOf(m)]
    BY DEF BudgetExact, HeldBy
  <2>3. QED
    BY <2>1, <2>2
<1>3. Known'
  <2>1. IsFiniteSet(retry')
    BY <1>1, FS_AddElement DEF Known
  <2>2. \A n \in ClaimIds : Present(n)' => Issued(n)'
    BY DEF Known
  <2>3. \A n \in ClaimIds : Issued(n)' => JobOf(n)' \in sent'
    BY DEF Known
  <2>4. \A n \in revived' : Issued(n)'
    BY DEF Known, Issued
  <2>5. \A f \in retry' : f.job \in sent'
    BY <1>1 DEF Known
  <2>6. \A i \in Jobs \ sent' : spent'[i] = 0
    BY <1>2 DEF Known
  <2>7. QED
    BY <2>1, <2>2, <2>3, <2>4, <2>5, <2>6 DEF Known
<1>4. \A i \in Jobs : (Queued(i)' <=> Queued(i)) /\ (Waiting(i)' <=> Waiting(i) \/ i = JobOf(m))
  BY <1>1 DEF Queued, Waiting
<1>5. OnePlace'
  <2>1. SUFFICES ASSUME NEW i \in Jobs, ~Loose(i) PROVE AtMostOnce(i)' /\ Exclusive(i)'
    BY DEF OnePlace
  <2>2. AtMostOnce(i) /\ Exclusive(i)
    BY <2>1 DEF OnePlace
  <2>3. AtMostOnce(i)'
    <3>1. i = JobOf(m) => ~Waiting(i)
      BY <2>2 DEF Exclusive
    <3>2. \A d, f \in retry' : d.job = i /\ f.job = i => d = f
      BY <1>1, <2>2, <3>1 DEF AtMostOnce, Waiting
    <3>3. QED
      BY <2>2, <3>2 DEF AtMostOnce
  <2>4. Exclusive(i)'
    BY <1>4, <2>1, <2>2 DEF Exclusive
  <2>5. QED
    BY <2>3, <2>4
<1>6. NothingLost'
  BY <1>4 DEF NothingLost, QueueTypeOK
<1>7. BudgetExact'
  <2>1. SUFFICES ASSUME NEW i \in Jobs, ~Loose(i)
                 PROVE  /\ \A a \in DOMAIN main : main[a].job = i => main[a].retryCount = spent'[i]
                        /\ \A f \in retry' : f.job = i => f.retryCount = spent'[i]
                        /\ \A n \in ClaimIds : HeldBy(n, i)' => claims[n].retryCount = spent'[i]
    BY DEF BudgetExact
  <2>2. CASE i # JobOf(m)
    BY <1>1, <1>2, <2>1, <2>2 DEF BudgetExact
  <2>3. CASE i = JobOf(m)
    <3>1. ~Queued(i) /\ ~Waiting(i) /\ ~Held(i)'
      BY <2>1, <2>3 DEF OnePlace, Exclusive
    <3>2. QED
      BY <1>1, <1>2, <2>1, <2>3, <3>1 DEF Queued, Waiting, Held
  <2>4. QED
    BY <2>2, <2>3
<1>8. QED
  BY <1>3, <1>5, <1>6, <1>7

\* Putting a claim's job back at the end of the main list.
LEMMA HandBackStep ==
  ASSUME QueueInv, QueueTypeOK', NEW m \in ClaimIds, Present(m),
         lease' = [lease EXCEPT ![m] = "none"], main' = Append(main, claims[m]),
         UNCHANGED <<retry, claims, sent, resolved, revived, spent>>
  PROVE  QueueInv'
<1> USE DEF QueueInv
<1>a. /\ JobOf(m) \in Jobs /\ JobOf(m) \in sent /\ claims[m] \in Entry
      /\ \A n \in ClaimIds : Present(n)' <=> Present(n) /\ n # m
      /\ \A n \in ClaimIds : (Issued(n)' <=> Issued(n)) /\ JobOf(n)' = JobOf(n)
      /\ \A i \in Jobs : Loose(i)' <=> Loose(i)
      /\ \A i \in Jobs, n \in ClaimIds : HeldBy(n, i)' <=> HeldBy(n, i) /\ n # m
      /\ \A i \in Jobs : Held(i)' => Held(i)
      /\ \A i \in Jobs : Held(i) => Held(i)' \/ i = JobOf(m)
      /\ Held(JobOf(m))
      /\ Loose(JobOf(m)) \/ \A i \in Jobs : i = JobOf(m) => ~Held(i)'
  BY Dropped
<1> USE <1>a
<1>1. /\ Len(main) \in Nat
      /\ DOMAIN main = 1..Len(main)
      /\ DOMAIN main' = 1..(Len(main) + 1)
      /\ \A a \in DOMAIN main : main'[a] = main[a]
      /\ main'[Len(main) + 1] = claims[m]
  BY Pushed DEF QueueTypeOK
<1>2. claims[m].job = JobOf(m) /\ (Loose(JobOf(m)) \/ claims[m].retryCount = spent[JobOf(m)])
  <2>1. claims[m].job = JobOf(m)
    BY DEF JobOf
  <2>2. Loose(JobOf(m)) \/ claims[m].retryCount = spent[JobOf(m)]
    BY DEF BudgetExact, HeldBy
  <2>3. QED
    BY <2>1, <2>2
<1>3. \A a \in DOMAIN main' : a \in DOMAIN main \/ a = Len(main) + 1
  BY <1>1
<1>4. Known'
  <2>1. \A n \in ClaimIds : Present(n)' => Issued(n)'
    BY DEF Known
  <2>2. \A n \in ClaimIds : Issued(n)' => JobOf(n)' \in sent'
    BY DEF Known
  <2>3. \A n \in revived' : Issued(n)'
    BY DEF Known, Issued
  <2>4. \A a \in DOMAIN main' : main'[a].job \in sent'
    BY <1>1, <1>2, <1>3 DEF Known
  <2>5. QED
    BY <2>1, <2>2, <2>3, <2>4 DEF Known
<1>5. \A i \in Jobs : (Waiting(i)' <=> Waiting(i)) /\ (Queued(i)' <=> Queued(i) \/ i = JobOf(m))
  <2>1. ASSUME NEW i \in Jobs PROVE Queued(i)' <=> Queued(i) \/ i = JobOf(m)
    BY <1>1, <1>2, <1>3 DEF Queued
  <2>2. QED
    BY <2>1 DEF Waiting
<1>6. OnePlace'
  <2>1. SUFFICES ASSUME NEW i \in Jobs, ~Loose(i) PROVE AtMostOnce(i)' /\ Exclusive(i)'
    BY DEF OnePlace
  <2>2. AtMostOnce(i) /\ Exclusive(i)
    BY <2>1 DEF OnePlace
  <2>3. AtMostOnce(i)'
    <3>1. i = JobOf(m) => ~Queued(i)
      BY <2>2 DEF Exclusive
    <3>2. \A a, b \in DOMAIN main' : main'[a].job = i /\ main'[b].job = i => a = b
      BY <1>1, <1>2, <1>3, <2>2, <3>1 DEF AtMostOnce, Queued
    <3>3. QED
      BY <2>2, <3>2 DEF AtMostOnce
  <2>4. Exclusive(i)'
    BY <1>5, <2>1, <2>2 DEF Exclusive
  <2>5. QED
    BY <2>3, <2>4
<1>7. NothingLost'
  BY <1>5 DEF NothingLost, QueueTypeOK
<1>8. BudgetExact'
  <2>1. SUFFICES ASSUME NEW i \in Jobs, ~Loose(i)
                 PROVE  /\ \A a \in DOMAIN main' : main'[a].job = i => main'[a].retryCount = spent[i]
                        /\ \A f \in retry : f.job = i => f.retryCount = spent[i]
                        /\ \A n \in ClaimIds : HeldBy(n, i)' => claims[n].retryCount = spent[i]
    BY DEF BudgetExact
  <2>2. QED
    BY <1>1, <1>2, <1>3, <2>1 DEF BudgetExact
<1>9. QED
  BY <1>4, <1>6, <1>7, <1>8

\* Moving ready entries from the retry set to the end of the main list.
LEMMA ProcessStep ==
  ASSUME QueueInv, QueueTypeOK', NEW ready \in SUBSET retry, ProcessRetryQueue(ready)
  PROVE  QueueInv'
<1> USE DEF QueueInv
<1> DEFINE bad == {e \in ready : e.job \in Malformed}
<1> DEFINE good == ready \ bad
<1>1. /\ retry' = retry \ ready
      /\ resolved' = resolved \cup {e.job : e \in bad}
      /\ UNCHANGED <<claims, lease, sent, revived, spent>>
  BY DEF ProcessRetryQueue
<1>2. PICK moved \in Listings(good) : main' = main \o moved
  BY DEF ProcessRetryQueue
<1>3. ready \subseteq Entry /\ good \subseteq Entry /\ main \in Seq(Entry)
  BY DEF QueueTypeOK
<1>4. IsFiniteSet(good) /\ IsFiniteSet(retry')
  BY <1>1, FS_Subset DEF Known
<1>5. /\ good \subseteq ready /\ bad \subseteq ready
      /\ \A e \in ready : e \in good \/ e \in bad
      /\ \A e \in good : e \notin bad
  OBVIOUS
<1> HIDE DEF bad, good
<1>6. /\ \A a \in DOMAIN main : a \in DOMAIN main' /\ main'[a] = main[a]
      /\ \A a \in DOMAIN main' : a \notin DOMAIN main => main'[a] \in good
      /\ \A a, b \in DOMAIN main' :
           a \notin DOMAIN main /\ b \notin DOMAIN main /\ main'[a] = main'[b] => a = b
      /\ \A e \in good : \E a \in DOMAIN main' : main'[a] = e
  BY <1>2, <1>3, <1>4, AppendedListing, SMTT(20)
<1>7. \A e \in ready : e \in retry /\ e.job \in Jobs /\ e.job \in sent
  BY <1>3 DEF Known, Entry
<1>8. \A n \in ClaimIds : /\ (Present(n)' <=> Present(n)) /\ (Issued(n)' <=> Issued(n))
                          /\ JobOf(n)' = JobOf(n)
  BY <1>1 DEF Present, Issued, JobOf
<1>9. Known'
  <2>1. resolved' \subseteq sent'
    BY <1>1, <1>5, <1>7 DEF Known
  <2>2. \A a \in DOMAIN main' : main'[a].job \in sent'
    BY <1>1, <1>5, <1>6, <1>7 DEF Known
  <2>3. \A n \in ClaimIds : (Present(n)' => Issued(n)') /\ (Issued(n)' => JobOf(n)' \in sent')
    BY <1>1, <1>8 DEF Known
  <2>4. \A n \in revived' : Issued(n)'
    BY <1>1 DEF Known, Issued
  <2>5. \A e \in retry' : e.job \in sent'
    BY <1>1 DEF Known
  <2>6. \A i \in Jobs \ sent' : spent'[i] = 0
    BY <1>1 DEF Known
  <2>7. QED
    BY <1>4, <2>1, <2>2, <2>3, <2>4, <2>5, <2>6 DEF Known
<1>10. ASSUME NEW i \in Jobs
       PROVE  /\ Loose(i)' <=> Loose(i)
              /\ Held(i)' <=> Held(i)
              /\ \A n \in ClaimIds : HeldBy(n, i)' <=> HeldBy(n, i)
              /\ Waiting(i)' => Waiting(i)
              /\ Waiting(i) => Waiting(i)' \/ \E e \in ready : e.job = i
              /\ Queued(i) => Queued(i)'
              /\ Queued(i)' => Queued(i) \/ \E e \in good : e.job = i
              /\ (\E e \in good : e.job = i) => Queued(i)'
              /\ (\E e \in bad : e.job = i) => i \in resolved'
  <2>1. \A n \in ClaimIds : HeldBy(n, i)' <=> HeldBy(n, i)
    BY <1>8 DEF HeldBy
  <2>2. Held(i)' <=> Held(i)
    BY <2>1 DEF Held
  <2>3. Loose(i)' <=> Loose(i)
    BY <1>1 DEF Loose, JobOf
  <2>4. (Waiting(i)' => Waiting(i)) /\ (Waiting(i) => Waiting(i)' \/ \E e \in ready : e.job = i)
    BY <1>1 DEF Waiting
  <2>5. Queued(i) => Queued(i)'
    BY <1>6 DEF Queued
  <2>6. Queued(i)' => Queued(i) \/ \E e \in good : e.job = i
    BY <1>6 DEF Queued
  <2>7. (\E e \in good : e.job = i) => Queued(i)'
    BY <1>6 DEF Queued
  <2>8. QED
    BY <1>1, <2>1, <2>2, <2>3, <2>4, <2>5, <2>6, <2>7
<1>11. OnePlace'
  <2>1. SUFFICES ASSUME NEW i \in Jobs, ~Loose(i) PROVE AtMostOnce(i)' /\ Exclusive(i)'
    BY <1>10 DEF OnePlace
  <2>2. AtMostOnce(i) /\ Exclusive(i)
    BY <2>1 DEF OnePlace
  <2>3. \A d, e \in retry : d.job = i /\ e.job = i => d = e
    BY <2>2 DEF AtMostOnce
  <2>4. (\E e \in ready : e.job = i) => Waiting(i) /\ ~Waiting(i)'
    BY <1>1, <1>7, <2>3 DEF Waiting
  <2>5. AtMostOnce(i)'
    <3>1. \A a, b \in DOMAIN main : main[a].job = i /\ main[b].job = i => a = b
      BY <2>2 DEF AtMostOnce
    <3>2. (\E e \in good : e.job = i) => ~Queued(i)
      BY <1>5, <2>2, <2>4 DEF Exclusive
    <3>3. \A a, b \in DOMAIN main' : main'[a].job = i /\ main'[b].job = i => a = b
      <4>1. SUFFICES ASSUME NEW a \in DOMAIN main', NEW b \in DOMAIN main',
                            main'[a].job = i, main'[b].job = i
                     PROVE  a = b
        OBVIOUS
      <4>2. CASE a \in DOMAIN main /\ b \in DOMAIN main
        BY <1>6, <3>1, <4>1, <4>2
      <4>3. CASE a \notin DOMAIN main /\ b \notin DOMAIN main
        BY <1>5, <1>6, <1>7, <2>3, <4>1, <4>3
      <4>4. CASE ~(a \in DOMAIN main <=> b \in DOMAIN main)
        BY <1>6, <3>2, <4>1, <4>4 DEF Queued
      <4>5. QED
        BY <4>2, <4>3, <4>4
    <3>4. \A d, e \in retry' : d.job = i /\ e.job = i => d = e
      BY <1>1, <2>3
    <3>5. \A n, k \in ClaimIds : HeldBy(n, i)' /\ HeldBy(k, i)' => n = k
      BY <1>10, <2>2 DEF AtMostOnce
    <3>6. QED
      BY <3>3, <3>4, <3>5 DEF AtMostOnce
  <2>6. ~(\E e \in good : e.job = i) \/ ~(\E e \in bad : e.job = i)
    BY <1>5, <1>7, <2>3
  <2>7. i \in resolved' => i \in resolved \/ \E e \in bad : e.job = i
    BY <1>1
  <2>8. (\E e \in good : e.job = i) \/ (\E e \in bad : e.job = i) => \E e \in ready : e.job = i
    BY <1>5
  <2>9. Exclusive(i)'
    BY <1>10, <2>2, <2>4, <2>6, <2>7, <2>8 DEF Exclusive
  <2>10. QED
    BY <2>5, <2>9
<1>12. NothingLost'
  <2>1. SUFFICES ASSUME NEW i \in sent PROVE Queued(i)' \/ Waiting(i)' \/ Held(i)' \/ i \in resolved'
    BY <1>1 DEF NothingLost
  <2>2. i \in Jobs /\ (Queued(i) \/ Waiting(i) \/ Held(i) \/ i \in resolved)
    BY DEF QueueTypeOK, NothingLost
  <2>3. (\E e \in ready : e.job = i) => (\E e \in good : e.job = i) \/ (\E e \in bad : e.job = i)
    BY <1>5
  <2>4. QED
    BY <1>1, <1>10, <2>2, <2>3
<1>13. BudgetExact'
  <2>1. SUFFICES ASSUME NEW i \in Jobs, ~Loose(i)
                 PROVE  /\ \A a \in DOMAIN main' : main'[a].job = i => main'[a].retryCount = spent[i]
                        /\ \A f \in retry' : f.job = i => f.retryCount = spent[i]
                        /\ \A n \in ClaimIds : HeldBy(n, i)' => claims'[n].retryCount = spent[i]
    BY <1>1, <1>10 DEF BudgetExact
  <2>2. \A f \in retry : f.job = i => f.retryCount = spent[i]
    BY <2>1 DEF BudgetExact
  <2>3. \A a \in DOMAIN main' : main'[a].job = i => main'[a].retryCount = spent[i]
    BY <1>5, <1>6, <1>7, <2>1, <2>2 DEF BudgetExact
  <2>4. \A n \in ClaimIds : HeldBy(n, i)' => claims'[n].retryCount = spent[i]
    BY <1>1, <1>10, <2>1 DEF BudgetExact
  <2>5. QED
    BY <1>1, <2>2, <2>3, <2>4
<1>14. QED
  BY <1>9, <1>11, <1>12, <1>13

\* expireProcessingJob on a claim that is gone frees its job from the promises,
\* and no other.
LEMMA ReviveStep ==
  ASSUME QueueInv, QueueTypeOK', NEW m \in ClaimIds, Issued(m), ~Present(m),
         lease' = [lease EXCEPT ![m] = "stale"], revived' = revived \cup {m},
         UNCHANGED <<main, retry, claims, sent, resolved, spent>>
  PROVE  QueueInv'
<1> USE DEF QueueInv
<1>1. \A n \in ClaimIds : /\ Present(n)' <=> Present(n) \/ n = m
                          /\ (Issued(n)' <=> Issued(n)) /\ JobOf(n)' = JobOf(n)
  BY DEF Present, Issued, JobOf, QueueTypeOK
<1>2. JobOf(m) \in Jobs /\ JobOf(m) \in sent
  BY DEF Known, QueueTypeOK
<1>3. ASSUME NEW i \in Jobs
      PROVE  /\ Loose(i)' <=> Loose(i) \/ i = JobOf(m)
             /\ (Queued(i)' <=> Queued(i)) /\ (Waiting(i)' <=> Waiting(i))
             /\ Held(i) => Held(i)'
             /\ i # JobOf(m) => /\ Held(i)' <=> Held(i)
                                /\ \A n \in ClaimIds : HeldBy(n, i)' <=> HeldBy(n, i)
  <2>1. Loose(i)' <=> Loose(i) \/ i = JobOf(m)
    BY DEF Loose, JobOf
  <2>2. (Queued(i)' <=> Queued(i)) /\ (Waiting(i)' <=> Waiting(i))
    BY DEF Queued, Waiting
  <2>3. \A n \in ClaimIds : HeldBy(n, i)' <=> HeldBy(n, i) \/ (n = m /\ i = JobOf(m))
    BY <1>1 DEF HeldBy
  <2>4. QED
    BY <2>1, <2>2, <2>3 DEF Held
<1>4. Known'
  <2>1. \A n \in ClaimIds : (Present(n)' => Issued(n)') /\ (Issued(n)' => JobOf(n)' \in sent')
    BY <1>1 DEF Known
  <2>2. \A n \in revived' : Issued(n)'
    BY DEF Known, Issued
  <2>3. QED
    BY <2>1, <2>2 DEF Known
<1>5. OnePlace'
  BY <1>3 DEF OnePlace, AtMostOnce, Exclusive
<1>6. NothingLost'
  BY <1>3 DEF NothingLost, QueueTypeOK
<1>7. BudgetExact'
  BY <1>3 DEF BudgetExact
<1>8. QED
  BY <1>4, <1>5, <1>6, <1>7

-----------------------------------------------------------------------------
LEMMA TypeStep ==
  ASSUME QueueInv, QueueNext
  PROVE  QueueTypeOK'
<1> USE JobsAssumption, MaxRetryAssumption DEF QueueInv, QueueTypeOK
<1>1. ASSUME NEW j \in Jobs, AddEncodeJob(j) PROVE QueueTypeOK'
  BY <1>1, AddStep DEF QueueInv
<1>2. ASSUME NEW m \in ClaimIds, ClaimNextEncodeJob(m) PROVE QueueTypeOK'
  BY <1>2, ClaimStep DEF QueueInv
<1>3. ASSUME NEW m \in ClaimIds, Issued(m) 
      PROVE  claims[m] \in Entry /\ JobOf(m) \in Jobs /\ claims[m].retryCount \in 0..MaxRetry
             /\ CompletionKey(JobOf(m)) \in Movies \X Keys
  BY <1>3 DEF Issued, JobOf, Entry, CompletionKey
<1>4. ASSUME NEW m \in ClaimIds, AddJobToRetryQueue(m) PROVE QueueTypeOK'
  <2>1. CASE claims[m].retryCount + 1 > MaxRetry
    BY <1>3, <1>4, <2>1 DEF AddJobToRetryQueue
  <2>2. CASE ~(claims[m].retryCount + 1 > MaxRetry)
    <3>1. Issued(m) /\ claims[m].retryCount + 1 \in 0..MaxRetry
      BY <1>3, <1>4, <2>2 DEF AddJobToRetryQueue
    <3>2. [claims[m] EXCEPT !.retryCount = @ + 1] \in Entry
      BY <1>3, <3>1 DEF Entry
    <3>3. retry' \subseteq Entry
      BY <1>4, <2>2, <3>2 DEF AddJobToRetryQueue
    <3>4. spent' \in [Jobs -> 0..MaxRetry]
      BY <1>4, <2>2, <3>1, SMTT(20) DEF AddJobToRetryQueue
    <3>5. QED
      BY <1>4, <2>2, <3>3, <3>4 DEF AddJobToRetryQueue
  <2>3. QED
    BY <2>1, <2>2
<1>5. ASSUME NEW m \in ClaimIds, DeferJobForInfrastructure(m) PROVE QueueTypeOK'
  BY <1>3, <1>5 DEF DeferJobForInfrastructure
<1>6. ASSUME NEW m \in ClaimIds,
             CommitProcessingJob(m) \/ FinishProcessingJob(m) \/ ReleaseProcessingJob(m)
      PROVE  QueueTypeOK'
  BY <1>3, <1>6, SMTT(20) DEF CommitProcessingJob, FinishProcessingJob, ReleaseProcessingJob, history
<1>7. ASSUME NEW m \in ClaimIds,
             RefreshProcessingJob(m) \/ LeaseRunsOut(m) \/ ExpireProcessingJob(m)
      PROVE  QueueTypeOK'
  BY <1>7 DEF RefreshProcessingJob, LeaseRunsOut, ExpireProcessingJob, history
<1>8. ASSUME NEW m \in ClaimIds, RequeueProcessingJob(m) PROVE QueueTypeOK'
  <2>1. main' \in Seq(Entry)
    BY <1>3, <1>8, Pushed DEF RequeueProcessingJob
  <2>2. QED
    BY <1>8, <2>1 DEF RequeueProcessingJob, history
<1>9. ASSUME NEW ready \in SUBSET retry, ProcessRetryQueue(ready) PROVE QueueTypeOK'
  <2> DEFINE bad == {e \in ready : e.job \in Malformed}
  <2>1. PICK moved \in Listings(ready \ bad) : main' = main \o moved
    BY <1>9 DEF ProcessRetryQueue
  <2>2. ready \ bad \subseteq Entry /\ IsFiniteSet(ready \ bad)
    BY FS_Subset DEF Known
  <2>3. main' \in Seq(Entry)
    BY <2>1, <2>2, AppendedListing
  <2>4. {e.job : e \in bad} \subseteq Jobs
    BY DEF Entry
  <2>5. progress' \in [Movies -> Status \cup {"none"}]
    BY <1>9 DEF ProcessRetryQueue, Status
  <2>6. QED
    BY <1>9, <2>3, <2>4, <2>5 DEF ProcessRetryQueue
<1>10. ASSUME NEW k \in Movies \X Keys, CompletionExpires(k) PROVE QueueTypeOK'
  BY <1>10 DEF CompletionExpires, history
<1>11. QED
  BY <1>1, <1>2, <1>4, <1>5, <1>6, <1>7, <1>8, <1>9, <1>10 DEF QueueNext, OwnerCall

LEMMA NextInv == QueueInv /\ [QueueNext]_queueVars => QueueInv'
<1> SUFFICES ASSUME QueueInv, [QueueNext]_queueVars PROVE QueueInv'
  OBVIOUS
<1>1. CASE UNCHANGED queueVars
  <2>1. QueueTypeOK'
    BY <1>1 DEF queueVars, redis, history, QueueTypeOK, QueueInv
  <2>2. QED
    BY <1>1, <2>1, NoMove DEF queueVars, redis, history
<1>2. CASE QueueNext
  <2> USE <1>2, TypeStep
  <2>1. ASSUME NEW j \in Jobs, AddEncodeJob(j) PROVE QueueInv'
    BY <2>1, AddStep
  <2>2. ASSUME NEW m \in ClaimIds, ClaimNextEncodeJob(m) PROVE QueueInv'
    BY <2>2, ClaimStep
  <2>3. ASSUME NEW m \in ClaimIds, Issued(m), Present(m), NEW v \in {"live", "stale"},
               lease' = [lease EXCEPT ![m] = v],
               UNCHANGED <<main, retry, claims, sent, resolved, revived, spent>>
        PROVE  QueueInv'
    BY <2>3, NoMove DEF Present, QueueInv, QueueTypeOK
  <2>4. ASSUME NEW m \in ClaimIds, AddJobToRetryQueue(m) PROVE QueueInv'
    <3> DEFINE c == claims[m].retryCount + 1
    <3>1. claims[m] \in Entry
      BY <2>4 DEF AddJobToRetryQueue, Issued, QueueInv, QueueTypeOK
    <3>2. CASE c > MaxRetry
      BY <2>4, <3>2, NoMove DEF AddJobToRetryQueue
    <3>3. CASE ~(c > MaxRetry)
      <4>1. [claims[m] EXCEPT !.retryCount = @ + 1] = [job |-> JobOf(m), retryCount |-> c]
        BY <3>1 DEF Entry, JobOf
      <4>2. c \in 0..MaxRetry
        BY <3>1, <3>3, MaxRetryAssumption DEF Entry
      <4>3. Present(m) /\ lease' = [lease EXCEPT ![m] = "none"]
            /\ retry' = retry \cup {[job |-> JobOf(m), retryCount |-> c]}
            /\ spent' = [spent EXCEPT ![JobOf(m)] = c]
            /\ UNCHANGED <<main, claims, sent, resolved, revived>>
        BY <2>4, <3>3, <4>1 DEF AddJobToRetryQueue
      <4> HIDE DEF c
      <4>4. QED
        BY <4>2, <4>3, PostponeStep
    <3>4. QED
      BY <3>2, <3>3
  <2>5. ASSUME NEW m \in ClaimIds, DeferJobForInfrastructure(m) PROVE QueueInv'
    <3>1. PICK c \in 0..MaxRetry : c = claims[m].retryCount /\ claims[m] = [job |-> JobOf(m), retryCount |-> c]
      BY <2>5 DEF DeferJobForInfrastructure, Issued, QueueInv, QueueTypeOK, Entry, JobOf
    <3>2. QED
      BY <2>5, <3>1, PostponeStep DEF DeferJobForInfrastructure
  <2>6. ASSUME NEW m \in ClaimIds, CommitProcessingJob(m) \/ RefreshProcessingJob(m)
        PROVE  QueueInv'
    BY <2>3, <2>6 DEF CommitProcessingJob, RefreshProcessingJob, history
  <2>7. ASSUME NEW m \in ClaimIds, FinishProcessingJob(m) \/ ReleaseProcessingJob(m)
        PROVE  QueueInv'
    <3>1. CASE Present(m)
      BY <2>7, <3>1, SettleStep DEF FinishProcessingJob, ReleaseProcessingJob
    <3>2. CASE ~Present(m)
      BY <2>7, <3>2, NoMove DEF FinishProcessingJob, ReleaseProcessingJob
    <3>3. QED
      BY <3>1, <3>2
  <2>8. ASSUME NEW m \in ClaimIds, RequeueProcessingJob(m) PROVE QueueInv'
    BY <2>8, HandBackStep DEF RequeueProcessingJob, history
  <2>9. ASSUME NEW m \in ClaimIds, ExpireProcessingJob(m) PROVE QueueInv'
    <3>1. CASE Present(m)
      BY <2>3, <2>9, <3>1 DEF ExpireProcessingJob
    <3>2. CASE ~Present(m)
      BY <2>9, <3>2, ReviveStep DEF ExpireProcessingJob
    <3>3. QED
      BY <3>1, <3>2
  <2>10. ASSUME NEW m \in ClaimIds, LeaseRunsOut(m) PROVE QueueInv'
    <3>1. Issued(m) /\ Present(m)
      BY <2>10 DEF LeaseRunsOut, Present, QueueInv, Known
    <3>2. QED
      BY <2>3, <2>10, <3>1 DEF LeaseRunsOut, history
  <2>11. ASSUME NEW ready \in SUBSET retry, ProcessRetryQueue(ready) PROVE QueueInv'
    BY <2>11, ProcessStep
  <2>12. ASSUME NEW k \in Movies \X Keys, CompletionExpires(k) PROVE QueueInv'
    BY <2>12, NoMove DEF CompletionExpires, history
  <2>13. QED
    BY <2>1, <2>2, <2>4, <2>5, <2>6, <2>7, <2>8, <2>9, <2>10, <2>11, <2>12 DEF QueueNext, OwnerCall
<1>3. QED
  BY <1>1, <1>2

-----------------------------------------------------------------------------
\* The inductive invariant holds of every state the scripts can reach.
THEOREM Invariance == QueueSpec => []QueueInv
  BY InitInv, NextInv, PTL DEF QueueSpec

\* The keys keep the shape the scripts and the TypeScript schemas assume.
THEOREM TypeCorrect == QueueSpec => []QueueTypeOK
<1>1. QueueInv => QueueTypeOK
  BY DEF QueueInv
<1>2. QED
  BY Invariance, <1>1, PTL

\* Whatever the owners, present and past, do with their claims, a job is in one
\* place of the queue, unless expireProcessingJob put a removed claim back.
THEOREM JobInOnePlace == QueueSpec => []OnePlace
<1>1. QueueInv => OnePlace
  BY DEF QueueInv
<1>2. QED
  BY Invariance, <1>1, PTL

\* A queued job stays in the queue until a claim on it is finished or released
\* or a script refuses its message.
THEOREM JobNeverLost == QueueSpec => []NothingLost
<1>1. QueueInv => NothingLost
  BY DEF QueueInv
<1>2. QED
  BY Invariance, <1>1, PTL

\* The retryCount of a job counts its retries, however often it changes hands.
THEOREM RetryCountExact == QueueSpec => []BudgetExact
<1>1. QueueInv => BudgetExact
  BY DEF QueueInv
<1>2. QED
  BY Invariance, <1>1, PTL

\* A call with a claim that is gone disturbs no queue, claim or completion record.
THEOREM StaleOwnersHarmless == QueueSpec => StaleOwnerHarmless
<1>1. ASSUME NEW m \in ClaimIds, ~Present(m), OwnerCall(m)
      PROVE  UNCHANGED <<main, retry, lease, completion>>
  <2>1. CASE AddJobToRetryQueue(m)
    BY <1>1, <2>1 DEF AddJobToRetryQueue
  <2>2. CASE FinishProcessingJob(m) \/ ReleaseProcessingJob(m)
    BY <1>1, <2>2 DEF FinishProcessingJob, ReleaseProcessingJob
  <2>3. QED
    BY <1>1, <2>1, <2>2 DEF OwnerCall, DeferJobForInfrastructure, CommitProcessingJob,
       RefreshProcessingJob, RequeueProcessingJob
<1>2. [QueueNext]_queueVars =>
        [\A m \in ClaimIds :
           ~Present(m) /\ OwnerCall(m) => UNCHANGED <<main, retry, lease, completion>>]_queueVars
  BY <1>1
<1>3. QED
  BY <1>2, PTL DEF QueueSpec, StaleOwnerHarmless

-----------------------------------------------------------------------------
(***************************************************************************)
(* The refinement: under the mapping place[j] = Place(j) every step of the *)
(* queue is a move of the ledger or leaves the places as they were.  Each  *)
(* lemma says, of one kind of step, where its job stood and where it       *)
(* stands after; QueueInv after the step rules every other place out.      *)
(***************************************************************************)

\* Where a job that no revived claim frees stands, by where it can be found.
LEMMA PlaceFound ==
  ASSUME QueueInv, NEW j \in Jobs
  PROVE  /\ Place(j) = "loose" <=> Loose(j)
         /\ ~Loose(j) =>
              /\ j \notin sent <=> Place(j) = "unsent"
              /\ Queued(j) => Place(j) = "queued"
              /\ Waiting(j) => Place(j) = "waiting"
              /\ Held(j) => Place(j) = "held"
              /\ j \in resolved => Place(j) = "settled"
         /\ Place(j) \in Ledger!Places
<1>1. ~Loose(j) => Exclusive(j)
  BY DEF QueueInv, OnePlace
<1>2. Queued(j) \/ Waiting(j) \/ Held(j) \/ j \in resolved => j \in sent
  BY DEF QueueInv, Known, Queued, Waiting, Held, HeldBy
<1>3. QED
  BY <1>1, <1>2 DEF Place, Exclusive, Ledger!Places

LEMMA PlaceFoundNext ==
  ASSUME QueueInv', NEW j \in Jobs
  PROVE  /\ Place(j)' = "loose" <=> Loose(j)'
         /\ ~Loose(j)' =>
              /\ j \notin sent' <=> Place(j)' = "unsent"
              /\ Queued(j)' => Place(j)' = "queued"
              /\ Waiting(j)' => Place(j)' = "waiting"
              /\ Held(j)' => Place(j)' = "held"
              /\ j \in resolved' => Place(j)' = "settled"
<1>1. ~Loose(j)' => Exclusive(j)'
  BY DEF QueueInv, OnePlace
<1>2. Queued(j)' \/ Waiting(j)' \/ Held(j)' \/ j \in resolved' => j \in sent'
  BY DEF QueueInv, Known, Queued, Waiting, Held, HeldBy
<1>3. QED
  BY <1>1, <1>2 DEF Place, Exclusive

\* A job found where it was found before stands where it stood.
LEMMA StaysPut ==
  ASSUME NEW j \in Jobs,
         Loose(j)' <=> Loose(j), j \in sent' <=> j \in sent, Queued(j)' <=> Queued(j),
         Waiting(j)' <=> Waiting(j), Held(j)' <=> Held(j)
  PROVE  Place(j)' = Place(j)
  BY DEF Place

\* One job moves and the others stay.
LEMMA MovesOne ==
  ASSUME NEW j \in Jobs, NEW from, NEW to, Place(j) \in from, Place(j)' = to,
         \A i \in Jobs \ {j} : Place(i)' = Place(i)
  PROVE  Ledger!Move(j, from, to)
  BY DEF Ledger!Move

LEMMA NoneMoves ==
  ASSUME \A j \in Jobs : Place(j)' = Place(j)
  PROVE  [Ledger!LedgerNext]_[i \in Jobs |-> Place(i)]
  OBVIOUS

\* A step that leaves alone what the places are read from.
LEMMA KeepsPlaces ==
  ASSUME UNCHANGED <<main, retry, claims, sent, revived>>,
         \A m \in ClaimIds : Present(m)' <=> Present(m)
  PROVE  [Ledger!LedgerNext]_[i \in Jobs |-> Place(i)]
<1>1. ASSUME NEW j \in Jobs PROVE Place(j)' = Place(j)
  BY StaysPut DEF Loose, Queued, Waiting, Held, HeldBy, JobOf
<1>2. QED
  BY <1>1, NoneMoves

LEMMA AddMoves ==
  ASSUME QueueInv, QueueInv', NEW j \in Jobs, AddEncodeJob(j)
  PROVE  Ledger!Send(j)
<1> DEFINE new == [job |-> j, retryCount |-> 0]
<1>1. /\ main \in Seq(Entry) /\ new \in Entry /\ new.job = j
      /\ main' = Append(main, new) /\ j \notin sent /\ sent' = sent \cup {j}
      /\ UNCHANGED <<retry, claims, lease, revived>>
  BY MaxRetryAssumption DEF AddEncodeJob, QueueInv, QueueTypeOK, Entry
<1> HIDE DEF new
<1>2. /\ Len(main) \in Nat /\ DOMAIN main = 1..Len(main) /\ DOMAIN main' = 1..(Len(main) + 1)
      /\ \A a \in DOMAIN main : main'[a] = main[a]
      /\ main'[Len(main) + 1] = new
  BY <1>1, Pushed
<1>3. \A i \in Jobs : /\ Loose(i)' <=> Loose(i)
                      /\ Waiting(i)' <=> Waiting(i)
                      /\ Held(i)' <=> Held(i)
  BY <1>1 DEF Loose, Waiting, Held, HeldBy, Present, JobOf
<1>4. \A i \in Jobs : Queued(i)' <=> Queued(i) \/ i = j
  BY <1>1, <1>2 DEF Queued
<1>5. ~Loose(j)
  BY <1>1 DEF QueueInv, QueueTypeOK, Known, Loose
<1>6. Place(j) = "unsent" /\ Place(j)' = "queued"
  BY <1>1, <1>3, <1>4, <1>5, PlaceFound, PlaceFoundNext
<1>7. \A i \in Jobs \ {j} : Place(i)' = Place(i)
  BY <1>1, <1>3, <1>4, StaysPut
<1>8. QED
  BY <1>6, <1>7, MovesOne DEF Ledger!Send

\* RPOP takes the head: to a claim, or to the dead letters.
LEMMA ClaimMoves ==
  ASSUME QueueInv, QueueInv', NEW m \in ClaimIds, ClaimNextEncodeJob(m)
  PROVE  [Ledger!LedgerNext]_[i \in Jobs |-> Place(i)]
<1>1. main \in Seq(Entry) /\ main # <<>> /\ main' = Tail(main) /\ ~Issued(m)
      /\ UNCHANGED <<retry, sent, revived>>
  BY DEF ClaimNextEncodeJob, QueueInv, QueueTypeOK
<1>2. PICK e \in Entry : e = Head(main)
  BY <1>1, HeadTailProperties
<1>3. /\ Len(main) \in Nat /\ DOMAIN main = 1..Len(main) /\ DOMAIN main' = 1..(Len(main) - 1)
      /\ 1 \in DOMAIN main /\ main[1] = e
      /\ \A a \in DOMAIN main' : a + 1 \in DOMAIN main /\ main'[a] = main[a + 1]
      /\ \A a \in DOMAIN main : a # 1 => a - 1 \in DOMAIN main' /\ main'[a - 1] = main[a]
  BY <1>1, <1>2, HeadTailProperties, LenProperties, EmptySeq
<1>4. e.job \in Jobs /\ e # NoEntry
  BY EntryIsSome DEF Entry
<1>5. Queued(e.job)
  BY <1>3 DEF Queued
<1>6. ASSUME NEW i \in Jobs \ {e.job} PROVE Queued(i)' <=> Queued(i)
  <2>1. Queued(i)' => Queued(i)
    BY <1>3 DEF Queued
  <2>2. ASSUME NEW a \in DOMAIN main, main[a].job = i PROVE Queued(i)'
    <3>1. a # 1
      BY <1>3, <1>6, <2>2
    <3>2. a - 1 \in DOMAIN main' /\ main'[a - 1].job = i
      BY <3>1, <2>2, <1>3
    <3>3. QED
      BY <3>2 DEF Queued
  <2>3. QED
    BY <2>1, <2>2 DEF Queued
<1>7. ~Present(m) /\ m \notin revived /\ claims \in [ClaimIds -> Entry \cup {NoEntry}]
      /\ lease \in [ClaimIds -> {"none", "live", "stale"}] /\ revived \subseteq ClaimIds
  BY <1>1 DEF QueueInv, QueueTypeOK, Known
<1>8. CASE e.job \in Malformed
  <2>1. e.job \in resolved' /\ UNCHANGED <<claims, lease>>
    BY <1>2, <1>8 DEF ClaimNextEncodeJob
  <2>2. \A i \in Jobs : /\ Loose(i)' <=> Loose(i)
                        /\ Waiting(i)' <=> Waiting(i)
                        /\ Held(i)' <=> Held(i)
    BY <1>1, <2>1 DEF Loose, Waiting, Held, HeldBy, Present, JobOf
  <2>3. \A i \in Jobs \ {e.job} : Place(i)' = Place(i)
    BY <1>1, <1>6, <2>2, StaysPut
  <2>4. CASE Loose(e.job)
    <3>1. Place(e.job)' = Place(e.job)
      BY <1>4, <2>2, <2>4, PlaceFound, PlaceFoundNext
    <3>2. QED
      BY <2>3, <3>1, NoneMoves
  <2>5. CASE ~Loose(e.job)
    <3>1. Place(e.job) = "queued" /\ Place(e.job)' = "settled"
      BY <1>4, <1>5, <2>1, <2>2, <2>5, PlaceFound, PlaceFoundNext
    <3>2. Ledger!Refuse(e.job)
      BY <1>4, <2>3, <3>1, MovesOne DEF Ledger!Refuse
    <3>3. QED
      BY <1>4, <3>2 DEF Ledger!LedgerNext
  <2>6. QED
    BY <2>4, <2>5
<1>9. CASE e.job \notin Malformed
  <2>1. claims' = [claims EXCEPT ![m] = e] /\ lease' = [lease EXCEPT ![m] = "live"]
    BY <1>2, <1>9 DEF ClaimNextEncodeJob
  <2>2. \A n \in ClaimIds : /\ Present(n)' <=> Present(n) \/ n = m
                            /\ JobOf(n)' = IF n = m THEN e.job ELSE JobOf(n)
    BY <1>7, <2>1 DEF Present, JobOf
  <2>3. \A i \in Jobs : Loose(i)' <=> Loose(i)
    BY <1>1, <1>7, <2>2 DEF Loose
  <2>4. \A i \in Jobs : Held(i)' <=> Held(i) \/ i = e.job
    BY <1>7, <2>2 DEF Held, HeldBy
  <2>5. \A i \in Jobs : Waiting(i)' <=> Waiting(i)
    BY <1>1 DEF Waiting
  <2>6. \A i \in Jobs \ {e.job} : Place(i)' = Place(i)
    BY <1>1, <1>6, <2>3, <2>4, <2>5, StaysPut
  <2>7. CASE Loose(e.job)
    <3>1. Place(e.job)' = Place(e.job)
      BY <1>4, <2>3, <2>7, PlaceFound, PlaceFoundNext
    <3>2. QED
      BY <2>6, <3>1, NoneMoves
  <2>8. CASE ~Loose(e.job)
    <3>1. Place(e.job) = "queued" /\ Place(e.job)' = "held"
      BY <1>4, <1>5, <2>3, <2>4, <2>8, PlaceFound, PlaceFoundNext
    <3>2. Ledger!Take(e.job)
      BY <1>4, <2>6, <3>1, MovesOne DEF Ledger!Take
    <3>3. QED
      BY <1>4, <3>2 DEF Ledger!LedgerNext
  <2>9. QED
    BY <2>7, <2>8
<1>10. QED
  BY <1>8, <1>9

\* A claim that is there is dropped and its job is found, if no claim was
\* revived, in one place: the main list, the retry set, or no more.
LEMMA DropMoves ==
  ASSUME QueueInv, QueueInv', NEW m \in ClaimIds, NEW j \in Jobs, Present(m), j = JobOf(m),
         lease' = [lease EXCEPT ![m] = "none"], UNCHANGED <<claims, revived, sent>>,
         \A i \in Jobs \ {j} : (Queued(i)' <=> Queued(i)) /\ (Waiting(i)' <=> Waiting(i)),
         Queued(j)' \/ Waiting(j)' \/ j \in resolved'
  PROVE  [Ledger!LedgerNext]_[i \in Jobs |-> Place(i)]
<1>1. /\ Held(j)
      /\ \A i \in Jobs : Loose(i)' <=> Loose(i)
      /\ \A i \in Jobs : Held(i)' => Held(i)
      /\ \A i \in Jobs : Held(i) => Held(i)' \/ i = j
  BY Dropped
<1>2. \A i \in Jobs \ {j} : Place(i)' = Place(i)
  BY <1>1, StaysPut
<1>3. CASE Loose(j)
  <2>1. Place(j)' = Place(j)
    BY <1>1, <1>3, PlaceFound, PlaceFoundNext
  <2>2. QED
    BY <1>2, <2>1, NoneMoves
<1>4. CASE ~Loose(j)
  <2>1. Place(j) = "held" /\ Place(j)' \in {"queued", "waiting", "settled"}
    BY <1>1, <1>4, PlaceFound, PlaceFoundNext
  <2>2. Ledger!HandBack(j) \/ Ledger!Postpone(j) \/ Ledger!Settle(j)
    BY <1>1, <1>2, <2>1, MovesOne DEF Ledger!HandBack, Ledger!Postpone, Ledger!Settle
  <2>3. QED
    BY <1>1, <2>2 DEF Ledger!LedgerNext
<1>5. QED
  BY <1>3, <1>4

\* expireProcessingJob on a claim that is gone lets go of its job.
LEMMA ReviveMoves ==
  ASSUME QueueInv, QueueInv', NEW m \in ClaimIds, NEW j \in Jobs, j = JobOf(m),
         Issued(m), ~Present(m), lease' = [lease EXCEPT ![m] = "stale"], revived' = revived \cup {m},
         UNCHANGED <<main, retry, claims, sent>>
  PROVE  Ledger!Loosen(j)
<1>1. j \in sent
  BY DEF QueueInv, QueueTypeOK, Known
<1>2. \A n \in ClaimIds : (Present(n)' <=> Present(n) \/ n = m) /\ JobOf(n)' = JobOf(n)
  BY DEF QueueInv, QueueTypeOK, Present, JobOf
<1>3. \A i \in Jobs : /\ Loose(i)' <=> Loose(i) \/ i = j
                      /\ i # j => (Held(i)' <=> Held(i))
  BY <1>2 DEF Loose, Held, HeldBy, JobOf
<1>4. \A i \in Jobs : (Queued(i)' <=> Queued(i)) /\ (Waiting(i)' <=> Waiting(i))
  BY DEF Queued, Waiting
<1>5. \A i \in Jobs \ {j} : Place(i)' = Place(i)
  BY <1>3, <1>4, StaysPut
<1>6. Place(j) \in Ledger!Places \ {"unsent"} /\ Place(j)' = "loose"
  BY <1>1, <1>3, PlaceFound, PlaceFoundNext
<1>7. QED
  BY <1>1, <1>5, <1>6, MovesOne DEF Ledger!Loosen

\* The retries that are due: to the main list, the malformed ones to the dead letters.
LEMMA ComeDueMoves ==
  ASSUME QueueInv, QueueInv', NEW ready \in SUBSET retry, ProcessRetryQueue(ready)
  PROVE  [Ledger!LedgerNext]_[i \in Jobs |-> Place(i)]
<1> DEFINE bad == {e \in ready : e.job \in Malformed}
           good == ready \ bad
           Due == {j \in Jobs : ~Loose(j) /\ \E e \in ready : e.job = j}
<1>1. /\ retry' = retry \ ready
      /\ \E moved \in Listings(good) : main' = main \o moved
      /\ \A e \in bad : e.job \in resolved'
      /\ UNCHANGED <<claims, lease, sent, revived>>
  BY DEF ProcessRetryQueue
<1>2. PICK moved \in Listings(good) : main' = main \o moved
  BY <1>1
<1>3. main \in Seq(Entry) /\ good \subseteq Entry /\ IsFiniteSet(good)
  BY FS_Subset DEF QueueInv, QueueTypeOK, Known
<1>5. \A e \in ready : e \in good \/ e \in bad
  OBVIOUS
<1>6. \A e \in good : e \in ready /\ e.job \notin Malformed
  OBVIOUS
<1> HIDE DEF bad, good
<1>4. /\ \A a \in DOMAIN main : a \in DOMAIN main' /\ main'[a] = main[a]
      /\ \A a \in DOMAIN main' : a \notin DOMAIN main => main'[a] \in good
      /\ \A e \in good : \E a \in DOMAIN main' : main'[a] = e
  <2>1. ASSUME NEW S, S = good, NEW q, q = main
        PROVE  /\ \A a \in DOMAIN q : a \in DOMAIN (q \o moved) /\ (q \o moved)[a] = q[a]
               /\ \A a \in DOMAIN (q \o moved) : a \notin DOMAIN q => (q \o moved)[a] \in S
               /\ \A e \in S : \E a \in DOMAIN (q \o moved) : (q \o moved)[a] = e
    <3>1. S \subseteq Entry /\ IsFiniteSet(S) /\ q \in Seq(Entry) /\ moved \in Listings(S)
      BY <1>2, <1>3, <2>1
    <3>2. QED
      BY ONLY <3>1, AppendedListing
  <2>2. QED
    BY <1>2, <2>1
<1>7. ASSUME NEW i \in Jobs
      PROVE  /\ Loose(i)' <=> Loose(i)
             /\ Held(i)' <=> Held(i)
             /\ Queued(i)' <=> Queued(i) \/ \E e \in good : e.job = i
  <2>1. (Loose(i)' <=> Loose(i)) /\ (Held(i)' <=> Held(i))
    BY <1>1 DEF Loose, Held, HeldBy, Present, JobOf
  <2>2. Queued(i)' => Queued(i) \/ \E e \in good : e.job = i
    BY <1>4 DEF Queued
  <2>3. Queued(i) \/ (\E e \in good : e.job = i) => Queued(i)'
    BY <1>4 DEF Queued
  <2>4. QED
    BY <2>1, <2>2, <2>3
<1>8. ASSUME NEW i \in Jobs \ Due PROVE Place(i)' = Place(i)
  <2>1. CASE Loose(i)
    BY <1>7, <2>1, PlaceFound, PlaceFoundNext
  <2>2. CASE ~Loose(i)
    <3>1. ~\E e \in ready : e.job = i
      BY <1>8, <2>2
    <3>2. Waiting(i)' <=> Waiting(i)
      BY <1>1, <3>1 DEF Waiting
    <3>3. Queued(i)' <=> Queued(i)
      BY <1>6, <1>7, <3>1
    <3>4. QED
      BY <1>1, <1>7, <3>2, <3>3, StaysPut
  <2>3. QED
    BY <2>1, <2>2
<1>9. ASSUME NEW i \in Due
      PROVE  /\ Place(i) = "waiting"
             /\ Place(i)' = IF i \in Malformed THEN "settled" ELSE "queued"
  <2>1. PICK e \in ready : e.job = i
    BY <1>9
  <2>2. Place(i) = "waiting"
    BY <1>9, <2>1, PlaceFound DEF Waiting
  <2>3. CASE i \in Malformed
    <3>1. i \in resolved'
      BY <1>1, <1>5, <1>6, <2>1, <2>3
    <3>2. QED
      BY <1>7, <1>9, <2>2, <2>3, <3>1, PlaceFoundNext
  <2>4. CASE i \notin Malformed
    <3>1. e \in good
      BY <2>1, <2>4 DEF good, bad
    <3>2. Queued(i)'
      BY <1>7, <2>1, <3>1
    <3>3. QED
      BY <1>7, <1>9, <2>2, <2>4, <3>2, PlaceFoundNext
  <2>5. QED
    BY <2>3, <2>4
<1>10. Ledger!ComeDue(Due, Malformed)
  BY <1>8, <1>9 DEF Ledger!ComeDue
<1>11. Malformed \in SUBSET Jobs /\ Due \in SUBSET Jobs
  BY JobsAssumption
<1>12. QED
  BY <1>10, <1>11 DEF Ledger!LedgerNext

LEMMA StepMoves ==
  ASSUME QueueInv, QueueInv', [QueueNext]_queueVars
  PROVE  [Ledger!LedgerNext]_[i \in Jobs |-> Place(i)]
<1> DEFINE Moved == [Ledger!LedgerNext]_[i \in Jobs |-> Place(i)]
<1>1. CASE UNCHANGED queueVars
  BY <1>1, KeepsPlaces DEF queueVars, redis, history, Present
<1>2. ASSUME NEW j \in Jobs, AddEncodeJob(j) PROVE Moved
  BY <1>2, AddMoves DEF Ledger!LedgerNext
<1>3. ASSUME NEW m \in ClaimIds, ClaimNextEncodeJob(m) PROVE Moved
  BY <1>3, ClaimMoves
<1> HIDE DEF Moved
<1>4. ASSUME NEW m \in ClaimIds, Present(m), NEW v \in {"live", "stale"},
             lease' = [lease EXCEPT ![m] = v], UNCHANGED <<main, retry, claims, sent, revived>>
      PROVE  Moved
  <2>1. \A n \in ClaimIds : Present(n)' <=> Present(n)
    BY <1>4 DEF Present, QueueInv, QueueTypeOK
  <2>2. QED
    BY <1>4, <2>1, KeepsPlaces DEF Moved
<1>5. ASSUME NEW m \in ClaimIds, Present(m), NEW c, claims[m] \in Entry,
             lease' = [lease EXCEPT ![m] = "none"], UNCHANGED <<main, claims, revived, sent>>,
             retry' = retry \cup {[claims[m] EXCEPT !.retryCount = c]}
      PROVE  Moved
  <2>3. PICK j \in Jobs : j = JobOf(m)
    BY <1>5 DEF Entry, JobOf
  <2>1. PICK e : e.job = j /\ retry' = retry \cup {e}
    BY <1>5, <2>3 DEF Entry, JobOf
  <2>2. \A i \in Jobs : (Waiting(i)' <=> Waiting(i) \/ i = j) /\ (Queued(i)' <=> Queued(i))
    BY <1>5, <2>1 DEF Waiting, Queued
  <2>4. QED
    BY <1>5, <2>2, <2>3, DropMoves DEF Moved
<1>6. ASSUME NEW m \in ClaimIds, Issued(m) PROVE claims[m] \in Entry
  BY <1>6 DEF Issued, QueueInv, QueueTypeOK
<1>7. ASSUME NEW m \in ClaimIds, AddJobToRetryQueue(m) PROVE Moved
  <2>1. CASE claims[m].retryCount + 1 > MaxRetry
    BY <1>7, <2>1, KeepsPlaces DEF AddJobToRetryQueue, Present, Moved
  <2>2. CASE ~(claims[m].retryCount + 1 > MaxRetry)
    BY <1>5, <1>6, <1>7, <2>2 DEF AddJobToRetryQueue
  <2>3. QED
    BY <2>1, <2>2
<1>8. ASSUME NEW m \in ClaimIds, DeferJobForInfrastructure(m) PROVE Moved
  <2>1. claims[m] = [claims[m] EXCEPT !.retryCount = claims[m].retryCount]
    BY <1>6, <1>8 DEF DeferJobForInfrastructure, Entry
  <2>2. QED
    BY <1>5, <1>6, <1>8, <2>1 DEF DeferJobForInfrastructure
<1>9. ASSUME NEW m \in ClaimIds, CommitProcessingJob(m) \/ RefreshProcessingJob(m) PROVE Moved
  BY <1>4, <1>9 DEF CommitProcessingJob, RefreshProcessingJob, history
<1>10. ASSUME NEW m \in ClaimIds, FinishProcessingJob(m) \/ ReleaseProcessingJob(m) PROVE Moved
  <2>1. CASE Present(m)
    <3>1. /\ lease' = [lease EXCEPT ![m] = "none"] /\ resolved' = resolved \cup {JobOf(m)}
          /\ UNCHANGED <<main, retry, claims, revived, sent>>
      BY <1>10, <2>1 DEF FinishProcessingJob, ReleaseProcessingJob
    <3>2. \A i \in Jobs : (Waiting(i)' <=> Waiting(i)) /\ (Queued(i)' <=> Queued(i))
      BY <3>1 DEF Waiting, Queued
    <3>3. PICK j \in Jobs : j = JobOf(m)
      BY <1>6, <1>10 DEF FinishProcessingJob, ReleaseProcessingJob, Entry, JobOf
    <3>4. QED
      BY <2>1, <3>1, <3>2, <3>3, DropMoves DEF Moved
  <2>2. CASE ~Present(m)
    BY <1>10, <2>2, KeepsPlaces DEF FinishProcessingJob, ReleaseProcessingJob, Present, Moved
  <2>3. QED
    BY <2>1, <2>2
<1>11. ASSUME NEW m \in ClaimIds, RequeueProcessingJob(m) PROVE Moved
  <2>1. /\ Present(m) /\ claims[m] \in Entry /\ main \in Seq(Entry)
        /\ lease' = [lease EXCEPT ![m] = "none"] /\ main' = Append(main, claims[m])
        /\ UNCHANGED <<retry, claims, revived, sent>>
    BY <1>6, <1>11 DEF RequeueProcessingJob, history, QueueInv, QueueTypeOK
  <2>2. /\ Len(main) \in Nat /\ DOMAIN main = 1..Len(main) /\ DOMAIN main' = 1..(Len(main) + 1)
        /\ \A a \in DOMAIN main : main'[a] = main[a]
        /\ main'[Len(main) + 1] = claims[m]
    BY <2>1, Pushed
  <2>3. PICK j \in Jobs : j = JobOf(m)
    BY <2>1 DEF Entry, JobOf
  <2>4. \A i \in Jobs : Queued(i)' <=> Queued(i) \/ i = j
    BY <2>2, <2>3 DEF Queued, JobOf
  <2>5. \A i \in Jobs : Waiting(i)' <=> Waiting(i)
    BY <2>1 DEF Waiting
  <2>6. QED
    BY <2>1, <2>3, <2>4, <2>5, DropMoves DEF Moved
<1>12. ASSUME NEW m \in ClaimIds, ExpireProcessingJob(m) PROVE Moved
  <2>1. CASE Present(m)
    BY <1>4, <1>12, <2>1 DEF ExpireProcessingJob
  <2>2. CASE ~Present(m)
    <3>1. PICK j \in Jobs : j = JobOf(m)
      BY <1>6, <1>12 DEF ExpireProcessingJob, Entry, JobOf
    <3>2. Ledger!Loosen(j)
      BY <1>12, <2>2, <3>1, ReviveMoves DEF ExpireProcessingJob
    <3>3. QED
      BY <3>1, <3>2 DEF Ledger!LedgerNext, Moved
  <2>3. QED
    BY <2>1, <2>2
<1>13. ASSUME NEW m \in ClaimIds, LeaseRunsOut(m) PROVE Moved
  BY <1>4, <1>13 DEF LeaseRunsOut, Present, history
<1>14. ASSUME NEW ready \in SUBSET retry, ProcessRetryQueue(ready) PROVE Moved
  BY <1>14, ComeDueMoves DEF Moved
<1>15. ASSUME NEW k \in Movies \X Keys, CompletionExpires(k) PROVE Moved
  BY <1>15, KeepsPlaces DEF CompletionExpires, history, Present, Moved
<1>16. Moved
  BY <1>1, <1>2, <1>3, <1>7, <1>8, <1>9, <1>10, <1>11, <1>12, <1>13, <1>14, <1>15
     DEF QueueNext, OwnerCall, Moved
<1>17. QED
  BY <1>16 DEF Moved

\* The scripts implement the ledger: a job is sent, taken, handed back,
\* postponed and settled, one move at a time, and leaves the queue only by being
\* settled, until expireProcessingJob revives a claim on it.
THEOREM ImplementsLedger == QueueSpec => LedgerImplemented
<1>1. QueueInit => Ledger!LedgerInit
  <2>1. SUFFICES ASSUME QueueInit, NEW j \in Jobs PROVE Place(j) \in {"unsent", "waiting"}
    BY DEF Ledger!LedgerInit
  <2>2. main = <<>> /\ revived = {} /\ sent = {e.job : e \in retry}
    BY <2>1 DEF QueueInit
  <2>3. ~Queued(j)
    BY <2>2 DEF Queued
  <2>4. ~Loose(j) /\ (j \in sent => Waiting(j))
    BY <2>2 DEF Loose, Waiting
  <2>5. QED
    BY <2>3, <2>4 DEF Place
<1>2. QueueInv /\ QueueInv' /\ [QueueNext]_queueVars => [Ledger!LedgerNext]_[j \in Jobs |-> Place(j)]
  BY StepMoves
<1>3. QED
  BY <1>1, <1>2, Invariance, PTL DEF QueueSpec, LedgerImplemented, Ledger!LedgerSpec
=============================================================================
