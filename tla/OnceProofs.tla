----------------------------- MODULE OnceProofs ------------------------------
(***************************************************************************)
(* Proofs about what must be done once however often it is asked for: the  *)
(* effect of a request repeated with its Idempotency-Key (IdempotencyKey), *)
(* the job of a row the outbox hands over more than once (Outbox), and the *)
(* sending, receipt or closing of a stock transfer submitted more than     *)
(* once (StockTransfer).                                                   *)
(* For any attempts and payloads: one handler at a time, at most one       *)
(* effect in a life of the key beside those of handlers that threw, and    *)
(* that a replay is the answer of a finished handler.  For any jobs,       *)
(* tenants, passes and limits: the row and the queue agree whatever pass   *)
(* or crash comes between them, and a redelivered row is one job.  For any *)
(* lines, quantities, costs and requests: the status of a transfer and the *)
(* account of goods on the road tell where the goods are as long as nobody *)
(* was overtaken, and where every line has a value a request submitted     *)
(* twice is carried out once, overtaken or not.                            *)
(***************************************************************************)
EXTENDS IdempotencyKey, Outbox, StockTransfer, SumTheorems, FiniteSetTheorems, TLAPS

-----------------------------------------------------------------------------
(* IdempotencyKey: the inductive invariant *)

Open == Running \cup unstored \cup unfreed

\* The key belongs to the attempt whose handler runs, or whose late call is under
\* way: nobody claims it meanwhile, nobody has answered it.
OpenInv ==
    /\ \A r \in Open :
          keyRow # None /\ keyRow.claimant = r /\ keyRow.response = None /\ ~ keyRow.expired
    /\ \A r \in unstored : pc[r] = "answered"
    /\ \A r \in unfreed : pc[r] = "failed"

\* The stored answer is the claimant's own, of a handler that came to its end.
RowInv == keyRow # None =>
    /\ keyRow.claimant \in life
    /\ pc[keyRow.claimant] # "unsent"
    /\ payload[keyRow.claimant] = keyRow.hash
    /\ keyRow.response # None =>
          keyRow.response = keyRow.claimant /\ commits[keyRow.claimant] = HandlerCommits
    /\ keyRow.response # None => pc[keyRow.claimant] = "answered"

\* Who was not given the key commits nothing; who answered committed everything.
CommitInv == \A r \in Requests :
    /\ pc[r] \in {"unsent", "replayed", "in_progress", "conflict"} => commits[r] = 0
    /\ pc[r] = "answered" => commits[r] = HandlerCommits

KeyInv == KeyTypeOK /\ OpenInv /\ RowInv /\ CommitInv

\* What this life of the key has committed is the work of the attempt that holds it, and
\* of those that threw.
EffectInv == \A r \in life :
    commits[r] > 0 /\ pc[r] # "failed" => keyRow # None /\ keyRow.claimant = r

-----------------------------------------------------------------------------
LEMMA KeyInvInit == KeyInit => KeyInv
  BY NoneAssumption, HandlerAssumption
  DEF KeyInit, KeyInv, KeyTypeOK, OpenInv, RowInv, CommitInv, Open, Running

\* The types, one action at a time.
LEMMA TypeNext == KeyTypeOK /\ [KeyNext]_keyVars => KeyTypeOK'
<1> SUFFICES ASSUME KeyTypeOK, [KeyNext]_keyVars PROVE KeyTypeOK'
  OBVIOUS
<1> USE DEF KeyTypeOK
<1>1. ASSUME NEW r \in Requests, NEW p \in Payloads,
             payload' = [payload EXCEPT ![r] = p], ClaimKey(r, p),
             UNCHANGED <<commits, unstored, unfreed, lost>>
      PROVE  KeyTypeOK'
  BY <1>1 DEF ClaimKey, KeyRow
<1>2. ASSUME NEW r \in Requests, NEW p \in Payloads,
             payload' = [payload EXCEPT ![r] = p], Refer(r, p),
             UNCHANGED <<commits, unstored, unfreed, lost>>
      PROVE  KeyTypeOK'
  <2>1. keyRow \in KeyRow
    BY <1>2 DEF Refer, KeyFree
  <2>2. Outcome(r, p) \in {"conflict", "in_progress", "replayed"}
    BY DEF Outcome
  <2> QED
    BY <1>2, <2>1, <2>2 DEF Refer, KeyRow
<1>3. ASSUME NEW r \in Requests, Begin(r) PROVE KeyTypeOK'
  BY <1>1, <1>2, <1>3 DEF Begin
<1>4. ASSUME NEW r \in Requests, HandlerCommit(r) PROVE KeyTypeOK'
  BY <1>4, HandlerAssumption DEF HandlerCommit
<1>5. ASSUME NEW r \in Requests, Answer(r) PROVE KeyTypeOK'
  BY <1>5 DEF Answer
<1>6. ASSUME NEW r \in Requests, HandlerThrows(r) PROVE KeyTypeOK'
  BY <1>6 DEF HandlerThrows
<1>7. ASSUME NEW r \in Requests, Complete(r) PROVE KeyTypeOK'
  BY <1>7 DEF Complete, KeyRow
<1>8. ASSUME NEW r \in Requests, Release(r) PROVE KeyTypeOK'
  BY <1>8 DEF Release
<1>9. ASSUME NEW r \in Requests, Lose(r) PROVE KeyTypeOK'
  BY <1>9 DEF Lose
<1>10. CASE Expire
  BY <1>10 DEF Expire, KeyRow
<1>11. CASE Purge
  BY <1>11 DEF Purge
<1>12. CASE UNCHANGED keyVars
  BY <1>12 DEF keyVars
<1> QED
  BY <1>3, <1>4, <1>5, <1>6, <1>7, <1>8, <1>9, <1>10, <1>11, <1>12 DEF KeyNext, Handling, Quiet

\* A claim is made only when no handler runs and no late call is under way.
LEMMA InvBegin ==
    ASSUME KeyInv, KeyTypeOK', NEW r \in Requests, Begin(r)
    PROVE  OpenInv' /\ RowInv' /\ CommitInv'
<1> PICK p \in Payloads : payload' = [payload EXCEPT ![r] = p] /\ (ClaimKey(r, p) \/ Refer(r, p))
  BY DEF Begin
<1>1. pc[r] = "unsent" /\ commits[r] = 0 /\ UNCHANGED <<commits, unstored, unfreed, lost>>
  BY DEF Begin, KeyInv, CommitInv
<1>2. CASE ClaimKey(r, p)
  <2>1. Open = {}
    BY <1>2 DEF ClaimKey, KeyFree, KeyInv, OpenInv
  <2>2. Open' = {r}
    BY <1>1, <1>2, <2>1 DEF ClaimKey, Open, Running, KeyInv, KeyTypeOK
  <2>3. /\ keyRow' = [hash |-> p, claimant |-> r, response |-> None, expired |-> FALSE]
        /\ pc' = [pc EXCEPT ![r] = "running"]
        /\ r \in life'
    BY <1>2 DEF ClaimKey
  <2>4. keyRow' \in KeyRow /\ keyRow' # None
    <3>1. keyRow' \in KeyRow
      BY <2>3 DEF KeyRow
    <3> QED
      BY <3>1, NoneAssumption
  <2>5. OpenInv'
    BY <1>1, <2>1, <2>2, <2>3, <2>4 DEF OpenInv, Open
  <2>6. RowInv'
    BY <1>1, <2>3, <2>4 DEF RowInv, KeyInv, KeyTypeOK
  <2>7. CommitInv'
    BY <1>1, <2>3 DEF CommitInv, KeyInv, KeyTypeOK
  <2> QED
    BY <2>5, <2>6, <2>7
<1>3. CASE Refer(r, p)
  <2>1. Outcome(r, p) \in {"conflict", "in_progress", "replayed"}
    BY DEF Outcome
  <2>2. keyRow' = keyRow /\ life' = life /\ pc' = [pc EXCEPT ![r] = Outcome(r, p)]
    BY <1>3 DEF Refer
  <2>3. Open' = Open /\ r \notin Open
    BY <1>1, <2>1, <2>2 DEF Open, Running, KeyInv, KeyTypeOK, OpenInv
  <2> HIDE DEF Outcome
  <2>4. OpenInv'
    BY <1>1, <2>1, <2>2, <2>3 DEF OpenInv, KeyInv, KeyTypeOK, Open
  <2>5. RowInv'
    BY <1>1, <2>1, <2>2 DEF RowInv, KeyInv, KeyTypeOK, KeyRow
  <2>6. CommitInv'
    BY <1>1, <2>1, <2>2 DEF CommitInv, KeyInv, KeyTypeOK
  <2> QED
    BY <2>4, <2>5, <2>6
<1> QED
  BY <1>2, <1>3
\* Committing, answering and failing leave the key to the attempt that does it.
LEMMA InvHandler ==
    ASSUME KeyInv, KeyTypeOK', NEW r \in Requests, HandlerCommit(r) \/ Answer(r) \/ HandlerThrows(r)
    PROVE  OpenInv' /\ RowInv' /\ CommitInv'
<1>1. r \in Open /\ pc[r] = "running" /\ keyRow' = keyRow /\ payload' = payload /\ life' = life
  BY DEF HandlerCommit, Answer, HandlerThrows, Open, Running
<1>2. Open' = Open
  BY DEF HandlerCommit, Answer, HandlerThrows, Open, Running, KeyInv, KeyTypeOK
<1>3. keyRow # None /\ keyRow.claimant = r /\ keyRow.response = None
  BY <1>1 DEF KeyInv, OpenInv
<1>4. OpenInv'
  BY <1>1, <1>2 DEF HandlerCommit, Answer, HandlerThrows, OpenInv, KeyInv, KeyTypeOK, Open
<1>5. RowInv'
  BY <1>1, <1>3 DEF HandlerCommit, Answer, HandlerThrows, RowInv, KeyInv, KeyTypeOK
<1>6. CommitInv'
  BY HandlerAssumption DEF HandlerCommit, Answer, HandlerThrows, CommitInv, KeyInv, KeyTypeOK
<1> QED
  BY <1>4, <1>5, <1>6

\* The late calls find the row of the attempt that makes them.
LEMMA InvLate ==
    ASSUME KeyInv, KeyTypeOK', NEW r \in Requests, Complete(r) \/ Release(r)
    PROVE  OpenInv' /\ RowInv' /\ CommitInv'
<1>1. r \in Open /\ UNCHANGED <<pc, payload, commits, life>>
  BY DEF Complete, Release, Open
<1>2. keyRow \in KeyRow /\ keyRow # None /\ keyRow.claimant = r /\ keyRow.response = None
  BY <1>1 DEF KeyInv, OpenInv, KeyTypeOK
<1>3. Open = {r}
  BY <1>1, <1>2 DEF KeyInv, OpenInv
<1>4. Open' = {}
  BY <1>3 DEF Complete, Release, Open, Running, KeyInv, OpenInv
<1>5. OpenInv'
  BY <1>4 DEF OpenInv, Open
<1>6. RowInv'
  <2>1. CASE Complete(r)
    <3>1. keyRow' = [keyRow EXCEPT !.response = r] /\ pc[r] = "answered"
      BY <1>2, <2>1 DEF Complete, KeyInv, OpenInv
    <3>2. keyRow'.claimant = r /\ keyRow'.hash = keyRow.hash /\ keyRow'.response = r
      BY <1>2, <3>1 DEF KeyRow
    <3> QED
      BY <1>1, <1>2, <3>1, <3>2 DEF RowInv, CommitInv, KeyInv
  <2>2. CASE Release(r)
    BY <1>2, <2>2 DEF Release, RowInv
  <2> QED
    BY <2>1, <2>2
<1>7. CommitInv'
  BY <1>1 DEF CommitInv, KeyInv
<1> QED
  BY <1>5, <1>6, <1>7

\* A server that dies leaves its claim behind.
LEMMA InvLose ==
    ASSUME KeyInv, KeyTypeOK', NEW r \in Requests, Lose(r)
    PROVE  OpenInv' /\ RowInv' /\ CommitInv'
<1>1. Open' \subseteq Open
  BY DEF Lose, Open, Running, KeyInv, KeyTypeOK
<1>2. UNCHANGED <<keyRow, payload, commits, answer, life>>
  BY DEF Lose
<1>3. OpenInv'
  BY <1>1, <1>2 DEF Lose, OpenInv, KeyInv, KeyTypeOK, Open
<1>4. RowInv'
  BY <1>2 DEF Lose, RowInv, KeyInv, KeyTypeOK, KeyRow
<1>5. CommitInv'
  BY <1>2 DEF Lose, CommitInv, KeyInv, KeyTypeOK
<1> QED
  BY <1>3, <1>4, <1>5

LEMMA KeyInvNext == KeyInv /\ [KeyNext]_keyVars => KeyInv'
<1> SUFFICES ASSUME KeyInv, [KeyNext]_keyVars PROVE OpenInv' /\ RowInv' /\ CommitInv'
  BY TypeNext DEF KeyInv
<1>1. KeyTypeOK'
  BY TypeNext DEF KeyInv
<1>2. CASE Expire
  <2>1. Open' = {} /\ keyRow' = [keyRow EXCEPT !.expired = TRUE] /\ keyRow \in KeyRow
    BY <1>2 DEF Expire, Open, Running, KeyInv, KeyTypeOK
  <2>2. /\ keyRow'.claimant = keyRow.claimant
        /\ keyRow'.hash = keyRow.hash
        /\ keyRow'.response = keyRow.response
    BY <2>1 DEF KeyRow
  <2> QED
    BY <1>2, <2>1, <2>2 DEF Expire, OpenInv, Open, RowInv, CommitInv, KeyInv
<1>3. CASE Purge
  <2>1. Open = {}
    BY <1>3 DEF Purge, KeyInv, OpenInv
  <2>2. Open' = {}
    BY <1>3, <2>1 DEF Purge, Open, Running
  <2> QED
    BY <1>3, <2>2 DEF Purge, OpenInv, Open, RowInv, CommitInv, KeyInv
<1>4. CASE UNCHANGED keyVars
  BY <1>4 DEF keyVars, KeyInv, OpenInv, Open, Running, RowInv, CommitInv
<1>5. ASSUME NEW r \in Requests, Begin(r) \/ Handling(r) \/ Lose(r)
      PROVE  OpenInv' /\ RowInv' /\ CommitInv'
  BY <1>1, <1>5, InvBegin, InvHandler, InvLate, InvLose DEF Handling
<1> QED
  BY <1>2, <1>3, <1>4, <1>5 DEF KeyNext, Quiet

LEMMA KeyAlways == KeySpec => []KeyInv
  BY KeyInvInit, KeyInvNext, PTL DEF KeySpec

-----------------------------------------------------------------------------
(* Theorems *)

\* The rows, phases and counts of the model have their types.
THEOREM KeyTypeCorrect == KeySpec => []KeyTypeOK
<1>1. KeyInv => KeyTypeOK
  BY DEF KeyInv
<1> QED
  BY <1>1, KeyAlways, PTL

\* Of all the attempts with one key, on whatever replicas, the handler of at most one
\* runs at any time: begin() gives the key only to a request that finds none there, or
\* finds one that has expired.
THEOREM OneHandler == KeySpec => []OneHandlerAtATime
<1>1. KeyInv => OneHandlerAtATime
  <2> SUFFICES ASSUME KeyInv PROVE Cardinality(Running) <= 1
    BY DEF OneHandlerAtATime
  <2>1. Running \subseteq {keyRow.claimant}
    BY DEF KeyInv, OpenInv, Open
  <2>2. Cardinality({keyRow.claimant}) = 1 /\ IsFiniteSet({keyRow.claimant})
    BY FS_Singleton
  <2> QED
    BY <2>1, <2>2, FS_Subset
<1> QED
  BY <1>1, KeyAlways, PTL

\* Every step keeps what a life of the key has committed with the attempt that holds it.
LEMMA EffectNext ==
    ASSUME KeyInv, KeyInv', EffectInv, [KeyNext]_keyVars
    PROVE  EffectInv'
<1>1. ASSUME NEW r \in Requests, Begin(r) PROVE EffectInv'
  <2> PICK p \in Payloads : ClaimKey(r, p) \/ Refer(r, p)
    BY <1>1 DEF Begin
  <2>1. commits' = commits /\ commits[r] = 0
    BY <1>1 DEF Begin, KeyInv, CommitInv
  <2>2. CASE ClaimKey(r, p)
    BY <2>1, <2>2 DEF ClaimKey, EffectInv, KeyInv, KeyTypeOK
  <2>3. CASE Refer(r, p)
    BY <2>1, <2>3 DEF Refer, EffectInv, KeyInv, KeyTypeOK
  <2> QED
    BY <2>2, <2>3
<1>2. ASSUME NEW r \in Requests, HandlerCommit(r) PROVE EffectInv'
  <2>1. keyRow # None /\ keyRow.claimant = r
    BY <1>2 DEF HandlerCommit, KeyInv, OpenInv, Open, Running
  <2> QED
    BY <1>2, <2>1 DEF HandlerCommit, EffectInv, KeyInv, KeyTypeOK
<1>3. ASSUME NEW r \in Requests, Answer(r) \/ HandlerThrows(r) \/ Lose(r) PROVE EffectInv'
  BY <1>3 DEF Answer, HandlerThrows, Lose, EffectInv, KeyInv, KeyTypeOK
<1>4. ASSUME NEW r \in Requests, Complete(r) PROVE EffectInv'
  <2>1. keyRow \in KeyRow /\ keyRow # None
    BY <1>4 DEF Complete, KeyInv, OpenInv, Open, KeyTypeOK
  <2>2. keyRow'.claimant = keyRow.claimant
    BY <1>4, <2>1 DEF Complete, KeyRow
  <2>3. keyRow' # None
    BY <1>4, <2>1, NoneAssumption DEF Complete, KeyRow
  <2> QED
    BY <1>4, <2>2, <2>3 DEF Complete, EffectInv
<1>5. ASSUME NEW r \in Requests, Release(r) PROVE EffectInv'
  <2>1. keyRow.claimant = r /\ pc[r] = "failed"
    BY <1>5 DEF Release, KeyInv, OpenInv, Open
  <2> QED
    BY <1>5, <2>1 DEF Release, EffectInv, KeyInv, KeyTypeOK
<1>6. CASE Expire
  <2>1. keyRow'.claimant = keyRow.claimant
    BY <1>6 DEF Expire, KeyInv, KeyTypeOK, KeyRow
  <2>2. keyRow' # None
    BY <1>6, NoneAssumption DEF Expire, KeyInv, KeyTypeOK, KeyRow
  <2> QED
    BY <1>6, <2>1, <2>2 DEF Expire, EffectInv
<1>7. CASE Purge
  BY <1>7 DEF Purge, EffectInv
<1>8. CASE UNCHANGED keyVars
  BY <1>8 DEF keyVars, EffectInv
<1> QED
  BY <1>1, <1>2, <1>3, <1>4, <1>5, <1>6, <1>7, <1>8 DEF KeyNext, Handling, Quiet

\* What a client repeats with its key takes effect at most once before the key expires,
\* through refusals, dead servers and late calls that never came, but for what attempts
\* committed before they threw, however many transactions a handler has.
THEOREM EffectAtMostOnce == KeySpec => []EffectOnce
<1>1. KeyInit => EffectInv
  BY DEF KeyInit, EffectInv
<1>2. KeyInv /\ KeyInv' /\ EffectInv /\ [KeyNext]_keyVars => EffectInv'
  BY EffectNext
<1>3. EffectInv => EffectOnce
  <2> DEFINE who == {r \in life : commits[r] > 0 /\ pc[r] # "failed"}
  <2> SUFFICES ASSUME EffectInv PROVE Cardinality(who) <= 1
    BY DEF EffectOnce
  <2>1. who \subseteq {keyRow.claimant}
    BY DEF EffectInv
  <2>2. Cardinality({keyRow.claimant}) = 1 /\ IsFiniteSet({keyRow.claimant})
    BY FS_Singleton
  <2> HIDE DEF who
  <2> QED
    BY <2>1, <2>2, FS_Subset
<1> QED
  BY <1>1, <1>2, <1>3, KeyAlways, PTL DEF KeySpec

\* A replay carries the response to the same payload, of a handler that committed all it
\* had to commit, in this life of the key, however many transactions a handler has.
THEOREM ReplaysAreAnswers == KeySpec => ReplayIsTheAnswer
<1>1. ASSUME KeyInv, [KeyNext]_keyVars, NEW r \in Requests, pc'[r] = "replayed", pc[r] # "replayed"
      PROVE  /\ answer'[r] \in life
             /\ payload[answer'[r]] = payload'[r]
             /\ commits[answer'[r]] = HandlerCommits
  <2>1. Begin(r)
    BY <1>1 DEF KeyNext, Begin, ClaimKey, Refer, Handling, HandlerCommit, Answer, HandlerThrows, Complete,
       Release, Lose, Expire, Purge, Quiet, keyVars, KeyInv, KeyTypeOK
  <2> PICK p \in Payloads : payload' = [payload EXCEPT ![r] = p] /\ (ClaimKey(r, p) \/ Refer(r, p))
    BY <2>1 DEF Begin
  <2>2. Refer(r, p) /\ Outcome(r, p) = "replayed"
    BY <1>1 DEF ClaimKey, Refer, KeyInv, KeyTypeOK
  <2>3. keyRow # None /\ keyRow.hash = p /\ keyRow.response # None
    BY <2>2 DEF Refer, KeyFree, Outcome
  <2>4. answer'[r] = keyRow.response
    BY <1>1, <2>2 DEF Refer, KeyInv, KeyTypeOK
  <2>5. payload'[r] = p
    BY <1>1 DEF KeyInv, KeyTypeOK
  <2> QED
    BY <1>1, <2>3, <2>4, <2>5 DEF KeyInv, RowInv
<1>2. KeyInv /\ [KeyNext]_keyVars =>
        [\A r \in Requests : pc'[r] = "replayed" /\ pc[r] # "replayed" =>
            LET q == answer'[r]
            IN  q \in life /\ payload[q] = payload'[r] /\ commits[q] = HandlerCommits]_keyVars
  BY <1>1
<1> QED
  BY <1>2, KeyAlways, PTL DEF KeySpec, ReplayIsTheAnswer

-----------------------------------------------------------------------------
(* Outbox: the inductive invariant *)

\* A row that can still be tried has tries left, in Postgres and in Redis.
LimitInv == \A j \in Jobs :
    /\ row[j].status = "pending" => row[j].attempts < MaxAttempts
    /\ draft[j].status = "pending" => draft[j].attempts < MaxAttempts
    /\ queue[j] # "finished" => tries[j] < Tries

\* A pass works on pending rows that no other pass holds.
ClaimInv ==
    /\ \A p \in Passes : left[p] \subseteq claimed[p]
    /\ \A p \in Passes : \A j \in claimed[p] : row[j].status = "pending"
    /\ \A p, q \in Passes : p # q => claimed[p] \cap claimed[q] = {}

\* What a pass has written over a row it has tried is a state such a row may take, and
\* says published only if the queue was given the job.
DraftInv == \A p \in Passes : \A j \in claimed[p] \ left[p] :
    /\ draft[j].status \in {"pending", "published", "dead"}
    /\ draft[j].status = "published" => queue[j] # "absent" \/ forgotten[j] > 0

\* A mail that nobody has forgotten is told by the state of its job.
MailInv == \A j \in Jobs :
    sent[j] <= forgotten[j] + (IF queue[j] \in {"sent", "finished"} THEN 1 ELSE 0)

IInv == TypeOK /\ LimitInv /\ ClaimInv /\ DraftInv /\ MailInv /\ StoresAgree

-----------------------------------------------------------------------------
LEMMA Limits ==
    /\ MaxAttempts \in Nat \ {0} /\ Tries \in Nat \ {0}
    /\ MaxCrashes \in Nat /\ MaxCommands \in Nat
  BY LimitAssumption

LEMMA InvInit == Init => IInv
  BY Limits DEF Init, NoRow, IInv, TypeOK, Row, Statuses, LimitInv, ClaimInv, DraftInv, MailInv,
     StoresAgree

\* Steps that touch neither the passes nor the queue: the business transaction that
\* writes the row, the backoff, the console.
LEMMA InvRow ==
    ASSUME IInv, NEW j \in Jobs,
           Enqueue(j) \/ Decide(j) \/ BackoffElapses(j) \/ Retry(j) \/ Cancel(j)
    PROVE  IInv'
<1> DEFINE new == row'[j]
<1>1. /\ row' = [row EXCEPT ![j] = new]
      /\ UNCHANGED <<draft, todo, claimed, left, active, queue, tries, stalls, sent, forgotten, crashes>>
  BY DEF IInv, TypeOK, Enqueue, Decide, BackoffElapses, Retry, Cancel, passVars, workerVars
<1>2. row[j] \in Row
  BY DEF IInv, TypeOK
<1>3. new \in Row /\ (new.status = "pending" => new.attempts < MaxAttempts)
  <2>1. \/ \E s \in {"writing", "void", "dead"} : new = [row[j] EXCEPT !.status = s]
        \/ new = [status |-> "pending", attempts |-> 0, due |-> TRUE]
        \/ row[j].status = "pending" /\ new = [row[j] EXCEPT !.due = TRUE]
    BY DEF IInv, TypeOK, Enqueue, Decide, BackoffElapses, Retry, Cancel
  <2>2. row[j].status = "pending" => row[j].attempts < MaxAttempts
    BY DEF IInv, LimitInv
  <2> HIDE DEF new
  <2>3. CASE \E s \in {"writing", "void", "dead"} : new = [row[j] EXCEPT !.status = s]
    BY <1>2, <2>3 DEF Row, Statuses
  <2>4. CASE new = [status |-> "pending", attempts |-> 0, due |-> TRUE]
    BY <2>4, Limits DEF Row, Statuses
  <2>5. CASE row[j].status = "pending" /\ new = [row[j] EXCEPT !.due = TRUE]
    BY <1>2, <2>2, <2>5 DEF Row, Statuses
  <2> QED
    BY <2>1, <2>3, <2>4, <2>5
<1>4. /\ new.status = "published" => row[j].status = "published"
      /\ row[j].status \in {"pending", "published", "dead"} =>
            new.status \in {"pending", "published", "dead"}
      /\ j \in Locked => new.status = row[j].status \/ row[j].status # "pending"
  BY <1>2 DEF IInv, TypeOK, Row, Enqueue, Decide, BackoffElapses, Retry, Cancel
<1>5. commands' \in 0..MaxCommands
  BY Limits DEF IInv, TypeOK, Enqueue, Decide, BackoffElapses, Retry, Cancel
<1> HIDE DEF new
<1>6. TypeOK' /\ LimitInv'
  BY <1>1, <1>3, <1>5 DEF IInv, TypeOK, LimitInv
<1>7. ClaimInv'
  BY <1>1, <1>4 DEF IInv, TypeOK, ClaimInv, Locked
<1>8. DraftInv' /\ MailInv'
  BY <1>1 DEF IInv, DraftInv, MailInv
<1>9. StoresAgree'
  BY <1>1, <1>4 DEF IInv, TypeOK, StoresAgree
<1> QED
  BY <1>6, <1>7, <1>8, <1>9 DEF IInv

\* Starting a pass, claiming, committing and dying.
LEMMA InvClaim ==
    ASSUME IInv, NEW p \in Passes, Claim(p)
    PROVE  IInv'
<1> PICK t \in todo[p], B \in SUBSET Jobs :
        /\ B \in Batches(Claimable(t))
        /\ todo' = [todo EXCEPT ![p] = @ \ {t}]
        /\ claimed' = [claimed EXCEPT ![p] = B]
        /\ left' = [left EXCEPT ![p] = B]
  BY DEF Claim
<1>1. /\ UNCHANGED <<row, draft, active, queue, tries, stalls, sent, forgotten, commands, crashes>>
  BY DEF Claim, rowVars, workerVars
<1>2. B \subseteq Jobs \ Locked /\ \A j \in B : row[j].status = "pending"
  BY DEF Batches, Claimable, Due
<1>3. TypeOK' /\ LimitInv' /\ MailInv' /\ StoresAgree'
  BY <1>1 DEF IInv, TypeOK, LimitInv, MailInv, StoresAgree
<1>4. ClaimInv'
  BY <1>1, <1>2 DEF IInv, TypeOK, ClaimInv, Locked
<1>5. DraftInv'
  BY <1>1, <1>2 DEF IInv, TypeOK, DraftInv
<1> QED
  BY <1>3, <1>4, <1>5 DEF IInv

\* The row a try leaves behind, whether add() returned or threw.
LEMMA InvPublish ==
    ASSUME IInv, NEW p \in Passes, NEW j \in Jobs, Publish(p, j) \/ PublishThrows(p, j)
    PROVE  IInv'
<1> DEFINE new == draft'[j]
<1>1. /\ j \in left[p] /\ j \in claimed[p] /\ row[j] \in Row /\ row[j].status = "pending"
      /\ row[j].attempts < MaxAttempts
  BY DEF Publish, PublishThrows, IInv, TypeOK, ClaimInv, LimitInv
<1>2. /\ draft' = [draft EXCEPT ![j] = new]
      /\ left' = [left EXCEPT ![p] = @ \ {j}]
      /\ UNCHANGED <<row, todo, claimed, active, tries, stalls, sent, forgotten, commands, crashes>>
  BY DEF Publish, PublishThrows, workerVars, IInv, TypeOK
<1>3. queue' = queue \/ queue' = Added(j)
  BY DEF Publish, PublishThrows
<1>4. /\ new \in Row /\ new.status \in {"pending", "published", "dead"}
      /\ new.status = "pending" => new.attempts < MaxAttempts
      /\ new.status = "published" => queue' = Added(j)
  <2>1. row[j].attempts \in Nat
    BY <1>1 DEF Row
  <2>2. CASE Publish(p, j)
    <3>1. new = AsPublished(j) /\ queue' = Added(j)
      BY <2>2 DEF Publish, IInv, TypeOK
    <3> HIDE DEF new
    <3> QED
      BY <1>1, <2>1, <3>1, Limits DEF AsPublished, Row, Statuses
  <2>3. CASE PublishThrows(p, j)
    <3>1. new = AsRefused(j)
      BY <2>3 DEF PublishThrows, IInv, TypeOK
    <3> HIDE DEF new
    <3> QED
      BY <1>1, <2>1, <3>1, Limits DEF AsRefused, Row, Statuses
  <2> QED
    BY <2>2, <2>3
<1> HIDE DEF new
<1>5. /\ queue' \in [Jobs -> {"absent", "waiting", "active", "sent", "finished"}]
      /\ \A k \in Jobs : queue'[k] = queue[k] \/ (k = j /\ queue[k] = "absent" /\ queue'[k] = "waiting")
      /\ queue' = Added(j) => queue'[j] # "absent"
  BY <1>3 DEF Added, IInv, TypeOK
<1>6. TypeOK'
  BY <1>2, <1>4, <1>5 DEF IInv, TypeOK
<1>7. LimitInv' /\ MailInv'
  BY <1>2, <1>4, <1>5 DEF IInv, TypeOK, LimitInv, MailInv
<1>8. ClaimInv'
  BY <1>2 DEF IInv, TypeOK, ClaimInv
<1>9. DraftInv'
  BY <1>1, <1>2, <1>4, <1>5 DEF IInv, TypeOK, DraftInv, ClaimInv
<1>10. StoresAgree'
  BY <1>1, <1>2, <1>5 DEF IInv, TypeOK, StoresAgree
<1> QED
  BY <1>6, <1>7, <1>8, <1>9, <1>10 DEF IInv

LEMMA InvCommit ==
    ASSUME IInv, NEW p \in Passes, CommitDrain(p)
    PROVE  IInv'
<1>1. /\ row' = [j \in Jobs |-> IF j \in claimed[p] THEN draft[j] ELSE row[j]]
      /\ draft' = [j \in Jobs |-> IF j \in claimed[p] THEN NoRow ELSE draft[j]]
      /\ claimed' = [claimed EXCEPT ![p] = {}]
      /\ left[p] = {}
      /\ UNCHANGED <<todo, left, active, queue, tries, stalls, sent, forgotten, commands, crashes>>
  BY DEF CommitDrain, workerVars
<1>2. NoRow \in Row
  BY Limits DEF NoRow, Row, Statuses
<1>3. TypeOK' /\ LimitInv'
  BY <1>1, <1>2 DEF IInv, TypeOK, LimitInv, NoRow
<1>4. ClaimInv'
  BY <1>1 DEF IInv, TypeOK, ClaimInv
<1>5. DraftInv' /\ MailInv'
  BY <1>1 DEF IInv, TypeOK, DraftInv, MailInv, ClaimInv
<1>6. StoresAgree'
  BY <1>1 DEF IInv, TypeOK, StoresAgree, DraftInv
<1> QED
  BY <1>3, <1>4, <1>5, <1>6 DEF IInv

LEMMA InvPass ==
    ASSUME IInv, NEW p \in Passes, StartPass(p) \/ CrashDrain(p)
    PROVE  IInv'
<1>1. CASE StartPass(p)
  BY <1>1 DEF StartPass, rowVars, workerVars, IInv, TypeOK, LimitInv, ClaimInv, DraftInv, MailInv,
     StoresAgree
<1>2. CASE CrashDrain(p)
  <2>1. /\ draft' = [j \in Jobs |-> IF j \in claimed[p] THEN NoRow ELSE draft[j]]
        /\ todo' = [todo EXCEPT ![p] = {}]
        /\ claimed' = [claimed EXCEPT ![p] = {}]
        /\ left' = [left EXCEPT ![p] = {}]
        /\ UNCHANGED <<row, active, queue, tries, stalls, sent, forgotten, commands>>
    BY <1>2 DEF CrashDrain, workerVars
  <2>2. NoRow \in Row /\ crashes' \in 0..MaxCrashes
    BY <1>2, Limits DEF CrashDrain, NoRow, Row, Statuses, IInv, TypeOK
  <2>3. TypeOK' /\ LimitInv'
    BY <2>1, <2>2 DEF IInv, TypeOK, LimitInv, NoRow
  <2>4. ClaimInv' /\ DraftInv'
    BY <2>1 DEF IInv, TypeOK, ClaimInv, DraftInv
  <2>5. MailInv' /\ StoresAgree'
    BY <2>1 DEF IInv, MailInv, StoresAgree
  <2> QED
    BY <2>3, <2>4, <2>5 DEF IInv
<1> QED
  BY <1>1, <1>2

\* The worker and the queue never touch the rows.
LEMMA InvWorker ==
    ASSUME IInv, NEW j \in Jobs, Handle(j) \/ WorkerDies(j) \/ Evict(j)
    PROVE  IInv'
<1>1. UNCHANGED <<row, draft, todo, claimed, left, active, commands, crashes>>
  BY DEF Handle, Take, Send, Ack, Throw, WorkerDies, Evict, rowVars, passVars
<1>2. /\ TypeOK' /\ LimitInv'
  BY <1>1, Limits DEF Handle, Take, Send, Ack, Throw, WorkerDies, Evict, workerVars, IInv, TypeOK,
     LimitInv
<1>3. ClaimInv'
  BY <1>1 DEF IInv, ClaimInv
<1>4. \A k \in Jobs :
        /\ queue[k] # "absent" \/ forgotten[k] > 0 => queue'[k] # "absent" \/ forgotten'[k] > 0
        /\ queue'[k] # "absent" => queue[k] # "absent"
  BY DEF Handle, Take, Send, Ack, Throw, WorkerDies, Evict, workerVars, IInv, TypeOK
<1>5. DraftInv' /\ StoresAgree'
  BY <1>1, <1>4 DEF IInv, TypeOK, DraftInv, StoresAgree
<1>6. MailInv'
  <2>1. CASE Throw(j)
    BY <2>1 DEF Throw, IInv, TypeOK, MailInv
  <2>2. CASE Take(j) \/ Send(j) \/ Ack(j) \/ WorkerDies(j) \/ Evict(j)
    BY <2>2 DEF Take, Send, Ack, WorkerDies, Evict, workerVars, IInv, TypeOK, MailInv
  <2> QED BY <2>1, <2>2 DEF Handle
<1> QED
  BY <1>2, <1>3, <1>5, <1>6 DEF IInv

LEMMA InvNext == IInv /\ [Next]_vars => IInv'
<1> SUFFICES ASSUME IInv, [Next]_vars PROVE IInv'
  OBVIOUS
<1>1. ASSUME NEW t \in Tenants, Suspend(t) PROVE IInv'
  BY <1>1 DEF Suspend, rowVars, passVars, workerVars, IInv, TypeOK, LimitInv, ClaimInv, DraftInv,
     MailInv, StoresAgree
<1>2. CASE UNCHANGED vars
  BY <1>2 DEF vars, rowVars, passVars, workerVars, IInv, TypeOK, LimitInv, ClaimInv, DraftInv,
     MailInv, StoresAgree
<1>3. ASSUME NEW p \in Passes, StartPass(p) \/ Drain(p) \/ CrashDrain(p) PROVE IInv'
  BY <1>3, InvClaim, InvPublish, InvCommit, InvPass DEF Drain
<1> QED
  BY <1>1, <1>2, <1>3, InvRow, InvWorker DEF Next

LEMMA InvAlways == Spec => []IInv
  BY InvInit, InvNext, PTL DEF Spec

-----------------------------------------------------------------------------
(* Theorems *)

\* Rows, passes, queue and counters have their types: in particular neither the attempts
\* of a row nor the tries of a job pass their limit.
THEOREM OutboxTypeCorrect == Spec => []TypeOK
<1>1. IInv => TypeOK
  BY DEF IInv
<1> QED
  BY <1>1, InvAlways, PTL

\* The queue knows only jobs whose transaction committed, and a row says published only
\* when Redis has been given the job, whichever pass or crash came between the stores.
THEOREM RowsAndQueueAgree == Spec => []StoresAgree
<1>1. IInv => StoresAgree
  BY DEF IInv
<1> QED
  BY <1>1, InvAlways, PTL

\* However often a row is published, the mails sent for it beyond the first are those a
\* dead worker, a mailer that timed out or an eviction has forgotten.
THEOREM OneJobPerRow == Spec => []RedeliveryIsOneJob
<1>1. IInv => RedeliveryIsOneJob
  BY DEF IInv, MailInv, RedeliveryIsOneJob, TypeOK
<1> QED
  BY <1>1, InvAlways, PTL

-----------------------------------------------------------------------------
(* StockTransfer: the inductive invariants *)

Asks(r, kind) == stage[r] # "idle" /\ op[r].kind = kind

\* What a request that nobody overtook still knows of the document: it could be loaded
\* again, and the rest of its work would come out the same.
Knows(r) == r \notin overtaken /\ stage[r] # "idle" =>
    /\ Accepts(op[r]) /\ own[r] = Settles(op[r])
    /\ seen[r] = [status |-> status, entry |-> sendEntry.state]
    /\ stage[r] \in {"posted", "updated"} => value[r] = EntryValue(r)
    /\ stage[r] = "updated" =>
          complete[r] = (op[r].kind = "receive" /\ Plus(received, own[r]) = Qty)

\* What every request knows, overtaken or not.
Works(r) ==
    /\ stage[r] # "idle" => op[r] \in Ops
    /\ stage[r] \in {"idle", "loaded", "moved"} => value[r] = 0

\* Where the status says the goods are, whatever the order of receipts and closings was.
GoodsInv ==
    /\ status = "draft" => /\ \A w \in Ways : goods[w] = Nothing
                           /\ received = Nothing /\ closed = Nothing
    /\ status \notin {"draft", "cancelled"} =>
          /\ goods["sent"] = Qty /\ goods["cancel"] = Nothing /\ goods["receipt"] = received
          /\ closed = Plus(goods["return"], goods["shortage"])
    /\ OnTheRoad(status) => goods["return"] = Nothing /\ goods["shortage"] = Nothing
    /\ status = "in_transit" => received = Nothing
    /\ status = "received" => received = Qty /\ closed = Nothing
    /\ status = "closed" =>
          \A l \in Lines : received[l] <= Qty[l] => received[l] + closed[l] = Qty[l]

Road == [l \in Lines |-> OnRoad(l)]

\* What the account of the goods on the road has been told.
TransitInv ==
    /\ status = "draft" => transit = 0 /\ sendEntry.state = "none"
    /\ OnTheRoad(status) /\ sendEntry.state = "none" => Worth(Qty) = 0
    /\ sendEntry.state = "posted" => sendEntry.value > 0
    /\ (\A o \in Ops : o.kind = "receive" => applied[o] = 0) => goods["receipt"] = Nothing
    /\ OneReceipt /\ sendEntry.state # "void" => transit = Worth(Road)

TransferInv ==
    /\ TransferTypes
    /\ \A r \in Slots : Works(r) /\ Knows(r)
    /\ ~ stale => GoodsInv /\ TransitInv

\* What keeps a second one out, overtaken or not, where every item has a value: an entry
\* to post and its key, and for a cancellation the rows of the source and the mirrors.
Fenced(r) ==
    /\ value[r] # 0 => lock[<<"journal">>] = r /\ Key(op[r]) \notin keys
    /\ Asks(r, "send") => own[r] = Qty
    /\ stage[r] # "idle" /\ ~ Asks(r, "cancel") => \E l \in Lines : own[r][l] > 0
    /\ stage[r] \in {"posted", "updated"} /\ ~ Asks(r, "cancel") => value[r] > 0
    /\ Asks(r, "cancel") =>
          /\ \A l \in Lines : own[r][l] <= Qty[l]
          /\ stage[r] # "loaded" =>
                \A l \in Touched(r) : lock[<<"source", l>>] = r /\ goods["cancel"][l] = 0

OnceInv ==
    /\ \A r \in Slots : Fenced(r)
    /\ \A o \in Ops : o.kind # "cancel" /\ applied[o] # 0 => applied[o] = 1 /\ Key(o) \in keys
    /\ [kind |-> "send"] \notin keys => goods["sent"] = Nothing
    /\ \A l \in Lines : goods["sent"][l] <= Qty[l] /\ goods["cancel"][l] <= Qty[l]

Valued == \A l \in Lines : Cost[l] > 0

-----------------------------------------------------------------------------
(* StockTransfer: sums over the lines *)

CostsOf(f) == [l \in Lines |-> f[l] * Cost[l]]

LEMMA WorthSum == \A f : Worth(f) = SumOf(CostsOf(f), Lines)
BY DEF Worth, SumOf, CostsOf, MapThenSumSet, MapThenFoldSet

LEMMA WorthTypes ==
    ASSUME NEW f \in [Lines -> Int]
    PROVE  Worth(f) \in Int /\ \A l \in Lines : CostsOf(f)[l] \in Int
<1>1. \A l \in Lines : f[l] \in Int /\ Cost[l] \in Int
  BY TransferAssumption
<1>2. \A l \in Lines : CostsOf(f)[l] \in Int
  BY <1>1 DEF CostsOf
<1>3. SumOf(CostsOf(f), Lines) \in Int
  BY <1>2, TransferAssumption, SumInt
<1> QED BY <1>2, <1>3, WorthSum

LEMMA TimesNat ==
    ASSUME NEW m \in Nat, NEW n \in Nat
    PROVE  m * n \in Nat /\ (m > 0 /\ n > 0 => m * n > 0)
<1>1. m * n \in Nat
  OBVIOUS
<1>2. ASSUME m > 0, n > 0 PROVE m * n > 0
  <2>1. PICK k \in Nat : m = k + 1
    <3>1. m - 1 \in Nat
      BY <1>2
    <3> QED BY <3>1
  <2>2. k * n \in Nat
    OBVIOUS
  <2>3. (k + 1) * n = k * n + n
    OBVIOUS
  <2> QED BY <1>2, <2>1, <2>2, <2>3
<1> QED BY <1>1, <1>2

LEMMA WorthNat ==
    ASSUME NEW f \in [Lines -> Nat]
    PROVE  /\ Worth(f) \in Nat
           /\ \A l \in Lines : f[l] > 0 /\ Cost[l] > 0 => Worth(f) > 0
<1> DEFINE g == CostsOf(f)
<1>1. \A l \in Lines : f[l] \in Nat /\ Cost[l] \in Nat
  BY TransferAssumption
<1>2. \A l \in Lines : g[l] \in Nat /\ (f[l] > 0 /\ Cost[l] > 0 => g[l] > 0)
  BY <1>1, TimesNat DEF CostsOf
<1> HIDE DEF g
<1>3. SumOf(g, Lines) \in Nat
  BY <1>2, TransferAssumption, SumNat
<1>4. ASSUME NEW l \in Lines, f[l] > 0, Cost[l] > 0 PROVE SumOf(g, Lines) > 0
  <2>1. IsFiniteSet(Lines) /\ IsFiniteSet(Lines \ {l})
    BY TransferAssumption, FS_Subset
  <2>2. SumOf(g, Lines) = g[l] + SumOf(g, Lines \ {l})
    <3>1. \A x \in Lines : g[x] \in Int
      BY <1>2
    <3> QED BY <2>1, <3>1, SumTakeOut
  <2>3. SumOf(g, Lines \ {l}) \in Nat
    BY <1>2, <2>1, SumNat
  <2>4. g[l] \in Nat /\ g[l] > 0
    BY <1>2, <1>4
  <2> QED BY <2>2, <2>3, <2>4
<1> QED BY <1>3, <1>4, WorthSum DEF g

LEMMA WorthPlus ==
    ASSUME NEW f \in [Lines -> Int], NEW g \in [Lines -> Int], NEW h \in [Lines -> Int],
           \A l \in Lines : h[l] = f[l] + g[l]
    PROVE  Worth(h) = Worth(f) + Worth(g)
<1>1. ASSUME NEW l \in Lines PROVE CostsOf(h)[l] = CostsOf(f)[l] + CostsOf(g)[l]
  <2>1. f[l] \in Int /\ g[l] \in Int /\ Cost[l] \in Int
    BY TransferAssumption
  <2>2. (f[l] + g[l]) * Cost[l] = f[l] * Cost[l] + g[l] * Cost[l]
    BY <2>1
  <2> QED BY <2>2 DEF CostsOf
<1>2. SumOf(CostsOf(h), Lines) = SumOf(CostsOf(f), Lines) + SumOf(CostsOf(g), Lines)
  BY <1>1, WorthTypes, TransferAssumption, SumPlus
<1> QED BY <1>2, WorthSum

LEMMA WorthNothing == Worth(Nothing) = 0 /\ Nothing \in [Lines -> Nat]
<1>1. \A l \in Lines : CostsOf(Nothing)[l] = 0
  BY TransferAssumption DEF CostsOf, Nothing
<1>2. SumOf(CostsOf(Nothing), Lines) = 0
  BY <1>1, TransferAssumption, SumZero
<1> QED BY <1>2, WorthSum DEF Nothing

\* What the entries of a receipt say of line l, entry by entry.
NamesOf(list, l) == [i \in DOMAIN list |-> IF list[i].line = l THEN list[i].qty ELSE 0]

LEMMA NamedSum ==
    ASSUME NEW list, NEW l \in Lines
    PROVE  Named(list)[l] = SumOf(NamesOf(list, l), DOMAIN list)
BY DEF Named, SumOf, NamesOf, MapThenSumSet, MapThenFoldSet

LEMMA NamedTypes ==
    ASSUME NEW list \in Seq([line : Lines, qty : Int]), \A i \in DOMAIN list : list[i].qty > 0
    PROVE  /\ Named(list) \in [Lines -> Nat]
           /\ \A i \in DOMAIN list : list[i].line \in Lines /\ Named(list)[list[i].line] > 0
<1> DEFINE T == [line : Lines, qty : Int]
<1>1. \A i \in DOMAIN list : list[i] \in T
  <2>1. list \in Seq(T)
    OBVIOUS
  <2> HIDE DEF T
  <2> QED BY <2>1
<1>2. \A i \in DOMAIN list : list[i].line \in Lines /\ list[i].qty \in Nat /\ list[i].qty > 0
  BY <1>1
<1>3. IsFiniteSet(DOMAIN list)
  <2>1. DOMAIN list = 1..Len(list) /\ Len(list) \in Nat
    OBVIOUS
  <2> QED BY <2>1, FS_Interval
<1>4. ASSUME NEW l \in Lines
      PROVE  /\ Named(list)[l] \in Nat
             /\ \A i \in DOMAIN list : list[i].line = l => Named(list)[l] > 0
  <2> DEFINE g == NamesOf(list, l)
             S == DOMAIN list
  <2>1. \A i \in S : g[i] \in Nat /\ g[i] \in Int /\ (list[i].line = l => g[i] > 0)
    BY <1>2 DEF NamesOf
  <2>2. IsFiniteSet(S)
    BY <1>3
  <2> HIDE DEF g, S
  <2>3. SumOf(g, S) \in Nat
    BY <2>1, <2>2, SumNat
  <2>4. ASSUME NEW i \in S, list[i].line = l PROVE SumOf(g, S) > 0
    <3>1. SumOf(g, S) = g[i] + SumOf(g, S \ {i})
      BY <2>1, <2>2, SumTakeOut
    <3>2. IsFiniteSet(S \ {i})
      BY <2>2, FS_Subset
    <3>3. SumOf(g, S \ {i}) \in Nat
      BY <2>1, <3>2, SumNat
    <3> QED BY <2>1, <2>4, <3>1, <3>3
  <2> QED BY <2>3, <2>4, NamedSum DEF g, S
<1>5. Named(list) = [l \in Lines |-> Named(list)[l]]
  BY DEF Named
<1> DEFINE f == Named(list)
<1>6. f = [l \in Lines |-> f[l]] /\ \A l \in Lines : f[l] \in Nat
  BY <1>4, <1>5
<1> HIDE DEF f
<1>7. f \in [Lines -> Nat]
  BY <1>6
<1> QED BY <1>2, <1>4, <1>7 DEF f

-----------------------------------------------------------------------------
(* StockTransfer: what a step changes *)

\* The steps of a request; but for the commit they leave every row as it is.
Prepares(r) == (\E o \in Ops : Load(r, o)) \/ Move(r) \/ Post(r) \/ UpdateLines(r)
TransferStep(r) == Prepares(r) \/ Commit(r) \/ Fail(r)

LEMMA TransferSteps == TransferNext <=> (\E r \in Slots : TransferStep(r)) \/ Finished
BY DEF TransferNext, TransferStep, Prepares

TransferRows == <<document, books, applied, stale>>

LEMMA TransferRowsStay ==
    ASSUME NEW r \in Slots, Prepares(r) \/ Fail(r)
    PROVE  UNCHANGED TransferRows
BY DEF Prepares, Load, Move, Post, UpdateLines, Fail, history, TransferRows

LEMMA OpKinds ==
    ASSUME NEW o \in Ops
    PROVE  /\ o.kind \in {"send", "receive", "close", "cancel"} /\ Way(o) \in Ways
           /\ o.kind = "send" => Way(o) = "sent" /\ Key(o) = [kind |-> "send"]
           /\ o.kind = "receive" => /\ Way(o) = "receipt"
                                    /\ o.list \in Seq([line : Lines, qty : Int])
           /\ o.kind = "close" => Way(o) \in {"return", "shortage"}
           /\ o.kind = "cancel" => Way(o) = "cancel"
<1>1. o \in Sends \/ o \in Receives \/ o \in Closes \/ o \in Cancels
  BY TransferAssumption
<1> QED
  BY <1>1 DEF Sends, Receives, Closes, Cancels, Way, Ways, Key

LEMMA SettlesTypes ==
    ASSUME TransferTypes, NEW o \in Ops, Accepts(o)
    PROVE  /\ Settles(o) \in [Lines -> Nat]
           /\ o.kind # "cancel" => \E l \in Lines : Settles(o)[l] > 0
<1>0. /\ Qty \in [Lines -> Nat] /\ \A l \in Lines : Qty[l] \in Nat \ {0}
      /\ received \in [Lines -> Nat] /\ closed \in [Lines -> Nat]
  BY TransferAssumption DEF TransferTypes
<1>1. CASE o.kind = "send"
  <2>1. Settles(o) = Qty
    BY <1>1 DEF Settles
  <2>2. PICK l \in Lines : TRUE
    BY TransferAssumption
  <2> QED BY <1>0, <2>1, <2>2
<1>2. CASE o.kind = "receive"
  <2>1. Settles(o) = Named(o.list) /\ o.list # <<>> /\ \A i \in DOMAIN o.list : o.list[i].qty > 0
    BY <1>2 DEF Settles, Accepts
  <2>2. o.list \in Seq([line : Lines, qty : Int])
    BY <1>2, OpKinds
  <2>3. 1 \in DOMAIN o.list
    BY <2>1, <2>2
  <2> QED BY <2>1, <2>2, <2>3, NamedTypes
<1>3. CASE o.kind = "close"
  <2>1. Settles(o) = Outstanding([received |-> received, closed |-> closed])
    BY <1>3 DEF Settles
  <2>2. PICK l \in Lines : received[l] + closed[l] < Qty[l]
    BY <1>3 DEF Accepts
  <2>3. \A x \in Lines : received[x] \in Nat /\ closed[x] \in Nat
    BY <1>0
  <2> QED BY <1>0, <1>3, <2>1, <2>2, <2>3 DEF Outstanding
<1>4. CASE o.kind = "cancel"
  <2>1. Settles(o) \in {goods["sent"], Nothing}
    BY <1>4 DEF Settles
  <2> QED BY <1>4, <2>1, WorthNothing DEF TransferTypes, Ways
<1> QED BY <1>1, <1>2, <1>3, <1>4, OpKinds

\* What a step of r leaves alone of another request, and that it keeps what it holds.
LEMMA OthersStay ==
    ASSUME TransferTypes, NEW r \in Slots, TransferStep(r), NEW u \in Slots, u # r
    PROVE  /\ stage'[u] = stage[u] /\ op'[u] = op[u] /\ own'[u] = own[u] /\ value'[u] = value[u]
           /\ \A x \in Locks : lock[x] = u => lock'[x] = u
           /\ seen'[u] = seen[u] /\ complete'[u] = complete[u]
           /\ (Prepares(r) \/ Fail(r)) => (u \in overtaken' <=> u \in overtaken)
           /\ Commit(r) => (u \in overtaken' <=> stage[u] # "idle")
<1> DEFINE Same == /\ stage'[u] = stage[u] /\ op'[u] = op[u] /\ own'[u] = own[u]
                   /\ value'[u] = value[u] /\ seen'[u] = seen[u] /\ complete'[u] = complete[u]
                   /\ \A x \in Locks : lock[x] = u => lock'[x] = u
<1>01. Prepares(r) \/ Fail(r) => (u \in overtaken' <=> u \in overtaken)
  BY DEF Prepares, Load, Move, Post, UpdateLines, Fail, history
<1>02. Commit(r) => (u \in overtaken' <=> stage[u] # "idle")
  BY DEF Commit
<1> SUFFICES Same
  BY <1>01, <1>02
<1>1. CASE \E o \in Ops : Load(r, o)
  BY <1>1 DEF Load, TransferTypes
<1>2. CASE Move(r)
  BY <1>2, TransferAssumption DEF Move, LockRows, Free, TransferTypes, request
<1>3. CASE Post(r)
  <2>1. /\ stage'[u] = stage[u] /\ op' = op /\ seen' = seen /\ own' = own /\ complete' = complete
        /\ value'[u] = value[u]
    BY <1>3 DEF Post, TransferTypes
  <2>2. lock' = lock \/ \E S : Free(r, S) /\ LockRows(r, S)
    <3>1. CASE EntryValue(r) = 0
      BY <1>3, <3>1 DEF Post
    <3>2. CASE EntryValue(r) # 0
      BY <1>3, <3>2 DEF Post
    <3> QED BY <3>1, <3>2
  <2> QED
    BY <2>1, <2>2, TransferAssumption DEF LockRows, Free
<1>4. CASE UpdateLines(r)
  BY <1>4, TransferAssumption DEF UpdateLines, LockRows, Free, TransferTypes
<1>5. CASE Commit(r) \/ Fail(r)
  <2>1. End(r)
    BY <1>5 DEF Commit, Fail
  <2> QED BY <2>1 DEF End, Unlock, TransferTypes
<1> QED
  BY <1>1, <1>2, <1>3, <1>4, <1>5 DEF TransferStep, Prepares

-----------------------------------------------------------------------------
(* StockTransfer: types *)

LEMMA PlusTypes ==
    ASSUME NEW f \in [Lines -> Nat], NEW g \in [Lines -> Nat]
    PROVE  Plus(f, g) \in [Lines -> Nat] /\ \A l \in Lines : Plus(f, g)[l] = f[l] + g[l]
BY DEF Plus

LEMMA EntryValueTypes ==
    ASSUME TransferTypes, NEW r \in Slots, op[r] \in Ops
    PROVE  EntryValue(r) \in Nat
<1>1. own[r] \in [Lines -> Nat] /\ goods[Way(op[r])] \in [Lines -> Nat] /\ sendEntry.value \in Nat
  BY OpKinds DEF TransferTypes
<1>2. Worth(Plus(goods[Way(op[r])], own[r])) \in Nat /\ Worth(own[r]) \in Nat
  BY <1>1, PlusTypes, WorthNat
<1> QED BY <1>1, <1>2, OpKinds DEF EntryValue

LEMMA TransferStepTypes ==
    ASSUME TransferTypes, NEW r \in Slots, TransferStep(r), stage[r] # "idle" => op[r] \in Ops
    PROVE  TransferTypes'
<1>0. Nothing \in [Lines -> Nat]
  BY WorthNothing
<1>1. CASE \E o \in Ops : Load(r, o)
  <2> PICK o \in Ops : Load(r, o)
    BY <1>1
  <2>1. Settles(o) \in [Lines -> Nat]
    BY SettlesTypes DEF Load
  <2>2. [status |-> status, entry |-> sendEntry.state] \in [status : TransferStatuses, entry : EntryStates]
    BY DEF TransferTypes
  <2>3. started' \in 0..MaxRequests
    BY TransferAssumption DEF Load, TransferTypes
  <2>4. /\ stage' \in [Slots -> {"idle", "loaded", "moved", "posted", "updated"}]
        /\ op' \in [Slots -> Ops \cup {NoOp}] /\ own' \in [Slots -> [Lines -> Nat]]
        /\ seen' \in [Slots -> [status : TransferStatuses, entry : EntryStates] \cup {NoOp}]
    <3> DEFINE R == [status : TransferStatuses, entry : EntryStates]
               L == [Lines -> Nat]
    <3>1. seen \in [Slots -> R \cup {NoOp}] /\ own \in [Slots -> L]
      BY DEF TransferTypes
    <3>2. [status |-> status, entry |-> sendEntry.state] \in R /\ Settles(o) \in L
      BY <2>1, <2>2
    <3> HIDE DEF R, L
    <3>3. seen' \in [Slots -> R \cup {NoOp}] /\ own' \in [Slots -> L]
      BY <3>1, <3>2 DEF Load
    <3> QED BY <3>3 DEF Load, TransferTypes, R, L
  <2> QED
    BY <2>3, <2>4 DEF Load, TransferTypes, document, books, history
<1>2. CASE Move(r)
  <2>1. lock' \in [Locks -> Slots \cup {NoOp}]
    BY <1>2 DEF Move, LockRows, TransferTypes
  <2> QED
    BY <1>2, <2>1 DEF Move, TransferTypes, document, books, request, history
<1>3. CASE Post(r)
  <2>1. EntryValue(r) \in Nat
    BY <1>3, EntryValueTypes DEF Post
  <2>2. value' \in [Slots -> Nat]
    BY <1>3, <2>1 DEF Post, TransferTypes
  <2>3. lock' \in [Locks -> Slots \cup {NoOp}]
    BY <1>3 DEF Post, LockRows, TransferTypes
  <2> QED
    BY <1>3, <2>2, <2>3 DEF Post, TransferTypes, document, books, history
<1>4. CASE UpdateLines(r)
  <2>1. lock' \in [Locks -> Slots \cup {NoOp}]
    BY <1>4 DEF UpdateLines, LockRows, TransferTypes
  <2>2. complete' \in [Slots -> BOOLEAN]
    BY <1>4 DEF UpdateLines, TransferTypes
  <2> QED
    BY <1>4, <2>1, <2>2 DEF UpdateLines, TransferTypes, document, books, history
<1>5. ASSUME End(r)
      PROVE  /\ lock' \in [Locks -> Slots \cup {NoOp}]
             /\ stage' \in [Slots -> {"idle", "loaded", "moved", "posted", "updated"}]
             /\ op' \in [Slots -> Ops \cup {NoOp}]
             /\ seen' \in [Slots -> [status : TransferStatuses, entry : EntryStates] \cup {NoOp}]
             /\ own' \in [Slots -> [Lines -> Nat]] /\ value' \in [Slots -> Nat]
             /\ complete' \in [Slots -> BOOLEAN] /\ started' \in 0..MaxRequests
  BY <1>0, <1>5 DEF End, Unlock, TransferTypes
<1>6. CASE Fail(r)
  BY <1>5, <1>6 DEF Fail, TransferTypes, document, books
<1>7. CASE Commit(r)
  <2>1. op[r] \in Ops /\ End(r)
    BY <1>7 DEF Commit
  <2>2. /\ own[r] \in [Lines -> Nat] /\ value[r] \in Nat /\ complete[r] \in BOOLEAN
        /\ Way(op[r]) \in Ways /\ goods[Way(op[r])] \in [Lines -> Nat]
        /\ received \in [Lines -> Nat] /\ closed \in [Lines -> Nat]
    BY <2>1, OpKinds DEF TransferTypes
  <2>3. status' \in TransferStatuses
    BY <1>7, <2>1, OpKinds DEF Commit, NextStatus, TransferTypes, TransferStatuses
  <2>4. received' \in [Lines -> Nat] /\ closed' \in [Lines -> Nat]
    BY <1>7, <2>2, PlusTypes DEF Commit
  <2>5. goods' \in [Ways -> [Lines -> Nat]]
    <3>1. Plus(goods[Way(op[r])], own[r]) \in [Lines -> Nat]
      BY <2>2, PlusTypes
    <3> DEFINE L == [Lines -> Nat]
               p == Plus(goods[Way(op[r])], own[r])
    <3>2. goods \in [Ways -> L] /\ goods' = [goods EXCEPT ![Way(op[r])] = p] /\ p \in L
      BY <1>7, <3>1 DEF Commit, TransferTypes
    <3> HIDE DEF L, p
    <3>3. goods' \in [Ways -> L]
      BY <2>2, <3>2
    <3> QED BY <3>3 DEF L
  <2>6. keys' \in SUBSET {Key(o) : o \in Ops}
    BY <1>7, <2>1 DEF Commit, TransferTypes
  <2>7. sendEntry' \in [state : EntryStates, value : Nat]
    BY <1>7, <2>2 DEF Commit, TransferTypes, EntryStates
  <2>8. transit' \in Int
    BY <1>7, <2>1, <2>2, OpKinds DEF Commit, TransitChange, TransferTypes
  <2>9. applied' \in [Ops -> Nat]
    BY <1>7, <2>1 DEF Commit, TransferTypes
  <2>10. overtaken' \in SUBSET Slots /\ stale' \in BOOLEAN
    BY <1>7 DEF Commit, TransferTypes
  <2> QED
    BY <1>5, <2>1, <2>3, <2>4, <2>5, <2>6, <2>7, <2>8, <2>9, <2>10 DEF TransferTypes
<1> QED
  BY <1>1, <1>2, <1>3, <1>4, <1>6, <1>7 DEF TransferStep, Prepares

-----------------------------------------------------------------------------
(* StockTransfer: what a request knows *)

\* What a request settles, and what its entry is worth, as functions of all they depend on.
SettlesOf(o, s, f, g, h) ==
    CASE o.kind = "send" -> Qty
      [] o.kind = "receive" -> Named(o.list)
      [] o.kind = "close" -> Outstanding([received |-> f, closed |-> g])
      [] o.kind = "cancel" -> IF s = "in_transit" THEN h["sent"] ELSE Nothing

LEMMA SettlesRead ==
    ASSUME NEW r
    PROVE  /\ Settles(op[r]) = SettlesOf(op[r], status, received, closed, goods)
           /\ Settles(op[r])' = SettlesOf(op'[r], status', received', closed', goods')
BY DEF Settles, SettlesOf, Named, Outstanding, Nothing, MapThenSumSet, MapThenFoldSet

ValueOf(o, f, s, e, g) ==
    CASE o.kind \in {"send", "receive"} -> Worth(Plus(g[Way(o)], f))
      [] o.kind = "close" -> Worth(f)
      [] o.kind = "cancel" ->
            IF s.status = "in_transit" /\ s.entry # "none" /\ e.state # "void" THEN e.value ELSE 0

LEMMA EntryValueRead ==
    ASSUME NEW r
    PROVE  /\ EntryValue(r) = ValueOf(op[r], own[r], seen[r], sendEntry, goods)
           /\ EntryValue(r)' = ValueOf(op'[r], own'[r], seen'[r], sendEntry', goods')
BY DEF EntryValue, ValueOf, Worth, Plus, Way, MapThenSumSet, MapThenFoldSet

LEMMA KnowsQuietly ==
    ASSUME TransferInv, NEW r \in Slots, Prepares(r) \/ Fail(r), NEW u \in Slots, u # r
    PROVE  Works(u)' /\ Knows(u)'
<1>1. TransferTypes /\ Works(u) /\ Knows(u) /\ UNCHANGED TransferRows
  BY TransferRowsStay DEF TransferInv
<1>2. /\ stage'[u] = stage[u] /\ op'[u] = op[u] /\ own'[u] = own[u] /\ value'[u] = value[u]
      /\ seen'[u] = seen[u] /\ complete'[u] = complete[u]
      /\ u \in overtaken' <=> u \in overtaken
  BY <1>1, OthersStay DEF TransferStep
<1>3. UNCHANGED <<status, received, closed, sendEntry, goods>>
  BY <1>1 DEF TransferRows, document, books
<1>4. Settles(op[u])' = Settles(op[u]) /\ EntryValue(u)' = EntryValue(u)
  BY <1>2, <1>3, SettlesRead, EntryValueRead
<1>5. Accepts(op[u])' <=> Accepts(op[u])
  BY <1>2, <1>3 DEF Accepts, OnTheRoad
<1>6. Plus(received, own[u])' = Plus(received, own[u])
  BY <1>2, <1>3 DEF Plus
<1> QED
  BY <1>1, <1>2, <1>3, <1>4, <1>5, <1>6 DEF Works, Knows

LEMMA KnowsAlone ==
    ASSUME TransferInv, NEW r \in Slots, Prepares(r) \/ Fail(r)
    PROVE  Works(r)' /\ Knows(r)'
<1>1. TransferTypes /\ Works(r) /\ Knows(r) /\ UNCHANGED TransferRows
  BY TransferRowsStay DEF TransferInv
<1>2. UNCHANGED <<status, received, closed, sendEntry, goods>>
  BY <1>1 DEF TransferRows, document, books
<1>3. CASE \E o \in Ops : Load(r, o)
  <2> PICK o \in Ops : Load(r, o)
    BY <1>3
  <2>1. /\ stage[r] = "idle" /\ stage'[r] = "loaded" /\ op'[r] = o /\ value'[r] = 0
        /\ own'[r] = Settles(o) /\ Accepts(o)
        /\ seen'[r] = [status |-> status, entry |-> sendEntry.state]
    BY <1>1 DEF Load, Works, TransferTypes
  <2>2. Settles(op[r])' = Settles(o)
    <3>1. Settles(o) = SettlesOf(o, status, received, closed, goods)
      BY DEF Settles, SettlesOf
    <3> QED BY <1>2, <2>1, <3>1, SettlesRead
  <2>3. Accepts(op[r])'
    BY <1>2, <2>1 DEF Accepts, OnTheRoad
  <2> QED
    BY <1>2, <2>1, <2>2, <2>3 DEF Works, Knows
<1>4. CASE ~ \E o \in Ops : Load(r, o)
  <2>1. CASE Fail(r)
    BY <1>1, <2>1 DEF Fail, End, TransferTypes, Works, Knows
  <2>2. CASE Move(r) \/ Post(r) \/ UpdateLines(r)
    <3>1. op' = op /\ own' = own /\ seen' = seen /\ overtaken' = overtaken
      BY <2>2 DEF Move, Post, UpdateLines, request, history
    <3>2. Settles(op[r])' = Settles(op[r]) /\ EntryValue(r)' = EntryValue(r)
      BY <1>2, <3>1, SettlesRead, EntryValueRead
    <3>3. Accepts(op[r])' <=> Accepts(op[r])
      BY <1>2, <3>1 DEF Accepts, OnTheRoad
    <3>4. Plus(received, own[r])' = Plus(received, own[r])
      BY <1>2, <3>1 DEF Plus
    <3>5. CASE Move(r)
      <4>1. stage[r] = "loaded" /\ stage'[r] = "moved" /\ value' = value
        BY <1>1, <3>5 DEF Move, request, TransferTypes
      <4> QED BY <1>1, <1>2, <3>1, <3>2, <3>3, <4>1 DEF Works, Knows
    <3>6. CASE Post(r)
      <4>1. stage[r] = "moved" /\ stage'[r] = "posted" /\ value'[r] = EntryValue(r)
        BY <1>1, <3>6 DEF Post, TransferTypes, Works
      <4> QED BY <1>1, <1>2, <3>1, <3>2, <3>3, <4>1 DEF Works, Knows
    <3>7. CASE UpdateLines(r)
      <4>1. /\ stage[r] = "posted" /\ stage'[r] = "updated" /\ value' = value
            /\ complete'[r] = (op[r].kind = "receive" /\ Plus(received, own[r]) = Qty)
        BY <1>1, <3>7 DEF UpdateLines, TransferTypes
      <4> QED BY <1>1, <1>2, <3>1, <3>2, <3>3, <3>4, <4>1 DEF Works, Knows
    <3> QED BY <2>2, <3>5, <3>6, <3>7
  <2> QED BY <1>4, <2>1, <2>2 DEF Prepares
<1> QED BY <1>3, <1>4

LEMMA OnRoadPrimed == Worth(Road)' = Worth(Road')
BY DEF Worth, MapThenSumSet, MapThenFoldSet

\* What the rows say is not touched by a step that commits nothing.
LEMMA RowsQuietly ==
    ASSUME TransferInv, UNCHANGED TransferRows
    PROVE  ~ stale' => GoodsInv' /\ TransitInv'
<1>1. UNCHANGED <<status, received, closed, sendEntry, goods, transit, applied, stale>>
  BY DEF TransferRows, document, books
<1>2. Road' = Road
  BY <1>1 DEF Road, OnRoad
<1>3. Worth(Road)' = Worth(Road) /\ Worth(Qty)' = Worth(Qty) /\ OneReceipt' = OneReceipt
  BY <1>1, <1>2, OnRoadPrimed DEF Worth, MapThenSumSet, MapThenFoldSet, OneReceipt
<1>4. Nothing' = Nothing /\ Plus(goods["return"], goods["shortage"])' = Plus(goods["return"], goods["shortage"])
  BY <1>1 DEF Nothing, Plus
<1>5. ~ stale => GoodsInv /\ TransitInv
  BY DEF TransferInv
<1>6. GoodsInv => GoodsInv'
  BY <1>1, <1>4 DEF GoodsInv, OnTheRoad
<1>7. TransitInv => TransitInv'
  BY <1>1, <1>3, <1>4 DEF TransitInv, OnTheRoad
<1> QED
  BY <1>1, <1>5, <1>6, <1>7

-----------------------------------------------------------------------------
(* StockTransfer: the commit *)

LEMMA KnowsAfterCommit ==
    ASSUME TransferInv, NEW r \in Slots, Commit(r), NEW u \in Slots
    PROVE  Works(u)' /\ Knows(u)'
<1>1. TransferTypes /\ Works(u)
  BY DEF TransferInv
<1>2. CASE u = r
  <2>1. stage'[u] = "idle" /\ value'[u] = 0
    BY <1>1, <1>2 DEF Commit, End, TransferTypes
  <2> QED BY <2>1 DEF Works, Knows
<1>3. CASE u # r
  <2>1. /\ stage'[u] = stage[u] /\ op'[u] = op[u] /\ value'[u] = value[u]
        /\ u \in overtaken' <=> stage[u] # "idle"
    BY <1>1, <1>3, OthersStay DEF TransferStep
  <2> QED BY <1>1, <2>1 DEF Works, Knows
<1> QED BY <1>2, <1>3

\* What a request commits that nobody overtook: all it has worked out from what it loaded
\* is so still.
LEMMA CommitsWhatItSaw ==
    ASSUME TransferInv, NEW r \in Slots, Commit(r), ~ stale'
    PROVE  /\ ~ stale /\ TransferTypes /\ GoodsInv /\ TransitInv
           /\ op[r] \in Ops /\ Accepts(op[r]) /\ own[r] = Settles(op[r]) /\ value[r] = EntryValue(r)
           /\ seen[r] = [status |-> status, entry |-> sendEntry.state]
           /\ complete[r] = (op[r].kind = "receive" /\ Plus(received, own[r]) = Qty)
           /\ own[r] \in [Lines -> Nat] /\ value[r] \in Nat
           /\ \A w \in Ways : goods[w] \in [Lines -> Nat]
           /\ received \in [Lines -> Nat] /\ closed \in [Lines -> Nat] /\ Qty \in [Lines -> Nat]
<1>1. ~ stale /\ r \notin overtaken /\ stage[r] = "updated"
  BY DEF Commit
<1>2. TransferTypes /\ GoodsInv /\ TransitInv /\ Works(r) /\ Knows(r)
  BY <1>1 DEF TransferInv
<1>3. op[r] \in Ops
  BY <1>1, <1>2 DEF Works
<1> QED
  BY <1>1, <1>2, <1>3, TransferAssumption DEF Knows, TransferTypes

LEMMA PlusNothing ==
    ASSUME NEW f \in [Lines -> Nat]
    PROVE  Plus(Nothing, f) = f /\ Plus(f, Nothing) = f
BY DEF Plus, Nothing

LEMMA CommitGoods ==
    ASSUME TransferInv, NEW r \in Slots, Commit(r), ~ stale'
    PROVE  GoodsInv'
<1> DEFINE o == op[r]
           g == own[r]
<1>1. /\ TransferTypes /\ GoodsInv /\ o \in Ops /\ Accepts(o) /\ g = Settles(o)
      /\ complete[r] = (o.kind = "receive" /\ Plus(received, g) = Qty)
      /\ g \in [Lines -> Nat] /\ \A w \in Ways : goods[w] \in [Lines -> Nat]
      /\ received \in [Lines -> Nat] /\ closed \in [Lines -> Nat] /\ Qty \in [Lines -> Nat]
  BY CommitsWhatItSaw
<1>2. /\ status' = NextStatus(r)
      /\ received' = IF o.kind = "receive" THEN Plus(received, g) ELSE received
      /\ closed' = IF o.kind = "close" THEN Plus(closed, g) ELSE closed
      /\ goods'[Way(o)] = Plus(goods[Way(o)], g)
      /\ \A w \in Ways : w # Way(o) => goods'[w] = goods[w]
  BY <1>1, OpKinds DEF Commit, TransferTypes
<1>3. Nothing' = Nothing /\ \A f, h : Plus(f, h)' = Plus(f, h)
  BY DEF Nothing, Plus
<1>4. Plus(goods["return"], goods["shortage"])' = Plus(goods'["return"], goods'["shortage"])
  BY DEF Plus
<1>5. Ways = {"sent", "receipt", "return", "cancel", "shortage"}
  BY DEF Ways
<1>6. CASE o.kind = "send"
  <2>1. status = "draft" /\ status' = "in_transit" /\ g = Qty /\ Way(o) = "sent"
    BY <1>1, <1>2, <1>6, OpKinds DEF Accepts, NextStatus, Settles
  <2>2. /\ received' = Nothing /\ closed' = Nothing /\ goods'["sent"] = Qty
        /\ goods'["receipt"] = Nothing /\ goods'["return"] = Nothing
        /\ goods'["cancel"] = Nothing /\ goods'["shortage"] = Nothing
    BY <1>1, <1>2, <1>5, <1>6, <2>1, PlusNothing DEF GoodsInv
  <2> QED
    BY <1>3, <1>4, <2>1, <2>2, PlusNothing, WorthNothing DEF GoodsInv
<1>7. CASE o.kind = "receive"
  <2>1. /\ OnTheRoad(status) /\ Way(o) = "receipt"
        /\ status' = IF Plus(received, g) = Qty THEN "received" ELSE "partially_received"
    BY <1>1, <1>2, <1>7, OpKinds DEF Accepts, NextStatus
  <2>2. /\ goods["sent"] = Qty /\ goods["cancel"] = Nothing /\ goods["receipt"] = received
        /\ goods["return"] = Nothing /\ goods["shortage"] = Nothing
        /\ closed = Plus(Nothing, Nothing)
    BY <1>1, <2>1 DEF GoodsInv, OnTheRoad
  <2>3. closed = Nothing
    BY <2>2, PlusNothing, WorthNothing
  <2>4. /\ received' = Plus(received, g) /\ closed' = closed /\ goods'["sent"] = Qty
        /\ goods'["receipt"] = Plus(received, g) /\ goods'["return"] = Nothing
        /\ goods'["cancel"] = Nothing /\ goods'["shortage"] = Nothing
    BY <1>2, <1>5, <1>7, <2>1, <2>2
  <2> QED
    BY <1>3, <1>4, <2>1, <2>2, <2>3, <2>4 DEF GoodsInv, OnTheRoad
<1>8. CASE o.kind = "close"
  <2>1. OnTheRoad(status) /\ Way(o) \in {"return", "shortage"} /\ status' = "closed"
    BY <1>1, <1>2, <1>8, OpKinds DEF Accepts, NextStatus
  <2>2. /\ goods["sent"] = Qty /\ goods["cancel"] = Nothing /\ goods["receipt"] = received
        /\ goods["return"] = Nothing /\ goods["shortage"] = Nothing
        /\ closed = Plus(Nothing, Nothing)
    BY <1>1, <2>1 DEF GoodsInv, OnTheRoad
  <2>3. closed = Nothing
    BY <2>2, PlusNothing, WorthNothing
  <2>4. /\ received' = received /\ closed' = Plus(Nothing, g) /\ goods'["sent"] = Qty
        /\ goods'["receipt"] = received /\ goods'["cancel"] = Nothing
        /\ \/ goods'["return"] = Plus(Nothing, g) /\ goods'["shortage"] = Nothing
           \/ goods'["shortage"] = Plus(Nothing, g) /\ goods'["return"] = Nothing
    BY <1>2, <1>5, <1>8, <2>1, <2>2, <2>3
  <2>5. Plus(Nothing, g) = g /\ Plus(g, Nothing) = g
    BY <1>1, PlusNothing
  <2>6. closed' = Plus(goods'["return"], goods'["shortage"])
    BY <2>4, <2>5
  <2>7. ASSUME NEW l \in Lines, received[l] <= Qty[l] PROVE received[l] + g[l] = Qty[l]
    <3>1. g[l] = IF received[l] + closed[l] < Qty[l] THEN Qty[l] - received[l] - closed[l] ELSE 0
      BY <1>1, <1>8 DEF Settles, Outstanding
    <3>2. closed[l] = 0 /\ received[l] \in Nat /\ Qty[l] \in Nat
      BY <1>1, <2>3 DEF Nothing
    <3> QED BY <2>7, <3>1, <3>2
  <2> QED
    BY <1>3, <1>4, <2>1, <2>4, <2>5, <2>6, <2>7 DEF GoodsInv, OnTheRoad
<1>9. CASE o.kind = "cancel"
  <2>1. status' = "cancelled"
    BY <1>2, <1>9 DEF NextStatus
  <2> QED BY <2>1 DEF GoodsInv, OnTheRoad
<1> QED BY <1>1, <1>6, <1>7, <1>8, <1>9, OpKinds

LEMMA CommitTransit ==
    ASSUME TransferInv, NEW r \in Slots, Commit(r), ~ stale'
    PROVE  TransitInv'
<1> DEFINE o == op[r]
           g == own[r]
           v == value[r]
<1>1. /\ TransferTypes /\ GoodsInv /\ TransitInv /\ o \in Ops /\ Accepts(o) /\ g = Settles(o)
      /\ v = EntryValue(r) /\ seen[r] = [status |-> status, entry |-> sendEntry.state]
      /\ g \in [Lines -> Nat] /\ v \in Nat /\ \A w \in Ways : goods[w] \in [Lines -> Nat]
      /\ Qty \in [Lines -> Nat]
  BY CommitsWhatItSaw
<1>2. /\ status' = NextStatus(r) /\ transit' = transit + TransitChange(r) /\ transit \in Int
      /\ goods'[Way(o)] = Plus(goods[Way(o)], g)
      /\ \A w \in Ways : w # Way(o) => goods'[w] = goods[w]
  BY <1>1, OpKinds DEF Commit, TransferTypes
<1>3. /\ applied'[o] = applied[o] + 1 /\ \A p \in Ops : p # o => applied'[p] = applied[p]
      /\ \A p \in Ops : applied[p] \in Nat
  BY <1>1 DEF Commit, TransferTypes
<1>4. Nothing' = Nothing /\ Worth(Qty)' = Worth(Qty) /\ Worth(Road)' = Worth(Road')
  BY OnRoadPrimed DEF Nothing, Worth, MapThenSumSet, MapThenFoldSet
<1>5. OneReceipt' => OneReceipt /\ (o.kind = "receive" => \A p \in Ops : p.kind = "receive" => applied[p] = 0)
  <2>1. OneReceipt' <=> \A p, q \in Ops :
          p.kind = "receive" /\ q.kind = "receive" /\ applied'[p] > 0 /\ applied'[q] > 0 =>
              p = q /\ applied'[p] = 1
    BY DEF OneReceipt
  <2> QED BY <1>1, <1>3, <2>1 DEF OneReceipt
<1>6. /\ Road \in [Lines -> Int] /\ Road' \in [Lines -> Int]
      /\ \A l \in Lines : Road'[l] = IF o.kind = "send" THEN Road[l] + g[l] ELSE Road[l] - g[l]
  <2>1. \A l \in Lines : Road[l] = goods["sent"][l] - goods["receipt"][l] - goods["return"][l]
                                   - goods["cancel"][l] - goods["shortage"][l]
    BY DEF Road, OnRoad
  <2>2. \A l \in Lines : Road'[l] = goods'["sent"][l] - goods'["receipt"][l] - goods'["return"][l]
                                    - goods'["cancel"][l] - goods'["shortage"][l]
    BY DEF Road, OnRoad
  <2>3. \A l \in Lines, w \in Ways : goods[w][l] \in Nat /\ g[l] \in Nat
    BY <1>1
  <2>4. \A l \in Lines, w \in Ways :
          goods'[w][l] = IF w = Way(o) THEN goods[w][l] + g[l] ELSE goods[w][l]
    BY <1>1, <1>2, PlusTypes
  <2>5. ASSUME NEW l \in Lines
        PROVE  /\ Road[l] \in Int /\ Road'[l] \in Int
               /\ Road'[l] = IF o.kind = "send" THEN Road[l] + g[l] ELSE Road[l] - g[l]
    <3>1. /\ "sent" \in Ways /\ "receipt" \in Ways /\ "return" \in Ways /\ "cancel" \in Ways
          /\ "shortage" \in Ways
      BY DEF Ways
    <3>2. Way(o) = "sent" <=> o.kind = "send"
      BY <1>1, OpKinds
    <3>3. Way(o) \in {"sent", "receipt", "return", "cancel", "shortage"}
      BY <1>1, OpKinds DEF Ways
    <3> HIDE DEF o, g
    <3> QED BY <2>1, <2>2, <2>3, <2>4, <3>1, <3>2, <3>3
  <2>6. Road = [l \in Lines |-> Road[l]] /\ Road' = [l \in Lines |-> Road'[l]]
    BY DEF Road
  <2> QED BY <2>5, <2>6
<1>7. /\ Worth(Road) \in Int /\ Worth(Road') \in Int /\ Worth(g) \in Nat /\ Worth(Qty) \in Nat
      /\ Worth(Road') = IF o.kind = "send" THEN Worth(Road) + Worth(g) ELSE Worth(Road) - Worth(g)
  <2>1. Worth(Road) \in Int /\ Worth(Road') \in Int /\ Worth(g) \in Nat /\ Worth(Qty) \in Nat
    BY <1>1, <1>6, WorthTypes, WorthNat
  <2>2. g \in [Lines -> Int] /\ \A l \in Lines : g[l] \in Int /\ Road[l] \in Int
    BY <1>1, <1>6
  <2>3. CASE o.kind = "send"
    BY <1>6, <2>1, <2>2, <2>3, WorthPlus
  <2>4. CASE o.kind # "send"
    <3>1. \A l \in Lines : Road[l] = Road'[l] + g[l]
      BY <1>6, <2>2, <2>4
    <3>2. Worth(Road) = Worth(Road') + Worth(g)
      BY <1>6, <2>2, <3>1, WorthPlus
    <3> QED BY <2>1, <2>4, <3>2
  <2> QED BY <2>1, <2>3, <2>4
<1>8. (\A p \in Ops : p.kind = "receive" => applied'[p] = 0) => goods'["receipt"] = Nothing
  <2> SUFFICES ASSUME \A p \in Ops : p.kind = "receive" => applied'[p] = 0
               PROVE  goods'["receipt"] = Nothing
    OBVIOUS
  <2>1. o.kind # "receive"
    BY <1>1, <1>3
  <2>2. \A p \in Ops : p.kind = "receive" => applied[p] = 0
    BY <1>3, <2>1
  <2>3. Way(o) # "receipt" /\ "receipt" \in Ways
    BY <1>1, <2>1, OpKinds DEF Ways
  <2> QED BY <1>1, <1>2, <2>2, <2>3 DEF TransitInv
<1>9. SUFFICES /\ status' = "draft" => transit' = 0 /\ sendEntry'.state = "none"
               /\ OnTheRoad(status') /\ sendEntry'.state = "none" => Worth(Qty) = 0
               /\ sendEntry'.state = "posted" => sendEntry'.value > 0
               /\ OneReceipt' /\ sendEntry'.state # "void" => transit' = Worth(Road')
  BY <1>4, <1>8 DEF TransitInv, OnTheRoad
<1>10. sendEntry' \in [state : EntryStates, value : Nat] /\ sendEntry \in [state : EntryStates, value : Nat]
  <2>1. sendEntry \in [state : EntryStates, value : Nat]
    BY <1>1 DEF TransferTypes
  <2> QED BY <1>1, <2>1 DEF Commit, EntryStates
<1>11. CASE o.kind = "send"
  <2>1. /\ status = "draft" /\ status' = "in_transit" /\ g = Qty /\ Way(o) = "sent"
        /\ transit' = transit + v
    BY <1>1, <1>2, <1>11, OpKinds DEF Accepts, NextStatus, Settles, TransitChange
  <2>2. goods["sent"] = Nothing /\ transit = 0 /\ sendEntry.state = "none"
    BY <1>1, <2>1 DEF GoodsInv, TransitInv, Ways
  <2>3. v = Worth(Qty)
    BY <1>1, <1>11, <2>1, <2>2, PlusNothing DEF EntryValue
  <2>4. Worth(Road) = 0
    <3>1. Road = Nothing
      <4>1. \A w \in Ways : goods[w] = Nothing
        BY <1>1, <2>1 DEF GoodsInv
      <4> QED BY <4>1 DEF Road, OnRoad, Ways, Nothing
    <3> QED BY <3>1, WorthNothing
  <2>5. sendEntry' = IF v > 0 THEN [state |-> "posted", value |-> v] ELSE sendEntry
    BY <1>11, <2>1 DEF Commit
  <2> QED
    BY <1>1, <1>7, <1>11, <2>1, <2>2, <2>3, <2>4, <2>5
<1>12. CASE o.kind = "receive"
  <2>1. /\ OnTheRoad(status) /\ status' \in {"received", "partially_received"}
        /\ Way(o) = "receipt" /\ transit' = transit - v /\ sendEntry' = sendEntry
    BY <1>1, <1>2, <1>12, OpKinds DEF Accepts, NextStatus, TransitChange, Commit
  <2>2. OneReceipt' => v = Worth(g)
    <3> SUFFICES ASSUME OneReceipt' PROVE v = Worth(g)
      OBVIOUS
    <3>1. goods["receipt"] = Nothing
      BY <1>1, <1>5, <1>12 DEF TransitInv
    <3> QED BY <1>1, <1>12, <2>1, <3>1, PlusNothing DEF EntryValue
  <2>3. OneReceipt' => OneReceipt
    BY <1>5
  <2> QED
    BY <1>1, <1>2, <1>7, <1>12, <2>1, <2>2, <2>3 DEF TransitInv
<1>13. CASE o.kind = "close"
  <2>1. status' = "closed" /\ transit' = transit - v /\ sendEntry' = sendEntry /\ v = Worth(g)
    BY <1>1, <1>2, <1>13 DEF NextStatus, TransitChange, Commit, EntryValue
  <2> QED
    BY <1>1, <1>2, <1>5, <1>7, <1>13, <2>1 DEF TransitInv, OnTheRoad
<1>14. CASE o.kind = "cancel"
  <2>1. /\ status' = "cancelled" /\ transit' = transit - v - v
        /\ sendEntry' = IF v > 0 THEN [sendEntry EXCEPT !.state = "void"] ELSE sendEntry
    BY <1>1, <1>2, <1>14 DEF NextStatus, TransitChange, Commit
  <2>2. CASE v > 0
    <3>1. sendEntry'.state = "void"
      BY <1>10, <2>1, <2>2
    <3> QED BY <2>1, <3>1 DEF OnTheRoad
  <2>3. CASE v = 0 /\ sendEntry.state # "void"
    <3>1. Worth(g) = 0
      <4>1. CASE status = "in_transit"
        <5>1. sendEntry.state = "none"
          BY <1>1, <1>10, <1>14, <2>3, <4>1 DEF EntryValue, TransitInv, EntryStates
        <5>2. Worth(Qty) = 0
          BY <1>1, <4>1, <5>1 DEF TransitInv, OnTheRoad
        <5>3. g = Qty
          BY <1>1, <1>14, <4>1 DEF Settles, GoodsInv
        <5> QED BY <5>2, <5>3
      <4>2. CASE status # "in_transit"
        BY <1>1, <1>14, <4>2, WorthNothing DEF Settles
      <4> QED BY <4>1, <4>2
    <3> QED
      BY <1>1, <1>2, <1>5, <1>7, <1>14, <2>1, <2>3, <3>1 DEF TransitInv, OnTheRoad
  <2>4. CASE v = 0 /\ sendEntry.state = "void"
    BY <2>1, <2>4 DEF OnTheRoad
  <2> QED BY <1>1, <2>2, <2>3, <2>4
<1> QED BY <1>1, <1>11, <1>12, <1>13, <1>14, OpKinds

LEMMA TransferInvInit == TransferInit => TransferInv
<1> SUFFICES ASSUME TransferInit PROVE TransferInv
  OBVIOUS
<1>1. TransferTypes
  <2>1. Nothing \in [Lines -> Nat]
    BY WorthNothing
  <2>2. /\ goods \in [Ways -> [Lines -> Nat]] /\ own \in [Slots -> [Lines -> Nat]]
        /\ received \in [Lines -> Nat] /\ closed \in [Lines -> Nat]
    BY <2>1 DEF TransferInit
  <2>3. /\ op \in [Slots -> Ops \cup {NoOp}] /\ lock \in [Locks -> Slots \cup {NoOp}]
        /\ seen \in [Slots -> [status : TransferStatuses, entry : EntryStates] \cup {NoOp}]
        /\ value \in [Slots -> Nat] /\ complete \in [Slots -> BOOLEAN]
        /\ applied \in [Ops -> Nat] /\ started \in 0..MaxRequests
    BY TransferAssumption DEF TransferInit
  <2>4. status \in TransferStatuses /\ sendEntry \in [state : EntryStates, value : Nat]
    BY DEF TransferInit, TransferStatuses, EntryStates
  <2>5. stage \in [Slots -> {"idle", "loaded", "moved", "posted", "updated"}]
    BY DEF TransferInit
  <2>6. keys = {} /\ overtaken = {} /\ transit = 0 /\ stale = FALSE
    BY DEF TransferInit
  <2>7. /\ keys \in SUBSET {Key(o) : o \in Ops} /\ overtaken \in SUBSET Slots
        /\ stale \in BOOLEAN
    BY <2>6, Zenon
  <2>8. transit \in Int
    BY <2>6
  <2> QED
    BY <2>2, <2>3, <2>4, <2>5, <2>7, <2>8, Zenon DEF TransferTypes
<1>2. \A r \in Slots : Works(r) /\ Knows(r)
  BY DEF TransferInit, Works, Knows
<1>3. GoodsInv
  BY DEF TransferInit, GoodsInv, OnTheRoad, Ways
<1>4. TransitInv
  <2>1. Road = Nothing
    BY DEF TransferInit, Road, OnRoad, Nothing, Ways
  <2> QED
    BY <2>1, WorthNothing DEF TransferInit, TransitInv, OnTheRoad, Ways
<1> QED BY <1>1, <1>2, <1>3, <1>4 DEF TransferInv

LEMMA TransferInvNext == TransferInv /\ [TransferNext]_transferVars => TransferInv'
<1> SUFFICES ASSUME TransferInv, [TransferNext]_transferVars PROVE TransferInv'
  OBVIOUS
<1>1. ASSUME UNCHANGED transferVars PROVE TransferInv'
  <2>1. UNCHANGED TransferRows /\ UNCHANGED <<lock, stage, op, seen, own, value, complete, started, overtaken>>
    BY <1>1 DEF transferVars, TransferRows, request, history
  <2>2. TransferTypes'
    BY <2>1 DEF TransferInv, TransferTypes, TransferRows, document, books
  <2>3. ASSUME NEW r \in Slots PROVE Works(r)' /\ Knows(r)'
    <3>1. Works(r) /\ Knows(r) /\ UNCHANGED <<status, received, closed, sendEntry, goods>>
      BY <2>1 DEF TransferInv, TransferRows, document, books
    <3>2. Settles(op[r])' = Settles(op[r]) /\ EntryValue(r)' = EntryValue(r)
      BY <2>1, <3>1, SettlesRead, EntryValueRead
    <3>3. (Accepts(op[r])' <=> Accepts(op[r])) /\ Plus(received, own[r])' = Plus(received, own[r])
      BY <2>1, <3>1 DEF Accepts, OnTheRoad, Plus
    <3> QED BY <2>1, <3>1, <3>2, <3>3 DEF Works, Knows
  <2> QED BY <2>1, <2>2, <2>3, RowsQuietly DEF TransferInv
<1>2. ASSUME NEW r \in Slots, TransferStep(r) PROVE TransferInv'
  <2>1. TransferTypes'
    BY <1>2, TransferStepTypes DEF TransferInv, Works
  <2>2. CASE Commit(r)
    BY <2>1, <2>2, KnowsAfterCommit, CommitGoods, CommitTransit DEF TransferInv
  <2>3. CASE Prepares(r) \/ Fail(r)
    <3>1. \A u \in Slots : Works(u)' /\ Knows(u)'
      BY <2>3, KnowsAlone, KnowsQuietly
    <3> QED
      BY <2>1, <2>3, <3>1, TransferRowsStay, RowsQuietly DEF TransferInv
  <2> QED BY <1>2, <2>2, <2>3 DEF TransferStep
<1> QED
  BY <1>1, <1>2, TransferSteps DEF Finished

LEMMA TransferInvAlways == TransferSpec => []TransferInv
BY TransferInvInit, TransferInvNext, PTL DEF TransferSpec

\* A transfer is always in one of its states, whatever requests meet on it.
THEOREM TransferTypeCorrect == TransferSpec => []TransferTypes
<1>1. TransferInv => TransferTypes
  BY DEF TransferInv
<1> QED BY <1>1, TransferInvAlways, PTL

\* As long as no request decided from a document another has changed since, the quantities
\* of a transfer tell where its goods are.
THEOREM TransferTellsGoods == TransferSpec => []DocumentTellsGoods
<1>1. ASSUME TransferInv PROVE DocumentTellsGoods
  <2> SUFFICES ASSUME ~ stale
               PROVE  /\ OnTheRoad(status) =>
                            \A l \in Lines : OnRoad(l) = Qty[l] - received[l] - closed[l]
                      /\ status \in {"draft", "received", "closed"} =>
                            \A l \in Lines : received[l] <= Qty[l] => OnRoad(l) = 0
    BY <1>1 DEF TransferInv, DocumentTellsGoods
  <2>1. GoodsInv /\ TransferTypes
    BY <1>1 DEF TransferInv
  <2>2. ASSUME NEW l \in Lines
        PROVE  /\ Nothing[l] = 0 /\ Qty[l] \in Nat /\ received[l] \in Nat /\ closed[l] \in Nat
               /\ goods["return"][l] \in Nat /\ goods["shortage"][l] \in Nat
               /\ closed = Plus(goods["return"], goods["shortage"]) =>
                     closed[l] = goods["return"][l] + goods["shortage"][l]
    BY <2>1, TransferAssumption DEF TransferTypes, Ways, Nothing, Plus
  <2>3. CASE OnTheRoad(status)
    <3>1. /\ goods["sent"] = Qty /\ goods["cancel"] = Nothing /\ goods["receipt"] = received
          /\ goods["return"] = Nothing /\ goods["shortage"] = Nothing
          /\ closed = Plus(goods["return"], goods["shortage"])
      BY <2>1, <2>3 DEF GoodsInv, OnTheRoad
    <3> QED BY <2>2, <2>3, <3>1 DEF OnRoad, OnTheRoad
  <2>4. CASE status \in {"received", "closed"}
    <3>1. /\ goods["sent"] = Qty /\ goods["cancel"] = Nothing /\ goods["receipt"] = received
          /\ closed = Plus(goods["return"], goods["shortage"])
      BY <2>1, <2>4 DEF GoodsInv
    <3>2. \A l \in Lines : received[l] <= Qty[l] => received[l] + closed[l] = Qty[l]
      BY <2>1, <2>2, <2>4 DEF GoodsInv
    <3> QED BY <2>2, <2>4, <3>1, <3>2 DEF OnRoad, OnTheRoad
  <2>5. CASE status = "draft"
    <3>1. \A w \in Ways : goods[w] = Nothing
      BY <2>1, <2>5 DEF GoodsInv
    <3> QED BY <2>2, <2>5, <3>1 DEF OnRoad, OnTheRoad, Ways
  <2> QED BY <2>3, <2>4, <2>5
<1> QED BY <1>1, TransferInvAlways, PTL

\* Nor does the account of the goods on the road tell anything else, for a transfer that is
\* received in one go and not cancelled once it was sent.
THEOREM TransitTellsRoad == TransferSpec => []TransitTellsGoods
<1>1. TransferInv => TransitTellsGoods
  BY DEF TransferInv, TransitInv, TransitTellsGoods, Road
<1> QED BY <1>1, TransferInvAlways, PTL

-----------------------------------------------------------------------------
(* StockTransfer: a request submitted twice *)

LEMMA FencedQuietly ==
    ASSUME TransferInv, OnceInv, NEW r \in Slots, Prepares(r) \/ Fail(r), NEW u \in Slots, u # r
    PROVE  Fenced(u)'
<1>1. TransferTypes /\ Works(u) /\ Fenced(u) /\ UNCHANGED <<keys, goods>>
  BY TransferRowsStay DEF TransferInv, OnceInv, TransferRows, books
<1>2. /\ stage'[u] = stage[u] /\ op'[u] = op[u] /\ own'[u] = own[u] /\ value'[u] = value[u]
      /\ \A x \in Locks : lock[x] = u => lock'[x] = u
  BY <1>1, OthersStay DEF TransferStep
<1>3. /\ Touched(u)' = Touched(u) /\ Key(op[u])' = Key(op[u])
      /\ \A k : Asks(u, k)' <=> Asks(u, k)
  BY <1>2 DEF Touched, Key, Asks
<1>4. <<"journal">> \in Locks /\ \A l \in Touched(u) : <<"source", l>> \in Locks
  BY DEF Locks, Touched
<1> QED BY <1>1, <1>2, <1>3, <1>4 DEF Fenced

LEMMA FencedAlone ==
    ASSUME Valued, TransferInv, OnceInv, NEW r \in Slots, Prepares(r) \/ Fail(r)
    PROVE  Fenced(r)'
<1>1. TransferTypes /\ Works(r) /\ Fenced(r) /\ UNCHANGED <<keys, goods>>
  BY TransferRowsStay DEF TransferInv, OnceInv, TransferRows, books
<1>2. Qty \in [Lines -> Nat]
  BY TransferAssumption
<1>3. CASE \E o \in Ops : Load(r, o)
  <2> PICK o \in Ops : Load(r, o)
    BY <1>3
  <2>1. /\ stage'[r] = "loaded" /\ op'[r] = o /\ value'[r] = 0 /\ own'[r] = Settles(o) /\ Accepts(o)
    BY <1>1 DEF Load, Works, TransferTypes
  <2>2. o.kind # "cancel" => \E l \in Lines : Settles(o)[l] > 0
    BY <1>1, <2>1, SettlesTypes
  <2>3. o.kind = "send" => Settles(o) = Qty
    BY DEF Settles
  <2>4. o.kind = "cancel" => \A l \in Lines : Settles(o)[l] <= Qty[l]
    <3>1. \A l \in Lines : goods["sent"][l] <= Qty[l] /\ Nothing[l] <= Qty[l]
      BY <1>2 DEF OnceInv, Nothing
    <3>2. o.kind = "cancel" => Settles(o) \in {goods["sent"], Nothing}
      BY DEF Settles
    <3> QED BY <3>1, <3>2
  <2> QED BY <2>1, <2>2, <2>3, <2>4 DEF Fenced, Asks
<1>4. CASE Move(r)
  <2>1. /\ stage[r] = "loaded" /\ stage'[r] = "moved" /\ op' = op /\ own' = own /\ value'[r] = 0
        /\ op[r] \in Ops /\ LockRows(r, RowsMoved(r))
        /\ op[r].kind = "cancel" => \A l \in Touched(r) : goods["cancel"][l] = 0
    BY <1>1, <1>4 DEF Move, Works, TransferTypes, request
  <2>2. Touched(r)' = Touched(r) /\ \A k : Asks(r, k)' <=> Asks(r, k)
    BY <2>1 DEF Touched, Asks
  <2>3. op[r].kind = "cancel" => \A l \in Touched(r) : lock'[<<"source", l>>] = r
    <3>1. op[r].kind = "cancel" => RowsMoved(r) = {"source"} \X Touched(r)
      BY <2>1, OpKinds DEF RowsMoved
    <3> QED BY <2>1, <3>1 DEF LockRows, Locks, Touched
  <2> QED BY <1>1, <2>1, <2>2, <2>3 DEF Fenced, Asks
<1>5. CASE Post(r)
  <2>1. /\ stage[r] = "moved" /\ stage'[r] = "posted" /\ op' = op /\ own' = own /\ op[r] \in Ops
        /\ value'[r] = EntryValue(r) /\ value[r] = 0
    BY <1>1, <1>5 DEF Post, Works, TransferTypes
  <2>2. EntryValue(r) # 0 => lock'[<<"journal">>] = r /\ Key(op[r]) \notin keys
    BY <1>5 DEF Post, LockRows, Locks
  <2>3. \A x \in Locks : lock[x] = r => lock'[x] = r
    BY <1>5 DEF Post, LockRows
  <2>4. /\ Touched(r)' = Touched(r) /\ Key(op[r])' = Key(op[r]) /\ \A k : Asks(r, k)' <=> Asks(r, k)
        /\ \A l \in Touched(r) : <<"source", l>> \in Locks
    BY <2>1 DEF Touched, Key, Asks, Locks
  <2>5. ~ Asks(r, "cancel") => EntryValue(r) > 0
    <3> SUFFICES ASSUME op[r].kind # "cancel" PROVE EntryValue(r) > 0
      BY <2>1 DEF Asks
    <3>1. own[r] \in [Lines -> Nat] /\ goods[Way(op[r])] \in [Lines -> Nat]
      BY <1>1, <2>1, OpKinds DEF TransferTypes
    <3>2. PICK l \in Lines : own[r][l] > 0
      BY <1>1, <2>1 DEF Fenced, Asks
    <3>3. Plus(goods[Way(op[r])], own[r]) \in [Lines -> Nat] /\ Plus(goods[Way(op[r])], own[r])[l] > 0
      BY <3>1, <3>2, PlusTypes
    <3>4. Worth(own[r]) > 0 /\ Worth(Plus(goods[Way(op[r])], own[r])) > 0
      BY <3>1, <3>2, <3>3, WorthNat DEF Valued
    <3> QED BY <2>1, <3>4, OpKinds DEF EntryValue
  <2> QED BY <1>1, <2>1, <2>2, <2>3, <2>4, <2>5 DEF Fenced, Asks
<1>6. CASE UpdateLines(r)
  <2>1. /\ stage[r] = "posted" /\ stage'[r] = "updated" /\ op' = op /\ own' = own /\ value' = value
        /\ \A x \in Locks : lock[x] = r => lock'[x] = r
    BY <1>1, <1>6 DEF UpdateLines, LockRows, TransferTypes
  <2>2. /\ Touched(r)' = Touched(r) /\ Key(op[r])' = Key(op[r]) /\ \A k : Asks(r, k)' <=> Asks(r, k)
        /\ <<"journal">> \in Locks /\ \A l \in Touched(r) : <<"source", l>> \in Locks
    BY <2>1 DEF Touched, Key, Asks, Locks
  <2> QED BY <1>1, <2>1, <2>2 DEF Fenced, Asks
<1>7. CASE Fail(r)
  <2>1. stage'[r] = "idle" /\ value'[r] = 0
    BY <1>1, <1>7 DEF Fail, End, TransferTypes
  <2> QED BY <2>1 DEF Fenced, Asks
<1> QED BY <1>3, <1>4, <1>5, <1>6, <1>7 DEF Prepares

LEMMA FencedAfterCommit ==
    ASSUME TransferInv, OnceInv, NEW r \in Slots, Commit(r), NEW u \in Slots
    PROVE  Fenced(u)'
<1>1. /\ TransferTypes /\ Works(u) /\ Fenced(u) /\ Works(r) /\ Fenced(r)
      /\ stage[r] = "updated" /\ op[r] \in Ops
  BY DEF TransferInv, OnceInv, Works, Commit
<1>2. CASE u = r
  <2>1. stage'[u] = "idle" /\ value'[u] = 0
    BY <1>1, <1>2 DEF Commit, End, TransferTypes
  <2> QED BY <2>1 DEF Fenced, Asks
<1>3. CASE u # r
  <2>1. /\ stage'[u] = stage[u] /\ op'[u] = op[u] /\ own'[u] = own[u] /\ value'[u] = value[u]
        /\ \A x \in Locks : lock[x] = u => lock'[x] = u
    BY <1>1, <1>3, OthersStay DEF TransferStep
  <2>2. /\ Touched(u)' = Touched(u) /\ Key(op[u])' = Key(op[u]) /\ \A k : Asks(u, k)' <=> Asks(u, k)
        /\ <<"journal">> \in Locks /\ \A l \in Touched(u) : <<"source", l>> \in Locks
    BY <2>1 DEF Touched, Key, Asks, Locks
  <2>3. value[u] # 0 => keys' = keys
    <3> SUFFICES ASSUME value[u] # 0 PROVE keys' = keys
      OBVIOUS
    <3>1. value[r] = 0
      BY <1>1, <1>3 DEF Fenced
    <3> QED BY <3>1 DEF Commit
  <2>4. ASSUME Asks(u, "cancel"), stage[u] # "loaded", NEW l \in Touched(u)
        PROVE  goods'["cancel"][l] = 0
    <3>1. l \in Lines /\ lock[<<"source", l>>] = u /\ goods["cancel"][l] = 0
      BY <1>1, <2>4 DEF Fenced, Touched
    <3>2. goods' = [goods EXCEPT ![Way(op[r])] = Plus(@, own[r])]
      BY DEF Commit
    <3>3. CASE op[r].kind = "cancel"
      <4>1. l \notin Touched(r)
        BY <1>1, <1>3, <3>1, <3>3 DEF Fenced, Asks
      <4>2. own[r][l] = 0
        BY <3>1, <4>1 DEF Touched
      <4>3. Way(op[r]) = "cancel" /\ "cancel" \in Ways
        BY <1>1, <3>3, OpKinds DEF Ways
      <4>4. goods'["cancel"] = Plus(goods["cancel"], own[r])
        BY <1>1, <3>2, <4>3 DEF TransferTypes
      <4> QED BY <3>1, <4>2, <4>4 DEF Plus
    <3>4. CASE op[r].kind # "cancel"
      <4>1. Way(op[r]) # "cancel" /\ "cancel" \in Ways
        BY <1>1, <3>4, OpKinds DEF Ways
      <4>2. goods'["cancel"] = goods["cancel"]
        BY <1>1, <3>2, <4>1 DEF TransferTypes
      <4> QED BY <3>1, <4>2
    <3> QED BY <3>3, <3>4
  <2> QED BY <1>1, <2>1, <2>2, <2>3, <2>4 DEF Fenced
<1> QED BY <1>2, <1>3

LEMMA OnceAfterCommit ==
    ASSUME TransferInv, OnceInv, NEW r \in Slots, Commit(r)
    PROVE  /\ \A o \in Ops : o.kind # "cancel" /\ applied'[o] # 0 => applied'[o] = 1 /\ Key(o) \in keys'
           /\ [kind |-> "send"] \notin keys' => goods'["sent"] = Nothing
           /\ \A l \in Lines : goods'["sent"][l] <= Qty[l] /\ goods'["cancel"][l] <= Qty[l]
<1> DEFINE o == op[r]
<1>1. /\ TransferTypes /\ Fenced(r) /\ stage[r] = "updated" /\ o \in Ops
      /\ own[r] \in [Lines -> Nat] /\ Qty \in [Lines -> Nat]
  <2>1. TransferTypes /\ Works(r) /\ Fenced(r) /\ stage[r] = "updated"
    BY DEF TransferInv, OnceInv, Commit
  <2> QED BY <2>1, TransferAssumption DEF Works, TransferTypes
<1>2. /\ applied' = [applied EXCEPT ![o] = @ + 1]
      /\ keys' = keys \cup IF value[r] > 0 THEN {Key(o)} ELSE {}
  BY DEF Commit
<1>3. o.kind # "cancel" => value[r] > 0 /\ Key(o) \notin keys
  BY <1>1 DEF Fenced, Asks, TransferTypes
<1>4. ASSUME NEW p \in Ops, p.kind # "cancel", applied'[p] # 0
      PROVE  applied'[p] = 1 /\ Key(p) \in keys'
  <2>1. CASE p = o
    <3>1. applied[o] = 0
      BY <1>1, <1>3, <1>4, <2>1 DEF OnceInv
    <3> QED BY <1>1, <1>2, <1>3, <1>4, <2>1, <3>1 DEF TransferTypes
  <2>2. CASE p # o
    BY <1>1, <1>2, <1>4, <2>2 DEF OnceInv, TransferTypes
  <2> QED BY <2>1, <2>2
<1>5. /\ goods'[Way(o)] = Plus(goods[Way(o)], own[r])
      /\ \A w \in Ways : w # Way(o) => goods'[w] = goods[w]
  BY <1>1, OpKinds DEF Commit, TransferTypes
<1>6. "sent" \in Ways /\ "cancel" \in Ways
  BY DEF Ways
<1>7. ASSUME NEW l \in Lines
      PROVE  /\ goods["sent"][l] <= Qty[l] /\ goods["cancel"][l] <= Qty[l] /\ own[r][l] \in Nat
             /\ \A w \in Ways : goods[w][l] \in Nat
             /\ goods'[Way(o)][l] = goods[Way(o)][l] + own[r][l]
  BY <1>1, <1>5 DEF OnceInv, TransferTypes, Plus
<1>8. CASE o.kind = "send"
  <2>1. Way(o) = "sent" /\ Key(o) = [kind |-> "send"] /\ own[r] = Qty
    BY <1>1, <1>8, OpKinds DEF Fenced, Asks
  <2>2. goods["sent"] = Nothing /\ [kind |-> "send"] \in keys'
    BY <1>2, <1>3, <1>8, <2>1 DEF OnceInv
  <2>3. \A l \in Lines : Nothing[l] + Qty[l] <= Qty[l]
    BY <1>1 DEF Nothing
  <2> QED BY <1>4, <1>5, <1>6, <1>7, <2>1, <2>2, <2>3
<1>9. CASE o.kind = "cancel"
  <2>1. Way(o) = "cancel"
    BY <1>1, <1>9, OpKinds
  <2>2. ASSUME NEW l \in Lines PROVE goods'["cancel"][l] <= Qty[l]
    <3>1. own[r][l] <= Qty[l] /\ (own[r][l] # 0 => goods["cancel"][l] = 0)
      BY <1>1, <1>9 DEF Fenced, Asks, Touched
    <3>2. /\ goods'["cancel"][l] = goods["cancel"][l] + own[r][l]
          /\ goods["cancel"][l] <= Qty[l] /\ own[r][l] \in Nat /\ goods["cancel"][l] \in Nat
      BY <1>6, <1>7, <2>1
    <3>3. Qty[l] \in Nat
      BY <1>1
    <3>4. CASE own[r][l] = 0
      BY <3>2, <3>3, <3>4
    <3>5. CASE own[r][l] # 0
      BY <3>1, <3>2, <3>3, <3>5
    <3> QED BY <3>4, <3>5
  <2> QED BY <1>2, <1>4, <1>5, <1>6, <1>7, <2>1, <2>2 DEF OnceInv
<1>10. CASE o.kind \in {"receive", "close"}
  <2>1. Way(o) # "sent" /\ Way(o) # "cancel"
    BY <1>1, <1>10, OpKinds
  <2> QED BY <1>2, <1>4, <1>5, <1>6, <1>7, <2>1 DEF OnceInv
<1> QED BY <1>1, <1>8, <1>9, <1>10, OpKinds

\* Where every item has a value, a request that is submitted twice is carried out once,
\* whoever overtakes whom; goods leave the source once and come back once.
THEOREM SubmittedOnce ==
    ASSUME Valued
    PROVE  TransferSpec => []SubmittedTwiceDoneOnce
<1>1. TransferInit => OnceInv
  <2> SUFFICES ASSUME TransferInit PROVE OnceInv
    OBVIOUS
  <2>1. Qty \in [Lines -> Nat]
    BY TransferAssumption
  <2> QED BY <2>1 DEF TransferInit, OnceInv, Fenced, Asks, Ways, Nothing
<1>2. TransferInv /\ OnceInv /\ [TransferNext]_transferVars => OnceInv'
  <2> SUFFICES ASSUME TransferInv, OnceInv, [TransferNext]_transferVars PROVE OnceInv'
    OBVIOUS
  <2>1. ASSUME NEW r \in Slots, TransferStep(r) PROVE OnceInv'
    <3>1. CASE Commit(r)
      <4>1. \A u \in Slots : Fenced(u)'
        BY <3>1, FencedAfterCommit
      <4> QED BY <3>1, <4>1, OnceAfterCommit DEF OnceInv, Key, Nothing
    <3>2. CASE Prepares(r) \/ Fail(r)
      <4>1. \A u \in Slots : Fenced(u)'
        BY <3>2, FencedAlone, FencedQuietly
      <4>2. UNCHANGED <<keys, goods, applied>>
        BY <3>2, TransferRowsStay DEF TransferRows, books
      <4> QED BY <4>1, <4>2 DEF OnceInv, Key, Nothing
    <3> QED BY <2>1, <3>1, <3>2 DEF TransferStep
  <2>2. ASSUME UNCHANGED transferVars PROVE OnceInv'
    <3>1. UNCHANGED <<keys, goods, applied, stage, op, own, value, lock>>
      BY <2>2 DEF transferVars, books, request, history
    <3>2. \A r \in Slots : Fenced(r)'
      BY <3>1 DEF OnceInv, Fenced, Asks, Touched, Key
    <3> QED BY <3>1, <3>2 DEF OnceInv, Key, Nothing
  <2> QED BY <2>1, <2>2, TransferSteps DEF Finished
<1>3. OnceInv => SubmittedTwiceDoneOnce
  <2> SUFFICES ASSUME OnceInv PROVE SubmittedTwiceDoneOnce
    OBVIOUS
  <2>1. \A o \in Ops : o.kind # "cancel" => applied[o] <= 1
    <3>1. \A o \in Ops : o.kind # "cancel" => applied[o] = 0 \/ applied[o] = 1
      BY DEF OnceInv
    <3> QED BY <3>1
  <2> QED BY <2>1 DEF OnceInv, SubmittedTwiceDoneOnce
<1> QED BY <1>1, <1>2, <1>3, TransferInvAlways, PTL DEF TransferSpec
=============================================================================
