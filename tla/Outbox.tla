-------------------------------- MODULE Outbox --------------------------------
(***************************************************************************)
(* The hand-off of jobs from business transactions to workers:              *)
(* outbox.service.ts writes a row of outbox_jobs inside the caller's         *)
(* transaction, the passes of outbox.publisher.ts carry due rows into        *)
(* BullMQ, worker.runner.ts takes them out and job-handlers.ts sends the     *)
(* mail; the platform console (platform-operations.service.ts) may retry or  *)
(* cancel a row meanwhile.                                                  *)
(*                                                                          *)
(* Two stores that share no transaction: a row in Postgres, which a pass     *)
(* locks (FOR UPDATE SKIP LOCKED) until it commits, and a job in Redis,      *)
(* which is there as soon as add() has reached it.  setInterval starts a     *)
(* pass whether or not the last one has ended, and every worker process has  *)
(* its own timer: Passes are the passes under way at one time.               *)
(*                                                                          *)
(* BullMQ is external: add() does nothing when the queue still knows the     *)
(* jobId, a finished job is kept until removeOnComplete/removeOnFail evict   *)
(* it, and a stalled job is given to another worker once.                   *)
(***************************************************************************)
EXTENDS Integers, FiniteSets, FiniteSetsExt

CONSTANTS
    Jobs, Tenants, Passes,
    TenantOf,      \* the tenant of a job
    BatchSize,     \* OUTBOX_BATCH_SIZE
    MaxAttempts,   \* OUTBOX_MAX_ATTEMPTS
    Tries,         \* BullMQ attempts of one job
    Suspendable,   \* tenants the platform may suspend
    MaxCrashes,    \* bound: passes that die
    MaxCommands    \* bound: retries and cancellations from the console

ASSUME TenantAssumption == TenantOf \in [Jobs -> Tenants]
ASSUME LimitAssumption == /\ {BatchSize, MaxAttempts, Tries} \subseteq Nat \ {0}
                          /\ {MaxCrashes, MaxCommands} \subseteq Nat

VARIABLES
    row,        \* the committed rows of outbox_jobs
    draft,      \* what the pass that holds a row has written over it
    todo,       \* the tenants a pass has yet to drain
    claimed,    \* the rows a pass holds
    left,       \* those of them it has not tried yet
    active,     \* tenants in status 'active'
    queue,      \* the job in BullMQ
    tries,      \* how often BullMQ has given it to a worker and it threw
    stalls,     \* how often its worker died
    sent,       \* mails the handler has sent for it
    forgotten,  \* mails nobody knows of: the worker died before the ack, the mailer timed
                \* out after the server took the mail; and evicted jobs
    crashes, commands

rowVars == <<row, draft>>
passVars == <<todo, claimed, left>>
workerVars == <<tries, stalls, sent, forgotten>>
vars == <<rowVars, passVars, active, queue, workerVars, commands, crashes>>

Statuses == {"none", "writing", "void", "pending", "published", "dead"}
Row == [status : Statuses, attempts : 0..MaxAttempts, due : BOOLEAN]

TypeOK ==
    /\ row \in [Jobs -> Row]
    /\ draft \in [Jobs -> Row]
    /\ todo \in [Passes -> SUBSET Tenants]
    /\ claimed \in [Passes -> SUBSET Jobs]
    /\ left \in [Passes -> SUBSET Jobs]
    /\ active \in SUBSET Tenants
    /\ queue \in [Jobs -> {"absent", "waiting", "active", "sent", "finished"}]
    /\ tries \in [Jobs -> 0..Tries]
    /\ stalls \in [Jobs -> 0..1]
    /\ sent \in [Jobs -> Nat]
    /\ forgotten \in [Jobs -> Nat]
    /\ crashes \in 0..MaxCrashes
    /\ commands \in 0..MaxCommands

NoRow == [status |-> "none", attempts |-> 0, due |-> FALSE]

Init ==
    /\ row = [j \in Jobs |-> NoRow]
    /\ draft = [j \in Jobs |-> NoRow]
    /\ todo = [p \in Passes |-> {}]
    /\ claimed = [p \in Passes |-> {}]
    /\ left = [p \in Passes |-> {}]
    /\ active = Tenants
    /\ queue = [j \in Jobs |-> "absent"]
    /\ tries = [j \in Jobs |-> 0]
    /\ stalls = [j \in Jobs |-> 0]
    /\ sent = [j \in Jobs |-> 0]
    /\ forgotten = [j \in Jobs |-> 0]
    /\ crashes = 0
    /\ commands = 0

-----------------------------------------------------------------------------
(* Business transactions: the row is inserted, then shares their fate.      *)

Enqueue(j) ==
    /\ row[j].status = "none"
    /\ row' = [row EXCEPT ![j].status = "writing"]
    /\ UNCHANGED <<draft, passVars, active, queue, workerVars, commands, crashes>>

Decide(j) ==
    /\ row[j].status = "writing"
    /\ \/ row' = [row EXCEPT ![j] = [status |-> "pending", attempts |-> 0, due |-> TRUE]]
       \/ row' = [row EXCEPT ![j].status = "void"]
    /\ UNCHANGED <<draft, passVars, active, queue, workerVars, commands, crashes>>

BackoffElapses(j) ==
    /\ row[j].status = "pending" /\ ~row[j].due
    /\ row' = [row EXCEPT ![j].due = TRUE]
    /\ UNCHANGED <<draft, passVars, active, queue, workerVars, commands, crashes>>

-----------------------------------------------------------------------------
(* drainOnce(): the active tenants, read once, one after the other.         *)

Idle(p) == todo[p] = {} /\ claimed[p] = {}

StartPass(p) ==
    /\ Idle(p)
    /\ todo' = [todo EXCEPT ![p] = active]
    /\ UNCHANGED <<rowVars, claimed, left, active, queue, workerVars, commands, crashes>>

(* WHERE status = 'pending' AND run_at <= now ... FOR UPDATE SKIP LOCKED     *)
Due(j) == row[j].status = "pending" /\ row[j].due

Locked == UNION {claimed[p] : p \in Passes}
Claimable(t) == {j \in Jobs \ Locked : TenantOf[j] = t /\ Due(j)}
Batches(S) == {B \in SUBSET S : Cardinality(B) = Min({BatchSize, Cardinality(S)})}

Claim(p) ==
    /\ claimed[p] = {}
    /\ \E t \in todo[p], B \in SUBSET Jobs :
        /\ B \in Batches(Claimable(t))
        /\ todo' = [todo EXCEPT ![p] = @ \ {t}]
        /\ claimed' = [claimed EXCEPT ![p] = B]
        /\ left' = [left EXCEPT ![p] = B]
    /\ UNCHANGED <<rowVars, active, queue, workerVars, commands, crashes>>

(* Fault: queue.add() without a jobId.                                      *)
AddedAgain(j) == [queue EXCEPT ![j] = "waiting"]

(* queue.add() with the row's id as the jobId.                              *)
Added(j) == [queue EXCEPT ![j] = IF @ = "absent" THEN "waiting" ELSE @]

AsPublished(j) == [status |-> "published", attempts |-> row[j].attempts + 1, due |-> TRUE]

(* Faults: a throwing add() is taken for one that worked; attempts that are  *)
(* not counted.                                                             *)
AsIfPublished(j) == AsPublished(j)
AsUncounted(j) ==
    [status |-> IF row[j].attempts + 1 >= MaxAttempts + 1 THEN "dead" ELSE "pending",
     attempts |-> row[j].attempts, due |-> FALSE]

AsRefused(j) ==
    LET n == row[j].attempts + 1
    IN  [status |-> IF n >= MaxAttempts THEN "dead" ELSE "pending", attempts |-> n, due |-> FALSE]

Publish(p, j) ==
    /\ j \in left[p]
    /\ queue' = Added(j)
    /\ draft' = [draft EXCEPT ![j] = AsPublished(j)]
    /\ left' = [left EXCEPT ![p] = @ \ {j}]
    /\ UNCHANGED <<row, todo, claimed, active, workerVars, commands, crashes>>

(* add() throws, and has reached Redis or not: a timed out call has.         *)
PublishThrows(p, j) ==
    /\ j \in left[p]
    /\ queue' \in {queue, Added(j)}
    /\ draft' = [draft EXCEPT ![j] = AsRefused(j)]
    /\ left' = [left EXCEPT ![p] = @ \ {j}]
    /\ UNCHANGED <<row, todo, claimed, active, workerVars, commands, crashes>>

CommitDrain(p) ==
    /\ claimed[p] # {} /\ left[p] = {}
    /\ row' = [j \in Jobs |-> IF j \in claimed[p] THEN draft[j] ELSE row[j]]
    /\ draft' = [j \in Jobs |-> IF j \in claimed[p] THEN NoRow ELSE draft[j]]
    /\ claimed' = [claimed EXCEPT ![p] = {}]
    /\ UNCHANGED <<todo, left, active, queue, workerVars, commands, crashes>>

(* The process dies, or the transaction fails: drainOnce() rejects, and the  *)
(* tenants behind this one wait for another pass.                           *)
CrashDrain(p) ==
    /\ ~Idle(p)
    /\ crashes < MaxCrashes
    /\ crashes' = crashes + 1
    /\ draft' = [j \in Jobs |-> IF j \in claimed[p] THEN NoRow ELSE draft[j]]
    /\ todo' = [todo EXCEPT ![p] = {}]
    /\ claimed' = [claimed EXCEPT ![p] = {}]
    /\ left' = [left EXCEPT ![p] = {}]
    /\ UNCHANGED <<row, active, queue, workerVars, commands>>

-----------------------------------------------------------------------------
(* The worker: dispatch() to sendNotificationEmail(), which asks nobody      *)
(* whether the mail has gone before.                                        *)

Take(j) ==
    /\ queue[j] = "waiting"
    /\ queue' = [queue EXCEPT ![j] = "active"]
    /\ UNCHANGED <<rowVars, passVars, active, workerVars, commands, crashes>>

Send(j) ==
    /\ queue[j] = "active"
    /\ queue' = [queue EXCEPT ![j] = "sent"]
    /\ sent' = [sent EXCEPT ![j] = @ + 1]
    /\ UNCHANGED <<rowVars, passVars, active, tries, stalls, forgotten, commands, crashes>>

Ack(j) ==
    /\ queue[j] = "sent"
    /\ queue' = [queue EXCEPT ![j] = "finished"]
    /\ UNCHANGED <<rowVars, passVars, active, workerVars, commands, crashes>>

(* The mailer throws: the server has refused the mail, or has taken it and   *)
(* its answer came too late.  BullMQ tries again until its attempts are used  *)
(* up, either way.                                                          *)
Throw(j) ==
    /\ queue[j] = "active"
    /\ tries' = [tries EXCEPT ![j] = @ + 1]
    /\ queue' = [queue EXCEPT ![j] = IF tries[j] + 1 < Tries THEN "waiting" ELSE "finished"]
    /\ \/ UNCHANGED <<sent, forgotten>>
       \/ /\ sent' = [sent EXCEPT ![j] = @ + 1]
          /\ forgotten' = [forgotten EXCEPT ![j] = @ + 1]
    /\ UNCHANGED <<rowVars, passVars, active, stalls, commands, crashes>>

WorkerDies(j) ==
    /\ queue[j] \in {"active", "sent"}
    /\ stalls' = [stalls EXCEPT ![j] = 1]
    /\ queue' = [queue EXCEPT ![j] = IF stalls[j] = 0 THEN "waiting" ELSE "finished"]
    /\ forgotten' = [forgotten EXCEPT ![j] = IF queue[j] = "sent" THEN @ + 1 ELSE @]
    /\ UNCHANGED <<rowVars, passVars, active, tries, sent, commands, crashes>>

(* Other finished jobs push this one out; a job of its name is a new one.    *)
Evict(j) ==
    /\ queue[j] = "finished"
    /\ queue' = [queue EXCEPT ![j] = "absent"]
    /\ tries' = [tries EXCEPT ![j] = 0]
    /\ stalls' = [stalls EXCEPT ![j] = 0]
    /\ forgotten' = [forgotten EXCEPT ![j] = @ + 1]
    /\ UNCHANGED <<rowVars, passVars, active, sent, commands, crashes>>

-----------------------------------------------------------------------------
(* The console: mutateJob() waits for a row a pass holds (FOR UPDATE), and   *)
(* refuses a published one.                                                 *)

Retry(j) ==
    /\ j \notin Locked
    /\ row[j].status = "dead"
    /\ commands < MaxCommands
    /\ commands' = commands + 1
    /\ row' = [row EXCEPT ![j] = [status |-> "pending", attempts |-> 0, due |-> TRUE]]
    /\ UNCHANGED <<draft, passVars, active, queue, workerVars, crashes>>

Cancel(j) ==
    /\ j \notin Locked
    /\ row[j].status \in {"pending", "dead"}
    /\ commands < MaxCommands
    /\ commands' = commands + 1
    /\ row' = [row EXCEPT ![j].status = "dead"]
    /\ UNCHANGED <<draft, passVars, active, queue, workerVars, crashes>>

Suspend(t) ==
    /\ t \in Suspendable
    /\ active' = IF t \in active THEN active \ {t} ELSE active \cup {t}
    /\ UNCHANGED <<rowVars, passVars, queue, workerVars, commands, crashes>>

Drain(p) == Claim(p) \/ (\E j \in Jobs : Publish(p, j) \/ PublishThrows(p, j)) \/ CommitDrain(p)
Handle(j) == Take(j) \/ Send(j) \/ Ack(j) \/ Throw(j)

Next ==
    \/ \E j \in Jobs : Enqueue(j) \/ Decide(j) \/ BackoffElapses(j)
    \/ \E p \in Passes : StartPass(p) \/ Drain(p) \/ CrashDrain(p)
    \/ \E j \in Jobs : Handle(j) \/ WorkerDies(j) \/ Evict(j)
    \/ \E j \in Jobs : Retry(j) \/ Cancel(j)
    \/ \E t \in Tenants : Suspend(t)

Spec == Init /\ [][Next]_vars

(* Timers start passes for ever, a pass and a worker that do not die go on,  *)
(* clocks advance.  Nothing makes Redis accept a job.                       *)
FairSpec ==
    /\ Spec
    /\ \A p \in Passes : WF_vars(StartPass(p)) /\ WF_vars(Drain(p))
    /\ \A j \in Jobs : WF_vars(BackoffElapses(j)) /\ WF_vars(Handle(j))

-----------------------------------------------------------------------------
(* Only work that was committed reaches a worker, and a row says published   *)
(* only when Redis has been given the job, whatever pass or crash came       *)
(* between the two stores.                                                  *)
StoresAgree ==
    \A j \in Jobs :
        /\ queue[j] # "absent" => row[j].status \in {"pending", "published", "dead"}
        /\ row[j].status = "published" => queue[j] # "absent" \/ forgotten[j] > 0

(* "A redelivered row is the same BullMQ job": however often a row is        *)
(* published, a second mail is sent only when a worker died between the      *)
(* mail and its ack, when the mailer threw though the mail had gone out, or   *)
(* when the queue had already evicted the job.                              *)
RedeliveryIsOneJob == \A j \in Jobs : sent[j] <= 1 + forgotten[j]

(* Every committed row comes to an end: published, or dead after its last    *)
(* attempt, as long as its tenant stays active.                             *)
EveryRowSettles ==
    \A j \in Jobs :
        (row[j].status = "pending") ~> (row[j].status \in {"published", "dead"} \/ TenantOf[j] \notin active)
=============================================================================
