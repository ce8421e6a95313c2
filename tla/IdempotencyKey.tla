---------------------------- MODULE IdempotencyKey ----------------------------
(***************************************************************************)
(* One Idempotency-Key of one tenant: idempotency.interceptor.ts around a   *)
(* handler, and idempotency.store.ts under it.  The client sends the key    *)
(* with a payload again and again; any replica of the server may take it.   *)
(*                                                                          *)
(* begin() is one step: the upsert locks the key's row even where its       *)
(* setWhere refuses the update, so no release or purge comes between it and  *)
(* the select behind it.  complete() and release() are not awaited: they    *)
(* run after the client has its answer, and are lost when the server dies   *)
(* or the database refuses them.  The handler is external: it commits       *)
(* HandlerCommits transactions of its own and can throw before the first,   *)
(* between two of them, or after the last: a read of what it has committed   *)
(* fails, or the acknowledgement of a COMMIT is lost.                       *)
(***************************************************************************)
EXTENDS Integers, FiniteSets

CONSTANTS
    Requests,        \* the attempts of the client
    Payloads,        \* endpoint and body, by their hash
    HandlerCommits,  \* how many transactions the handler commits
    None

ASSUME HandlerAssumption == HandlerCommits \in Nat \ {0}
KeyRow == [hash : Payloads, claimant : Requests, response : Requests \cup {None}, expired : BOOLEAN]

ASSUME NoneAssumption == None \notin Requests /\ None \notin Payloads /\ None \notin KeyRow

VARIABLES
    keyRow,    \* the row of idempotency_keys, None: there is none
    pc,        \* what became of an attempt
    payload,   \* what it asks for
    commits,   \* how many transactions its handler has committed
    answer,    \* the attempt whose response it was given
    unstored,  \* complete() calls under way
    unfreed,   \* release() calls under way
    lost,      \* attempts whose server died, or whose late call failed
    life       \* the attempts handled since the key was last unseen or expired

keyVars == <<keyRow, pc, payload, commits, answer, unstored, unfreed, lost, life>>

KeyTypeOK ==
    /\ keyRow \in KeyRow \cup {None}
    /\ pc \in [Requests -> {"unsent", "running", "answered", "replayed", "in_progress", "conflict", "failed", "dead"}]
    /\ payload \in [Requests -> Payloads \cup {None}]
    /\ commits \in [Requests -> 0..HandlerCommits]
    /\ answer \in [Requests -> Requests \cup {None}]
    /\ unstored \in SUBSET Requests
    /\ unfreed \in SUBSET Requests
    /\ lost \in SUBSET Requests
    /\ life \in SUBSET Requests

KeyInit ==
    /\ keyRow = None
    /\ pc = [r \in Requests |-> "unsent"]
    /\ payload = [r \in Requests |-> None]
    /\ commits = [r \in Requests |-> 0]
    /\ answer = [r \in Requests |-> None]
    /\ unstored = {}
    /\ unfreed = {}
    /\ lost = {}
    /\ life = {}

-----------------------------------------------------------------------------
Running == {r \in Requests : pc[r] = "running"}
(* Fault: a key without an answer counts as free.                           *)
KeyFreeUnanswered == keyRow # None => (keyRow.expired \/ keyRow.response = None)

KeyFree == keyRow # None => keyRow.expired

(* A new claim of an expired key, or of one that was purged, begins a new    *)
(* life of the key; one after a release goes on with the old.               *)
ClaimKey(r, p) ==
    /\ KeyFree
    /\ keyRow' = [hash |-> p, claimant |-> r, response |-> None, expired |-> FALSE]
    /\ pc' = [pc EXCEPT ![r] = "running"]
    /\ life' = {r} \cup (IF keyRow = None THEN life ELSE {})
    /\ UNCHANGED answer

(* Fault: the request hash is not compared.                                 *)
OutcomeOfAnyPayload(r, p) == IF keyRow.response = None THEN "in_progress" ELSE "replayed"

Outcome(r, p) ==
    CASE keyRow.hash # p -> "conflict"
      [] keyRow.hash = p /\ keyRow.response = None -> "in_progress"
      [] OTHER -> "replayed"

Refer(r, p) ==
    /\ ~KeyFree
    /\ pc' = [pc EXCEPT ![r] = Outcome(r, p)]
    /\ answer' = [answer EXCEPT ![r] = IF Outcome(r, p) = "replayed" THEN keyRow.response ELSE None]
    /\ UNCHANGED <<keyRow, life>>

Begin(r) ==
    /\ pc[r] = "unsent"
    /\ \E p \in Payloads :
        /\ payload' = [payload EXCEPT ![r] = p]
        /\ ClaimKey(r, p) \/ Refer(r, p)
    /\ UNCHANGED <<commits, unstored, unfreed, lost>>

-----------------------------------------------------------------------------
(* The handler commits one of its transactions.                             *)
HandlerCommit(r) ==
    /\ pc[r] = "running"
    /\ commits[r] < HandlerCommits
    /\ commits' = [commits EXCEPT ![r] = @ + 1]
    /\ UNCHANGED <<keyRow, pc, payload, answer, unstored, unfreed, lost, life>>

(* It returns: the answer goes out, complete() starts.                      *)
Answer(r) ==
    /\ pc[r] = "running"
    /\ commits[r] = HandlerCommits
    /\ pc' = [pc EXCEPT ![r] = "answered"]
    /\ answer' = [answer EXCEPT ![r] = r]
    /\ unstored' = unstored \cup {r}
    /\ UNCHANGED <<keyRow, payload, commits, unfreed, lost, life>>

(* Fault: the error path does not release the key.                          *)
HandlerThrowsOnly(r) ==
    /\ pc[r] = "running"
    /\ pc' = [pc EXCEPT ![r] = "failed"]
    /\ UNCHANGED <<keyRow, payload, commits, answer, unstored, unfreed, lost, life>>

(* It throws, whatever it has committed: the error goes out, release() starts. *)
HandlerThrows(r) ==
    /\ pc[r] = "running"
    /\ pc' = [pc EXCEPT ![r] = "failed"]
    /\ unfreed' = unfreed \cup {r}
    /\ UNCHANGED <<keyRow, payload, commits, answer, unstored, lost, life>>

(* complete(): the key's row, whoever claimed it.                           *)
Complete(r) ==
    /\ r \in unstored
    /\ keyRow' = IF keyRow = None THEN None ELSE [keyRow EXCEPT !.response = r]
    /\ unstored' = unstored \ {r}
    /\ UNCHANGED <<pc, payload, commits, answer, unfreed, lost, life>>

(* release(): the key's row, while it has no answer.                        *)
Release(r) ==
    /\ r \in unfreed
    /\ keyRow' = IF keyRow # None /\ keyRow.response = None THEN None ELSE keyRow
    /\ unfreed' = unfreed \ {r}
    /\ UNCHANGED <<pc, payload, commits, answer, unstored, lost, life>>

(* The server dies while the handler runs, or before the late call; a late  *)
(* call that fails is logged and forgotten.                                 *)
Lose(r) ==
    /\ r \in Running \cup unstored \cup unfreed
    /\ pc' = [pc EXCEPT ![r] = IF @ = "running" THEN "dead" ELSE @]
    /\ lost' = lost \cup {r}
    /\ unstored' = unstored \ {r}
    /\ unfreed' = unfreed \ {r}
    /\ UNCHANGED <<keyRow, payload, commits, answer, life>>

(* IDEMPOTENCY_TTL_HOURS pass: no request takes that long.                  *)
Expire ==
    /\ keyRow # None /\ ~keyRow.expired
    /\ Running \cup unstored \cup unfreed = {}
    /\ keyRow' = [keyRow EXCEPT !.expired = TRUE]
    /\ UNCHANGED <<pc, payload, commits, answer, unstored, unfreed, lost, life>>

(* purgeExpired(), the maintenance job.                                     *)
Purge ==
    /\ keyRow # None /\ keyRow.expired
    /\ keyRow' = None
    /\ life' = {}
    /\ UNCHANGED <<pc, payload, commits, answer, unstored, unfreed, lost>>

Quiet ==
    /\ \A r \in Requests : pc[r] \notin {"unsent", "running"}
    /\ unstored \cup unfreed = {}
    /\ UNCHANGED keyVars

Handling(r) == HandlerCommit(r) \/ Answer(r) \/ HandlerThrows(r) \/ Complete(r) \/ Release(r)

KeyNext ==
    \/ \E r \in Requests : Begin(r) \/ Handling(r) \/ Lose(r)
    \/ Expire
    \/ Purge
    \/ Quiet

KeySpec == KeyInit /\ [][KeyNext]_keyVars

(* A server that does not die goes on with what it has begun.               *)
KeyFairSpec == KeySpec /\ \A r \in Requests : WF_keyVars(Handling(r))

-----------------------------------------------------------------------------
(* "Two concurrent requests with the same key cannot both execute the       *)
(* handler" (idempotency.store.ts), on whatever replicas.                   *)
OneHandlerAtATime == Cardinality(Running) <= 1

(* What a client repeats takes effect once, until the key expires, but for  *)
(* what attempts committed before they threw: through dead servers, lost     *)
(* late calls, purges and retries at most one other attempt of a life of the *)
(* key has committed anything.  The exception is what the comment "The      *)
(* handler failed, so nothing happened" (idempotency.interceptor.ts:112)     *)
(* overlooks.                                                               *)
EffectOnce == Cardinality({r \in life : commits[r] > 0 /\ pc[r] # "failed"}) <= 1

(* A replay is the response to the same payload, of a handler that came to  *)
(* its end, in this life of the key: never another body's answer, never one *)
(* of before the key expired.                                               *)
ReplayIsTheAnswer ==
    [][\A r \in Requests : pc'[r] = "replayed" /\ pc[r] # "replayed" =>
        LET q == answer'[r]
        IN  q \in life /\ payload[q] = payload'[r] /\ commits[q] = HandlerCommits]_keyVars

(* A failed attempt does not poison the key: unless its server died or the  *)
(* release failed, the key is free again, or taken by a later attempt.      *)
FailureFreesTheKey ==
    \A r \in Requests :
        (pc[r] = "failed") ~> (keyRow = None \/ keyRow.claimant # r \/ r \in lost)
=============================================================================
