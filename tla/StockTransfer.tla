--------------------------- MODULE StockTransfer ---------------------------
(***************************************************************************)
(* One stock transfer document (stock_transfers and its lines) and the     *)
(* requests that send, receive, close and cancel it.                       *)
(*                                                                         *)
(* Every request is one READ COMMITTED transaction that loads the document *)
(* without locking it and decides from what it loaded; the rows it writes  *)
(* later are locked until it ends.  Its steps are cut where another        *)
(* transaction can come between: load, move the stock, post the journal    *)
(* entry, update the lines, and the status update with the commit.         *)
(*                                                                         *)
(* A line is one item, carried at a constant unit cost: the average the    *)
(* source relieves it at and stamps on the line.  Serial numbers, lots and *)
(* units of measure are left out.                                          *)
(***************************************************************************)
EXTENDS Integers, Sequences, FiniteSets, FiniteSetsExt

CONSTANTS
    Slots,         \* request slots
    MaxRequests,   \* how many requests are made in all (a bound)
    Lines,         \* the lines of the transfer
    Qty,           \* the quantity of each line
    Cost,          \* its unit cost at the source
    Stock,         \* what the source warehouse holds of it at first
    Ops,           \* the requests that may be made
    NoOp

Sends == [kind : {"send"}, allowNegative : BOOLEAN]
Receives == [kind : {"receive"}, list : Seq([line : Lines, qty : Int])]
Closes == [kind : {"close"}, mode : {"return", "shortage"}]
Cancels == [kind : {"cancel"}]

\* A transfer has at least one line, each of a positive quantity; what is not named here,
\* such as a cost of zero or a stock that falls short, is left open.
ASSUME TransferAssumption ==
    /\ IsFiniteSet(Lines) /\ Lines # {}
    /\ Qty \in [Lines -> Nat \ {0}]
    /\ Cost \in [Lines -> Nat]
    /\ Stock \in [Lines -> Nat]
    /\ \A o \in Ops : o \in Sends \/ o \in Receives \/ o \in Closes \/ o \in Cancels
    /\ NoOp \notin Slots /\ MaxRequests \in Nat

\* Where the goods of a line have gone.  The first four are the movements of
\* document types stock_transfer, _receipt, _return and _cancel; a shortage is
\* closed_qty settled without a movement.
Ways == {"sent", "receipt", "return", "cancel", "shortage"}

\* What a transaction can hold: stock_balances rows of the two warehouses, lines of
\* the document, the journal number sequence of the branch, and the document row.
Locks == ({"source", "dest", "line"} \X Lines) \cup {<<"journal">>, <<"transfer">>}

VARIABLES
    status,     \* stock_transfers.status
    received,   \* received_qty of each line
    closed,     \* closed_qty of each line
    goods,      \* committed quantity that went each way, by line
    keys,       \* idempotency keys of the committed journal entries
    sendEntry,  \* the entry of sent_journal_entry_id: its state and its value
    transit,    \* posted balance of the goods-in-transit account
    lock, stage,
    op,         \* what the request asks for
    seen,       \* what it loaded
    own,        \* the quantity of each line it settles
    value,      \* the value of the entry it posted, 0 if none
    complete,   \* it found every line fully received
    started,    \* requests made so far
    applied,    \* history: how many times each request has been carried out
    overtaken,  \* history: requests that another has committed past since they loaded
    stale       \* history: an overtaken request has committed

document == <<status, received, closed, sendEntry>>
books == <<goods, keys, transit>>
request == <<op, seen, own, value, complete>>
history == <<applied, overtaken, stale>>
transferVars == <<document, books, lock, stage, request, started, history>>

-----------------------------------------------------------------------------

Nothing == [l \in Lines |-> 0]
Plus(f, g) == [l \in Lines |-> f[l] + g[l]]
Worth(f) == MapThenSumSet(LAMBDA l : f[l] * Cost[l], Lines)

Free(r, S) == \A x \in S : lock[x] = NoOp \/ lock[x] = r
LockRows(r, S) == lock' = [x \in Locks |-> IF x \in S THEN r ELSE lock[x]]
Unlock(r) == lock' = [x \in Locks |-> IF lock[x] = r THEN NoOp ELSE lock[x]]

OnHand(l) == Stock[l] - goods["sent"][l] + goods["return"][l] + goods["cancel"][l]

\* A transfer on the road, for receiveTransfer and closeTransfer.
OnTheRoad(s) == s \in {"in_transit", "partially_received"}

\* The quantity the entries of a receipt name for each line.
Named(list) == [l \in Lines |->
    MapThenSumSet(LAMBDA i : IF list[i].line = l THEN list[i].qty ELSE 0, DOMAIN list)]

\* Fault: a return takes the whole line, whatever has arrived.
OutstandingWhole(doc) == Qty

Outstanding(doc) == [l \in Lines |->
    IF doc.received[l] + doc.closed[l] < Qty[l]
    THEN Qty[l] - doc.received[l] - doc.closed[l] ELSE 0]

\* The part of a request its idempotency key is made of.
Key(o) == IF o.kind = "send" THEN [kind |-> "send"] ELSE o

Touched(r) == {l \in Lines : own[r][l] # 0}

\* Which way the goods go.
Way(o) == CASE o.kind = "send" -> "sent"
            [] o.kind = "receive" -> "receipt"
            [] o.kind = "close" -> (IF o.mode = "return" THEN "return" ELSE "shortage")
            [] o.kind = "cancel" -> "cancel"

-----------------------------------------------------------------------------

TransferInit ==
    /\ status = "draft"
    /\ received = Nothing /\ closed = Nothing
    /\ goods = [w \in Ways |-> Nothing]
    /\ keys = {}
    /\ sendEntry = [state |-> "none", value |-> 0]
    /\ transit = 0
    /\ lock = [x \in Locks |-> NoOp]
    /\ stage = [r \in Slots |-> "idle"]
    /\ op = [r \in Slots |-> NoOp]
    /\ seen = [r \in Slots |-> NoOp]
    /\ own = [r \in Slots |-> Nothing]
    /\ value = [r \in Slots |-> 0]
    /\ complete = [r \in Slots |-> FALSE]
    /\ started = 0
    /\ applied = [o \in Ops |-> 0]
    /\ overtaken = {} /\ stale = FALSE

\* The checks a request makes on the document it has loaded, before it writes
\* anything; each entry of a receipt is checked on its own against the loaded line.
Accepts(o) ==
    \/ o.kind = "send" /\ status = "draft"
    \/ /\ o.kind = "receive" /\ OnTheRoad(status)
       /\ o.list # <<>>
       /\ \A i \in DOMAIN o.list :
             o.list[i].qty > 0 /\ received[o.list[i].line] + o.list[i].qty <= Qty[o.list[i].line]
    \/ /\ o.kind = "close" /\ OnTheRoad(status)
       /\ \E l \in Lines : received[l] + closed[l] < Qty[l]
    \/ o.kind = "cancel" /\ status \notin {"received", "cancelled"}

\* What it will settle, from the same load.
Settles(o) ==
    CASE o.kind = "send" -> Qty
      [] o.kind = "receive" -> Named(o.list)
      [] o.kind = "close" -> Outstanding([received |-> received, closed |-> closed])
      [] o.kind = "cancel" -> IF status = "in_transit" THEN goods["sent"] ELSE Nothing

\* loadTransfer and the refusals.  A refused request changes nothing.
Load(r, o) ==
    /\ stage[r] = "idle" /\ started < MaxRequests
    /\ Accepts(o)
    /\ stage' = [stage EXCEPT ![r] = "loaded"]
    /\ op' = [op EXCEPT ![r] = o]
    /\ seen' = [seen EXCEPT ![r] = [status |-> status, entry |-> sendEntry.state]]
    /\ own' = [own EXCEPT ![r] = Settles(o)]
    /\ started' = started + 1
    /\ UNCHANGED <<document, books, lock, value, complete, history>>

-----------------------------------------------------------------------------

\* The stock_balances rows recordInTx locks; a send then stamps every line.
RowsMoved(r) ==
    CASE Way(op[r]) = "sent" -> {"source", "line"} \X Lines
      [] Way(op[r]) = "receipt" -> {"dest"} \X Touched(r)
      [] Way(op[r]) \in {"return", "cancel"} -> {"source"} \X Touched(r)
      [] OTHER -> {}

\* recordInTx.  A send is refused when the source holds too little, unless it may take
\* it below zero; the mirrors of a
\* cancellation carry the line ids of the send, which the unique index on document
\* type, document and line lets in once.
Move(r) ==
    /\ stage[r] = "loaded"
    /\ Free(r, RowsMoved(r))
    /\ op[r].kind = "send" /\ ~ op[r].allowNegative => \A l \in Lines : OnHand(l) >= Qty[l]
    /\ op[r].kind = "cancel" => \A l \in Touched(r) : goods["cancel"][l] = 0
    /\ LockRows(r, RowsMoved(r))
    /\ stage' = [stage EXCEPT ![r] = "moved"]
    /\ UNCHANGED <<document, books, request, started, history>>

\* Fault: a closing is valued at the whole line, whatever has arrived.
EntryValueOfLine(r) ==
    IF op[r].kind = "close" THEN Worth([l \in Lines |-> IF own[r][l] > 0 THEN Qty[l] ELSE 0])
    ELSE Worth(Plus(goods[Way(op[r])], own[r]))

\* valueOfMovements sums every movement of the document type, the earlier ones
\* included; closing values its own remainder, cancelling mirrors the send entry.
EntryValue(r) ==
    CASE op[r].kind \in {"send", "receive"} ->
            Worth(Plus(goods[Way(op[r])], own[r]))
      [] op[r].kind = "close" -> Worth(own[r])
      [] op[r].kind = "cancel" ->
            IF seen[r].status = "in_transit" /\ seen[r].entry # "none"
                  /\ sendEntry.state # "void"
            THEN sendEntry.value ELSE 0

\* Fault: the entry is posted without an idempotency key.
PostWithoutKey(r) ==
    /\ stage[r] = "moved"
    /\ Free(r, {<<"journal">>})
    /\ LockRows(r, {<<"journal">>})
    /\ value' = [value EXCEPT ![r] = EntryValue(r)]
    /\ stage' = [stage EXCEPT ![r] = "posted"]
    /\ UNCHANGED <<document, books, op, seen, own, complete, started, history>>

\* postJournalInTx takes the next number of the branch, a row locked to the end, and
\* inserts the entry under its unique idempotency key; nothing is posted for a value
\* of 0.  receiveTransfer then writes the entry on the document row.
Post(r) ==
    /\ stage[r] = "moved"
    /\ IF EntryValue(r) = 0
       THEN UNCHANGED <<lock, value>>
       ELSE LET rows == {<<"journal">>} \cup
                        IF op[r].kind = "receive" THEN {<<"transfer">>} ELSE {}
            IN /\ Free(r, rows)
               /\ Key(op[r]) \notin keys
               /\ LockRows(r, rows)
               /\ value' = [value EXCEPT ![r] = EntryValue(r)]
    /\ stage' = [stage EXCEPT ![r] = "posted"]
    /\ UNCHANGED <<document, books, op, seen, own, complete, started, history>>

\* received_qty or closed_qty is raised on the rows as they are now, and a receipt
\* loads the document again to see whether every line is complete.
UpdateLines(r) ==
    LET rows == IF op[r].kind \in {"receive", "close"} THEN {"line"} \X Touched(r) ELSE {}
    IN /\ stage[r] = "posted"
       /\ Free(r, rows)
       /\ LockRows(r, rows)
       /\ complete' = [complete EXCEPT ![r] =
                         op[r].kind = "receive" /\ Plus(received, own[r]) = Qty]
       /\ stage' = [stage EXCEPT ![r] = "updated"]
       /\ UNCHANGED <<document, books, op, seen, own, value, started, history>>

\* The request is over and its slot is free again.
End(r) ==
    /\ stage' = [stage EXCEPT ![r] = "idle"]
    /\ op' = [op EXCEPT ![r] = NoOp]
    /\ seen' = [seen EXCEPT ![r] = NoOp]
    /\ own' = [own EXCEPT ![r] = Nothing]
    /\ value' = [value EXCEPT ![r] = 0]
    /\ complete' = [complete EXCEPT ![r] = FALSE]
    /\ Unlock(r)
    /\ UNCHANGED started

\* Only sendTransfer makes its status update conditional, and it does not look at
\* how many rows it changed.
NextStatus(r) ==
    CASE op[r].kind = "send" -> (IF status = "draft" THEN "in_transit" ELSE status)
      [] op[r].kind = "receive" -> (IF complete[r] THEN "received" ELSE "partially_received")
      [] op[r].kind = "close" -> "closed"
      [] op[r].kind = "cancel" -> "cancelled"

\* What the entry does to the posted balance of the in-transit account.  reversalEntry
\* posts the mirror of the send entry and marks the send entry void, so that its own
\* lines, no longer posted, leave the balance as well.
TransitChange(r) ==
    CASE op[r].kind = "send" -> value[r]
      [] op[r].kind = "cancel" -> 0 - value[r] - value[r]
      [] OTHER -> 0 - value[r]

\* The status update, on the document row, and the commit.
Commit(r) ==
    /\ stage[r] = "updated" /\ Free(r, {<<"transfer">>})
    /\ status' = NextStatus(r)
    /\ received' = IF op[r].kind = "receive" THEN Plus(received, own[r]) ELSE received
    /\ closed' = IF op[r].kind = "close" THEN Plus(closed, own[r]) ELSE closed
    /\ goods' = [goods EXCEPT ![Way(op[r])] = Plus(@, own[r])]
    /\ keys' = keys \cup IF value[r] > 0 THEN {Key(op[r])} ELSE {}
    /\ transit' = transit + TransitChange(r)
    /\ sendEntry' =
          CASE op[r].kind = "send" /\ status = "draft" /\ value[r] > 0 ->
                  [state |-> "posted", value |-> value[r]]
            [] op[r].kind = "cancel" /\ value[r] > 0 -> [sendEntry EXCEPT !.state = "void"]
            [] OTHER -> sendEntry
    /\ applied' = [applied EXCEPT ![op[r]] = @ + 1]
    /\ overtaken' = {u \in Slots \ {r} : stage[u] # "idle"}
    /\ stale' = (stale \/ r \in overtaken)
    /\ End(r)

\* Any error or crash on the way, a refusal by recordInTx or a unique index, or being
\* chosen as a deadlock victim: the transaction rolls back.
Fail(r) ==
    /\ stage[r] # "idle"
    /\ End(r)
    /\ overtaken' = overtaken \ {r}
    /\ UNCHANGED <<document, books, applied, stale>>

\* Every request has ended and no other is made or accepted.
Finished ==
    /\ \A r \in Slots : stage[r] = "idle"
    /\ started = MaxRequests \/ \A o \in Ops : ~ Accepts(o)
    /\ UNCHANGED transferVars

TransferNext ==
    \/ \E r \in Slots :
          \/ \E o \in Ops : Load(r, o)
          \/ Move(r) \/ Post(r) \/ UpdateLines(r) \/ Commit(r) \/ Fail(r)
    \/ Finished

TransferSpec == TransferInit /\ [][TransferNext]_transferVars

-----------------------------------------------------------------------------
(* Properties *)

TransferStatuses ==
    {"draft", "in_transit", "partially_received", "received", "closed", "cancelled"}
EntryStates == {"none", "posted", "void"}

TransferTypes ==
    /\ status \in TransferStatuses
    /\ received \in [Lines -> Nat] /\ closed \in [Lines -> Nat]
    /\ goods \in [Ways -> [Lines -> Nat]]
    /\ keys \in SUBSET {Key(o) : o \in Ops}
    /\ sendEntry \in [state : EntryStates, value : Nat]
    /\ transit \in Int
    /\ lock \in [Locks -> Slots \cup {NoOp}]
    /\ stage \in [Slots -> {"idle", "loaded", "moved", "posted", "updated"}]
    /\ op \in [Slots -> Ops \cup {NoOp}]
    /\ seen \in [Slots -> [status : TransferStatuses, entry : EntryStates] \cup {NoOp}]
    /\ own \in [Slots -> [Lines -> Nat]]
    /\ value \in [Slots -> Nat]
    /\ complete \in [Slots -> BOOLEAN]
    /\ started \in 0..MaxRequests
    /\ applied \in [Ops -> Nat]
    /\ overtaken \in SUBSET Slots /\ stale \in BOOLEAN

\* The goods of a line that have left the source and reached nowhere yet.
OnRoad(l) ==
    goods["sent"][l] - goods["receipt"][l] - goods["return"][l] - goods["cancel"][l]
        - goods["shortage"][l]

\* The types, and: what the document says is outstanding is what left the source and has
\* not arrived (inTransit lists it, closeTransfer settles it), and nothing is outstanding
\* once the transfer is received or closed, but for a line that was received twice over by
\* one receipt; as long as no request decided from a document another has changed since.
DocumentTellsGoods ==
    /\ TransferTypes
    /\ ~ stale =>
        /\ OnTheRoad(status) =>
              \A l \in Lines : OnRoad(l) = Qty[l] - received[l] - closed[l]
        /\ status \in {"draft", "received", "closed"} =>
              \A l \in Lines : received[l] <= Qty[l] => OnRoad(l) = 0

\* The goods have been received in one go, if at all.
OneReceipt == \A o, p \in Ops :
    o.kind = "receive" /\ p.kind = "receive" /\ applied[o] > 0 /\ applied[p] > 0 =>
        o = p /\ applied[o] = 1

\* The goods-in-transit account carries the value of the goods on the road, through
\* failures, receipts of a part and either closing mode, for a transfer that is received
\* in one go and not cancelled once it was sent.
TransitTellsGoods ==
    ~ stale /\ OneReceipt /\ sendEntry.state # "void" => transit = Worth([l \in Lines |-> OnRoad(l)])

\* Goods that carry a value are sent once, received once per identical receipt, put back
\* once and settled once per closing mode, however often and however concurrently the
\* same request is submitted: a second one ends on the journal key, the movement index
\* or the status.
SubmittedTwiceDoneOnce ==
    /\ \A o \in Ops : o.kind # "cancel" => applied[o] <= 1
    /\ \A l \in Lines : goods["sent"][l] <= Qty[l] /\ goods["cancel"][l] <= Qty[l]
=============================================================================
