--------------------------- MODULE StockDocument ---------------------------
(***************************************************************************)
(* Stock vouchers (receipts, issues, opening stock) and stock counts of     *)
(* one warehouse, and the requests that post and void them.                 *)
(*                                                                         *)
(* A request is one READ COMMITTED transaction: it reads the document       *)
(* without locking it, then the balances or the movements it works from,    *)
(* moves the stock, posts the journal entry and updates the status.  The    *)
(* status update asks for the status it started from, but nobody looks at   *)
(* how many rows it changed: what stops a second post is the key of the     *)
(* journal entry, and what stops a second void the index of the movements.  *)
(*                                                                         *)
(* An item has one stock_balances row in the warehouse.  What goes out      *)
(* leaves at the average cost of the locked row; the moving average itself  *)
(* is left out: a row may show any of its Prices.  Lots, serial numbers and *)
(* units are left out, but for the lines they make of one item: a document  *)
(* may name it on several lines.                                            *)
(***************************************************************************)
EXTENDS Integers, Sequences, FiniteSets, FiniteSetsExt, Functions

CONSTANTS
    Slots,         \* request slots
    MaxRequests,   \* how many requests are made in all (a bound)
    Items,         \* the items of the warehouse
    Prices,        \* the average costs its row may show
    OnHand,        \* what the warehouse holds of it at first
    Docs,          \* the documents, all drafts at first
    Kind,          \* "in", "out" or "count"
    Lines,         \* the lines of each document: an item, a moved or counted quantity, and
                   \* the unit cost typed on it, or Untyped
    Untyped,
    NoOp

Ops == [kind : {"post"}, doc : Docs, allowNegative : BOOLEAN]
         \cup [kind : {"void"}, doc : {d \in Docs : Kind[d] # "count"}]

ASSUME StockAssumption ==
    /\ IsFiniteSet(Items) /\ OnHand \in [Items -> Int]
    /\ \A c \in Items : Prices[c] \in SUBSET Nat
    /\ MaxRequests \in Nat /\ NoOp \notin Slots \cup Ops
ASSUME DocumentsAssumption ==
    /\ Kind \in [Docs -> {"in", "out", "count"}]
    /\ \A d \in Docs :
          /\ Lines[d] \in Seq([item : Items, qty : Nat, cost : Nat \cup {Untyped}])
          /\ Lines[d] # <<>>
          /\ Kind[d] # "count" => \A i \in DOMAIN Lines[d] : Lines[d][i].qty > 0

Locks == ({"item"} \X Items) \cup {<<"journal">>}

VARIABLES
    status,     \* of each document
    quantity,   \* stock_balances.quantity, committed
    worth,      \* stock_balances.value of all rows, committed: what it has changed by
    posted,     \* committed movements of a document's own type, net by item
    mirrored,   \* committed movements of its void
    postedAt,   \* what the former are worth
    mirroredAt, \* what the latter are worth
    keys,       \* documents whose journal entry is committed
    entry,      \* the entry a document names: its state and what it adds to inventory
    account,    \* posted balance of the inventory account
    held, stage,
    op,         \* what the request asks for
    seen,       \* the balances, or for a void the movements, it has read
    average,    \* the average costs, or what an item without one is bought for, it has read
    seenAt,     \* for a void: what the movements it has read are worth
    movedAt,    \* what its own movements are worth
    repricing,  \* it is a count, and a shortage of it has left at another price than it counts
    value,      \* what the entry it has posted adds to the inventory account
    started,    \* requests made so far
    posts,      \* history: how often each document has been posted
    worthless,  \* history: documents posted with no entry, for want of a value
    repriced,   \* history: counts posted while repricing
    outdated    \* history: items others have committed since a request read them

stock == <<quantity, worth, posted, mirrored, postedAt, mirroredAt>>
books == <<keys, entry, account>>
request == <<op, seen, average, seenAt, movedAt, repricing, value>>
docHistory == <<posts, worthless, repriced, outdated>>
docVars == <<status, stock, books, held, stage, request, started, docHistory>>

-----------------------------------------------------------------------------

Zero == [c \in Items |-> 0]
Plus(f, g) == [c \in Items |-> f[c] + g[c]]
Size(n) == IF n < 0 THEN 0 - n ELSE n

Free(r, S) == \A x \in S : held[x] = NoOp \/ held[x] = r
Take(r, S) == held' = [x \in Locks |-> IF x \in S THEN r ELSE held[x]]

Doc(r) == op[r].doc
IsCount(r) == op[r] # NoOp /\ op[r].kind = "post" /\ Kind[Doc(r)] = "count"

Move(c, n) == [item |-> c, by |-> n]

\* Fault: a line of a count books the difference the wrong way round.
VarianceBackwards(line, book) == book - line.qty

\* A counted line books the difference from the balance of its item, whatever the other
\* lines of the item book.
Variance(line, book) == line.qty - book

\* What recordInTx is given: for each line of a post what it moves, a counted line without
\* a difference left out; for a void the mirror of what was moved, by item.
Moves(r) ==
    LET lines == Lines[Doc(r)]
        signed(sign) == [i \in DOMAIN lines |-> Move(lines[i].item, sign * lines[i].qty)]
        variance(i) == Variance(lines[i], seen[r][lines[i].item])
        differing == {i \in DOMAIN lines : variance(i) # 0}
    IN IF op[r].kind = "void"
       THEN [c \in {x \in Items : seen[r][x] # 0} |-> Move(c, 0 - seen[r][c])]
       ELSE CASE Kind[Doc(r)] = "in" -> signed(1)
              [] Kind[Doc(r)] = "out" -> signed(0 - 1)
              [] OTHER -> [i \in differing |-> Move(lines[i].item, variance(i))]

\* The net quantity these moves bring each item.
NetOf(moves) == [c \in Items |->
    MapThenSumSet(LAMBDA i : IF moves[i].item = c THEN moves[i].by ELSE 0, DOMAIN moves)]
Net(r) == NetOf(Moves(r))

Touched(r) == {Moves(r)[i].item : i \in DOMAIN Moves(r)}

-----------------------------------------------------------------------------

DocInit ==
    /\ status = [d \in Docs |-> "draft"]
    /\ quantity = OnHand
    /\ worth = 0
    /\ posted = [d \in Docs |-> Zero]
    /\ mirrored = [d \in Docs |-> Zero]
    /\ postedAt = [d \in Docs |-> 0]
    /\ mirroredAt = [d \in Docs |-> 0]
    /\ keys = {}
    /\ entry = [d \in Docs |-> [state |-> "none", value |-> 0]]
    /\ account = 0
    /\ held = [x \in Locks |-> NoOp]
    /\ stage = [r \in Slots |-> "idle"]
    /\ op = [r \in Slots |-> NoOp]
    /\ seen = [r \in Slots |-> Zero]
    /\ average = [r \in Slots |-> Zero]
    /\ seenAt = [r \in Slots |-> 0]
    /\ movedAt = [r \in Slots |-> 0]
    /\ repricing = [r \in Slots |-> FALSE]
    /\ value = [r \in Slots |-> 0]
    /\ started = 0
    /\ posts = [d \in Docs |-> 0]
    /\ worthless = {}
    /\ repriced = {}
    /\ outdated = [r \in Slots |-> {}]

\* A draft is posted, a posted document is voided; anything else is refused.
StatusFor(o) == IF o.kind = "post" THEN "draft" ELSE "posted"
Accepts(o) == status[o.doc] = StatusFor(o)

\* getVoucherInTx, getAdjustmentInTx and the status check.
Load(r, o) ==
    /\ stage[r] = "idle" /\ started < MaxRequests
    /\ Accepts(o)
    /\ op' = [op EXCEPT ![r] = o]
    /\ stage' = [stage EXCEPT ![r] = "loaded"]
    /\ started' = started + 1
    /\ UNCHANGED <<status, stock, books, held, seen, average, seenAt, movedAt, repricing, value,
                   docHistory>>

\* A post reads the balances with their average costs, a void the movements of the document
\* with theirs; neither locks.  The void reads the mirrors of another void too, but
\* Unmirrored refuses it then.
ReadStock(r) ==
    /\ stage[r] = "loaded"
    /\ IF op[r].kind = "post"
       THEN /\ seen' = [seen EXCEPT ![r] = quantity]
            /\ \E costs \in [Items -> UNION {Prices[c] : c \in Items}] :
                  /\ \A c \in Items : costs[c] \in Prices[c]
                  /\ average' = [average EXCEPT ![r] = costs]
            /\ UNCHANGED seenAt
       ELSE /\ seen' = [seen EXCEPT ![r] = posted[Doc(r)]]
            /\ seenAt' = [seenAt EXCEPT ![r] = postedAt[Doc(r)]]
            /\ UNCHANGED average
    /\ stage' = [stage EXCEPT ![r] = "ready"]
    /\ UNCHANGED <<status, stock, books, held, op, movedAt, repricing, value, started, docHistory>>

\* STOCK_INSUFFICIENT is asked after every line, of the quantity the lines before leave.
LeavesEnough(r) ==
    op[r].kind = "post" /\ ~ op[r].allowNegative =>
        \A i \in DOMAIN Moves(r) :
            LET c == Moves(r)[i].item
                sofar == Restrict(Moves(r), {k \in DOMAIN Moves(r) : k <= i})
            IN  quantity[c] + NetOf(sofar)[c] >= 0

\* The mirrors carry the line ids of the movements they undo: the unique index on
\* document type, document and line lets them in once.
Unmirrored(r) == op[r].kind = "void" => mirrored[Doc(r)] = Zero

\* The unit cost of a line: the one typed on it, or the average the request has read.
LineCost(r, i) ==
    LET line == Lines[Doc(r)][i] IN IF line.cost = Untyped THEN average[r][line.item] ELSE line.cost

\* What a move of a post is worth when its row shows price: what comes in comes at the cost
\* of its line, what goes out goes at the average of the row.
MoveCost(r, i, price) == IF Moves(r)[i].by > 0 THEN LineCost(r, i) ELSE price
WorthAt(r, price) ==
    MapThenSumSet(LAMBDA i : Moves(r)[i].by * MoveCost(r, i, price[i]), DOMAIN Moves(r))

\* The averages the rows may show to the moves of a post, one after the other.
Shown(r) == {price \in [DOMAIN Moves(r) -> UNION {Prices[c] : c \in Items}] :
                \A i \in DOMAIN Moves(r) : price[i] \in Prices[Moves(r)[i].item]}

\* A shortage of a count leaves at another price than the count puts it at.
Reprices(r, price) ==
    IsCount(r) /\ \E i \in DOMAIN Moves(r) : Moves(r)[i].by < 0 /\ price[i] # LineCost(r, i)

\* recordInTx, its row locks taken at once (StockLedger takes them line by line).  A void
\* moves at the cost of the movements it undoes.
MoveStock(r) ==
    /\ stage[r] = "ready"
    /\ Free(r, {"item"} \X Touched(r))
    /\ LeavesEnough(r)
    /\ Unmirrored(r)
    /\ Take(r, {"item"} \X Touched(r))
    /\ IF op[r].kind = "post"
       THEN \E price \in Shown(r) :
               /\ movedAt' = [movedAt EXCEPT ![r] = WorthAt(r, price)]
               /\ repricing' = [repricing EXCEPT ![r] = Reprices(r, price)]
       ELSE /\ movedAt' = [movedAt EXCEPT ![r] = 0 - seenAt[r]]
            /\ UNCHANGED repricing
    /\ stage' = [stage EXCEPT ![r] = "moved"]
    /\ UNCHANGED <<status, stock, books, op, seen, average, seenAt, value, started, docHistory>>

\* The varianceValue of all lines of a count, a shortage negative: at the cost of its line,
\* whatever the movement takes out.
VarianceValue(r) ==
    MapThenSumSet(LAMBDA i : Moves(r)[i].by * LineCost(r, i), DOMAIN Moves(r))

\* valueOfMovements: all a voucher has moved, a void of it included, by itself or by others.
ValueOfMovements(r) == Size(postedAt[Doc(r)]) + Size(mirroredAt[Doc(r)]) + Size(movedAt[r])

\* Fault: the entry of a count is worth what was counted.
EntryValueOfCounted(r) ==
    IF IsCount(r)
    THEN MapThenSumSet(LAMBDA i : Lines[Doc(r)][i].qty * LineCost(r, i), DOMAIN Lines[Doc(r)])
    ELSE IF op[r].kind = "post" THEN movedAt[r] ELSE 0 - entry[Doc(r)].value

\* The entry of a voucher is worth what its movements booked, of a count the variances of
\* all its lines; a void mirrors the entry of the document.
EntryValue(r) ==
    CASE IsCount(r) -> VarianceValue(r)
      [] op[r].kind = "post" /\ Kind[Doc(r)] = "in" -> ValueOfMovements(r)
      [] op[r].kind = "post" /\ Kind[Doc(r)] = "out" -> 0 - ValueOfMovements(r)
      [] OTHER -> IF entry[Doc(r)].state = "posted" THEN 0 - entry[Doc(r)].value ELSE 0

\* Fault: the entry is posted without an idempotency key.
PostEntryWithoutKey(r) ==
    /\ stage[r] = "moved"
    /\ Free(r, {<<"journal">>})
    /\ Take(r, {<<"journal">>})
    /\ value' = [value EXCEPT ![r] = EntryValue(r)]
    /\ stage' = [stage EXCEPT ![r] = "entered"]
    /\ UNCHANGED <<status, stock, books, op, seen, average, seenAt, movedAt, repricing, started,
                   docHistory>>

\* postJournalInTx, under the key of the document; nothing is posted for a value of 0.
PostEntry(r) ==
    /\ stage[r] = "moved"
    /\ IF EntryValue(r) = 0
       THEN UNCHANGED <<held, value>>
       ELSE /\ Free(r, {<<"journal">>})
            /\ op[r].kind = "post" => Doc(r) \notin keys
            /\ Take(r, {<<"journal">>})
            /\ value' = [value EXCEPT ![r] = EntryValue(r)]
    /\ stage' = [stage EXCEPT ![r] = "entered"]
    /\ UNCHANGED <<status, stock, books, op, seen, average, seenAt, movedAt, repricing, started,
                   docHistory>>

End(r) ==
    /\ held' = [x \in Locks |-> IF held[x] = r THEN NoOp ELSE held[x]]
    /\ stage' = [stage EXCEPT ![r] = "idle"]
    /\ op' = [op EXCEPT ![r] = NoOp]
    /\ seen' = [seen EXCEPT ![r] = Zero]
    /\ average' = [average EXCEPT ![r] = Zero]
    /\ seenAt' = [seenAt EXCEPT ![r] = 0]
    /\ movedAt' = [movedAt EXCEPT ![r] = 0]
    /\ repricing' = [repricing EXCEPT ![r] = FALSE]
    /\ value' = [value EXCEPT ![r] = 0]
    /\ UNCHANGED started

StatusAfter(o) == IF o.kind = "post" THEN "posted" ELSE "voided"

\* reversalEntry also marks the entry void, so that its lines leave the balance as well.
AccountChange(r) == IF op[r].kind = "post" THEN value[r] ELSE value[r] + value[r]

\* The conditional status update, which may change no row, and the commit.
CommitDoc(r) ==
    LET d == Doc(r)
        o == op[r].kind
        mine == Accepts(op[r])
    IN /\ stage[r] = "entered"
       /\ status' = IF mine THEN [status EXCEPT ![d] = StatusAfter(op[r])] ELSE status
       /\ quantity' = Plus(quantity, Net(r))
       /\ worth' = worth + movedAt[r]
       /\ posted' = IF o = "post" THEN [posted EXCEPT ![d] = Plus(@, Net(r))] ELSE posted
       /\ mirrored' = IF o = "void" THEN [mirrored EXCEPT ![d] = Plus(@, Net(r))] ELSE mirrored
       /\ postedAt' = IF o = "post" THEN [postedAt EXCEPT ![d] = @ + movedAt[r]] ELSE postedAt
       /\ mirroredAt' = IF o = "void" THEN [mirroredAt EXCEPT ![d] = @ + movedAt[r]] ELSE mirroredAt
       /\ keys' = IF o = "post" /\ value[r] # 0 THEN keys \cup {d} ELSE keys
       /\ entry' = CASE o = "post" /\ mine /\ value[r] # 0 ->
                          [entry EXCEPT ![d] = [state |-> "posted", value |-> value[r]]]
                     [] o = "void" /\ value[r] # 0 -> [entry EXCEPT ![d].state = "void"]
                     [] OTHER -> entry
       /\ account' = account + AccountChange(r)
       /\ posts' = IF o = "post" THEN [posts EXCEPT ![d] = @ + 1] ELSE posts
       /\ worthless' = IF o = "post" /\ value[r] = 0 THEN worthless \cup {d} ELSE worthless
       /\ repriced' = IF repricing[r] THEN repriced \cup {d} ELSE repriced
       /\ outdated' = [u \in Slots |->
              CASE u = r -> {}
                [] u # r /\ stage[u] \in {"ready", "moved", "entered"} ->
                      outdated[u] \cup Touched(r)
                [] OTHER -> outdated[u]]
       /\ End(r)

\* Any refusal, error, crash or deadlock: the transaction rolls back.
Fail(r) ==
    /\ stage[r] # "idle"
    /\ End(r)
    /\ outdated' = [outdated EXCEPT ![r] = {}]
    /\ UNCHANGED <<status, stock, books, posts, worthless, repriced>>

Finished ==
    /\ \A r \in Slots : stage[r] = "idle"
    /\ started = MaxRequests \/ \A o \in Ops : ~ Accepts(o)
    /\ UNCHANGED docVars

DocNext ==
    \/ \E r \in Slots :
          \/ \E o \in Ops : Load(r, o)
          \/ ReadStock(r) \/ MoveStock(r) \/ PostEntry(r) \/ CommitDoc(r) \/ Fail(r)
    \/ Finished

DocSpec == DocInit /\ [][DocNext]_docVars

-----------------------------------------------------------------------------
(* Properties *)

DocTypes ==
    /\ status \in [Docs -> {"draft", "posted", "voided"}]
    /\ quantity \in [Items -> Int] /\ worth \in Int
    /\ posted \in [Docs -> [Items -> Int]] /\ mirrored \in [Docs -> [Items -> Int]]
    /\ postedAt \in [Docs -> Int] /\ mirroredAt \in [Docs -> Int]
    /\ keys \in SUBSET Docs
    /\ entry \in [Docs -> [state : {"none", "posted", "void"}, value : Int]]
    /\ account \in Int
    /\ held \in [Locks -> Slots \cup {NoOp}]
    /\ stage \in [Slots -> {"idle", "loaded", "ready", "moved", "entered"}]
    /\ op \in [Slots -> Ops \cup {NoOp}]
    /\ seen \in [Slots -> [Items -> Int]] /\ average \in [Slots -> [Items -> Nat]]
    /\ seenAt \in [Slots -> Int] /\ movedAt \in [Slots -> Int] /\ value \in [Slots -> Int]
    /\ repricing \in [Slots -> BOOLEAN]
    /\ started \in 0..MaxRequests
    /\ posts \in [Docs -> Nat]
    /\ worthless \in SUBSET Docs /\ repriced \in SUBSET Docs
    /\ outdated \in [Slots -> SUBSET Items]

\* What the lines of a voucher move.
Carried(d) == [c \in Items |->
    MapThenSumSet(LAMBDA i : IF Lines[d][i].item # c THEN 0
                             ELSE IF Kind[d] = "in" THEN Lines[d][i].qty ELSE 0 - Lines[d][i].qty,
                  DOMAIN Lines[d])]

\* The types, and: however often and however concurrently a document is posted and voided,
\* its status tells what it has done to the stock: a draft nothing, a posted voucher its
\* lines once, a voided one nothing in the end.  It holds for documents whose entry has a
\* value.
StatusTellsStock ==
    DocTypes /\ \A d \in Docs \ worthless :
        /\ status[d] = "draft" => posted[d] = Zero /\ keys \cap {d} = {}
        /\ status[d] = "posted" =>
              (Kind[d] # "count" => posted[d] = Carried(d)) /\ mirrored[d] = Zero /\ posts[d] = 1
        /\ status[d] = "voided" => Plus(posted[d], mirrored[d]) = Zero

\* The lines of a document that name an item.
LinesOf(d, c) == {i \in DOMAIN Lines[d] : Lines[d][i].item = c}
Counted(d, c) == MapThenSumSet(LAMBDA i : Lines[d][i].qty, LinesOf(d, c))

\* A count leaves the counted quantity in the warehouse, for each item it names on one
\* line and that nobody moved between its reading of the balances and its commit.
CountLeavesCounted ==
    [][\A r \in Slots : IsCount(r) /\ CommitDoc(r) =>
          \A c \in Items \ outdated[r] :
              Cardinality(LinesOf(Doc(r), c)) = 1 => quantity'[c] = Counted(Doc(r), c)]_docVars

\* The inventory account moves with the value of the stock, whatever the costs typed, read and
\* shown: no entry is left without its goods and no goods without their entry.  It holds as
\* long as no document is voided and no count has put a shortage at another price than the
\* one it left at.
AccountTellsStock ==
    (\A d \in Docs : status[d] # "voided") /\ repriced = {} => account = worth
=============================================================================
