-------------------------- MODULE AccountingProofs ---------------------------
(***************************************************************************)
(* Proofs about the books of a tenant, for any requests, charts, periods,  *)
(* dates and jobs.  Of AccountTree: the types, that paths, depths and      *)
(* parents agree, and that no request which nobody overtook changes the    *)
(* identity of a posted account.  Of FiscalPeriod: the types, that cards   *)
(* and ledger agree, and what holds of a request that nobody overtakes.    *)
(***************************************************************************)
EXTENDS AccountTree, FiscalPeriod, SequenceTheorems, TLAPS

-----------------------------------------------------------------------------
(* The chart of accounts *)

(* The inductive invariant *)

\* A row of account a whose path leads to it and is as long as it is deep.
Sound(node, a) ==
    node \in Row /\ node.path # <<>> /\ Last(node.path) = a /\ node.level = Len(node.path) - 1

TargetSound(r) ==
    IF job[r].parent = None THEN target[r] = None ELSE Sound(target[r], job[r].parent)

\* The new parent was not in the branch that moves when it was read.
NotBelow(r) == job[r].parent # None => Account(r) \notin Range(target[r].path)

\* What a request works on once it has started.
JobInv(r) ==
    pc[r] # "idle" =>
        /\ job[r] \in Jobs
        /\ job[r].op = "create" =>
              pc[r] \in {"ready", "written"} /\ ~ Exists(Account(r)) /\ TargetSound(r)
        /\ job[r].op # "create" => Exists(Account(r)) /\ Sound(card[r], Account(r))
        /\ job[r].op = "delete" => pc[r] \in {"read", "checked", "ready", "written"}
        /\ pc[r] = "checked" => job[r].op = "delete" \/ Reparents(r)
        /\ pc[r] \in {"aimed", "found"} => Reparents(r)
        /\ pc[r] = "found" => Account(r) \notin branch[r]
        /\ pc[r] \in {"aimed", "found", "ready", "written"} /\ Reparents(r) =>
              TargetSound(r) /\ NotBelow(r)

\* What a request has written it holds, and has computed from the row as it still is.
BranchDraft(r, x) ==
    /\ pc[r] \in {"ready", "written"} /\ Reparents(r)
    /\ Within(x, card[r].path) /\ draft[r][x] = Rerooted(r, chart[x])
CardDraft(r) == pc[r] = "written" /\ draft[r][Account(r)] = Card(r)

DraftInv(r) ==
    /\ \A x \in Accounts : draft[r][x] # None =>
          lock[x] = r /\ IF x = Account(r) THEN CardDraft(r) ELSE BranchDraft(r, x)
    /\ pc[r] = "written" => draft[r][Account(r)] # None

\* Until another request commits, what a request has read and checked is still so.
KnowsCard(r) ==
    job[r].op # "create" =>
        /\ card[r] = chart[Account(r)] /\ Live(Account(r))
        /\ pc[r] # "read" /\ Account(r) \in posted => job[r].op = "update" /\ ~ ChangesIdentity(r)
KnowsTarget(r) ==
    /\ \/ job[r].op = "create"
       \/ pc[r] \in {"aimed", "found", "ready", "written"} /\ Reparents(r)
    /\ job[r].parent # None
    => Live(job[r].parent) /\ target[r] = chart[job[r].parent]
KnowsBranch(r) ==
    \A x \in Accounts : x # Account(r) /\ Within(x, card[r].path) =>
        /\ pc[r] = "found" => x \in branch[r]
        /\ pc[r] \in {"ready", "written"} /\ Reparents(r) => draft[r][x] # None
KnowsLeaf(r) ==
    job[r].op = "delete" /\ pc[r] \in {"ready", "written"} =>
        \A x \in Accounts : Live(x) => chart[x].parent # Account(r)
Knows(r) == KnowsCard(r) /\ KnowsTarget(r) /\ KnowsBranch(r) /\ (torn \/ KnowsLeaf(r))

KnowInv(r) == pc[r] # "idle" /\ r \notin overtaken => Knows(r)

RequestInv(r) == JobInv(r) /\ DraftInv(r) /\ KnowInv(r)

\* The id of an account that is being created is in nobody else's hands.
IdsAreNew ==
    \A r, u \in Requests : r # u /\ pc[r] # "idle" /\ pc[u] # "idle" /\ job[r].op = "create" =>
        Account(u) # Account(r)

ChartInv ==
    /\ \A a \in Accounts : Exists(a) => Sound(chart[a], a)
    /\ \A a \in posted : Exists(a)
    /\ torn \/ PathsTellParents

IInv == TypeOK /\ (\A r \in Requests : RequestInv(r)) /\ IdsAreNew /\ ChartInv

-----------------------------------------------------------------------------
(* Sequences *)

LEMMA PrefixElements ==
    ASSUME NEW S, NEW p \in Seq(S), NEW q \in Seq(S)
    PROVE  IsPrefix(p, q) <=> Len(p) <= Len(q) /\ \A i \in 1..Len(p) : p[i] = q[i]
<1>1. SubSeq(p, 1, Len(p)) = p
  BY SubSeqFull
<1>2. Len(p) \in Nat /\ Len(q) \in Nat
  BY LenProperties
<1>3. ASSUME Len(p) <= Len(q)
      PROVE  /\ SubSeq(q, 1, Len(p)) \in Seq(S) /\ Len(SubSeq(q, 1, Len(p))) = Len(p)
             /\ \A i \in 1..Len(p) : SubSeq(q, 1, Len(p))[i] = q[i]
  <2>1. \A i \in 1..Len(p) : q[i] \in S
    BY <1>2, <1>3, ElementOfSeq
  <2>. QED
    BY <1>2, <2>1, SubSeqProperties
<1>4. ASSUME Len(p) <= Len(q), \A i \in 1..Len(p) : p[i] = q[i]
      PROVE  p = SubSeq(q, 1, Len(p))
  BY <1>3, <1>4, SeqEqual
<1>. QED
  BY <1>1, <1>3, <1>4 DEF IsPrefix

\* A path below another that ends elsewhere is longer, and goes through its end.
LEMMA BelowIsLonger ==
    ASSUME NEW S, NEW p \in Seq(S), NEW q \in Seq(S), p # <<>>, IsPrefix(p, q)
    PROVE  /\ Last(p) \in Range(q)
           /\ Last(p) # Last(q) => Len(p) < Len(q)
<1>1. Len(p) \in Nat \ {0} /\ Len(q) \in Nat /\ DOMAIN q = 1..Len(q)
  BY LenProperties, EmptySeq
<1>2. Len(p) <= Len(q) /\ p[Len(p)] = q[Len(p)]
  BY <1>1, PrefixElements
<1>. QED
  BY <1>1, <1>2 DEF Last, Range

\* The rest of a path below p, put under another path n.
LEMMA RerootFacts ==
    ASSUME NEW S, NEW n \in Seq(S), NEW q \in Seq(S), NEW k \in Nat, k < Len(q)
    PROVE  LET t == n \o SubSeq(q, k + 1, Len(q)) IN
           /\ t \in Seq(S) /\ t # <<>> /\ Len(t) = Len(n) + Len(q) - k
           /\ Last(t) = Last(q)
           /\ \A i \in 1..Len(t) : t[i] = IF i <= Len(n) THEN n[i] ELSE q[i - Len(n) + k]
<1>. DEFINE rest == SubSeq(q, k + 1, Len(q))
<1>1. Len(q) \in Nat /\ Len(n) \in Nat
  BY LenProperties
<1>2. \A i \in (k + 1)..Len(q) : q[i] \in S
  BY <1>1, ElementOfSeq
<1>3. /\ rest \in Seq(S) /\ Len(rest) = Len(q) - k
      /\ \A i \in 1..(Len(q) - k) : rest[i] = q[k + i]
  <2>1. /\ rest \in Seq(S) /\ Len(rest) = IF k + 1 <= Len(q) THEN Len(q) - (k + 1) + 1 ELSE 0
        /\ \A i \in 1..(Len(q) - (k + 1) + 1) : rest[i] = q[(k + 1) + i - 1]
    BY <1>1, <1>2, SubSeqProperties
  <2>. QED
    BY <1>1, <2>1
<1>. HIDE DEF rest
<1>4. /\ n \o rest \in Seq(S) /\ Len(n \o rest) = Len(n) + Len(q) - k
      /\ \A i \in 1..(Len(n) + (Len(q) - k)) :
            (n \o rest)[i] = IF i <= Len(n) THEN n[i] ELSE rest[i - Len(n)]
  <2>1. /\ n \o rest \in Seq(S) /\ Len(n \o rest) = Len(n) + Len(rest)
        /\ \A i \in 1..(Len(n) + Len(rest)) :
              (n \o rest)[i] = IF i <= Len(n) THEN n[i] ELSE rest[i - Len(n)]
    BY <1>3, ConcatProperties
  <2>2. Len(n) + Len(rest) = Len(n) + (Len(q) - k) /\ Len(n) + (Len(q) - k) = Len(n) + Len(q) - k
    BY <1>1, <1>3
  <2>. QED
    BY <2>1, <2>2
<1>5. ASSUME NEW i \in 1..Len(n \o rest)
      PROVE  (n \o rest)[i] = IF i <= Len(n) THEN n[i] ELSE q[i - Len(n) + k]
  <2>1. i \in 1..(Len(n) + (Len(q) - k)) /\ i \in Int
    BY <1>1, <1>4
  <2>2. CASE i <= Len(n)
    BY <1>4, <2>1, <2>2
  <2>3. CASE ~ (i <= Len(n))
    <3>1. i - Len(n) \in 1..(Len(q) - k) /\ k + (i - Len(n)) = i - Len(n) + k
      BY <1>1, <2>1, <2>3
    <3>2. rest[i - Len(n)] = q[k + (i - Len(n))]
      BY <1>3, <3>1
    <3>. QED
      BY <1>4, <2>1, <2>3, <3>1, <3>2
  <2>. QED
    BY <2>2, <2>3
<1>6. n \o rest # <<>>
  BY <1>1, <1>4, EmptySeq
<1>7. Last(n \o rest) = Last(q)
  <2>1. Len(n \o rest) \in 1..Len(n \o rest) /\ ~ (Len(n \o rest) <= Len(n))
        /\ Len(n \o rest) - Len(n) + k = Len(q)
    BY <1>1, <1>4
  <2>. QED
    BY <1>5, <2>1 DEF Last
<1>. QED
  BY <1>4, <1>5, <1>6, <1>7 DEF rest

LEMMA AppendFacts ==
    ASSUME NEW S, NEW s \in Seq(S), NEW e \in S
    PROVE  /\ Append(s, e) \in Seq(S) /\ Append(s, e) # <<>> /\ Last(Append(s, e)) = e
           /\ Len(Append(s, e)) = Len(s) + 1
           /\ \A i \in 1..Len(s) : Append(s, e)[i] = s[i]
           /\ Range(Append(s, e)) = Range(s) \cup {e}
<1>1. /\ Append(s, e) \in Seq(S) /\ Append(s, e) # <<>>
      /\ Len(Append(s, e)) = Len(s) + 1
      /\ \A i \in 1..Len(s) : Append(s, e)[i] = s[i]
      /\ Append(s, e)[Len(s) + 1] = e
  BY AppendProperties
<1>2. Len(s) \in Nat /\ DOMAIN s = 1..Len(s) /\ DOMAIN Append(s, e) = 1..(Len(s) + 1)
  BY <1>1, LenProperties
<1>3. Range(Append(s, e)) = Range(s) \cup {e}
  BY <1>1, <1>2 DEF Range
<1>. QED
  BY <1>1, <1>2, <1>3 DEF Last

LEMMA SingleFacts ==
    ASSUME NEW S, NEW e \in S
    PROVE  /\ <<e>> \in Seq(S) /\ <<e>> # <<>> /\ Last(<<e>>) = e /\ Len(<<e>>) = 1
           /\ e \in Range(<<e>>)
<1>1. <<e>> \in Seq(S) /\ Len(<<e>>) = 1 /\ <<e>>[1] = e
  OBVIOUS
<1>. DEFINE s == <<e>>
<1>2. s \in Seq(S) /\ Len(s) = 1 /\ s[1] = e
  BY <1>1
<1>. HIDE DEF s
<1>3. DOMAIN s = 1..1 /\ s # <<>>
  BY <1>2, LenProperties, EmptySeq
<1>. QED
  BY <1>2, <1>3 DEF s, Last, Range

\* q is the path u, one account longer.
Extends(q, u, e) == q = Append(u, e)

\* Re-rooting a path and the path above it leaves the one below the other.
LEMMA RerootAppend ==
    ASSUME NEW S, NEW n \in Seq(S), NEW p \in Seq(S), NEW u \in Seq(S), NEW e \in S,
           NEW q \in Seq(S), Extends(q, u, e), IsPrefix(p, u)
    PROVE  /\ IsPrefix(p, q)
           /\ Extends(n \o SubSeq(q, Len(p) + 1, Len(q)), n \o SubSeq(u, Len(p) + 1, Len(u)), e)
<1>. DEFINE rest == SubSeq(u, Len(p) + 1, Len(u))
<1>1. /\ Len(p) \in Nat /\ Len(u) \in Nat /\ Len(n) \in Nat
      /\ Len(p) <= Len(u) /\ \A i \in 1..Len(p) : p[i] = u[i]
  BY LenProperties, PrefixElements
<1>2. q \in Seq(S) /\ Len(q) = Len(u) + 1 /\ (\A i \in 1..Len(u) : q[i] = u[i]) /\ q[Len(u) + 1] = e
  BY AppendProperties DEF Extends
<1>3. IsPrefix(p, q)
  BY <1>1, <1>2, PrefixElements
<1>4. /\ n \o rest \in Seq(S) /\ Len(n \o rest) = Len(n) + Len(u) - Len(p)
      /\ \A i \in 1..Len(n \o rest) : (n \o rest)[i] = IF i <= Len(n) THEN n[i] ELSE u[i - Len(n) + Len(p)]
  <2>1. CASE Len(p) < Len(u)
    BY <1>1, <2>1, RerootFacts
  <2>2. CASE Len(p) = Len(u)
    <3>1. rest = <<>>
      BY <1>1, <2>2, SubSeqEmpty
    <3>2. n \o rest = n
      BY <3>1, ConcatEmptySeq
    <3>. QED
      BY <1>1, <2>2, <3>2
  <2>. QED
    BY <1>1, <2>1, <2>2
<1>. HIDE DEF rest
<1>5. LET t == n \o SubSeq(q, Len(p) + 1, Len(q)) IN
      /\ t \in Seq(S) /\ Len(t) = Len(n) + Len(q) - Len(p)
      /\ \A i \in 1..Len(t) : t[i] = IF i <= Len(n) THEN n[i] ELSE q[i - Len(n) + Len(p)]
  BY <1>1, <1>2, RerootFacts
<1>. DEFINE t == n \o SubSeq(q, Len(p) + 1, Len(q))
            v == Append(n \o rest, e)
<1>6. /\ v \in Seq(S) /\ Len(v) = Len(n \o rest) + 1 /\ v[Len(n \o rest) + 1] = e
      /\ \A i \in 1..Len(n \o rest) : v[i] = (n \o rest)[i]
  BY <1>4, AppendProperties
<1>7. t \in Seq(S) /\ Len(t) = Len(n) + Len(q) - Len(p)
      /\ \A i \in 1..Len(t) : t[i] = IF i <= Len(n) THEN n[i] ELSE q[i - Len(n) + Len(p)]
  BY <1>5
<1>. HIDE DEF t, v
<1>8. Len(t) = Len(v) /\ \A i \in 1..Len(t) : t[i] = v[i]
  <2>1. Len(t) = Len(v) /\ Len(t) = Len(n \o rest) + 1 /\ Len(n \o rest) \in Nat
    BY <1>1, <1>2, <1>4, <1>6, <1>7
  <2>2. ASSUME NEW i \in 1..Len(t) PROVE t[i] = v[i]
    <3>1. CASE i = Len(t)
      <4>1. ~ (i <= Len(n)) /\ i - Len(n) + Len(p) = Len(u) + 1
        BY <1>1, <1>2, <1>7, <3>1
      <4>. QED
        BY <1>2, <1>6, <1>7, <2>1, <3>1, <4>1
    <3>2. CASE i # Len(t)
      <4>1. i \in 1..Len(n \o rest)
        <5>. DEFINE k == Len(n \o rest)
        <5>1. i \in 1..(k + 1) /\ i # k + 1 /\ k \in Nat
          BY <2>1, <3>2
        <5>. HIDE DEF k
        <5>2. i \in 1..k
          BY <5>1
        <5>. QED
          BY <5>2 DEF k
      <4>2. v[i] = IF i <= Len(n) THEN n[i] ELSE u[i - Len(n) + Len(p)]
        BY <1>4, <1>6, <4>1
      <4>3. ~ (i <= Len(n)) => i - Len(n) + Len(p) \in 1..Len(u)
        BY <1>1, <1>4, <4>1
      <4>. QED
        BY <1>2, <1>7, <4>2, <4>3
    <3>. QED
      BY <3>1, <3>2
  <2>. QED
    BY <2>1, <2>2
<1>9. t = v
  BY <1>6, <1>7, <1>8, SeqEqual
<1>. QED
  BY <1>3, <1>9 DEF t, v, rest, Extends

\* A path that goes through p and ends below it has p above its end too.
LEMMA PrefixOfFront ==
    ASSUME NEW S, NEW p \in Seq(S), NEW u \in Seq(S), NEW e \in S,
           IsPrefix(p, Append(u, e)), p # <<>>, Last(p) # e
    PROVE  IsPrefix(p, u)
<1>1. Len(p) \in Nat \ {0} /\ Len(u) \in Nat
  BY LenProperties, EmptySeq
<1>2. /\ Append(u, e) \in Seq(S) /\ Len(Append(u, e)) = Len(u) + 1
      /\ (\A i \in 1..Len(u) : Append(u, e)[i] = u[i]) /\ Append(u, e)[Len(u) + 1] = e
  BY AppendProperties DEF Extends
<1>3. Len(p) <= Len(u) + 1 /\ \A i \in 1..Len(p) : p[i] = Append(u, e)[i]
  <2>. DEFINE q == Append(u, e)
  <2>1. q \in Seq(S) /\ IsPrefix(p, q)
    BY <1>2
  <2>. HIDE DEF q
  <2>2. Len(p) <= Len(q) /\ \A i \in 1..Len(p) : p[i] = q[i]
    BY <2>1, PrefixElements
  <2>. QED
    BY <1>2, <2>2 DEF q
<1>4. Len(p) # Len(u) + 1
  BY <1>1, <1>2, <1>3 DEF Last
<1>5. Len(p) <= Len(u) /\ \A i \in 1..Len(p) : p[i] = u[i]
  BY <1>1, <1>2, <1>3, <1>4
<1>. QED
  BY <1>5, PrefixElements

-----------------------------------------------------------------------------
(* Jobs and rows *)

LEMMA JobTypes ==
    ASSUME NEW j \in Jobs
    PROVE  /\ j.op \in {"create", "update", "delete"}
           /\ j.account \in Accounts
           /\ j.op = "create" => j.parent \in Accounts \cup {None} /\ j.nature \in Natures
           /\ j.op = "update" => /\ j.parent \in Accounts \cup {None, Same}
                                 /\ j.nature \in Natures \cup {Same}
<1>1. j \in CreateJob \/ j \in UpdateJob \/ j \in DeleteJob
  BY JobsAssumption
<1>. QED
  BY <1>1 DEF CreateJob, UpdateJob, DeleteJob

LEMMA NoneFacts == None \notin Requests /\ None \notin Accounts /\ None \notin Row /\ Same \notin Natures
                   /\ Same \notin Accounts /\ Same # None
BY NamesAssumption

LEMMA RowFields ==
    ASSUME NEW node \in Row
    PROVE  /\ node.parent \in Accounts \cup {None} /\ node.path \in Seq(Accounts)
           /\ node.level \in Int /\ node.nature \in Natures /\ node.live \in BOOLEAN
           /\ node # None
BY NoneFacts DEF Row

LEMMA SoundFacts ==
    ASSUME NEW node, NEW a, Sound(node, a)
    PROVE  /\ node \in Row /\ node.path \in Seq(Accounts) /\ node.path # <<>>
           /\ Len(node.path) \in Nat \ {0} /\ a \in Range(node.path)
           /\ Last(node.path) = a /\ node.level = Len(node.path) - 1
<1>1. node \in Row /\ node.path \in Seq(Accounts) /\ node.path # <<>>
  BY RowFields DEF Sound
<1>2. Len(node.path) \in Nat \ {0} /\ DOMAIN node.path = 1..Len(node.path)
  BY <1>1, LenProperties, EmptySeq
<1>3. node.path[Len(node.path)] = a
  BY DEF Sound, Last
<1>4. a \in Range(node.path)
  BY <1>2, <1>3 DEF Range
<1>. QED
  BY <1>1, <1>2, <1>4 DEF Sound

\* Where a request puts its account is a path that ends there, through the new parent.
LEMMA NewPathFacts ==
    ASSUME NEW r \in Requests, Account(r) \in Accounts, TargetSound(r)
    PROVE  /\ NewPath(r) \in Seq(Accounts) /\ NewPath(r) # <<>>
           /\ Last(NewPath(r)) = Account(r)
           /\ Len(NewPath(r)) \in Nat /\ NewLevel(r) = Len(NewPath(r)) - 1
           /\ Account(r) \in Range(NewPath(r))
           /\ job[r].parent = None => NewPath(r) = <<Account(r)>>
           /\ job[r].parent # None =>
                 /\ NewPath(r) = Append(target[r].path, Account(r))
                 /\ job[r].parent \in Range(NewPath(r))
<1>1. CASE job[r].parent = None
  <2>1. target[r] = None
    BY <1>1 DEF TargetSound
  <2>2. <<>> \in Seq(Accounts) /\ Len(<<>>) = 0
    BY EmptySeq
  <2>3. NewPath(r) = Append(<<>>, Account(r)) /\ NewLevel(r) = 0
    BY <2>1 DEF NewPath, NewLevel
  <2>4. NewPath(r) = <<Account(r)>>
    BY <2>3
  <2>5. /\ NewPath(r) \in Seq(Accounts) /\ NewPath(r) # <<>>
        /\ Last(NewPath(r)) = Account(r)
        /\ Len(NewPath(r)) = 1 /\ Account(r) \in Range(NewPath(r))
    BY <2>4, SingleFacts
  <2>. QED
    BY <1>1, <2>3, <2>4, <2>5
<1>2. CASE job[r].parent # None
  <2>1. Sound(target[r], job[r].parent)
    BY <1>2 DEF TargetSound
  <2>2. /\ target[r] \in Row /\ target[r] # None /\ target[r].path \in Seq(Accounts)
        /\ Len(target[r].path) \in Nat \ {0} /\ job[r].parent \in Range(target[r].path)
        /\ target[r].level = Len(target[r].path) - 1
    BY <2>1, SoundFacts, RowFields
  <2>3. NewPath(r) = Append(target[r].path, Account(r)) /\ NewLevel(r) = target[r].level + 1
    BY <2>2 DEF NewPath, NewLevel
  <2>4. /\ NewPath(r) \in Seq(Accounts) /\ NewPath(r) # <<>>
        /\ Last(NewPath(r)) = Account(r)
        /\ Len(NewPath(r)) = Len(target[r].path) + 1
        /\ Range(NewPath(r)) = Range(target[r].path) \cup {Account(r)}
    BY <2>2, <2>3, AppendFacts
  <2>. QED
    BY <1>2, <2>2, <2>3, <2>4
<1>. QED
  BY <1>1, <1>2

\* A re-rooted row is still the row of its account.
LEMMA RerootedFacts ==
    ASSUME NEW r \in Requests, Account(r) \in Accounts, TargetSound(r), Sound(card[r], Account(r)),
           NEW x, NEW node, Sound(node, x), x # Account(r), IsPrefix(card[r].path, node.path)
    PROVE  /\ Sound(Rerooted(r, node), x)
           /\ Rerooted(r, node).parent = node.parent
           /\ Rerooted(r, node).nature = node.nature
           /\ Rerooted(r, node).live = node.live
           /\ Rerooted(r, node).path =
                 NewPath(r) \o SubSeq(node.path, Len(card[r].path) + 1, Len(node.path))
<1>1. /\ card[r].path \in Seq(Accounts) /\ card[r].path # <<>>
      /\ Len(card[r].path) \in Nat \ {0} /\ Last(card[r].path) = Account(r)
      /\ card[r].level = Len(card[r].path) - 1
  BY SoundFacts
<1>2. /\ node \in Row /\ node.path \in Seq(Accounts)
      /\ Len(node.path) \in Nat \ {0} /\ Last(node.path) = x
      /\ node.level = Len(node.path) - 1
  BY SoundFacts
<1>3. Len(card[r].path) < Len(node.path)
  BY <1>1, <1>2, BelowIsLonger
<1>4. NewPath(r) \in Seq(Accounts) /\ Len(NewPath(r)) \in Nat /\ NewLevel(r) = Len(NewPath(r)) - 1
  BY NewPathFacts
<1>. DEFINE t == NewPath(r) \o SubSeq(node.path, Len(card[r].path) + 1, Len(node.path))
<1>5. /\ t \in Seq(Accounts) /\ t # <<>> /\ Last(t) = x
      /\ Len(t) = Len(NewPath(r)) + Len(node.path) - Len(card[r].path)
  <2>. DEFINE k == Len(card[r].path)
              q == node.path
              n == NewPath(r)
  <2>1. n \in Seq(Accounts) /\ q \in Seq(Accounts) /\ k \in Nat /\ k < Len(q) /\ Last(q) = x
    BY <1>1, <1>2, <1>3, <1>4
  <2>. HIDE DEF k, q, n
  <2>2. LET v == n \o SubSeq(q, k + 1, Len(q)) IN
        v \in Seq(Accounts) /\ v # <<>> /\ Len(v) = Len(n) + Len(q) - k /\ Last(v) = Last(q)
    BY <2>1, RerootFacts
  <2>. QED
    BY <2>1, <2>2 DEF k, q, n
<1>6. /\ Rerooted(r, node).path = t
      /\ Rerooted(r, node).level = node.level + (NewLevel(r) - card[r].level)
      /\ Rerooted(r, node).parent = node.parent
      /\ Rerooted(r, node).nature = node.nature
      /\ Rerooted(r, node).live = node.live
  BY <1>2 DEF Rerooted, Row, DepthShift
<1>. HIDE DEF t
<1>7. Rerooted(r, node).level = Len(t) - 1 /\ Len(t) \in Nat
  BY <1>1, <1>2, <1>4, <1>5, <1>6
<1>8. Rerooted(r, node) \in Row
  <2>1. Rerooted(r, node) = [node EXCEPT !.path = t, !.level = node.level + DepthShift(r)]
    BY <1>2 DEF Rerooted, Row, t
  <2>2. node.level + DepthShift(r) \in Int
    BY <1>1, <1>2, <1>4 DEF DepthShift
  <2>. QED
    BY <1>2, <1>5, <2>1, <2>2 DEF Row
<1>. QED
  BY <1>5, <1>6, <1>7, <1>8 DEF Sound, t

\* What a request writes over its own account.
LEMMA CardFacts ==
    ASSUME TypeOK, NEW r \in Requests, pc[r] \in {"ready", "written"}, JobInv(r),
           \A a \in Accounts : Exists(a) => Sound(chart[a], a)
    PROVE  /\ Sound(Card(r), Account(r))
           /\ job[r].op = "create" =>
                 Card(r).parent = job[r].parent /\ Card(r).path = NewPath(r) /\ Card(r).live
           /\ job[r].op = "delete" =>
                 Card(r).nature = chart[Account(r)].nature /\ ~ Card(r).live
           /\ job[r].op = "update" =>
                 /\ Card(r).live = chart[Account(r)].live
                 /\ ~ ChangesIdentity(r) => Card(r).nature = card[r].nature
           /\ Reparents(r) => Card(r).parent = job[r].parent /\ Card(r).path = NewPath(r)
           /\ job[r].op = "update" /\ ~ Reparents(r) =>
                 Card(r).parent = card[r].parent /\ Card(r).path = card[r].path
<1>. DEFINE a == Account(r)
<1>1. job[r] \in Jobs /\ a \in Accounts /\ job[r].op \in {"create", "update", "delete"}
  BY JobTypes DEF JobInv, Account
<1>2. CASE job[r].op = "create"
  <2>1. /\ job[r].parent \in Accounts \cup {None} /\ job[r].nature \in Natures
        /\ TargetSound(r)
    BY <1>1, <1>2, JobTypes DEF JobInv
  <2>2. /\ NewPath(r) \in Seq(Accounts) /\ NewPath(r) # <<>> /\ Last(NewPath(r)) = a
        /\ Len(NewPath(r)) \in Nat /\ NewLevel(r) = Len(NewPath(r)) - 1
    BY <1>1, <2>1, NewPathFacts
  <2>3. Card(r) = [parent |-> job[r].parent, path |-> NewPath(r), level |-> NewLevel(r),
                   nature |-> job[r].nature, live |-> TRUE]
    BY <1>2 DEF Card, Reparents
  <2>. QED
    BY <1>2, <2>1, <2>2, <2>3 DEF Sound, Row, Reparents
<1>3. CASE job[r].op = "delete"
  <2>1. Exists(a) /\ Sound(chart[a], a)
    BY <1>1, <1>3 DEF JobInv
  <2>2. Card(r) = [chart[a] EXCEPT !.live = FALSE]
    BY <1>3 DEF Card, Reparents
  <2>. QED
    BY <1>3, <2>1, <2>2 DEF Sound, Row, Reparents
<1>4. CASE job[r].op = "update"
  <2>1. /\ Exists(a) /\ Sound(chart[a], a) /\ Sound(card[r], a)
        /\ chart[a].live \in BOOLEAN /\ card[r].nature \in Natures
        /\ job[r].parent \in Accounts \cup {None, Same} /\ job[r].nature \in Natures \cup {Same}
    BY <1>1, <1>4, JobTypes, RowFields DEF JobInv, Sound
  <2>. DEFINE n == IF job[r].nature = Same THEN card[r].nature ELSE job[r].nature
  <2>2. n \in Natures /\ (~ ChangesIdentity(r) => n = card[r].nature)
    BY <2>1 DEF ChangesIdentity
  <2>3. CASE Reparents(r)
    <3>1. TargetSound(r) /\ job[r].parent \in Accounts \cup {None}
      BY <1>4, <2>1, <2>3 DEF JobInv, Reparents
    <3>2. /\ NewPath(r) \in Seq(Accounts) /\ NewPath(r) # <<>> /\ Last(NewPath(r)) = a
          /\ Len(NewPath(r)) \in Nat /\ NewLevel(r) = Len(NewPath(r)) - 1
      BY <1>1, <3>1, NewPathFacts
    <3>3. Card(r) = [parent |-> job[r].parent, path |-> NewPath(r), level |-> NewLevel(r),
                     nature |-> n, live |-> chart[a].live]
      BY <1>4, <2>3 DEF Card
    <3>. HIDE DEF n
    <3>. QED
      BY <1>4, <2>1, <2>2, <2>3, <3>1, <3>2, <3>3 DEF Sound, Row
  <2>4. CASE ~ Reparents(r)
    <3>1. Card(r) = [card[r] EXCEPT !.nature = n, !.live = chart[a].live]
      BY <1>4, <2>1, <2>4 DEF Card, Sound, Row
    <3>. HIDE DEF n
    <3>. QED
      BY <1>4, <2>1, <2>2, <2>4, <3>1 DEF Sound, Row
  <2>. QED
    BY <2>3, <2>4
<1>. QED
  BY <1>1, <1>2, <1>3, <1>4

-----------------------------------------------------------------------------
(* Steps that leave the committed rows alone *)

\* What a step has to leave of a request it is not of.
SameRequest(u) ==
    /\ pc'[u] = pc[u] /\ job'[u] = job[u] /\ card'[u] = card[u]
    /\ target'[u] = target[u] /\ branch'[u] = branch[u] /\ draft'[u] = draft[u]
    /\ \A x \in Accounts : lock[x] = u => lock'[x] = u
    /\ u \in overtaken => u \in overtaken'

LEMMA OtherKeeps ==
    ASSUME NEW u \in Requests, RequestInv(u), SameRequest(u), chart' = chart, torn' = torn,
           pc[u] # "idle" /\ Account(u) \in posted' => Account(u) \in posted \/ u \in overtaken'
    PROVE  RequestInv(u)'
<1>1. JobInv(u)'
  BY DEF RequestInv, SameRequest, JobInv, Account, Exists, TargetSound, NotBelow, Reparents, Sound
<1>2. DraftInv(u)'
  <2>1. /\ Card(u)' = Card(u) /\ Account(u)' = Account(u) /\ Reparents(u)' = Reparents(u)
        /\ CardDraft(u)' = CardDraft(u)
    BY DEF SameRequest, Card, Account, NewPath, NewLevel, Reparents, CardDraft
  <2>2. \A x \in Accounts : BranchDraft(u, x)' = BranchDraft(u, x)
    BY <2>1 DEF SameRequest, BranchDraft, Within, Exists, Rerooted, NewPath, NewLevel, DepthShift, Account
  <2>. QED
    BY <2>1, <2>2 DEF RequestInv, SameRequest, DraftInv
<1>3. KnowInv(u)'
  BY DEF RequestInv, SameRequest, KnowInv, Knows, KnowsCard, KnowsTarget, KnowsBranch, KnowsLeaf,
         Account, Exists, Live, Within, Reparents, ChangesIdentity
<1>. QED
  BY <1>1, <1>2, <1>3 DEF RequestInv

LEMMA LocalStep ==
    ASSUME IInv, NEW r \in Requests, TypeOK', chart' = chart, posted' = posted, torn' = torn,
           \A u \in Requests \ {r} : SameRequest(u),
           RequestInv(r)', IdsAreNew'
    PROVE  IInv'
<1>1. ASSUME NEW u \in Requests PROVE RequestInv(u)'
  BY <1>1, OtherKeeps DEF IInv
<1>2. ChartInv'
  BY DEF IInv, ChartInv, Exists, Live, PathsTellParents, Sound
<1>. QED
  BY <1>1, <1>2 DEF IInv

\* Ids stay new while no request begins.
LEMMA IdsStayNew ==
    ASSUME IdsAreNew, \A v \in Requests : pc'[v] # "idle" => pc[v] # "idle" /\ job'[v] = job[v]
    PROVE  IdsAreNew'
BY DEF IdsAreNew, Account

LEMMA InitInv == Init => IInv
<1>. SUFFICES ASSUME Init PROVE IInv
  OBVIOUS
<1>1. ASSUME NEW a \in Accounts, FirstChart[a] # None
      PROVE  /\ FirstChart[a] \in Row /\ FirstChart[a].live /\ Sound(FirstChart[a], a)
             /\ FirstChart[a].parent = None => FirstChart[a].path = <<a>>
             /\ FirstChart[a].parent # None =>
                   /\ FirstChart[a].parent \in Accounts
                   /\ FirstChart[FirstChart[a].parent] # None
                   /\ FirstChart[a].path = Append(FirstChart[FirstChart[a].parent].path, a)
  <2>. DEFINE node == FirstChart[a]
              above == IF node.parent = None THEN <<>> ELSE FirstChart[node.parent].path
  <2>1. node \in Row /\ node.path = Append(above, a) /\ node.level = Len(above) /\ node.live
        /\ (node.parent # None => FirstChart[node.parent] # None)
    BY <1>1, ChartAssumption
  <2>2. node.parent \in Accounts \cup {None}
    BY <2>1, RowFields
  <2>3. CASE node.parent = None
    <3>1. node.path = <<a>> /\ node.level = 0
      BY <2>1, <2>3
    <3>. QED
      BY <2>1, <2>3, <3>1, SingleFacts DEF Sound
  <2>4. CASE node.parent # None
    <3>1. FirstChart[node.parent] \in Row /\ FirstChart[node.parent] # None
      BY <2>1, <2>2, <2>4, ChartAssumption
    <3>2. above \in Seq(Accounts) /\ above = FirstChart[node.parent].path
      BY <2>4, <3>1, RowFields
    <3>. HIDE DEF above
    <3>3. /\ Append(above, a) # <<>> /\ Last(Append(above, a)) = a
          /\ Len(Append(above, a)) = Len(above) + 1 /\ Len(above) \in Nat
      BY <3>2, AppendFacts, LenProperties
    <3>4. Sound(node, a)
      BY <2>1, <3>3 DEF Sound
    <3>. QED
      BY <2>1, <2>2, <2>4, <3>1, <3>2, <3>4
  <2>. QED
    BY <2>3, <2>4
<1>2. TypeOK
  <2>1. 0 \in 0..MaxRequests
    BY NamesAssumption
  <2>2. chart \in [Accounts -> Row \cup {None}]
    BY ChartAssumption DEF Init
  <2>3. draft \in [Requests -> [Accounts -> Row \cup {None}]]
    BY DEF Init, NoDraft
  <2>. QED
    BY <2>1, <2>2, <2>3 DEF Init, TypeOK
<1>3. \A r \in Requests : RequestInv(r)
  BY DEF Init, RequestInv, JobInv, DraftInv, KnowInv, NoDraft
<1>4. IdsAreNew
  BY DEF Init, IdsAreNew
<1>5. ChartInv
  BY <1>1 DEF Init, ChartInv, Exists, Live, PathsTellParents
<1>. QED
  BY <1>2, <1>3, <1>4, <1>5 DEF IInv

LEMMA BeginCreateStep ==
    ASSUME IInv, NEW r \in Requests, NEW j \in Jobs, BeginCreate(r, j)
    PROVE  IInv'
<1>1. /\ TypeOK /\ IdsAreNew /\ ChartInv /\ RequestInv(r)
      /\ j.account \in Accounts /\ j.parent \in Accounts \cup {None} /\ j.op = "create"
  BY JobTypes DEF IInv, BeginCreate
<1>2. /\ pc[r] = "idle" /\ pc'[r] = "ready" /\ job'[r] = j /\ draft'[r] = draft[r]
      /\ lock' = lock /\ chart' = chart /\ posted' = posted /\ overtaken' = overtaken /\ torn' = torn
      /\ target'[r] = IF j.parent = None THEN None ELSE chart[j.parent]
      /\ ~ Exists(j.account) /\ (j.parent # None => Live(j.parent))
      /\ \A u \in Requests : pc[u] # "idle" => Account(u) # j.account
  BY <1>1 DEF TypeOK, BeginCreate, Begin, history
<1>3. \A u \in Requests \ {r} : SameRequest(u)
  BY <1>1 DEF TypeOK, BeginCreate, Begin, history, SameRequest
<1>4. TypeOK'
  <2>1. started' \in 0..MaxRequests
    BY <1>1, NamesAssumption DEF TypeOK, BeginCreate, Begin
  <2>2. target'[r] \in Row \cup {None}
    BY <1>1, <1>2 DEF TypeOK
  <2>. QED
    BY <1>1, <1>2, <2>1, <2>2 DEF TypeOK, BeginCreate, Begin, history
<1>5. IdsAreNew'
  <2>1. \A v \in Requests \ {r} : pc'[v] = pc[v] /\ Account(v)' = Account(v) /\ job'[v] = job[v]
    BY <1>3 DEF SameRequest, Account
  <2>2. Account(r)' = j.account
    BY <1>2 DEF Account
  <2>. QED
    BY <1>1, <1>2, <2>1, <2>2 DEF IdsAreNew
<1>6. RequestInv(r)'
  <2>1. Account(r)' = j.account /\ ~ Reparents(r)'
    BY <1>1, <1>2 DEF Account, Reparents
  <2>2. TargetSound(r)'
    BY <1>1, <1>2 DEF TargetSound, ChartInv, Live, Sound
  <2>3. JobInv(r)'
    BY <1>1, <1>2, <2>1, <2>2 DEF JobInv, Exists
  <2>4. \A x \in Accounts : draft[r][x] = None
    BY <1>1, <1>2 DEF RequestInv, DraftInv, CardDraft, BranchDraft
  <2>5. DraftInv(r)'
    BY <1>2, <2>4 DEF DraftInv
  <2>6. KnowInv(r)'
    BY <1>1, <1>2, <2>1 DEF KnowInv, Knows, KnowsCard, KnowsTarget, KnowsBranch, KnowsLeaf, Live, Exists
  <2>. QED
    BY <2>3, <2>5, <2>6 DEF RequestInv
<1>. QED
  BY <1>2, <1>3, <1>4, <1>5, <1>6, LocalStep

LEMMA LoadStep ==
    ASSUME IInv, NEW r \in Requests, NEW j \in Jobs, Load(r, j)
    PROVE  IInv'
<1>1. /\ TypeOK /\ IdsAreNew /\ ChartInv /\ RequestInv(r)
      /\ j.account \in Accounts /\ j.op \in {"update", "delete"}
  BY JobTypes DEF IInv, Load
<1>2. /\ pc[r] = "idle" /\ pc'[r] = "read" /\ job'[r] = j /\ draft'[r] = draft[r]
      /\ lock' = lock /\ chart' = chart /\ posted' = posted /\ overtaken' = overtaken /\ torn' = torn
      /\ card'[r] = chart[j.account] /\ Live(j.account)
  BY <1>1 DEF TypeOK, Load, Begin, history
<1>3. \A u \in Requests \ {r} : SameRequest(u)
  BY <1>1 DEF TypeOK, Load, Begin, history, SameRequest
<1>4. TypeOK'
  <2>1. started' \in 0..MaxRequests
    BY <1>1, NamesAssumption DEF TypeOK, Load, Begin
  <2>2. card'[r] \in Row \cup {None}
    BY <1>1, <1>2 DEF TypeOK
  <2>. QED
    BY <1>1, <1>2, <2>1, <2>2 DEF TypeOK, Load, Begin, history
<1>5. IdsAreNew'
  <2>1. \A v \in Requests \ {r} : pc'[v] = pc[v] /\ Account(v)' = Account(v) /\ job'[v] = job[v]
    BY <1>3 DEF SameRequest, Account
  <2>2. Account(r)' = j.account /\ Exists(j.account)
    BY <1>2 DEF Account, Live
  <2>3. \A v \in Requests : pc[v] # "idle" /\ job[v].op = "create" => ~ Exists(Account(v))
    BY DEF IInv, RequestInv, JobInv
  <2>. QED
    BY <1>1, <1>2, <2>1, <2>2, <2>3 DEF IdsAreNew
<1>6. RequestInv(r)'
  <2>1. Account(r)' = j.account
    BY <1>2 DEF Account
  <2>2. JobInv(r)'
    BY <1>1, <1>2, <2>1 DEF JobInv, ChartInv, Live, Exists, Sound
  <2>3. \A x \in Accounts : draft[r][x] = None
    BY <1>1, <1>2 DEF RequestInv, DraftInv, CardDraft, BranchDraft
  <2>4. DraftInv(r)'
    BY <1>2, <2>3 DEF DraftInv
  <2>5. KnowInv(r)'
    BY <1>1, <1>2, <2>1 DEF KnowInv, Knows, KnowsCard, KnowsTarget, KnowsBranch, KnowsLeaf, Live, Exists
  <2>. QED
    BY <2>2, <2>4, <2>5 DEF RequestInv
<1>. QED
  BY <1>2, <1>3, <1>4, <1>5, <1>6, LocalStep

LEMMA CheckLinesStep ==
    ASSUME IInv, NEW r \in Requests, CheckLines(r)
    PROVE  IInv'
<1>1. TypeOK /\ IdsAreNew /\ RequestInv(r)
  BY DEF IInv
<1>2. /\ pc[r] = "read" /\ (Account(r) \in posted => job[r].op = "update" /\ ~ ChangesIdentity(r))
      /\ pc'[r] = IF job[r].op = "delete" \/ Reparents(r) THEN "checked" ELSE "ready"
      /\ lock' = lock /\ chart' = chart /\ posted' = posted /\ overtaken' = overtaken /\ torn' = torn
      /\ job' = job /\ card' = card /\ target' = target /\ branch' = branch /\ draft' = draft
  BY <1>1 DEF TypeOK, CheckLines, request, history
<1>3. \A u \in Requests \ {r} : SameRequest(u)
  BY <1>1, <1>2 DEF TypeOK, CheckLines, SameRequest
<1>4. TypeOK'
  BY <1>1 DEF TypeOK, CheckLines, request, history
<1>5. IdsAreNew'
  BY <1>1, <1>2, <1>3, IdsStayNew DEF SameRequest
<1>6. RequestInv(r)'
  <2>1. Account(r)' = Account(r) /\ Reparents(r)' = Reparents(r) /\ ChangesIdentity(r)' = ChangesIdentity(r)
    BY <1>2 DEF Account, Reparents, ChangesIdentity
  <2>2. job[r].op \in {"create", "update", "delete"}
    BY <1>1, <1>2, JobTypes DEF RequestInv, JobInv
  <2>3. JobInv(r)'
    BY <1>1, <1>2, <2>1, <2>2 DEF RequestInv, JobInv, Exists, Sound
  <2>4. \A x \in Accounts : draft[r][x] = None
    BY <1>1, <1>2 DEF RequestInv, DraftInv, CardDraft, BranchDraft
  <2>5. DraftInv(r)'
    BY <1>2, <2>4 DEF DraftInv
  <2>6. KnowInv(r)'
    BY <1>1, <1>2, <2>1, <2>2
       DEF RequestInv, JobInv, KnowInv, Knows, KnowsCard, KnowsTarget, KnowsBranch, KnowsLeaf, Live, Exists
  <2>. QED
    BY <2>3, <2>5, <2>6 DEF RequestInv
<1>. QED
  BY <1>2, <1>3, <1>4, <1>5, <1>6, LocalStep

LEMMA CheckChildrenStep ==
    ASSUME IInv, NEW r \in Requests, CheckChildren(r)
    PROVE  IInv'
<1>1. TypeOK /\ IdsAreNew /\ RequestInv(r)
  BY DEF IInv
<1>2. /\ pc[r] = "checked" /\ pc'[r] = "ready" /\ job[r].op = "delete" /\ ~ Reparents(r)
      /\ \A a \in Accounts : Live(a) => chart[a].parent # Account(r)
      /\ lock' = lock /\ chart' = chart /\ posted' = posted /\ overtaken' = overtaken /\ torn' = torn
      /\ job' = job /\ card' = card /\ target' = target /\ branch' = branch /\ draft' = draft
  BY <1>1 DEF TypeOK, CheckChildren, request, history, Reparents
<1>3. \A u \in Requests \ {r} : SameRequest(u)
  BY <1>1, <1>2 DEF TypeOK, CheckChildren, SameRequest
<1>4. TypeOK'
  BY <1>1 DEF TypeOK, CheckChildren, request, history
<1>5. IdsAreNew'
  BY <1>1, <1>2, <1>3, IdsStayNew DEF SameRequest
<1>6. RequestInv(r)'
  <2>1. Account(r)' = Account(r) /\ Reparents(r)' = Reparents(r) /\ ChangesIdentity(r)' = ChangesIdentity(r)
    BY <1>2 DEF Account, Reparents, ChangesIdentity
  <2>2. JobInv(r)'
    BY <1>1, <1>2, <2>1 DEF RequestInv, JobInv, Exists, Sound
  <2>3. \A x \in Accounts : draft[r][x] = None
    BY <1>1, <1>2 DEF RequestInv, DraftInv, CardDraft, BranchDraft
  <2>4. DraftInv(r)'
    BY <1>2, <2>3 DEF DraftInv
  <2>5. KnowInv(r)'
    BY <1>1, <1>2, <2>1
       DEF RequestInv, KnowInv, Knows, KnowsCard, KnowsTarget, KnowsBranch, KnowsLeaf, Live, Exists
  <2>. QED
    BY <2>2, <2>4, <2>5 DEF RequestInv
<1>. QED
  BY <1>2, <1>3, <1>4, <1>5, <1>6, LocalStep

LEMMA ReadParentStep ==
    ASSUME IInv, NEW r \in Requests, ReadParent(r)
    PROVE  IInv'
<1>1. TypeOK /\ IdsAreNew /\ RequestInv(r) /\ ChartInv
  BY DEF IInv
<1>. DEFINE p == job[r].parent
<1>2. /\ pc[r] = "checked" /\ pc'[r] = "aimed" /\ Reparents(r)
      /\ p # None => Live(p) /\ ~ Cyclic(r, chart[p])
      /\ target' = [target EXCEPT ![r] = IF p = None THEN None ELSE chart[p]]
      /\ lock' = lock /\ chart' = chart /\ posted' = posted /\ overtaken' = overtaken /\ torn' = torn
      /\ job' = job /\ card' = card /\ branch' = branch /\ draft' = draft
  BY <1>1 DEF TypeOK, ReadParent, history
<1>3. job[r] \in Jobs /\ job[r].op = "update" /\ p \in Accounts \cup {None}
  BY <1>1, <1>2, JobTypes DEF RequestInv, JobInv, Reparents
<1>4. target'[r] = IF p = None THEN None ELSE chart[p]
  BY <1>1, <1>2 DEF TypeOK
<1>5. \A u \in Requests \ {r} : SameRequest(u)
  BY <1>1, <1>2 DEF TypeOK, ReadParent, SameRequest
<1>6. TypeOK'
  <2>1. (IF p = None THEN None ELSE chart[p]) \in Row \cup {None}
    BY <1>1, <1>3 DEF TypeOK
  <2>. QED
    BY <1>1, <2>1 DEF TypeOK, ReadParent, history
<1>7. IdsAreNew'
  BY <1>1, <1>2, <1>5, IdsStayNew DEF SameRequest
<1>8. RequestInv(r)'
  <2>1. Account(r)' = Account(r) /\ Reparents(r)' = Reparents(r) /\ ChangesIdentity(r)' = ChangesIdentity(r)
    BY <1>2 DEF Account, Reparents, ChangesIdentity
  <2>2. TargetSound(r)' /\ NotBelow(r)'
    BY <1>1, <1>2, <1>3, <1>4, <2>1 DEF TargetSound, NotBelow, ChartInv, Live, Sound, Cyclic
  <2>3. JobInv(r)'
    BY <1>1, <1>2, <1>3, <2>1, <2>2 DEF RequestInv, JobInv, Exists, Sound
  <2>4. \A x \in Accounts : draft[r][x] = None
    BY <1>1, <1>2 DEF RequestInv, DraftInv, CardDraft, BranchDraft
  <2>5. DraftInv(r)'
    BY <1>2, <2>4 DEF DraftInv
  <2>6. KnowInv(r)'
    BY <1>1, <1>2, <1>3, <1>4, <2>1
       DEF RequestInv, KnowInv, Knows, KnowsCard, KnowsTarget, KnowsBranch, KnowsLeaf, Live, Exists
  <2>. QED
    BY <2>3, <2>5, <2>6 DEF RequestInv
<1>. QED
  BY <1>2, <1>5, <1>6, <1>7, <1>8, LocalStep

LEMMA FindBranchStep ==
    ASSUME IInv, NEW r \in Requests, FindBranch(r)
    PROVE  IInv'
<1>1. TypeOK /\ IdsAreNew /\ RequestInv(r)
  BY DEF IInv
<1>2. /\ pc[r] = "aimed" /\ pc'[r] = "found"
      /\ branch'[r] = {a \in Accounts \ {Account(r)} : Within(a, card[r].path)}
      /\ lock' = lock /\ chart' = chart /\ posted' = posted /\ overtaken' = overtaken /\ torn' = torn
      /\ job' = job /\ card' = card /\ target' = target /\ draft' = draft
  BY <1>1 DEF TypeOK, FindBranch, history
<1>3. \A u \in Requests \ {r} : SameRequest(u)
  BY <1>1, <1>2 DEF TypeOK, FindBranch, SameRequest
<1>4. TypeOK'
  BY <1>1 DEF TypeOK, FindBranch, history
<1>5. IdsAreNew'
  BY <1>1, <1>2, <1>3, IdsStayNew DEF SameRequest
<1>6. RequestInv(r)'
  <2>1. /\ Account(r)' = Account(r) /\ Reparents(r)' = Reparents(r)
        /\ ChangesIdentity(r)' = ChangesIdentity(r)
        /\ TargetSound(r)' = TargetSound(r) /\ NotBelow(r)' = NotBelow(r)
        /\ \A x \in Accounts : Within(x, card[r].path)' = Within(x, card[r].path)
    BY <1>2 DEF Account, Reparents, ChangesIdentity, TargetSound, Sound, NotBelow, Within, Exists
  <2>2. JobInv(r)'
    BY <1>1, <1>2, <2>1 DEF RequestInv, JobInv, Exists, Sound
  <2>3. \A x \in Accounts : draft[r][x] = None
    BY <1>1, <1>2 DEF RequestInv, DraftInv, CardDraft, BranchDraft
  <2>4. DraftInv(r)'
    BY <1>2, <2>3 DEF DraftInv
  <2>5. KnowsBranch(r)'
    BY <1>2, <2>1 DEF KnowsBranch
  <2>6. KnowInv(r)'
    BY <1>1, <1>2, <2>1, <2>5
       DEF RequestInv, KnowInv, Knows, KnowsCard, KnowsTarget, KnowsLeaf, Live, Exists
  <2>. QED
    BY <2>2, <2>4, <2>6 DEF RequestInv
<1>. QED
  BY <1>2, <1>3, <1>4, <1>5, <1>6, LocalStep

LEMMA MoveBranchStep ==
    ASSUME IInv, NEW r \in Requests, MoveBranch(r)
    PROVE  IInv'
<1>1. TypeOK /\ IdsAreNew /\ RequestInv(r) /\ ChartInv
  BY DEF IInv
<1>. DEFINE rows == {a \in branch[r] : Within(a, card[r].path)}
            d == [a \in Accounts |-> IF a \in rows THEN Rerooted(r, chart[a]) ELSE None]
<1>2. /\ pc[r] = "found" /\ pc'[r] = "ready" /\ (\A a \in branch[r] : lock[a] = None)
      /\ lock' = [a \in Accounts |-> IF a \in rows THEN r ELSE lock[a]]
      /\ draft' = [draft EXCEPT ![r] = d] /\ draft'[r] = d
      /\ chart' = chart /\ posted' = posted /\ overtaken' = overtaken /\ torn' = torn
      /\ job' = job /\ card' = card /\ target' = target /\ branch' = branch
  BY <1>1 DEF TypeOK, MoveBranch, history
<1>3. /\ job[r] \in Jobs /\ Account(r) \in Accounts /\ job[r].op = "update"
      /\ Reparents(r) /\ TargetSound(r) /\ Sound(card[r], Account(r))
      /\ Account(r) \notin branch[r] /\ branch[r] \subseteq Accounts
  BY <1>1, <1>2, JobTypes DEF RequestInv, JobInv, Reparents, TypeOK, Account
<1>4. rows \subseteq Accounts /\ Account(r) \notin rows
      /\ \A a \in rows : lock[a] = None /\ Within(a, card[r].path)
  BY <1>2, <1>3
<1>5. ASSUME NEW a \in rows PROVE Sound(Rerooted(r, chart[a]), a)
  <2>1. Exists(a) /\ IsPrefix(card[r].path, chart[a].path) /\ Sound(chart[a], a) /\ a # Account(r)
    BY <1>1, <1>4 DEF Within, ChartInv
  <2>. QED
    BY <1>3, <2>1, RerootedFacts
<1>6. d \in [Accounts -> Row \cup {None}] /\ \A a \in Accounts : d[a] # None <=> a \in rows
  BY <1>5, NoneFacts DEF Sound
<1>. HIDE DEF rows
<1>7. lock' \in [Accounts -> Requests \cup {None}]
  BY <1>1, <1>2 DEF TypeOK
<1>8. \A a \in Accounts : d[a] = IF a \in rows THEN Rerooted(r, chart[a]) ELSE None
  OBVIOUS
<1>. HIDE DEF d
<1>9. \A u \in Requests \ {r} : SameRequest(u)
  BY <1>1, <1>2, <1>4, NoneFacts DEF TypeOK, MoveBranch, SameRequest
<1>10. TypeOK'
  BY <1>1, <1>2, <1>6, <1>7 DEF TypeOK, MoveBranch, history
<1>11. IdsAreNew'
  BY <1>1, <1>2, <1>9, IdsStayNew DEF SameRequest
<1>12. RequestInv(r)'
  <2>1. /\ Account(r)' = Account(r) /\ Reparents(r)' = Reparents(r)
        /\ ChangesIdentity(r)' = ChangesIdentity(r)
        /\ TargetSound(r)' = TargetSound(r) /\ NotBelow(r)' = NotBelow(r)
        /\ \A x \in Accounts : Within(x, card[r].path)' = Within(x, card[r].path)
    BY <1>2 DEF Account, Reparents, ChangesIdentity, TargetSound, Sound, NotBelow, Within, Exists
  <2>2. JobInv(r)'
    BY <1>1, <1>2, <1>3, <2>1 DEF RequestInv, JobInv, Exists, Sound
  <2>3. \A x \in rows : BranchDraft(r, x)'
    <3>1. \A x \in rows : Rerooted(r, chart[x])' = Rerooted(r, chart[x])
      BY <1>2 DEF Rerooted, NewPath, NewLevel, DepthShift, Account
    <3>. QED
      BY <1>2, <1>3, <1>4, <1>8, <2>1, <3>1 DEF BranchDraft
  <2>4. DraftInv(r)'
    BY <1>2, <1>4, <1>6, <2>1, <2>3 DEF DraftInv
  <2>5. KnowsBranch(r)' \/ r \in overtaken
    BY <1>1, <1>2, <1>6, <2>1 DEF RequestInv, KnowInv, Knows, KnowsBranch, rows
  <2>6. KnowInv(r)'
    BY <1>1, <1>2, <1>3, <2>1, <2>5
       DEF RequestInv, KnowInv, Knows, KnowsCard, KnowsTarget, KnowsLeaf, Live, Exists
  <2>. QED
    BY <2>2, <2>4, <2>6 DEF RequestInv
<1>. QED
  BY <1>2, <1>9, <1>10, <1>11, <1>12, LocalStep

LEMMA WriteCardStep ==
    ASSUME IInv, NEW r \in Requests, WriteCard(r)
    PROVE  IInv'
<1>1. TypeOK /\ IdsAreNew /\ RequestInv(r) /\ ChartInv
  BY DEF IInv
<1>2. job[r] \in Jobs /\ Account(r) \in Accounts /\ pc[r] = "ready"
  BY <1>1, JobTypes DEF RequestInv, JobInv, WriteCard, Account
<1>3. Card(r) \in Row /\ Card(r) # None
  BY <1>1, <1>2, CardFacts, NoneFacts DEF RequestInv, ChartInv, Sound
<1>4. /\ pc'[r] = "written" /\ lock[Account(r)] = None
      /\ lock' = [lock EXCEPT ![Account(r)] = r]
      /\ draft' = [draft EXCEPT ![r] = [draft[r] EXCEPT ![Account(r)] = Card(r)]]
      /\ chart' = chart /\ posted' = posted /\ overtaken' = overtaken /\ torn' = torn
      /\ job' = job /\ card' = card /\ target' = target /\ branch' = branch
  BY <1>1 DEF TypeOK, WriteCard, history
<1>5. draft'[r] = [draft[r] EXCEPT ![Account(r)] = Card(r)] /\ draft[r] \in [Accounts -> Row \cup {None}]
  BY <1>1, <1>4 DEF TypeOK
<1>6. \A u \in Requests \ {r} : SameRequest(u)
  BY <1>1, <1>2, <1>4, NoneFacts DEF TypeOK, WriteCard, SameRequest
<1>7. TypeOK'
  BY <1>1, <1>2, <1>3, <1>4, <1>5 DEF TypeOK, WriteCard, history
<1>8. IdsAreNew'
  BY <1>1, <1>2, <1>4, <1>6, IdsStayNew DEF SameRequest
<1>9. RequestInv(r)'
  <2>1. /\ Account(r)' = Account(r) /\ Reparents(r)' = Reparents(r)
        /\ ChangesIdentity(r)' = ChangesIdentity(r)
        /\ TargetSound(r)' = TargetSound(r) /\ NotBelow(r)' = NotBelow(r)
        /\ \A x \in Accounts : Within(x, card[r].path)' = Within(x, card[r].path)
        /\ Card(r)' = Card(r)
    BY <1>4 DEF Account, Reparents, ChangesIdentity, TargetSound, Sound, NotBelow, Within, Exists,
                Card, NewPath, NewLevel
  <2>2. JobInv(r)'
    BY <1>1, <1>2, <1>4, <2>1 DEF RequestInv, JobInv, Exists, Sound
  <2>3. \A x \in Accounts : x # Account(r) /\ draft[r][x] # None => lock[x] = r /\ BranchDraft(r, x)'
    <3>1. \A x \in Accounts : Rerooted(r, chart[x])' = Rerooted(r, chart[x])
      BY <1>4 DEF Rerooted, NewPath, NewLevel, DepthShift, Account
    <3>. QED
      BY <1>1, <1>4, <1>5, <2>1, <3>1 DEF RequestInv, DraftInv, BranchDraft
  <2>4. CardDraft(r)'
    BY <1>2, <1>4, <1>5, <2>1 DEF CardDraft
  <2>5. lock' \in [Accounts -> Requests \cup {None}] /\ lock'[Account(r)] = r
        /\ \A x \in Accounts : lock[x] = r => lock'[x] = r
    BY <1>1, <1>2, <1>4 DEF TypeOK
  <2>6. DraftInv(r)'
    BY <1>2, <1>3, <1>4, <1>5, <2>1, <2>3, <2>4, <2>5 DEF DraftInv
  <2>7. KnowsBranch(r)' \/ r \in overtaken
    BY <1>1, <1>2, <1>4, <1>5, <2>1 DEF RequestInv, KnowInv, Knows, KnowsBranch
  <2>8. KnowInv(r)'
    BY <1>1, <1>2, <1>4, <2>1, <2>7
       DEF RequestInv, KnowInv, Knows, KnowsCard, KnowsTarget, KnowsLeaf, Live, Exists
  <2>. QED
    BY <2>2, <2>6, <2>8 DEF RequestInv
<1>. QED
  BY <1>4, <1>6, <1>7, <1>8, <1>9, LocalStep

\* A request that has ended leaves nothing behind, and the locks of others alone.
LEMMA EndFacts ==
    ASSUME TypeOK, NEW r \in Requests, End(r)
    PROVE  /\ lock' \in [Accounts -> Requests \cup {None}]
           /\ pc' \in [Requests -> {"idle", "read", "checked", "aimed", "found", "ready", "written"}]
           /\ job' \in [Requests -> Jobs \cup {None}]
           /\ card' \in [Requests -> Row \cup {None}] /\ target' \in [Requests -> Row \cup {None}]
           /\ branch' \in [Requests -> SUBSET Accounts]
           /\ draft' \in [Requests -> [Accounts -> Row \cup {None}]]
           /\ started' = started
           /\ pc'[r] = "idle" /\ \A x \in Accounts : draft'[r][x] = None
           /\ \A u \in Requests \ {r} :
                 /\ pc'[u] = pc[u] /\ job'[u] = job[u] /\ card'[u] = card[u]
                 /\ target'[u] = target[u] /\ branch'[u] = branch[u] /\ draft'[u] = draft[u]
                 /\ \A x \in Accounts : lock[x] = u => lock'[x] = u
<1>1. NoDraft \in [Accounts -> Row \cup {None}] /\ \A x \in Accounts : NoDraft[x] = None
  BY DEF NoDraft
<1>. HIDE DEF NoDraft
<1>. QED
  BY <1>1 DEF TypeOK, End

LEMMA FailStep ==
    ASSUME IInv, NEW r \in Requests, Fail(r)
    PROVE  IInv'
<1>1. TypeOK /\ IdsAreNew
  BY DEF IInv
<1>2. /\ End(r) /\ overtaken' = overtaken \ {r}
      /\ chart' = chart /\ posted' = posted /\ torn' = torn
  BY DEF Fail
<1>3. \A u \in Requests \ {r} : SameRequest(u)
  BY <1>1, <1>2, EndFacts DEF SameRequest
<1>4. TypeOK'
  BY <1>1, <1>2, EndFacts DEF TypeOK
<1>5. pc'[r] = "idle" /\ \A x \in Accounts : draft'[r][x] = None
  BY <1>1, <1>2, EndFacts
<1>6. IdsAreNew'
  BY <1>1, <1>3, <1>5, IdsStayNew DEF SameRequest
<1>7. RequestInv(r)'
  BY <1>5 DEF RequestInv, JobInv, DraftInv, KnowInv
<1>. QED
  BY <1>2, <1>3, <1>4, <1>6, <1>7, LocalStep

LEMMA PostLinesStep ==
    ASSUME IInv, NEW a \in Accounts, PostLines(a)
    PROVE  IInv'
<1>1. /\ TypeOK /\ IdsAreNew /\ Exists(a) /\ posted' = posted \cup {a}
      /\ overtaken' = overtaken \cup {u \in Requests : pc[u] # "idle" /\ Account(u) = a}
      /\ chart' = chart /\ torn' = torn /\ lock' = lock /\ pc' = pc /\ started' = started
      /\ job' = job /\ card' = card /\ target' = target /\ branch' = branch /\ draft' = draft
  BY DEF IInv, PostLines, request
<1>2. TypeOK'
  BY <1>1 DEF TypeOK
<1>3. ASSUME NEW u \in Requests PROVE RequestInv(u)'
  <2>1. SameRequest(u)
    BY <1>1 DEF SameRequest
  <2>. QED
    BY <1>1, <1>3, <2>1, OtherKeeps DEF IInv
<1>4. IdsAreNew'
  BY <1>1, IdsStayNew
<1>5. ChartInv'
  BY <1>1 DEF IInv, ChartInv, Exists, Live, PathsTellParents, Sound
<1>. QED
  BY <1>2, <1>3, <1>4, <1>5 DEF IInv

-----------------------------------------------------------------------------
(* A commit *)

\* What a request has written, row by row.
LEMMA WrittenRows ==
    ASSUME IInv, NEW r \in Requests, NEW x \in Accounts, draft[r][x] # None
    PROVE  /\ lock[x] = r /\ Sound(draft[r][x], x) /\ pc[r] \in {"ready", "written"}
           /\ x = Account(r) => draft[r][x] = Card(r)
           /\ x # Account(r) =>
                 /\ Exists(x) /\ Reparents(r) /\ Within(x, card[r].path)
                 /\ draft[r][x].parent = chart[x].parent /\ draft[r][x].nature = chart[x].nature
                 /\ draft[r][x].live = chart[x].live
                 /\ draft[r][x].path = NewPath(r) \o
                       SubSeq(chart[x].path, Len(card[r].path) + 1, Len(chart[x].path))
<1>1. /\ TypeOK /\ ChartInv /\ JobInv(r) /\ DraftInv(r)
      /\ \A a \in Accounts : Exists(a) => Sound(chart[a], a)
  BY DEF IInv, RequestInv, ChartInv
<1>2. lock[x] = r /\ pc[r] \in {"ready", "written"}
      /\ IF x = Account(r) THEN CardDraft(r) ELSE BranchDraft(r, x)
  BY <1>1 DEF DraftInv, CardDraft, BranchDraft
<1>3. CASE x = Account(r)
  BY <1>1, <1>2, <1>3, CardFacts DEF CardDraft
<1>4. CASE x # Account(r)
  <2>1. /\ Reparents(r) /\ Within(x, card[r].path) /\ draft[r][x] = Rerooted(r, chart[x])
        /\ Exists(x) /\ IsPrefix(card[r].path, chart[x].path)
    BY <1>2, <1>4 DEF BranchDraft, Within
  <2>2. TargetSound(r) /\ Sound(card[r], Account(r)) /\ Account(r) \in Accounts
    BY <1>1, <1>2, <2>1, JobTypes DEF JobInv, Reparents, Account
  <2>. DEFINE node == chart[x]
  <2>3. Sound(node, x) /\ IsPrefix(card[r].path, node.path)
    BY <1>1, <2>1
  <2>. HIDE DEF node
  <2>4. /\ Sound(Rerooted(r, node), x)
        /\ Rerooted(r, node).parent = node.parent
        /\ Rerooted(r, node).nature = node.nature
        /\ Rerooted(r, node).live = node.live
        /\ Rerooted(r, node).path =
              NewPath(r) \o SubSeq(node.path, Len(card[r].path) + 1, Len(node.path))
    BY <1>4, <2>2, <2>3, RerootedFacts
  <2>. QED
    BY <1>2, <1>4, <2>1, <2>4 DEF node
<1>. QED
  BY <1>3, <1>4

LEMMA MovedRows ==
    ASSUME IInv, NEW r \in Requests
    PROVE  \A x \in Accounts : draft[r][x] # None /\ x # Account(r) =>
              /\ Exists(x)
              /\ draft[r][x].parent = chart[x].parent
              /\ draft[r][x].live = chart[x].live
              /\ draft[r][x].nature = chart[x].nature
<1>. SUFFICES ASSUME NEW x \in Accounts, draft[r][x] # None, x # Account(r)
              PROVE  /\ Exists(x)
                     /\ draft[r][x].parent = chart[x].parent
                     /\ draft[r][x].live = chart[x].live
                     /\ draft[r][x].nature = chart[x].nature
  OBVIOUS
<1>1. draft[r][x].parent = chart[x].parent
  BY WrittenRows
<1>2. draft[r][x].live = chart[x].live
  BY WrittenRows
<1>3. Exists(x)
  BY WrittenRows
<1>4. draft[r][x].nature = chart[x].nature
  BY WrittenRows
<1>. QED
  BY <1>1, <1>2, <1>3, <1>4

LEMMA CommitFacts ==
    ASSUME IInv, NEW r \in Requests, Commit(r)
    PROVE  /\ TypeOK' /\ pc[r] = "written" /\ pc'[r] = "idle" /\ posted' = posted
           /\ torn' = (torn \/ r \in overtaken)
           /\ Account(r) \in Accounts /\ draft[r][Account(r)] # None
           /\ \A x \in Accounts : draft'[r][x] = None
           /\ \A x \in Accounts : chart'[x] = IF draft[r][x] # None THEN draft[r][x] ELSE chart[x]
           /\ \A u \in Requests \ {r} :
                 /\ SameRequest(u)
                 /\ pc[u] # "idle" /\ u \notin overtaken' =>
                       /\ u \notin overtaken
                       /\ \A x \in Accounts : draft[r][x] # None => ~ Concerns(u, r, x)
<1>1. /\ TypeOK /\ End(r) /\ pc[r] = "written" /\ posted' = posted /\ torn' = (torn \/ r \in overtaken)
      /\ chart' = [a \in Accounts |-> IF a \in Written(r) THEN draft[r][a] ELSE chart[a]]
      /\ overtaken' = (overtaken \ {r}) \cup
            {u \in Requests \ {r} : pc[u] # "idle" /\ \E a \in Written(r) : Concerns(u, r, a)}
  BY DEF IInv, Commit
<1>2. \A x \in Accounts : chart'[x] = IF draft[r][x] # None THEN draft[r][x] ELSE chart[x]
  BY <1>1 DEF Written
<1>3. Account(r) \in Accounts /\ draft[r][Account(r)] # None
  BY <1>1, JobTypes DEF IInv, RequestInv, JobInv, DraftInv, Account
<1>4. chart' \in [Accounts -> Row \cup {None}]
  <2>1. \A a \in Accounts : draft[r][a] \in Row \cup {None} /\ chart[a] \in Row \cup {None}
    BY <1>1 DEF TypeOK
  <2>. QED
    BY <1>1, <2>1
<1>5. TypeOK'
  <2>1. overtaken' \subseteq Requests /\ torn' \in BOOLEAN
    BY <1>1 DEF TypeOK
  <2>. QED
    BY <1>1, <1>4, <2>1, EndFacts DEF TypeOK
<1>6. pc'[r] = "idle" /\ \A x \in Accounts : draft'[r][x] = None
  BY <1>1, EndFacts
<1>7. \A u \in Requests \ {r} : SameRequest(u)
  BY <1>1, EndFacts DEF SameRequest
<1>8. \A u \in Requests \ {r} : pc[u] # "idle" /\ u \notin overtaken' =>
         /\ u \notin overtaken
         /\ \A x \in Accounts : draft[r][x] # None => ~ Concerns(u, r, x)
  BY <1>1 DEF Written
<1>. QED
  BY <1>1, <1>2, <1>3, <1>5, <1>6, <1>7, <1>8

\* What a commit leaves of another request.
LEMMA CommitKeepsOthers ==
    ASSUME IInv, NEW r \in Requests, Commit(r), NEW u \in Requests \ {r}
    PROVE  RequestInv(u)'
<1>0. ASSUME NEW x \in Accounts, draft[r][x] # None
      PROVE  /\ lock[x] = r /\ Sound(draft[r][x], x)
             /\ x # Account(r) =>
                   Exists(x) /\ draft[r][x].parent = chart[x].parent /\ draft[r][x].live = chart[x].live
             /\ x = Account(r) => draft[r][x] = Card(r)
  <2>1. lock[x] = r /\ Sound(draft[r][x], x) /\ (x = Account(r) => draft[r][x] = Card(r))
    BY <1>0, WrittenRows
  <2>. QED
    BY <1>0, <2>1, MovedRows
<1>. DEFINE W == {x \in Accounts : draft[r][x] # None}
<1>1. /\ TypeOK /\ JobInv(u) /\ DraftInv(u) /\ KnowInv(u)
      /\ \A a \in Accounts : Exists(a) => Sound(chart[a], a)
  BY DEF IInv, RequestInv, ChartInv
<1>2. /\ pc'[u] = pc[u] /\ job'[u] = job[u] /\ card'[u] = card[u] /\ posted' = posted
      /\ target'[u] = target[u] /\ branch'[u] = branch[u] /\ draft'[u] = draft[u]
      /\ \A x \in Accounts : lock[x] = u => lock'[x] = u
      /\ torn' = (torn \/ r \in overtaken)
      /\ \A x \in Accounts : chart'[x] = IF x \in W THEN draft[r][x] ELSE chart[x]
  BY CommitFacts DEF SameRequest
<1>3. /\ Account(u)' = Account(u) /\ Reparents(u)' = Reparents(u)
      /\ ChangesIdentity(u)' = ChangesIdentity(u)
      /\ TargetSound(u)' = TargetSound(u) /\ NotBelow(u)' = NotBelow(u)
  BY <1>2 DEF Account, Reparents, ChangesIdentity, TargetSound, Sound, NotBelow
<1>4. ASSUME NEW x \in W
      PROVE  /\ x \in Accounts /\ draft[r][x] # None /\ lock[x] = r /\ Sound(draft[r][x], x)
             /\ x # Account(r) =>
                   Exists(x) /\ draft[r][x].parent = chart[x].parent /\ draft[r][x].live = chart[x].live
             /\ x = Account(r) => draft[r][x] = Card(r)
  BY <1>0, <1>4
<1>. HIDE DEF W
<1>5. \A x \in Accounts : Exists(x) => Exists(x)'
  BY <1>2, <1>4 DEF Exists
<1>6. JobInv(u)'
  <2>1. ASSUME pc[u] # "idle", job[u].op = "create" PROVE ~ Exists(Account(u))'
    <3>1. Account(u) \in Accounts /\ ~ Exists(Account(u)) /\ pc[r] # "idle" /\ Account(u) # Account(r)
      BY <1>1, <2>1, JobTypes, CommitFacts DEF IInv, IdsAreNew, JobInv, Account
    <3>2. Account(u) \notin W
      BY <1>4, <3>1
    <3>. QED
      BY <1>2, <1>3, <3>1, <3>2 DEF Exists
  <2>2. pc[u] # "idle" => Account(u) \in Accounts
    BY <1>1, JobTypes DEF JobInv, Account
  <2>. QED
    BY <1>1, <1>2, <1>3, <1>5, <2>1, <2>2 DEF JobInv, Sound, Exists
<1>7. DraftInv(u)'
  <2>1. \A x \in Accounts : lock[x] = u => x \notin W /\ chart'[x] = chart[x]
    BY <1>2, <1>4
  <2>2. ASSUME NEW x \in Accounts, draft[u][x] # None, x # Account(u) PROVE BranchDraft(u, x)'
    <3>1. BranchDraft(u, x) /\ chart'[x] = chart[x]
      BY <1>1, <2>1, <2>2 DEF DraftInv
    <3>2. Rerooted(u, chart[x])' = Rerooted(u, chart[x])
      BY <1>2, <3>1 DEF Rerooted, NewPath, NewLevel, DepthShift, Account
    <3>. QED
      BY <1>2, <1>3, <3>1, <3>2 DEF BranchDraft, Within, Exists
  <2>3. ASSUME NEW x \in Accounts, draft[u][x] # None, x = Account(u) PROVE CardDraft(u)'
    <3>1. CardDraft(u) /\ chart'[Account(u)] = chart[Account(u)]
      BY <1>1, <2>1, <2>3 DEF DraftInv
    <3>2. Card(u)' = Card(u)
      BY <1>2, <3>1 DEF Card, Reparents, NewPath, NewLevel, Account
    <3>. QED
      BY <1>2, <1>3, <3>1, <3>2 DEF CardDraft
  <2>. QED
    BY <1>1, <1>2, <1>3, <2>2, <2>3 DEF DraftInv
<1>8. ASSUME pc[u] # "idle", u \notin overtaken' PROVE Knows(u)'
  <2>1. /\ Knows(u) /\ job[u] \in Jobs /\ Account(u) \in Accounts
        /\ job[u].op \in {"create", "update", "delete"}
        /\ \A x \in W : ~ Concerns(u, r, x)
    BY <1>1, <1>4, <1>8, CommitFacts, JobTypes DEF KnowInv, JobInv, Account
  <2>2. ASSUME NEW x \in W
        PROVE  /\ x # Account(u) /\ (job[u].op # "delete" => x # job[u].parent)
               /\ Exists(x) => Account(u) \notin Range(chart[x].path)
               /\ Account(u) \notin Range(draft[r][x].path)
    BY <2>1, <2>2 DEF Concerns
  <2>3. \A x \in Accounts \ W : chart'[x] = chart[x] /\ Exists(x)' = Exists(x) /\ Live(x)' = Live(x)
    BY <1>2 DEF Exists, Live
  <2>4. KnowsCard(u)'
    BY <1>2, <1>3, <2>1, <2>2, <2>3 DEF Knows, KnowsCard
  <2>5. KnowsTarget(u)'
    <3>1. job[u].op = "create" \/ Reparents(u) => job[u].parent \in Accounts \cup {None} /\ job[u].op # "delete"
      BY <2>1, JobTypes DEF Reparents
    <3>2. ASSUME job[u].op = "create" \/ Reparents(u), job[u].parent # None
          PROVE  job[u].parent \in Accounts \ W
      BY <2>2, <3>1, <3>2
    <3>. QED
      BY <1>2, <1>3, <2>1, <2>3, <3>2 DEF Knows, KnowsTarget
  <2>6. KnowsBranch(u)'
    <3>. SUFFICES ASSUME NEW x \in Accounts, x # Account(u), Within(x, card[u].path)'
                  PROVE  /\ pc[u] = "found" => x \in branch[u]
                         /\ pc[u] \in {"ready", "written"} /\ Reparents(u) => draft[u][x] # None
      BY <1>2, <1>3 DEF KnowsBranch
    <3>1. CASE x \in W
      <4>1. SUFFICES ASSUME job[u].op # "create" PROVE FALSE
        BY <1>1 DEF JobInv, Reparents
      <4>2. Sound(card[u], Account(u))
        BY <1>1, <1>8, <4>1 DEF JobInv
      <4>3. IsPrefix(card[u].path, draft[r][x].path)
        BY <1>2, <3>1 DEF Within
      <4>4. Account(u) \in Range(draft[r][x].path)
        BY <1>4, <3>1, <4>2, <4>3, SoundFacts, BelowIsLonger
      <4>. QED
        BY <2>2, <3>1, <4>4
    <3>2. CASE x \notin W
      <4>1. Within(x, card[u].path)
        BY <1>2, <2>3, <3>2 DEF Within, Exists
      <4>. QED
        BY <2>1, <4>1 DEF Knows, KnowsBranch
    <3>. QED
      BY <3>1, <3>2
  <2>7. torn' \/ KnowsLeaf(u)'
    <3>. SUFFICES ASSUME ~ torn, r \notin overtaken, job[u].op = "delete", pc[u] \in {"ready", "written"},
                         NEW x \in Accounts, Live(x)', chart'[x].parent = Account(u)
                  PROVE  FALSE
      BY <1>2, <1>3 DEF KnowsLeaf
    <3>1. \A y \in Accounts : Live(y) => chart[y].parent # Account(u)
      BY <2>1 DEF Knows, KnowsLeaf
    <3>2. x \in W
      BY <2>3, <3>1
    <3>3. draft[r][x].live /\ draft[r][x].parent = Account(u)
      BY <1>2, <3>2 DEF Live
    <3>4. ASSUME Exists(x), draft[r][x].live = chart[x].live, draft[r][x].parent = chart[x].parent
          PROVE  FALSE
      BY <1>4, <3>1, <3>2, <3>3, <3>4 DEF Live
    <3>5. x = Account(r) /\ draft[r][x] = Card(r)
      BY <1>4, <3>2, <3>4
    <3>6. /\ JobInv(r) /\ pc[r] = "written" /\ Knows(r) /\ job[r] \in Jobs
          /\ job[r].op \in {"create", "update", "delete"}
      BY CommitFacts, JobTypes DEF IInv, RequestInv, KnowInv, JobInv
    <3>7. CASE job[r].op = "create" \/ Reparents(r)
      <4>1. Card(r).parent = job[r].parent /\ Card(r).path = NewPath(r)
        BY <1>1, <3>6, <3>7, CardFacts
      <4>2. TargetSound(r)
        BY <3>6, <3>7 DEF JobInv
      <4>3. job[r].parent # None
        BY <2>1, <3>3, <3>5, <4>1, NoneFacts
      <4>4. Account(u) \in Range(draft[r][x].path)
        BY <1>4, <3>2, <3>3, <3>5, <4>1, <4>2, <4>3, NewPathFacts
      <4>. QED
        BY <2>2, <3>2, <4>4
    <3>8. CASE job[r].op = "delete"
      BY <1>1, <3>3, <3>5, <3>6, <3>8, CardFacts
    <3>9. CASE job[r].op = "update" /\ ~ Reparents(r)
      <4>1. Card(r).live = chart[x].live /\ Card(r).parent = card[r].parent
        BY <1>1, <3>5, <3>6, <3>9, CardFacts
      <4>2. card[r] = chart[x] /\ Exists(x)
        BY <3>5, <3>6, <3>9 DEF Knows, KnowsCard, Live
      <4>. QED
        BY <3>4, <3>5, <4>1, <4>2
    <3>. QED
      BY <3>6, <3>7, <3>8, <3>9
  <2>. QED
    BY <2>4, <2>5, <2>6, <2>7 DEF Knows
<1>. QED
  BY <1>2, <1>6, <1>7, <1>8 DEF RequestInv, KnowInv

\* The rows a commit leaves: its card, the branch it has moved, and all others as they were.
LEMMA CommitRows ==
    ASSUME IInv, NEW r \in Requests, Commit(r)
    PROVE  /\ chart'[Account(r)] = Card(r) /\ Card(r) # None
           /\ \A x \in Accounts : x # Account(r) =>
                 /\ draft[r][x] = None => chart'[x] = chart[x]
                 /\ draft[r][x] # None =>
                       /\ Exists(x) /\ Reparents(r) /\ Within(x, card[r].path) /\ chart'[x] # None
                       /\ chart'[x].parent = chart[x].parent /\ chart'[x].live = chart[x].live
                       /\ chart'[x].path = NewPath(r) \o
                             SubSeq(chart[x].path, Len(card[r].path) + 1, Len(chart[x].path))
<1>1. /\ Account(r) \in Accounts /\ draft[r][Account(r)] # None
      /\ \A x \in Accounts : chart'[x] = IF draft[r][x] # None THEN draft[r][x] ELSE chart[x]
  BY CommitFacts
<1>2. chart'[Account(r)] = Card(r) /\ Card(r) # None
  <2>1. draft[r][Account(r)] = Card(r)
    BY <1>1, WrittenRows
  <2>. QED
    BY <1>1, <2>1
<1>3. ASSUME NEW x \in Accounts, x # Account(r), draft[r][x] # None
      PROVE  /\ Exists(x) /\ Reparents(r) /\ Within(x, card[r].path) /\ chart'[x] # None
             /\ chart'[x].parent = chart[x].parent /\ chart'[x].live = chart[x].live
             /\ chart'[x].path = NewPath(r) \o
                   SubSeq(chart[x].path, Len(card[r].path) + 1, Len(chart[x].path))
  <2>1. Exists(x) /\ draft[r][x].parent = chart[x].parent /\ draft[r][x].live = chart[x].live
    BY <1>3, MovedRows
  <2>2. Reparents(r) /\ Within(x, card[r].path)
    BY <1>3, WrittenRows
  <2>3. draft[r][x].path = NewPath(r) \o
           SubSeq(chart[x].path, Len(card[r].path) + 1, Len(chart[x].path))
    BY <1>3, WrittenRows
  <2>4. chart'[x] = draft[r][x]
    BY <1>1, <1>3
  <2>. QED
    BY <1>3, <2>1, <2>2, <2>3, <2>4
<1>4. \A x \in Accounts : draft[r][x] = None => chart'[x] = chart[x]
  BY <1>1
<1>. QED
  BY <1>2, <1>3, <1>4

\* Creating an account, deleting one and changing one in place leave the tree a tree.
LEMMA CardCommitKeepsTree ==
    ASSUME IInv, NEW r \in Requests, Commit(r), ~ torn, r \notin overtaken, ~ Reparents(r)
    PROVE  PathsTellParents'
<1>. DEFINE a == Account(r)
            p == job[r].parent
<1>1. /\ TypeOK /\ JobInv(r) /\ pc[r] = "written" /\ PathsTellParents /\ Knows(r)
      /\ \A x \in Accounts : Exists(x) => Sound(chart[x], x)
  BY CommitFacts DEF IInv, ChartInv, RequestInv, KnowInv
<1>2. job[r] \in Jobs /\ job[r].op \in {"create", "update", "delete"} /\ a \in Accounts
  BY <1>1, JobTypes DEF JobInv, Account
<1>3. \A x \in Accounts : chart'[x] = IF x = a THEN Card(r) ELSE chart[x]
  BY <1>2, CommitRows
<1>4. Card(r) # None
  BY CommitRows
<1>5. \A x \in Accounts : Live(x) => chart[x].parent \in Accounts \cup {None}
  BY <1>1, RowFields DEF Live, Sound
<1>. SUFFICES ASSUME NEW x \in Accounts, chart'[x] # None, chart'[x].live
              PROVE  LET q == chart'[x].parent IN
                     IF q = None THEN chart'[x].path = <<x>>
                     ELSE /\ chart'[q] # None /\ chart'[q].live
                          /\ chart'[x].path = Append(chart'[q].path, x)
  BY DEF PathsTellParents, Live, Exists
<1>6. CASE job[r].op = "create"
  <2>1. /\ Card(r).parent = p /\ Card(r).path = NewPath(r) /\ ~ Exists(a)
        /\ TargetSound(r) /\ p \in Accounts \cup {None}
    BY <1>1, <1>2, <1>6, CardFacts, JobTypes DEF JobInv
  <2>2. p = None => NewPath(r) = <<a>>
    BY <1>2, <2>1, NewPathFacts
  <2>3. p # None => p # a /\ Live(p) /\ NewPath(r) = Append(chart[p].path, a)
    BY <1>1, <1>2, <1>6, <2>1, NewPathFacts DEF Knows, KnowsTarget, Live
  <2>4. \A y \in Accounts : Live(y) => y # a
    BY <2>1 DEF Live
  <2>. HIDE DEF a, p
  <2>5. CASE x = a
    <3>1. chart'[x] = Card(r) /\ chart'[x].parent = p /\ chart'[x].path = NewPath(r)
      BY <1>3, <2>1, <2>5
    <3>2. p # None => chart'[p] = chart[p] /\ chart[p] # None /\ chart[p].live
      BY <1>3, <2>1, <2>3 DEF Live, Exists
    <3>. QED
      BY <2>2, <2>3, <2>5, <3>1, <3>2
  <2>6. CASE x # a
    <3>1. chart'[x] = chart[x] /\ Live(x)
      BY <1>3, <2>6 DEF Live, Exists
    <3>2. chart[x].parent # None =>
             chart[x].parent \in Accounts /\ Live(chart[x].parent) /\ chart[x].parent # a
      BY <1>1, <1>5, <2>4, <3>1 DEF PathsTellParents
    <3>3. chart[x].parent # None => chart'[chart[x].parent] = chart[chart[x].parent]
      BY <1>3, <3>2
    <3>. QED
      BY <1>1, <3>1, <3>2, <3>3 DEF PathsTellParents, Live, Exists
  <2>. QED
    BY <2>5, <2>6
<1>7. CASE job[r].op = "delete"
  <2>1. ~ Card(r).live /\ \A y \in Accounts : Live(y) => chart[y].parent # a
    BY <1>1, <1>7, CardFacts DEF Knows, KnowsLeaf
  <2>. HIDE DEF a, p
  <2>2. chart'[x] = chart[x] /\ Live(x)
    BY <1>3, <2>1 DEF Live, Exists
  <2>3. chart[x].parent # None => chart'[chart[x].parent] = chart[chart[x].parent]
    BY <1>3, <1>5, <2>1, <2>2
  <2>. QED
    BY <1>1, <2>2, <2>3 DEF PathsTellParents, Live, Exists
<1>8. CASE job[r].op = "update"
  <2>1. /\ Card(r).live = chart[a].live /\ Card(r).parent = chart[a].parent
        /\ Card(r).path = chart[a].path /\ Exists(a)
    BY <1>1, <1>8, CardFacts DEF Knows, KnowsCard, Live
  <2>. HIDE DEF a, p
  <2>2. ASSUME NEW y \in Accounts
        PROVE  /\ chart'[y] # None <=> chart[y] # None
               /\ chart'[y].live = chart[y].live
               /\ chart'[y].parent = chart[y].parent /\ chart'[y].path = chart[y].path
    BY <1>3, <1>4, <2>1 DEF Exists
  <2>3. Live(x)
    BY <2>2 DEF Live, Exists
  <2>4. chart[x].parent # None => chart[x].parent \in Accounts /\ Live(chart[x].parent)
    BY <1>1, <1>5, <2>3 DEF PathsTellParents
  <2>. QED
    BY <1>1, <2>2, <2>3, <2>4 DEF PathsTellParents, Live, Exists
<1>. QED
  BY <1>2, <1>6, <1>7, <1>8

\* So does moving a branch.
LEMMA MoveCommitKeepsTree ==
    ASSUME IInv, NEW r \in Requests, Commit(r), ~ torn, r \notin overtaken, Reparents(r)
    PROVE  PathsTellParents'
<1>. DEFINE a == Account(r)
            p == job[r].parent
            N == NewPath(r)
            C == card[r].path
<1>1. /\ TypeOK /\ JobInv(r) /\ pc[r] = "written" /\ PathsTellParents /\ Knows(r)
      /\ \A x \in Accounts : Exists(x) => Sound(chart[x], x)
  BY CommitFacts DEF IInv, ChartInv, RequestInv, KnowInv
<1>2. /\ job[r] \in Jobs /\ job[r].op = "update" /\ a \in Accounts /\ p \in Accounts \cup {None}
      /\ TargetSound(r) /\ NotBelow(r) /\ Live(a) /\ card[r] = chart[a]
      /\ p # None => Live(p) /\ target[r] = chart[p]
  BY <1>1, JobTypes DEF JobInv, Reparents, Account, Knows, KnowsCard, KnowsTarget
<1>3. ASSUME NEW x \in Accounts, Exists(x)
      PROVE  /\ chart[x].path \in Seq(Accounts) /\ x \in Range(chart[x].path)
             /\ Last(chart[x].path) = x /\ chart[x].parent \in Accounts \cup {None}
  BY <1>1, <1>3, SoundFacts, RowFields
<1>4. C \in Seq(Accounts) /\ C # <<>> /\ Last(C) = a /\ C = chart[a].path
  BY <1>1, <1>2, SoundFacts DEF Live
<1>5. /\ p = None => N = <<a>>
      /\ p # None => N = Append(chart[p].path, a)
  BY <1>2, NewPathFacts
<1>6. N \in Seq(Accounts)
  BY <1>2, NewPathFacts
<1>7. /\ chart'[a] = Card(r) /\ Card(r).parent = p /\ Card(r).path = N /\ Card(r).live
      /\ Card(r) # None
  <2>1. chart'[a] = Card(r) /\ Card(r) # None
    BY CommitRows
  <2>2. Card(r).parent = p /\ Card(r).path = N /\ Card(r).live = chart[a].live
    BY <1>1, <1>2, CardFacts
  <2>. QED
    BY <1>2, <2>1, <2>2 DEF Live
<1>8. ASSUME NEW x \in Accounts, x # a
      PROVE  /\ Within(x, C) =>
                   /\ chart'[x] # None /\ chart'[x].live = chart[x].live
                   /\ chart'[x].parent = chart[x].parent
                   /\ chart'[x].path = N \o SubSeq(chart[x].path, Len(C) + 1, Len(chart[x].path))
             /\ ~ Within(x, C) => chart'[x] = chart[x]
  <2>1. CASE draft[r][x] # None
    BY <1>8, <2>1, CommitRows
  <2>2. CASE draft[r][x] = None
    <3>1. ~ Within(x, C)
      BY <1>1, <1>2, <1>8, <2>2 DEF Knows, KnowsBranch
    <3>. QED
      BY <1>8, <2>2, <3>1, CommitRows
  <2>. QED
    BY <2>1, <2>2
<1>. HIDE DEF a, N, C, p
<1>9. SUFFICES ASSUME NEW x \in Accounts, chart'[x] # None, chart'[x].live
       PROVE  LET q == chart'[x].parent IN
              IF q = None THEN chart'[x].path = <<x>>
              ELSE /\ chart'[q] # None /\ chart'[q].live
                   /\ chart'[x].path = Append(chart'[q].path, x)
  BY DEF PathsTellParents, Live, Exists
<1>10. CASE x = a
  <2>1. CASE p = None
    BY <1>5, <1>7, <1>10, <2>1
  <2>2. CASE p # None
    <3>1. p \in Accounts /\ Live(p) /\ target[r] = chart[p] /\ a \notin Range(chart[p].path)
      BY <1>2, <2>2 DEF NotBelow, p, a
    <3>2. p # a
      BY <1>3, <3>1 DEF Live
    <3>3. ~ Within(p, C)
      <4>1. SUFFICES ASSUME Exists(p), IsPrefix(C, chart[p].path) PROVE FALSE
        BY DEF Within
      <4>2. Last(C) \in Range(chart[p].path)
        BY <1>3, <1>4, <3>1, <4>1, BelowIsLonger
      <4>. QED
        BY <1>4, <3>1, <4>2
    <3>4. chart'[p] = chart[p]
      BY <1>8, <3>1, <3>2, <3>3
    <3>. QED
      BY <1>5, <1>7, <1>10, <2>2, <3>1, <3>4 DEF Live, Exists
  <2>. QED
    BY <2>1, <2>2
<1>11. CASE x # a
  <2>. DEFINE q == chart[x].parent
              pathq == chart[q].path
  <2>1. Live(x) /\ chart'[x].parent = q
    <3>1. CASE Within(x, C)
      BY <1>8, <1>9, <1>11, <3>1 DEF Live, Within
    <3>2. CASE ~ Within(x, C)
      BY <1>8, <1>9, <1>11, <3>2 DEF Live, Exists
    <3>. QED
      BY <3>1, <3>2
  <2>2. Exists(x) /\ q \in Accounts \cup {None}
    BY <1>3, <2>1 DEF Live
  <2>3. /\ q = None => chart[x].path = <<x>>
        /\ q # None => Live(q) /\ chart[x].path = Append(pathq, x)
    BY <1>1, <2>1 DEF PathsTellParents
  <2>4. q # None => q \in Accounts /\ Exists(q) /\ pathq \in Seq(Accounts) /\ Last(pathq) = q
    BY <1>3, <2>2, <2>3 DEF Live
  <2>. HIDE DEF q, pathq
  <2>5. CASE q = None
    <3>1. ~ Within(x, C)
      <4>. SUFFICES ASSUME Within(x, C) PROVE FALSE
        OBVIOUS
      <4>1. IsPrefix(C, <<x>>)
        BY <2>3, <2>5 DEF Within
      <4>2. Len(C) < Len(<<x>>)
        BY <1>4, <1>11, <4>1, BelowIsLonger, SingleFacts
      <4>. QED
        BY <1>4, <4>2, SingleFacts, EmptySeq
    <3>. QED
      BY <1>8, <1>11, <2>1, <2>3, <2>5, <3>1
  <2>6. CASE q # None /\ Within(x, C)
    <3>1. IsPrefix(C, Append(pathq, x))
      BY <2>3, <2>6 DEF Within
    <3>2. IsPrefix(C, pathq)
      BY <1>4, <1>11, <2>4, <2>6, <3>1, PrefixOfFront
    <3>3. chart'[x].path = N \o SubSeq(chart[x].path, Len(C) + 1, Len(chart[x].path))
      BY <1>8, <1>11, <2>6
    <3>4. Extends(chart'[x].path, N \o SubSeq(pathq, Len(C) + 1, Len(pathq)), x)
      <4>1. chart[x].path \in Seq(Accounts)
        BY <1>3, <2>2
      <4>2. Extends(chart[x].path, pathq, x)
        BY <2>3, <2>6 DEF Extends
      <4>3. Extends(N \o SubSeq(chart[x].path, Len(C) + 1, Len(chart[x].path)),
                    N \o SubSeq(pathq, Len(C) + 1, Len(pathq)), x)
        BY <1>4, <1>6, <2>4, <2>6, <3>2, <4>1, <4>2, RerootAppend
      <4>. QED
        BY <3>3, <4>3
    <3>5. chart'[q] # None /\ chart'[q].live /\ chart'[q].path = N \o SubSeq(pathq, Len(C) + 1, Len(pathq))
      <4>1. CASE q = a
        <5>1. pathq = C
          BY <1>4, <4>1 DEF pathq
        <5>2. Len(C) \in Nat
          BY <1>4, LenProperties
        <5>3. SubSeq(pathq, Len(C) + 1, Len(pathq)) = <<>>
          BY <5>1, <5>2, SubSeqEmpty
        <5>4. N \o <<>> = N
          BY <1>6, ConcatEmptySeq
        <5>. QED
          BY <1>7, <4>1, <5>3, <5>4
      <4>2. CASE q # a
        <5>1. Within(q, C)
          BY <2>4, <2>6, <3>2 DEF Within, pathq
        <5>. QED
          BY <1>8, <2>3, <2>4, <2>6, <4>2, <5>1 DEF pathq, Live
      <4>. QED
        BY <4>1, <4>2
    <3>. QED
      BY <2>1, <2>6, <3>4, <3>5 DEF Extends
  <2>7. CASE q # None /\ ~ Within(x, C)
    <3>1. ~ IsPrefix(C, pathq)
      <4>. SUFFICES ASSUME IsPrefix(C, pathq) PROVE FALSE
        OBVIOUS
      <4>1. chart[x].path \in Seq(Accounts) /\ Extends(chart[x].path, pathq, x)
        BY <1>3, <2>2, <2>3, <2>7 DEF Extends
      <4>2. IsPrefix(C, chart[x].path)
        BY <1>4, <1>6, <2>4, <2>7, <4>1, RerootAppend
      <4>. QED
        BY <2>2, <2>7, <4>2 DEF Within
    <3>2. q # a
      <4>1. IsPrefix(C, C)
        BY <1>4, PrefixElements, LenProperties
      <4>. QED
        BY <1>4, <3>1, <4>1 DEF pathq
    <3>3. chart'[q] = chart[q]
      BY <1>8, <2>4, <2>7, <3>1, <3>2 DEF Within, pathq
    <3>4. chart'[x] = chart[x]
      BY <1>8, <1>11, <2>7
    <3>. QED
      BY <2>1, <2>3, <2>7, <3>3, <3>4 DEF Live, Exists, pathq
  <2>. QED
    BY <2>5, <2>6, <2>7
<1>. QED
  BY <1>10, <1>11

LEMMA CommitStep ==
    ASSUME IInv, NEW r \in Requests, Commit(r)
    PROVE  IInv'
<1>1. TypeOK' /\ pc'[r] = "idle" /\ \A x \in Accounts : draft'[r][x] = None
  BY CommitFacts
<1>2. RequestInv(r)'
  BY <1>1 DEF RequestInv, JobInv, DraftInv, KnowInv
<1>3. \A u \in Requests : RequestInv(u)'
  BY <1>2, CommitKeepsOthers
<1>4. IdsAreNew'
  <2>1. \A u \in Requests \ {r} : SameRequest(u)
    BY CommitFacts
  <2>. QED
    BY <1>1, <2>1, IdsStayNew DEF IInv, SameRequest
<1>5. ChartInv'
  <2>1. ASSUME NEW a \in Accounts, Exists(a)' PROVE Sound(chart'[a], a)
    <3>1. CASE draft[r][a] # None
      <4>1. Sound(draft[r][a], a)
        BY <3>1, WrittenRows
      <4>. QED
        BY <3>1, <4>1, CommitFacts
    <3>2. CASE draft[r][a] = None
      <4>1. chart'[a] = chart[a]
        BY <3>2, CommitFacts
      <4>. QED
        BY <2>1, <4>1 DEF IInv, ChartInv, Exists
    <3>. QED
      BY <3>1, <3>2
  <2>2. \A a \in posted' : Exists(a)'
    <3>1. \A a \in posted' : a \in Accounts /\ Exists(a)
      BY CommitFacts DEF IInv, ChartInv, TypeOK
    <3>2. \A a \in Accounts : chart'[a] = IF draft[r][a] # None THEN draft[r][a] ELSE chart[a]
      BY CommitFacts
    <3>. QED
      BY <3>1, <3>2 DEF Exists
  <2>3. torn' \/ PathsTellParents'
    <3>1. torn' = (torn \/ r \in overtaken)
      BY CommitFacts
    <3>. QED
      BY <3>1, CardCommitKeepsTree, MoveCommitKeepsTree
  <2>. QED
    BY <2>1, <2>2, <2>3 DEF ChartInv, Sound
<1>. QED
  BY <1>1, <1>3, <1>4, <1>5 DEF IInv

-----------------------------------------------------------------------------
(* The theorems *)

LEMMA Inductive == IInv /\ [Next]_vars => IInv'
<1>. SUFFICES ASSUME IInv, [Next]_vars PROVE IInv'
  OBVIOUS
<1>1. ASSUME NEW r \in Requests, NEW j \in Jobs, BeginCreate(r, j) PROVE IInv'
  BY <1>1, BeginCreateStep
<1>2. ASSUME NEW r \in Requests, NEW j \in Jobs, Load(r, j) PROVE IInv'
  BY <1>2, LoadStep
<1>3. ASSUME NEW r \in Requests, CheckLines(r) PROVE IInv'
  BY <1>3, CheckLinesStep
<1>4. ASSUME NEW r \in Requests, CheckChildren(r) PROVE IInv'
  BY <1>4, CheckChildrenStep
<1>5. ASSUME NEW r \in Requests, ReadParent(r) PROVE IInv'
  BY <1>5, ReadParentStep
<1>6. ASSUME NEW r \in Requests, FindBranch(r) PROVE IInv'
  BY <1>6, FindBranchStep
<1>7. ASSUME NEW r \in Requests, MoveBranch(r) PROVE IInv'
  BY <1>7, MoveBranchStep
<1>8. ASSUME NEW r \in Requests, WriteCard(r) PROVE IInv'
  BY <1>8, WriteCardStep
<1>9. ASSUME NEW r \in Requests, Commit(r) PROVE IInv'
  BY <1>9, CommitStep
<1>10. ASSUME NEW r \in Requests, Fail(r) PROVE IInv'
  BY <1>10, FailStep
<1>11. ASSUME NEW a \in Accounts, PostLines(a) PROVE IInv'
  BY <1>11, PostLinesStep
<1>12. CASE UNCHANGED vars
  <2>1. \A u \in Requests : SameRequest(u)
    BY <1>12 DEF vars, request, history, SameRequest
  <2>2. \A u \in Requests : RequestInv(u)'
    BY <1>12, <2>1, OtherKeeps DEF IInv, vars, request, history
  <2>3. TypeOK' /\ IdsAreNew' /\ ChartInv'
    BY <1>12 DEF IInv, vars, request, history, TypeOK, IdsAreNew, Account, ChartInv, Exists, Live,
                 PathsTellParents, Sound
  <2>. QED
    BY <2>2, <2>3 DEF IInv
<1>. QED
  BY <1>1, <1>2, <1>3, <1>4, <1>5, <1>6, <1>7, <1>8, <1>9, <1>10, <1>11, <1>12 DEF Next, Finished

LEMMA Invariance == Spec => []IInv
BY InitInv, Inductive, PTL DEF Spec

\* The types of the chart and of what requests have read and written.
THEOREM ChartTypeCorrect == Spec => []TypeOK
<1>1. IInv => TypeOK
  BY DEF IInv
<1>. QED
  BY <1>1, Invariance, PTL

\* Paths and depths of the chart of accounts agree however requests interleave; the paths are
\* the tree of the parents until a request commits that others have committed past.
THEOREM ChartStaysATree == Spec => []ChartIsATree
<1>1. IInv => ChartIsATree
  BY DEF IInv, ChartInv, ChartIsATree, PathsTellDepth, Sound
<1>. QED
  BY <1>1, Invariance, PTL

\* Code, type and side of an account with journal lines are changed by no request that nobody
\* has committed past, although each update writes them back as it read them.
THEOREM IdentityIsFrozen == Spec => PostedIdentityFrozen
<1>1. ASSUME IInv, NEW r \in Requests \ overtaken, Commit(r), NEW a \in posted
      PROVE  chart'[a].nature = chart[a].nature
  <2>1. a \in Accounts /\ Exists(a) /\ TypeOK /\ \A x \in Accounts : Exists(x) => Sound(chart[x], x)
    BY <1>1 DEF IInv, ChartInv, TypeOK
  <2>2. /\ JobInv(r) /\ Knows(r) /\ pc[r] = "written" /\ job[r] \in Jobs
        /\ job[r].op \in {"create", "update", "delete"}
    BY <1>1, CommitFacts, JobTypes DEF IInv, RequestInv, KnowInv, JobInv
  <2>3. CASE draft[r][a] = None
    <3>1. chart'[a] = chart[a]
      BY <1>1, <2>1, <2>3, CommitFacts
    <3>. QED
      BY <3>1
  <2>4. CASE draft[r][a] # None /\ a # Account(r)
    <3>1. draft[r][a].nature = chart[a].nature
      BY <1>1, <2>1, <2>4, MovedRows
    <3>2. chart'[a] = draft[r][a]
      BY <1>1, <2>1, <2>4, CommitFacts
    <3>. QED
      BY <3>1, <3>2
  <2>5. CASE a = Account(r)
    <3>1. chart'[a] = Card(r)
      BY <1>1, <2>5, CommitRows
    <3>2. job[r].op # "create"
      BY <2>1, <2>2, <2>5 DEF JobInv
    <3>3. job[r].op = "update" /\ ~ ChangesIdentity(r) /\ card[r] = chart[a]
      BY <1>1, <2>2, <2>5, <3>2 DEF Knows, KnowsCard
    <3>4. Card(r).nature = card[r].nature
      BY <2>1, <2>2, <3>3, CardFacts
    <3>. QED
      BY <3>1, <3>3, <3>4
  <2>. QED
    BY <2>3, <2>4, <2>5
<1>2. IInv /\ [Next]_vars =>
         [\A r \in Requests \ overtaken : Commit(r) =>
             \A a \in posted : chart'[a].nature = chart[a].nature]_vars
  BY <1>1
<1>. QED
  BY <1>2, Invariance, PTL DEF Spec, PostedIdentityFrozen

-----------------------------------------------------------------------------
(* Fiscal periods and journal posting *)

(* The inductive invariant *)

\* What a request works on once it has started.
TaskInv == \A r \in Calls :
    /\ stage[r] # "idle" => task[r] \in Tasks
    /\ stage[r] # "idle" /\ task[r].op = "create" => named[r] = Unset
    /\ stage[r] # "idle" /\ task[r].op \notin {"create", "post"} => named[r] \in Periods
    /\ stage[r] = "aimed" => task[r].op \notin {"create", "lock", "unlock"} /\ named[r] \in Periods
    /\ stage[r] \in {"read", "checked", "deactivated"} /\ task[r].op \notin {"create", "lock", "unlock"} =>
          row[r] \in Rows /\ named[r] \in Periods
    /\ stage[r] = "read" => task[r].op \notin {"activate", "reopen", "lock", "unlock"}
    /\ entry[r] # Unset => stage[r] = "done"

\* Until another request commits, what a request has read and checked is still so.
KnowsRow(r) ==
    stage[r] \in {"read", "checked", "deactivated"} /\ task[r].op \notin {"create", "lock", "unlock"} =>
        /\ row[r] = period[named[r]]
        /\ task[r].op \in NeedsOpen => row[r].status = "open"
KnowsRules(r) ==
    stage[r] \in {"checked", "deactivated"} /\ task[r].op \notin {"activate", "reopen", "lock", "unlock"} =>
        RulesAllow(r)
KnowsOriginal(r) ==
    task[r].op = "reverse" /\ stage[r] \in {"aimed", "read", "checked"} => ~ Reversed(task[r].target)
Informed(r) == KnowsRow(r) /\ KnowsRules(r) /\ KnowsOriginal(r)
ReadInv == \A r \in Calls \ outrun : Informed(r)

PeriodInv == PeriodTypeOK /\ TaskInv /\ ReadInv /\ PeriodsConsistent /\ ReversedOnce

-----------------------------------------------------------------------------
(* Rows and jobs *)

LEMMA TaskTypes ==
    ASSUME NEW j \in Tasks
    PROVE  /\ j.op \in {"create", "update", "delete", "activate", "close", "reopen",
                        "post", "reverse", "lock", "unlock"}
           /\ j.period \in Periods \cup {Unset} /\ j.target \in Calls \cup {Unset}
           /\ j.patch \in Patches
           /\ j.op = "create" => j.period = Unset /\ j.patch.from # Unset /\ j.patch.to # Unset
           /\ j.op \notin {"create", "post"} => j.period \in Periods
           /\ j.op = "reverse" <=> j.target # Unset
<1>1. j \in JobType
  BY TasksAssumption
<1>2. /\ j.op = "create" => j.period = Unset /\ j.patch.from # Unset /\ j.patch.to # Unset
      /\ j.op \notin {"create", "post"} => j.period # Unset
      /\ j.op = "reverse" <=> j.target # Unset
  BY TasksAssumption
<1>3. /\ j.op \in {"create", "update", "delete", "activate", "close", "reopen",
                   "post", "reverse", "lock", "unlock"}
      /\ j.period \in Periods \cup {Unset} /\ j.target \in Calls \cup {Unset}
      /\ j.patch \in Patches
  BY <1>1 DEF JobType
<1> QED
  BY <1>2, <1>3

\* deactivateAll takes flags away and nothing else.
LEMMA DeactivatedRows ==
    ASSUME PeriodTypeOK, NEW ps, NEW q \in Periods
    PROVE  /\ Deactivated(period, ps)[q] \in Rows \cup {Absent}
           /\ Deactivated(period, ps)[q] = Absent <=> period[q] = Absent
           /\ period[q] # Absent =>
                 /\ Deactivated(period, ps)[q].status = period[q].status
                 /\ Deactivated(period, ps)[q].from = period[q].from
                 /\ Deactivated(period, ps)[q].to = period[q].to
                 /\ Deactivated(period, ps)[q].active => period[q].active
                 /\ ~ period[q].active => Deactivated(period, ps)[q] = period[q]
<1>1. CASE period[q] = Absent
  BY <1>1 DEF Deactivated, PeriodTypeOK
<1>2. CASE period[q] # Absent
  <2>1. period[q] \in Rows
    BY <1>2 DEF PeriodTypeOK
  <2>2. Deactivated(period, ps)[q] \in {period[q], [period[q] EXCEPT !.active = FALSE]}
    BY DEF Deactivated
  <2>3. [period[q] EXCEPT !.active = FALSE] \in Rows
    BY <2>1 DEF Rows
  <2>4. /\ [period[q] EXCEPT !.active = FALSE].status = period[q].status
        /\ [period[q] EXCEPT !.active = FALSE].from = period[q].from
        /\ [period[q] EXCEPT !.active = FALSE].to = period[q].to
        /\ [period[q] EXCEPT !.active = FALSE].active = FALSE
        /\ ~ period[q].active => [period[q] EXCEPT !.active = FALSE] = period[q]
    BY <2>1 DEF Rows
  <2> QED
    BY <1>2, <2>1, <2>2, <2>3, <2>4, RowsAssumption
<1> QED
  BY <1>1, <1>2

\* The card a request writes is a row.
LEMMA FieldsType ==
    ASSUME PeriodTypeOK, TaskInv, NEW r \in Calls, stage[r] \in {"checked", "deactivated", "read"},
           task[r].op \in {"create", "update"}
    PROVE  /\ WantedDates(r).from \in Dates /\ WantedDates(r).to \in Dates
           /\ Fields(r).from = WantedDates(r).from /\ Fields(r).to = WantedDates(r).to
           /\ Fields(r).active \in BOOLEAN
<1>1. task[r] \in Tasks /\ task[r].patch \in Patches
  BY TaskTypes DEF TaskInv
<1>2. /\ task[r].patch.from \in Dates \cup {Unset} /\ task[r].patch.to \in Dates \cup {Unset}
      /\ task[r].patch.active \in BOOLEAN \cup {Unset}
  BY <1>1 DEF Patches
<1>3. task[r].op = "create" => task[r].patch.from # Unset /\ task[r].patch.to # Unset
  BY <1>1, TaskTypes
<1>4. task[r].op = "update" => row[r].from \in Dates /\ row[r].to \in Dates /\ row[r].active \in BOOLEAN
  BY DEF TaskInv, Rows
<1>5. WantedDates(r).from \in Dates /\ WantedDates(r).to \in Dates
  BY <1>2, <1>3, <1>4 DEF WantedDates, Given
<1>6. Fields(r).active \in BOOLEAN
  BY <1>2, <1>4 DEF Fields, Given
<1> QED
  BY <1>5, <1>6 DEF Fields

-----------------------------------------------------------------------------
(* The steps *)

\* The steps that only read: nothing is committed.
Reads(r) ==
    Start(r) \/ ResolvePeriod(r) \/ ReadOriginal(r) \/ ReadPeriod(r) \/ CheckRules(r) \/ Deactivate(r)

\* A refusal leaves everything but the request as it was.
LEMMA InvRefuse ==
    ASSUME PeriodInv, NEW r \in Calls, stage[r] \in InFlight, Refuse(r)
    PROVE  PeriodInv'
<1>1. stage' = [stage EXCEPT ![r] = "refused"]
      /\ UNCHANGED <<task, named, row, visible, period, locked, entry, outrun, late>>
  BY DEF Refuse, periodHistory
<1>2. PeriodTypeOK'
  BY <1>1 DEF PeriodInv, PeriodTypeOK, Stages
<1>3. TaskInv'
  BY <1>1 DEF PeriodInv, PeriodTypeOK, TaskInv, InFlight
<1>4. ReadInv'
  BY <1>1 DEF PeriodInv, PeriodTypeOK, ReadInv, Informed, KnowsRow, KnowsRules, KnowsOriginal, RulesAllow, WantedDates, Overlapping, Existing, EntriesOf, Posted,
     Reversed
<1>5. PeriodsConsistent' /\ ReversedOnce'
  BY <1>1 DEF PeriodInv, PeriodsConsistent, UniqueActive, Existing, Posted, ReversedOnce
<1> QED
  BY <1>2, <1>3, <1>4, <1>5 DEF PeriodInv

\* A step that reads changes the request alone: it suffices to look at what that request
\* knows.
LEMMA InvReads ==
    ASSUME PeriodInv, NEW r \in Calls, Reads(r)
    PROVE  PeriodInv'
<1>0. ASSUME Refuse(r), stage[r] \in InFlight PROVE PeriodInv'
  BY <1>0, InvRefuse
<1> SUFFICES ASSUME ~ Refuse(r) PROVE PeriodInv'
  BY <1>0 DEF Reads, Start, ResolvePeriod, ReadOriginal, ReadPeriod, CheckRules, Deactivate, InFlight,
     Refuse, PeriodInv, PeriodTypeOK
<1>1. UNCHANGED <<period, locked, entry, outrun, late>>
  BY DEF Reads, Start, ResolvePeriod, ReadOriginal, ReadPeriod, CheckRules, Deactivate, Refuse, periodHistory
<1>2. \A q \in Calls \ {r} :
        /\ stage'[q] = stage[q] /\ task'[q] = task[q] /\ named'[q] = named[q] /\ row'[q] = row[q]
  BY DEF Reads, Start, ResolvePeriod, ReadOriginal, ReadPeriod, CheckRules, Deactivate, Refuse, PeriodInv,
     PeriodTypeOK
<1>3. PeriodsConsistent' /\ ReversedOnce'
  BY <1>1 DEF PeriodInv, PeriodsConsistent, UniqueActive, Existing, Posted, ReversedOnce
<1>4. ASSUME NEW q \in Calls \ {r}
      PROVE  RulesAllow(q)' = RulesAllow(q) /\ Reversed(task[q].target)' = Reversed(task[q].target)
  BY <1>1, <1>2 DEF RulesAllow, WantedDates, Overlapping, Existing, EntriesOf, Posted, Reversed
<1>5. r \notin outrun => Informed(r)
  BY DEF PeriodInv, ReadInv
<1>6. ASSUME r \notin outrun => Informed(r)' PROVE ReadInv'
  <2>1. ASSUME NEW q \in Calls \ {r} PROVE Informed(q)' <=> Informed(q)
    BY <1>1, <1>2, <1>4 DEF Informed, KnowsRow, KnowsRules, KnowsOriginal
  <2> QED
    BY <1>1, <1>6, <2>1 DEF PeriodInv, ReadInv
<1>7. CASE Start(r)
  <2> PICK j \in Tasks :
        /\ task' = [task EXCEPT ![r] = j]
        /\ named' = [named EXCEPT ![r] = j.period]
        /\ stage' = [stage EXCEPT ![r] = IF j.op \in {"post", "reverse"} THEN "begun"
                                   ELSE IF j.op = "create" THEN "read"
                                   ELSE IF j.op \in {"lock", "unlock"} THEN "checked"
                                   ELSE "aimed"]
    BY <1>7 DEF Start
  <2>1. UNCHANGED <<row, visible>> /\ stage[r] = "idle"
    BY <1>7 DEF Start
  <2>2. PeriodTypeOK'
    BY <1>1, <2>1, TaskTypes DEF PeriodInv, PeriodTypeOK, Stages
  <2>3. TaskInv'
    BY <1>1, <2>1, TaskTypes DEF PeriodInv, PeriodTypeOK, TaskInv
  <2>4. Informed(r)'
    BY <2>1, TaskTypes DEF PeriodInv, PeriodTypeOK, Informed, KnowsRow, KnowsRules, KnowsOriginal
  <2> QED
    BY <1>3, <1>6, <2>2, <2>3, <2>4 DEF PeriodInv
<1>8. CASE ResolvePeriod(r)
  <2> PICK p \in IF task[r].period = Unset THEN {q \in Existing : Covers(q, task[r].date)} ELSE {task[r].period} :
        named' = [named EXCEPT ![r] = p]
    BY <1>8 DEF ResolvePeriod
  <2>1. stage' = [stage EXCEPT ![r] = "aimed"] /\ UNCHANGED <<task, row, visible>> /\ task[r].op = "post"
        /\ stage[r] = "begun"
    BY <1>8 DEF ResolvePeriod
  <2>2. p \in Periods
    <3>1. task[r].period \in Periods \cup {Unset}
      BY <2>1, TaskTypes DEF PeriodInv, TaskInv
    <3> QED
      BY <3>1 DEF Existing
  <2>3. PeriodTypeOK'
    BY <1>1, <2>1, <2>2 DEF PeriodInv, PeriodTypeOK, Stages
  <2>4. TaskInv'
    BY <1>1, <2>1, <2>2 DEF PeriodInv, PeriodTypeOK, TaskInv
  <2>5. Informed(r)'
    BY <2>1 DEF PeriodInv, PeriodTypeOK, Informed, KnowsRow, KnowsRules, KnowsOriginal
  <2> QED
    BY <1>3, <1>6, <2>3, <2>4, <2>5 DEF PeriodInv
<1>9. CASE ReadOriginal(r)
  <2>1. /\ stage' = [stage EXCEPT ![r] = "aimed"] /\ UNCHANGED <<task, named, row, visible>>
        /\ task[r].op = "reverse" /\ stage[r] = "begun" /\ ~ Reversed(task[r].target)
    BY <1>9 DEF ReadOriginal
  <2>2. PeriodTypeOK'
    BY <1>1, <2>1 DEF PeriodInv, PeriodTypeOK, Stages
  <2>3. TaskInv'
    BY <1>1, <2>1 DEF PeriodInv, PeriodTypeOK, TaskInv
  <2>4. Informed(r)'
    BY <1>1, <2>1 DEF PeriodInv, PeriodTypeOK, Reversed, Posted, Informed, KnowsRow, KnowsRules, KnowsOriginal
  <2> QED
    BY <1>3, <1>6, <2>2, <2>3, <2>4 DEF PeriodInv
<1>10. CASE ReadPeriod(r)
  <2> DEFINE p == period[named[r]]
             op == task[r].op
             next == IF op = "close" /\ p.status = "closed" THEN "done"
                     ELSE IF op \in {"activate", "reopen"} THEN "checked" ELSE "read"
  <2>1. /\ stage[r] = "aimed" /\ p # Absent /\ (op \in NeedsOpen => p.status = "open")
        /\ row' = [row EXCEPT ![r] = p] /\ stage' = [stage EXCEPT ![r] = next]
        /\ UNCHANGED <<task, named, visible>>
    BY <1>10 DEF ReadPeriod
  <2>2. op \notin {"create", "lock", "unlock"} /\ named[r] \in Periods /\ p \in Rows
    BY <2>1 DEF PeriodInv, PeriodTypeOK, TaskInv
  <2>3. PeriodTypeOK'
    BY <1>1, <2>1, <2>2 DEF PeriodInv, PeriodTypeOK, Stages
  <2>4. TaskInv'
    BY <1>1, <2>1, <2>2 DEF PeriodInv, PeriodTypeOK, TaskInv
  <2>5. r \notin outrun => Informed(r)'
    <3>1. Reversed(task[r].target)' = Reversed(task[r].target)
      BY <1>1, <2>1 DEF Reversed, Posted
    <3> QED
      BY <1>1, <1>5, <2>1, <2>2, <3>1 DEF PeriodInv, PeriodTypeOK, Informed, KnowsRow, KnowsRules, KnowsOriginal
  <2> QED
    BY <1>3, <1>6, <2>3, <2>4, <2>5 DEF PeriodInv
<1>11. CASE CheckRules(r) \/ Deactivate(r)
  <2>1. /\ stage[r] = "read" /\ stage' = [stage EXCEPT ![r] = "checked"] /\ RulesAllow(r) /\ visible' = visible
        \/ /\ stage[r] = "checked" /\ stage' = [stage EXCEPT ![r] = "deactivated"]
           /\ visible' = [visible EXCEPT ![r] = Existing]
    BY <1>11 DEF CheckRules, Deactivate
  <2>2. UNCHANGED <<task, named, row>>
    BY <1>11 DEF CheckRules, Deactivate
  <2>3. PeriodTypeOK'
    BY <1>1, <2>1, <2>2 DEF PeriodInv, PeriodTypeOK, Stages, Existing
  <2>4. TaskInv'
    BY <1>1, <2>1, <2>2 DEF PeriodInv, PeriodTypeOK, TaskInv
  <2>5. r \notin outrun => Informed(r)'
    <3>1. Reversed(task[r].target)' = Reversed(task[r].target) /\ RulesAllow(r)' = RulesAllow(r)
      BY <1>1, <2>2 DEF RulesAllow, WantedDates, Overlapping, Existing, EntriesOf, Posted, Reversed
    <3> QED
      BY <1>1, <1>5, <2>1, <2>2, <3>1 DEF PeriodInv, PeriodTypeOK, Informed, KnowsRow, KnowsRules, KnowsOriginal
  <2> QED
    BY <1>3, <1>6, <2>3, <2>4, <2>5 DEF PeriodInv
<1> QED
  BY <1>7, <1>8, <1>9, <1>10, <1>11 DEF Reads

\* A request that may write stands at the end of its checks.
LEMMA WritableStages ==
    ASSUME NEW r \in Calls, Writable(r)
    PROVE  /\ stage[r] \in {"checked", "deactivated"}
           /\ task[r].op \notin {"create", "update", "activate"} => stage[r] = "checked"
BY DEF Writable, MakesActive

\* Whoever commits overtakes all that have read, so nobody is left whose knowledge could
\* have become wrong.
LEMMA InvCommitted ==
    ASSUME PeriodInv, NEW r \in Calls, Writable(r), Committed(r),
           UNCHANGED <<task, named, row, visible>>,
           \A q \in Calls \ {r} : entry'[q] = entry[q]
    PROVE  /\ TaskInv' /\ ReadInv'
           /\ stage' \in [Calls -> Stages] /\ outrun' \in SUBSET Calls
           /\ outrun \subseteq outrun'
           /\ r \in outrun' <=> r \in outrun
<1>1. /\ stage' = [stage EXCEPT ![r] = "done"]
      /\ outrun' = outrun \cup {u \in Calls \ {r} : HasRead(u)}
  BY DEF Committed
<1>2. TaskInv'
  BY <1>1, WritableStages DEF PeriodInv, PeriodTypeOK, TaskInv
<1>3. ASSUME NEW q \in Calls \ outrun' PROVE Informed(q)'
  <2>1. CASE q = r
    BY <1>1, <2>1 DEF PeriodInv, PeriodTypeOK, Informed, KnowsRow, KnowsRules, KnowsOriginal
  <2>2. CASE q # r
    <3>1. stage'[q] = stage[q] /\ ~ HasRead(q)
      BY <1>1, <2>2 DEF PeriodInv, PeriodTypeOK
    <3> QED
      BY <3>1 DEF HasRead, Informed, KnowsRow, KnowsRules, KnowsOriginal
  <2> QED
    BY <2>1, <2>2
<1>4. ReadInv'
  BY <1>3 DEF ReadInv
<1>5. stage' \in [Calls -> Stages] /\ outrun' \in SUBSET Calls
  BY <1>1 DEF PeriodInv, PeriodTypeOK, Stages
<1> QED
  BY <1>1, <1>2, <1>4, <1>5

\* A commit that writes one card, and deactivates others on the way, keeps cards and ledger
\* together if what it writes is right.
LEMMA ConsistentWrite ==
    ASSUME PeriodInv, PeriodTypeOK', NEW p \in Periods, UniqueActive(period'), entry' = entry,
           late \subseteq late', period'[p] # Absent,
           \A x \in Periods \ {p} :
               /\ period'[x] = Absent <=> period[x] = Absent
               /\ period[x] # Absent =>
                     /\ period'[x].status = period[x].status
                     /\ period'[x].from = period[x].from /\ period'[x].to = period[x].to
                     /\ period'[x].active => period[x].active,
           p \notin late' =>
               /\ period'[p].active => period'[p].status = "open"
               /\ \A x \in Existing \ (late \cup {p}) : ~ Intersect(period[x], period'[p])
    PROVE  PeriodsConsistent'
<1>1. Existing \subseteq Existing' /\ \A x \in Existing' : x # p => x \in Existing
  BY DEF Existing
<1>2. \A r \in Posted' : entry'[r].period \in Existing'
  BY <1>1 DEF PeriodInv, PeriodsConsistent, Posted
<1>3. ASSUME NEW x \in Existing' \ late', period'[x].active PROVE period'[x].status = "open"
  BY <1>1, <1>3 DEF PeriodInv, PeriodsConsistent, Existing
<1>4. ASSUME NEW x \in Existing' \ late', NEW y \in Existing' \ late', x # y
      PROVE  ~ Intersect(period'[x], period'[y])
  <2>1. x \in Periods /\ y \in Periods /\ period'[x] \in Rows /\ period'[y] \in Rows
    BY DEF PeriodTypeOK, Existing
  <2>2. /\ period'[x].from \in Int /\ period'[x].to \in Int
        /\ period'[y].from \in Int /\ period'[y].to \in Int
    BY <2>1, DatesAssumption DEF Rows
  <2>3. CASE x # p /\ y # p
    <3>1. x \in Existing \ late /\ y \in Existing \ late
      BY <1>1, <2>3
    <3>2. ~ Intersect(period[x], period[y])
      BY <1>4, <3>1 DEF PeriodInv, PeriodsConsistent
    <3>3. /\ period'[x].from = period[x].from /\ period'[x].to = period[x].to
          /\ period'[y].from = period[y].from /\ period'[y].to = period[y].to
      BY <2>1, <2>3, <3>1 DEF Existing
    <3> QED
      BY <3>2, <3>3 DEF Intersect
  <2>4. CASE y = p
    <3>1. x \in Existing \ (late \cup {p}) /\ p \notin late'
      BY <1>1, <1>4, <2>4
    <3>2. ~ Intersect(period[x], period'[p])
      BY <3>1
    <3>3. period'[x].from = period[x].from /\ period'[x].to = period[x].to
      BY <2>1, <3>1 DEF Existing
    <3> QED
      BY <2>4, <3>2, <3>3 DEF Intersect
  <2>5. CASE x = p
    <3>1. y \in Existing \ (late \cup {p}) /\ p \notin late'
      BY <1>1, <1>4, <2>5
    <3>2. ~ Intersect(period[y], period'[p])
      BY <3>1
    <3>3. period'[y].from = period[y].from /\ period'[y].to = period[y].to
      BY <2>1, <3>1 DEF Existing
    <3> QED
      BY <2>2, <2>5, <3>2, <3>3 DEF Intersect
  <2> QED
    BY <2>3, <2>4, <2>5
<1> QED
  BY <1>2, <1>3, <1>4 DEF PeriodsConsistent

\* Who posts nothing reverses nothing.
LEMMA ReversedOnceKept ==
    ASSUME PeriodInv, entry' = entry, outrun \subseteq outrun'
    PROVE  ReversedOnce'
BY DEF PeriodInv, ReversedOnce, Posted

LEMMA InvWriteCard ==
    ASSUME PeriodInv, NEW r \in Calls, Writable(r), task[r].op \in {"create", "update"},
           NEW p \in Periods, NEW status \in {"open", "closed"},
           task[r].op = "create" => p \notin Existing /\ status = "open",
           task[r].op = "update" => p = named[r] /\ p \in Existing /\ status = period[p].status,
           WritePeriodCard(r, p, status)
    PROVE  PeriodInv'
<1> DEFINE fields == [status |-> status, active |-> Fields(r).active,
                    from |-> Fields(r).from, to |-> Fields(r).to]
           table == [Deactivated(period, visible[r]) EXCEPT ![p] = fields]
<1>1. CASE Refuse(r)
  BY <1>1, InvRefuse, WritableStages DEF InFlight
<1>2. CASE ~ Refuse(r)
  <2>1. /\ UniqueActive(table) /\ period' = table /\ Committed(r) /\ Marked(r, p)
        /\ UNCHANGED <<task, named, row, visible, locked, entry>>
    BY <1>2 DEF WritePeriodCard
  <2>2. PeriodTypeOK /\ TaskInv
    BY DEF PeriodInv
  <2>3. stage[r] \in {"checked", "deactivated", "read"}
    BY WritableStages
  <2>4. fields \in Rows /\ fields.from = WantedDates(r).from /\ fields.to = WantedDates(r).to
    BY <2>2, <2>3, FieldsType DEF Rows
  <2>5. /\ period' \in [Periods -> Rows \cup {Absent}] /\ period'[p] = fields
        /\ \A x \in Periods \ {p} : period'[x] = Deactivated(period, visible[r])[x]
    <3>1. Deactivated(period, visible[r]) \in [Periods -> Rows \cup {Absent}]
      <4>1. \A x \in Periods : Deactivated(period, visible[r])[x] \in Rows \cup {Absent}
        BY <2>2, DeactivatedRows
      <4> QED
        BY <4>1 DEF Deactivated
    <3> HIDE DEF fields
    <3> QED
      BY <2>1, <2>4, <3>1
  <2> HIDE DEF fields, table
  <2>6. late \subseteq late' /\ late' \in SUBSET Periods /\ (p \notin late' => r \notin outrun)
    BY <2>1, <2>2 DEF Marked, PeriodTypeOK
  <2>7. /\ TaskInv' /\ ReadInv' /\ stage' \in [Calls -> Stages] /\ outrun' \in SUBSET Calls
        /\ outrun \subseteq outrun'
    BY <2>1, InvCommitted
  <2>8. PeriodTypeOK'
    BY <2>1, <2>2, <2>5, <2>6, <2>7 DEF PeriodTypeOK
  <2>9. \A x \in Periods \ {p} :
            /\ period'[x] = Absent <=> period[x] = Absent
            /\ period[x] # Absent =>
                  /\ period'[x].status = period[x].status
                  /\ period'[x].from = period[x].from /\ period'[x].to = period[x].to
                  /\ period'[x].active => period[x].active
    BY <2>2, <2>5, DeactivatedRows
  <2>10. ASSUME p \notin late'
         PROVE  /\ period'[p].status = "open"
                /\ \A x \in Existing \ (late \cup {p}) : ~ Intersect(period[x], period'[p])
    <3>1. r \notin outrun
      BY <2>6, <2>10
    <3>2. RulesAllow(r)
      BY <3>1, WritableStages DEF PeriodInv, ReadInv, Informed, KnowsRules
    <3>3. Overlapping(WantedDates(r), named[r]) = {}
      BY <3>2 DEF RulesAllow
    <3>4. task[r].op = "create" => named[r] = Unset
      BY <2>2, WritableStages DEF TaskInv
    <3>5. ASSUME NEW x \in Existing \ (late \cup {p}) PROVE ~ Intersect(period[x], period'[p])
      <4>1. x \in Existing \ {named[r]}
        BY <3>4, RowsAssumption DEF Existing
      <4>2. ~ Intersect(period[x], WantedDates(r))
        BY <3>3, <4>1 DEF Overlapping
      <4> QED
        BY <2>4, <2>5, <4>2 DEF Intersect
    <3>6. status = "open"
      <4>1. CASE task[r].op = "update"
        <5>1. row[r] = period[named[r]] /\ row[r].status = "open"
          BY <3>1, <4>1, WritableStages DEF PeriodInv, ReadInv, Informed, KnowsRow, NeedsOpen
        <5> QED
          BY <4>1, <5>1
      <4> QED
        BY <4>1
    <3> QED
      BY <2>5, <3>5, <3>6 DEF fields
  <2>11. period'[p] # Absent /\ UniqueActive(period')
    BY <2>1, <2>4, <2>5, RowsAssumption
  <2>12. PeriodsConsistent'
    BY <2>1, <2>6, <2>8, <2>9, <2>10, <2>11, ConsistentWrite
  <2>13. ReversedOnce'
    BY <2>1, <2>7, ReversedOnceKept
  <2> QED
    BY <2>7, <2>8, <2>12, <2>13 DEF PeriodInv
<1> QED
  BY <1>1, <1>2

LEMMA InvCard ==
    ASSUME PeriodInv, NEW r \in Calls, CreatePeriod(r) \/ UpdatePeriod(r)
    PROVE  PeriodInv'
<1>1. CASE CreatePeriod(r)
  <2> PICK p \in Periods \ Existing : WritePeriodCard(r, p, "open")
    BY <1>1 DEF CreatePeriod
  <2>1. Writable(r) /\ task[r].op = "create"
    BY <1>1 DEF CreatePeriod
  <2> QED
    BY <2>1, InvWriteCard
<1>2. CASE UpdatePeriod(r)
  <2>1. Writable(r) /\ task[r].op = "update"
    BY <1>2 DEF UpdatePeriod
  <2>2. CASE named[r] \in Existing
    <3>1. WritePeriodCard(r, named[r], period[named[r]].status)
      BY <1>2, <2>2 DEF UpdatePeriod
    <3>2. named[r] \in Periods /\ period[named[r]].status \in {"open", "closed"}
      BY <2>2 DEF Existing, PeriodInv, PeriodTypeOK, Rows
    <3> QED
      BY <2>1, <2>2, <3>1, <3>2, InvWriteCard
  <2>3. CASE named[r] \notin Existing
    <3>1. Refuse(r)
      BY <1>2, <2>3 DEF UpdatePeriod
    <3> QED
      BY <2>1, <3>1, InvRefuse, WritableStages DEF InFlight
  <2> QED
    BY <2>2, <2>3
<1> QED
  BY <1>1, <1>2

LEMMA InvActivate ==
    ASSUME PeriodInv, NEW r \in Calls, ActivatePeriod(r)
    PROVE  PeriodInv'
<1> DEFINE p == named[r]
           table == [Deactivated(period, visible[r]) EXCEPT ![p].active = TRUE]
<1>1. Writable(r) /\ task[r].op = "activate" /\ PeriodTypeOK /\ TaskInv
  BY DEF ActivatePeriod, PeriodInv
<1>2. CASE Refuse(r)
  BY <1>1, <1>2, InvRefuse, WritableStages DEF InFlight
<1>3. CASE ~ Refuse(r)
  <2>1. /\ p \in Existing /\ UniqueActive(table) /\ period' = table /\ Committed(r) /\ Marked(r, p)
        /\ UNCHANGED <<task, named, row, visible, locked, entry>>
    BY <1>3 DEF ActivatePeriod
  <2>2. p \in Periods /\ period[p] # Absent
    BY <2>1 DEF Existing
  <2> DEFINE old == Deactivated(period, visible[r])
  <2>3. \A x \in Periods : old[x] \in Rows \cup {Absent}
    BY <1>1, DeactivatedRows
  <2>4. old[p] \in Rows
    BY <1>1, <2>2, DeactivatedRows
  <2>5. old \in [Periods -> Rows \cup {Absent}]
    BY <2>3 DEF Deactivated
  <2>6. /\ period' \in [Periods -> Rows \cup {Absent}]
        /\ period'[p] = [old[p] EXCEPT !.active = TRUE] /\ period'[p] \in Rows
        /\ \A x \in Periods \ {p} : period'[x] = old[x]
    <3>1. [old[p] EXCEPT !.active = TRUE] \in Rows
      BY <2>4 DEF Rows
    <3>2. table = [old EXCEPT ![p] = [old[p] EXCEPT !.active = TRUE]]
      OBVIOUS
    <3> HIDE DEF old, table
    <3> QED
      BY <2>1, <2>2, <2>5, <3>1, <3>2
  <2>7. /\ period'[p].status = period[p].status
        /\ period'[p].from = period[p].from /\ period'[p].to = period[p].to
    <3>1. /\ old[p].status = period[p].status
          /\ old[p].from = period[p].from /\ old[p].to = period[p].to
      BY <1>1, <2>2, DeactivatedRows
    <3> HIDE DEF old
    <3> QED
      BY <2>4, <2>6, <3>1 DEF Rows
  <2> HIDE DEF table
  <2>8. /\ late \subseteq late' /\ late' \in SUBSET Periods
        /\ p \notin late' => r \notin outrun /\ p \notin late
    BY <1>1, <2>1, <2>2 DEF Marked, PeriodTypeOK
  <2>9. /\ TaskInv' /\ ReadInv' /\ stage' \in [Calls -> Stages] /\ outrun' \in SUBSET Calls
        /\ outrun \subseteq outrun'
    BY <1>1, <2>1, InvCommitted
  <2>10. PeriodTypeOK'
    BY <1>1, <2>1, <2>6, <2>8, <2>9 DEF PeriodTypeOK
  <2>11. \A x \in Periods \ {p} :
            /\ period'[x] = Absent <=> period[x] = Absent
            /\ period[x] # Absent =>
                  /\ period'[x].status = period[x].status
                  /\ period'[x].from = period[x].from /\ period'[x].to = period[x].to
                  /\ period'[x].active => period[x].active
    BY <1>1, <2>6, DeactivatedRows
  <2>12. ASSUME p \notin late'
         PROVE  /\ period'[p].status = "open"
                /\ \A x \in Existing \ (late \cup {p}) : ~ Intersect(period[x], period'[p])
    <3>1. row[r] = period[p] /\ row[r].status = "open"
      BY <1>1, <2>8, <2>12, WritableStages DEF PeriodInv, ReadInv, Informed, KnowsRow, NeedsOpen
    <3>2. \A x \in Existing \ (late \cup {p}) : ~ Intersect(period[x], period[p])
      BY <2>1, <2>8, <2>12 DEF PeriodInv, PeriodsConsistent
    <3> QED
      BY <2>7, <3>1, <3>2 DEF Intersect
  <2>13. period'[p] # Absent /\ UniqueActive(period')
    BY <2>1, <2>6, RowsAssumption
  <2>14. PeriodsConsistent'
    BY <2>1, <2>2, <2>8, <2>10, <2>11, <2>12, <2>13, ConsistentWrite
  <2>15. ReversedOnce'
    BY <2>1, <2>9, ReversedOnceKept
  <2> QED
    BY <2>9, <2>10, <2>14, <2>15 DEF PeriodInv
<1> QED
  BY <1>2, <1>3

LEMMA InvSetStatus ==
    ASSUME PeriodInv, NEW r \in Calls, SetStatus(r)
    PROVE  PeriodInv'
<1> DEFINE p == named[r]
           new == IF period[p] = Absent THEN Absent
                  ELSE IF task[r].op = "close" THEN ClosedRow(period[p]) ELSE ReopenedRow(period[p])
<1>1. /\ Writable(r) /\ task[r].op \in {"close", "reopen"} /\ Committed(r) /\ Marked(r, p)
      /\ UNCHANGED <<task, named, row, visible, locked, entry>>
      /\ PeriodTypeOK /\ TaskInv
  BY DEF SetStatus, PeriodInv
<1>2. p \in Periods
  BY <1>1, WritableStages DEF TaskInv
<1>3. period[p] # Absent =>
        /\ new \in Rows /\ new.from = period[p].from /\ new.to = period[p].to
        /\ new.active => period[p].active /\ (period[p].status = "open" => new.status = "open")
  <2> SUFFICES ASSUME period[p] # Absent
               PROVE  /\ new \in Rows /\ new.from = period[p].from /\ new.to = period[p].to
                      /\ new.active => period[p].active /\ (period[p].status = "open" => new.status = "open")
    OBVIOUS
  <2>1. period[p] \in Rows
    BY <1>1, <1>2 DEF PeriodTypeOK
  <2>2. /\ ClosedRow(period[p]) \in Rows /\ ClosedRow(period[p]).active = FALSE
        /\ ClosedRow(period[p]).from = period[p].from /\ ClosedRow(period[p]).to = period[p].to
    BY <2>1 DEF Rows, ClosedRow
  <2>3. /\ ReopenedRow(period[p]) \in Rows /\ ReopenedRow(period[p]).active = period[p].active
        /\ ReopenedRow(period[p]).from = period[p].from /\ ReopenedRow(period[p]).to = period[p].to
        /\ ReopenedRow(period[p]).status = "open"
    BY <2>1 DEF Rows, ReopenedRow
  <2> QED
    BY <2>2, <2>3
<1>4. new = Absent <=> period[p] = Absent
  BY <1>3, RowsAssumption
<1>5. period' = [period EXCEPT ![p] = new]
  BY <1>1, <1>2 DEF SetStatus, PeriodTypeOK
<1> HIDE DEF new
<1>6. /\ period' \in [Periods -> Rows \cup {Absent}] /\ period'[p] = new
      /\ \A x \in Periods \ {p} : period'[x] = period[x]
  BY <1>1, <1>2, <1>3, <1>4, <1>5 DEF PeriodTypeOK
<1>7. /\ late \subseteq late' /\ late' \in SUBSET Periods
      /\ p \notin late' => p \notin late
  BY <1>1, <1>2 DEF Marked, PeriodTypeOK
<1>8. /\ TaskInv' /\ ReadInv' /\ stage' \in [Calls -> Stages] /\ outrun' \in SUBSET Calls
      /\ outrun \subseteq outrun'
  BY <1>1, InvCommitted
<1>9. PeriodTypeOK'
  BY <1>1, <1>6, <1>7, <1>8 DEF PeriodTypeOK
<1>10. PeriodsConsistent'
  <2>1. CASE period[p] = Absent
    <3>1. period' = period
      BY <1>1, <1>2, <1>4, <1>5, <2>1 DEF PeriodTypeOK
    <3> QED
      BY <1>1, <1>7, <3>1 DEF PeriodInv, PeriodsConsistent, Existing, Posted, UniqueActive
  <2>2. CASE period[p] # Absent
    <3>1. UniqueActive(period')
      BY <1>2, <1>3, <1>6, <2>2 DEF PeriodInv, PeriodsConsistent, UniqueActive
    <3>2. ASSUME p \notin late'
          PROVE  \A x \in Existing \ (late \cup {p}) : ~ Intersect(period[x], period'[p])
      <4>1. \A x \in Existing \ (late \cup {p}) : ~ Intersect(period[x], period[p])
        BY <1>2, <1>7, <2>2, <3>2 DEF PeriodInv, PeriodsConsistent, Existing
      <4> QED
        BY <1>3, <1>6, <2>2, <4>1 DEF Intersect
    <3>3. period'[p] # Absent
      BY <1>4, <1>6, <2>2
    <3>4. ASSUME p \notin late' PROVE period'[p].active => period'[p].status = "open"
      <4>1. period[p].active => period[p].status = "open"
        BY <1>2, <1>7, <2>2, <3>4 DEF PeriodInv, PeriodsConsistent, Existing
      <4> QED
        BY <1>3, <1>6, <2>2, <4>1
    <3> QED
      BY <1>1, <1>2, <1>6, <1>7, <1>9, <3>1, <3>2, <3>3, <3>4, ConsistentWrite
  <2> QED
    BY <2>1, <2>2
<1>11. ReversedOnce'
  BY <1>1, <1>8, ReversedOnceKept
<1> QED
  BY <1>8, <1>9, <1>10, <1>11 DEF PeriodInv

LEMMA InvDelete ==
    ASSUME PeriodInv, NEW r \in Calls, DeletePeriod(r)
    PROVE  PeriodInv'
<1> DEFINE p == named[r]
<1>1. Writable(r) /\ task[r].op = "delete" /\ PeriodTypeOK /\ TaskInv
  BY DEF DeletePeriod, PeriodInv
<1>2. CASE Refuse(r)
  BY <1>1, <1>2, InvRefuse, WritableStages DEF InFlight
<1>3. CASE ~ Refuse(r)
  <2>1. /\ EntriesOf(p) = {} /\ period' = [period EXCEPT ![p] = Absent]
        /\ locked' = locked \ {p} /\ late' = late \ {p} /\ Committed(r)
        /\ UNCHANGED <<task, named, row, visible, entry>>
    BY <1>3 DEF DeletePeriod
  <2>2. p \in Periods
    BY <1>1, WritableStages DEF TaskInv
  <2>3. /\ TaskInv' /\ ReadInv' /\ stage' \in [Calls -> Stages] /\ outrun' \in SUBSET Calls
        /\ outrun \subseteq outrun'
    BY <1>1, <2>1, InvCommitted
  <2>4. PeriodTypeOK'
    BY <1>1, <2>1, <2>3 DEF PeriodTypeOK
  <2>5. Existing' = Existing \ {p} /\ \A x \in Existing' : period'[x] = period[x]
    BY <1>1, <2>1, <2>2 DEF PeriodTypeOK, Existing
  <2>6. UniqueActive(period')
    BY <1>1, <2>1, <2>2 DEF PeriodInv, PeriodsConsistent, UniqueActive, PeriodTypeOK
  <2>7. \A q \in Posted' : entry'[q].period \in Existing'
    BY <2>1, <2>5 DEF PeriodInv, PeriodsConsistent, EntriesOf, Posted
  <2>8. PeriodsConsistent'
    BY <2>1, <2>5, <2>6, <2>7 DEF PeriodInv, PeriodsConsistent
  <2>9. ReversedOnce'
    BY <2>1, <2>3, ReversedOnceKept
  <2> QED
    BY <2>3, <2>4, <2>8, <2>9 DEF PeriodInv
<1> QED
  BY <1>2, <1>3

LEMMA InvSetModuleLock ==
    ASSUME PeriodInv, NEW r \in Calls, SetModuleLock(r)
    PROVE  PeriodInv'
<1>1. Writable(r) /\ task[r].op \in {"lock", "unlock"} /\ PeriodTypeOK /\ TaskInv
  BY DEF SetModuleLock, PeriodInv
<1>2. CASE Refuse(r)
  BY <1>1, <1>2, InvRefuse, WritableStages DEF InFlight
<1>3. CASE ~ Refuse(r)
  <2>1. /\ locked' \in {locked \cup {named[r]}, locked \ {named[r]}} /\ Committed(r)
        /\ UNCHANGED <<task, named, row, visible, period, entry, late>>
    BY <1>3 DEF SetModuleLock
  <2>2. named[r] \in Periods
    BY <1>1, WritableStages DEF TaskInv
  <2>3. /\ TaskInv' /\ ReadInv' /\ stage' \in [Calls -> Stages] /\ outrun' \in SUBSET Calls
        /\ outrun \subseteq outrun'
    BY <1>1, <2>1, InvCommitted
  <2>4. PeriodTypeOK'
    BY <1>1, <2>1, <2>2, <2>3 DEF PeriodTypeOK
  <2>5. PeriodsConsistent'
    BY <2>1 DEF PeriodInv, PeriodsConsistent, Existing, Posted, UniqueActive
  <2>6. ReversedOnce'
    BY <2>1, <2>3, ReversedOnceKept
  <2> QED
    BY <2>3, <2>4, <2>5, <2>6 DEF PeriodInv
<1> QED
  BY <1>2, <1>3

LEMMA InvEnter ==
    ASSUME PeriodInv, NEW r \in Calls, InsertEntry(r) \/ InsertReversal(r)
    PROVE  PeriodInv'
<1> DEFINE new == [period |-> named[r], reverses |-> task[r].target]
<1>1. /\ Writable(r) /\ task[r].op \in {"post", "reverse"} /\ Enter(r) /\ stage[r] = "checked"
      /\ PeriodTypeOK /\ TaskInv
  BY WritableStages DEF InsertEntry, InsertReversal, PeriodInv
<1>2. CASE Refuse(r)
  BY <1>1, <1>2, InvRefuse DEF InFlight
<1>3. CASE ~ Refuse(r)
  <2>1. /\ named[r] \in Existing /\ entry' = [entry EXCEPT ![r] = new] /\ Committed(r)
        /\ UNCHANGED <<task, named, row, visible, period, locked, late>>
    BY <1>1, <1>3 DEF Enter
  <2>2. /\ task[r] \in Tasks /\ task[r].target \in Calls \cup {Unset}
        /\ task[r].op = "reverse" <=> task[r].target # Unset
    BY <1>1, TaskTypes DEF TaskInv
  <2>3. new \in Entries
    BY <2>1, <2>2 DEF Existing, Entries
  <2>4. /\ TaskInv' /\ ReadInv' /\ stage' \in [Calls -> Stages] /\ outrun' \in SUBSET Calls
        /\ outrun \subseteq outrun' /\ (r \in outrun' <=> r \in outrun)
    <3>1. \A q \in Calls \ {r} : entry'[q] = entry[q]
      BY <1>1, <2>1 DEF PeriodTypeOK
    <3> QED
      BY <1>1, <2>1, <3>1, InvCommitted
  <2>5. PeriodTypeOK'
    BY <1>1, <2>1, <2>3, <2>4 DEF PeriodTypeOK
  <2>6. /\ entry'[r] = new /\ \A q \in Calls \ {r} : entry'[q] = entry[q]
    BY <1>1, <2>1 DEF PeriodTypeOK
  <2>7. PeriodsConsistent'
    <3>1. \A q \in Posted' : entry'[q].period \in Existing'
      BY <2>1, <2>6 DEF PeriodInv, PeriodsConsistent, Posted, Existing
    <3> QED
      BY <2>1, <3>1 DEF PeriodInv, PeriodsConsistent, Existing, UniqueActive
  <2>8. r \notin outrun /\ task[r].target # Unset => ~ Reversed(task[r].target)
    BY <1>1, <2>2 DEF PeriodInv, ReadInv, Informed, KnowsOriginal
  <2>9. ReversedOnce'
    <3> SUFFICES ASSUME NEW a \in Posted' \ outrun', NEW b \in Posted' \ outrun',
                        entry'[a].reverses # Unset, entry'[a].reverses = entry'[b].reverses, a # b
                 PROVE  FALSE
      BY DEF ReversedOnce
    <3>1. CASE a # r /\ b # r
      BY <2>4, <2>6, <3>1 DEF PeriodInv, ReversedOnce, Posted
    <3>2. CASE a = r
      <4>1. b \in Posted /\ entry[b].reverses = task[r].target
        BY <2>6, <3>2 DEF Posted
      <4> QED
        BY <2>4, <2>6, <2>8, <3>2, <4>1 DEF Reversed
    <3>3. CASE b = r
      <4>1. a \in Posted /\ entry[a].reverses = task[r].target
        BY <2>6, <3>3 DEF Posted
      <4> QED
        BY <2>4, <2>6, <2>8, <3>3, <4>1 DEF Reversed
    <3> QED
      BY <3>1, <3>2, <3>3
  <2> QED
    BY <2>4, <2>5, <2>7, <2>9 DEF PeriodInv
<1> QED
  BY <1>2, <1>3

-----------------------------------------------------------------------------
(* The specification *)

LEMMA InvInit == PeriodInit => PeriodInv
<1> SUFFICES ASSUME PeriodInit PROVE PeriodInv
  OBVIOUS
<1>1. PeriodTypeOK
  BY RowsAssumption DEF PeriodInit, PeriodTypeOK, Stages
<1>2. TaskInv /\ ReadInv
  BY DEF PeriodInit, TaskInv, ReadInv, Informed, KnowsRow, KnowsRules, KnowsOriginal
<1>3. ReversedOnce
  BY DEF PeriodInit, ReversedOnce, Posted
<1>4. PeriodsConsistent
  <2>1. ASSUME NEW p \in Existing, NEW q \in Existing, p # q PROVE ~ Intersect(period[p], period[q])
    <3>1. period = FirstPeriods /\ p \in Periods /\ q \in Periods
      BY DEF PeriodInit, Existing
    <3>2. FirstPeriods[p] \in Rows /\ FirstPeriods[q] \in Rows
      BY <3>1, RowsAssumption DEF Existing
    <3>3. /\ FirstPeriods[p].from \in Int /\ FirstPeriods[p].to \in Int
          /\ FirstPeriods[q].from \in Int /\ FirstPeriods[q].to \in Int
      BY <3>2, DatesAssumption DEF Rows
    <3>4. \/ FirstPeriods[p].to < FirstPeriods[q].from
          \/ FirstPeriods[q].to < FirstPeriods[p].from
      BY <2>1, <3>1, FirstRowsAssumption DEF Existing
    <3> QED
      BY <3>1, <3>3, <3>4 DEF Intersect
  <2>2. UniqueActive(period) /\ \A p \in Existing : period[p].active => period[p].status = "open"
    BY FirstRowsAssumption DEF PeriodInit, UniqueActive, Existing
  <2>3. Posted = {}
    BY DEF PeriodInit, Posted
  <2> QED
    BY <2>1, <2>2, <2>3 DEF PeriodsConsistent
<1> QED
  BY <1>1, <1>2, <1>3, <1>4 DEF PeriodInv

LEMMA InvNext == PeriodInv /\ [PeriodNext]_periodVars => PeriodInv'
<1> SUFFICES ASSUME PeriodInv, [PeriodNext]_periodVars PROVE PeriodInv'
  OBVIOUS
<1>1. CASE UNCHANGED periodVars
  BY <1>1 DEF periodVars, periodHistory, PeriodInv, PeriodTypeOK, TaskInv, ReadInv, Informed, KnowsRow, KnowsRules, KnowsOriginal,
     RulesAllow, WantedDates, Overlapping, EntriesOf, Reversed, PeriodsConsistent, UniqueActive, Existing,
     Posted, ReversedOnce
<1>2. ASSUME NEW r \in Calls, Reads(r) PROVE PeriodInv'
  BY <1>2, InvReads
<1>3. ASSUME NEW r \in Calls, CreatePeriod(r) \/ UpdatePeriod(r) PROVE PeriodInv'
  BY <1>3, InvCard
<1>4. ASSUME NEW r \in Calls, ActivatePeriod(r) PROVE PeriodInv'
  BY <1>4, InvActivate
<1>5. ASSUME NEW r \in Calls, DeletePeriod(r) PROVE PeriodInv'
  BY <1>5, InvDelete
<1>6. ASSUME NEW r \in Calls, SetStatus(r) PROVE PeriodInv'
  BY <1>6, InvSetStatus
<1>7. ASSUME NEW r \in Calls, SetModuleLock(r) PROVE PeriodInv'
  BY <1>7, InvSetModuleLock
<1>8. ASSUME NEW r \in Calls, InsertEntry(r) \/ InsertReversal(r) PROVE PeriodInv'
  BY <1>8, InvEnter
<1>9. ASSUME NEW r \in Calls, Abort(r) PROVE PeriodInv'
  BY <1>9, InvRefuse DEF Abort
<1> QED
  BY <1>1, <1>2, <1>3, <1>4, <1>5, <1>6, <1>7, <1>8, <1>9 DEF PeriodNext, AllAnswered, Reads

LEMMA PeriodInvariance == PeriodSpec => []PeriodInv
<1>1. PeriodInit => PeriodInv
  BY InvInit
<1>2. PeriodInv /\ [PeriodNext]_periodVars => PeriodInv'
  BY InvNext
<1> QED
  BY <1>1, <1>2, PTL DEF PeriodSpec

\* The types.
THEOREM PeriodTypeCorrect == PeriodSpec => []PeriodTypeOK
<1>1. PeriodInv => PeriodTypeOK
  BY DEF PeriodInv
<1> QED
  BY <1>1, PeriodInvariance, PTL

\* In every interleaving of create, update, activate, delete, close and reopen one period at
\* most is active and no period is deleted under an entry. Of the periods no overtaken request
\* has written, and of them alone, no two overlap and none is active while closed: two
\* requests that meet on unlocked reads do break both on a row they write.
THEOREM CardsAndLedgerAgree == PeriodSpec => []PeriodsConsistent
<1>1. PeriodInv => PeriodsConsistent
  BY DEF PeriodInv
<1> QED
  BY <1>1, PeriodInvariance, PTL

\* reverseJournal: of the requests nobody overtakes, one at most reverses an entry.
THEOREM NoSecondReversal == PeriodSpec => []ReversedOnce
<1>1. PeriodInv => ReversedOnce
  BY DEF PeriodInv
<1> QED
  BY <1>1, PeriodInvariance, PTL

\* Entries are written by the two insertions alone, cards by the commits of the period card.
LEMMA WhoWrites ==
    ASSUME PeriodNext
    PROVE  /\ entry' # entry => \E r \in Calls : InsertEntry(r) \/ InsertReversal(r)
           /\ period' # period =>
                 \E r \in Calls : CreatePeriod(r) \/ UpdatePeriod(r) \/ ActivatePeriod(r)
                                       \/ DeletePeriod(r) \/ SetStatus(r)
<1>1. ASSUME NEW r \in Calls, Reads(r) \/ SetModuleLock(r) \/ Abort(r)
      PROVE  entry' = entry /\ period' = period
  BY <1>1 DEF Reads, Start, ResolvePeriod, ReadOriginal, ReadPeriod, CheckRules, Deactivate,
     SetModuleLock, Abort, Refuse
<1>2. ASSUME NEW r \in Calls,
             CreatePeriod(r) \/ UpdatePeriod(r) \/ ActivatePeriod(r) \/ DeletePeriod(r) \/ SetStatus(r)
      PROVE  entry' = entry
  BY <1>2 DEF CreatePeriod, UpdatePeriod, WritePeriodCard, ActivatePeriod, DeletePeriod, SetStatus, Refuse
<1>3. ASSUME NEW r \in Calls, InsertEntry(r) \/ InsertReversal(r) PROVE period' = period
  BY <1>3 DEF InsertEntry, InsertReversal, Enter, Refuse
<1>4. CASE AllAnswered
  BY <1>4 DEF AllAnswered, periodVars
<1>5. CASE \E r \in Calls :
            \/ Reads(r) \/ SetModuleLock(r) \/ Abort(r)
            \/ CreatePeriod(r) \/ UpdatePeriod(r) \/ ActivatePeriod(r) \/ DeletePeriod(r) \/ SetStatus(r)
            \/ InsertEntry(r) \/ InsertReversal(r)
  BY <1>1, <1>2, <1>3, <1>5
<1> QED
  BY <1>4, <1>5 DEF PeriodNext, Reads

LEMMA PostStep ==
    ASSUME PeriodInv, PeriodNext, NEW r \in Calls \ outrun, entry'[r] # entry[r]
    PROVE  period[entry'[r].period].status = "open" /\ entry'[r].period \notin locked
<1> PICK q \in Calls : InsertEntry(q) \/ InsertReversal(q)
  BY WhoWrites
<1>1. Writable(q) /\ task[q].op \in {"post", "reverse"} /\ Enter(q) /\ stage[q] = "checked"
  BY WritableStages DEF InsertEntry, InsertReversal
<1>2. entry' = [entry EXCEPT ![q] = [period |-> named[q], reverses |-> task[q].target]]
  BY <1>1 DEF Enter, Refuse
<1>3. q = r /\ entry'[r].period = named[r]
  BY <1>2 DEF PeriodInv, PeriodTypeOK
<1>4. Informed(r)
  BY <1>1 DEF PeriodInv, ReadInv
<1>5. row[r] = period[named[r]] /\ row[r].status = "open"
  BY <1>1, <1>3, <1>4 DEF Informed, KnowsRow, NeedsOpen
<1>6. named[r] \notin locked
  BY <1>1, <1>3, <1>4 DEF Informed, KnowsRules, RulesAllow
<1> QED
  BY <1>3, <1>5, <1>6

LEMMA FrozenStep ==
    ASSUME PeriodInv, PeriodNext, \A r \in outrun : stage'[r] = stage[r],
           NEW p \in Existing \ late, period[p].status = "closed"
    PROVE  period'[p] \in {period[p], ReopenedRow(period[p])}
<1>1. p \in Periods /\ period[p] \in Rows /\ ~ period[p].active /\ PeriodTypeOK /\ TaskInv
  BY DEF PeriodInv, PeriodTypeOK, PeriodsConsistent, Existing
<1>2. \A ps : Deactivated(period, ps)[p] = period[p]
  BY <1>1, DeactivatedRows DEF Existing
<1> SUFFICES ASSUME period'[p] # period[p] PROVE period'[p] = ReopenedRow(period[p])
  OBVIOUS
<1> PICK r \in Calls : CreatePeriod(r) \/ UpdatePeriod(r) \/ ActivatePeriod(r)
                            \/ DeletePeriod(r) \/ SetStatus(r)
  BY WhoWrites
<1>3. Writable(r) /\ Committed(r)
  BY <1>1 DEF CreatePeriod, UpdatePeriod, WritePeriodCard, ActivatePeriod, DeletePeriod, SetStatus, Refuse
<1>4. r \notin outrun
  BY <1>1, <1>3, WritableStages DEF Committed, PeriodTypeOK
<1>5. Informed(r)
  BY <1>4 DEF PeriodInv, ReadInv
<1>6. task[r].op \in {"update", "activate", "delete"} /\ p = named[r] => FALSE
  BY <1>3, <1>5, WritableStages DEF Informed, KnowsRow, NeedsOpen
<1>7. CASE CreatePeriod(r) \/ UpdatePeriod(r)
  <2>0. PICK q \in Periods : p # q /\ \E status : WritePeriodCard(r, q, status)
    BY <1>1, <1>6, <1>7 DEF CreatePeriod, UpdatePeriod, Existing, Refuse
  <2> PICK status : WritePeriodCard(r, q, status)
    BY <2>0
  <2>1. period' = [Deactivated(period, visible[r]) EXCEPT ![q] =
                      [status |-> status, active |-> Fields(r).active,
                       from |-> Fields(r).from, to |-> Fields(r).to]]
    BY <1>1 DEF WritePeriodCard, Refuse
  <2>2. period'[p] = Deactivated(period, visible[r])[p]
    BY <1>1, <2>0, <2>1 DEF Deactivated
  <2> QED
    BY <1>2, <2>2
<1>8. CASE ActivatePeriod(r)
  <2>1. period' = [Deactivated(period, visible[r]) EXCEPT ![named[r]].active = TRUE]
        /\ task[r].op = "activate"
    BY <1>1, <1>8 DEF ActivatePeriod, Refuse
  <2>2. period'[p] = Deactivated(period, visible[r])[p]
    BY <1>1, <1>6, <2>1 DEF Deactivated
  <2> QED
    BY <1>2, <2>2
<1>9. CASE DeletePeriod(r)
  <2>1. period' = [period EXCEPT ![named[r]] = Absent] /\ task[r].op = "delete"
    BY <1>1, <1>9 DEF DeletePeriod, Refuse
  <2> QED
    BY <1>1, <1>6, <2>1 DEF PeriodTypeOK
<1>10. CASE SetStatus(r)
  <2>1. p = named[r] /\ period'[p] \in {ClosedRow(period[p]), ReopenedRow(period[p])}
    BY <1>1, <1>10, RowsAssumption DEF SetStatus, PeriodTypeOK
  <2>2. ClosedRow(period[p]) = period[p]
    BY <1>1 DEF ClosedRow, Rows
  <2> QED
    BY <2>1, <2>2
<1> QED
  BY <1>7, <1>8, <1>9, <1>10

\* postJournal and reverseJournal: a request nobody overtakes commits no entry into a closed
\* period, nor into one whose accounting module is locked.
THEOREM PostsIntoOpenPeriods == PeriodSpec => CheckedPostIntoOpenPeriod
<1>1. PeriodInv /\ [PeriodNext]_periodVars =>
        [\A r \in Calls \ outrun :
            entry'[r] # entry[r] =>
                /\ period[entry'[r].period].status = "open"
                /\ entry'[r].period \notin locked]_periodVars
  BY PostStep
<1> QED
  BY <1>1, PeriodInvariance, PTL DEF PeriodSpec, CheckedPostIntoOpenPeriod

\* updatePeriod, deletePeriod and the rest: in a step of a request nobody has overtaken, a
\* closed period that no overtaken request has written changes by being reopened and in no
\* other way. Left out are the steps of overtaken requests, whose stale write edits or deletes
\* a period closed in between, and the periods so written.
THEOREM ClosedPeriodsAreFrozen == PeriodSpec => ClosedPeriodFrozen
<1>1. PeriodInv /\ [PeriodNext]_periodVars =>
        [(\A r \in outrun : stage'[r] = stage[r]) =>
            \A p \in Existing \ late :
                period[p].status = "closed" => period'[p] \in {period[p], ReopenedRow(period[p])}]_periodVars
  BY FrozenStep
<1> QED
  BY <1>1, PeriodInvariance, PTL DEF PeriodSpec, ClosedPeriodFrozen
==============================================================================
