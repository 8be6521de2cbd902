--------------------------- MODULE PoolLife_proofs ---------------------------
(***************************************************************************)
(* Proofs about PoolLife: well-formed files, the memory that follows the   *)
(* record through crashes between and in the writes, the cooldown of a     *)
(* token, and prompts that tell nothing twice, for any pools, closes and   *)
(* bounds.                                                                 *)
(***************************************************************************)
EXTENDS PoolLife, FiniteSetTheorems, SequenceTheorems, TLAPS

-----------------------------------------------------------------------------
(* Sets of indices, sorted. *)

\* Each pair is ordered one way, and the order passes on.
Orders(R, K) ==
    /\ \A i \in K : <<i, i>> \notin R
    /\ \A i, j \in K : i # j => <<i, j>> \in R \/ <<j, i>> \in R
    /\ \A i, j, k \in K : <<i, j>> \in R /\ <<j, k>> \in R => <<i, k>> \in R

Before(K, R, i) == {j \in K : <<j, i>> \in R}

\* A finite set is sorted without gaps and repetitions: as many members come
\* before each as have been listed.
LEMMA SortedLists ==
    ASSUME NEW K, IsFiniteSet(K), NEW R, Orders(R, K)
    PROVE  /\ Cardinality(K) \in Nat
           /\ Sorted(K, R) \in [1 .. Cardinality(K) -> K]
           /\ \A k \in 1 .. Cardinality(K) : Cardinality(Before(K, R, Sorted(K, R)[k])) = k - 1
           /\ \A i \in K : \E k \in 1 .. Cardinality(K) : Sorted(K, R)[k] = i
           /\ \A i, j \in K : Cardinality(Before(K, R, i)) = Cardinality(Before(K, R, j)) => i = j
<1> DEFINE m == Cardinality(K)
           rank(i) == Cardinality(Before(K, R, i))
           f == [i \in K |-> rank(i) + 1]
           pick(k) == CHOOSE x \in K : rank(x) = k - 1
<1>1. m \in Nat /\ IsFiniteSet(1 .. m) /\ Cardinality(1 .. m) = m
    BY FS_CardinalityType, FS_Interval
<1>2. ASSUME NEW i \in K
      PROVE  /\ IsFiniteSet(Before(K, R, i)) /\ rank(i) \in Nat /\ rank(i) + 1 \in 1 .. m
    <2>1. Before(K, R, i) \in SUBSET (K \ {i})
        BY DEF Before, Orders
    <2>2. IsFiniteSet(K \ {i}) /\ Cardinality(K \ {i}) = m - 1
        BY FS_RemoveElement
    <2>3. IsFiniteSet(Before(K, R, i)) /\ rank(i) <= m - 1
        BY <2>1, <2>2, FS_Subset
    <2>4. rank(i) \in Nat
        BY <2>3, FS_CardinalityType
    <2> QED
        BY <1>1, <2>3, <2>4
<1>3. ASSUME NEW i \in K, NEW j \in K, <<i, j>> \in R
      PROVE  rank(i) # rank(j)
    <2>1. Before(K, R, i) \in SUBSET Before(K, R, j)
        BY <1>3 DEF Before, Orders
    <2>2. i \in Before(K, R, j) /\ i \notin Before(K, R, i)
        BY <1>3 DEF Before, Orders
    <2> QED
        BY <1>2, <2>1, <2>2, FS_Subset
<1>4. \A i, j \in K : rank(i) = rank(j) => i = j
    BY <1>3 DEF Orders
<1>5. f \in Injection(K, 1 .. m)
    <2>1. f \in [K -> 1 .. m]
        BY <1>2
    <2>2. \A i, j \in K : f[i] = f[j] => i = j
        <3>1. \A i \in K : rank(i) \in Nat
            BY <1>2
        <3> HIDE DEF rank
        <3> QED
            BY <1>4, <3>1
    <2> QED
        BY <2>1, <2>2 DEF Injection, IsInjective
<1>6. f \in Surjection(K, 1 .. m)
    BY <1>1, <1>5, FS_Injection
<1>7. ASSUME NEW k \in 1 .. m
      PROVE  pick(k) \in K /\ rank(pick(k)) = k - 1
    <2>1. PICK i \in K : f[i] = k
        BY <1>6 DEF Surjection
    <2>2. rank(i) = k - 1
        BY <1>2, <2>1
    <2> QED
        BY <2>2
<1>8. Sorted(K, R) = [k \in 1 .. m |-> pick(k)]
    BY DEF Sorted, Before
<1> HIDE DEF pick
<1>9. ASSUME NEW i \in K PROVE \E k \in 1 .. m : Sorted(K, R)[k] = i
    <2>1. rank(i) + 1 \in 1 .. m /\ (rank(i) + 1) - 1 = rank(i)
        BY <1>2
    <2>2. pick(rank(i) + 1) = i
        BY <1>4, <1>7, <2>1
    <2> QED
        BY <1>8, <2>1, <2>2
<1> QED
    BY <1>1, <1>4, <1>7, <1>8, <1>9

LEMMA EarlierOrders ==
    ASSUME NEW n \in Nat, NEW K \in SUBSET (1 .. n)
    PROVE  IsFiniteSet(K) /\ Orders(Earlier(K), K)
<1>1. IsFiniteSet(K)
    <2>1. IsFiniteSet(1 .. n)
        BY FS_Interval
    <2> QED
        BY <2>1, FS_Subset
<1>2. \A i \in K : i \in Int
    OBVIOUS
<1> QED
    BY <1>1, <1>2 DEF Orders, Earlier

\* What is kept of a sequence are its members at the places kept.
LEMMA KeepMembers ==
    ASSUME NEW S, NEW s \in Seq(S), NEW K \in SUBSET DOMAIN s
    PROVE  /\ Keep(s, K) \in Seq(S)
           /\ \A k \in DOMAIN Keep(s, K) : \E i \in K : Keep(s, K)[k] = s[i]
<1> DEFINE at == Sorted(K, Earlier(K))
           m == Cardinality(K)
<1>1. Len(s) \in Nat /\ DOMAIN s = 1 .. Len(s)
    OBVIOUS
<1>2. m \in Nat /\ at \in [1 .. m -> K]
    BY <1>1, EarlierOrders, SortedLists
<1>3. Keep(s, K) = [k \in DOMAIN at |-> s[at[k]]]
    BY DEF Keep
<1> HIDE DEF at, m
<1>4. \A k \in 1 .. m : at[k] \in K /\ s[at[k]] \in S
    BY <1>2
<1> QED
    BY <1>2, <1>3, <1>4

\* A place behind all others adds its member at the end.
LEMMA KeepAppends ==
    ASSUME NEW S, NEW s \in Seq(S), NEW K \in SUBSET DOMAIN s, NEW n \in DOMAIN s,
           \A i \in K : i < n
    PROVE  Keep(s, K \cup {n}) = Append(Keep(s, K), s[n])
<1> DEFINE L == K \cup {n}
           m == Cardinality(K)
           at == Sorted(K, Earlier(K))
           to == Sorted(L, Earlier(L))
<1>1. Len(s) \in Nat /\ DOMAIN s = 1 .. Len(s) /\ L \in SUBSET DOMAIN s /\ n \notin K
    OBVIOUS
<1>2. IsFiniteSet(K) /\ Orders(Earlier(K), K) /\ IsFiniteSet(L) /\ Orders(Earlier(L), L)
    BY <1>1, EarlierOrders
<1>3. m \in Nat /\ Cardinality(L) = m + 1
    BY <1>1, <1>2, FS_AddElement, FS_CardinalityType
<1>4. /\ at \in [1 .. m -> K]
      /\ \A k \in 1 .. m : Cardinality(Before(K, Earlier(K), at[k])) = k - 1
      /\ \A i, j \in K :
            Cardinality(Before(K, Earlier(K), i)) = Cardinality(Before(K, Earlier(K), j)) => i = j
    BY <1>2, SortedLists
<1>5. /\ to \in [1 .. (m + 1) -> L]
      /\ \A k \in 1 .. (m + 1) : Cardinality(Before(L, Earlier(L), to[k])) = k - 1
      /\ \A i, j \in L :
            Cardinality(Before(L, Earlier(L), i)) = Cardinality(Before(L, Earlier(L), j)) => i = j
    <2> HIDE DEF L
    <2> QED
        BY <1>2, <1>3, SortedLists
<1>6. \A i \in K : Before(L, Earlier(L), i) = Before(K, Earlier(K), i)
    <2>1. \A i \in K : ~ (n < i)
        BY <1>1
    <2> QED
        BY <2>1 DEF Before, Earlier
<1>7. Before(L, Earlier(L), n) = K
    <2>1. ~ (n < n)
        BY <1>1
    <2> QED
        BY <2>1 DEF Before, Earlier
<1> HIDE DEF at, to
<1>8. ASSUME NEW k \in 1 .. m PROVE to[k] = at[k]
    <2>1. k \in 1 .. (m + 1) /\ at[k] \in L
        BY <1>3, <1>4
    <2>2. Cardinality(Before(L, Earlier(L), at[k])) = k - 1
        BY <1>4, <1>6
    <2> QED
        BY <1>5, <2>1, <2>2
<1>9. to[m + 1] = n
    <2>1. m + 1 \in 1 .. (m + 1) /\ (m + 1) - 1 = m
        BY <1>3
    <2> QED
        BY <1>5, <1>7, <2>1
<1>10. /\ Keep(s, K) = [k \in 1 .. m |-> s[at[k]]]
       /\ Keep(s, L) = [k \in 1 .. (m + 1) |-> s[to[k]]]
    BY <1>4, <1>5 DEF Keep, at, to
<1>11. Keep(s, K) \in Seq(S) /\ Len(Keep(s, K)) = m
    <2>1. \A k \in 1 .. m : s[at[k]] \in S
        BY <1>4
    <2> QED
        BY <1>3, <1>10, <2>1
<1> DEFINE a == Append(Keep(s, K), s[n])
<1>12. a = [k \in 1 .. (m + 1) |-> IF k = m + 1 THEN s[n] ELSE s[at[k]]]
    <2>1. s[n] \in S
        OBVIOUS
    <2>2. /\ a \in Seq(S) /\ Len(a) = m + 1 /\ a[m + 1] = s[n]
          /\ \A k \in 1 .. m : a[k] = Keep(s, K)[k]
        BY <1>11, <2>1, AppendProperties
    <2> HIDE DEF a
    <2>3. a = [k \in 1 .. (m + 1) |-> a[k]]
        BY <2>2
    <2>4. \A k \in 1 .. (m + 1) : a[k] = IF k = m + 1 THEN s[n] ELSE s[at[k]]
        BY <1>3, <1>10, <2>2
    <2> QED
        BY <2>3, <2>4
<1>13. \A k \in 1 .. (m + 1) : s[to[k]] = IF k = m + 1 THEN s[n] ELSE s[at[k]]
    BY <1>3, <1>8, <1>9
<1> HIDE DEF a
<1> QED
    BY <1>10, <1>12, <1>13 DEF a

\* What is appended does not change what is kept of the rest.
LEMMA KeepOfLonger ==
    ASSUME NEW S, NEW s \in Seq(S), NEW e \in S, NEW K \in SUBSET DOMAIN s
    PROVE  Keep(Append(s, e), K) = Keep(s, K)
<1> DEFINE at == Sorted(K, Earlier(K))
<1>1. Len(s) \in Nat /\ DOMAIN s = 1 .. Len(s)
    OBVIOUS
<1>2. Cardinality(K) \in Nat /\ at \in [1 .. Cardinality(K) -> K]
    BY <1>1, EarlierOrders, SortedLists
<1>3. \A i \in DOMAIN s : Append(s, e)[i] = s[i]
    BY AppendProperties
<1> HIDE DEF at
<1>4. \A k \in DOMAIN at : Append(s, e)[at[k]] = s[at[k]]
    BY <1>2, <1>3
<1> QED
    BY <1>4 DEF Keep, at

-----------------------------------------------------------------------------
(* The invariant. *)

Attempt == [stage : {"pool", "token"}, pool : Pools, until : Nat]
Passage == [index : Nat, perf : Seq(Closes)]
Record == [pool : Pools, close : Closes]

\* A memory that parses: an entry knows its own token or none.
DbOk(db) ==
    /\ DOMAIN db \in SUBSET Pools /\ db \in [DOMAIN db -> Entry]
    /\ \A p \in DOMAIN db : db[p].mint \in {NoToken, TokenOf[p]}

Typed ==
    /\ now \in 0..MaxTime /\ open \subseteq Pools /\ settling \subseteq Pools
    /\ attempt \in [Deployers -> {Idle} \cup Attempt]
    /\ memory = Torn \/ DbOk(memory)
    /\ data = Torn \/ data \in Book
    /\ recorded \in Seq(Passage) /\ evolving \in Seq(Seq(Closes))
    /\ minOrganic \in 60..90
    /\ weights \in [Signals -> WeightFloor..WeightCeiling]
    /\ history \in Seq(Record) /\ torn \in 0..Len(history)
    /\ lost \subseteq 1..Len(history)
    /\ coldUntil \in [Tokens -> Nat]

\* What waits is recorded and not lost, waits in the order of the record, and
\* everything recorded before it has been remembered or is lost.
Fifo ==
    /\ \A i \in DOMAIN recorded : recorded[i].index \in (torn + 1 .. Len(history)) \ lost
    /\ \A i, j \in DOMAIN recorded : i < j => recorded[i].index < recorded[j].index
    /\ \A n \in InMemory(history, Waiting), w \in Waiting : n < w

\* A token that is to be left alone has an entry that says so for as long, and
\* not for longer than the rule's hours; an attempt that has not looked at the
\* token yet is to be stopped no longer than that.
Cold ==
    /\ \A t \in Tokens : coldUntil[t] > now =>
          \E q \in DOMAIN load(memory) : /\ load(memory)[q].mint = t
                                         /\ load(memory)[q].mintUntil >= coldUntil[t]
    /\ \A t \in Tokens : coldUntil[t] <= now + OorHours
    /\ \A d \in Deployers :
          attempt[d].stage = "pool" => attempt[d].until <= coldUntil[TokenOf[attempt[d].pool]]

-----------------------------------------------------------------------------
(* The closes of a pool. *)

\* The closes of a sequence of records.
ClosesIn(s) == [k \in DOMAIN s |-> s[k].close]

LEMMA ClosesInTyped ==
    ASSUME NEW s \in Seq(Record)
    PROVE  ClosesIn(s) \in Seq(Closes) /\ Len(ClosesIn(s)) = Len(s)
<1>1. Len(s) \in Nat /\ DOMAIN s = 1 .. Len(s) /\ \A k \in 1 .. Len(s) : s[k] \in Record
    OBVIOUS
<1>2. \A k \in 1 .. Len(s) : s[k].close \in Closes
    BY <1>1 DEF Record
<1> QED
    BY <1>1, <1>2 DEF ClosesIn

LEMMA ClosesInAppend ==
    ASSUME NEW s \in Seq(Record), NEW e \in Record
    PROVE  ClosesIn(Append(s, e)) = Append(ClosesIn(s), e.close)
<1> DEFINE n == Len(s)
           t == Append(s, e)
           a == ClosesIn(t)
           b == Append(ClosesIn(s), e.close)
<1>1. /\ n \in Nat /\ t \in Seq(Record) /\ Len(t) = n + 1 /\ t[n + 1] = e
      /\ \A k \in 1 .. n : t[k] = s[k]
    BY AppendProperties
<1>2. /\ ClosesIn(s) \in Seq(Closes) /\ Len(ClosesIn(s)) = n
      /\ e.close \in Closes /\ a \in Seq(Closes) /\ Len(a) = n + 1
    BY <1>1, ClosesInTyped DEF Record
<1>3. /\ b \in Seq(Closes) /\ Len(b) = n + 1 /\ b[n + 1] = e.close
      /\ \A k \in 1 .. n : b[k] = ClosesIn(s)[k]
    BY <1>2, AppendProperties
<1>4. /\ \A k \in 1 .. n : ClosesIn(s)[k] = s[k].close
      /\ \A k \in 1 .. (n + 1) : a[k] = t[k].close
    BY <1>1 DEF ClosesIn
<1> HIDE DEF a, b, t, n
<1>5. \A k \in 1 .. (n + 1) : a[k] = b[k]
    <2>1. \A k \in 1 .. (n + 1) : k \in 1 .. n \/ k = n + 1
        BY <1>1
    <2>2. n + 1 \in 1 .. (n + 1)
        BY <1>1
    <2> QED
        BY <1>1, <1>3, <1>4, <2>1, <2>2
<1>6. a = b
    BY <1>2, <1>3, <1>5
<1> QED
    BY <1>6 DEF a, b, t

LEMMA ClosesTyped ==
    ASSUME NEW h \in Seq(Record), NEW known \in SUBSET DOMAIN h, NEW p
    PROVE  ClosesOf(p, h, known) \in Seq(Closes)
<1> DEFINE K == {i \in known : h[i].pool = p}
<1>1. Keep(h, K) \in Seq(Record)
    BY KeepMembers
<1>2. ClosesOf(p, h, known) = ClosesIn(Keep(h, K))
    BY DEF ClosesOf, ClosesIn
<1> HIDE DEF K
<1> QED
    BY <1>1, <1>2, ClosesInTyped

\* The next record in the order of the history is the next close of its pool.
LEMMA ClosesGrow ==
    ASSUME NEW h \in Seq(Record), NEW known \in SUBSET DOMAIN h, NEW n \in DOMAIN h,
           \A i \in known : i < n, NEW p
    PROVE  ClosesOf(p, h, known \cup {n}) =
               IF h[n].pool = p THEN Append(ClosesOf(p, h, known), h[n].close)
               ELSE ClosesOf(p, h, known)
<1> DEFINE K == {i \in known : h[i].pool = p}
           L == {i \in known \cup {n} : h[i].pool = p}
<1>1. /\ ClosesOf(p, h, known) = ClosesIn(Keep(h, K))
      /\ ClosesOf(p, h, known \cup {n}) = ClosesIn(Keep(h, L))
    BY DEF ClosesOf, ClosesIn
<1>2. K \in SUBSET DOMAIN h /\ \A i \in K : i < n
    OBVIOUS
<1>3. CASE h[n].pool = p
    <2>1. L = K \cup {n}
        BY <1>3
    <2> HIDE DEF K, L
    <2>2. Keep(h, L) = Append(Keep(h, K), h[n])
        BY <1>2, <2>1, KeepAppends
    <2>3. Keep(h, K) \in Seq(Record) /\ h[n] \in Record
        BY <1>2, KeepMembers
    <2> QED
        BY <1>1, <1>3, <2>2, <2>3, ClosesInAppend
<1>4. CASE h[n].pool # p
    <2>1. L = K
        BY <1>4
    <2> HIDE DEF K, L
    <2> QED
        BY <1>1, <1>4, <2>1
<1> QED
    BY <1>3, <1>4

\* A record that is not yet known changes no pool's closes.
LEMMA ClosesStay ==
    ASSUME NEW h \in Seq(Record), NEW e \in Record, NEW known \in SUBSET DOMAIN h, NEW p
    PROVE  ClosesOf(p, Append(h, e), known) = ClosesOf(p, h, known)
<1> DEFINE K == {i \in known : h[i].pool = p}
           L == {i \in known : Append(h, e)[i].pool = p}
<1>1. L = K
    BY AppendProperties
<1>2. K \in SUBSET DOMAIN h
    OBVIOUS
<1>3. /\ ClosesOf(p, h, known) = ClosesIn(Keep(h, K))
      /\ ClosesOf(p, Append(h, e), known) = ClosesIn(Keep(Append(h, e), L))
    BY DEF ClosesOf, ClosesIn
<1> HIDE DEF K, L
<1>4. Keep(Append(h, e), K) = Keep(h, K)
    BY <1>2, KeepOfLonger
<1> QED
    BY <1>1, <1>3, <1>4

-----------------------------------------------------------------------------
(* The memory of the pools. *)

LEMMA LoadOk ==
    ASSUME NEW db, db = Torn \/ DbOk(db)
    PROVE  DbOk(load(db))
<1>1. DbOk([p \in {} |-> 0])
    BY DEF DbOk
<1> QED
    BY <1>1 DEF load

\* A memory that parses is not torn, and is read as it is.
LEMMA LoadKeeps ==
    ASSUME NEW db, DbOk(db)
    PROVE  load(db) = db
<1>1. db # Torn
    BY TornDistinct DEF DbOk
<1> QED
    BY <1>1 DEF load

LEMMA EntryOrOk ==
    ASSUME NEW db, DbOk(db), NEW p \in Pools, NEW m \in {NoToken, TokenOf[p]}
    PROVE  EntryOr(db, p, m) \in Entry /\ EntryOr(db, p, m).mint \in {NoToken, TokenOf[p]}
<1>1. CASE p \in DOMAIN db
    BY <1>1 DEF EntryOr, DbOk
<1>2. CASE p \notin DOMAIN db
    <2>1. m \in Tokens \cup {NoToken} /\ 0 \in 0 .. SnapshotCap /\ <<>> \in Seq(Closes)
        BY PoolConstants
    <2>2. NewEntry(m) \in Entry /\ NewEntry(m).mint = m
        BY <2>1 DEF NewEntry, Entry
    <2> QED
        BY <1>2, <2>2 DEF EntryOr
<1> QED
    BY <1>1, <1>2

LEMMA PutOk ==
    ASSUME NEW db, DbOk(db), NEW p \in Pools, NEW e \in Entry, e.mint \in {NoToken, TokenOf[p]}
    PROVE  /\ DbOk(Put(db, p, e)) /\ DOMAIN Put(db, p, e) = DOMAIN db \cup {p}
           /\ Put(db, p, e)[p] = e
           /\ \A q \in DOMAIN db : q # p => Put(db, p, e)[q] = db[q]
<1> DEFINE b == Put(db, p, e)
<1>1. /\ DOMAIN b = DOMAIN db \cup {p} /\ b = [q \in DOMAIN b |-> b[q]]
      /\ b[p] = e /\ \A q \in DOMAIN db : q # p => b[q] = db[q]
    BY DEF Put
<1> HIDE DEF b
<1>2. DbOk(b)
    <2>1. \A q \in DOMAIN b : b[q] \in Entry /\ b[q].mint \in {NoToken, TokenOf[q]}
        BY <1>1 DEF DbOk
    <2>2. b \in [DOMAIN b -> Entry] /\ DOMAIN b \in SUBSET Pools
        BY <1>1, <2>1 DEF DbOk
    <2> QED
        BY <2>1, <2>2 DEF DbOk
<1> QED
    BY <1>1, <1>2 DEF b

LEMMA SetMintOk ==
    ASSUME NEW db, DbOk(db), NEW m, NEW until \in Nat
    PROVE  LET b == setBaseMintCooldown(db, m, until)
           IN  /\ DbOk(b) /\ DOMAIN b = DOMAIN db
               /\ \A q \in DOMAIN db :
                     /\ b[q].mint = db[q].mint /\ b[q].deploys = db[q].deploys
                     /\ b[q].mintUntil = IF m # NoToken /\ db[q].mint = m THEN until
                                         ELSE db[q].mintUntil
<1> DEFINE b == setBaseMintCooldown(db, m, until)
<1>1. /\ DOMAIN b = DOMAIN db /\ b = [q \in DOMAIN b |-> b[q]]
      /\ \A q \in DOMAIN db :
            b[q] = IF m # NoToken /\ db[q].mint = m THEN [db[q] EXCEPT !.mintUntil = until]
                   ELSE db[q]
    BY DEF setBaseMintCooldown
<1> HIDE DEF b
<1>2. ASSUME NEW q \in DOMAIN db
      PROVE  /\ b[q] \in Entry /\ b[q].mint = db[q].mint /\ b[q].deploys = db[q].deploys
             /\ b[q].mintUntil = IF m # NoToken /\ db[q].mint = m THEN until
                                 ELSE db[q].mintUntil
    <2>1. db[q] \in Entry
        BY DEF DbOk
    <2> QED
        BY <1>1, <2>1 DEF Entry
<1>3. DbOk(b)
    <2>1. b \in [DOMAIN b -> Entry]
        BY <1>1, <1>2
    <2> QED
        BY <1>1, <1>2, <2>1 DEF DbOk
<1> QED
    BY <1>1, <1>2, <1>3 DEF b

LEMMA WithCloseOk ==
    ASSUME NEW db, DbOk(db), NEW p \in Pools, NEW d \in Closes, NEW t \in Nat
    PROVE  LET e == WithClose(db, p, d, t)
               old == EntryOr(db, p, TokenOf[p])
           IN  /\ e \in Entry /\ e.mint = TokenOf[p]
               /\ e.deploys = Append(old.deploys, d) /\ e.mintUntil = old.mintUntil
<1> DEFINE old == EntryOr(db, p, TokenOf[p])
           e0 == [old EXCEPT !.deploys = Append(@, d),
                             !.mint = IF @ = NoToken THEN TokenOf[p] ELSE @]
<1>1. old \in Entry /\ old.mint \in {NoToken, TokenOf[p]} /\ TokenOf[p] \in Tokens
    BY EntryOrOk, PoolConstants
<1> HIDE DEF old
<1>2. Append(old.deploys, d) \in Seq(Closes)
    BY <1>1, AppendProperties DEF Entry
<1>3. /\ e0 \in Entry /\ e0.mint = TokenOf[p]
      /\ e0.deploys = Append(old.deploys, d) /\ e0.mintUntil = old.mintUntil
    BY <1>1, <1>2 DEF Entry
<1>4. WithClose(db, p, d, t) = IF d.reason = "low yield" THEN setPoolCooldown(e0, t + LowYieldHours)
                               ELSE e0
    BY DEF WithClose, old
<1> HIDE DEF e0
<1>5. t + LowYieldHours \in Nat
    BY PoolConstants
<1> QED
    BY <1>3, <1>4, <1>5 DEF setPoolCooldown, Entry, old

\* The first rule: a token that went out of range again and again rests.
LEMMA OorOk ==
    ASSUME NEW db, DbOk(db), NEW p \in DOMAIN db, db[p].mint = TokenOf[p], NEW t \in Nat
    PROVE  LET b == OorCooldown(db, p, t)
           IN  /\ DbOk(b) /\ DOMAIN b = DOMAIN db
               /\ \A q \in DOMAIN db :
                     /\ b[q].mint = db[q].mint /\ b[q].deploys = db[q].deploys
                     /\ b[q].mintUntil =
                           IF RepeatedOor(db[p].deploys) /\ db[q].mint = TokenOf[p]
                           THEN t + OorHours ELSE db[q].mintUntil
<1> DEFINE e == setPoolCooldown(db[p], t + OorHours)
           a == Put(db, p, e)
<1>1. p \in Pools /\ db[p] \in Entry /\ t + OorHours \in Nat /\ TokenOf[p] # NoToken
    BY PoolConstants DEF DbOk
<1>2. /\ e \in Entry /\ e.mint = TokenOf[p]
      /\ e.deploys = db[p].deploys /\ e.mintUntil = db[p].mintUntil
    BY <1>1 DEF setPoolCooldown, Entry
<1> HIDE DEF e
<1>3. /\ DbOk(a) /\ DOMAIN a = DOMAIN db
      /\ \A q \in DOMAIN db : /\ a[q].mint = db[q].mint /\ a[q].deploys = db[q].deploys
                              /\ a[q].mintUntil = db[q].mintUntil
    <2>1. DOMAIN a = DOMAIN db
        BY DEF Put
    <2> HIDE DEF a
    <2>2. DbOk(a) /\ a[p] = e /\ \A q \in DOMAIN db : q # p => a[q] = db[q]
        BY <1>1, <1>2, PutOk DEF a
    <2> QED
        BY <1>2, <2>1, <2>2
<1> HIDE DEF a
<1>4. CASE RepeatedOor(db[p].deploys)
    <2>1. OorCooldown(db, p, t) = setBaseMintCooldown(a, TokenOf[p], t + OorHours)
        BY <1>4 DEF OorCooldown, a, e
    <2> QED
        BY <1>1, <1>3, <1>4, <2>1, SetMintOk
<1>5. CASE ~ RepeatedOor(db[p].deploys)
    BY <1>5 DEF OorCooldown
<1> QED
    BY <1>4, <1>5

\* The second rule: so does one that earned fees again and again.
LEMMA RepeatOk ==
    ASSUME NEW db, DbOk(db), NEW p \in DOMAIN db, db[p].mint = TokenOf[p], NEW t \in Nat
    PROVE  LET b == RepeatCooldown(db, p, t)
           IN  /\ DbOk(b) /\ DOMAIN b = DOMAIN db
               /\ \A q \in DOMAIN db :
                     /\ b[q].mint = db[q].mint /\ b[q].deploys = db[q].deploys
                     /\ b[q].mintUntil =
                           IF /\ RepeatedFees(db[p].deploys) /\ RepeatScope # "pool"
                              /\ db[q].mint = TokenOf[p]
                           THEN t + RepeatHours ELSE db[q].mintUntil
<1> DEFINE until == t + RepeatHours
           e == setPoolCooldown(db[p], until)
           a == IF RepeatScope \in {"pool", "both"} \/ db[p].mint = NoToken
                THEN Put(db, p, e) ELSE db
<1>1. p \in Pools /\ db[p] \in Entry /\ until \in Nat /\ TokenOf[p] # NoToken
    BY PoolConstants DEF DbOk
<1>2. /\ e \in Entry /\ e.mint = TokenOf[p]
      /\ e.deploys = db[p].deploys /\ e.mintUntil = db[p].mintUntil
    BY <1>1 DEF setPoolCooldown, Entry
<1> HIDE DEF e
<1>3. /\ DbOk(a) /\ DOMAIN a = DOMAIN db
      /\ \A q \in DOMAIN db : /\ a[q].mint = db[q].mint /\ a[q].deploys = db[q].deploys
                              /\ a[q].mintUntil = db[q].mintUntil
    <2> DEFINE c == Put(db, p, e)
    <2>1. DOMAIN c = DOMAIN db
        BY DEF Put
    <2> HIDE DEF c
    <2>2. DbOk(c) /\ c[p] = e /\ \A q \in DOMAIN db : q # p => c[q] = db[q]
        BY <1>1, <1>2, PutOk DEF c
    <2>3. a = c \/ a = db
        BY DEF c
    <2> HIDE DEF a
    <2> QED
        BY <1>2, <2>1, <2>2, <2>3
<1>4. RepeatedFees(db[p].deploys) =>
         RepeatCooldown(db, p, t) = IF RepeatScope \in {"token", "both"}
                                    THEN setBaseMintCooldown(a, TokenOf[p], until) ELSE a
    BY DEF RepeatCooldown, e
<1> HIDE DEF a
<1>5. CASE RepeatedFees(db[p].deploys) /\ RepeatScope \in {"token", "both"}
    <2>1. RepeatCooldown(db, p, t) = setBaseMintCooldown(a, TokenOf[p], until)
        BY <1>4, <1>5
    <2> QED
        BY <1>1, <1>3, <1>5, <2>1, SetMintOk
<1>6. CASE RepeatedFees(db[p].deploys) /\ RepeatScope \notin {"token", "both"}
    <2>1. RepeatScope = "pool"
        BY <1>6, PoolConstants
    <2> QED
        BY <1>3, <1>4, <1>6, <2>1
<1>7. CASE ~ RepeatedFees(db[p].deploys)
    BY <1>7 DEF RepeatCooldown
<1> QED
    BY <1>5, <1>6, <1>7

\* When the entry of a pool says its token may be used again, as it was.
Until(db, q) == IF q \in DOMAIN db THEN db[q].mintUntil ELSE 0

\* What recordPoolDeploy makes of the memory.
LEMMA RecordOk ==
    ASSUME NEW db, DbOk(db), NEW p \in Pools, NEW d \in Closes, NEW t \in Nat
    PROVE  LET b == recordPoolDeploy(db, p, d, t)
           IN  /\ DbOk(b) /\ \A q : q \in DOMAIN b <=> q \in DOMAIN db \/ q = p
               /\ b[p].mint = TokenOf[p]
               /\ b[p].deploys = Append(EntryOr(db, p, TokenOf[p]).deploys, d)
               /\ \A q \in DOMAIN db : q # p => /\ b[q].deploys = db[q].deploys
                                                /\ b[q].mint = db[q].mint
               /\ \A q \in DOMAIN b :
                     b[q].mintUntil =
                        IF b[q].mint = TokenOf[p] /\ RepeatedFees(b[p].deploys) /\ RepeatScope # "pool"
                        THEN t + RepeatHours
                        ELSE IF b[q].mint = TokenOf[p] /\ RepeatedOor(b[p].deploys)
                        THEN t + OorHours
                        ELSE Until(db, q)
<1> DEFINE e == WithClose(db, p, d, t)
           old == EntryOr(db, p, TokenOf[p])
           x == Put(db, p, e)
           y == OorCooldown(x, p, t)
           b == RepeatCooldown(y, p, t)
<1>1. /\ e \in Entry /\ e.mint = TokenOf[p]
      /\ e.deploys = Append(old.deploys, d) /\ e.mintUntil = old.mintUntil
    BY WithCloseOk
<1>2. old.mintUntil = Until(db, p)
    BY DEF EntryOr, NewEntry, Until
<1> HIDE DEF e, old
<1>3. /\ DbOk(x) /\ DOMAIN x = DOMAIN db \cup {p} /\ x[p] = e
      /\ \A q \in DOMAIN db : q # p => x[q] = db[q]
    <2>1. e.mint \in {NoToken, TokenOf[p]}
        BY <1>1
    <2>2. DOMAIN x = DOMAIN db \cup {p}
        BY DEF Put, x
    <2>3. DbOk(x)
        BY ONLY <1>1, <2>1, DbOk(db), p \in Pools, PutOk
    <2>4. x[p] = e
        BY DEF Put
    <2>5. \A q \in DOMAIN db : q # p => x[q] = db[q]
        BY DEF Put
    <2> HIDE DEF x
    <2> QED
        BY <2>2, <2>3, <2>4, <2>5
<1> HIDE DEF x
<1>4. /\ DbOk(y) /\ DOMAIN y = DOMAIN x
      /\ \A q \in DOMAIN x :
            /\ y[q].mint = x[q].mint /\ y[q].deploys = x[q].deploys
            /\ y[q].mintUntil = IF RepeatedOor(x[p].deploys) /\ x[q].mint = TokenOf[p]
                                THEN t + OorHours ELSE x[q].mintUntil
    BY <1>1, <1>3, OorOk
<1> HIDE DEF y
<1>5. p \in DOMAIN x /\ p \in DOMAIN y /\ y[p].mint = TokenOf[p] /\ y[p].deploys = x[p].deploys
    BY <1>1, <1>3, <1>4
<1>6. /\ DbOk(b) /\ DOMAIN b = DOMAIN y
      /\ \A q \in DOMAIN y :
            /\ b[q].mint = y[q].mint /\ b[q].deploys = y[q].deploys
            /\ b[q].mintUntil =
                  IF /\ RepeatedFees(y[p].deploys) /\ RepeatScope # "pool"
                     /\ y[q].mint = TokenOf[p]
                  THEN t + RepeatHours ELSE y[q].mintUntil
    BY <1>4, <1>5, RepeatOk
<1> HIDE DEF b
<1>7. b[p].deploys = x[p].deploys /\ b[p].mint = TokenOf[p]
    BY <1>5, <1>6
<1>8. ASSUME NEW q \in DOMAIN b
      PROVE  b[q].mintUntil =
                IF b[q].mint = TokenOf[p] /\ RepeatedFees(b[p].deploys) /\ RepeatScope # "pool"
                THEN t + RepeatHours
                ELSE IF b[q].mint = TokenOf[p] /\ RepeatedOor(b[p].deploys)
                THEN t + OorHours
                ELSE Until(db, q)
    <2>1. x[q].mintUntil = Until(db, q)
        BY <1>1, <1>2, <1>3, <1>4, <1>6 DEF Until
    <2> QED
        BY <1>4, <1>5, <1>6, <1>7, <2>1
<1>9. recordPoolDeploy(db, p, d, t) = b
    BY DEF recordPoolDeploy, b, y, x, e
<1>10. \A q \in DOMAIN db : q # p => b[q].deploys = db[q].deploys /\ b[q].mint = db[q].mint
    BY <1>3, <1>4, <1>6
<1> QED
    BY <1>1, <1>3, <1>4, <1>6, <1>7, <1>8, <1>9, <1>10 DEF old

-----------------------------------------------------------------------------
(* Lessons, thresholds and weights. *)

\* A set of natural numbers that is not empty has a least member: the one
\* whose interval from 0 holds no other such interval.
LEMMA LeastMember ==
    ASSUME NEW S \in SUBSET Nat, S # {}
    PROVE  Min(S) \in S /\ \A x \in S : Min(S) <= x
<1>1. PICK m \in S : TRUE
    OBVIOUS
<1> DEFINE F == {0 .. n : n \in {i \in S : i <= m}}
<1>2. IsFiniteSet(0 .. m)
    BY FS_Interval
<1>3. F \subseteq FiniteSubsetsOf(0 .. m) /\ F # {}
    <2>1. \A x \in F : x \subseteq 0 .. m
        OBVIOUS
    <2>2. 0 .. m \in F
        BY <1>1
    <2> QED
        BY <1>2, <2>1, <2>2, FS_FiniteSubsetsOfFinite
<1> HIDE DEF F
<1>4. PICK x \in F : \A y \in F : ~ (<<y, x>> \in StrictSubsetOrdering(0 .. m))
    BY <1>2, <1>3, FS_StrictSubsetOrderingWellFounded, WFMin
<1>5. PICK n \in S : n <= m /\ x = 0 .. n
    BY <1>4 DEF F
<1>6. ASSUME NEW i \in S, i < n PROVE FALSE
    <2>1. 0 .. i \in F
        BY <1>5, <1>6 DEF F
    <2>2. 0 .. i \subseteq 0 .. n /\ n \notin 0 .. i /\ n \in 0 .. n
        BY <1>6
    <2>3. <<0 .. i, x>> \in StrictSubsetOrdering(0 .. m)
        <3>1. 0 .. i \subseteq 0 .. m /\ 0 .. n \subseteq 0 .. m
            BY <1>5, <1>6
        <3> QED
            BY <1>5, <2>2, <3>1 DEF StrictSubsetOrdering
    <2> QED
        BY <1>4, <2>1, <2>3
<1>7. \A i \in S : n <= i
    BY <1>6
<1> QED
    BY <1>7 DEF Min

\* The greatest of two numbers.
LEMMA GreatestMember ==
    ASSUME NEW S \in SUBSET Nat, NEW m \in S, \A x \in S : x <= m
    PROVE  Max(S) = m
<1>1. \A y \in S : (\A x \in S : y >= x) => y = m
    OBVIOUS
<1> QED
    BY <1>1 DEF Max

\* The records that win, and those that lose, of a performance.
LEMMA OrganicTyped ==
    ASSUME NEW perf \in Seq(Closes), NEW K \in SUBSET DOMAIN perf, K # {}
    PROVE  LeastOrganic(perf, K) \in Nat
<1> DEFINE S == {perf[i].organic : i \in K}
<1>1. \A i \in K : perf[i] \in Closes
    OBVIOUS
<1>2. \A i \in K : perf[i].organic \in Nat
    BY <1>1, LifeConstants
<1>3. S \in SUBSET Nat /\ S # {}
    BY <1>2
<1> HIDE DEF S
<1> QED
    BY <1>3, LeastMember DEF LeastOrganic, S

\* However far the winners are from the floor, it stays between 60 and 90.
LEMMA FloorStays ==
    ASSUME NEW perf \in Seq(Closes), NEW current \in 60..90
    PROVE  evolveThresholds(perf, current) \in 60..90
<1> DEFINE w == Winners(perf)
           l == Losers(perf)
           least == LeastOrganic(perf, w) - 3
           target == IF least > current THEN least ELSE current
           new == Bounded(60, 90, Nudged(current, target))
           may == HasSignal(perf) /\ Cardinality(l) >= 2 /\ w # {} /\ ClearGap(perf, w, l)
<1>1. evolveThresholds(perf, current) = IF may /\ new > current THEN new ELSE current
    BY DEF evolveThresholds
<1>2. ASSUME w # {} PROVE new \in 60..90
    <2>1. w \in SUBSET DOMAIN perf
        BY DEF Winners
    <2> HIDE DEF w
    <2>2. LeastOrganic(perf, w) \in Nat
        BY <1>2, <2>1, OrganicTyped
    <2>3. target \in Int
        BY <2>2
    <2> HIDE DEF target
    <2>4. Nudged(current, target) \in Int
        BY <2>3 DEF Nudged
    <2>5. \A v \in Int : Bounded(60, 90, v) \in 60..90
        BY DEF Bounded
    <2> QED
        BY <2>4, <2>5
<1> HIDE DEF new
<1> QED
    BY <1>1, <1>2

\* A weight that is raised or lowered stays in its bounds.
LEMMA WeightsStay ==
    ASSUME NEW v \in [Signals -> WeightFloor..WeightCeiling], NEW r
    PROVE  recalculateWeights(v, r) \in [Signals -> WeightFloor..WeightCeiling]
<1>1. WeightFloor \in Nat /\ WeightCeiling \in Nat /\ WeightFloor <= 1000 /\ 1000 <= WeightCeiling
    BY WeightConstants
<1>2. ASSUME NEW x \in WeightFloor..WeightCeiling
      PROVE  Boosted(x) \in WeightFloor..WeightCeiling /\ Decayed(x) \in WeightFloor..WeightCeiling
    <2>1. x \in Nat
        BY <1>1
    <2>2. \A n \in Nat : (105 * n + 50) \div 100 \in Nat /\ (105 * n + 50) \div 100 >= n
        BY ONLY SMT
    <2>3. \A n \in Nat : (95 * n + 50) \div 100 \in Nat /\ (95 * n + 50) \div 100 <= n
        BY ONLY SMT
    <2> QED
        BY <1>1, <2>1, <2>2, <2>3 DEF Boosted, Decayed
<1>3. \A s \in Signals : v[s] \in WeightFloor..WeightCeiling
    OBVIOUS
<1> QED
    BY <1>2, <1>3 DEF recalculateWeights

LEMMA DataOk ==
    ASSUME data = Torn \/ data \in Book
    PROVE  Data \in Book
<1>1. EmptyData \in Book
    BY DEF EmptyData, Book
<1> QED
    BY <1>1 DEF Data

\* What recordPerformance makes of the file.
LEMMA RecordedOk ==
    ASSUME NEW b \in Book, NEW c \in Closes, NEW t \in Nat
    PROVE  Recorded(b, c, t) \in Book /\ Recorded(b, c, t).perf \in Seq(Closes)
<1>1. derivLesson(c, t) \in Seq(Lesson)
    <2> DEFINE l == [id |-> t, role |-> "all", pinned |-> FALSE, outcome |-> Outcome(c),
                     tag |-> IF Outcome(c) = "bad" /\ c.inRange < 30 THEN "MANAGER" ELSE "off"]
    <2>1. CASE Outcome(c) \in {"good", "bad"}
        <3>1. l \in Lesson
            BY <2>1 DEF Lesson
        <3>2. derivLesson(c, t) = <<l>>
            BY <2>1 DEF derivLesson
        <3> HIDE DEF l
        <3> QED
            BY <3>1, <3>2
    <2>2. CASE Outcome(c) \notin {"good", "bad"}
        BY <2>2 DEF derivLesson
    <2> QED
        BY <2>1, <2>2
<1>2. b.perf \in Seq(Closes) /\ b.lessons \in Seq(Lesson)
    BY DEF Book
<1>3. Append(b.perf, c) \in Seq(Closes) /\ b.lessons \o derivLesson(c, t) \in Seq(Lesson)
    BY <1>1, <1>2, AppendProperties, ConcatProperties
<1> QED
    BY <1>3 DEF Recorded, Book

LEMMA PinnedOk ==
    ASSUME NEW s \in Seq(Lesson), NEW id, NEW b \in BOOLEAN
    PROVE  SetPinned(s, id, b) \in Seq(Lesson)
<1> DEFINE i == FirstWith(s, id)
           n == Len(s)
           t == SetPinned(s, id, b)
<1>1. n \in Nat /\ \A k \in 1 .. n : s[k] \in Lesson
    OBVIOUS
<1>2. t = [k \in 1 .. n |-> IF k = i THEN [s[k] EXCEPT !.pinned = b] ELSE s[k]]
    BY DEF SetPinned
<1>3. \A k \in 1 .. n : [s[k] EXCEPT !.pinned = b] \in Lesson
    BY <1>1 DEF Lesson
<1> HIDE DEF i, t, n
<1>4. t \in Seq(Lesson)
    BY <1>1, <1>2, <1>3
<1> QED
    BY <1>4 DEF t

\* What people, models and the evolution write is a lesson.
LEMMA WrittenOk ==
    ASSUME NEW t \in Nat
    PROVE  /\ EvolutionLesson(t) \in Lesson
           /\ \A m \in Manual : NewLesson(m.role, m.pinned, m.tag, t) \in Lesson
<1>1. EvolutionLesson(t) \in Lesson
    BY DEF EvolutionLesson, Lesson
<1>2. ASSUME NEW m \in Manual
      PROVE  NewLesson(m.role, m.pinned, m.tag, t) \in Lesson
    <2>1. NewLesson(m.role, m.pinned, m.tag, 0) \in Lesson
        BY LifeConstants
    <2> QED
        BY <2>1 DEF NewLesson, Lesson
<1> QED
    BY <1>1, <1>2

\* How long a token is to be left alone after a close of pool p.
LEMMA ColdAfterOk ==
    ASSUME NEW p, NEW closes, NEW t, coldUntil[t] \in Nat, now \in Nat
    PROVE  LET c == ColdAfter(p, closes, t)
               oor == t = TokenOf[p] /\ RepeatedOor(closes)
               fees == t = TokenOf[p] /\ RepeatScope # "pool" /\ RepeatedFees(closes)
           IN  /\ c \in Nat /\ c >= coldUntil[t]
               /\ oor => c >= now + OorHours
               /\ fees => c >= now + RepeatHours
               /\ \/ c = coldUntil[t]
                  \/ oor /\ c = now + OorHours
                  \/ fees /\ c = now + RepeatHours
<1> DEFINE oor == t = TokenOf[p] /\ RepeatedOor(closes)
           fees == t = TokenOf[p] /\ RepeatScope # "pool" /\ RepeatedFees(closes)
           S == {coldUntil[t]} \cup {now + OorHours : x \in {y \in {1} : oor}}
                               \cup {now + RepeatHours : x \in {y \in {1} : fees}}
<1>1. now + OorHours \in Nat /\ now + RepeatHours \in Nat
    BY PoolConstants
<1>2. ColdAfter(p, closes, t) = Max(S)
    BY DEF ColdAfter
<1> HIDE DEF oor, fees
<1>3. /\ coldUntil[t] \in S
      /\ oor => now + OorHours \in S
      /\ fees => now + RepeatHours \in S
      /\ \A x \in S : x = coldUntil[t] \/ (oor /\ x = now + OorHours) \/ (fees /\ x = now + RepeatHours)
    OBVIOUS
<1> HIDE DEF S
<1>4. S \in SUBSET Nat
    BY <1>1, <1>3
<1> DEFINE a == now + OorHours
           b == now + RepeatHours
           m == IF oor /\ a >= coldUntil[t] /\ (fees => a >= b) THEN a
                ELSE IF fees /\ b >= coldUntil[t] THEN b ELSE coldUntil[t]
<1>5. m \in S /\ \A x \in S : x <= m
    <2> HIDE DEF a, b
    <2>1. CASE oor /\ a >= coldUntil[t] /\ (fees => a >= b)
        BY <1>1, <1>3, <2>1 DEF a, b
    <2>2. CASE ~ (oor /\ a >= coldUntil[t] /\ (fees => a >= b)) /\ fees /\ b >= coldUntil[t]
        BY <1>1, <1>3, <2>2 DEF a, b
    <2>3. CASE ~ (oor /\ a >= coldUntil[t] /\ (fees => a >= b)) /\ ~ (fees /\ b >= coldUntil[t])
        BY <1>1, <1>3, <2>3 DEF a, b
    <2> QED
        BY <2>1, <2>2, <2>3
<1> HIDE DEF m
<1>6. ColdAfter(p, closes, t) = m
    BY <1>2, <1>4, <1>5, GreatestMember
<1>7. /\ m \in Nat /\ m >= coldUntil[t]
      /\ oor => m >= now + OorHours
      /\ fees => m >= now + RepeatHours
      /\ m = coldUntil[t] \/ (oor /\ m = now + OorHours) \/ (fees /\ m = now + RepeatHours)
    BY <1>1, <1>3, <1>4, <1>5
<1> QED
    BY ONLY <1>6, <1>7 DEF oor, fees

\* A snapshot and a note change no close and no cooldown of a token.
LEMMA MarkOk ==
    ASSUME NEW p \in Pools, memory = Torn \/ DbOk(memory), Snapshot(p) \/ Note(p)
    PROVE  /\ DbOk(memory') /\ DOMAIN memory' = DOMAIN load(memory) \cup {p}
           /\ \A q \in DOMAIN load(memory) :
                 /\ memory'[q].deploys = load(memory)[q].deploys
                 /\ memory'[q].mint = load(memory)[q].mint
                 /\ memory'[q].mintUntil = load(memory)[q].mintUntil
           /\ p \notin DOMAIN load(memory) => memory'[p].deploys = <<>>
<1> DEFINE db == load(memory)
           old == EntryOr(db, p, NoToken)
           snap == [old EXCEPT !.snapshots = IF @ < SnapshotCap THEN @ + 1 ELSE @]
           note == [old EXCEPT !.notes = @ + 1]
<1>1. DbOk(db)
    BY LoadOk
<1>2. memory' = Put(db, p, snap) \/ memory' = Put(db, p, note)
    BY DEF Snapshot, Note, recordPositionSnapshot, addPoolNote
<1> HIDE DEF db
<1>3. old \in Entry /\ old.mint \in {NoToken, TokenOf[p]}
    BY <1>1, EntryOrOk
<1>4. /\ p \in DOMAIN db => old = db[p]
      /\ p \notin DOMAIN db => old.deploys = <<>>
    BY DEF EntryOr, NewEntry
<1> HIDE DEF old
<1>5. /\ snap \in Entry /\ snap.mint = old.mint /\ snap.deploys = old.deploys
      /\ snap.mintUntil = old.mintUntil
    <2> DEFINE k == IF old.snapshots < SnapshotCap THEN old.snapshots + 1 ELSE old.snapshots
    <2>1. k \in 0..SnapshotCap
        BY <1>3, PoolConstants DEF Entry
    <2>2. snap = [old EXCEPT !.snapshots = k]
        OBVIOUS
    <2> HIDE DEF snap, k
    <2> QED
        BY <1>3, <2>1, <2>2 DEF Entry
<1>6. /\ note \in Entry /\ note.mint = old.mint /\ note.deploys = old.deploys
      /\ note.mintUntil = old.mintUntil
    BY <1>3 DEF Entry
<1>7. PICK e \in Entry : /\ memory' = Put(db, p, e) /\ e.mint = old.mint
                         /\ e.deploys = old.deploys /\ e.mintUntil = old.mintUntil
    BY <1>2, <1>5, <1>6
<1>8. DbOk(memory')
    <2>1. e.mint \in {NoToken, TokenOf[p]}
        BY <1>3, <1>7
    <2>2. DbOk(Put(db, p, e))
        BY ONLY <1>1, <2>1, p \in Pools, e \in Entry, PutOk
    <2> QED
        BY <1>7, <2>2
<1>9. /\ DOMAIN memory' = DOMAIN db \cup {p} /\ memory'[p] = e
      /\ \A q \in DOMAIN db : q # p => memory'[q] = db[q]
    BY <1>7 DEF Put
<1>10. /\ \A q \in DOMAIN db : /\ memory'[q].deploys = db[q].deploys
                               /\ memory'[q].mint = db[q].mint
                               /\ memory'[q].mintUntil = db[q].mintUntil
       /\ p \notin DOMAIN db => memory'[p].deploys = <<>>
    BY <1>4, <1>7, <1>9
<1> QED
    BY <1>8, <1>9, <1>10 DEF db

-----------------------------------------------------------------------------
(* Typed is an invariant. *)

LEMMA TypedInit ==
    ASSUME Init
    PROVE  Typed
<1>1. DbOk([p \in {} |-> 0])
    BY DEF DbOk
<1>2. EmptyData \in Book
    BY DEF EmptyData, Book
<1>3. DefaultWeights \in [Signals -> WeightFloor..WeightCeiling]
    BY WeightConstants DEF DefaultWeights
<1>4. 0 \in 0..MaxTime /\ [d \in Deployers |-> Idle] \in [Deployers -> {Idle} \cup Attempt]
      /\ [t \in Tokens |-> 0] \in [Tokens -> Nat]
    BY LifeConstants
<1>5. memory = Torn \/ DbOk(memory)
    BY <1>1 DEF Init
<1>6. weights \in [Signals -> WeightFloor..WeightCeiling]
    BY <1>3 DEF Init
<1>7. /\ now \in 0..MaxTime /\ open \subseteq Pools /\ settling \subseteq Pools
      /\ attempt \in [Deployers -> {Idle} \cup Attempt]
      /\ coldUntil \in [Tokens -> Nat]
      /\ data \in Book /\ minOrganic \in 60..90
    BY <1>2, <1>4 DEF Init
<1>8. /\ recorded \in Seq(Passage) /\ evolving \in Seq(Seq(Closes))
      /\ history \in Seq(Record) /\ torn \in 0..Len(history) /\ lost \subseteq 1..Len(history)
    BY DEF Init
<1> QED
    BY <1>5, <1>6, <1>7, <1>8 DEF Typed

\* Whoever checks a token or opens is in the middle of an attempt.
LEMMA AttemptOf ==
    ASSUME Typed, NEW d \in Deployers, attempt[d].stage \in {"pool", "token"}
    PROVE  attempt[d] \in Attempt /\ attempt[d].pool \in Pools /\ attempt[d].until \in Nat
<1>1. attempt[d] \in {Idle} \cup Attempt
    BY DEF Typed
<1>2. attempt[d] # Idle
    BY DEF Idle
<1> QED
    BY <1>1, <1>2 DEF Attempt

LEMMA TypedDeploy ==
    ASSUME Typed, NEW d \in Deployers
    PROVE  /\ \A p \in Pools : BeginDeploy(d, p) => Typed'
           /\ CheckToken(d) => Typed'
           /\ Opened(d) => Typed'
           /\ DeployFails(d) => Typed'
<1> USE DEF book, trace
<1>1. ASSUME NEW p \in Pools, BeginDeploy(d, p) PROVE Typed'
    <2>1. coldUntil[TokenOf[p]] \in Nat
        BY PoolConstants DEF Typed
    <2>2. [stage |-> "pool", pool |-> p, until |-> coldUntil[TokenOf[p]]] \in Attempt
        BY <2>1 DEF Attempt
    <2>3. attempt' \in [Deployers -> {Idle} \cup Attempt]
        BY <1>1, <2>2 DEF BeginDeploy, Typed
    <2> QED
        BY <1>1, <2>3 DEF BeginDeploy, Typed
<1>2. ASSUME CheckToken(d) PROVE Typed'
    <2>1. attempt[d] \in Attempt
        BY <1>2, AttemptOf DEF CheckToken
    <2>2. [attempt[d] EXCEPT !.stage = "token"] \in Attempt
        BY <2>1 DEF Attempt
    <2>3. attempt' \in [Deployers -> {Idle} \cup Attempt]
        BY <1>2, <2>2 DEF CheckToken, Typed
    <2> QED
        BY <1>2, <2>3 DEF CheckToken, Typed
<1>3. ASSUME Opened(d) PROVE Typed'
    <2>1. attempt[d].pool \in Pools
        BY <1>3, AttemptOf DEF Opened
    <2>2. attempt' \in [Deployers -> {Idle} \cup Attempt] /\ open' \subseteq Pools
        BY <1>3, <2>1 DEF Opened, Typed
    <2> QED
        BY <1>3, <2>2 DEF Opened, Typed
<1>4. ASSUME DeployFails(d) PROVE Typed'
    <2>1. attempt' \in [Deployers -> {Idle} \cup Attempt]
        BY <1>4 DEF DeployFails, Typed
    <2> QED
        BY <1>4, <2>1 DEF DeployFails, Typed
<1> QED
    BY <1>1, <1>2, <1>3, <1>4

LEMMA TypedClose ==
    ASSUME Typed, NEW p \in Pools
    PROVE  /\ CloseSettles(p) => Typed'
           /\ \A c \in Closes : recordPerformance(p, c) => Typed'
<1> USE DEF book, trace
<1>1. ASSUME CloseSettles(p) PROVE Typed'
    <2>1. open' \subseteq Pools /\ settling' \subseteq Pools
        BY <1>1 DEF CloseSettles, Typed
    <2> QED
        BY <1>1, <2>1 DEF CloseSettles, Typed
<1>2. ASSUME NEW c \in Closes, recordPerformance(p, c) PROVE Typed'
    <2>1. settling' \subseteq Pools
        BY <1>2 DEF recordPerformance, Typed
    <2>2. CASE Suspicious(c)
        BY <1>2, <2>1, <2>2 DEF recordPerformance, Typed
    <2>3. CASE ~ Suspicious(c)
        <3> DEFINE kept == Recorded(Data, c, now)
                   r == [index |-> Len(history) + 1, perf |-> kept.perf]
                   e == [pool |-> p, close |-> c]
        <3>1. data' = kept /\ history' = Append(history, e) /\ recorded' = Append(recorded, r)
            BY <1>2, <2>3 DEF recordPerformance
        <3>2. now \in Nat /\ Data \in Book
            BY DataOk, LifeConstants DEF Typed
        <3>3. kept \in Book /\ kept.perf \in Seq(Closes)
            BY <3>2, RecordedOk
        <3> HIDE DEF kept
        <3>4. e \in Record /\ history \in Seq(Record) /\ recorded \in Seq(Passage)
            BY DEF Record, Typed
        <3>5. r \in Passage
            BY <3>3, <3>4 DEF Passage
        <3> HIDE DEF e, r
        <3>6. /\ history' \in Seq(Record) /\ Len(history') = Len(history) + 1
              /\ recorded' \in Seq(Passage)
            BY <3>1, <3>4, <3>5, AppendProperties
        <3>7. torn' \in 0..Len(history') /\ lost' \subseteq 1..Len(history')
            BY <1>2, <3>4, <3>6 DEF recordPerformance, Typed
        <3> QED
            BY <1>2, <2>1, <3>1, <3>3, <3>6, <3>7 DEF recordPerformance, Typed
    <2> QED
        BY <2>2, <2>3
<1> QED
    BY <1>1, <1>2

LEMMA TypedEvolve ==
    ASSUME Typed, Evolve
    PROVE  Typed'
<1> USE DEF book, trace
<1> DEFINE perf == Head(evolving)
           new == evolveThresholds(perf, minOrganic)
<1>1. evolving \in Seq(Seq(Closes)) /\ evolving # <<>>
    BY DEF Evolve, Typed
<1>2. perf \in Seq(Closes) /\ evolving' \in Seq(Seq(Closes))
    BY <1>1, HeadTailProperties DEF Evolve
<1>3. minOrganic' \in 60..90
    <2>1. minOrganic' = new
        BY DEF Evolve
    <2> QED
        BY <1>2, <2>1, FloorStays DEF Typed
<1>4. data' = Torn \/ data' \in Book
    <2>1. data' = data \/ data' = [Data EXCEPT !.lessons = addLesson(@, EvolutionLesson(now))]
        BY DEF Evolve
    <2>2. Data \in Book /\ EvolutionLesson(now) \in Lesson
        BY DataOk, WrittenOk, LifeConstants DEF Typed
    <2>3. Append(Data.lessons, EvolutionLesson(now)) \in Seq(Lesson)
        BY <2>2, AppendProperties DEF Book
    <2> QED
        BY <2>1, <2>2, <2>3 DEF addLesson, Book, Typed
<1>5. weights' \in [Signals -> WeightFloor..WeightCeiling]
    <2>1. weights' = weights \/ \E r \in Rankings : weights' = recalculateWeights(weights, r)
        BY DEF Evolve
    <2> QED
        BY <2>1, WeightsStay DEF Typed
<1>6. UNCHANGED <<now, open, attempt, settling, memory, recorded, trace>>
    BY DEF Evolve
<1> QED
    BY <1>2, <1>3, <1>4, <1>5, <1>6 DEF Typed

\* The writes besides.
LEMMA TypedLessons ==
    ASSUME Typed, NEW l \in Seq(Lesson), OnLessons(l)
    PROVE  Typed'
<1> USE DEF book, trace
<1>1. Data \in Book
    BY DataOk DEF Typed
<1>2. data' \in Book
    BY <1>1 DEF OnLessons, Book
<1> QED
    BY <1>2 DEF OnLessons, Typed

LEMMA TypedExtras ==
    ASSUME Typed
    PROVE  /\ \A p \in Pools : Snapshot(p) \/ Note(p) => Typed'
           /\ AddLesson => Typed'
           /\ Pin \/ Unpin => Typed'
           /\ RemoveLessons => Typed'
           /\ clearAllLessons => Typed'
           /\ clearPerformance => Typed'
<1> USE DEF book, trace
<1>1. /\ Data \in Book /\ Data.lessons \in Seq(Lesson) /\ Data.perf \in Seq(Closes)
      /\ now \in Nat
    BY DataOk, LifeConstants DEF Typed, Book
<1>2. ASSUME NEW p \in Pools, Snapshot(p) \/ Note(p) PROVE Typed'
    <2>1. DbOk(memory')
        BY <1>2, MarkOk DEF Typed
    <2> QED
        BY <1>2, <2>1 DEF Snapshot, Note, Typed
<1>3. ASSUME AddLesson PROVE Typed'
    <2>1. PICK m \in Manual :
              OnLessons(addLesson(Data.lessons, NewLesson(m.role, m.pinned, m.tag, now)))
        BY <1>3 DEF AddLesson
    <2>2. addLesson(Data.lessons, NewLesson(m.role, m.pinned, m.tag, now)) \in Seq(Lesson)
        BY <1>1, WrittenOk, AppendProperties DEF addLesson
    <2> QED
        BY <2>1, <2>2, TypedLessons
<1>4. ASSUME Pin \/ Unpin PROVE Typed'
    <2>1. ASSUME Pin PROVE Typed'
        <3>1. PICK i \in DOMAIN Data.lessons : OnLessons(pinLesson(Data.lessons, Data.lessons[i].id))
            BY <2>1 DEF Pin
        <3>2. pinLesson(Data.lessons, Data.lessons[i].id) \in Seq(Lesson)
            BY <1>1, PinnedOk DEF pinLesson
        <3> QED
            BY <3>1, <3>2, TypedLessons
    <2>2. ASSUME Unpin PROVE Typed'
        <3>1. PICK i \in DOMAIN Data.lessons : OnLessons(unpinLesson(Data.lessons, Data.lessons[i].id))
            BY <2>2 DEF Unpin
        <3>2. unpinLesson(Data.lessons, Data.lessons[i].id) \in Seq(Lesson)
            BY <1>1, PinnedOk DEF unpinLesson
        <3> QED
            BY <3>1, <3>2, TypedLessons
    <2> QED
        BY <1>4, <2>1, <2>2
<1>5. ASSUME RemoveLessons PROVE Typed'
    <2>1. PICK o : OnLessons(removeLessonsByKeyword(Data.lessons, o))
        BY <1>5 DEF RemoveLessons
    <2>2. removeLessonsByKeyword(Data.lessons, o) \in Seq(Lesson)
        <3>1. {i \in DOMAIN Data.lessons : Data.lessons[i].outcome # o} \in SUBSET DOMAIN Data.lessons
            OBVIOUS
        <3> QED
            BY <1>1, <3>1, KeepMembers DEF removeLessonsByKeyword
    <2> QED
        BY <2>1, <2>2, TypedLessons
<1>6. ASSUME clearAllLessons PROVE Typed'
    <2>1. <<>> \in Seq(Lesson)
        OBVIOUS
    <2> QED
        BY <1>6, <2>1, TypedLessons DEF clearAllLessons
<1>7. ASSUME clearPerformance PROVE Typed'
    <2>1. data' = [Data EXCEPT !.perf = <<>>] /\ <<>> \in Seq(Closes)
        BY <1>7 DEF clearPerformance
    <2>2. data' \in Book
        BY <1>1, <2>1 DEF Book
    <2> QED
        BY <1>7, <2>2 DEF clearPerformance, Typed
<1> QED
    BY <1>2, <1>3, <1>4, <1>5, <1>6, <1>7

\* The process dies.
LEMMA TypedDies ==
    ASSUME Typed, Fifo
    PROVE  /\ Crash => Typed'
           /\ DiesInMemory => Typed'
           /\ DiesInLessons => Typed'
<1>1. Waiting \subseteq 1 .. Len(history)
    BY DEF Waiting, Fifo, Typed
<1>2. ASSUME Dies
      PROVE  /\ UNCHANGED <<now, open, minOrganic, weights, history>>
             /\ attempt' \in [Deployers -> {Idle} \cup Attempt]
             /\ settling' \subseteq Pools /\ recorded' \in Seq(Passage)
             /\ evolving' \in Seq(Seq(Closes)) /\ lost' \subseteq 1 .. Len(history)
    BY <1>1, <1>2 DEF Dies, Typed
<1>3. ASSUME Crash PROVE Typed'
    BY <1>2, <1>3 DEF Crash, Typed
<1>4. ASSUME DiesInMemory PROVE Typed'
    <2>1. torn' \in 0 .. Len(history) /\ coldUntil' \in [Tokens -> Nat] /\ memory' = Torn
        BY <1>4 DEF DiesInMemory, Typed
    <2> QED
        BY <1>2, <1>4, <2>1 DEF DiesInMemory, Typed
<1>5. ASSUME DiesInLessons PROVE Typed'
    BY <1>2, <1>5 DEF DiesInLessons, Typed
<1> QED
    BY <1>3, <1>4, <1>5

-----------------------------------------------------------------------------
(* The memory follows the record. *)

\* The record that has waited longest is the next one the memory takes: every
\* record before it is in the memory already, or never will be.
LEMMA HeadWaits ==
    ASSUME Typed, Fifo, recorded # <<>>
    PROVE  LET n == Head(recorded).index
           IN  /\ Head(recorded) \in Passage /\ Tail(recorded) \in Seq(Passage)
               /\ n \in DOMAIN history /\ history[n] \in Record
               /\ \A i \in DOMAIN Tail(recorded) :
                     i + 1 \in DOMAIN recorded /\ Tail(recorded)[i] = recorded[i + 1]
               /\ {Tail(recorded)[i].index : i \in DOMAIN Tail(recorded)} = Waiting \ {n}
               /\ InMemory(history, Waiting \ {n}) = InMemory(history, Waiting) \cup {n}
               /\ \A i \in InMemory(history, Waiting) : i < n
               /\ \A w \in Waiting \ {n} : n < w
<1> DEFINE n == Head(recorded).index
           rest == Tail(recorded)
<1>1. /\ recorded \in Seq(Passage) /\ history \in Seq(Record)
      /\ torn \in Nat /\ Len(history) \in Nat /\ DOMAIN history = 1 .. Len(history)
    BY DEF Typed
<1>2. /\ Head(recorded) \in Passage /\ rest \in Seq(Passage) /\ Len(rest) = Len(recorded) - 1
      /\ Len(recorded) \in Nat \ {0} /\ Head(recorded) = recorded[1]
      /\ \A i \in 1 .. Len(rest) : rest[i] = recorded[i + 1]
    BY <1>1, HeadTailProperties
<1>3. 1 \in DOMAIN recorded /\ DOMAIN recorded = 1 .. Len(recorded) /\ DOMAIN rest = 1 .. Len(rest)
    BY <1>1, <1>2
<1>4. n \in (torn + 1 .. Len(history)) \ lost
    BY <1>2, <1>3 DEF Fifo
<1>5. n \in DOMAIN history /\ history[n] \in Record
    BY <1>1, <1>4
<1>6. n \in Waiting
    BY <1>2, <1>3 DEF Waiting
<1>7. \A i \in DOMAIN rest : i + 1 \in DOMAIN recorded /\ rest[i] = recorded[i + 1]
    BY <1>2, <1>3
<1>8. \A j \in DOMAIN recorded : j = 1 \/ (j - 1 \in DOMAIN rest /\ recorded[j] = rest[j - 1])
    BY <1>2, <1>3
<1>9. \A j \in DOMAIN recorded : j # 1 => n < recorded[j].index
    <2>1. \A j \in DOMAIN recorded : j # 1 => 1 < j
        BY <1>2, <1>3
    <2> QED
        BY <1>2, <1>3, <2>1 DEF Fifo
<1> HIDE DEF n, rest
<1>10. {rest[i].index : i \in DOMAIN rest} = Waiting \ {n}
    <2>1. ASSUME NEW i \in DOMAIN rest PROVE rest[i].index \in Waiting \ {n}
        <3>1. i + 1 # 1
            BY <1>3, <2>1
        <3>2. n < recorded[i + 1].index /\ n \in Int
            BY <1>4, <1>7, <1>9, <2>1, <3>1
        <3>3. recorded[i + 1].index # n
            BY <1>1, <1>7, <2>1, <3>2
        <3> QED
            BY <1>7, <2>1, <3>3 DEF Waiting
    <2>2. ASSUME NEW w \in Waiting \ {n} PROVE \E i \in DOMAIN rest : w = rest[i].index
        <3>1. PICK j \in DOMAIN recorded : w = recorded[j].index
            BY <2>2 DEF Waiting
        <3>2. j # 1
            BY <1>2, <2>2, <3>1 DEF n
        <3> QED
            BY <1>8, <3>1, <3>2
    <2> QED
        BY <2>1, <2>2
<1>11. InMemory(history, Waiting \ {n}) = InMemory(history, Waiting) \cup {n}
    BY <1>4, <1>6 DEF InMemory
<1>12. \A i \in InMemory(history, Waiting) : i < n
    BY <1>6 DEF Fifo
<1>13. \A w \in Waiting \ {n} : n < w
    <2>1. ASSUME NEW w \in Waiting \ {n} PROVE n < w
        <3>1. PICK j \in DOMAIN recorded : w = recorded[j].index
            BY <2>1 DEF Waiting
        <3>2. j # 1
            BY <1>2, <2>1, <3>1 DEF n
        <3> QED
            BY <1>9, <3>1, <3>2
    <2> QED
        BY <2>1
<1> QED
    BY <1>2, <1>5, <1>7, <1>10, <1>11, <1>12, <1>13 DEF n, rest

\* What the memory is to hold when the records in known are in it.
Follows(db, h, known) ==
    \A q \in Pools : IF q \in DOMAIN db THEN db[q].deploys = ClosesOf(q, h, known)
                     ELSE ClosesOf(q, h, known) = <<>>

LEMMA FollowsIs ==
    MemoryFollowsRecord <=> Follows(load(memory), history, InMemory(history, Waiting))
BY DEF MemoryFollowsRecord, Follows

LEMMA InMemoryTyped ==
    ASSUME NEW h, Len(h) \in Nat, DOMAIN h = 1 .. Len(h), torn \in Nat, NEW W
    PROVE  InMemory(h, W) \in SUBSET DOMAIN h
BY DEF InMemory

\* One step of RecordPool.
LEMMA RecordStep ==
    ASSUME Typed, Fifo, MemoryFollowsRecord, RecordPool
    PROVE  LET n == Head(recorded).index
               p == history[n].pool
               db == load(memory)
               known == InMemory(history, Waiting) \cup {n}
               closes == ClosesOf(p, history, known)
           IN  /\ p \in Pools /\ DbOk(memory')
               /\ \A q : q \in DOMAIN memory' <=> q \in DOMAIN db \/ q = p
               /\ Follows(memory', history, known)
               /\ memory'[p].mint = TokenOf[p]
               /\ \A q \in DOMAIN db : q # p => memory'[q].mint = db[q].mint
               /\ \A q \in DOMAIN memory' :
                     memory'[q].mintUntil =
                        IF memory'[q].mint = TokenOf[p] /\ RepeatedFees(closes) /\ RepeatScope # "pool"
                        THEN now + RepeatHours
                        ELSE IF memory'[q].mint = TokenOf[p] /\ RepeatedOor(closes)
                        THEN now + OorHours
                        ELSE Until(db, q)
               /\ coldUntil' = [t \in Tokens |-> ColdAfter(p, closes, t)]
<1> DEFINE n == Head(recorded).index
           p == history[n].pool
           d == history[n].close
           db == load(memory)
           was == InMemory(history, Waiting)
           known == was \cup {n}
           closes == ClosesOf(p, history, known)
<1>1. recorded # <<>>
    BY DEF RecordPool
<1>2. /\ n \in DOMAIN history /\ history[n] \in Record
      /\ InMemory(history, Waiting \ {n}) = known
      /\ \A i \in was : i < n
    BY <1>1, HeadWaits
<1>3. /\ memory' = recordPoolDeploy(db, p, d, now)
      /\ coldUntil' = [t \in Tokens |-> ColdAfter(p, closes, t)]
    BY <1>2 DEF RecordPool
<1>4. /\ history \in Seq(Record) /\ Len(history) \in Nat /\ DOMAIN history = 1 .. Len(history)
      /\ torn \in Nat /\ now \in Nat
    BY LifeConstants DEF Typed
<1>5. was \in SUBSET DOMAIN history
    BY <1>4, InMemoryTyped
<1>6. p \in Pools /\ d \in Closes
    BY <1>2 DEF Record
<1>7. DbOk(db)
    BY LoadOk DEF Typed
<1>8. Follows(db, history, was)
    BY FollowsIs
<1> HIDE DEF n, was
<1>9. ASSUME NEW q \in Pools
      PROVE  ClosesOf(q, history, known) =
                IF history[n].pool = q THEN Append(ClosesOf(q, history, was), history[n].close)
                ELSE ClosesOf(q, history, was)
    <2>1. history \in Seq(Record) /\ was \in SUBSET DOMAIN history /\ n \in DOMAIN history
        BY <1>2, <1>4, <1>5
    <2>2. \A i \in was : i < n
        BY <1>2
    <2>3. \A h \in Seq(Record) : \A old \in SUBSET DOMAIN h : \A m \in DOMAIN h :
             (\A i \in old : i < m) =>
             \A r : ClosesOf(r, h, old \cup {m}) =
                       IF h[m].pool = r THEN Append(ClosesOf(r, h, old), h[m].close)
                       ELSE ClosesOf(r, h, old)
        BY ONLY ClosesGrow, Zenon
    <2>4. \A old \in SUBSET DOMAIN history : \A m \in DOMAIN history :
             (\A i \in old : i < m) =>
             \A r : ClosesOf(r, history, old \cup {m}) =
                       IF history[m].pool = r THEN Append(ClosesOf(r, history, old), history[m].close)
                       ELSE ClosesOf(r, history, old)
        BY ONLY <2>1, <2>3, Zenon
    <2>5. (\A i \in was : i < n) =>
             \A r : ClosesOf(r, history, was \cup {n}) =
                       IF history[n].pool = r THEN Append(ClosesOf(r, history, was), history[n].close)
                       ELSE ClosesOf(r, history, was)
        BY ONLY <2>1, <2>4, Zenon
    <2> QED
        BY ONLY <2>2, <2>5, Zenon
<1> HIDE DEF known, p, d, db
<1>10. /\ DbOk(memory') /\ \A q : q \in DOMAIN memory' <=> q \in DOMAIN db \/ q = p
       /\ memory'[p].mint = TokenOf[p]
       /\ memory'[p].deploys = Append(EntryOr(db, p, TokenOf[p]).deploys, d)
       /\ \A q \in DOMAIN db : q # p => /\ memory'[q].deploys = db[q].deploys
                                        /\ memory'[q].mint = db[q].mint
       /\ \A q \in DOMAIN memory' :
             memory'[q].mintUntil =
                IF memory'[q].mint = TokenOf[p] /\ RepeatedFees(memory'[p].deploys) /\ RepeatScope # "pool"
                THEN now + RepeatHours
                ELSE IF memory'[q].mint = TokenOf[p] /\ RepeatedOor(memory'[p].deploys)
                THEN now + OorHours
                ELSE Until(db, q)
    BY <1>3, <1>4, <1>6, <1>7, RecordOk
<1>11. EntryOr(db, p, TokenOf[p]).deploys = ClosesOf(p, history, was)
    BY <1>6, <1>8 DEF Follows, EntryOr, NewEntry
<1>12. memory'[p].deploys = closes
    BY <1>6, <1>9, <1>10, <1>11 DEF p, d
<1>13. Follows(memory', history, known)
    <2>1. ASSUME NEW q \in Pools
          PROVE  IF q \in DOMAIN memory' THEN memory'[q].deploys = ClosesOf(q, history, known)
                 ELSE ClosesOf(q, history, known) = <<>>
        <3>1. CASE q = p
            BY <1>10, <1>12, <3>1
        <3>2. CASE q # p
            <4>1. ClosesOf(q, history, known) = ClosesOf(q, history, was)
                BY <1>9, <3>2 DEF p
            <4> QED
                BY <1>8, <1>10, <3>2, <4>1 DEF Follows
        <3> QED
            BY <3>1, <3>2
    <2> QED
        BY <2>1 DEF Follows
<1> HIDE DEF closes
<1>14. \A q \in DOMAIN memory' :
          memory'[q].mintUntil =
             IF memory'[q].mint = TokenOf[p] /\ RepeatedFees(closes) /\ RepeatScope # "pool"
             THEN now + RepeatHours
             ELSE IF memory'[q].mint = TokenOf[p] /\ RepeatedOor(closes)
             THEN now + OorHours
             ELSE Until(db, q)
    BY <1>10, <1>12
<1> QED
    BY <1>3, <1>6, <1>10, <1>13, <1>14 DEF n, p, db, was, known, closes

\* The files are well formed, records wait in order, the memory follows.
FollowInv == Typed /\ Fifo /\ MemoryFollowsRecord

LEMMA FollowStays ==
    ASSUME Fifo, MemoryFollowsRecord, UNCHANGED <<memory, recorded, history, lost, torn>>
    PROVE  Fifo' /\ MemoryFollowsRecord'
<1>1. Waiting' = Waiting
    BY DEF Waiting
<1>2. InMemory(history, Waiting)' = InMemory(history, Waiting)
    BY <1>1 DEF InMemory
<1>3. Fifo'
    BY <1>1, <1>2 DEF Fifo
<1>4. MemoryFollowsRecord'
    BY <1>2 DEF MemoryFollowsRecord, ClosesOf
<1> QED
    BY <1>3, <1>4

LEMMA FollowMark ==
    ASSUME FollowInv, NEW p \in Pools, Snapshot(p) \/ Note(p)
    PROVE  FollowInv'
<1> USE DEF book, trace
<1>1. Typed'
    BY TypedExtras DEF FollowInv
<1>2. UNCHANGED <<recorded, history, lost, torn>>
    BY DEF Snapshot, Note
<1>3. Waiting' = Waiting
    BY <1>2 DEF Waiting
<1>4. InMemory(history, Waiting)' = InMemory(history, Waiting)
    BY <1>2, <1>3 DEF InMemory
<1>5. Fifo'
    BY <1>2, <1>3, <1>4 DEF Fifo, FollowInv
<1> DEFINE known == InMemory(history, Waiting)
           db == load(memory)
<1>6. Follows(db, history, known)
    BY FollowsIs DEF FollowInv
<1>7. /\ DbOk(memory') /\ DOMAIN memory' = DOMAIN db \cup {p}
      /\ \A q \in DOMAIN db : memory'[q].deploys = db[q].deploys
      /\ p \notin DOMAIN db => memory'[p].deploys = <<>>
    BY MarkOk DEF FollowInv, Typed
<1>8. load(memory)' = memory'
    BY <1>7, LoadKeeps
<1> HIDE DEF known, db
<1>9. Follows(memory', history, known)
    BY <1>6, <1>7 DEF Follows
<1>10. MemoryFollowsRecord'
    BY <1>2, <1>4, <1>8, <1>9 DEF Follows, MemoryFollowsRecord, known, ClosesOf
<1> QED
    BY <1>1, <1>5, <1>10 DEF FollowInv

LEMMA FollowPerformance ==
    ASSUME FollowInv, NEW p \in Pools, NEW c \in Closes, recordPerformance(p, c)
    PROVE  FollowInv'
<1>1. Typed'
    BY TypedClose DEF FollowInv
<1>2. CASE Suspicious(c)
    BY <1>1, <1>2, FollowStays DEF FollowInv, recordPerformance
<1>3. CASE ~ Suspicious(c)
    <2> DEFINE e == [pool |-> p, close |-> c]
               n == Len(history) + 1
               r == [index |-> n, perf |-> Recorded(Data, c, now).perf]
               known == InMemory(history, Waiting)
    <2>1. /\ history' = Append(history, e) /\ recorded' = Append(recorded, r)
          /\ UNCHANGED <<memory, lost, torn>>
        BY <1>3 DEF recordPerformance
    <2>2. /\ history \in Seq(Record) /\ recorded \in Seq(Passage) /\ e \in Record
          /\ torn \in 0 .. Len(history) /\ lost \subseteq 1 .. Len(history)
          /\ recorded' \in Seq(Passage)
        BY <1>1 DEF FollowInv, Typed, Record
    <2>3. r.index = n
        OBVIOUS
    <2> HIDE DEF e, r
    <2>4. /\ Len(history) \in Nat /\ DOMAIN history = 1 .. Len(history)
          /\ Len(history') = n /\ \A i \in 1 .. Len(history) : history'[i] = history[i]
          /\ DOMAIN history' = 1 .. n
        BY <2>1, <2>2, AppendProperties
    <2> DEFINE k == Len(recorded)
    <2>5. /\ k \in Nat /\ DOMAIN recorded = 1 .. k /\ DOMAIN recorded' = 1 .. (k + 1)
          /\ recorded'[k + 1] = r /\ \A i \in 1 .. k : recorded'[i] = recorded[i]
        <3>1. recorded' \in Seq(Passage) /\ Len(recorded') = k + 1
            BY <2>1, <2>2
        <3>2. recorded'[k + 1] = r /\ \A i \in 1 .. k : recorded'[i] = recorded[i]
            BY <2>1, <2>2
        <3> QED
            BY <2>2, <3>1, <3>2
    <2> HIDE DEF k
    <2>6. \A i \in 1 .. (k + 1) : i \in 1 .. k \/ i = k + 1
        BY <2>5
    <2>7. \A i \in 1 .. k : recorded[i].index \in (torn + 1 .. Len(history)) \ lost
        BY <2>5 DEF FollowInv, Fifo
    <2>8. \A w \in Waiting' : w \in Waiting \/ w = n
        BY <2>3, <2>5, <2>6 DEF Waiting
    <2>9. Waiting \subseteq Waiting' /\ n \in Waiting'
        <3>1. \A i \in 1 .. k : i \in 1 .. (k + 1)
            BY <2>5
        <3>2. k + 1 \in 1 .. (k + 1)
            BY <2>5
        <3> QED
            BY <2>3, <2>5, <3>1, <3>2 DEF Waiting
    <2>10. InMemory(history, Waiting)' = known
        <3>1. \A i \in torn + 1 .. n : i \in torn + 1 .. Len(history) \/ i = n
            BY <2>2, <2>4
        <3>2. \A i \in torn + 1 .. Len(history) : i \in torn + 1 .. n /\ i # n
            BY <2>2, <2>4
        <3> QED
            BY <2>1, <2>4, <2>8, <2>9, <3>1, <3>2 DEF InMemory
    <2>11. known \in SUBSET DOMAIN history
        BY <2>2, <2>4, InMemoryTyped
    <2>12. Fifo'
        <3>1. \A i \in DOMAIN recorded' : recorded'[i].index \in (torn' + 1 .. Len(history')) \ lost'
            <4>1. n \in (torn + 1 .. n) \ lost
                BY <2>2, <2>4
            <4>2. \A i \in (torn + 1 .. Len(history)) \ lost : i \in (torn + 1 .. n) \ lost
                BY <2>2, <2>4
            <4> QED
                BY <2>1, <2>3, <2>4, <2>5, <2>6, <2>7, <4>1, <4>2
        <3>2. \A i, j \in DOMAIN recorded' : i < j => recorded'[i].index < recorded'[j].index
            <4>1. ASSUME NEW i \in DOMAIN recorded', NEW j \in DOMAIN recorded', i < j
                  PROVE  recorded'[i].index < recorded'[j].index
                <5>1. i \in 1 .. k
                    BY <2>5, <4>1
                <5>2. CASE j \in 1 .. k
                    BY <2>5, <4>1, <5>1, <5>2 DEF FollowInv, Fifo
                <5>3. CASE j = k + 1
                    BY <2>2, <2>3, <2>4, <2>5, <2>7, <5>1, <5>3
                <5> QED
                    BY <2>5, <2>6, <5>2, <5>3
            <4> QED
                BY <4>1
        <3>3. \A i \in known, w \in Waiting' : i < w
            <4>1. \A i \in known, w \in Waiting : i < w
                BY DEF FollowInv, Fifo
            <4>2. \A i \in known : i < n
                BY <2>4, <2>11
            <4> QED
                BY <2>8, <4>1, <4>2
        <3> HIDE DEF known
        <3> QED
            BY <2>10, <3>1, <3>2, <3>3 DEF Fifo
    <2>13. MemoryFollowsRecord'
        <3>1. \A q : ClosesOf(q, history', known) = ClosesOf(q, history, known)
            <4> HIDE DEF known
            <4> QED
                BY <2>1, <2>2, <2>11, ClosesStay
        <3>2. Follows(load(memory), history, known)
            BY FollowsIs DEF FollowInv
        <3>3. load(memory)' = load(memory)
            BY <2>1 DEF load
        <3> HIDE DEF known
        <3>4. Follows(load(memory)', history', known)
            BY <3>1, <3>2, <3>3 DEF Follows
        <3> QED
            BY <2>10, <3>4 DEF Follows, MemoryFollowsRecord
    <2> QED
        BY <1>1, <2>12, <2>13 DEF FollowInv
<1> QED
    BY <1>2, <1>3

LEMMA FollowRecordPool ==
    ASSUME FollowInv, RecordPool
    PROVE  FollowInv'
<1> USE DEF book, trace
<1> DEFINE n == Head(recorded).index
           rest == Tail(recorded)
           known == InMemory(history, Waiting) \cup {n}
<1>1. /\ recorded # <<>> /\ recorded' = rest
      /\ UNCHANGED <<now, open, attempt, settling, data, minOrganic, weights, history, lost, torn>>
    BY DEF RecordPool
<1>2. /\ Head(recorded) \in Passage /\ rest \in Seq(Passage)
      /\ \A i \in DOMAIN rest : i + 1 \in DOMAIN recorded /\ rest[i] = recorded[i + 1]
    BY <1>1, HeadWaits DEF FollowInv
<1>3. /\ InMemory(history, Waiting \ {n}) = known
      /\ \A i \in InMemory(history, Waiting) : i < n
      /\ \A w \in Waiting \ {n} : n < w
      /\ n \in DOMAIN history
    BY <1>1, HeadWaits DEF FollowInv
<1>4. Waiting' = Waiting \ {n}
    <2>1. Waiting' = {rest[i].index : i \in DOMAIN rest}
        BY <1>1 DEF Waiting
    <2>2. {rest[i].index : i \in DOMAIN rest} = Waiting \ {n}
        BY <1>1, HeadWaits DEF FollowInv
    <2> QED
        BY <2>1, <2>2
<1>5. InMemory(history, Waiting)' = InMemory(history, Waiting \ {n})
    BY <1>1, <1>4 DEF InMemory
<1>6. DbOk(memory') /\ Follows(memory', history, known)
    BY RecordStep DEF FollowInv
<1>7. coldUntil' \in [Tokens -> Nat]
    <2>1. \E p, cs : coldUntil' = [t \in Tokens |-> ColdAfter(p, cs, t)]
        BY DEF RecordPool
    <2>2. now \in Nat /\ \A t \in Tokens : coldUntil[t] \in Nat
        BY LifeConstants DEF FollowInv, Typed
    <2> QED
        BY <2>1, <2>2, ColdAfterOk
<1>8. evolving' \in Seq(Seq(Closes))
    <2>1. evolving' = evolving \/ evolving' = Append(evolving, Head(recorded).perf)
        BY DEF RecordPool
    <2>2. evolving \in Seq(Seq(Closes)) /\ Head(recorded).perf \in Seq(Closes)
        BY <1>2 DEF FollowInv, Typed, Passage
    <2> QED
        BY <2>1, <2>2, AppendProperties
<1>9. Typed'
    BY <1>1, <1>2, <1>6, <1>7, <1>8 DEF FollowInv, Typed
<1>10. Fifo'
    <2>1. \A i \in DOMAIN recorded' :
             recorded'[i].index \in (torn' + 1 .. Len(history')) \ lost'
        BY <1>1, <1>2 DEF FollowInv, Fifo
    <2>2. \A i, j \in DOMAIN recorded' : i < j => recorded'[i].index < recorded'[j].index
        <3>1. \A i \in DOMAIN rest : i \in Int
            BY <1>2
        <3>2. ASSUME NEW i \in DOMAIN rest, NEW j \in DOMAIN rest, i < j
              PROVE  rest[i].index < rest[j].index
            <4>1. i + 1 < j + 1
                BY <3>1, <3>2
            <4> QED
                BY <1>2, <4>1 DEF FollowInv, Fifo
        <3> QED
            BY <1>1, <3>2
    <2>3. \A i \in known, w \in Waiting \ {n} : i < w
        <3>1. \A i \in InMemory(history, Waiting), w \in Waiting : i < w
            BY DEF FollowInv, Fifo
        <3> QED
            BY <1>3, <3>1
    <2> HIDE DEF known
    <2> QED
        BY <1>3, <1>4, <1>5, <2>1, <2>2, <2>3 DEF Fifo
<1>11. MemoryFollowsRecord'
    <2>1. load(memory)' = memory'
        BY <1>6, LoadKeeps
    <2>2. InMemory(history, Waiting)' = known
        BY <1>3, <1>5
    <2> HIDE DEF known
    <2>3. Follows(load(memory)', history', known)
        BY <1>1, <1>6, <2>1
    <2> QED
        BY <2>2, <2>3 DEF Follows, MemoryFollowsRecord
<1> QED
    BY <1>9, <1>10, <1>11 DEF FollowInv

\* No record is remembered of a pool with no records.
LEMMA NoCloses ==
    ASSUME NEW h, NEW p
    PROVE  ClosesOf(p, h, {}) = <<>>
<1> DEFINE K == {i \in {} : h[i].pool = p}
           at == Sorted(K, Earlier(K))
<1>1. K = {}
    OBVIOUS
<1>2. Cardinality({}) = 0
    BY FS_EmptySet
<1>3. DOMAIN at = {}
    BY <1>1, <1>2 DEF Sorted
<1> HIDE DEF at
<1>4. DOMAIN Keep(h, K) = {}
    BY <1>3 DEF Keep, at
<1>5. ClosesOf(p, h, {}) = [k \in DOMAIN Keep(h, K) |-> Keep(h, K)[k].close]
    BY DEF ClosesOf
<1> HIDE DEF K
<1>6. ClosesOf(p, h, {}) = [k \in {} |-> Keep(h, K)[k].close]
    BY <1>4, <1>5
<1> QED
    BY <1>6

LEMMA FollowDies ==
    ASSUME FollowInv
    PROVE  /\ Crash => FollowInv'
           /\ DiesInMemory => FollowInv'
           /\ DiesInLessons => FollowInv'
<1>1. ASSUME Dies
      PROVE  /\ recorded' = <<>> /\ lost' = lost \cup Waiting /\ history' = history
             /\ Waiting' = {}
    <2>1. recorded' = <<>> /\ lost' = lost \cup Waiting /\ history' = history
        BY <1>1 DEF Dies
    <2> QED
        BY <2>1 DEF Waiting
<1>2. ASSUME Dies, UNCHANGED <<memory, torn>> PROVE Fifo' /\ MemoryFollowsRecord'
    <2>1. InMemory(history, Waiting)' = InMemory(history, Waiting)
        BY <1>1, <1>2 DEF InMemory
    <2>2. Fifo'
        BY <1>1, <1>2 DEF Fifo
    <2>3. MemoryFollowsRecord'
        BY <1>1, <1>2, <2>1 DEF FollowInv, MemoryFollowsRecord, ClosesOf
    <2> QED
        BY <2>2, <2>3
<1>3. ASSUME DiesInMemory PROVE Fifo' /\ MemoryFollowsRecord'
    <2>1. Fifo'
        BY <1>1, <1>3 DEF DiesInMemory, Fifo
    <2>2. torn' = Len(history') /\ Len(history') \in Nat
        BY <1>1, <1>3 DEF DiesInMemory, FollowInv, Typed
    <2>3. InMemory(history, Waiting)' = {}
        BY <2>2 DEF InMemory
    <2>4. DOMAIN load(memory)' = {}
        BY <1>3 DEF DiesInMemory, load
    <2>5. \A p : ClosesOf(p, history', {}) = <<>>
        BY NoCloses
    <2>6. MemoryFollowsRecord'
        BY <2>3, <2>4, <2>5 DEF MemoryFollowsRecord
    <2> QED
        BY <2>1, <2>6
<1>4. (Crash => Typed') /\ (DiesInMemory => Typed') /\ (DiesInLessons => Typed')
    BY TypedDies DEF FollowInv
<1> QED
    BY <1>2, <1>3, <1>4 DEF Crash, DiesInMemory, DiesInLessons, FollowInv

LEMMA FollowNext ==
    ASSUME FollowInv, [Next]_vars
    PROVE  FollowInv'
<1> USE DEF book, trace
<1>1. CASE Tick
    <2>1. now' \in 0..MaxTime
        BY <1>1, LifeConstants DEF Tick, FollowInv, Typed
    <2>2. Typed'
        BY <1>1, <2>1 DEF Tick, FollowInv, Typed
    <2> QED
        BY <1>1, <2>2, FollowStays DEF Tick, FollowInv
<1>2. CASE RecordPool
    BY <1>2, FollowRecordPool
<1>3. CASE Evolve
    BY <1>3, TypedEvolve, FollowStays DEF Evolve, FollowInv
<1>4. ASSUME NEW d \in Deployers, CheckToken(d) \/ Opened(d) \/ DeployFails(d)
      PROVE  FollowInv'
    <2>1. UNCHANGED <<memory, recorded, history, lost, torn>>
        BY <1>4 DEF CheckToken, Opened, DeployFails
    <2> QED
        BY <1>4, <2>1, TypedDeploy, FollowStays DEF FollowInv
<1>5. ASSUME NEW d \in Deployers, NEW p \in Pools, BeginDeploy(d, p) PROVE FollowInv'
    BY <1>5, TypedDeploy, FollowStays DEF BeginDeploy, FollowInv
<1>6. ASSUME NEW p \in Pools, CloseSettles(p) PROVE FollowInv'
    BY <1>6, TypedClose, FollowStays DEF CloseSettles, FollowInv
<1>7. ASSUME NEW p \in Pools, Snapshot(p) \/ Note(p) PROVE FollowInv'
    BY <1>7, FollowMark
<1>8. ASSUME NEW p \in Pools, NEW c \in Closes, recordPerformance(p, c) PROVE FollowInv'
    BY <1>8, FollowPerformance
<1>9. CASE AddLesson \/ Pin \/ Unpin \/ RemoveLessons \/ clearAllLessons \/ clearPerformance
    <2>1. UNCHANGED <<memory, recorded, history, lost, torn>>
        BY <1>9 DEF AddLesson, Pin, Unpin, RemoveLessons, clearAllLessons, clearPerformance,
                    OnLessons
    <2> QED
        BY <1>9, <2>1, TypedExtras, FollowStays DEF FollowInv
<1>10. CASE Crash \/ DiesInMemory \/ DiesInLessons
    BY <1>10, FollowDies
<1>11. CASE UNCHANGED vars
    <2>1. Typed'
        BY <1>11 DEF vars, FollowInv, Typed
    <2> QED
        BY <1>11, <2>1, FollowStays DEF vars, FollowInv
<1> QED
    BY <1>1, <1>2, <1>3, <1>4, <1>5, <1>6, <1>7, <1>8, <1>9, <1>10, <1>11 DEF Next

LEMMA FollowInit ==
    ASSUME Init
    PROVE  FollowInv
<1>1. Typed
    BY TypedInit
<1>2. /\ recorded = <<>> /\ history = <<>> /\ lost = {} /\ torn = 0
      /\ memory = [p \in {} |-> 0]
    BY DEF Init
<1>3. Waiting = {} /\ InMemory(history, Waiting) = {}
    BY <1>2 DEF Waiting, InMemory
<1>4. DOMAIN load(memory) = {}
    BY <1>2 DEF load
<1>5. \A p : ClosesOf(p, history, {}) = <<>>
    BY NoCloses
<1>6. Fifo
    BY <1>2, <1>3 DEF Fifo
<1>7. MemoryFollowsRecord
    BY <1>3, <1>4, <1>5 DEF MemoryFollowsRecord
<1> QED
    BY <1>1, <1>6, <1>7 DEF FollowInv

LEMMA FollowAlways == Spec => []FollowInv
<1>1. Init => FollowInv
    BY FollowInit
<1>2. FollowInv /\ [Next]_vars => FollowInv'
    BY FollowNext
<1> QED
    BY <1>1, <1>2, PTL DEF Spec

LEMMA RangeTyped ==
    ASSUME NEW S, NEW s \in Seq(S)
    PROVE  Range(s) \subseteq S
BY DEF Range

\* For any pools, closes and bounds, and through crashes between and in the
\* writes of the two files, a pool's memory holds the closes of the pool that
\* were recorded, once and in order, without those that were lost with the
\* process or with the file.
THEOREM MemoryCorrect == Spec => []MemoryFollowsRecord
<1>1. FollowInv => MemoryFollowsRecord
    BY DEF FollowInv
<1> QED
    BY <1>1, FollowAlways, PTL

\* For any pools, closes and bounds, positions, files and attempts are well
\* formed, the organic floor stays between 60 and 90 and every weight in its
\* bounds, whatever is adapted, torn or written by hand.
THEOREM TypeCorrect == Spec => []TypeOK
<1>1. FollowInv => TypeOK
    <2> SUFFICES ASSUME Typed PROVE TypeOK
        BY DEF FollowInv
    <2>1. \A d \in Deployers :
             attempt[d] \in {Idle} \cup [stage : {"pool", "token"}, pool : Pools, until : Nat]
        BY DEF Typed, Attempt
    <2>2. ASSUME memory # Torn
          PROVE  /\ DOMAIN memory \subseteq Pools
                 /\ \A p \in DOMAIN memory :
                       /\ memory[p].mint \in {NoToken, TokenOf[p]}
                       /\ Range(memory[p].deploys) \subseteq Closes
                       /\ memory[p].snapshots \in 0..SnapshotCap
        <3>1. DbOk(memory)
            BY <2>2 DEF Typed
        <3>2. \A p \in DOMAIN memory : memory[p] \in Entry
            BY <3>1 DEF DbOk
        <3>3. \A p \in DOMAIN memory :
                 memory[p].deploys \in Seq(Closes) /\ memory[p].snapshots \in 0..SnapshotCap
            BY <3>2 DEF Entry
        <3> QED
            BY <3>1, <3>3, RangeTyped DEF DbOk
    <2>3. data # Torn => Range(data.perf) \subseteq Closes /\ Range(data.lessons) \subseteq Lesson
        BY RangeTyped DEF Typed, Book
    <2> QED
        BY <2>1, <2>2, <2>3 DEF Typed, TypeOK
<1> QED
    BY <1>1, FollowAlways, PTL

-----------------------------------------------------------------------------
(* A token stays cold. *)

\* One cooldown of a token is written over the other, so that a shorter one
\* that comes later ends the longer one.  The default hours are the same.
SameHours == RepeatScope = "pool" \/ RepeatHours \in {0, OorHours}

ColdInv == FollowInv /\ Cold /\ TokenStaysCold

\* What changes neither the memory nor the cooldowns nor an attempt.
LEMMA ColdStays ==
    ASSUME Cold, TokenStaysCold, UNCHANGED <<memory, coldUntil, attempt>>,
           now \in Nat, now' \in Nat, now <= now', coldUntil \in [Tokens -> Nat],
           \A d \in Deployers : attempt[d].stage = "token" => attempt[d].until \in Nat
    PROVE  Cold' /\ TokenStaysCold'
<1>1. \A t \in Tokens : coldUntil[t] \in Nat
    OBVIOUS
<1>2. load(memory)' = load(memory)
    BY DEF load
<1>3. OorHours \in Nat
    BY PoolConstants
<1>4. \A t \in Tokens : coldUntil'[t] > now' =>
          \E q \in DOMAIN load(memory) : /\ load(memory)[q].mint = t
                                         /\ load(memory)[q].mintUntil >= coldUntil[t]
    BY <1>1 DEF Cold
<1>5. \A t \in Tokens : coldUntil'[t] <= now' + OorHours
    BY <1>1, <1>3 DEF Cold
<1>6. Cold'
    BY <1>2, <1>4, <1>5 DEF Cold
<1>7. TokenStaysCold'
    BY DEF TokenStaysCold
<1> QED
    BY <1>6, <1>7

LEMMA ColdDeploy ==
    ASSUME ColdInv, NEW d \in Deployers
    PROVE  /\ \A p \in Pools : BeginDeploy(d, p) => Cold' /\ TokenStaysCold'
           /\ CheckToken(d) => Cold' /\ TokenStaysCold'
           /\ Opened(d) \/ DeployFails(d) => Cold' /\ TokenStaysCold'
<1> USE DEF trace
<1>1. /\ attempt \in [Deployers -> {Idle} \cup Attempt] /\ coldUntil \in [Tokens -> Nat]
      /\ now \in Nat
    BY LifeConstants DEF ColdInv, FollowInv, Typed
<1>2. /\ \A t \in Tokens : coldUntil[t] > now =>
            \E q \in DOMAIN load(memory) : /\ load(memory)[q].mint = t
                                           /\ load(memory)[q].mintUntil >= coldUntil[t]
      /\ \A t \in Tokens : coldUntil[t] <= now + OorHours
    BY DEF ColdInv, Cold
<1>3. ASSUME UNCHANGED <<memory, coldUntil, now>>,
             \A e \in Deployers : attempt'[e].stage = "pool" =>
                 attempt'[e].until <= coldUntil[TokenOf[attempt'[e].pool]]
      PROVE  Cold'
    <2>1. load(memory)' = load(memory)
        BY <1>3 DEF load
    <2> QED
        BY <1>2, <1>3, <2>1 DEF Cold
<1>4. \A e \in Deployers : attempt[e].stage = "pool" =>
          attempt[e].until <= coldUntil[TokenOf[attempt[e].pool]]
    BY DEF ColdInv, Cold
<1>5. \A e \in Deployers : attempt[e].stage = "token" => now >= attempt[e].until
    BY DEF ColdInv, TokenStaysCold
<1>6. ASSUME NEW p \in Pools, BeginDeploy(d, p) PROVE Cold' /\ TokenStaysCold'
    <2>1. /\ \A e \in Deployers : e # d => attempt'[e] = attempt[e]
          /\ attempt'[d] = [stage |-> "pool", pool |-> p, until |-> coldUntil[TokenOf[p]]]
          /\ UNCHANGED <<memory, coldUntil, now>>
        BY <1>1, <1>6 DEF BeginDeploy
    <2>2. coldUntil[TokenOf[p]] \in Nat
        BY <1>1, PoolConstants
    <2>3. Cold'
        BY <1>3, <1>4, <2>1, <2>2
    <2>4. TokenStaysCold'
        BY <1>5, <2>1 DEF TokenStaysCold
    <2> QED
        BY <2>3, <2>4
<1>7. ASSUME CheckToken(d) PROVE Cold' /\ TokenStaysCold'
    <2> DEFINE t == TokenOf[attempt[d].pool]
    <2>1. /\ \A e \in Deployers : e # d => attempt'[e] = attempt[e]
          /\ attempt'[d] = IF isBaseMintOnCooldown(load(memory), t, now) THEN Idle
                           ELSE [attempt[d] EXCEPT !.stage = "token"]
          /\ UNCHANGED <<memory, coldUntil, now>> /\ attempt[d].stage = "pool"
        BY <1>1, <1>7 DEF CheckToken
    <2>2. attempt[d] \in Attempt /\ attempt[d].until \in Nat /\ t \in Tokens
        BY <2>1, AttemptOf, PoolConstants DEF ColdInv, FollowInv
    <2>3. attempt[d].until <= coldUntil[t]
        BY <1>4, <2>1
    <2> HIDE DEF t
    <2>4. CASE isBaseMintOnCooldown(load(memory), t, now)
        <3>1. attempt'[d].stage = "idle"
            BY <2>1, <2>4 DEF Idle
        <3>2. Cold'
            BY <1>3, <1>4, <2>1, <3>1
        <3>3. TokenStaysCold'
            BY <1>5, <2>1, <3>1 DEF TokenStaysCold
        <3> QED
            BY <3>2, <3>3
    <2>5. CASE ~ isBaseMintOnCooldown(load(memory), t, now)
        <3>1. attempt'[d].stage = "token" /\ attempt'[d].until = attempt[d].until
            BY <2>1, <2>2, <2>5 DEF Attempt
        <3>2. coldUntil[t] <= now
            <4>1. coldUntil[t] \in Nat
                BY <1>1, <2>2
            <4>2. DbOk(load(memory))
                BY LoadOk DEF ColdInv, FollowInv, Typed
            <4>3. \A q \in DOMAIN load(memory) : load(memory)[q].mintUntil \in Nat
                BY <4>2 DEF DbOk, Entry
            <4>4. \A q \in DOMAIN load(memory) :
                     ~ (load(memory)[q].mint = t /\ load(memory)[q].mintUntil > now)
                BY <2>5 DEF isBaseMintOnCooldown
            <4> QED
                BY <1>1, <1>2, <2>2, <4>1, <4>3, <4>4
        <3>3. now >= attempt[d].until
            BY <1>1, <2>2, <2>3, <3>2
        <3>4. Cold'
            BY <1>3, <1>4, <2>1, <3>1
        <3>5. TokenStaysCold'
            BY <1>5, <2>1, <3>1, <3>3 DEF TokenStaysCold
        <3> QED
            BY <3>4, <3>5
    <2> QED
        BY <2>4, <2>5
<1>8. ASSUME Opened(d) \/ DeployFails(d) PROVE Cold' /\ TokenStaysCold'
    <2>1. /\ \A e \in Deployers : e # d => attempt'[e] = attempt[e]
          /\ attempt'[d].stage = "idle"
          /\ UNCHANGED <<memory, coldUntil, now>>
        BY <1>1, <1>8 DEF Opened, DeployFails, Idle
    <2>2. Cold'
        BY <1>3, <1>4, <2>1
    <2>3. TokenStaysCold'
        BY <1>5, <2>1 DEF TokenStaysCold
    <2> QED
        BY <2>2, <2>3
<1> QED
    BY <1>6, <1>7, <1>8

\* What marks a pool leaves every token's entries as they were.
LEMMA ColdMark ==
    ASSUME ColdInv, NEW p \in Pools, Snapshot(p) \/ Note(p)
    PROVE  Cold' /\ TokenStaysCold'
<1> USE DEF trace
<1>1. UNCHANGED <<now, attempt, coldUntil>>
    BY DEF Snapshot, Note
<1>2. /\ DbOk(memory') /\ DOMAIN memory' = DOMAIN load(memory) \cup {p}
      /\ \A q \in DOMAIN load(memory) :
            /\ memory'[q].mint = load(memory)[q].mint
            /\ memory'[q].mintUntil = load(memory)[q].mintUntil
    BY MarkOk DEF ColdInv, FollowInv, Typed
<1>3. load(memory)' = memory'
    BY <1>2, LoadKeeps
<1>4. \A t \in Tokens : coldUntil[t] > now =>
          \E q \in DOMAIN load(memory) : /\ load(memory)[q].mint = t
                                         /\ load(memory)[q].mintUntil >= coldUntil[t]
    BY DEF ColdInv, Cold
<1>5. \A q \in DOMAIN load(memory) : q \in DOMAIN memory'
    BY <1>2
<1>6. \A t \in Tokens : coldUntil[t] > now =>
          \E q \in DOMAIN memory' : memory'[q].mint = t /\ memory'[q].mintUntil >= coldUntil[t]
    BY <1>2, <1>4, <1>5
<1>7. Cold'
    BY <1>1, <1>3, <1>6 DEF ColdInv, Cold
<1>8. TokenStaysCold'
    BY <1>1 DEF ColdInv, TokenStaysCold
<1> QED
    BY <1>7, <1>8

\* A close lets the token it concerns rest for as long as it is to, and
\* leaves the other tokens alone.
LEMMA ColdRecordPool ==
    ASSUME ColdInv, RecordPool, SameHours
    PROVE  Cold' /\ TokenStaysCold'
<1> DEFINE n == Head(recorded).index
           p == history[n].pool
           db == load(memory)
           closes == ClosesOf(p, history, InMemory(history, Waiting) \cup {n})
           oor == RepeatedOor(closes)
           fees == RepeatScope # "pool" /\ RepeatedFees(closes)
<1>1. UNCHANGED <<now, attempt>>
    BY DEF RecordPool
<1>2. /\ p \in Pools /\ DbOk(memory')
      /\ \A q : q \in DOMAIN memory' <=> q \in DOMAIN db \/ q = p
      /\ memory'[p].mint = TokenOf[p]
      /\ \A q \in DOMAIN db : q # p => memory'[q].mint = db[q].mint
      /\ \A q \in DOMAIN memory' :
            memory'[q].mintUntil =
               IF memory'[q].mint = TokenOf[p] /\ fees THEN now + RepeatHours
               ELSE IF memory'[q].mint = TokenOf[p] /\ oor THEN now + OorHours
               ELSE Until(db, q)
      /\ coldUntil' = [t \in Tokens |-> ColdAfter(p, closes, t)]
    <2> HIDE DEF p, db, closes
    <2> QED
        BY RecordStep DEF ColdInv, FollowInv, n, p, db, closes
<1>3. /\ now \in Nat /\ coldUntil \in [Tokens -> Nat] /\ DbOk(db)
      /\ attempt \in [Deployers -> {Idle} \cup Attempt]
    BY LifeConstants, LoadOk DEF ColdInv, FollowInv, Typed
<1>4. /\ OorHours \in Nat /\ RepeatHours \in Nat /\ TokenOf[p] \in Tokens /\ NoToken \notin Tokens
    BY <1>2, PoolConstants
<1>5. fees => RepeatHours = OorHours
    <2>1. fees => RepeatHours > 0
        BY DEF RepeatedFees
    <2> QED
        BY <2>1 DEF SameHours
<1>6. load(memory)' = memory'
    BY <1>2, LoadKeeps
<1>7. /\ \A t \in Tokens : coldUntil[t] > now =>
            \E q \in DOMAIN db : db[q].mint = t /\ db[q].mintUntil >= coldUntil[t]
      /\ \A t \in Tokens : coldUntil[t] <= now + OorHours
      /\ \A e \in Deployers : attempt[e].stage = "pool" =>
            attempt[e].until <= coldUntil[TokenOf[attempt[e].pool]]
    BY DEF ColdInv, Cold
<1>8. ASSUME NEW t \in Tokens
      PROVE  /\ coldUntil'[t] \in Nat /\ coldUntil'[t] >= coldUntil[t]
             /\ \/ coldUntil'[t] = coldUntil[t]
                \/ t = TokenOf[p] /\ oor /\ coldUntil'[t] = now + OorHours
                \/ t = TokenOf[p] /\ fees /\ coldUntil'[t] = now + RepeatHours
    <2>1. coldUntil'[t] = ColdAfter(p, closes, t) /\ coldUntil[t] \in Nat
        BY <1>2, <1>3
    <2> HIDE DEF p, closes
    <2> QED
        BY <1>3, <2>1, ColdAfterOk DEF oor, fees
<1> HIDE DEF p, db, closes, oor, fees
<1>9. \A t \in Tokens : coldUntil'[t] <= now + OorHours
    BY <1>3, <1>4, <1>5, <1>7, <1>8
<1>10. ASSUME NEW t \in Tokens, coldUntil'[t] > now
       PROVE  \E q \in DOMAIN memory' :
                 memory'[q].mint = t /\ memory'[q].mintUntil >= coldUntil'[t]
    <2>1. CASE t = TokenOf[p] /\ (oor \/ fees)
        <3>1. p \in DOMAIN memory' /\ memory'[p].mint = t
            BY <1>2, <2>1
        <3>2. memory'[p].mintUntil = now + OorHours
            BY <1>2, <1>5, <2>1, <3>1
        <3> QED
            BY <1>3, <1>4, <1>8, <1>9, <3>1, <3>2
    <2>2. CASE ~ (t = TokenOf[p] /\ (oor \/ fees))
        <3>1. coldUntil'[t] = coldUntil[t]
            BY <1>8, <2>2
        <3>2. PICK q \in DOMAIN db : db[q].mint = t /\ db[q].mintUntil >= coldUntil[t]
            BY <1>7, <1>10, <3>1
        <3>3. q \in DOMAIN memory' /\ memory'[q].mint = t
            <4>1. CASE q = p
                <5>1. db[q].mint \in {NoToken, TokenOf[q]}
                    BY <1>3 DEF DbOk
                <5> QED
                    BY <1>2, <1>4, <3>2, <4>1, <5>1
            <4>2. CASE q # p
                BY <1>2, <3>2, <4>2
            <4> QED
                BY <4>1, <4>2
        <3>4. memory'[q].mintUntil = db[q].mintUntil
            BY <1>2, <2>2, <3>2, <3>3 DEF Until
        <3> QED
            BY <3>1, <3>2, <3>3, <3>4
    <2> QED
        BY <2>1, <2>2
<1>11. ASSUME NEW e \in Deployers, attempt'[e].stage = "pool"
       PROVE  attempt'[e].until <= coldUntil'[TokenOf[attempt'[e].pool]]
    <2>1. attempt[e].stage = "pool" /\ attempt' = attempt
        BY <1>1, <1>11
    <2>2. attempt[e].pool \in Pools /\ attempt[e].until \in Nat
        BY <2>1, AttemptOf DEF ColdInv, FollowInv
    <2>3. TokenOf[attempt[e].pool] \in Tokens
        BY <2>2, PoolConstants
    <2> QED
        BY <1>3, <1>7, <1>8, <2>1, <2>2, <2>3
<1>12. Cold'
    BY <1>1, <1>6, <1>9, <1>10, <1>11 DEF Cold
<1>13. TokenStaysCold'
    BY <1>1 DEF ColdInv, TokenStaysCold
<1> QED
    BY <1>12, <1>13

\* Whoever was deploying is gone; a torn memory forbids nothing.
LEMMA ColdDies ==
    ASSUME ColdInv, Crash \/ DiesInMemory \/ DiesInLessons
    PROVE  Cold' /\ TokenStaysCold'
<1>1. UNCHANGED now /\ \A d \in Deployers : attempt'[d].stage = "idle"
    BY DEF Crash, DiesInMemory, DiesInLessons, Dies, Idle
<1>2. TokenStaysCold'
    BY <1>1 DEF TokenStaysCold
<1>3. CASE UNCHANGED <<memory, coldUntil>>
    <2>1. load(memory)' = load(memory)
        BY <1>3 DEF load
    <2> QED
        BY <1>1, <1>2, <1>3, <2>1 DEF ColdInv, Cold
<1>4. CASE DiesInMemory
    <2>1. coldUntil' = [t \in Tokens |-> 0]
        BY <1>4 DEF DiesInMemory
    <2>2. now \in Nat /\ OorHours \in Nat
        BY LifeConstants, PoolConstants DEF ColdInv, FollowInv, Typed
    <2>3. \A t \in Tokens : ~ (coldUntil'[t] > now') /\ coldUntil'[t] <= now' + OorHours
        BY <1>1, <2>1, <2>2
    <2> QED
        BY <1>1, <1>2, <2>3 DEF Cold
<1> QED
    BY <1>3, <1>4 DEF Crash, DiesInLessons

LEMMA ColdNext ==
    ASSUME ColdInv, [Next]_vars, SameHours
    PROVE  ColdInv'
<1> USE DEF book, trace
<1>1. FollowInv'
    BY FollowNext DEF ColdInv
<1>2. /\ now \in Nat /\ coldUntil \in [Tokens -> Nat]
      /\ \A d \in Deployers : attempt[d].stage = "token" => attempt[d].until \in Nat
    BY LifeConstants, AttemptOf DEF ColdInv, FollowInv, Typed
<1>3. ASSUME UNCHANGED <<memory, coldUntil, attempt>>, now' = now \/ now' = now + 1
      PROVE  Cold' /\ TokenStaysCold'
    <2>1. now' \in Nat /\ now <= now'
        BY <1>2, <1>3
    <2> QED
        BY <1>2, <1>3, <2>1, ColdStays DEF ColdInv
<1>4. CASE Tick
    BY <1>1, <1>3, <1>4 DEF Tick, ColdInv
<1>5. CASE RecordPool
    BY <1>1, <1>5, ColdRecordPool DEF ColdInv
<1>6. CASE Evolve
    BY <1>1, <1>3, <1>6 DEF Evolve, ColdInv
<1>7. ASSUME NEW d \in Deployers, CheckToken(d) \/ Opened(d) \/ DeployFails(d)
      PROVE  ColdInv'
    BY <1>1, <1>7, ColdDeploy DEF ColdInv
<1>8. ASSUME NEW d \in Deployers, NEW p \in Pools, BeginDeploy(d, p) PROVE ColdInv'
    BY <1>1, <1>8, ColdDeploy DEF ColdInv
<1>9. ASSUME NEW p \in Pools, CloseSettles(p) PROVE ColdInv'
    BY <1>1, <1>3, <1>9 DEF CloseSettles, ColdInv
<1>10. ASSUME NEW p \in Pools, Snapshot(p) \/ Note(p) PROVE ColdInv'
    BY <1>1, <1>10, ColdMark DEF ColdInv
<1>11. ASSUME NEW p \in Pools, NEW c \in Closes, recordPerformance(p, c) PROVE ColdInv'
    BY <1>1, <1>3, <1>11 DEF recordPerformance, ColdInv
<1>12. CASE AddLesson \/ Pin \/ Unpin \/ RemoveLessons \/ clearAllLessons \/ clearPerformance
    <2>1. UNCHANGED <<memory, coldUntil, attempt, now>>
        BY <1>12 DEF AddLesson, Pin, Unpin, RemoveLessons, clearAllLessons, clearPerformance,
                     OnLessons
    <2> QED
        BY <1>1, <1>3, <2>1 DEF ColdInv
<1>13. CASE Crash \/ DiesInMemory \/ DiesInLessons
    BY <1>1, <1>13, ColdDies DEF ColdInv
<1>14. CASE UNCHANGED vars
    BY <1>1, <1>3, <1>14 DEF vars, ColdInv
<1> QED
    BY <1>4, <1>5, <1>6, <1>7, <1>8, <1>9, <1>10, <1>11, <1>12, <1>13, <1>14 DEF Next

LEMMA ColdInit ==
    ASSUME Init
    PROVE  ColdInv
<1>1. FollowInv
    BY FollowInit
<1>2. now = 0 /\ coldUntil = [t \in Tokens |-> 0] /\ \A d \in Deployers : attempt[d].stage = "idle"
    BY DEF Init, Idle
<1>3. \A t \in Tokens : coldUntil[t] = 0
    BY <1>2
<1>4. OorHours \in Nat
    BY PoolConstants
<1>5. Cold
    BY <1>2, <1>3, <1>4 DEF Cold
<1>6. TokenStaysCold
    BY <1>2 DEF TokenStaysCold
<1> QED
    BY <1>1, <1>5, <1>6 DEF ColdInv

\* When the two cooldowns of a token last equally long, as they do by default,
\* or the second is off or for pools only, no attempt that has passed both
\* checks deploys into a token before its cooldown is over, for any pools,
\* closes, sessions and bounds.
THEOREM ColdCorrect ==
    ASSUME SameHours
    PROVE  Spec => []TokenStaysCold
<1>1. Init => ColdInv
    BY ColdInit
<1>2. ColdInv /\ [Next]_vars => ColdInv'
    BY SameHours, ColdNext
<1>3. ColdInv => TokenStaysCold
    BY DEF ColdInv
<1> QED
    BY <1>1, <1>2, <1>3, PTL DEF Spec

-----------------------------------------------------------------------------
(* A prompt tells nothing twice. *)

\* No member comes twice.
Once(s) == \A i, j \in DOMAIN s : s[i] = s[j] => i = j

LEMMA OnceCounted ==
    ASSUME NEW S, NEW s \in Seq(S), Once(s)
    PROVE  Cardinality(Range(s)) = Len(s)
<1> DEFINE n == Len(s)
<1>1. n \in Nat /\ s \in [1 .. n -> Range(s)]
    BY DEF Range
<1>2. s \in Injection(1 .. n, Range(s)) /\ s \in Surjection(1 .. n, Range(s))
    BY <1>1 DEF Once, Injection, IsInjective, Surjection, Range
<1>3. IsFiniteSet(1 .. n) /\ Cardinality(1 .. n) = n
    BY <1>1, FS_Interval
<1>4. IsFiniteSet(Range(s)) /\ (Cardinality(Range(s)) = Cardinality(1 .. n) <=> s \in Injection(1 .. n, Range(s)))
    <2> HIDE DEF n
    <2> QED
        BY <1>2, <1>3, FS_Surjection
<1> QED
    BY <1>2, <1>3, <1>4

LEMMA OnceJoined ==
    ASSUME NEW S, NEW a \in Seq(S), NEW b \in Seq(S), Once(a), Once(b),
           \A i \in DOMAIN a, j \in DOMAIN b : a[i] # b[j]
    PROVE  Once(a \o b)
<1> DEFINE c == a \o b
           m == Len(a)
           n == Len(b)
<1>1. /\ m \in Nat /\ n \in Nat /\ DOMAIN a = 1 .. m /\ DOMAIN b = 1 .. n
      /\ DOMAIN c = 1 .. (m + n)
    OBVIOUS
<1>2. \A i \in 1 .. (m + n) :
         \/ i \in 1 .. m /\ c[i] = a[i]
         \/ i > m /\ i - m \in 1 .. n /\ c[i] = b[i - m]
    BY ConcatProperties
<1> HIDE DEF c, m, n
<1>3. ASSUME NEW i \in 1 .. (m + n), NEW j \in 1 .. (m + n), c[i] = c[j]
      PROVE  i = j
    <2>1. CASE i \in 1 .. m /\ c[i] = a[i] /\ j \in 1 .. m /\ c[j] = a[j]
        BY <1>1, <1>3, <2>1 DEF Once
    <2>2. CASE /\ i > m /\ i - m \in 1 .. n /\ c[i] = b[i - m]
               /\ j > m /\ j - m \in 1 .. n /\ c[j] = b[j - m]
        <3>1. i - m = j - m
            BY <1>1, <1>3, <2>2 DEF Once
        <3> QED
            BY <1>1, <3>1
    <2>3. CASE /\ i \in 1 .. m /\ c[i] = a[i]
               /\ j > m /\ j - m \in 1 .. n /\ c[j] = b[j - m]
        BY <1>1, <1>3, <2>3
    <2>4. CASE /\ i > m /\ i - m \in 1 .. n /\ c[i] = b[i - m]
               /\ j \in 1 .. m /\ c[j] = a[j]
        BY <1>1, <1>3, <2>4
    <2> QED
        BY <1>2, <2>1, <2>2, <2>3, <2>4
<1> QED
    BY <1>1, <1>3 DEF Once, c

\* A tier: the first of a finite set of lessons, in some order.
LEMMA TierOk ==
    ASSUME NEW K, IsFiniteSet(K), NEW R, Orders(R, K), NEW c \in Nat
    PROVE  LET t == Upto(Sorted(K, R), c) IN t \in Seq(K) /\ Once(t)
<1> DEFINE s == Sorted(K, R)
           m == Cardinality(K)
           k == IF c < m THEN c ELSE m
           t == SubSeq(s, 1, k)
<1>1. /\ m \in Nat /\ s \in [1 .. m -> K]
      /\ \A i \in 1 .. m : Cardinality(Before(K, R, s[i])) = i - 1
    BY SortedLists
<1> HIDE DEF s, m
<1>2. s \in Seq(K) /\ Len(s) = m
    BY <1>1
<1>3. Upto(s, c) = t
    BY <1>2 DEF Upto
<1>4. k \in Nat /\ k <= m
    BY <1>1
<1> HIDE DEF k
<1>5. t \in Seq(K) /\ Len(t) = k /\ \A i \in 1 .. k : t[i] = s[i]
    BY <1>1, <1>2, <1>4
<1>6. Once(t)
    <2>1. DOMAIN t = 1 .. k /\ \A i \in 1 .. k : i \in 1 .. m
        BY <1>1, <1>4, <1>5
    <2> HIDE DEF t
    <2>2. ASSUME NEW i \in 1 .. k, NEW j \in 1 .. k, t[i] = t[j] PROVE i = j
        <3>1. i - 1 = j - 1
            BY <1>1, <1>5, <2>1, <2>2
        <3> QED
            BY <1>4, <3>1
    <2> QED
        BY <2>1, <2>2 DEF Once
<1> QED
    BY <1>3, <1>5, <1>6 DEF s

LEMMA PriorityOrders ==
    ASSUME NEW b \in Seq(Lesson), NEW K \in SUBSET DOMAIN b
    PROVE  IsFiniteSet(K) /\ Orders(byPriority(b), K) /\ Orders(latestFirst(b), K)
<1>1. Len(b) \in Nat /\ DOMAIN b = 1 .. Len(b)
    OBVIOUS
<1>2. IsFiniteSet(K)
    <2>1. IsFiniteSet(1 .. Len(b))
        BY <1>1, FS_Interval
    <2> QED
        BY <1>1, <2>1, FS_Subset
<1>3. \A i \in K : i \in Int /\ b[i] \in Lesson
    BY <1>1
<1>4. \A i \in K : b[i].id \in Nat
    BY <1>3 DEF Lesson
<1> DEFINE prio(i) == outcomePriority(b[i])
<1>5. \A i : prio(i) \in Nat
    BY DEF outcomePriority
<1>6. \A i, j \in K : <<i, j>> \in byPriority(b) <=>
                         prio(i) < prio(j) \/ (prio(i) = prio(j) /\ i < j)
    BY DEF byPriority
<1>7. \A i, j \in K : <<i, j>> \in latestFirst(b) <=>
                         b[i].id > b[j].id \/ (b[i].id = b[j].id /\ i < j)
    BY DEF latestFirst
<1> HIDE DEF prio
<1>8. Orders(byPriority(b), K)
    BY <1>3, <1>5, <1>6 DEF Orders
<1>9. Orders(latestFirst(b), K)
    BY <1>3, <1>4, <1>7 DEF Orders
<1> QED
    BY <1>2, <1>8, <1>9

LEMMA PromptOk ==
    ASSUME NEW b \in Seq(Lesson), NEW agent \in AgentTypes
    PROVE  LET prompt == getLessonsForPrompt(b, agent)
               byRole == PinnedTier(b, agent) \o RoleTier(b, agent)
           IN  /\ Cardinality(Range(prompt)) = Len(prompt)
               /\ \A i \in Range(byRole) : RoleOk(b[i], agent)
<1> DEFINE D == DOMAIN b
           pinned == PinnedTier(b, agent)
           role == RoleTier(b, agent)
           recent == RecentTier(b, agent)
           first == pinned \o role
           P == {i \in D : b[i].pinned /\ RoleOk(b[i], agent)}
           R == {i \in D : /\ b[i].id \notin IdsOf(b, pinned)
                           /\ RoleOk(b[i], agent) /\ TagOk(b[i], agent)}
           C == {i \in D : b[i].id \notin IdsOf(b, first)}
<1>1. /\ CapsOf(agent).pinned \in Nat /\ CapsOf(agent).role \in Nat
      /\ CapsOf(agent).recent \in Nat
    <2>1. CapsOf(agent) \in [pinned : Nat, role : Nat, recent : Nat]
        BY LessonConstants DEF CapsOf
    <2> QED
        BY <2>1
<1>2. /\ P \in SUBSET D /\ R \in SUBSET D /\ C \in SUBSET D
    OBVIOUS
<1>3. pinned \in Seq(P) /\ Once(pinned)
    <2>1. pinned = Upto(Sorted(P, byPriority(b)), CapsOf(agent).pinned)
        BY DEF PinnedTier
    <2> HIDE DEF P, pinned
    <2>2. IsFiniteSet(P) /\ Orders(byPriority(b), P)
        BY <1>2, PriorityOrders
    <2> QED
        BY <1>1, <2>1, <2>2, TierOk
<1>4. role \in Seq(R) /\ Once(role)
    <2>1. role = Upto(Sorted(R, byPriority(b)), CapsOf(agent).role)
        BY DEF RoleTier
    <2> HIDE DEF R, role
    <2>2. IsFiniteSet(R) /\ Orders(byPriority(b), R)
        BY <1>2, PriorityOrders
    <2> QED
        BY <1>1, <2>1, <2>2, TierOk
<1> HIDE DEF pinned, role, P, R
<1>5. /\ pinned \in Seq(D) /\ Len(pinned) \in Nat /\ DOMAIN pinned = 1 .. Len(pinned)
      /\ role \in Seq(D) /\ Len(role) \in Nat /\ DOMAIN role = 1 .. Len(role)
      /\ \A i \in DOMAIN pinned : pinned[i] \in P
      /\ \A i \in DOMAIN role : role[i] \in R
    BY <1>2, <1>3, <1>4
<1>6. first \in Seq(D) /\ Once(first)
    <2>1. \A i \in DOMAIN pinned, j \in DOMAIN role : pinned[i] # role[j]
        BY <1>5 DEF R, IdsOf
    <2> QED
        BY <1>3, <1>4, <1>5, <2>1, OnceJoined, ConcatProperties
<1>7. \A i \in Range(first) : RoleOk(b[i], agent)
    <2>1. \A i \in DOMAIN first : first[i] \in P \/ first[i] \in R
        <3>1. /\ Len(first) = Len(pinned) + Len(role)
              /\ \A i \in 1 .. (Len(pinned) + Len(role)) :
                    first[i] = IF i <= Len(pinned) THEN pinned[i] ELSE role[i - Len(pinned)]
            BY <1>5, ConcatProperties
        <3>2. DOMAIN first = 1 .. (Len(pinned) + Len(role))
            BY <1>6, <3>1
        <3> HIDE DEF first
        <3>3. \A i \in DOMAIN first :
                 \/ i \in DOMAIN pinned /\ first[i] = pinned[i]
                 \/ i - Len(pinned) \in DOMAIN role /\ first[i] = role[i - Len(pinned)]
            BY <1>5, <3>1, <3>2
        <3> QED
            BY <1>5, <3>3
    <2> QED
        BY <2>1 DEF P, R, Range
<1> HIDE DEF first
<1>8. recent \in Seq(C) /\ Once(recent)
    <2> DEFINE room == Room(b, agent)
    <2>1. room \in Int
        BY <1>1, <1>5 DEF Room, pinned, role
    <2>2. recent = IF room <= 0 THEN <<>> ELSE Upto(Sorted(C, latestFirst(b)), room)
        BY DEF RecentTier, Fill, first, pinned, role
    <2>3. IsFiniteSet(C) /\ Orders(latestFirst(b), C)
        <3> HIDE DEF C
        <3> QED
            BY <1>2, PriorityOrders
    <2> HIDE DEF room, recent, C
    <2>4. CASE room <= 0
        BY <2>2, <2>4 DEF Once
    <2>5. CASE ~ (room <= 0)
        <3>1. room \in Nat
            BY <2>1, <2>5
        <3> QED
            BY <2>2, <2>3, <2>5, <3>1, TierOk
    <2> QED
        BY <2>4, <2>5
<1> HIDE DEF recent
<1>9. recent \in Seq(D) /\ \A j \in DOMAIN recent : recent[j] \in C
    <2> HIDE DEF C
    <2> QED
        BY <1>2, <1>8
<1>10. \A i \in DOMAIN first, j \in DOMAIN recent : first[i] # recent[j]
    BY <1>9 DEF IdsOf
<1>11. first \o recent \in Seq(D) /\ Once(first \o recent)
    BY <1>6, <1>8, <1>9, <1>10, OnceJoined, ConcatProperties
<1>12. getLessonsForPrompt(b, agent) = first \o recent
    BY DEF getLessonsForPrompt, first, pinned, role, recent
<1>13. Cardinality(Range(first \o recent)) = Len(first \o recent)
    BY <1>11, OnceCounted
<1> QED
    BY <1>7, <1>12, <1>13 DEF first, pinned, role

\* For any lessons, however written, pinned, removed and torn, and any caps,
\* a prompt tells no lesson twice and its tiers by role hold no lesson of
\* another role.
THEOREM PromptCorrect == Spec => []PromptIsSound
<1>1. FollowInv => PromptIsSound
    <2> SUFFICES ASSUME FollowInv, NEW agent \in AgentTypes
                 PROVE  LET lessons == Data.lessons
                            prompt == getLessonsForPrompt(lessons, agent)
                            byRole == PinnedTier(lessons, agent) \o RoleTier(lessons, agent)
                        IN  /\ Cardinality(Range(prompt)) = Len(prompt)
                            /\ \A i \in Range(byRole) : RoleOk(lessons[i], agent)
        BY DEF PromptIsSound
    <2>1. Data.lessons \in Seq(Lesson)
        BY DataOk DEF FollowInv, Typed, Book
    <2> QED
        BY <2>1, PromptOk
<1> QED
    BY <1>1, FollowAlways, PTL
=============================================================================
