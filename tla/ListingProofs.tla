----------------------------- MODULE ListingProofs -----------------------------
(***************************************************************************)
(* The safety of what is listed in an order and in pieces: a chat room,    *)
(* which its two clients load a hundred messages at a time, and the        *)
(* products, page by page - for any users, messages, products, limits,     *)
(* failures and length of a load.                                          *)
(*                                                                         *)
(* Of ChatGateways: the types, and that nothing in order is passed over.   *)
(* Of FriendChat: the types, that nobody else's message is shown twice,    *)
(* that a quiet refresh heals, that a refresh keeps what was shown, and    *)
(* that what was read stays read.  Of Products: the types, that an update  *)
(* keeps the fields it was not given, and what a walk through the pages    *)
(* misses or shows twice.                                                  *)
(*                                                                         *)
(* All three rest on how a finite set is listed under a strict order: an   *)
(* element stands behind as many as are before it.  What carries the       *)
(* gateway is that everything in order up to the last message of an answer *)
(* is in the answer, or left behind by it, or was handed over before, and  *)
(* that this stays so while the answer waits: what appears with a smaller  *)
(* seq is late.  What carries the screen is that a list it was sent names no   *)
(* message twice, and what it knows of a load from the request to the      *)
(* landing.  What carries the walk is the number of products before one:   *)
(* it does not fall while none leaves, nor grow while none enters.         *)
(***************************************************************************)
EXTENDS ChatGateways, FriendChat, Products, FiniteSetTheorems, SequenceTheorems, TLAPS

RowIds == {m.id : m \in rows}
RowSeqs == {m.seq : m \in rows}

Undrawn == {m \in inserting : m.seq = 0}

(* Every INSERT has an id and a seq of its own, and there are seqs enough. *)
RoomInv ==
  /\ IsFiniteSet(rows) /\ IsFiniteSet(inserting)
  /\ \A m \in rows \cup inserting : m.id <= made /\ m.seq < nextSeq
  /\ \A m, n \in rows \cup inserting : m.id = n.id \/ (m.seq = n.seq /\ m.seq # 0) => m = n
  /\ nextSeq - 1 + Cardinality(Undrawn) <= made

(* What is in order and not after seq is among these, or was left behind.  *)
Covered(seq, among) ==
  \A m \in rows :
    m.seq <= seq /\ InOrderOf(m) => m.id \in among \cup delivered \cup before \cup jumped

LastOf(list) == list[Len(list)]

RequestInv(r) ==
  /\ r.since \in {0} \cup RowSeqs
  /\ Covered(r.since, {})
  /\ r.since > 0 => r.left = {}
  /\ r.list # <<>> => Covered(LastOf(r.list).seq, IdsIn(r.list) \cup r.left)

RequestTypes == [since : Nat, answered : BOOLEAN, list : Seq(rows), left : SUBSET RowIds]

(* Until history() asks from the start of the room, the only such request  *)
(* is a poll that nothing was handed over before.                          *)
QuietInv ==
  /\ lastSeq = 0 => delivered = {}
  /\ ~looked => /\ jumped = {}
                /\ history # None => history.since > 0 /\ lastSeq > 0
                /\ poll # None /\ poll.since = 0 => lastSeq = 0

TypeInv ==
  /\ TypeOK
  /\ \A r \in {poll, history} \ {None} : r \in RequestTypes

GatewayInv ==
  /\ TypeInv /\ RoomInv
  /\ Covered(lastSeq, {})
  /\ \A r \in {poll, history} \ {None} : RequestInv(r)
  /\ QuietInv

-----------------------------------------------------------------------------
(* A finite set under a strict order, R as a set of pairs: an element is   *)
(* known by how many are below it, and the set listed in that order.       *)
StrictOrder(S, R) ==
  /\ \A x \in S : <<x, x>> \notin R
  /\ \A x, y \in S : x = y \/ <<x, y>> \in R \/ <<y, x>> \in R
  /\ \A x, y, z \in S : <<x, y>> \in R /\ <<y, z>> \in R => <<x, z>> \in R

Below(S, R, x) == {y \in S : <<y, x>> \in R}
Rank(S, R, x) == Cardinality(Below(S, R, x))
Ranked(S, R) == [i \in 1 .. Cardinality(S) |-> CHOOSE x \in S : Rank(S, R, x) = i - 1]

LEMMA RankProps ==
  ASSUME NEW S, IsFiniteSet(S), NEW R, StrictOrder(S, R)
  PROVE  /\ Cardinality(S) \in Nat
         /\ \A x \in S : Rank(S, R, x) \in 0 .. Cardinality(S) - 1
         /\ \A x, y \in S : <<x, y>> \in R => Rank(S, R, x) < Rank(S, R, y)
         /\ \A x, y \in S : Rank(S, R, x) = Rank(S, R, y) => x = y
<1>1. Cardinality(S) \in Nat
  BY FS_CardinalityType
<1>2. ASSUME NEW x \in S PROVE Rank(S, R, x) \in 0 .. Cardinality(S) - 1
  <2>1. Below(S, R, x) \in SUBSET S /\ x \notin Below(S, R, x)
    BY DEF Below, StrictOrder
  <2>2. /\ IsFiniteSet(Below(S, R, x)) /\ Cardinality(Below(S, R, x)) <= Cardinality(S)
        /\ Cardinality(S) = Cardinality(Below(S, R, x)) => S = Below(S, R, x)
    BY <2>1, FS_Subset
  <2>3. Cardinality(Below(S, R, x)) \in Nat
    BY <2>2, FS_CardinalityType
  <2>4. S # Below(S, R, x)
    BY <2>1
  <2> QED BY <1>1, <2>2, <2>3, <2>4 DEF Rank
<1>3. ASSUME NEW x \in S, NEW y \in S, <<x, y>> \in R PROVE Rank(S, R, x) < Rank(S, R, y)
  <2>1. /\ Below(S, R, x) \in SUBSET Below(S, R, y)
        /\ x \in Below(S, R, y) /\ x \notin Below(S, R, x)
    BY <1>3 DEF Below, StrictOrder
  <2>2. Below(S, R, x) \in SUBSET S /\ Below(S, R, y) \in SUBSET S
    BY DEF Below
  <2>3. IsFiniteSet(Below(S, R, x)) /\ IsFiniteSet(Below(S, R, y))
    BY <2>2, FS_Subset
  <2>4. /\ Cardinality(Below(S, R, x)) <= Cardinality(Below(S, R, y))
        /\ Cardinality(Below(S, R, y)) = Cardinality(Below(S, R, x))
             => Below(S, R, y) = Below(S, R, x)
    BY <2>1, <2>3, FS_Subset
  <2>5. Cardinality(Below(S, R, x)) \in Nat /\ Cardinality(Below(S, R, y)) \in Nat
    BY <2>3, FS_CardinalityType
  <2>6. Below(S, R, y) # Below(S, R, x)
    BY <2>1
  <2> QED BY <2>4, <2>5, <2>6 DEF Rank
<1>4. ASSUME NEW x \in S, NEW y \in S, Rank(S, R, x) = Rank(S, R, y) PROVE x = y
  <2>1. Rank(S, R, x) \in Int
    BY <1>2
  <2>2. <<x, y>> \notin R /\ <<y, x>> \notin R
    BY <1>3, <1>4, <2>1
  <2> QED BY <2>2 DEF StrictOrder
<1> QED BY <1>1, <1>2, <1>3, <1>4

LEMMA RankOnto ==
  ASSUME NEW S, IsFiniteSet(S), NEW R, StrictOrder(S, R)
  PROVE  \A k \in 0 .. Cardinality(S) - 1 : \E x \in S : Rank(S, R, x) = k
<1> DEFINE N == Cardinality(S)
           T == 0 .. N - 1
           f == [x \in S |-> Rank(S, R, x)]
<1>1. /\ N \in Nat /\ \A x \in S : Rank(S, R, x) \in T
      /\ \A x, y \in S : Rank(S, R, x) = Rank(S, R, y) => x = y
  BY RankProps
<1>2. f \in Injection(S, T)
  <2>1. f \in [S -> T]
    BY <1>1
  <2>2. \A x, y \in S : f[x] = f[y] => x = y
    BY <1>1
  <2> HIDE DEF f, T
  <2> QED BY <2>1, <2>2 DEF Injection, IsInjective
<1>3. IsFiniteSet(T) /\ Cardinality(T) = N
  <2>1. IsFiniteSet(T) /\ Cardinality(T) = IF 0 > N - 1 THEN 0 ELSE (N - 1) - 0 + 1
    BY <1>1, FS_Interval, SMTT(30)
  <2> HIDE DEF T
  <2> QED BY <1>1, <2>1
<1>4. f \in Surjection(S, T)
  <2> HIDE DEF f, T
  <2> QED BY <1>2, <1>3, FS_Injection
<1>5. \A k \in T : \E x \in S : f[x] = k
  <2> HIDE DEF f, T
  <2> QED BY <1>4 DEF Surjection
<1> QED BY <1>5

LEMMA RankedProps ==
  ASSUME NEW S, IsFiniteSet(S), NEW R, StrictOrder(S, R)
  PROVE  /\ Ranked(S, R) \in Seq(S) /\ Len(Ranked(S, R)) = Cardinality(S)
         /\ \A i, j \in 1 .. Len(Ranked(S, R)) :
              /\ i < j => <<Ranked(S, R)[i], Ranked(S, R)[j]>> \in R
              /\ Ranked(S, R)[i] = Ranked(S, R)[j] => i = j
         /\ \A i \in 1 .. Len(Ranked(S, R)) : Rank(S, R, Ranked(S, R)[i]) = i - 1
         /\ \A x \in S : \E i \in 1 .. Len(Ranked(S, R)) : Ranked(S, R)[i] = x
<1> DEFINE N == Cardinality(S)
           L == Ranked(S, R)
<1>1. /\ N \in Nat /\ \A x \in S : Rank(S, R, x) \in 0 .. N - 1
      /\ \A x, y \in S : <<x, y>> \in R => Rank(S, R, x) < Rank(S, R, y)
      /\ \A x, y \in S : Rank(S, R, x) = Rank(S, R, y) => x = y
      /\ \A k \in 0 .. N - 1 : \E x \in S : Rank(S, R, x) = k
  BY RankProps, RankOnto
<1>2. L = [i \in 1 .. N |-> CHOOSE x \in S : Rank(S, R, x) = i - 1]
  BY DEF Ranked
<1>3. ASSUME NEW i \in 1 .. N PROVE L[i] \in S /\ Rank(S, R, L[i]) = i - 1
  <2>1. i - 1 \in 0 .. N - 1
    BY <1>1
  <2>2. \E x \in S : Rank(S, R, x) = i - 1
    BY <1>1, <2>1
  <2>3. L[i] = CHOOSE x \in S : Rank(S, R, x) = i - 1
    BY <1>2
  <2> QED BY <2>2, <2>3
<1>4. L \in Seq(S) /\ Len(L) = N
  <2>1. L \in [1 .. N -> S]
    BY <1>2, <1>3
  <2> HIDE DEF L, N
  <2> QED BY <1>1, <2>1
<1>5. ASSUME NEW i \in 1 .. N, NEW j \in 1 .. N
      PROVE  (i < j => <<L[i], L[j]>> \in R) /\ (L[i] = L[j] => i = j)
  <2>1. i \in Nat /\ j \in Nat
    OBVIOUS
  <2>2. /\ L[i] \in S /\ Rank(S, R, L[i]) = i - 1
        /\ L[j] \in S /\ Rank(S, R, L[j]) = j - 1
    BY <1>3
  <2> HIDE DEF L, N
  <2>3. L[i] = L[j] => i = j
    BY <2>1, <2>2
  <2>4. i < j => <<L[j], L[i]>> \notin R /\ L[i] # L[j]
    BY <1>1, <2>1, <2>2
  <2> QED BY <2>2, <2>3, <2>4 DEF StrictOrder
<1>6. ASSUME NEW x \in S PROVE \E i \in 1 .. N : L[i] = x
  <2>1. Rank(S, R, x) + 1 \in 1 .. N /\ (Rank(S, R, x) + 1) - 1 = Rank(S, R, x)
    BY <1>1
  <2>2. L[Rank(S, R, x) + 1] = x
    BY <1>1, <1>3, <2>1
  <2> QED BY <2>1, <2>2
<1> QED BY <1>3, <1>4, <1>5, <1>6

(* InOrder lists the messages of a finite set, each once, by their ids.    *)
LEMMA InOrderProps ==
  ASSUME NEW S, IsFiniteSet(S), \A m \in S : m.id \in Nat,
         \A m, n \in S : m.id = n.id => m = n
  PROVE  /\ InOrder(S) \in Seq(S)
         /\ Len(InOrder(S)) = Cardinality(S)
         /\ \A i, j \in 1 .. Len(InOrder(S)) : i < j => InOrder(S)[i].id < InOrder(S)[j].id
         /\ \A m \in S : \E i \in 1 .. Len(InOrder(S)) : InOrder(S)[i] = m
<1> DEFINE R == {p \in S \X S : Older(p[1], p[2])}
<1>1. \A m, n \in S : <<m, n>> \in R <=> m.id < n.id
  BY DEF Older
<1>2. \A m \in S : Below(S, R, m) = {n \in S : Older(n, m)}
  BY <1>1 DEF Below, Older
<1> HIDE DEF R
<1>3. StrictOrder(S, R)
  BY <1>1 DEF StrictOrder
<1> DEFINE mine(i) == CHOOSE m \in S : Cardinality({n \in S : Older(n, m)}) = i - 1
           its(i) == CHOOSE m \in S : Rank(S, R, m) = i - 1
<1>4. \A i : mine(i) = its(i)
  BY <1>2 DEF Rank
<1>5. InOrder(S) = Ranked(S, R)
  <2>1. /\ InOrder(S) = [i \in 1 .. Cardinality(S) |-> mine(i)]
        /\ Ranked(S, R) = [i \in 1 .. Cardinality(S) |-> its(i)]
    BY Zenon DEF InOrder, Ranked
  <2> HIDE DEF mine, its
  <2>2. [i \in 1 .. Cardinality(S) |-> mine(i)] = [i \in 1 .. Cardinality(S) |-> its(i)]
    BY <1>4
  <2> QED BY <2>1, <2>2, Zenon
<1>6. \A i, j \in 1 .. Len(Ranked(S, R)) : i < j => Ranked(S, R)[i].id < Ranked(S, R)[j].id
  <2>1. \A i \in 1 .. Len(Ranked(S, R)) : Ranked(S, R)[i] \in S
    BY <1>3, RankedProps
  <2> QED BY <1>1, <1>3, <2>1, RankedProps
<1>7. /\ Ranked(S, R) \in Seq(S) /\ Len(Ranked(S, R)) = Cardinality(S)
      /\ \A m \in S : \E i \in 1 .. Len(Ranked(S, R)) : Ranked(S, R)[i] = m
  BY <1>3, RankedProps
<1> QED BY <1>5, <1>6, <1>7

-----------------------------------------------------------------------------
Distinct(list) == \A i, j \in DOMAIN list : list[i].id = list[j].id => i = j

LEMMA IncreasingIsDistinct ==
  ASSUME NEW E, NEW list \in Seq(E), \A i \in 1 .. Len(list) : list[i].id \in Nat,
         \A i, j \in 1 .. Len(list) : i < j => list[i].id < list[j].id
  PROVE  Distinct(list)
<1> SUFFICES ASSUME NEW i \in 1 .. Len(list), NEW j \in 1 .. Len(list), list[i].id = list[j].id
             PROVE  i = j
  BY DEF Distinct
<1>1. ~(i < j) /\ ~(j < i) /\ i \in Int /\ j \in Int
  OBVIOUS
<1> QED BY <1>1

(* What a load from a seq skips is after its last message.                 *)
LEMMA SinceProps ==
  ASSUME RoomTypeOK, RoomInv, NEW since \in Nat
  PROVE  /\ Since(since, FetchLimit) \in Seq(rows)
         /\ Len(Since(since, FetchLimit)) <= FetchLimit
         /\ Distinct(Since(since, FetchLimit))
         /\ Since(since, FetchLimit) # <<>> =>
              \A m \in rows : m.seq > since /\ m.id <= LastOf(Since(since, FetchLimit)).id
                                => m.id \in IdsIn(Since(since, FetchLimit))
<1> DEFINE S == {m \in rows : m.seq > since}
           all == InOrder(S)
           list == Since(since, FetchLimit)
<1>1. IsFiniteSet(S)
  BY FS_Subset, S \in SUBSET rows DEF RoomInv
<1>2. /\ all \in Seq(S) /\ Len(all) = Cardinality(S)
      /\ \A i, j \in 1 .. Len(all) : i < j => all[i].id < all[j].id
      /\ \A m \in S : \E i \in 1 .. Len(all) : all[i] = m
  <2>1. (\A m \in S : m.id \in Nat) /\ \A m, n \in S : m.id = n.id => m = n
    BY DEF RoomInv, RoomTypeOK, Messages, Ids
  <2> HIDE DEF S
  <2> QED BY <1>1, <2>1, InOrderProps
<1>3. list = IF Len(all) <= FetchLimit THEN all ELSE SubSeq(all, 1, FetchLimit)
  BY DEF Since
<1>4. S \subseteq rows /\ FetchLimit \in Nat \ {0}
  BY ChatAssumption
<1>5. /\ list \in Seq(S) /\ Len(list) <= FetchLimit /\ Len(list) <= Len(all)
      /\ \A i \in 1 .. Len(list) : list[i] = all[i]
  <2> HIDE DEF S, all, list
  <2>1. CASE Len(all) <= FetchLimit
    BY <1>2, <1>3, <2>1
  <2>2. CASE Len(all) > FetchLimit
    <3>1. \A i \in 1 .. FetchLimit : all[i] \in S
      BY <1>2, <1>4, <2>2
    <3>2. /\ SubSeq(all, 1, FetchLimit) \in Seq(S) /\ Len(SubSeq(all, 1, FetchLimit)) = FetchLimit
          /\ \A i \in 1 .. FetchLimit : SubSeq(all, 1, FetchLimit)[i] = all[i]
      BY <1>4, <3>1, SubSeqProperties
    <3>3. list = SubSeq(all, 1, FetchLimit)
      BY <1>2, <1>3, <1>4, <2>2
    <3> QED BY <1>2, <1>4, <2>2, <3>2, <3>3
  <2> QED BY <1>2, <1>4, <2>1, <2>2
<1>6. list \in Seq(rows)
  <2> HIDE DEF S, list
  <2> QED BY <1>4, <1>5
<1>7. ASSUME list # <<>>, NEW m \in rows, m.seq > since, m.id <= LastOf(list).id
      PROVE  m.id \in IdsIn(list)
  <2>1. PICK i \in 1 .. Len(all) : all[i] = m
    BY <1>2, <1>7
  <2> HIDE DEF S, all, list
  <2>2. Len(list) \in 1 .. Len(all) /\ LastOf(list) = all[Len(list)] /\ LastOf(list) \in rows
    <3>1. Len(all) \in Nat /\ Len(list) \in Nat \ {0}
      BY <1>2, <1>6, <1>7
    <3>2. LastOf(list) = list[Len(list)] /\ Len(list) \in 1 .. Len(list)
      BY <3>1 DEF LastOf
    <3> QED BY <1>5, <1>6, <3>1, <3>2
  <2>3. CASE i <= Len(list)
    BY <1>5, <2>1, <2>2, <2>3 DEF IdsIn
  <2>4. CASE i > Len(list)
    <3>1. LastOf(list).id < m.id
      BY <1>2, <2>1, <2>2, <2>4
    <3>2. m.id = LastOf(list).id
      BY <1>7, <2>2, <3>1 DEF RoomTypeOK, Messages, Ids
    <3>3. Len(list) \in DOMAIN list /\ list[Len(list)].id = m.id
      BY <1>5, <2>2, <3>2 DEF LastOf
    <3> QED BY <3>3 DEF IdsIn
  <2> QED BY <1>2, <2>1, <2>2, <2>3, <2>4
<1>8. Distinct(list)
  <2>1. \A i, j \in 1 .. Len(list) : i < j => list[i].id < list[j].id
    <3> HIDE DEF S, all, list
    <3> TAKE i, j \in 1 .. Len(list)
    <3>1. i \in 1 .. Len(all) /\ j \in 1 .. Len(all)
      BY <1>2, <1>5
    <3>2. list[i] = all[i] /\ list[j] = all[j]
      BY <1>5
    <3> QED BY <1>2, <3>1, <3>2
  <2>2. \A i \in 1 .. Len(list) : list[i].id \in Nat
    BY <1>6 DEF RoomTypeOK, Messages, Ids
  <2> HIDE DEF S, all, list
  <2> QED BY <1>6, <2>1, <2>2, IncreasingIsDistinct
<1> QED BY <1>5, <1>6, <1>7, <1>8

(* The newest messages: distinct, and every message is among them or older *)
(* than a full load of them.                                               *)
LEMMA NewestProps ==
  ASSUME RoomTypeOK, RoomInv
  PROVE  /\ Newest(FetchLimit) \in Seq(rows) /\ Len(Newest(FetchLimit)) <= FetchLimit
         /\ Distinct(Newest(FetchLimit))
         /\ \A m \in rows :
              \/ \E i \in 1 .. Len(Newest(FetchLimit)) : Newest(FetchLimit)[i] = m
              \/ /\ Len(Newest(FetchLimit)) = FetchLimit
                 /\ \A i \in 1 .. FetchLimit : Newest(FetchLimit)[i].id > m.id
<1> DEFINE all == InOrder(rows)
           list == Newest(FetchLimit)
           first == Len(all) - FetchLimit + 1
<1>1. /\ all \in Seq(rows)
      /\ \A i, j \in 1 .. Len(all) : i < j => all[i].id < all[j].id
      /\ \A m \in rows : \E i \in 1 .. Len(all) : all[i] = m
      /\ \A m \in rows : m.id \in Nat
  BY InOrderProps DEF RoomInv, RoomTypeOK, Messages, Ids
<1>2. list = IF Len(all) <= FetchLimit THEN all ELSE SubSeq(all, first, Len(all))
  BY DEF Newest
<1>3. FetchLimit \in Nat \ {0}
  BY ChatAssumption
<1> HIDE DEF all, list
<1>4. CASE Len(all) > FetchLimit
  <2>1. \A i \in first .. Len(all) : all[i] \in rows
    BY <1>1, <1>3, <1>4
  <2>2. first \in Int /\ Len(all) \in Int /\ first <= Len(all) /\ Len(all) - first + 1 = FetchLimit
    BY <1>1, <1>3, <1>4
  <2>3. first \in 2 .. Len(all)
    BY <1>1, <1>3, <1>4
  <2> HIDE DEF first
  <2>4. /\ SubSeq(all, first, Len(all)) \in Seq(rows)
        /\ Len(SubSeq(all, first, Len(all))) = Len(all) - first + 1
        /\ \A i \in 1 .. Len(all) - first + 1 : SubSeq(all, first, Len(all))[i] = all[first + i - 1]
    BY <2>1, <2>2, SubSeqProperties
  <2>5. list = SubSeq(all, first, Len(all))
    <3>1. ~(Len(all) <= FetchLimit)
      BY <1>1, <1>3, <1>4
    <3> QED BY <1>2, <3>1, Zenon
  <2>6. /\ list \in Seq(rows) /\ Len(list) = FetchLimit
        /\ \A i \in 1 .. FetchLimit :
             list[i] = all[first + i - 1] /\ first + i - 1 \in 1 .. Len(all)
    BY <1>3, <2>2, <2>3, <2>4, <2>5
  <2>7. \A i, j \in 1 .. FetchLimit : i < j => list[i].id < list[j].id
    <3> SUFFICES ASSUME NEW i \in 1 .. FetchLimit, NEW j \in 1 .. FetchLimit, i < j
                 PROVE  list[i].id < list[j].id
      OBVIOUS
    <3>1. first + i - 1 < first + j - 1
      BY <1>3, <2>3
    <3>2. /\ list[i] = all[first + i - 1] /\ first + i - 1 \in 1 .. Len(all)
          /\ list[j] = all[first + j - 1] /\ first + j - 1 \in 1 .. Len(all)
      BY <2>6
    <3> QED BY <1>1, <3>1, <3>2
  <2>8. Distinct(list)
    <3>1. \A i \in 1 .. Len(list) : list[i].id \in Nat
      BY <1>1, <2>6
    <3> QED BY <2>6, <2>7, <3>1, IncreasingIsDistinct
  <2>9. ASSUME NEW m \in rows
        PROVE  \/ \E i \in 1 .. Len(list) : list[i] = m
               \/ \A i \in 1 .. FetchLimit : list[i].id > m.id
    <3>1. PICK k \in 1 .. Len(all) : all[k] = m
      BY <1>1
    <3>2. CASE k < first
      <4> SUFFICES ASSUME NEW i \in 1 .. FetchLimit PROVE list[i].id > m.id
        OBVIOUS
      <4>1. /\ first + i - 1 \in 1 .. Len(all) /\ k < first + i - 1
            /\ list[i] = all[first + i - 1] /\ list[i] \in rows
        <5>1. list[i] = all[first + i - 1] /\ first + i - 1 \in 1 .. Len(all)
          BY <2>6
        <5>2. k < first + i - 1
          BY <1>3, <2>2, <3>2
        <5> QED BY <1>1, <5>1, <5>2
      <4>2. all[k].id < all[first + i - 1].id
        BY <1>1, <4>1
      <4> QED BY <1>1, <3>1, <4>1, <4>2
    <3>3. CASE k >= first
      <4>1. k - first + 1 \in 1 .. FetchLimit /\ first + (k - first + 1) - 1 = k
        BY <1>3, <2>2, <3>1, <3>3
      <4> QED BY <2>6, <3>1, <4>1
    <3> QED BY <2>3, <3>1, <3>2, <3>3
  <2> QED BY <1>3, <2>6, <2>8, <2>9 DEF list
<1>5. CASE Len(all) <= FetchLimit
  <2>1. list = all
    BY <1>2, <1>5
  <2>2. Distinct(list)
    <3>1. \A i \in 1 .. Len(all) : all[i].id \in Nat
      BY <1>1
    <3> QED BY <1>1, <2>1, <3>1, IncreasingIsDistinct
  <2> QED BY <1>1, <1>5, <2>1, <2>2 DEF list
<1> QED BY <1>1, <1>3, <1>4, <1>5

-----------------------------------------------------------------------------
(* The room.                                                               *)
LEMMA RoomKept ==
  ASSUME RoomTypeOK, RoomInv, (\E u \in Users : Post(u)) \/ RoomStep
  PROVE  RoomTypeOK' /\ RoomInv' /\ rows \subseteq rows'
<1>1. IsFiniteSet(Undrawn) /\ Cardinality(Undrawn) \in Nat
  BY FS_Subset, FS_CardinalityType, Undrawn \in SUBSET inserting DEF RoomInv, Undrawn
<1>2. Cardinality(Undrawn)' = Cardinality(Undrawn')
  OBVIOUS
<1>3. MaxMessages \in Nat /\ Readers \subseteq Users
  BY ChatAssumption
<1>4. ASSUME Undrawn' \subseteq Undrawn
      PROVE  Cardinality(Undrawn') \in Nat /\ Cardinality(Undrawn') <= Cardinality(Undrawn)
  BY <1>1, <1>4, FS_Subset, FS_CardinalityType
<1>5. ASSUME NEW u \in Users, Post(u) PROVE RoomTypeOK' /\ RoomInv' /\ rows \subseteq rows'
  <2> DEFINE m == [id |-> made + 1, seq |-> 0, from |-> u]
  <2>1. Undrawn' = Undrawn \cup {m}
    BY <1>5 DEF Post, Undrawn
  <2>2. /\ Cardinality(Undrawn') \in Nat /\ Cardinality(Undrawn') <= Cardinality(Undrawn) + 1
    <3> HIDE DEF m
    <3>1. /\ IsFiniteSet(Undrawn \cup {m})
          /\ Cardinality(Undrawn \cup {m}) \in {Cardinality(Undrawn), Cardinality(Undrawn) + 1}
      BY <1>1, FS_AddElement
    <3> QED BY <1>1, <2>1, <3>1
  <2>3. IsFiniteSet(inserting')
    <3>1. inserting' = inserting \cup {m}
      BY <1>5 DEF Post
    <3> HIDE DEF m
    <3> QED BY <3>1, FS_AddElement DEF RoomInv
  <2>4. nextSeq' - 1 + Cardinality(Undrawn') <= made'
    BY <1>1, <1>5, <2>2 DEF Post, RoomInv, RoomTypeOK
  <2>5. RoomTypeOK'
    BY <1>3, <1>5 DEF Post, RoomTypeOK, Ids, Seqs
  <2>6. \A k \in rows' \cup inserting' : k.id <= made' /\ k.seq < nextSeq'
    BY <1>5 DEF Post, RoomInv, RoomTypeOK, Messages, Ids, Seqs
  <2>7. \A k, n \in rows' \cup inserting' : k.id = n.id \/ (k.seq = n.seq /\ k.seq # 0) => k = n
    <3>1. \A k \in rows \cup inserting : k.id # m.id
      BY DEF RoomInv, RoomTypeOK, Messages, Ids
    <3>2. rows' \cup inserting' = (rows \cup inserting) \cup {m} /\ m.seq = 0
      BY <1>5 DEF Post
    <3> HIDE DEF m
    <3> QED BY <3>1, <3>2 DEF RoomInv
  <2> QED BY <1>2, <1>5, <2>3, <2>4, <2>5, <2>6, <2>7 DEF Post, RoomInv
<1>6. ASSUME NEW m \in inserting, Insert(m) PROVE RoomTypeOK' /\ RoomInv' /\ rows \subseteq rows'
  <2> DEFINE n == [m EXCEPT !.seq = nextSeq]
  <2>1. /\ inserting' = (inserting \ {m}) \cup {n} /\ nextSeq' = nextSeq + 1 /\ m.seq = 0
        /\ n.seq = nextSeq /\ n.id = m.id /\ n.from = m.from /\ nextSeq \in Nat \ {0}
        /\ n \in [id : Ids, seq : {nextSeq}, from : Users]
    BY <1>6 DEF Insert, RoomTypeOK
  <2> HIDE DEF n
  <2>2. Undrawn' = Undrawn \ {m} /\ m \in Undrawn
    BY <1>6, <2>1 DEF Undrawn
  <2>3. Cardinality(Undrawn') \in Nat /\ Cardinality(Undrawn') = Cardinality(Undrawn) - 1
    BY <1>1, <2>2, FS_RemoveElement, FS_CardinalityType
  <2>4. IsFiniteSet(inserting')
    BY <2>1, FS_AddElement, FS_RemoveElement DEF RoomInv
  <2>5. nextSeq' - 1 + Cardinality(Undrawn') <= made' /\ nextSeq' <= MaxMessages + 1
    BY <1>1, <1>3, <1>6, <2>1, <2>3 DEF Insert, RoomInv, RoomTypeOK
  <2>6. RoomTypeOK'
    <3>1. nextSeq \in Seqs /\ nextSeq' \in 1 .. MaxMessages + 1
      BY <1>3, <2>1, <2>5 DEF Seqs
    <3> QED BY <1>6, <2>1, <3>1 DEF Insert, RoomTypeOK
  <2>7. \A k \in rows' \cup inserting' : k.id <= made' /\ k.seq < nextSeq'
    BY <1>6, <2>1 DEF Insert, RoomInv, RoomTypeOK, Messages, Ids, Seqs
  <2>8. \A k, l \in rows' \cup inserting' : k.id = l.id \/ (k.seq = l.seq /\ k.seq # 0) => k = l
    <3>1. m \notin rows
      BY <2>1 DEF RoomTypeOK, Messages, Seqs
    <3>2. rows' \cup inserting' = ((rows \cup inserting) \ {m}) \cup {n}
      BY <1>6, <2>1, <3>1 DEF Insert
    <3>3. \A k \in (rows \cup inserting) \ {m} : k.id # n.id /\ k.seq # n.seq
      BY <1>6, <2>1 DEF RoomInv, RoomTypeOK, Messages, Seqs
    <3> QED BY <3>2, <3>3 DEF RoomInv
  <2> QED BY <1>2, <1>6, <2>4, <2>5, <2>6, <2>7, <2>8 DEF Insert, RoomInv
<1>7. ASSUME NEW m \in inserting, Commit(m) PROVE RoomTypeOK' /\ RoomInv' /\ rows \subseteq rows'
  <2>1. /\ inserting' = inserting \ {m} /\ rows' = rows \cup {m}
        /\ rows' \cup inserting' = rows \cup inserting
    BY <1>7 DEF Commit
  <2>2. IsFiniteSet(inserting') /\ IsFiniteSet(rows')
    BY <2>1, FS_AddElement, FS_RemoveElement DEF RoomInv
  <2>3. Undrawn' \subseteq Undrawn
    BY <2>1 DEF Undrawn
  <2>4. RoomTypeOK'
    BY <1>7, <2>1 DEF Commit, RoomTypeOK, Messages
  <2> QED BY <1>1, <1>2, <1>4, <1>7, <2>1, <2>2, <2>3, <2>4 DEF Commit, RoomInv, RoomTypeOK
<1>8. ASSUME NEW m \in inserting, InsertFails(m)
      PROVE  RoomTypeOK' /\ RoomInv' /\ rows \subseteq rows'
  <2>1. inserting' = inserting \ {m}
    BY <1>8 DEF InsertFails
  <2>2. IsFiniteSet(inserting')
    BY <2>1, FS_RemoveElement DEF RoomInv
  <2>3. Undrawn' \subseteq Undrawn
    BY <2>1 DEF Undrawn
  <2> QED BY <1>1, <1>2, <1>4, <1>8, <2>1, <2>2, <2>3 DEF InsertFails, RoomInv, RoomTypeOK
<1>9. ASSUME NEW u \in Readers, MarkMessage(u) \/ MarkLatest(u)
      PROVE  RoomTypeOK' /\ RoomInv' /\ rows \subseteq rows'
  <2>1. PICK m \in rows : Mark(u, m)
    BY <1>9 DEF MarkMessage, MarkLatest
  <2>2. RoomTypeOK'
    BY <1>9, <2>1 DEF Mark, RoomTypeOK, Messages
  <2>3. Undrawn' = Undrawn
    BY <2>1 DEF Mark, Undrawn
  <2> QED BY <2>1, <2>2, <2>3 DEF Mark, RoomInv
<1>10. ASSUME NEW k \in marks, Upsert(k) PROVE RoomTypeOK' /\ RoomInv' /\ rows \subseteq rows'
  <2>1. RoomTypeOK'
    BY <1>10 DEF Upsert, RoomTypeOK
  <2>2. Undrawn' = Undrawn
    BY <1>10 DEF Upsert, Undrawn
  <2> QED BY <1>10, <2>1, <2>2 DEF Upsert, RoomInv
<1> QED BY <1>5, <1>6, <1>7, <1>8, <1>9, <1>10 DEF RoomStep

-----------------------------------------------------------------------------
(* What an answer covers stays covered.                                    *)
LEMMA CoveredStays ==
  ASSUME RoomTypeOK', RoomInv', rows \subseteq rows',
         late' = late \cup {m.id : m \in {n \in rows' \ rows : \E k \in rows : k.seq > n.seq}},
         delivered \subseteq delivered', before \subseteq before', jumped \subseteq jumped'
  PROVE  \A seq, among : seq \in {0} \cup RowSeqs /\ Covered(seq, among) => Covered(seq, among)'
<1> SUFFICES ASSUME NEW seq \in {0} \cup RowSeqs, NEW among, Covered(seq, among),
                    NEW m \in rows', m.seq <= seq, InOrderOf(m)'
             PROVE  m.id \in among \cup delivered' \cup before' \cup jumped'
  BY DEF Covered
<1>1. m \in rows
  <2> SUFFICES ASSUME m \notin rows PROVE FALSE
    OBVIOUS
  <2>1. m.seq \in Nat /\ m.seq >= 1
    BY DEF RoomTypeOK, Messages, Seqs
  <2>2. PICK k \in rows : k.seq = seq
    BY <2>1 DEF RowSeqs
  <2>3. k.seq \in Nat /\ k.seq # m.seq
    BY <2>1 DEF RoomTypeOK, Messages, Seqs, RoomInv
  <2>4. m.id \in late'
    BY <2>1, <2>2, <2>3
  <2> QED BY <2>4 DEF InOrderOf
<1>2. InOrderOf(m)
  BY DEF InOrderOf
<1> QED BY <1>1, <1>2 DEF Covered

(* The same of a request that stays in flight.                             *)
LEMMA RequestsStay ==
  ASSUME TypeInv, rows \subseteq rows',
         \A seq, among : seq \in {0} \cup RowSeqs /\ Covered(seq, among) => Covered(seq, among)'
  PROVE  /\ \A r \in RequestTypes : RequestInv(r) => RequestInv(r)'
         /\ RequestTypes \subseteq RequestTypes'
         /\ RowSeqs \subseteq RowSeqs' /\ RowIds \subseteq RowIds'
<1>1. RowSeqs \subseteq RowSeqs' /\ RowIds \subseteq RowIds'
  BY DEF RowSeqs, RowIds
<1>2. ASSUME NEW r \in RequestTypes PROVE r \in RequestTypes'
  <2>1. r.list \in Seq(rows')
    BY <1>2 DEF RequestTypes
  <2>2. r.left \subseteq RowIds'
    BY <1>1, <1>2 DEF RequestTypes
  <2> QED BY <1>2, <2>1, <2>2 DEF RequestTypes
<1>3. ASSUME NEW r \in RequestTypes, RequestInv(r) PROVE RequestInv(r)'
  <2>1. Covered(r.since, {})' /\ r.since \in {0} \cup RowSeqs'
    BY <1>1, <1>3 DEF RequestInv
  <2>2. ASSUME r.list # <<>> PROVE Covered(LastOf(r.list).seq, IdsIn(r.list) \cup r.left)'
    <3>1. LastOf(r.list) \in rows
      BY <1>3, <2>2 DEF RequestTypes, LastOf
    <3> QED BY <1>3, <2>2, <3>1 DEF RequestInv, RowSeqs
  <2> QED BY <1>3, <2>1, <2>2 DEF RequestInv
<1> QED BY <1>1, <1>2, <1>3

(* What the server answers covers all that its last message has passed.    *)
LEMMA AnswerProps ==
  ASSUME GatewayInv, NEW r \in {poll, history} \ {None}, ~r.answered,
         UNCHANGED <<rows, late, delivered, before, jumped>>,
         NEW a, a = Answer(r)
  PROVE  /\ a \in RequestTypes /\ a # None /\ a.answered /\ Len(a.list) <= FetchLimit
         /\ a.since = r.since /\ RequestInv(a)'
<1> DEFINE list == Fetch(r.since, FetchLimit)
<1>1. RoomTypeOK /\ RoomInv /\ r \in RequestTypes /\ RequestInv(r)
  BY DEF GatewayInv, TypeInv, TypeOK
<1>2. r.since \in Nat
  BY <1>1 DEF RequestTypes
<1>3. list = IF r.since > 0 THEN Since(r.since, FetchLimit) ELSE Newest(FetchLimit)
  BY <1>2 DEF Fetch
<1>4. list \in Seq(rows) /\ Len(list) <= FetchLimit
  BY <1>1, <1>2, <1>3, SinceProps, NewestProps
<1>5. /\ a = [since |-> r.since, answered |-> TRUE, list |-> list, left |-> LeftOut(r.since)]
      /\ a.since = r.since /\ a.list = list /\ a.left = LeftOut(r.since) /\ a.answered
  BY DEF Answer
<1>6. LeftOut(r.since) \in SUBSET RowIds /\ a \in RequestTypes
  <2>1. LeftOut(r.since) \in SUBSET RowIds
    BY DEF LeftOut, RowIds
  <2> QED BY <1>2, <1>4, <1>5, <2>1 DEF RequestTypes
<1>7. a # None
  <2>1. a \in [since : Nat, answered : BOOLEAN, list : Seq(Messages), left : SUBSET Ids]
    <3>1. list \in Seq(Messages)
      BY <1>1, <1>4 DEF RoomTypeOK
    <3>2. LeftOut(r.since) \in SUBSET Ids
      BY <1>1, <1>6 DEF RoomTypeOK, RowIds, Messages
    <3> QED BY <1>2, <1>5, <3>1, <3>2
  <2> QED BY <2>1, GatewayAssumption
<1>8. r.since > 0 => LeftOut(r.since) = {}
  BY DEF LeftOut
<1>9. ASSUME list # <<>>, NEW m \in rows, m.seq <= LastOf(list).seq, InOrderOf(m)
      PROVE  m.id \in IdsIn(list) \cup LeftOut(r.since) \cup delivered \cup before \cup jumped
  <2>1. LastOf(list) \in rows
    BY <1>4, <1>9 DEF LastOf
  <2>2. /\ m.id \in Nat /\ m.seq \in Nat /\ LastOf(list).id \in Nat /\ LastOf(list).seq \in Nat
    BY <1>1, <2>1 DEF RoomTypeOK, Messages, Ids, Seqs
  <2>3. m.id <= LastOf(list).id
    BY <1>9, <2>1, <2>2 DEF InOrderOf
  <2>4. CASE r.since > 0 /\ m.seq > r.since
    BY <1>1, <1>2, <1>3, <1>9, <2>3, <2>4, SinceProps
  <2>5. CASE r.since > 0 /\ m.seq <= r.since
    BY <1>1, <1>9, <2>5 DEF RequestInv, Covered
  <2>6. CASE r.since = 0
    BY <1>9, <2>6 DEF LeftOut
  <2> QED BY <1>2, <2>2, <2>4, <2>5, <2>6
<1>10. RequestInv(a)'
  <2> HIDE DEF list
  <2>1. r.since \in {0} \cup RowSeqs' /\ Covered(r.since, {})'
    BY <1>1 DEF RequestInv, RowSeqs, Covered, InOrderOf
  <2>2. list # <<>> => Covered(LastOf(a.list).seq, IdsIn(a.list) \cup a.left)'
    BY <1>5, <1>9 DEF Covered, InOrderOf
  <2> QED BY <1>5, <1>8, <2>1, <2>2 DEF RequestInv
<1> QED BY <1>4, <1>5, <1>6, <1>7, <1>10

(* Taking over an answer moves on to what it covers.                       *)
LEMMA LandProps ==
  ASSUME GatewayInv, NEW r \in {poll, history} \ {None}, UNCHANGED <<rows, late, looked>>,
         HandOver(r), GoOnFrom(r.list)
  PROVE  /\ Covered(lastSeq, {})' /\ lastSeq' \in {0} \cup RowSeqs
         /\ delivered \subseteq delivered' /\ before \subseteq before' /\ jumped \subseteq jumped'
         /\ delivered' \cup before' \cup jumped' \subseteq RowIds
         /\ lastSeq' = 0 => delivered' = {} /\ lastSeq = 0
         /\ ~looked => jumped' = {}
         /\ ~looked /\ lastSeq = 0 => r = poll
<1>1. r \in RequestTypes /\ RequestInv(r) /\ Covered(lastSeq, {}) /\ lastSeq \in {0} \cup RowSeqs
  BY DEF GatewayInv, TypeInv, TypeOK, RowSeqs
<1>2. IdsIn(r.list) \subseteq RowIds /\ r.left \subseteq RowIds
  BY <1>1 DEF IdsIn, RowIds, RequestTypes
<1>3. /\ delivered \subseteq delivered' /\ before \subseteq before' /\ jumped \subseteq jumped'
      /\ delivered' \cup before' \cup jumped' \subseteq RowIds
      /\ IdsIn(r.list) \cup r.left \subseteq delivered' \cup before' \cup jumped'
  BY <1>2 DEF HandOver, GatewayInv, TypeInv, TypeOK, RowIds
<1>4. ~looked => jumped' = {}
  <2>1. CASE r.since > 0
    BY <1>1, <2>1 DEF HandOver, RequestInv, GatewayInv, QuietInv
  <2>2. CASE r.since = 0
    BY <2>2 DEF HandOver, GatewayInv, QuietInv
  <2> QED BY <1>1, <2>1, <2>2 DEF RequestTypes
<1>5. ~looked /\ lastSeq = 0 => r = poll
  BY DEF GatewayInv, QuietInv
<1>6. CASE r.list = <<>>
  <2>1. lastSeq' = lastSeq /\ delivered' = delivered
    BY <1>6 DEF GoOnFrom, HandOver, IdsIn
  <2> QED BY <1>1, <1>3, <1>4, <1>5, <2>1 DEF Covered, InOrderOf, GatewayInv, QuietInv
<1>7. CASE r.list # <<>>
  <2>1. LastOf(r.list) \in rows /\ lastSeq' = LastOf(r.list).seq
    BY <1>1, <1>7 DEF LastOf, RequestTypes, GoOnFrom
  <2>2. Covered(LastOf(r.list).seq, IdsIn(r.list) \cup r.left)
    BY <1>1, <1>7 DEF RequestInv
  <2>3. Covered(lastSeq, {})'
    BY <1>3, <2>1, <2>2 DEF Covered, InOrderOf
  <2>4. lastSeq' # 0
    BY <2>1 DEF GatewayInv, TypeInv, TypeOK, RoomTypeOK, Messages, Seqs
  <2> QED BY <1>3, <1>4, <1>5, <2>1, <2>3, <2>4 DEF RowSeqs
<1> QED BY <1>6, <1>7

-----------------------------------------------------------------------------
LEMMA InitInv == Init => GatewayInv
<1> SUFFICES ASSUME Init PROVE GatewayInv
  OBVIOUS
<1>1. MaxMessages \in Nat /\ MaxFailures \in Nat
  BY ChatAssumption, GatewayAssumption
<1>2. TypeInv
  <2>1. RoomTypeOK
    BY <1>1 DEF Init, RoomInit, RoomTypeOK
  <2>2. fetching <=> poll # None
    BY Zenon DEF Init
  <2>3. {poll, history} \ {None} = {}
    BY DEF Init
  <2>4. /\ lastSeq \in {0} \cup {m.seq : m \in rows} /\ failures \in 0 .. MaxFailures
        /\ delivered \cup late \cup before \cup jumped \subseteq {m.id : m \in rows}
    BY <1>1 DEF Init, RoomInit
  <2>5. disposed \in BOOLEAN /\ looked \in BOOLEAN
    BY Zenon DEF Init
  <2> QED BY <2>1, <2>2, <2>3, <2>4, <2>5, Zenon DEF TypeInv, TypeOK
<1>3. RoomInv
  <2>1. Undrawn = {}
    BY DEF Init, RoomInit, Undrawn
  <2> QED BY <2>1, FS_EmptySet DEF Init, RoomInit, RoomInv
<1>4. QuietInv
  BY DEF Init, QuietInv
<1> QED BY <1>2, <1>3, <1>4 DEF Init, RoomInit, GatewayInv, Covered

(* A step of the room, under requests in flight.                           *)
LEMMA RoomStepInv ==
  ASSUME GatewayInv, OtherPosts \/ Server
  PROVE  GatewayInv'
<1>1. RoomTypeOK' /\ RoomInv' /\ rows \subseteq rows'
  BY RoomKept DEF OtherPosts, Server, GatewayInv, TypeInv, TypeOK
<1>2. UNCHANGED gatewayVars
  BY DEF OtherPosts, Server
<1>3. late' = late \cup {m.id : m \in {n \in rows' \ rows : \E k \in rows : k.seq > n.seq}}
  <2>1. CASE OtherPosts
    BY <2>1 DEF OtherPosts, Post
  <2> QED BY <2>1 DEF Server
<1>4. \A seq, among : seq \in {0} \cup RowSeqs /\ Covered(seq, among) => Covered(seq, among)'
  BY <1>1, <1>2, <1>3, CoveredStays DEF gatewayVars
<1>5. /\ \A r \in RequestTypes : RequestInv(r) => RequestInv(r)'
      /\ RequestTypes \subseteq RequestTypes'
      /\ RowSeqs \subseteq RowSeqs' /\ RowIds \subseteq RowIds'
  BY <1>1, <1>4, RequestsStay DEF GatewayInv
<1>6. Covered(lastSeq, {})'
  <2>1. PICK s : s = lastSeq
    OBVIOUS
  <2>2. s \in {0} \cup RowSeqs /\ Covered(s, {})
    BY <2>1 DEF GatewayInv, TypeInv, TypeOK, RowSeqs
  <2>3. Covered(s, {})' /\ lastSeq' = s
    BY <1>2, <1>4, <2>1, <2>2 DEF gatewayVars
  <2> QED BY <2>3
<1>7. \A r \in {poll', history'} \ {None} : r \in RequestTypes' /\ RequestInv(r)'
  BY <1>2, <1>5 DEF gatewayVars, GatewayInv, TypeInv
<1>8. TypeOK'
  <2>1. late' \subseteq RowIds'
    BY <1>1, <1>3, <1>5 DEF GatewayInv, TypeInv, TypeOK, RowIds
  <2>2. /\ delivered' \cup before' \cup jumped' \subseteq RowIds'
        /\ lastSeq' \in {0} \cup RowSeqs'
    BY <1>2, <1>5 DEF gatewayVars, GatewayInv, TypeInv, TypeOK, RowIds, RowSeqs
  <2>3. \A r \in {poll', history'} \ {None} :
          /\ r.since \in Nat /\ Len(r.list) <= FetchLimit
          /\ IdsIn(r.list) \cup r.left \subseteq RowIds'
    BY <1>2, <1>5 DEF gatewayVars, GatewayInv, TypeInv, TypeOK, RowIds
  <2> QED
    BY <1>1, <1>2, <2>1, <2>2, <2>3
       DEF gatewayVars, GatewayInv, TypeInv, TypeOK, RowIds, RowSeqs
<1>9. QuietInv'
  BY <1>2 DEF gatewayVars, GatewayInv, QuietInv
<1> QED BY <1>1, <1>6, <1>7, <1>8, <1>9 DEF GatewayInv, TypeInv

(* A step of the gateway: the room is as it was.                           *)
LEMMA GatewayStepInv ==
  ASSUME GatewayInv, UNCHANGED <<roomVars, late>>,
         \A r \in {poll', history'} \ {None} :
           \/ r \in {poll, history}
           \/ r \in RequestTypes /\ RequestInv(r)' /\ Len(r.list) <= FetchLimit,
         delivered \subseteq delivered', before \subseteq before', jumped \subseteq jumped',
         delivered' \cup before' \cup jumped' \subseteq RowIds,
         looked' \in BOOLEAN, QuietInv',
         lastSeq' \in {0} \cup RowSeqs, Covered(lastSeq, {})',
         fetching' <=> poll' # None, disposed' \in BOOLEAN, failures' \in 0 .. MaxFailures
  PROVE  GatewayInv'
<1>1. rows' = rows /\ late' = late
  BY DEF roomVars
<1>2. RoomTypeOK' /\ RoomInv'
  BY DEF roomVars, RoomTypeOK, RoomInv, Undrawn, GatewayInv, TypeInv, TypeOK
<1>3. \A seq, among : Covered(seq, among) => Covered(seq, among)'
  BY <1>1 DEF Covered, InOrderOf
<1>4. /\ \A r \in RequestTypes : RequestInv(r) => RequestInv(r)'
      /\ RequestTypes' = RequestTypes /\ RowSeqs' = RowSeqs /\ RowIds' = RowIds
  BY <1>1, <1>3, RequestsStay DEF GatewayInv, RequestTypes, RowSeqs, RowIds
<1>5. \A r \in {poll', history'} \ {None} :
        r \in RequestTypes /\ RequestInv(r)' /\ Len(r.list) <= FetchLimit
  BY <1>4 DEF GatewayInv, TypeInv, TypeOK
<1>6. \A r \in RequestTypes : r.since \in Nat /\ IdsIn(r.list) \cup r.left \subseteq RowIds
  BY DEF RequestTypes, IdsIn, RowIds
<1>7. TypeOK'
  <2>1. late' \subseteq RowIds
    BY <1>1 DEF GatewayInv, TypeInv, TypeOK, RowIds
  <2> QED BY <1>1, <1>2, <1>5, <1>6, <2>1 DEF TypeOK, RowIds, RowSeqs
<1> QED BY <1>2, <1>4, <1>5, <1>7 DEF GatewayInv, TypeInv

LEMMA NextInv == GatewayInv /\ [Next]_vars => GatewayInv'
<1> SUFFICES ASSUME GatewayInv, [Next]_vars PROVE GatewayInv'
  OBVIOUS
<1>1. /\ lastSeq \in {0} \cup RowSeqs /\ delivered \cup before \cup jumped \subseteq RowIds
      /\ disposed \in BOOLEAN /\ looked \in BOOLEAN /\ QuietInv
      /\ failures \in 0 .. MaxFailures /\ MaxFailures \in Nat
      /\ Covered(lastSeq, {}) /\ (fetching <=> poll # None)
  BY GatewayAssumption DEF GatewayInv, TypeInv, TypeOK, RowIds, RowSeqs
<1>2. ASSUME UNCHANGED <<rows, late, lastSeq>>,
             delivered \subseteq delivered', before \subseteq before', jumped \subseteq jumped'
      PROVE  Covered(lastSeq, {})' /\ lastSeq' \in {0} \cup RowSeqs
  BY <1>1, <1>2 DEF Covered, InOrderOf
<1>3. CASE OtherPosts \/ Server
  BY <1>3, RoomStepInv
<1>4. ASSUME NEW since \in {0, lastSeq}, NEW a, a = Asked(since),
             UNCHANGED <<rows, late, delivered, before, jumped>>
      PROVE  /\ a \in RequestTypes /\ a # None /\ Len(a.list) <= FetchLimit
             /\ a.since = since /\ RequestInv(a)'
  <2>1. a = [since |-> since, answered |-> FALSE, list |-> <<>>, left |-> {}]
    BY <1>4 DEF Asked
  <2>2. since \in Nat /\ since \in {0} \cup RowSeqs
    BY <1>1, <1>4 DEF GatewayInv, TypeInv, TypeOK, RoomTypeOK, Messages, Seqs, RowSeqs
  <2>3. Covered(since, {})'
    <3>1. CASE since = 0
      BY <3>1, <1>4 DEF Covered, GatewayInv, TypeInv, TypeOK, RoomTypeOK, Messages, Seqs
    <3> QED BY <1>1, <1>4, <3>1 DEF Covered, InOrderOf
  <2>4. /\ a \in RequestTypes
        /\ a \in [since : Nat, answered : BOOLEAN, list : Seq(Messages), left : SUBSET Ids]
    BY <2>1, <2>2 DEF RequestTypes
  <2>5. a # None
    BY <2>4, GatewayAssumption
  <2>6. RequestInv(a)'
    BY <1>4, <2>1, <2>2, <2>3 DEF RequestInv, RowSeqs
  <2>7. Len(a.list) = 0 /\ a.since = since
    BY <2>1
  <2> QED BY <2>4, <2>5, <2>6, <2>7, ChatAssumption
<1>5. CASE Tick
  <2>1. PICK a : a = Asked(lastSeq)
    OBVIOUS
  <2>2. /\ poll' = a /\ fetching' = TRUE
        /\ UNCHANGED <<roomVars, late, lastSeq, history, disposed, failures, delivered, before,
                       jumped, looked>>
    BY <1>5, <2>1 DEF Tick
  <2>3. /\ a \in RequestTypes /\ a # None /\ Len(a.list) <= FetchLimit /\ RequestInv(a)'
        /\ a.since = lastSeq
    BY <1>4, <2>1, <2>2 DEF roomVars
  <2>4. QuietInv'
    BY <1>1, <2>2, <2>3 DEF QuietInv
  <2> QED BY <1>1, <1>2, <2>2, <2>3, <2>4, GatewayStepInv DEF roomVars
<1>6. CASE ServePoll
  <2>1. PICK r, a : r = poll /\ a = Answer(r)
    OBVIOUS
  <2>2. /\ r \in {poll, history} \ {None} /\ ~r.answered /\ poll' = a
        /\ UNCHANGED <<roomVars, late, fetching, lastSeq, history, disposed, failures, delivered,
                       before, jumped, looked>>
    BY <1>6, <2>1 DEF ServePoll
  <2>3. /\ a \in RequestTypes /\ a # None /\ Len(a.list) <= FetchLimit /\ RequestInv(a)'
        /\ a.since = r.since
    BY <2>1, <2>2, AnswerProps DEF roomVars
  <2>4. QuietInv'
    BY <1>1, <2>1, <2>2, <2>3 DEF QuietInv
  <2> QED BY <1>1, <1>2, <2>1, <2>2, <2>3, <2>4, GatewayStepInv DEF roomVars
<1>7. CASE LandPoll
  <2>1. PICK r : r = poll /\ r \in {poll, history} \ {None}
    BY <1>7 DEF LandPoll
  <2>2. /\ poll' = None /\ fetching' = FALSE
        /\ UNCHANGED <<roomVars, late, history, disposed, failures, looked>>
    BY <1>7 DEF LandPoll
  <2>3. CASE disposed
    <3>1. UNCHANGED <<delivered, before, jumped, lastSeq>>
      BY <1>7, <2>3 DEF LandPoll
    <3>2. QuietInv'
      BY <1>1, <2>2, <3>1 DEF QuietInv
    <3> QED BY <1>1, <1>2, <2>2, <3>1, <3>2, GatewayStepInv DEF roomVars
  <2>4. CASE ~disposed
    <3>1. HandOver(r) /\ GoOnFrom(r.list)
      BY <1>7, <2>1, <2>4 DEF LandPoll
    <3>2. /\ Covered(lastSeq, {})' /\ lastSeq' \in {0} \cup RowSeqs
          /\ delivered \subseteq delivered' /\ before \subseteq before' /\ jumped \subseteq jumped'
          /\ delivered' \cup before' \cup jumped' \subseteq RowIds
          /\ lastSeq' = 0 => delivered' = {} /\ lastSeq = 0
          /\ ~looked => jumped' = {}
      BY <2>1, <2>2, <3>1, LandProps DEF roomVars
    <3>3. QuietInv'
      BY <1>1, <2>2, <3>2 DEF QuietInv, RowSeqs, GatewayInv, TypeInv, TypeOK, RoomTypeOK,
                              Messages, Seqs
    <3> QED BY <1>1, <2>2, <3>2, <3>3, GatewayStepInv
  <2> QED BY <2>3, <2>4
<1>8. CASE PollFails
  <2>1. failures' \in 0 .. MaxFailures
    BY <1>1, <1>8 DEF PollFails
  <2>2. QuietInv'
    BY <1>1, <1>8 DEF PollFails, QuietInv
  <2> QED BY <1>1, <1>2, <1>8, <2>1, <2>2, GatewayStepInv DEF PollFails, roomVars
<1>9. CASE AskHistory
  <2>1. PICK since \in {0, lastSeq} :
          history' = Asked(since) /\ looked' = (looked \/ since = 0)
    BY <1>9 DEF AskHistory
  <2>2. PICK a : a = Asked(since)
    OBVIOUS
  <2>3. /\ history' = a
        /\ UNCHANGED <<roomVars, late, fetching, lastSeq, poll, disposed, failures, delivered,
                       before, jumped>>
    BY <1>9, <2>1, <2>2 DEF AskHistory
  <2>4. /\ a \in RequestTypes /\ a # None /\ Len(a.list) <= FetchLimit /\ RequestInv(a)'
        /\ a.since = since
    BY <1>4, <2>2, <2>3 DEF roomVars
  <2>5. since \in Nat
    BY <2>4 DEF RequestTypes
  <2>6. looked' \in BOOLEAN /\ (~looked' => ~looked /\ since > 0 /\ since = lastSeq)
    <3>1. looked' \in BOOLEAN /\ (~looked' => ~looked /\ since # 0)
      BY <1>1, <2>1, Zenon
    <3>2. since \in {0, lastSeq}
      BY <2>1
    <3> QED BY <2>5, <3>1, <3>2
  <2>7. QuietInv'
    BY <1>1, <2>3, <2>4, <2>6 DEF QuietInv
  <2> QED BY <1>1, <1>2, <2>3, <2>4, <2>6, <2>7, GatewayStepInv DEF roomVars
<1>10. CASE ServeHistory
  <2>1. PICK r, a : r = history /\ a = Answer(r)
    OBVIOUS
  <2>2. /\ r \in {poll, history} \ {None} /\ ~r.answered /\ history' = a
        /\ UNCHANGED <<roomVars, late, fetching, lastSeq, poll, disposed, failures, delivered,
                       before, jumped, looked>>
    BY <1>10, <2>1 DEF ServeHistory
  <2>3. /\ a \in RequestTypes /\ a # None /\ Len(a.list) <= FetchLimit /\ RequestInv(a)'
        /\ a.since = r.since
    BY <2>1, <2>2, AnswerProps DEF roomVars
  <2>4. QuietInv'
    BY <1>1, <2>1, <2>2, <2>3 DEF QuietInv
  <2> QED BY <1>1, <1>2, <2>1, <2>2, <2>3, <2>4, GatewayStepInv DEF roomVars
<1>11. CASE LandHistory
  <2>1. PICK r : r = history /\ r \in {poll, history} \ {None}
    BY <1>11 DEF LandHistory
  <2>2. /\ history' = None
        /\ UNCHANGED <<roomVars, late, fetching, poll, disposed, failures, looked>>
        /\ HandOver(r) /\ GoOnFrom(r.list)
    BY <1>11, <2>1 DEF LandHistory
  <2>3. /\ Covered(lastSeq, {})' /\ lastSeq' \in {0} \cup RowSeqs
        /\ delivered \subseteq delivered' /\ before \subseteq before' /\ jumped \subseteq jumped'
        /\ delivered' \cup before' \cup jumped' \subseteq RowIds
        /\ lastSeq' = 0 => delivered' = {} /\ lastSeq = 0
        /\ ~looked => jumped' = {}
    BY <2>1, <2>2, LandProps DEF roomVars
  <2>4. QuietInv'
    <3>1. ~looked => lastSeq > 0
      BY <1>1, <2>1 DEF QuietInv
    <3> QED BY <1>1, <2>2, <2>3, <3>1 DEF QuietInv
  <2> QED BY <1>1, <2>2, <2>3, <2>4, GatewayStepInv
<1>12. CASE HistoryFails
  <2>1. failures' \in 0 .. MaxFailures
    BY <1>1, <1>12 DEF HistoryFails
  <2>2. QuietInv'
    BY <1>1, <1>12 DEF HistoryFails, QuietInv
  <2> QED BY <1>1, <1>2, <1>12, <2>1, <2>2, GatewayStepInv DEF HistoryFails, roomVars
<1>13. CASE Dispose
  <2>1. QuietInv'
    BY <1>1, <1>13 DEF Dispose, QuietInv
  <2> QED BY <1>1, <1>2, <1>13, <2>1, GatewayStepInv DEF Dispose, roomVars
<1>14. CASE UNCHANGED vars
  <2>1. QuietInv'
    BY <1>1, <1>14 DEF vars, gatewayVars, QuietInv
  <2> QED BY <1>1, <1>2, <1>14, <2>1, GatewayStepInv DEF vars, gatewayVars, roomVars
<1> QED
  BY <1>3, <1>5, <1>6, <1>7, <1>8, <1>9, <1>10, <1>11, <1>12, <1>13, <1>14
     DEF Next, Polling, Looking

-----------------------------------------------------------------------------
(* Every reachable state has the inductive invariant.                      *)
LEMMA Invariant == Spec => []GatewayInv
BY InitInv, NextInv, PTL DEF Spec

(* The gateway's fields have their types, and it has handed over nothing   *)
(* the server does not hold (chat_gateway_rest.dart:18-68).                *)
THEOREM TypeCorrect == Spec => []TypeOK
<1>1. GatewayInv => TypeOK
  BY DEF GatewayInv, TypeInv
<1> QED BY <1>1, Invariant, PTL

(* A message stored in order whose seq the gateway has passed was handed   *)
(* over, or lies before the first load, or was lost to a later load from   *)
(* the start of the room, and no such load is made unless history() asks   *)
(* for it - for any limit, failures and history() beside a tick            *)
(* (chat_gateway_rest.dart:36-87).                                         *)
THEOREM NothingPassedOver == Spec => []NothingSkipped
<1>1. GatewayInv => NothingSkipped
  BY DEF GatewayInv, Covered, QuietInv, NothingSkipped
<1> QED BY <1>1, Invariant, PTL
-----------------------------------------------------------------------------
(* The screen.                                                             *)

NewestRows == [i \in DOMAIN Newest(FetchLimit) |-> Row(Newest(FetchLimit)[i])]

(* What is not among a full load is older than all of it.                  *)
KeptOrOlder(id, list) ==
  \/ id \in IdsOf(list)
  \/ Cardinality(IdsOf(list)) = FetchLimit /\ \A other \in IdsOf(list) : other > id

(* The screen's fields, and what a closed screen has forgotten; a delay    *)
(* that ends a load is the only one of its kind and keeps others from it.  *)
FieldsInv ==
  /\ ScreenTypeOK
  /\ req \in ScreenRequests \cup {None}
  /\ ~mounted => shown = <<>> /\ req = None /\ sends = {} /\ timers = <<>>
  /\ \A i \in DOMAIN timers : timers[i] = Loaded => screenFetching /\ req = None
  /\ \A i, j \in DOMAIN timers : timers[i] = Loaded /\ timers[j] = Loaded => i = j

(* Nothing is shown three times; what is shown twice is one's own, and its *)
(* send was answered.                                                      *)
TwiceInv ==
  /\ ShownIds \subseteq RowIds
  /\ \A id \in sends : id <= made
  /\ \A m \in rows \cup inserting : m.id \in sends => m.from = Me
  /\ \A i, j \in DOMAIN shown : i # j /\ shown[i].id = shown[j].id =>
       shown[i].id \notin sends /\ \A m \in rows : m.id = shown[i].id => m.from = Me
  /\ \A i, j, k \in DOMAIN shown :
       shown[i].id = shown[j].id /\ shown[j].id = shown[k].id => i = j \/ j = k \/ i = k

LoadInv(r) ==
  /\ IdsOf(r.list) \subseteq RowIds /\ Distinct(r.list)
  /\ r.had \subseteq RowIds
  /\ r.kind = "initial" => r.since = 0
  /\ r.kind = "initial" /\ r.answered => \A id \in r.had : KeptOrOlder(id, r.list)

CalmInv ==
  calm => \/ req = None /\ shown = NewestRows
          \/ req # None /\ req.kind = "initial" /\ (req.answered => req.list = NewestRows)

ScreenInv ==
  /\ FieldsInv /\ RoomInv
  /\ TwiceInv
  /\ req # None => LoadInv(req)
  /\ CalmInv

Places(list, id) == {i \in DOMAIN list : list[i].id = id}

(* As many ids as places, when no id is there twice.                       *)
LEMMA DistinctCount ==
  ASSUME NEW E, NEW list \in Seq(E), Distinct(list)
  PROVE  IsFiniteSet(IdsOf(list)) /\ Cardinality(IdsOf(list)) = Len(list)
<1> DEFINE f == [i \in 1 .. Len(list) |-> list[i].id]
<1>1. f \in Bijection(1 .. Len(list), IdsOf(list))
  <2>1. DOMAIN list = 1 .. Len(list)
    OBVIOUS
  <2>2. f \in [1 .. Len(list) -> IdsOf(list)]
    BY <2>1 DEF IdsOf
  <2>3. \A i, j \in 1 .. Len(list) : f[i] = f[j] => i = j
    BY <2>1 DEF Distinct
  <2>4. \A id \in IdsOf(list) : \E i \in 1 .. Len(list) : f[i] = id
    BY <2>1 DEF IdsOf
  <2> HIDE DEF f
  <2>5. f \in Injection(1 .. Len(list), IdsOf(list))
    BY <2>2, <2>3, Zenon DEF Injection, IsInjective
  <2>6. f \in Surjection(1 .. Len(list), IdsOf(list))
    BY <2>2, <2>4, Zenon DEF Surjection
  <2> QED BY <2>5, <2>6, Zenon DEF Bijection
<1>2. IsFiniteSet(1 .. Len(list)) /\ Cardinality(1 .. Len(list)) = Len(list)
  <2>1. Len(list) \in Nat
    OBVIOUS
  <2> QED BY <2>1, FS_Interval, SMTT(30)
<1>3. ExistsBijection(1 .. Len(list), IdsOf(list))
  BY <1>1 DEF ExistsBijection
<1> QED BY <1>2, <1>3, FS_Bijection

(* What the filter of _reload lets through.                                *)
LEMMA NewOnesProps ==
  ASSUME NEW E, NEW list \in Seq(E), Distinct(list)
  PROVE  /\ NewOnes(list) \in Seq(E)
         /\ Distinct(NewOnes(list))
         /\ IdsOf(NewOnes(list)) = IdsOf(list) \ ids
<1> DEFINE new == {i \in DOMAIN list : list[i].id \notin ids}
           R == {p \in (1 .. Len(list)) \X (1 .. Len(list)) : p[1] < p[2]}
           pos == Ranked(new, R)
           mine(k) == CHOOSE i \in new : Cardinality({j \in new : j < i}) = k - 1
           its(k) == CHOOSE i \in new : Rank(new, R, i) = k - 1
<1>1. DOMAIN list = 1 .. Len(list) /\ Len(list) \in Nat /\ new \in SUBSET (1 .. Len(list))
  OBVIOUS
<1>2. IsFiniteSet(new)
  <2>1. IsFiniteSet(1 .. Len(list))
    BY <1>1, FS_Interval
  <2> HIDE DEF new
  <2> QED BY <1>1, <2>1, FS_Subset
<1>3. \A i, j \in new : <<i, j>> \in R <=> i < j
  BY <1>1
<1>4. \A i \in new : Below(new, R, i) = {j \in new : j < i}
  BY <1>3 DEF Below
<1>5. new \subseteq Int
  BY <1>1
<1> HIDE DEF R, new
<1>6. StrictOrder(new, R)
  BY <1>3, <1>5 DEF StrictOrder
<1>7. \A k : mine(k) = its(k)
  BY <1>4 DEF Rank
<1>8. NewOnes(list) = [k \in 1 .. Cardinality(new) |-> list[pos[k]]]
  <2>1. /\ NewOnes(list) = [k \in 1 .. Cardinality(new) |-> list[mine(k)]]
        /\ pos = [k \in 1 .. Cardinality(new) |-> its(k)]
    BY Zenon DEF NewOnes, Ranked, new
  <2> HIDE DEF mine, its, pos
  <2> QED BY <1>7, <2>1
<1>9. /\ pos \in Seq(new) /\ Len(pos) = Cardinality(new)
      /\ \A i, j \in 1 .. Len(pos) : pos[i] = pos[j] => i = j
      /\ \A i \in new : \E k \in 1 .. Len(pos) : pos[k] = i
  <2>1. PICK S, Q : S = new /\ Q = R
    OBVIOUS
  <2>2. IsFiniteSet(S) /\ StrictOrder(S, Q) /\ pos = Ranked(S, Q)
    BY <1>2, <1>6, <2>1
  <2> HIDE DEF pos
  <2>3. /\ pos \in Seq(S) /\ Len(pos) = Cardinality(S)
        /\ \A i, j \in 1 .. Len(pos) : pos[i] = pos[j] => i = j
        /\ \A i \in S : \E k \in 1 .. Len(pos) : pos[k] = i
    <3>0. pos = Ranked(S, Q) /\ IsFiniteSet(S) /\ StrictOrder(S, Q)
      BY <2>2
    <3>1. pos \in Seq(S)
      BY <3>0, RankedProps
    <3>2. Len(pos) = Cardinality(S)
      BY <3>0, RankedProps
    <3>3. \A i, j \in 1 .. Len(pos) : pos[i] = pos[j] => i = j
      <4> SUFFICES ASSUME NEW i \in 1 .. Len(pos), NEW j \in 1 .. Len(pos), pos[i] = pos[j]
                   PROVE  i = j
        BY Zenon
      <4>1. ~(i < j) \/ <<pos[i], pos[j]>> \in Q
        BY <3>0, RankedProps
      <4>2. ~(j < i) \/ <<pos[j], pos[i]>> \in Q
        BY <3>0, RankedProps
      <4>3. pos[i] \in S /\ <<pos[i], pos[i]>> \notin Q
        BY <3>0, <3>1 DEF StrictOrder
      <4> QED BY <4>1, <4>2, <4>3
    <3>4. \A i \in S : \E k \in 1 .. Len(pos) : pos[k] = i
      BY <3>0, RankedProps
    <3> QED BY <3>1, <3>2, <3>3, <3>4
  <2> QED BY <2>1, <2>3
<1> HIDE DEF pos
<1>10. /\ Len(pos) \in Nat /\ NewOnes(list) = [k \in 1 .. Len(pos) |-> list[pos[k]]]
       /\ \A k \in 1 .. Len(pos) : pos[k] \in new /\ pos[k] \in 1 .. Len(list)
  <2>1. Cardinality(new) = Len(pos) /\ Len(pos) \in Nat /\ \A k \in 1 .. Len(pos) : pos[k] \in new
    BY <1>9
  <2>2. NewOnes(list) = [k \in 1 .. Len(pos) |-> list[pos[k]]]
    BY <1>8, <2>1
  <2> QED BY <1>1, <2>1, <2>2
<1>11. NewOnes(list) \in Seq(E) /\ DOMAIN NewOnes(list) = 1 .. Len(pos)
  BY <1>10
<1>12. Distinct(NewOnes(list))
  BY <1>1, <1>9, <1>10, <1>11 DEF Distinct
<1>13. IdsOf(NewOnes(list)) \subseteq IdsOf(list) \ ids
  BY <1>1, <1>10, <1>11 DEF IdsOf, new
<1>14. IdsOf(list) \ ids \subseteq IdsOf(NewOnes(list))
  <2> SUFFICES ASSUME NEW i \in DOMAIN list, list[i].id \notin ids
               PROVE  list[i].id \in IdsOf(NewOnes(list))
    BY DEF IdsOf
  <2>1. PICK k \in 1 .. Len(pos) : pos[k] = i
    BY <1>9 DEF new
  <2>2. NewOnes(list)[k] = list[i]
    BY <1>10, <2>1
  <2> QED BY <1>11, <2>2 DEF IdsOf
<1> QED BY <1>11, <1>12, <1>13, <1>14

(* What the server answers to a load of the screen.                        *)
ListedRows(since) == [i \in DOMAIN Fetch(since, FetchLimit) |-> Row(Fetch(since, FetchLimit)[i])]

LEMMA ServeProps ==
  ASSUME RoomTypeOK, RoomInv, NEW since \in Nat
  PROVE  /\ ListedRows(since) \in Seq([id : Ids, seq : Nat])
         /\ Distinct(ListedRows(since)) /\ IdsOf(ListedRows(since)) \subseteq RowIds
         /\ since = 0 => /\ ListedRows(since) = NewestRows
                         /\ \A id \in RowIds : KeptOrOlder(id, ListedRows(since))
<1> DEFINE got == Fetch(since, FetchLimit)
           list == ListedRows(since)
<1>1. got = IF since > 0 THEN Since(since, FetchLimit) ELSE Newest(FetchLimit)
  BY DEF Fetch
<1>2. got \in Seq(rows) /\ Distinct(got)
  BY <1>1, SinceProps, NewestProps
<1>3. list = [i \in DOMAIN got |-> Row(got[i])]
  BY DEF ListedRows
<1>4. \A i \in DOMAIN got : got[i] \in rows /\ list[i] = Row(got[i])
  BY <1>2, <1>3
<1>5. \A m \in rows : Row(m).id = m.id /\ Row(m) \in [id : Ids, seq : Nat]
  BY DEF Row, RoomTypeOK, Messages, Seqs, Ids
<1>6. DOMAIN list = DOMAIN got /\ DOMAIN list = 1 .. Len(got) /\ Len(got) \in Nat
  BY <1>2, <1>3
<1> HIDE DEF got, list
<1>7. list \in Seq([id : Ids, seq : Nat])
  <2> DEFINE E == [id : Ids, seq : Nat]
  <2>1. list \in [DOMAIN got -> E]
    BY <1>3, <1>4, <1>5
  <2>2. list \in [1 .. Len(got) -> E] /\ Len(got) \in Nat
    BY <1>6, <2>1
  <2> HIDE DEF E
  <2>3. list \in Seq(E)
    BY <2>2
  <2> QED BY <2>3, Zenon DEF E
<1>8. Distinct(list) /\ IdsOf(list) \subseteq RowIds
  <2>1. \A i \in DOMAIN list : list[i].id = got[i].id /\ got[i] \in rows
    BY <1>4, <1>5, <1>6
  <2>2. Distinct(list)
    BY <1>2, <1>6, <2>1 DEF Distinct
  <2>3. IdsOf(list) \subseteq RowIds
    BY <2>1, Zenon DEF IdsOf, RowIds
  <2> QED BY <2>2, <2>3
<1>9. ASSUME since = 0 PROVE list = NewestRows
  BY <1>1, <1>3, <1>9 DEF NewestRows
<1>10. ASSUME since = 0, NEW m \in rows PROVE KeptOrOlder(m.id, list)
  <2>1. got = Newest(FetchLimit)
    BY <1>1, <1>10
  <2>2. CASE \E i \in 1 .. Len(got) : got[i] = m
    BY <1>4, <1>5, <1>6, <2>2 DEF KeptOrOlder, IdsOf
  <2>3. CASE Len(got) = FetchLimit /\ \A i \in 1 .. FetchLimit : got[i].id > m.id
    <3>1. Cardinality(IdsOf(list)) = Len(list) /\ Len(list) = Len(got)
      BY <1>6, <1>7, <1>8, DistinctCount
    <3>2. \A other \in IdsOf(list) : other > m.id
      BY <1>4, <1>5, <1>6, <2>3 DEF IdsOf
    <3> QED BY <2>3, <3>1, <3>2 DEF KeptOrOlder
  <2> QED BY <2>1, <2>2, <2>3, NewestProps
<1> QED BY <1>7, <1>8, <1>9, <1>10 DEF list, RowIds

(* What more is shown, and where.                                          *)
LEMMA MoreShown ==
  ASSUME NEW E, shown \in Seq(E), NEW more \in Seq(E), shown' = shown \o more
  PROVE  /\ shown' \in Seq(E) /\ ShownIds' = ShownIds \cup IdsOf(more)
         /\ \A i \in DOMAIN shown' :
              \/ i \in DOMAIN shown /\ shown'[i] = shown[i]
              \/ \E j \in DOMAIN more : i = Len(shown) + j /\ shown'[i] = more[j]
<1>1. /\ Len(shown) \in Nat /\ DOMAIN shown = 1 .. Len(shown)
      /\ Len(more) \in Nat /\ DOMAIN more = 1 .. Len(more)
  OBVIOUS
<1>2. /\ shown' \in Seq(E) /\ DOMAIN shown' = 1 .. Len(shown) + Len(more)
      /\ \A i \in 1 .. Len(shown) + Len(more) :
           shown'[i] = IF i <= Len(shown) THEN shown[i] ELSE more[i - Len(shown)]
  BY <1>1, ConcatProperties
<1>3. ASSUME NEW i \in DOMAIN shown'
      PROVE  \/ i \in DOMAIN shown /\ shown'[i] = shown[i]
             \/ \E j \in DOMAIN more : i = Len(shown) + j /\ shown'[i] = more[j]
  <2>1. CASE i <= Len(shown)
    BY <1>1, <1>2, <1>3, <2>1
  <2>2. CASE i > Len(shown)
    <3>1. i - Len(shown) \in DOMAIN more /\ i = Len(shown) + (i - Len(shown))
      BY <1>1, <1>2, <1>3, <2>2
    <3>2. shown'[i] = more[i - Len(shown)]
      BY <1>1, <1>2, <1>3, <2>2
    <3> QED BY <3>1, <3>2
  <2> QED BY <1>1, <1>2, <2>1, <2>2
<1>4. ShownIds' \subseteq ShownIds \cup IdsOf(more)
  BY <1>3 DEF ShownIds, IdsOf
<1>5. ShownIds \subseteq ShownIds'
  <2>1. \A i \in DOMAIN shown : i \in DOMAIN shown' /\ shown'[i] = shown[i]
    BY <1>1, <1>2
  <2> QED BY <2>1 DEF ShownIds
<1>6. IdsOf(more) \subseteq ShownIds'
  <2>1. \A j \in DOMAIN more :
          Len(shown) + j \in DOMAIN shown' /\ shown'[Len(shown) + j] = more[j]
    <3> SUFFICES ASSUME NEW j \in DOMAIN more
                 PROVE  Len(shown) + j \in DOMAIN shown' /\ shown'[Len(shown) + j] = more[j]
      OBVIOUS
    <3>1. /\ Len(shown) + j \in 1 .. Len(shown) + Len(more) /\ ~(Len(shown) + j <= Len(shown))
          /\ (Len(shown) + j) - Len(shown) = j
      BY <1>1
    <3> QED BY <1>2, <3>1
  <2> QED BY <2>1 DEF ShownIds, IdsOf
<1> QED BY <1>2, <1>3, <1>4, <1>5, <1>6

LEMMA AppendProps ==
  ASSUME NEW E, NEW s \in Seq(E), NEW x \in E
  PROVE  /\ Append(s, x) \in Seq(E) /\ Len(s) \in Nat /\ DOMAIN s = 1 .. Len(s)
         /\ DOMAIN Append(s, x) = 1 .. Len(s) + 1 /\ Append(s, x)[Len(s) + 1] = x
         /\ \A i \in 1 .. Len(s) : Append(s, x)[i] = s[i]
<1>1. Len(s) \in Nat /\ DOMAIN s = 1 .. Len(s)
  OBVIOUS
<1>2. Append(s, x) \in Seq(E) /\ Len(Append(s, x)) = Len(s) + 1
  OBVIOUS
<1>3. DOMAIN Append(s, x) = 1 .. Len(s) + 1
  BY <1>2
<1>4. Append(s, x)[Len(s) + 1] = x
  BY <1>1
<1>5. \A i \in 1 .. Len(s) : Append(s, x)[i] = s[i]
  BY <1>1
<1> QED BY <1>1, <1>2, <1>3, <1>4, <1>5

(* An answered send is shown last.                                         *)
LEMMA OneMoreShown ==
  ASSUME NEW E, shown \in Seq(E), NEW x \in E, shown' = Append(shown, x)
  PROVE  /\ shown' \in Seq(E) /\ ShownIds' = ShownIds \cup {x.id}
         /\ \A i \in DOMAIN shown' :
              \/ i \in DOMAIN shown /\ shown'[i] = shown[i]
              \/ i = Len(shown) + 1 /\ shown'[i] = x
<1>1. <<x>> \in Seq(E) /\ DOMAIN <<x>> = {1} /\ <<x>>[1] = x /\ IdsOf(<<x>>) = {x.id}
  BY DEF IdsOf
<1>2. shown' = shown \o <<x>>
  OBVIOUS
<1>3. PICK more : more = <<x>>
  OBVIOUS
<1>4. /\ more \in Seq(E) /\ shown' = shown \o more /\ IdsOf(more) = {x.id}
      /\ DOMAIN more = {1} /\ more[1] = x
  BY <1>1, <1>2, <1>3
<1>5. /\ shown' \in Seq(E) /\ ShownIds' = ShownIds \cup IdsOf(more)
      /\ \A i \in DOMAIN shown' :
           \/ i \in DOMAIN shown /\ shown'[i] = shown[i]
           \/ \E j \in DOMAIN more : i = Len(shown) + j /\ shown'[i] = more[j]
  BY <1>4, MoreShown
<1> QED BY <1>4, <1>5

(* What a request that leaves holds.                                       *)
LEMMA RequestProps ==
  ASSUME FieldsInv, NEW kind \in {"initial", "reload"}, NEW since \in Nat, Request(kind, since)
  PROVE  /\ req' \in ScreenRequests /\ req' # None
         /\ req'.kind = kind /\ req'.since = since /\ ~req'.answered
         /\ req'.had = ShownIds /\ req'.list = <<>>
<1>1. ShownIds \in SUBSET Ids
  <2>1. shown \in Seq([id : Ids, seq : Nat])
    BY DEF FieldsInv, ScreenTypeOK
  <2>2. DOMAIN shown = 1 .. Len(shown)
    BY <2>1
  <2>3. \A i \in 1 .. Len(shown) : shown[i] \in [id : Ids, seq : Nat]
    BY <2>1, ElementOfSeq
  <2>4. \A x \in [id : Ids, seq : Nat] : x.id \in Ids
    OBVIOUS
  <2> QED BY <2>2, <2>3, <2>4 DEF ShownIds
<1>2. <<>> \in Seq([id : Ids, seq : Nat])
  BY EmptySeq
<1>3. req' = [kind |-> kind, since |-> since, had |-> ShownIds, answered |-> FALSE, list |-> <<>>]
  BY DEF Request
<1>4. req' \in ScreenRequests
  BY <1>1, <1>2, <1>3 DEF ScreenRequests
<1> QED BY <1>3, <1>4, ScreenAssumption

LEMMA LastSeqType == ASSUME FieldsInv PROVE LastSeq \in Nat
<1>1. CASE shown = <<>>
  BY <1>1 DEF LastSeq
<1>2. CASE shown # <<>>
  <2>1. shown \in Seq([id : Ids, seq : Nat])
    BY DEF FieldsInv, ScreenTypeOK
  <2>2. Len(shown) \in 1 .. Len(shown)
    BY <1>2, <2>1
  <2>3. shown[Len(shown)] \in [id : Ids, seq : Nat]
    BY <2>1, <2>2, ElementOfSeq
  <2> QED BY <1>2, <2>3 DEF LastSeq
<1> QED BY <1>1, <1>2

(* While the room rests, so do its rows and the newest of them.            *)
LEMMA SameRoom ==
  ASSUME RoomTypeOK, RoomInv, UNCHANGED roomVars
  PROVE  RoomTypeOK' /\ RoomInv' /\ RowIds' = RowIds /\ NewestRows' = NewestRows
<1>1. RoomTypeOK' /\ RoomInv' /\ RowIds' = RowIds
  BY DEF roomVars, RoomTypeOK, RoomInv, Undrawn, RowIds
<1>2. NewestRows' = NewestRows
  BY DEF roomVars, NewestRows, Newest, InOrder, Older, Row
<1> QED BY <1>1, <1>2

(* The answer to a load, in the request's fields.                          *)
LEMMA AnsweredProps ==
  ASSUME FieldsInv, RoomInv, Serve
  PROVE  /\ req \in ScreenRequests /\ req' \in ScreenRequests /\ req' # None
         /\ req'.kind = req.kind /\ req'.since = req.since /\ req'.had = req.had
         /\ req'.answered /\ req'.list = ListedRows(req.since)
<1>1. req \in ScreenRequests /\ req.since \in Nat
  BY DEF Serve, FieldsInv, ScreenRequests
<1>2. ListedRows(req.since) \in Seq([id : Ids, seq : Nat])
  BY <1>1, ServeProps DEF FieldsInv, ScreenTypeOK
<1>3. req' = [req EXCEPT !.answered = TRUE, !.list = ListedRows(req.since)]
  BY DEF Serve, ListedRows
<1>4. req' \in ScreenRequests
  BY <1>1, <1>2, <1>3 DEF ScreenRequests
<1>5. /\ req'.kind = req.kind /\ req'.since = req.since /\ req'.had = req.had
      /\ req'.answered /\ req'.list = ListedRows(req.since)
  BY <1>1, <1>3 DEF ScreenRequests
<1> QED BY <1>1, <1>4, <1>5, ScreenAssumption

(* The fields and the delays, whatever the room does.                      *)
LEMMA FieldsKept ==
  ASSUME FieldsInv, RoomInv, RoomTypeOK', req # None => LoadInv(req), [ScreenNext]_chatVars
  PROVE  FieldsInv'
<1> DEFINE E == [id : Ids, seq : Nat]
           D == {Loaded, "sent"}
<1>1. /\ RoomTypeOK /\ mounted \in BOOLEAN /\ screenFetching \in BOOLEAN
      /\ shown \in Seq(E) /\ ids = ShownIds /\ sends \subseteq Ids /\ timers \in Seq(D)
      /\ req # None => screenFetching
      /\ req \in ScreenRequests \cup {None}
      /\ ~mounted => shown = <<>> /\ req = None /\ sends = {} /\ timers = <<>>
      /\ \A i \in DOMAIN timers : timers[i] = Loaded => screenFetching /\ req = None
      /\ \A i, j \in DOMAIN timers : timers[i] = Loaded /\ timers[j] = Loaded => i = j
  BY DEF FieldsInv, ScreenTypeOK
<1>2. "sent" # Loaded
  BY DEF Loaded
<1> HIDE DEF E, D
<1>3. ASSUME UNCHANGED <<shown, ids>> PROVE shown' \in Seq(E) /\ ids' = ShownIds'
  BY <1>1, <1>3 DEF ShownIds
<1>4. ASSUME /\ mounted' \in BOOLEAN /\ screenFetching' \in BOOLEAN
             /\ shown' \in Seq(E) /\ ids' = ShownIds' /\ sends' \subseteq Ids
             /\ timers' \in Seq(D)
             /\ req' # None => screenFetching'
             /\ req' \in ScreenRequests \cup {None}
             /\ ~mounted' => shown' = <<>> /\ req' = None /\ sends' = {} /\ timers' = <<>>
             /\ \A i \in DOMAIN timers' : timers'[i] = Loaded => screenFetching' /\ req' = None
             /\ \A i, j \in DOMAIN timers' : timers'[i] = Loaded /\ timers'[j] = Loaded => i = j
      PROVE  FieldsInv'
  BY <1>4 DEF FieldsInv, ScreenTypeOK, E, D
<1>5. ASSUME NEW t \in D, Append(timers, t) = timers'
      PROVE  /\ timers' \in Seq(D) /\ Len(timers) \in Nat
             /\ DOMAIN timers' = 1 .. Len(timers) + 1 /\ DOMAIN timers = 1 .. Len(timers)
             /\ timers'[Len(timers) + 1] = t /\ \A i \in 1 .. Len(timers) : timers'[i] = timers[i]
  BY <1>1, <1>5, AppendProps
<1>6. ASSUME timers # <<>>, timers' = Tail(timers)
      PROVE  /\ timers' \in Seq(D) /\ Len(timers') = Len(timers) - 1 /\ Len(timers) \in Nat \ {0}
             /\ DOMAIN timers' = 1 .. Len(timers) - 1 /\ DOMAIN timers = 1 .. Len(timers)
             /\ Head(timers) = timers[1]
             /\ \A i \in 1 .. Len(timers) - 1 : timers'[i] = timers[i + 1]
  BY <1>1, <1>6, HeadTailProperties
<1>7. CASE Open
  <2>1. req' \in ScreenRequests /\ req' # None
    BY <1>7, RequestProps DEF Open
  <2>2. DOMAIN timers' = {} /\ timers' = timers /\ sends' = sends
    BY <1>1, <1>7 DEF Open
  <2> QED BY <1>1, <1>3, <1>4, <1>7, <2>1, <2>2 DEF Open
<1>8. CASE Refresh
  <2>1. req' \in ScreenRequests /\ req' # None
    BY <1>8, RequestProps DEF Refresh
  <2> QED BY <1>1, <1>3, <1>4, <1>8, <2>1 DEF Refresh
<1>9. CASE Serve
  <2>1. req' \in ScreenRequests /\ req' # None
    BY <1>9, AnsweredProps
  <2> QED BY <1>1, <1>3, <1>4, <1>9, <2>1 DEF Serve
<1>10. CASE LandInitial
  <2>1. req \in ScreenRequests /\ req # None /\ mounted /\ screenFetching
    BY <1>1, <1>10 DEF LandInitial, Answered
  <2>2. shown' \in Seq(E) /\ ids' = ShownIds'
    BY <1>10, <2>1 DEF LandInitial, Replace, ScreenRequests, E, IdsOf, ShownIds
  <2>3. Loaded \in D /\ Append(timers, Loaded) = timers'
    BY <1>10 DEF LandInitial, D
  <2>4. \A i \in DOMAIN timers : timers[i] # Loaded
    BY <1>1, <2>1
  <2>5. \A i \in DOMAIN timers' : timers'[i] = Loaded => i = Len(timers) + 1
    BY <1>5, <2>3, <2>4
  <2>6. /\ UNCHANGED <<mounted, screenFetching, sends>> /\ req' = None
        /\ timers' \in Seq(D)
    BY <1>5, <1>10, <2>3 DEF LandInitial
  <2> QED BY <1>1, <1>4, <2>1, <2>2, <2>5, <2>6
<1>11. CASE LandReload
  <2> DEFINE new == NewOnes(req.list)
  <2>1. req \in ScreenRequests /\ req # None /\ mounted /\ screenFetching /\ req' = None
        /\ UNCHANGED <<mounted, sends>>
    BY <1>1, <1>11 DEF LandReload, Answered
  <2>2. new \in Seq(E)
    <3>1. req.list \in Seq(E) /\ Distinct(req.list)
      BY <2>1 DEF ScreenRequests, E, LoadInv
    <3> QED BY <3>1, NewOnesProps
  <2>3. shown' = shown \o new /\ ids' = ids \cup IdsOf(new)
    BY <1>11 DEF LandReload
  <2>4. shown' \in Seq(E) /\ ids' = ShownIds'
    BY <1>1, <2>2, <2>3, MoreShown
  <2>5. \A i \in DOMAIN timers : timers[i] # Loaded
    BY <1>1, <2>1
  <2>6. CASE new = <<>>
    <3>1. screenFetching' = FALSE /\ timers' = timers
      BY <1>11, <2>6 DEF LandReload
    <3> QED BY <1>1, <1>4, <2>1, <2>4, <2>5, <3>1
  <2>7. CASE new # <<>>
    <3>1. screenFetching' = screenFetching /\ Append(timers, Loaded) = timers' /\ Loaded \in D
      BY <1>11, <2>7 DEF LandReload, D
    <3>2. \A i \in DOMAIN timers' : timers'[i] = Loaded => i = Len(timers) + 1
      BY <1>5, <2>5, <3>1
    <3>3. timers' \in Seq(D)
      BY <1>5, <3>1
    <3> QED BY <1>1, <1>4, <2>1, <2>4, <3>1, <3>2, <3>3
  <2> QED BY <2>6, <2>7
<1>12. CASE LoadFails
  <2>1. \A i \in DOMAIN timers : timers[i] # Loaded
    BY <1>1, <1>12 DEF LoadFails
  <2> QED BY <1>1, <1>3, <1>4, <1>12, <2>1 DEF LoadFails
<1>13. CASE LoadEnds
  <2>1. timers # <<>> /\ Head(timers) = Loaded /\ timers' = Tail(timers)
    BY <1>13 DEF LoadEnds
  <2>2. 1 \in DOMAIN timers /\ timers[1] = Loaded
    BY <1>6, <2>1
  <2>3. req = None /\ mounted
    BY <1>1, <2>1, <2>2
  <2>4. \A i \in DOMAIN timers' : timers'[i] # Loaded
    BY <1>1, <1>6, <2>1, <2>2
  <2> QED BY <1>1, <1>3, <1>4, <1>6, <1>13, <2>1, <2>3, <2>4 DEF LoadEnds
<1>14. CASE Send
  <2>1. made' \in Ids
    BY <1>1, <1>14, ChatAssumption DEF Send, Post, Ids, RoomTypeOK
  <2> QED BY <1>1, <1>3, <1>4, <1>14, <2>1 DEF Send
<1>15. ASSUME NEW m \in rows, SendAnswered(m) PROVE FieldsInv'
  <2> DEFINE x == [id |-> m.id, seq |-> SeqFromDate(m.id)]
  <2>1. m.id \in Ids /\ m.id \in sends /\ mounted
    BY <1>1, <1>15 DEF SendAnswered
  <2>2. x \in E
    BY <2>1, ChatAssumption DEF E, SeqFromDate, Ids
  <2>3. shown' = Append(shown, x) /\ ids' = ids \cup {m.id}
    BY <1>15 DEF SendAnswered
  <2>4. shown' \in Seq(E) /\ ids' = ShownIds'
    <3>1. x.id = m.id
      OBVIOUS
    <3> HIDE DEF x
    <3> QED BY <1>1, <2>2, <2>3, <3>1, OneMoreShown
  <2>5. Append(timers, "sent") = timers' /\ "sent" \in D
    BY <1>15 DEF SendAnswered, D
  <2>6. \A i \in DOMAIN timers' : timers'[i] = Loaded => i \in DOMAIN timers /\ timers[i] = Loaded
    BY <1>2, <1>5, <2>5
  <2>7. UNCHANGED <<mounted, screenFetching, req>> /\ sends' \subseteq Ids /\ timers' \in Seq(D)
    BY <1>1, <1>5, <1>15, <2>5 DEF SendAnswered
  <2> QED BY <1>1, <1>4, <2>1, <2>4, <2>6, <2>7
<1>16. CASE SendFails
  BY <1>1, <1>3, <1>4, <1>16 DEF SendFails
<1>17. CASE Reload
  <2>1. timers # <<>> /\ timers' = Tail(timers)
    BY <1>17 DEF Reload
  <2>2. \A i \in DOMAIN timers' : i + 1 \in DOMAIN timers /\ timers'[i] = timers[i + 1] /\ i \in Int
    BY <1>6, <2>1
  <2>3. mounted /\ mounted' = mounted /\ sends' = sends /\ UNCHANGED <<shown, ids>>
    BY <1>1, <1>17, <2>1 DEF Reload
  <2>4. \A i, j \in DOMAIN timers' : timers'[i] = Loaded /\ timers'[j] = Loaded => i = j
    <3> SUFFICES ASSUME NEW i \in DOMAIN timers', NEW j \in DOMAIN timers',
                        timers'[i] = Loaded, timers'[j] = Loaded
                 PROVE  i = j
      OBVIOUS
    <3>1. i + 1 = j + 1 /\ i \in Int /\ j \in Int
      BY <1>1, <2>2
    <3> QED BY <3>1
  <2>5. CASE screenFetching
    <3>1. UNCHANGED <<screenFetching, req>>
      BY <1>17, <2>5 DEF Reload
    <3>2. \A i \in DOMAIN timers' : timers'[i] = Loaded => screenFetching' /\ req' = None
      BY <1>1, <2>2, <3>1
    <3> QED BY <1>1, <1>3, <1>4, <1>6, <2>1, <2>3, <2>4, <3>1, <3>2
  <2>6. CASE ~screenFetching
    <3>1. screenFetching' = TRUE /\ Request("reload", LastSeq)
      BY <1>17, <2>6 DEF Reload
    <3>2. req' \in ScreenRequests /\ req' # None
      BY <3>1, RequestProps, LastSeqType
    <3>3. \A i \in DOMAIN timers' : timers'[i] # Loaded
      BY <1>1, <2>2, <2>6
    <3> QED BY <1>1, <1>3, <1>4, <1>6, <2>1, <2>3, <3>1, <3>2, <3>3
  <2> QED BY <2>5, <2>6
<1>18. CASE Leave
  <2>1. shown' \in Seq(E) /\ ids' = ShownIds' /\ timers' \in Seq(D) /\ DOMAIN timers' = {}
    BY <1>18, EmptySeq DEF Leave, ShownIds
  <2> QED BY <1>4, <1>18, <2>1 DEF Leave
<1>19. CASE DevicePosts \/ ServerSteps \/ UNCHANGED chatVars
  <2>1. UNCHANGED <<mounted, shown, ids, screenFetching, req, sends, timers>>
    BY <1>19 DEF DevicePosts, ServerSteps, chatVars, screenVars
  <2> QED BY <1>1, <1>3, <1>4, <2>1
<1> QED
  BY <1>7, <1>8, <1>9, <1>10, <1>11, <1>12, <1>13, <1>14, <1>15, <1>16, <1>17, <1>18, <1>19
     DEF ScreenNext, Load, Timer

(* Where the messages of the room come from.                               *)
RoomMoves == UNCHANGED roomVars \/ (\E u \in Users : Post(u)) \/ RoomStep

LEMMA RoomOrigin ==
  ASSUME RoomTypeOK, RoomInv, RoomMoves
  PROVE  /\ RoomTypeOK' /\ RoomInv' /\ rows \subseteq rows' /\ RowIds \subseteq RowIds'
         /\ made \in Nat /\ made' \in Nat /\ made <= made'
         /\ \A m \in rows' \cup inserting' :
              \/ \E n \in rows \cup inserting : n.id = m.id /\ n.from = m.from
              \/ m.id = made + 1
         /\ \A m \in rows' : m.id \in RowIds => m \in rows
<1>1. RoomTypeOK' /\ RoomInv' /\ rows \subseteq rows'
  <2>1. CASE UNCHANGED roomVars
    BY <2>1, SameRoom DEF roomVars
  <2> QED BY <2>1, RoomKept DEF RoomMoves
<1>2. RowIds \subseteq RowIds'
  BY <1>1 DEF RowIds
<1>3. made \in Nat /\ made' \in Nat
  BY <1>1, ChatAssumption DEF RoomTypeOK
<1>4. /\ made <= made'
      /\ \A m \in rows' \cup inserting' :
              \/ \E n \in rows \cup inserting : n.id = m.id /\ n.from = m.from
              \/ m.id = made + 1
  <2>1. CASE UNCHANGED roomVars
    BY <1>3, <2>1 DEF roomVars
  <2>2. ASSUME NEW u \in Users, Post(u) PROVE <1>4!:
    BY <1>3, <2>2 DEF Post
  <2>3. ASSUME NEW m \in inserting, Insert(m) PROVE <1>4!:
    <3>1. PICK x : x = [m EXCEPT !.seq = nextSeq]
      OBVIOUS
    <3>2. x.id = m.id /\ x.from = m.from
      BY <2>3, <3>1 DEF RoomTypeOK
    <3>3. inserting' = (inserting \ {m}) \cup {x} /\ UNCHANGED <<made, rows>>
      BY <2>3, <3>1 DEF Insert
    <3> QED BY <1>3, <3>2, <3>3
  <2>4. ASSUME NEW m \in inserting, Commit(m) PROVE <1>4!:
    BY <1>3, <2>4 DEF Commit
  <2>5. ASSUME NEW m \in inserting, InsertFails(m) PROVE <1>4!:
    BY <1>3, <2>5 DEF InsertFails
  <2>6. ASSUME NEW u \in Readers, MarkMessage(u) \/ MarkLatest(u) PROVE <1>4!:
    BY <1>3, <2>6 DEF MarkMessage, MarkLatest, Mark
  <2>7. ASSUME NEW k \in marks, Upsert(k) PROVE <1>4!:
    BY <1>3, <2>7 DEF Upsert
  <2> QED BY <2>1, <2>2, <2>3, <2>4, <2>5, <2>6, <2>7 DEF RoomMoves, RoomStep
<1>5. \A m \in rows' : m.id \in RowIds => m \in rows
  BY <1>1 DEF RowIds, RoomInv
<1> QED BY <1>1, <1>2, <1>3, <1>4, <1>5

LEMMA ScreenMoves == ASSUME [ScreenNext]_chatVars PROVE RoomMoves
<1>1. CASE Open \/ Refresh \/ SendFails \/ Leave \/ \E m \in rows : SendAnswered(m)
  BY <1>1 DEF Open, Refresh, SendFails, Leave, SendAnswered, RoomMoves
<1>2. CASE Load
  BY <1>2 DEF Load, Serve, LandInitial, LandReload, LoadFails, RoomMoves
<1>3. CASE Timer
  BY <1>3 DEF Timer, LoadEnds, Reload, RoomMoves
<1>4. CASE Send
  BY <1>4, ScreenAssumption DEF Send, RoomMoves
<1>5. CASE DevicePosts \/ ServerSteps \/ UNCHANGED chatVars
  BY <1>5 DEF DevicePosts, ServerSteps, chatVars, RoomMoves
<1> QED BY <1>1, <1>2, <1>3, <1>4, <1>5 DEF ScreenNext

(* Nothing new on the screen: the room may move, sends may end.            *)
LEMMA TwiceSame ==
  ASSUME ScreenTypeOK, RoomInv, TwiceInv, RoomMoves, UNCHANGED shown, sends' \subseteq sends
  PROVE  TwiceInv'
<1>1. /\ RoomInv' /\ rows \subseteq rows' /\ RowIds \subseteq RowIds'
      /\ made \in Nat /\ made' \in Nat /\ made <= made'
      /\ \A m \in rows' \cup inserting' :
              \/ \E n \in rows \cup inserting : n.id = m.id /\ n.from = m.from
              \/ m.id = made + 1
      /\ \A m \in rows' : m.id \in RowIds => m \in rows
  BY RoomOrigin DEF ScreenTypeOK
<1>2. \A id \in sends : id <= made /\ id \in Int
  <2>1. sends \subseteq Ids
    BY DEF ScreenTypeOK
  <2>2. Ids \subseteq Int
    BY DEF Ids
  <2>3. \A id \in sends : id <= made
    BY DEF TwiceInv
  <2> QED BY <2>1, <2>2, <2>3
<1>3. \A m \in rows' \cup inserting' : m.id \in sends' => m.from = Me
  <2> SUFFICES ASSUME NEW m \in rows' \cup inserting', m.id \in sends' PROVE m.from = Me
    OBVIOUS
  <2>1. m.id # made + 1
    BY <1>1, <1>2
  <2> QED BY <1>1, <2>1 DEF TwiceInv
<1>4. /\ ShownIds' \subseteq RowIds' /\ \A id \in sends' : id <= made'
  BY <1>1, <1>2 DEF TwiceInv, ShownIds
<1>5. ASSUME NEW i \in DOMAIN shown, NEW j \in DOMAIN shown, i # j, shown[i].id = shown[j].id
      PROVE  shown[i].id \notin sends' /\ \A m \in rows' : m.id = shown[i].id => m.from = Me
  <2>1. shown[i].id \in RowIds
    BY DEF TwiceInv, ShownIds
  <2> QED BY <1>1, <1>5, <2>1 DEF TwiceInv
<1>6. \A i, j, k \in DOMAIN shown :
        shown[i].id = shown[j].id /\ shown[j].id = shown[k].id => i = j \/ j = k \/ i = k
  BY DEF TwiceInv
<1> QED BY <1>3, <1>4, <1>5, <1>6 DEF TwiceInv

(* More is shown, in an unchanged room: none of it twice, and what was     *)
(* there before is an own message whose send is answered.                  *)
LEMMA TwiceMore ==
  ASSUME ScreenTypeOK, TwiceInv, UNCHANGED <<rows, inserting, made>>,
         NEW more \in Seq([id : Ids, seq : Nat]), shown' = shown \o more, Distinct(more),
         IdsOf(more) \subseteq RowIds, sends' \subseteq sends,
         \A id \in IdsOf(more) \cap ShownIds :
           /\ id \notin sends' /\ \A m \in rows : m.id = id => m.from = Me
           /\ \A i, j \in DOMAIN shown : shown[i].id = id /\ shown[j].id = id => i = j
  PROVE  TwiceInv'
<1> DEFINE n == Len(shown)
<1>1. /\ ShownIds' = ShownIds \cup IdsOf(more)
      /\ \A i \in DOMAIN shown' :
           \/ i \in DOMAIN shown /\ shown'[i] = shown[i]
           \/ \E j \in DOMAIN more : i = n + j /\ shown'[i] = more[j]
  <2>1. PICK E : E = [id : Ids, seq : Nat]
    OBVIOUS
  <2>2. shown \in Seq(E) /\ more \in Seq(E)
    BY <2>1 DEF ScreenTypeOK
  <2> QED BY <2>2, MoreShown
<1>2. DOMAIN shown = 1 .. n /\ n \in Nat /\ DOMAIN more = 1 .. Len(more)
  BY DEF ScreenTypeOK
<1>3. /\ ShownIds' \subseteq RowIds' /\ \A id \in sends' : id <= made'
      /\ \A m \in rows' \cup inserting' : m.id \in sends' => m.from = Me
  BY <1>1 DEF TwiceInv, RowIds
<1> DEFINE old == {i \in DOMAIN shown' : i \in DOMAIN shown /\ shown'[i] = shown[i]}
           mine(id) == id \notin sends' /\ \A m \in rows : m.id = id => m.from = Me
<1>4. ASSUME NEW i \in DOMAIN shown', NEW j \in DOMAIN shown', i \notin old, j \notin old,
             shown'[i].id = shown'[j].id
      PROVE  i = j
  <2>1. PICK a \in DOMAIN more : i = n + a /\ shown'[i] = more[a]
    BY <1>1, <1>4
  <2>2. PICK b \in DOMAIN more : j = n + b /\ shown'[j] = more[b]
    BY <1>1, <1>4
  <2>3. a = b
    BY <1>4, <2>1, <2>2 DEF Distinct
  <2> QED BY <2>1, <2>2, <2>3
<1>5. ASSUME NEW i \in old, NEW j \in DOMAIN shown', j \notin old, shown'[i].id = shown'[j].id
      PROVE  /\ shown'[i].id \in IdsOf(more) \cap ShownIds
             /\ mine(shown'[i].id)
             /\ \A k \in old : shown'[k].id = shown'[i].id => k = i
  <2>1. PICK b \in DOMAIN more : j = n + b /\ shown'[j] = more[b]
    BY <1>1, <1>5
  <2>2. \A k \in old : k \in DOMAIN shown /\ shown'[k] = shown[k]
    OBVIOUS
  <2>3. shown'[i].id \in IdsOf(more) \cap ShownIds
    BY <1>5, <2>1, <2>2 DEF IdsOf, ShownIds
  <2>4. mine(shown'[i].id)
    BY <2>3, Zenon
  <2>5. \A k \in old : shown'[k].id = shown'[i].id => k = i
    <3> HIDE DEF old
    <3> QED BY <2>2, <2>3
  <2> QED BY <2>3, <2>4, <2>5
<1>6. ASSUME NEW i \in old, NEW j \in old, i # j, shown'[i].id = shown'[j].id
      PROVE  mine(shown'[i].id)
  <2>1. /\ i \in DOMAIN shown /\ shown'[i] = shown[i]
        /\ j \in DOMAIN shown /\ shown'[j] = shown[j]
    OBVIOUS
  <2>2. shown[i].id \notin sends /\ \A m \in rows : m.id = shown[i].id => m.from = Me
    BY <1>6, <2>1, Zenon DEF TwiceInv
  <2> QED BY <2>1, <2>2
<1>7. \A i, j, k \in old :
        shown'[i].id = shown'[j].id /\ shown'[j].id = shown'[k].id => i = j \/ j = k \/ i = k
  <2>1. \A i \in old : i \in DOMAIN shown /\ shown'[i] = shown[i]
    OBVIOUS
  <2>2. \A i, j, k \in DOMAIN shown :
          shown[i].id = shown[j].id /\ shown[j].id = shown[k].id => i = j \/ j = k \/ i = k
    BY DEF TwiceInv
  <2> HIDE DEF old
  <2> QED BY <2>1, <2>2
<1> HIDE DEF old, mine
<1>8. \A i, j \in DOMAIN shown' : i # j /\ shown'[i].id = shown'[j].id => mine(shown'[i].id)
  BY <1>4, <1>5, <1>6
<1>9. \A i, j, k \in DOMAIN shown' :
        shown'[i].id = shown'[j].id /\ shown'[j].id = shown'[k].id => i = j \/ j = k \/ i = k
  <2> TAKE i, j, k \in DOMAIN shown'
  <2> HAVE shown'[i].id = shown'[j].id /\ shown'[j].id = shown'[k].id
  <2>1. CASE i \in old /\ j \in old /\ k \in old
    BY <1>7, <2>1
  <2>2. CASE i \in old /\ j \in old /\ k \notin old
    BY <1>5, <2>2
  <2>3. CASE i \in old /\ j \notin old /\ k \in old
    BY <1>5, <2>3
  <2>4. CASE i \notin old /\ j \in old /\ k \in old
    BY <1>5, <2>4
  <2> QED BY <1>4, <2>1, <2>2, <2>3, <2>4
<1> QED BY <1>3, <1>8, <1>9 DEF TwiceInv, mine

LEMMA TwiceKept ==
  ASSUME FieldsInv, RoomInv, TwiceInv, req # None => LoadInv(req), [ScreenNext]_chatVars
  PROVE  TwiceInv'
<1> DEFINE E == [id : Ids, seq : Nat]
<1>1. /\ ScreenTypeOK /\ RoomMoves /\ ShownIds \subseteq RowIds
      /\ shown \in Seq(E) /\ ids = ShownIds
  BY ScreenMoves DEF FieldsInv, ScreenTypeOK, TwiceInv
<1>2. ASSUME UNCHANGED shown, sends' \subseteq sends PROVE TwiceInv'
  BY <1>1, <1>2, TwiceSame
<1>3. CASE Open \/ Refresh \/ Serve \/ LoadFails \/ LoadEnds \/ SendFails \/ Reload
           \/ DevicePosts \/ ServerSteps \/ UNCHANGED chatVars
  BY <1>2, <1>3 DEF Open, Refresh, Serve, LoadFails, LoadEnds, SendFails, Reload,
                    DevicePosts, ServerSteps, chatVars, screenVars
<1>4. CASE LandInitial
  <2>1. /\ shown' = req.list /\ UNCHANGED <<rows, inserting, made, sends>>
        /\ req # None /\ LoadInv(req)
    BY <1>4 DEF LandInitial, Answered, Replace, roomVars
  <2>2. ShownIds' \subseteq RowIds'
    BY <2>1 DEF LoadInv, ShownIds, IdsOf, RowIds
  <2>3. \A i, j \in DOMAIN shown' : shown'[i].id = shown'[j].id => i = j
    BY <2>1 DEF LoadInv, Distinct
  <2>4. /\ \A id \in sends' : id <= made'
        /\ \A m \in rows' \cup inserting' : m.id \in sends' => m.from = Me
    BY <2>1 DEF TwiceInv
  <2> QED BY <2>2, <2>3, <2>4 DEF TwiceInv
<1>5. CASE LandReload
  <2>1. PICK more : more = NewOnes(req.list)
    OBVIOUS
  <2>2. /\ req \in ScreenRequests /\ LoadInv(req)
        /\ shown' = shown \o more /\ UNCHANGED <<rows, inserting, made, sends>>
    BY <1>5, <2>1 DEF LandReload, Answered, FieldsInv, roomVars
  <2>3. req.list \in Seq(E) /\ Distinct(req.list) /\ IdsOf(req.list) \subseteq RowIds
    BY <2>2 DEF ScreenRequests, LoadInv
  <2>4. more \in Seq(E) /\ Distinct(more) /\ IdsOf(more) = IdsOf(req.list) \ ShownIds
    BY <1>1, <2>1, <2>3, NewOnesProps
  <2>5. IdsOf(more) \cap ShownIds = {} /\ IdsOf(more) \subseteq RowIds
    BY <2>3, <2>4
  <2> QED BY <1>1, <2>2, <2>4, <2>5, TwiceMore
<1>6. CASE Send
  <2>1. /\ Post(Me) /\ sends' = sends \cup {made'} /\ made' = made + 1 /\ UNCHANGED <<shown, rows>>
        /\ \E x : x.id = made + 1 /\ x.from = Me /\ inserting' = inserting \cup {x}
    BY <1>6 DEF Send, Post
  <2>2. \A m \in rows \cup inserting : m.id <= made /\ m.id \in Nat
    BY <1>1 DEF RoomInv, ScreenTypeOK, RoomTypeOK, Messages, Ids
  <2>3. made \in Nat /\ \A id \in RowIds : id <= made /\ id \in Nat
    BY <1>1, <2>2, ChatAssumption DEF RowIds, ScreenTypeOK, RoomTypeOK
  <2>4. \A id \in sends' : id <= made'
    BY <1>1, <2>1, <2>3 DEF TwiceInv, ScreenTypeOK, Ids
  <2>5. \A m \in rows' \cup inserting' : m.id \in sends' => m.from = Me
    BY <2>1, <2>2, <2>3 DEF TwiceInv
  <2>6. ASSUME NEW i \in DOMAIN shown, NEW j \in DOMAIN shown, i # j, shown[i].id = shown[j].id
        PROVE  shown[i].id \notin sends' /\ \A m \in rows : m.id = shown[i].id => m.from = Me
    <3>1. shown[i].id \in RowIds
      BY <1>1 DEF ShownIds
    <3> QED BY <2>1, <2>3, <2>6, <3>1 DEF TwiceInv
  <2>7. ShownIds' \subseteq RowIds'
    BY <1>1, <2>1 DEF ShownIds, RowIds
  <2>8. \A i, j, k \in DOMAIN shown :
          shown[i].id = shown[j].id /\ shown[j].id = shown[k].id => i = j \/ j = k \/ i = k
    BY DEF TwiceInv
  <2> QED BY <2>1, <2>4, <2>5, <2>6, <2>7, <2>8 DEF TwiceInv
<1>7. ASSUME NEW m \in rows, SendAnswered(m) PROVE TwiceInv'
  <2>1. PICK x : x = [id |-> m.id, seq |-> SeqFromDate(m.id)]
    OBVIOUS
  <2>2. PICK more : more = <<x>>
    OBVIOUS
  <2>3. /\ m.id \in sends /\ sends' = sends \ {m.id} /\ m.from = Me
        /\ shown' = Append(shown, x) /\ UNCHANGED <<rows, inserting, made>>
    BY <1>7, <2>1 DEF SendAnswered, roomVars, TwiceInv
  <2>4. x \in E /\ x.id = m.id
    BY <1>1, <2>1, ChatAssumption DEF SeqFromDate, Ids, ScreenTypeOK, RoomTypeOK, Messages
  <2>5. /\ more \in Seq(E) /\ shown' = shown \o more
        /\ DOMAIN more = {1} /\ more[1] = x
    BY <1>1, <2>2, <2>3, <2>4
  <2>6. Distinct(more) /\ IdsOf(more) = {m.id}
    BY <2>4, <2>5 DEF Distinct, IdsOf
  <2>7. \A n \in rows : n.id = m.id => n.from = Me
    BY <2>3 DEF TwiceInv
  <2>8. \A i, j \in DOMAIN shown : shown[i].id = m.id /\ shown[j].id = m.id => i = j
    BY <2>3 DEF TwiceInv
  <2>9. m.id \in RowIds
    BY DEF RowIds
  <2> QED BY <1>1, <2>3, <2>5, <2>6, <2>7, <2>8, <2>9, TwiceMore
<1>8. CASE Leave
  <2>1. DOMAIN shown' = {} /\ sends' = {}
    BY <1>8 DEF Leave
  <2> QED BY <2>1 DEF TwiceInv, ShownIds
<1> QED BY <1>3, <1>4, <1>5, <1>6, <1>7, <1>8 DEF ScreenNext, Load, Timer

(* The load in flight.                                                     *)
LEMMA LoadKept ==
  ASSUME FieldsInv, RoomInv, TwiceInv, req # None => LoadInv(req), [ScreenNext]_chatVars,
         req' # None
  PROVE  LoadInv(req)'
<1>1. RowIds \subseteq RowIds' /\ ShownIds \subseteq RowIds
  BY RoomOrigin, ScreenMoves DEF FieldsInv, ScreenTypeOK, TwiceInv
<1>2. CASE req' = req
  BY <1>1, <1>2 DEF LoadInv, IdsOf, Distinct, KeptOrOlder
<1>3. ASSUME NEW kind \in {"initial", "reload"}, NEW since \in Nat, Request(kind, since),
             kind = "initial" => since = 0
      PROVE  LoadInv(req)'
  <2>1. /\ req'.kind = kind /\ req'.since = since /\ ~req'.answered
        /\ req'.had = ShownIds /\ req'.list = <<>>
    BY <1>3, RequestProps
  <2> QED BY <1>1, <1>3, <2>1 DEF LoadInv, IdsOf, Distinct
<1>4. CASE Open \/ Refresh
  BY <1>3, <1>4 DEF Open, Refresh
<1>5. CASE Reload /\ req' # req
  BY <1>3, <1>5, LastSeqType DEF Reload
<1>6. CASE Serve
  <2>1. /\ req \in ScreenRequests /\ req # None
        /\ req'.kind = req.kind /\ req'.since = req.since /\ req'.had = req.had
        /\ req'.answered /\ req'.list = ListedRows(req.since)
    BY <1>6, AnsweredProps DEF Serve
  <2>2. req.since \in Nat /\ LoadInv(req)
    BY <2>1 DEF ScreenRequests
  <2>3. /\ Distinct(req'.list) /\ IdsOf(req'.list) \subseteq RowIds
        /\ req.since = 0 => \A id \in RowIds : KeptOrOlder(id, req'.list)
    BY <2>1, <2>2, ServeProps DEF FieldsInv, ScreenTypeOK
  <2>4. \A id \in RowIds : KeptOrOlder(id, req'.list) => KeptOrOlder(id, req.list)'
    BY DEF KeptOrOlder, IdsOf
  <2> QED BY <1>1, <2>1, <2>2, <2>3, <2>4 DEF LoadInv, Distinct, IdsOf
<1>7. CASE LandInitial \/ LandReload \/ LoadFails \/ Leave
  BY <1>7 DEF LandInitial, LandReload, LoadFails, Leave
<1>8. CASE LoadEnds \/ Send \/ SendFails \/ DevicePosts \/ ServerSteps \/ UNCHANGED chatVars
           \/ \E m \in rows : SendAnswered(m)
  BY <1>2, <1>8 DEF LoadEnds, Send, SendFails, DevicePosts, ServerSteps, chatVars, screenVars,
                    SendAnswered
<1> QED BY <1>2, <1>4, <1>5, <1>6, <1>7, <1>8 DEF ScreenNext, Load, Timer

(* The quiet load.                                                         *)
LEMMA CalmKept ==
  ASSUME FieldsInv, RoomInv, req # None => LoadInv(req), CalmInv, [ScreenNext]_chatVars
  PROVE  CalmInv'
<1>1. rows' = rows => NewestRows' = NewestRows
  BY DEF NewestRows, Newest, InOrder, Older, Row
<1>2. CASE Open \/ Refresh
  <2>1. req' # None /\ req'.kind = "initial" /\ ~req'.answered
    BY <1>2, RequestProps DEF Open, Refresh
  <2> QED BY <2>1 DEF CalmInv
<1>3. CASE Serve
  <2>1. /\ req \in ScreenRequests /\ req # None /\ req' # None
        /\ req'.kind = req.kind /\ req'.list = ListedRows(req.since)
    BY <1>3, AnsweredProps DEF Serve
  <2>2. req.kind = "initial" => req.since = 0
    BY <2>1 DEF LoadInv
  <2>3. req.since = 0 => req'.list = NewestRows
    BY <2>1, ServeProps DEF FieldsInv, ScreenTypeOK
  <2>4. NewestRows' = NewestRows /\ calm' = calm
    BY <1>1, <1>3 DEF Serve, roomVars
  <2> QED BY <2>1, <2>2, <2>3, <2>4 DEF CalmInv
<1>4. CASE LandInitial
  BY <1>1, <1>4 DEF LandInitial, Answered, Replace, roomVars, CalmInv
<1>5. CASE LandReload \/ LoadFails \/ Send \/ SendFails \/ Leave \/ \E m \in rows : SendAnswered(m)
  BY <1>5 DEF LandReload, LoadFails, Send, SendFails, Leave, SendAnswered, CalmInv
<1>6. CASE LoadEnds \/ UNCHANGED chatVars
  BY <1>1, <1>6 DEF LoadEnds, chatVars, screenVars, roomVars, CalmInv
<1>7. CASE Reload
  <2>1. UNCHANGED <<rows, shown>> /\ (UNCHANGED <<req, calm>> \/ calm' = FALSE)
    BY <1>7 DEF Reload, roomVars
  <2> QED BY <1>1, <2>1 DEF CalmInv
<1>8. CASE DevicePosts \/ ServerSteps
  <2>1. UNCHANGED <<shown, req>> /\ (calm' => calm /\ rows' = rows)
    <3>1. CASE DevicePosts
      <4>1. rows' = rows /\ UNCHANGED <<shown, req, calm>>
        BY <3>1 DEF DevicePosts, Post, screenVars
      <4> QED BY <4>1, Zenon
    <3>2. CASE ServerSteps
      BY <3>2, Zenon DEF ServerSteps
    <3> QED BY <1>8, <3>1, <3>2
  <2> QED BY <1>1, <2>1 DEF CalmInv
<1> QED BY <1>2, <1>3, <1>4, <1>5, <1>6, <1>7, <1>8 DEF ScreenNext, Load, Timer

-----------------------------------------------------------------------------
LEMMA ScreenInitInv == ScreenInit => ScreenInv
<1> SUFFICES ASSUME ScreenInit PROVE ScreenInv
  OBVIOUS
<1>1. RoomTypeOK
  BY ChatAssumption DEF ScreenInit, RoomInit, RoomTypeOK
<1>2. RoomInv
  <2>1. Undrawn = {}
    BY DEF ScreenInit, RoomInit, Undrawn
  <2> QED BY <2>1, FS_EmptySet DEF ScreenInit, RoomInit, RoomInv
<1>3. /\ shown = <<>> /\ ids = {} /\ req = None /\ sends = {} /\ timers = <<>>
      /\ DOMAIN shown = {} /\ DOMAIN timers = {}
  BY DEF ScreenInit
<1>4. /\ shown \in Seq([id : Ids, seq : Nat]) /\ timers \in Seq({Loaded, "sent"})
  BY <1>3, EmptySeq
<1>5. mounted \in BOOLEAN /\ screenFetching \in BOOLEAN
  BY Zenon DEF ScreenInit
<1>6. FieldsInv
  BY <1>1, <1>3, <1>4, <1>5 DEF FieldsInv, ScreenTypeOK, ShownIds
<1>7. TwiceInv
  BY <1>3 DEF TwiceInv, ShownIds
<1>8. CalmInv
  BY Zenon DEF ScreenInit, CalmInv
<1> QED BY <1>2, <1>3, <1>6, <1>7, <1>8 DEF ScreenInv

LEMMA ScreenNextInv == ScreenInv /\ [ScreenNext]_chatVars => ScreenInv'
<1> SUFFICES ASSUME ScreenInv, [ScreenNext]_chatVars PROVE ScreenInv'
  OBVIOUS
<1>1. FieldsInv /\ RoomInv /\ TwiceInv /\ (req # None => LoadInv(req)) /\ CalmInv
  BY DEF ScreenInv
<1>2. RoomTypeOK' /\ RoomInv'
  BY <1>1, ScreenMoves, RoomOrigin DEF FieldsInv, ScreenTypeOK
<1>3. FieldsInv'
  BY <1>1, <1>2, FieldsKept
<1>4. TwiceInv'
  BY <1>1, TwiceKept
<1>5. (req # None => LoadInv(req))'
  BY <1>1, LoadKept
<1>6. CalmInv'
  BY <1>1, CalmKept
<1> QED BY <1>2, <1>3, <1>4, <1>5, <1>6 DEF ScreenInv

(* Every reachable state of the screen has the inductive invariant.        *)
LEMMA ScreenInvariant == ScreenSpec => []ScreenInv
BY ScreenInitInv, ScreenNextInv, PTL DEF ScreenSpec

(* The screen's fields have their types, its set of ids is that of the     *)
(* messages it shows, and a load in flight keeps others from it            *)
(* (friend_chat_screen.dart:60-258).                                       *)
THEOREM ScreenTypeCorrect == ScreenSpec => []ScreenTypeOK
<1>1. ScreenInv => ScreenTypeOK
  BY DEF ScreenInv, FieldsInv
<1> QED BY <1>1, ScreenInvariant, PTL

(* However loads, sends and their answers overlap, and for any number of   *)
(* messages and any length of a load, a message of someone else is on the  *)
(* screen at most once, one's own at most twice (_send and _reload).       *)
THEOREM OthersOnce == ScreenSpec => []OthersShownOnce
<1>1. ASSUME ScreenInv PROVE OthersShownOnce
  <2> SUFFICES ASSUME NEW m \in rows
               PROVE  Cardinality(Places(shown, m.id)) <= IF m.from = Me THEN 2 ELSE 1
    BY DEF OthersShownOnce, Places
  <2>1. \A i, j \in Places(shown, m.id) : i # j => m.from = Me
    BY <1>1 DEF ScreenInv, TwiceInv, Places
  <2>2. \A i, j, k \in Places(shown, m.id) : i = j \/ j = k \/ i = k
    BY <1>1 DEF ScreenInv, TwiceInv, Places
  <2> DEFINE P == Places(shown, m.id)
  <2> HIDE DEF P
  <2>3. CASE P = {}
    BY <2>3, FS_EmptySet DEF P
  <2>4. ASSUME NEW i \in P, P = {i} PROVE Cardinality(P) <= IF m.from = Me THEN 2 ELSE 1
    <3>1. Cardinality({i}) = 1
      BY FS_Singleton
    <3> QED BY <2>4, <3>1
  <2>5. ASSUME NEW i \in P, NEW j \in P, i # j PROVE Cardinality(P) <= IF m.from = Me THEN 2 ELSE 1
    <3>1. P = {i} \cup {j} /\ m.from = Me
      BY <2>1, <2>2, <2>5 DEF P
    <3>2. IsFiniteSet({i}) /\ Cardinality({i}) = 1
      BY FS_Singleton
    <3>3. Cardinality({i} \cup {j}) <= 2
      BY <3>2, FS_AddElement
    <3> QED BY <3>1, <3>3
  <2>6. P = {} \/ (\E i \in P : P = {i}) \/ (\E i, j \in P : i # j)
    OBVIOUS
  <2> QED BY <2>3, <2>4, <2>5, <2>6 DEF P
<1> QED BY <1>1, ScreenInvariant, PTL

(* One quiet load repairs whatever overlapping sends and loads left on the *)
(* screen: it then shows exactly the newest messages (_loadInitial).       *)
THEOREM QuietRefreshHeals == ScreenSpec => []RefreshHeals
<1>1. ScreenInv => RefreshHeals
  BY DEF ScreenInv, CalmInv, RefreshHeals, NewestRows
<1> QED BY <1>1, ScreenInvariant, PTL

(* A refresh loses no message that was shown when it was asked for, unless *)
(* a full load of newer ones took its place (_loadInitial).                *)
THEOREM RefreshKeepsOld == ScreenSpec => RefreshKeeps
<1>1. ASSUME ScreenInv, LandInitial
      PROVE  \A id \in req.had :
               \/ id \in ids'
               \/ Cardinality(ids') = FetchLimit /\ \A other \in ids' : other > id
  BY <1>1 DEF ScreenInv, LoadInv, LandInitial, Answered, Replace, KeptOrOlder
<1> QED BY <1>1, ScreenInvariant, PTL DEF RefreshKeeps, ScreenSpec

(* Read marks of any number of clients overlap in any order: what someone  *)
(* has read is never unread again (markReadTo's upsert of the later one).  *)
THEOREM ReadNeverUnread == ScreenSpec => ReadStaysRead
<1> DEFINE Kept == \A u \in Readers, m \in rows : Read(u, m) => Read(u, m)'
<1>1. ASSUME ScreenInv, [ScreenNext]_chatVars PROVE Kept
  <2>1. cursor \in [Readers -> Seqs \cup {0}] /\ marks \subseteq [user : Readers, seq : Seqs]
        /\ \A m \in rows : m.seq \in Int
    BY <1>1 DEF ScreenInv, FieldsInv, ScreenTypeOK, RoomTypeOK, Messages, Seqs
  <2>2. CASE cursor' = cursor
    BY <2>2 DEF Read
  <2>3. ASSUME NEW k \in marks, Upsert(k) PROVE Kept
    <3>1. \A u \in Readers : cursor[u] \in Int /\ cursor'[u] \in Int /\ cursor'[u] >= cursor[u]
      BY <2>1, <2>3 DEF Upsert, Seqs
    <3> QED BY <2>1, <3>1 DEF Read
  <2>4. cursor' = cursor \/ \E k \in marks : Upsert(k)
    <3>1. RoomMoves
      BY <1>1, ScreenMoves
    <3> QED BY <3>1 DEF RoomMoves, roomVars, Post, RoomStep, Insert, Commit, InsertFails,
                        MarkMessage, MarkLatest, Mark
  <2> QED BY <2>2, <2>3, <2>4
<1> QED BY <1>1, ScreenInvariant, PTL DEF ReadStaysRead, ScreenSpec

-----------------------------------------------------------------------------
(* How many products the listing of the walk has before i, and how many of *)
(* its places the walk has asked for.                                      *)
Ahead(i) == Cardinality({j \in Listed(products) : Before(walk.by, walk.order, j, i)})
AskedFor == Skipped(walk.page, walk.limit) + (IF walk.pc = "rows" THEN 0 ELSE walk.limit)

WalkTypes == [pc : {"idle", "rows", "count", "done"}, page : Nat \ {0}, pages : Nat \ {0},
              limit : Nat \ {0}, by : SortColumns, order : {"ASC", "DESC"},
              shown : Seq(ProductIds), start : SUBSET ProductIds,
              shrunk : BOOLEAN, grown : BOOLEAN, moved : BOOLEAN]

(* What an update holds: the row as it was read, with what it was given,   *)
(* or the columns of it that differed; as long as nobody wrote the row,    *)
(* that is the row as it stands.  No write changes createdAt.              *)
SavingInv(me, untouched) ==
  LET row == products[me.id] IN
  /\ me.id \in ProductIds /\ row # NoValue
  /\ me.op = "update" \/ (me.op = "remove" /\ me.pc = "write")
  /\ me.op = "update" =>
       /\ me.given \in Givens
       /\ "at" \in DOMAIN me.entity => me.entity["at"] = row.at
       /\ me.pc = "load" => me.entity \in Rows
       /\ me.pc = "write" => me.entity \in Entities
       /\ untouched /\ me.pc = "load" => me.entity = Merge(row, me.given)
       /\ untouched /\ me.pc = "write" => Over(me.entity, row) = Merge(row, me.given)

(* What a walk has shown: of what was listed at its start, all but the     *)
(* places it has not asked for; nothing twice, and nothing beyond them.    *)
WalkInv ==
  /\ walk.moved => walk.by = "title"
  /\ walk.pc \in {"rows", "count"} =>
       /\ ~walk.shrunk /\ ~walk.moved =>
            /\ walk.start \subseteq Listed(products)
            /\ \A i \in walk.start : i \in Range(walk.shown) \/ Ahead(i) >= AskedFor
       /\ ~walk.grown /\ ~walk.moved =>
            /\ IsInjective(walk.shown)
            /\ \A i \in Range(walk.shown) \cap Listed(products) : Ahead(i) < AskedFor

ProductsInv ==
  /\ ProductsTypeOK /\ walk \in WalkTypes
  /\ \A c \in Calls : call[c].pc # "idle" => SavingInv(call[c], clean[c])
  /\ WalkInv /\ WalkShowsAll

SavingOf(c) == call[c].pc # "idle" => SavingInv(call[c], clean[c])

CallRecords == [pc : {"idle", "load", "write"}, op : {"none", "update", "remove"},
                id : ProductIds \cup {NoValue}, given : Givens \cup {NoValue},
                entity : Entities \cup {NoValue}]

-----------------------------------------------------------------------------
(* Rows, and the columns of them that a save writes.                       *)
LEMMA RowColumns ==
  ASSUME NEW r \in Rows
  PROVE  /\ r # NoValue /\ DOMAIN r = Columns /\ r = [f \in Columns |-> r[f]]
         /\ r["status"] \in Status /\ r["title"] \in Titles
         /\ r["deleted"] \in BOOLEAN /\ r["at"] \in 0..MaxTime
         /\ r \in Entities
<1>1. /\ DOMAIN r = Columns /\ r = [f \in Columns |-> r[f]]
      /\ r["status"] \in Status /\ r["title"] \in Titles
      /\ r["deleted"] \in BOOLEAN /\ r["at"] \in 0..MaxTime
  BY DEF Rows, Columns
<1>2. r = Restrict(r, Columns)
  BY <1>1 DEF Restrict
<1>3. r \in Entities
  BY <1>2 DEF Entities
<1> QED BY <1>1, <1>3, ProductsAssumption

LEMMA ColumnsRow ==
  ASSUME NEW r, r = [f \in Columns |-> r[f]], r["status"] \in Status, r["title"] \in Titles,
         r["deleted"] \in BOOLEAN, r["at"] \in 0..MaxTime
  PROVE  r \in Rows
BY DEF Rows, Columns

(* Columns of a row, written over another row, make a row.                 *)
LEMMA OverIsRow ==
  ASSUME NEW e \in Entities, NEW r \in Rows
  PROVE  /\ Over(e, r) \in Rows
         /\ "at" \in DOMAIN e => Over(e, r).at = e["at"]
         /\ "at" \notin DOMAIN e => Over(e, r).at = r.at
<1>1. PICK s \in Rows, D \in SUBSET Columns : e = Restrict(s, D)
  BY DEF Entities
<1>2. DOMAIN e = D /\ \A f \in D : e[f] = s[f]
  BY <1>1 DEF Restrict
<1>3. Over(e, r) = [f \in Columns |-> IF f \in D THEN s[f] ELSE r[f]]
  BY <1>2 DEF Over
<1>4. \A f \in Columns : Over(e, r)[f] \in {s[f], r[f]}
  BY <1>3
<1>5. Over(e, r) \in Rows
  BY <1>3, <1>4, RowColumns, ColumnsRow DEF Columns
<1>6. Over(e, r)["at"] = IF "at" \in D THEN e["at"] ELSE r["at"]
  BY <1>2, <1>3 DEF Columns
<1> QED BY <1>2, <1>5, <1>6

(* The columns in which an entity differs turn the row into the entity.    *)
LEMMA DifferenceWritten ==
  ASSUME NEW e \in Rows, NEW r \in Rows
  PROVE  /\ Restrict(e, Differing(e, r)) \in Entities
         /\ Over(Restrict(e, Differing(e, r)), r) = e
         /\ \A f \in DOMAIN Restrict(e, Differing(e, r)) :
              Restrict(e, Differing(e, r))[f] = e[f]
<1>1. Differing(e, r) \in SUBSET Columns
  BY DEF Differing
<1>2. \A f \in Columns : Over(Restrict(e, Differing(e, r)), r)[f] = e[f]
  BY DEF Over, Restrict, Differing
<1>3. e = [f \in Columns |-> e[f]]
  BY RowColumns
<1>4. Over(Restrict(e, Differing(e, r)), r) = [f \in Columns |-> e[f]]
  BY <1>2 DEF Over
<1>5. \A f \in DOMAIN Restrict(e, Differing(e, r)) : Restrict(e, Differing(e, r))[f] = e[f]
  BY DEF Restrict
<1> QED BY <1>1, <1>3, <1>4, <1>5 DEF Entities

LEMMA MergeIsRow ==
  ASSUME NEW r \in Rows, NEW given \in Givens
  PROVE  Merge(r, given) \in Rows /\ Merge(r, given).at = r.at
<1>1. PICK s \in Rows, D \in SUBSET {"status", "title"} : given = Restrict(s, D)
  BY DEF Givens
<1>2. D \in SUBSET Columns
  BY DEF Columns
<1>3. given \in Entities
  BY <1>1, <1>2 DEF Entities
<1>4. "at" \notin DOMAIN given
  BY <1>1 DEF Restrict
<1> QED BY <1>3, <1>4, OverIsRow DEF Merge

-----------------------------------------------------------------------------
(* The order of the listing                                                *)
OrderOf(by, order) ==
  {p \in Listed(products) \X Listed(products) : Before(by, order, p[1], p[2])}
Earlier(by, order, i) == {j \in Listed(products) : Before(by, order, j, i)}

LEMMA ListedFinite ==
  ASSUME products \in [ProductIds -> Rows \cup {NoValue}]
  PROVE  /\ Listed(products) \in SUBSET ProductIds /\ IsFiniteSet(Listed(products))
         /\ Cardinality(Listed(products)) \in Nat
         /\ \A i \in ProductIds : products[i] # NoValue => products[i] \in Rows
         /\ \A i \in Listed(products) : products[i] # NoValue
<1>1. Listed(products) \in SUBSET ProductIds
  BY DEF Listed
<1>2. IsFiniteSet(Listed(products))
  BY <1>1, FS_Subset, ProductsAssumption
<1> QED BY <1>1, <1>2, FS_CardinalityType DEF Listed

LEMMA ListingOrder ==
  ASSUME products \in [ProductIds -> Rows \cup {NoValue}], NEW by \in SortColumns, NEW order
  PROVE  StrictOrder(Listed(products), OrderOf(by, order))
<1>1. \A i \in Listed(products) : i \in Nat /\ products[i][by] \in Nat
  BY ListedFinite, RowColumns, ProductsAssumption DEF SortColumns
<1>2. \A i, j \in Listed(products) : <<i, j>> \in OrderOf(by, order) <=> Before(by, order, i, j)
  BY DEF OrderOf
<1>3. \A i \in Listed(products) : ~Before(by, order, i, i)
  BY <1>1 DEF Before
<1>4. \A i, j \in Listed(products) : i = j \/ Before(by, order, i, j) \/ Before(by, order, j, i)
  BY <1>1 DEF Before
<1>5. \A i, j, k \in Listed(products) :
        Before(by, order, i, j) /\ Before(by, order, j, k) => Before(by, order, i, k)
  BY <1>1 DEF Before
<1> QED BY <1>2, <1>3, <1>4, <1>5 DEF StrictOrder

(* A listed product stands in the listing after those before it.           *)
LEMMA ListingProps ==
  ASSUME products \in [ProductIds -> Rows \cup {NoValue}], NEW by \in SortColumns, NEW order
  PROVE  /\ Listing(by, order) \in Seq(Listed(products))
         /\ Len(Listing(by, order)) = Cardinality(Listed(products))
         /\ \A k \in 1 .. Len(Listing(by, order)) :
              Cardinality(Earlier(by, order, Listing(by, order)[k])) = k - 1
         /\ \A i \in Listed(products) :
              /\ Cardinality(Earlier(by, order, i)) \in 0 .. Cardinality(Listed(products)) - 1
              /\ Listing(by, order)[Cardinality(Earlier(by, order, i)) + 1] = i
<1> DEFINE S == Listed(products)
           R == OrderOf(by, order)
<1>1. IsFiniteSet(S) /\ StrictOrder(S, R) /\ Cardinality(S) \in Nat
  BY ListedFinite, ListingOrder
<1>2. \A i \in S : Below(S, R, i) = Earlier(by, order, i)
  BY DEF Below, OrderOf, Earlier
<1>3. \A i \in S : Rank(S, R, i) = Cardinality(Earlier(by, order, i))
  BY <1>2 DEF Rank
<1> DEFINE mine(k) == CHOOSE i \in S : Cardinality(Earlier(by, order, i)) = k - 1
           its(k) == CHOOSE i \in S : Rank(S, R, i) = k - 1
<1>4. \A k : mine(k) = its(k)
  <2> HIDE DEF S, R
  <2> QED BY <1>3
<1>5. Listing(by, order) = Ranked(S, R)
  <2>1. /\ Listing(by, order) = [k \in 1 .. Cardinality(S) |-> mine(k)]
        /\ Ranked(S, R) = [k \in 1 .. Cardinality(S) |-> its(k)]
    BY Zenon DEF Listing, Ranked, Earlier
  <2> HIDE DEF mine, its, S
  <2>2. [k \in 1 .. Cardinality(S) |-> mine(k)] = [k \in 1 .. Cardinality(S) |-> its(k)]
    BY <1>4
  <2> QED BY <2>1, <2>2, Zenon
<1> HIDE DEF S, R
<1>6. /\ Ranked(S, R) \in Seq(S) /\ Len(Ranked(S, R)) = Cardinality(S)
      /\ \A k \in 1 .. Len(Ranked(S, R)) : Rank(S, R, Ranked(S, R)[k]) = k - 1
      /\ \A i \in S : \E k \in 1 .. Len(Ranked(S, R)) : Ranked(S, R)[k] = i
  BY <1>1, RankedProps
<1>7. PICK L : L = Ranked(S, R)
  OBVIOUS
<1>8. /\ L \in Seq(S) /\ Len(L) = Cardinality(S)
      /\ \A k \in 1 .. Len(L) : Cardinality(Earlier(by, order, L[k])) = k - 1
      /\ \A i \in S : \E k \in 1 .. Len(L) : L[k] = i
  <2>1. /\ L \in Seq(S) /\ Len(L) = Cardinality(S)
        /\ \A k \in 1 .. Len(L) : Rank(S, R, L[k]) = k - 1
        /\ \A i \in S : \E k \in 1 .. Len(L) : L[k] = i
    BY <1>6, <1>7, Zenon
  <2>2. \A k \in 1 .. Len(L) : L[k] \in S
    BY <2>1
  <2>3. \A k \in 1 .. Len(L) : Cardinality(Earlier(by, order, L[k])) = k - 1
    BY <1>3, <2>1, <2>2
  <2> QED BY <2>1, <2>3
<1>9. ASSUME NEW i \in S
      PROVE  /\ Cardinality(Earlier(by, order, i)) \in 0 .. Cardinality(S) - 1
             /\ L[Cardinality(Earlier(by, order, i)) + 1] = i
  <2>1. PICK k \in 1 .. Len(L) : L[k] = i
    BY <1>8
  <2>2. Cardinality(Earlier(by, order, i)) = k - 1 /\ k \in Int
    BY <1>8, <2>1
  <2> QED BY <1>1, <1>8, <2>1, <2>2
<1> QED BY <1>5, <1>7, <1>8, <1>9 DEF S

-----------------------------------------------------------------------------
(* What the pages of a walk hold                                           *)

(* limit products fewer remain after a page.                               *)
LEMMA SkippedProps ==
  ASSUME NEW page \in Nat \ {0}, NEW limit \in Nat \ {0}
  PROVE  /\ Skipped(page, limit) \in Nat
         /\ Skipped(page + 1, limit) = Skipped(page, limit) + limit
<1>1. PICK k \in Nat : page = k + 1
  <2>1. page - 1 \in Nat /\ page = (page - 1) + 1
    OBVIOUS
  <2> QED BY <2>1
<1>2. Skipped(page, limit) = k * limit /\ Skipped(page + 1, limit) = (k + 1) * limit
  BY <1>1 DEF Skipped
<1>3. k * limit \in Nat /\ (k + 1) * limit = k * limit + limit
  OBVIOUS
<1> QED BY <1>2, <1>3

(* The pages are enough for all there are.                                 *)
LEMMA PagesEnough ==
  ASSUME NEW total \in Nat, NEW limit \in Nat \ {0}, NEW page \in Nat \ {0}
  PROVE  /\ Pages(total, limit) \in Nat \ {0}
         /\ page >= Pages(total, limit) => total <= Skipped(page, limit) + limit
<1> DEFINE needed == (total + limit - 1) \div limit
<1>1. needed \in Int /\ limit * needed <= total + limit - 1
      /\ total + limit - 1 < limit * needed + limit
  <2>1. PICK n \in Nat : n = total + limit - 1
    OBVIOUS
  <2>2. /\ n \div limit \in Int /\ n = limit * (n \div limit) + (n % limit)
        /\ n % limit \in 0 .. limit - 1
    BY Z3
  <2>3. PICK q \in Int : q = n \div limit
    BY <2>2
  <2>4. limit * q \in Int
    OBVIOUS
  <2> QED BY <2>1, <2>2, <2>3, <2>4
<1>2. Pages(total, limit) = IF needed > 1 THEN needed ELSE 1
  BY DEF Pages
<1>3. PICK q \in Int : q = needed
  BY <1>1
<1>4. Pages(total, limit) \in Nat \ {0} /\ Pages(total, limit) >= q
  BY <1>2, <1>3
<1>5. ASSUME page >= q PROVE total <= Skipped(page, limit) + limit
  <2>1. Skipped(page, limit) + limit = limit * page
    <3>1. PICK k \in Nat : page = k + 1
      <4>1. page - 1 \in Nat /\ page = (page - 1) + 1
        OBVIOUS
      <4> QED BY <4>1
    <3>2. Skipped(page, limit) = k * limit
      BY <3>1 DEF Skipped
    <3> QED BY <3>1, <3>2
  <2>2. PICK d \in Nat : page = q + d
    <3>1. page - q \in Nat /\ page = q + (page - q)
      BY <1>5
    <3> QED BY <3>1
  <2>3. limit * page = limit * q + limit * d /\ limit * d \in Nat /\ limit * q \in Int
    BY <2>2
  <2>4. total < limit * q + 1
    BY <1>1, <1>3, <2>3
  <2> QED BY <1>1, <1>3, <2>1, <2>3, <2>4
<1> QED BY <1>4, <1>5

(* A page holds the places after those it skips, limit at most.            *)
LEMMA PageProps ==
  ASSUME NEW E, NEW list \in Seq(E), NEW page \in Nat \ {0}, NEW limit \in Nat \ {0}
  PROVE  /\ PageOf(list, page, limit) \in Seq(E)
         /\ \A k \in 1 .. Len(PageOf(list, page, limit)) :
              /\ Skipped(page, limit) + k \in 1 .. Len(list) /\ k <= limit
              /\ PageOf(list, page, limit)[k] = list[Skipped(page, limit) + k]
         /\ \A k \in 1 .. limit :
              Skipped(page, limit) + k <= Len(list) => k <= Len(PageOf(list, page, limit))
<1>1. PICK skip \in Nat : skip = Skipped(page, limit)
  BY SkippedProps
<1>2. PICK last \in Int : last = IF Len(list) < skip + limit THEN Len(list) ELSE skip + limit
  OBVIOUS
<1>3. PageOf(list, page, limit) = SubSeq(list, skip + 1, last)
  BY <1>1, <1>2 DEF PageOf
<1>4. PICK P : P = SubSeq(list, skip + 1, last)
  OBVIOUS
<1>5. \A k \in skip + 1 .. last : list[k] \in E
  BY <1>2
<1>6. /\ P \in Seq(E)
      /\ Len(P) = IF skip + 1 <= last THEN last - (skip + 1) + 1 ELSE 0
      /\ \A k \in 1 .. last - (skip + 1) + 1 : P[k] = list[skip + 1 + k - 1]
  BY <1>4, <1>5, SubSeqProperties
<1>7. last <= Len(list) /\ last <= skip + limit /\ Len(list) \in Nat
  BY <1>2
<1>8. ASSUME NEW k \in 1 .. Len(P)
      PROVE  skip + k \in 1 .. Len(list) /\ k <= limit /\ P[k] = list[skip + k]
  <2>1. Len(P) = last - skip /\ skip + 1 <= last
    BY <1>6
  <2>2. k \in 1 .. last - (skip + 1) + 1 /\ skip + 1 + k - 1 = skip + k
    BY <2>1
  <2> QED BY <1>6, <1>7, <2>1, <2>2
<1>9. ASSUME NEW k \in 1 .. limit, skip + k <= Len(list) PROVE k <= Len(P)
  <2>1. skip + k <= last
    BY <1>2, <1>9
  <2> QED BY <1>6, <2>1
<1> QED BY <1>1, <1>3, <1>4, <1>6, <1>8, <1>9

(* The page a walk gets holds the listed products whose place it asks for, *)
(* each once.                                                              *)
LEMMA PageShows ==
  ASSUME products \in [ProductIds -> Rows \cup {NoValue}], NEW by \in SortColumns, NEW order,
         NEW page \in Nat \ {0}, NEW limit \in Nat \ {0}
  PROVE  LET P == PageOf(Listing(by, order), page, limit)
             S == Skipped(page, limit)
         IN /\ P \in Seq(ProductIds) /\ IsInjective(P)
            /\ \A i \in Range(P) : /\ i \in Listed(products)
                                   /\ Cardinality(Earlier(by, order, i)) >= S
                                   /\ Cardinality(Earlier(by, order, i)) < S + limit
            /\ \A i \in Listed(products) : /\ Cardinality(Earlier(by, order, i)) >= S
                                           /\ Cardinality(Earlier(by, order, i)) < S + limit
                                          => i \in Range(P)
<1>1. PICK L : L = Listing(by, order)
  OBVIOUS
<1>2. PICK P : P = PageOf(L, page, limit)
  OBVIOUS
<1>3. PICK S \in Nat : S = Skipped(page, limit)
  BY SkippedProps
<1>4. /\ L \in Seq(Listed(products)) /\ Len(L) = Cardinality(Listed(products))
      /\ \A k \in 1 .. Len(L) : Cardinality(Earlier(by, order, L[k])) = k - 1
      /\ \A i \in Listed(products) :
           /\ Cardinality(Earlier(by, order, i)) \in 0 .. Cardinality(Listed(products)) - 1
           /\ L[Cardinality(Earlier(by, order, i)) + 1] = i
  BY <1>1, ListingProps
<1>5. /\ P \in Seq(Listed(products))
      /\ \A k \in 1 .. Len(P) : S + k \in 1 .. Len(L) /\ k <= limit /\ P[k] = L[S + k]
      /\ \A k \in 1 .. limit : S + k <= Len(L) => k <= Len(P)
  <2>1. PICK E : E = Listed(products)
    OBVIOUS
  <2>2. L \in Seq(E)
    BY <1>4, <2>1
  <2>3. /\ PageOf(L, page, limit) \in Seq(E)
        /\ \A k \in 1 .. Len(PageOf(L, page, limit)) :
             /\ Skipped(page, limit) + k \in 1 .. Len(L) /\ k <= limit
             /\ PageOf(L, page, limit)[k] = L[Skipped(page, limit) + k]
        /\ \A k \in 1 .. limit :
             Skipped(page, limit) + k <= Len(L) => k <= Len(PageOf(L, page, limit))
    BY <2>2, PageProps
  <2> QED BY <1>2, <1>3, <2>1, <2>3
<1>6. P \in Seq(ProductIds) /\ DOMAIN P = 1 .. Len(P) /\ Len(P) \in Nat
  BY <1>5, ListedFinite
<1>7. \A k \in 1 .. Len(P) : P[k] \in Listed(products)
                             /\ Cardinality(Earlier(by, order, P[k])) = S + k - 1
  <2> TAKE k \in 1 .. Len(P)
  <2>1. S + k \in 1 .. Len(L) /\ P[k] = L[S + k]
    BY <1>5
  <2>2. Cardinality(Earlier(by, order, L[S + k])) = (S + k) - 1
    BY <1>4, <2>1
  <2> QED BY <1>5, <2>1, <2>2
<1>8. IsInjective(P)
  <2>1. \A k, l \in DOMAIN P : P[k] = P[l] => k = l
    <3> TAKE k, l \in DOMAIN P
    <3> HAVE P[k] = P[l]
    <3>1. k \in 1 .. Len(P) /\ l \in 1 .. Len(P) /\ S + k - 1 = S + l - 1
      BY <1>6, <1>7
    <3> QED BY <3>1
  <2> QED BY <2>1 DEF IsInjective
<1>9. \A i \in Range(P) : /\ i \in Listed(products)
                          /\ Cardinality(Earlier(by, order, i)) >= S
                          /\ Cardinality(Earlier(by, order, i)) < S + limit
  <2> TAKE i \in Range(P)
  <2>1. PICK k \in 1 .. Len(P) : P[k] = i
    BY <1>6 DEF Range
  <2>2. /\ i \in Listed(products) /\ Cardinality(Earlier(by, order, i)) = S + k - 1
        /\ k <= limit /\ k >= 1
    BY <1>5, <1>7, <2>1
  <2> QED BY <2>2
<1>10. \A i \in Listed(products) : /\ Cardinality(Earlier(by, order, i)) >= S
                                   /\ Cardinality(Earlier(by, order, i)) < S + limit
                                  => i \in Range(P)
  <2> TAKE i \in Listed(products)
  <2>1. PICK a : a = Cardinality(Earlier(by, order, i))
    OBVIOUS
  <2>2. SUFFICES ASSUME a >= S, a < S + limit PROVE i \in Range(P)
    BY <2>1
  <2>3. a \in 0 .. Len(L) - 1 /\ L[a + 1] = i /\ Len(L) \in Nat
    BY <1>4, <2>1
  <2>4. PICK k \in 1 .. limit : S + k = a + 1
    <3>1. a + 1 - S \in 1 .. limit /\ S + (a + 1 - S) = a + 1
      BY <2>2, <2>3
    <3> QED BY <3>1
  <2>5. k <= Len(P)
    BY <1>5, <2>3, <2>4
  <2>6. k \in DOMAIN P /\ P[k] = i
    BY <1>5, <1>6, <2>3, <2>4, <2>5
  <2> QED BY <2>6 DEF Range
<1> QED BY <1>1, <1>2, <1>3, <1>6, <1>8, <1>9, <1>10

-----------------------------------------------------------------------------
(* What a write does to the listing                                        *)

AtKept == \A i \in ProductIds : products[i] # NoValue =>
            products'[i] # NoValue /\ products'[i].at = products[i].at

(* What stays listed keeps its value of the column the walk goes by.       *)
Unmoved == \A i \in Listed(products) \cap Listed(products') :
             products'[i][walk.by] = products[i][walk.by]

(* As long as nothing moves in the listing or leaves it nobody stands      *)
(* further up in it, and as long as nothing enters it nobody further down. *)
LEMMA PlacesMove ==
  ASSUME products \in [ProductIds -> Rows \cup {NoValue}],
         products' \in [ProductIds -> Rows \cup {NoValue}],
         Unmoved, walk'.by = walk.by, walk'.order = walk.order,
         NEW i \in Listed(products) \cap Listed(products')
  PROVE  /\ Listed(products) \subseteq Listed(products') => Ahead(i) <= Ahead(i)'
         /\ Listed(products') \subseteq Listed(products) => Ahead(i)' <= Ahead(i)
<1> DEFINE S == {j \in Listed(products) : Before(walk.by, walk.order, j, i)}
           T == {j \in Listed(products') : Before(walk.by, walk.order, j, i)'}
<1>1. \A j \in Listed(products) \cap Listed(products') :
        Before(walk.by, walk.order, j, i)' <=> Before(walk.by, walk.order, j, i)
  BY DEF Before, Unmoved
<1>2. IsFiniteSet(Listed(products)) /\ IsFiniteSet(Listed(products'))
  <2>1. IsFiniteSet(Listed(products))
    BY ListedFinite
  <2>2. Listed(products') \in SUBSET ProductIds
    BY DEF Listed
  <2> QED BY <2>1, <2>2, FS_Subset, ProductsAssumption
<1>3. IsFiniteSet(S) /\ IsFiniteSet(T)
  <2>1. S \in SUBSET Listed(products) /\ T \in SUBSET Listed(products')
    OBVIOUS
  <2> HIDE DEF S, T
  <2> QED BY <1>2, <2>1, FS_Subset
<1>4. Ahead(i) = Cardinality(S) /\ Ahead(i)' = Cardinality(T)
  BY DEF Ahead
<1>5. Listed(products) \subseteq Listed(products') => S \in SUBSET T
  BY <1>1
<1>6. Listed(products') \subseteq Listed(products) => T \in SUBSET S
  BY <1>1
<1> HIDE DEF S, T
<1> QED BY <1>3, <1>4, <1>5, <1>6, FS_Subset

(* The table a write makes, and what it does to whoever read the row.      *)
LEMMA StoreTable ==
  ASSUME ProductsInv, NEW c, NEW i \in ProductIds, NEW row \in Rows, Store(c, i, row),
         products[i] # NoValue => row.at = products[i].at
  PROVE  /\ products' \in [ProductIds -> Rows \cup {NoValue}]
         /\ products'[i] = row /\ \A j \in ProductIds : j # i => products'[j] = products[j]
         /\ AtKept
         /\ clean' \in [Calls -> BOOLEAN]
         /\ walk' = Observed(products')
<1>1. products \in [ProductIds -> Rows \cup {NoValue}] /\ clean \in [Calls -> BOOLEAN]
  BY DEF ProductsInv, ProductsTypeOK
<1>2. products' = [products EXCEPT ![i] = row] /\ walk' = Observed(products')
  BY DEF Store
<1>3. clean' = [d \in Calls |-> clean[d] /\ (d = c \/ At(d, "idle") \/ call[d].id # i)]
  BY DEF Store
<1>4. clean' \in [Calls -> BOOLEAN]
  BY <1>1, <1>3
<1>5. row # NoValue
  BY RowColumns
<1>6. AtKept
  BY <1>1, <1>2, <1>5 DEF AtKept
<1> QED BY <1>1, <1>2, <1>4, <1>6

(* Of a walk a write changes only what was observed of the listing.        *)
LEMMA StoreWalk ==
  ASSUME ProductsInv, walk' = Observed(products'),
         products' \in [ProductIds -> Rows \cup {NoValue}], AtKept
  PROVE  walk' \in WalkTypes /\ WalkInv' /\ WalkShowsAll'
<1>1. walk \in WalkTypes /\ WalkInv /\ WalkShowsAll
      /\ products \in [ProductIds -> Rows \cup {NoValue}]
  BY DEF ProductsInv, ProductsTypeOK
<1>2. CASE walk.pc = "idle"
  <2>1. walk' = walk
    BY <1>2 DEF Observed
  <2> QED BY <1>1, <1>2, <2>1 DEF WalkInv, WalkShowsAll
<1>3. CASE walk.pc # "idle"
  <2> DEFINE leaves == Listed(products) \ Listed(products') # {}
             enters == Listed(products') \ Listed(products) # {}
             moves == \E i \in Listed(products) \cap Listed(products') :
                        products[i][walk.by] # products'[i][walk.by]
  <2>1. walk' = [walk EXCEPT !.shrunk = @ \/ leaves, !.grown = @ \/ enters,
                             !.moved = @ \/ moves,
                             !.start = IF leaves \/ moves THEN {} ELSE @]
    BY <1>3 DEF Observed
  <2>2. /\ walk' \in WalkTypes /\ walk'.pc = walk.pc /\ walk'.page = walk.page
        /\ walk'.limit = walk.limit /\ walk'.by = walk.by /\ walk'.order = walk.order
        /\ walk'.shown = walk.shown
        /\ walk'.shrunk = (walk.shrunk \/ leaves) /\ walk'.grown = (walk.grown \/ enters)
        /\ walk'.moved = (walk.moved \/ moves)
        /\ walk'.start = IF leaves \/ moves THEN {} ELSE walk.start
    <3> HIDE DEF leaves, enters, moves
    <3> QED BY <1>1, <2>1 DEF WalkTypes
  <2>3. moves => walk.by = "title"
    <3>1. walk.by \in {"at", "title"}
      BY <1>1 DEF WalkTypes, SortColumns
    <3>2. \A i \in Listed(products) : products'[i].at = products[i].at
      BY <1>1, ListedFinite DEF AtKept
    <3> QED BY <3>1, <3>2
  <2>4. /\ ~walk'.shrunk => ~walk.shrunk /\ Listed(products) \subseteq Listed(products')
        /\ ~walk'.grown => ~walk.grown /\ Listed(products') \subseteq Listed(products)
        /\ ~walk'.moved => ~walk.moved /\ Unmoved
        /\ ~walk'.shrunk /\ ~walk'.moved => walk'.start = walk.start
    BY <2>2 DEF Unmoved
  <2> HIDE DEF leaves, enters, moves
  <2>5. AskedFor' = AskedFor /\ AskedFor \in Nat
    <3>1. AskedFor' = AskedFor
      BY <2>2 DEF AskedFor
    <3>2. walk.page \in Nat \ {0} /\ walk.limit \in Nat \ {0}
      BY <1>1 DEF WalkTypes
    <3>3. Skipped(walk.page, walk.limit) \in Nat
      BY <3>2, SkippedProps
    <3> QED BY <3>1, <3>2, <3>3 DEF AskedFor
  <2>6. \A i \in Listed(products) : Ahead(i) \in Nat
    <3> TAKE i \in Listed(products)
    <3>1. {j \in Listed(products) : Before(walk.by, walk.order, j, i)} \in SUBSET Listed(products)
      OBVIOUS
    <3> QED BY <1>1, <3>1, ListedFinite, FS_Subset, FS_CardinalityType DEF Ahead
  <2>7. \A i \in Listed(products') : Ahead(i)' \in Nat
    <3> TAKE i \in Listed(products')
    <3>1. {j \in Listed(products') : Before(walk.by, walk.order, j, i)'}
            \in SUBSET Listed(products')
      OBVIOUS
    <3>2. Listed(products') \in SUBSET ProductIds
      BY DEF Listed
    <3>3. IsFiniteSet({j \in Listed(products') : Before(walk.by, walk.order, j, i)'})
      BY <3>1, <3>2, FS_Subset, ProductsAssumption
    <3>4. Ahead(i)' = Cardinality({j \in Listed(products') : Before(walk.by, walk.order, j, i)'})
      BY <2>2 DEF Ahead
    <3> QED BY <3>3, <3>4, FS_CardinalityType
  <2>8. ASSUME walk.pc \in {"rows", "count"}, ~walk'.shrunk, ~walk'.moved
        PROVE  /\ walk.start \subseteq Listed(products')
               /\ \A i \in walk.start : i \in Range(walk.shown) \/ Ahead(i)' >= AskedFor
    <3>1. /\ walk.start \subseteq Listed(products) /\ Listed(products) \subseteq Listed(products')
          /\ \A i \in walk.start : i \in Range(walk.shown) \/ Ahead(i) >= AskedFor
      BY <1>1, <2>4, <2>8 DEF WalkInv
    <3>2. \A i \in walk.start : Ahead(i) <= Ahead(i)'
      BY <1>1, <2>2, <2>4, <2>8, <3>1, PlacesMove
    <3> QED BY <2>5, <2>6, <2>7, <3>1, <3>2
  <2>9. ASSUME walk.pc \in {"rows", "count"}, ~walk'.grown, ~walk'.moved
        PROVE  /\ IsInjective(walk.shown)
               /\ \A i \in Range(walk.shown) \cap Listed(products') : Ahead(i)' < AskedFor
    <3>1. /\ IsInjective(walk.shown) /\ Listed(products') \subseteq Listed(products)
          /\ \A i \in Range(walk.shown) \cap Listed(products) : Ahead(i) < AskedFor
      BY <1>1, <2>4, <2>9 DEF WalkInv
    <3>2. \A i \in Listed(products') : Ahead(i)' <= Ahead(i)
      BY <1>1, <2>2, <2>4, <2>9, <3>1, PlacesMove
    <3> QED BY <2>5, <2>6, <2>7, <3>1, <3>2
  <2>10. WalkInv'
    <3>1. walk'.moved => walk'.by = "title"
      BY <1>1, <2>2, <2>3 DEF WalkInv
    <3>2. ASSUME walk'.pc \in {"rows", "count"}, ~walk'.shrunk, ~walk'.moved
          PROVE  /\ walk'.start \subseteq Listed(products')
                 /\ \A i \in walk'.start : i \in Range(walk'.shown) \/ Ahead(i)' >= AskedFor'
      BY <2>2, <2>4, <2>5, <2>8, <3>2
    <3>3. ASSUME walk'.pc \in {"rows", "count"}, ~walk'.grown, ~walk'.moved
          PROVE  /\ IsInjective(walk'.shown)
                 /\ \A i \in Range(walk'.shown) \cap Listed(products') : Ahead(i)' < AskedFor'
      BY <2>2, <2>5, <2>9, <3>3
    <3> QED BY <3>1, <3>2, <3>3 DEF WalkInv
  <2>11. WalkShowsAll'
    <3>1. walk'.moved => walk'.by = "title"
      BY <1>1, <2>2, <2>3 DEF WalkInv
    <3>2. walk'.start \in {{}, walk.start}
      BY <2>2
    <3>3. (walk.shrunk => walk'.shrunk) /\ (walk.grown => walk'.grown)
          /\ (walk.moved => walk'.moved)
      BY <2>2
    <3> QED BY <1>1, <2>2, <3>1, <3>2, <3>3 DEF WalkShowsAll
  <2> QED BY <2>2, <2>10, <2>11
<1> QED BY <1>2, <1>3

(* Whoever else had read the row that was written is stale, and no other   *)
(* row changed.                                                            *)
LEMMA OthersSaving ==
  ASSUME ProductsInv, NEW c, NEW i \in ProductIds, NEW row \in Rows, Store(c, i, row),
         products[i] # NoValue => row.at = products[i].at,
         NEW d \in Calls, call'[d] = call[d],
         d # c \/ products[i] = NoValue
  PROVE  SavingOf(d)'
<1> SUFFICES ASSUME call[d].pc # "idle" PROVE SavingInv(call[d], clean[d])'
  BY DEF SavingOf
<1>1. SavingInv(call[d], clean[d])
  BY DEF ProductsInv
<1>2. PICK me : me = call[d]
  OBVIOUS
<1>3. me.id \in ProductIds /\ products[me.id] # NoValue
  BY <1>1, <1>2 DEF SavingInv
<1>4. /\ products'[i] = row /\ \A j \in ProductIds : j # i => products'[j] = products[j]
      /\ AtKept
  BY StoreTable
<1>5. clean'[d] = (clean[d] /\ (d = c \/ At(d, "idle") \/ call[d].id # i))
  BY Zenon DEF Store
<1>6. products'[me.id] # NoValue /\ products'[me.id].at = products[me.id].at
  BY <1>3, <1>4 DEF AtKept
<1>7. (clean'[d] => clean[d]) /\ (clean'[d] => products'[me.id] = products[me.id])
  <2>1. me.id # i => products'[me.id] = products[me.id]
    BY <1>3, <1>4
  <2>2. me.id = i => d # c
    BY <1>3
  <2>3. ~At(d, "idle")
    BY DEF At
  <2> QED BY <1>2, <1>5, <2>1, <2>2, <2>3
<1>8. SavingInv(me, clean[d])
  BY <1>1, <1>2
<1>9. /\ me.id \in ProductIds /\ products'[me.id] # NoValue
      /\ me.op = "update" \/ (me.op = "remove" /\ me.pc = "write")
      /\ me.op = "update" =>
           /\ me.given \in Givens
           /\ "at" \in DOMAIN me.entity => me.entity["at"] = products'[me.id].at
           /\ me.pc = "load" => me.entity \in Rows
           /\ me.pc = "write" => me.entity \in Entities
  BY <1>6, <1>8 DEF SavingInv
<1>10. me.op = "update" /\ clean'[d] =>
         /\ me.pc = "load" => me.entity = Merge(products'[me.id], me.given)
         /\ me.pc = "write" => Over(me.entity, products'[me.id])
                                 = Merge(products'[me.id], me.given)
  <2> HAVE me.op = "update" /\ clean'[d]
  <2>1. clean[d] /\ products'[me.id] = products[me.id]
    BY <1>7
  <2> QED BY <1>8, <2>1 DEF SavingInv
<1> QED BY <1>2, <1>9, <1>10 DEF SavingInv

-----------------------------------------------------------------------------
(* The invariant                                                           *)
LEMMA ProductsInitInv == ProductsInit => ProductsInv
<1> SUFFICES ASSUME ProductsInit PROVE ProductsInv
  OBVIOUS
<1>1. Idle \in CallRecords
  BY DEF Idle, CallRecords
<1>2. walk \in WalkTypes
  <2>1. <<>> \in Seq(ProductIds) /\ 1 \in Nat \ {0} /\ {} \in SUBSET ProductIds
    OBVIOUS
  <2> QED BY <2>1 DEF ProductsInit, NoWalk, WalkTypes, SortColumns
<1>3. ProductsTypeOK
  <2>1. call \in [Calls -> CallRecords]
    BY <1>1 DEF ProductsInit
  <2>2. /\ products \in [ProductIds -> Rows \cup {NoValue}]
        /\ clean \in [Calls -> BOOLEAN]
    BY DEF ProductsInit
  <2>3. walk.page \in Nat \ {0} /\ walk.pages \in Nat \ {0} /\ walk.shown \in Seq(ProductIds)
    BY <1>2 DEF WalkTypes
  <2> QED BY <2>1, <2>2, <2>3 DEF ProductsTypeOK, CallRecords
<1>4. walk.pc = "idle" /\ ~walk.moved /\ \A c \in Calls : call[c].pc = "idle"
  BY DEF ProductsInit, NoWalk, Idle
<1> QED BY <1>2, <1>3, <1>4 DEF ProductsInv, WalkInv, WalkShowsAll

(* The calls' statements.                                                  *)
LEMMA CallTypes ==
  ASSUME ProductsInv
  PROVE  /\ products \in [ProductIds -> Rows \cup {NoValue}]
         /\ call \in [Calls -> CallRecords] /\ clean \in [Calls -> BOOLEAN]
         /\ walk \in WalkTypes /\ WalkInv /\ WalkShowsAll
         /\ \A c \in Calls : SavingOf(c)
BY DEF ProductsInv, ProductsTypeOK, CallRecords, SavingOf

LEMMA InvFrom ==
  ASSUME products' \in [ProductIds -> Rows \cup {NoValue}],
         call' \in [Calls -> CallRecords], clean' \in [Calls -> BOOLEAN],
         walk' \in WalkTypes, WalkInv', WalkShowsAll', \A c \in Calls : SavingOf(c)'
  PROVE  ProductsInv'
<1>1. walk'.page \in Nat \ {0} /\ walk'.pages \in Nat \ {0} /\ walk'.shown \in Seq(ProductIds)
  BY DEF WalkTypes
<1>2. ProductsTypeOK'
  BY <1>1 DEF ProductsTypeOK, CallRecords
<1> QED BY <1>2 DEF ProductsInv, SavingOf

(* A step that leaves the table and the walk alone keeps what is true of   *)
(* the walk, and of a call that it leaves alone too.                       *)
LEMMA CallStep ==
  ASSUME ProductsInv, UNCHANGED <<products, walk>>,
         call' \in [Calls -> CallRecords], clean' \in [Calls -> BOOLEAN],
         \A c \in Calls : SavingOf(c)' \/ (call'[c] = call[c] /\ clean'[c] = clean[c])
  PROVE  ProductsInv'
<1>1. walk' \in WalkTypes /\ WalkInv' /\ WalkShowsAll'
  <2>1. walk' \in WalkTypes /\ WalkShowsAll'
    BY CallTypes DEF WalkShowsAll
  <2>2. WalkInv'
    BY CallTypes DEF WalkInv, Ahead, AskedFor, Before, Listed
  <2> QED BY <2>1, <2>2
<1>2. \A c \in Calls : SavingOf(c)'
  <2> TAKE c \in Calls
  <2>1. CASE call'[c] = call[c] /\ clean'[c] = clean[c]
    BY <2>1, CallTypes DEF SavingOf, SavingInv
  <2> QED BY <2>1
<1> QED BY <1>1, <1>2, CallTypes, InvFrom

LEMMA BeginInv ==
  ASSUME ProductsInv, NEW c \in Calls, NEW i \in ProductIds, Found(i),
         NEW given \in Givens,
         \/ Begin(c, "load", "update", i, given, Merge(products[i], given))
         \/ Begin(c, "write", "remove", i, NoValue, NoValue)
  PROVE  ProductsInv'
<1>1. products[i] \in Rows
  BY CallTypes DEF Found
<1>2. /\ Merge(products[i], given) \in Rows /\ Merge(products[i], given) \in Entities
      /\ Merge(products[i], given).at = products[i].at
  BY <1>1, MergeIsRow, RowColumns
<1> DEFINE update == [pc |-> "load", op |-> "update", id |-> i, given |-> given,
                      entity |-> Merge(products[i], given)]
           remove == [pc |-> "write", op |-> "remove", id |-> i, given |-> NoValue,
                      entity |-> NoValue]
<1>3. PICK it : /\ it \in {update, remove} /\ call' = [call EXCEPT ![c] = it]
                /\ clean' = [clean EXCEPT ![c] = TRUE]
                /\ UNCHANGED <<products, walk>>
  BY DEF Begin
<1>4. update \in CallRecords /\ remove \in CallRecords
  BY <1>2 DEF CallRecords
<1>5. /\ call' \in [Calls -> CallRecords] /\ clean' \in [Calls -> BOOLEAN]
      /\ call'[c] = it /\ clean'[c] = TRUE
      /\ \A d \in Calls : d # c => call'[d] = call[d] /\ clean'[d] = clean[d]
  <2> HIDE DEF update, remove
  <2> QED BY <1>3, <1>4, CallTypes
<1>6. SavingOf(c)'
  <2>1. products'[i] \in Rows /\ products'[i] # NoValue /\ products' = products
    BY <1>1, <1>3, RowColumns
  <2>2. CASE it = update
    <3>1. /\ it.pc = "load" /\ it.op = "update" /\ it.id = i /\ it.given = given
          /\ it.entity = Merge(products[i], given)
      BY <2>2
    <3>2. SavingInv(it, TRUE)'
      <4>1. it.entity["at"] = products'[i].at
        BY <1>2, <2>1, <3>1
      <4> HIDE DEF update, remove
      <4> QED BY <1>2, <2>1, <3>1, <4>1 DEF SavingInv
    <3> HIDE DEF update, remove
    <3> QED BY <1>5, <3>2 DEF SavingOf, SavingInv
  <2>3. CASE it = remove
    <3>1. it.pc = "write" /\ it.op = "remove" /\ it.id = i
      BY <2>3
    <3> HIDE DEF update, remove
    <3> QED BY <1>5, <2>1, <3>1 DEF SavingOf, SavingInv
  <2> QED BY <1>3, <2>2, <2>3
<1>7. UNCHANGED <<products, walk>>
  BY <1>3
<1> QED BY <1>5, <1>6, <1>7, CallStep

LEMMA SaveLoadInv ==
  ASSUME ProductsInv, NEW c \in Calls, SaveLoad(c)
  PROVE  ProductsInv'
<1>1. PICK me : me = call[c]
  OBVIOUS
<1>2. PICK row : row = products[me.id]
  OBVIOUS
<1>3. me \in CallRecords /\ me.pc = "load" /\ SavingInv(me, clean[c])
  BY <1>1, CallTypes DEF SaveLoad, At, SavingOf
<1>4. me.id \in ProductIds /\ row \in Rows
  BY <1>2, <1>3, CallTypes DEF SavingInv
<1>5. PICK columns : columns = Restrict(me.entity, Differing(me.entity, row))
  OBVIOUS
<1>6. call' = [call EXCEPT ![c].pc = "write", ![c].entity = columns]
      /\ UNCHANGED <<products, walk, clean>>
  BY <1>1, <1>2, <1>5 DEF SaveLoad
<1>7. call'[c] = [me EXCEPT !.pc = "write", !.entity = columns]
      /\ \A d \in Calls : d # c => call'[d] = call[d]
  BY <1>1, <1>6, CallTypes
<1>8. CASE me.op = "update"
  <2>1. /\ me.entity \in Rows /\ me.entity["at"] = row.at
        /\ clean[c] => me.entity = Merge(row, me.given)
    <3>1. me.entity \in Rows
      BY <1>3, <1>8 DEF SavingInv
    <3>2. "at" \in DOMAIN me.entity
      BY <3>1, RowColumns DEF Columns
    <3> QED BY <1>2, <1>3, <1>8, <3>1, <3>2 DEF SavingInv
  <2>2. /\ columns \in Entities /\ Over(columns, row) = me.entity
        /\ \A f \in DOMAIN columns : columns[f] = me.entity[f]
    BY <1>4, <1>5, <2>1, DifferenceWritten
  <2>3. PICK now : now = call'[c]
    OBVIOUS
  <2>4. /\ now.pc = "write" /\ now.op = "update" /\ now.id = me.id /\ now.given = me.given
        /\ now.entity = columns /\ now \in CallRecords
    BY <1>3, <1>7, <1>8, <2>2, <2>3 DEF CallRecords
  <2>5. SavingInv(now, clean[c])
    BY <1>2, <1>3, <1>4, <2>1, <2>2, <2>4 DEF SavingInv
  <2>6. SavingOf(c)'
    BY <1>6, <2>3, <2>5 DEF SavingOf, SavingInv
  <2>7. call' \in [Calls -> CallRecords]
    BY <1>6, <1>7, <2>3, <2>4, CallTypes
  <2> QED BY <1>6, <1>7, <2>6, <2>7, CallStep, CallTypes
<1>9. me.op = "update"
  BY <1>3 DEF SavingInv
<1> QED BY <1>8, <1>9

(* A slot's write ends its call.                                           *)
LEMMA WriteStep ==
  ASSUME ProductsInv, NEW c \in Calls, NEW row \in Rows, call[c].pc # "idle",
         Store(c, call[c].id, row), EndCall(c),
         row.at = products[call[c].id].at
  PROVE  ProductsInv'
<1>1. call[c].id \in ProductIds
  BY CallTypes DEF SavingOf, SavingInv
<1>2. /\ products' \in [ProductIds -> Rows \cup {NoValue}] /\ AtKept
      /\ clean' \in [Calls -> BOOLEAN] /\ walk' = Observed(products')
  BY <1>1, StoreTable
<1>3. walk' \in WalkTypes /\ WalkInv' /\ WalkShowsAll'
  BY <1>2, StoreWalk
<1>4. call' = [call EXCEPT ![c] = Idle]
  BY DEF EndCall
<1>5. call' \in [Calls -> CallRecords] /\ call'[c].pc = "idle"
      /\ \A d \in Calls : d # c => call'[d] = call[d]
  <2>1. Idle \in CallRecords /\ Idle.pc = "idle"
    BY DEF Idle, CallRecords
  <2> QED BY <1>4, <2>1, CallTypes
<1>6. \A d \in Calls : SavingOf(d)'
  <2> TAKE d \in Calls
  <2>1. CASE d = c
    BY <1>5, <2>1 DEF SavingOf
  <2>2. CASE d # c
    BY <1>1, <1>5, <2>2, OthersSaving
  <2> QED BY <2>1, <2>2
<1> QED BY <1>2, <1>3, <1>4, <1>5, <1>6, InvFrom

LEMMA SaveWriteInv ==
  ASSUME ProductsInv, NEW c \in Calls, SaveWrite(c)
  PROVE  ProductsInv'
<1>1. PICK me : me = call[c]
  OBVIOUS
<1>2. PICK row : row = products[me.id]
  OBVIOUS
<1>3. me.pc = "write" /\ me.op = "update" /\ SavingInv(me, clean[c])
  BY <1>1, CallTypes DEF SaveWrite, At, SavingOf
<1>4. /\ row \in Rows /\ me.entity \in Entities
      /\ "at" \in DOMAIN me.entity => me.entity["at"] = row.at
  BY <1>2, <1>3, CallTypes DEF SavingInv
<1>5. Over(me.entity, row) \in Rows /\ Over(me.entity, row).at = row.at
  BY <1>4, OverIsRow
<1>6. Store(c, call[c].id, Over(me.entity, row)) /\ EndCall(c)
  BY <1>1, <1>2 DEF SaveWrite
<1> QED BY <1>1, <1>2, <1>3, <1>5, <1>6, WriteStep

LEMMA DeleteWriteInv ==
  ASSUME ProductsInv, NEW c \in Calls, DeleteWrite(c)
  PROVE  ProductsInv'
<1>1. PICK me : me = call[c]
  OBVIOUS
<1>2. PICK row : row = products[me.id]
  OBVIOUS
<1>3. me.pc = "write" /\ SavingInv(me, clean[c])
  BY <1>1, CallTypes DEF DeleteWrite, At, SavingOf
<1>4. row \in Rows
  BY <1>2, <1>3, CallTypes DEF SavingInv
<1>5. [row EXCEPT !.deleted = TRUE] \in Rows /\ [row EXCEPT !.deleted = TRUE].at = row.at
  BY <1>4 DEF Rows
<1>6. Store(c, call[c].id, [row EXCEPT !.deleted = TRUE]) /\ EndCall(c)
  BY <1>1, <1>2 DEF DeleteWrite
<1> QED BY <1>1, <1>2, <1>3, <1>5, <1>6, WriteStep

LEMMA CreateInv ==
  ASSUME ProductsInv, NEW i \in ProductIds, NEW title \in Titles, NEW at \in 0..MaxTime,
         Create(i, title, at)
  PROVE  ProductsInv'
<1>1. PICK row : row = NewRow(title, at)
  OBVIOUS
<1>2. row \in Rows
  BY <1>1 DEF NewRow, Rows, Status
<1>3. /\ products[i] = NoValue /\ Store(NoValue, i, row)
      /\ call' = call
  BY <1>1 DEF Create
<1>4. /\ products' \in [ProductIds -> Rows \cup {NoValue}] /\ AtKept
      /\ clean' \in [Calls -> BOOLEAN] /\ walk' = Observed(products')
  BY <1>2, <1>3, StoreTable
<1>5. walk' \in WalkTypes /\ WalkInv' /\ WalkShowsAll'
  BY <1>4, StoreWalk
<1>6. \A d \in Calls : SavingOf(d)'
  BY <1>2, <1>3, OthersSaving
<1> QED BY <1>3, <1>4, <1>5, <1>6, CallTypes, InvFrom

LEMMA FailsInv ==
  ASSUME ProductsInv, NEW c \in Calls, Fails(c)
  PROVE  ProductsInv'
<1>1. /\ call' = [call EXCEPT ![c] = Idle]
      /\ UNCHANGED <<products, walk, clean>>
  BY DEF Fails, EndCall
<1>2. Idle \in CallRecords /\ Idle.pc = "idle"
  BY DEF Idle, CallRecords
<1>3. /\ call' \in [Calls -> CallRecords] /\ call'[c].pc = "idle"
      /\ \A d \in Calls : d # c => call'[d] = call[d]
  BY <1>1, <1>2, CallTypes
<1>4. SavingOf(c)'
  BY <1>3 DEF SavingOf
<1> QED BY <1>1, <1>3, <1>4, CallStep, CallTypes

-----------------------------------------------------------------------------
(* The walk's statements                                                   *)

(* A step of the walk alone.                                               *)
LEMMA WalkStep ==
  ASSUME ProductsInv, UNCHANGED <<products, call, clean>>,
         walk' \in WalkTypes, WalkInv', WalkShowsAll'
  PROVE  ProductsInv'
<1>1. \A c \in Calls : SavingOf(c)'
  BY CallTypes DEF SavingOf, SavingInv
<1> QED BY <1>1, CallTypes, InvFrom

(* Where a walk stands.                                                    *)
LEMMA WalkPlaces ==
  ASSUME ProductsInv
  PROVE  /\ walk.page \in Nat \ {0} /\ walk.limit \in Nat \ {0}
         /\ walk.by \in SortColumns /\ walk.order \in {"ASC", "DESC"}
         /\ walk.shown \in Seq(ProductIds)
         /\ \A i : Ahead(i) = Cardinality(Earlier(walk.by, walk.order, i))
         /\ \A i \in Listed(products) : Ahead(i) \in 0 .. Cardinality(Listed(products)) - 1
<1>1. /\ walk.page \in Nat \ {0} /\ walk.limit \in Nat \ {0}
      /\ walk.by \in SortColumns /\ walk.order \in {"ASC", "DESC"}
      /\ walk.shown \in Seq(ProductIds)
  BY CallTypes DEF WalkTypes
<1>2. \A i : Ahead(i) = Cardinality(Earlier(walk.by, walk.order, i))
  BY DEF Ahead, Earlier
<1>3. \A i \in Listed(products) :
        Cardinality(Earlier(walk.by, walk.order, i)) \in 0 .. Cardinality(Listed(products)) - 1
  BY <1>1, CallTypes, ListingProps
<1> QED BY <1>1, <1>2, <1>3

(* What a sequence shows after more of it.                                 *)
LEMMA ShownMore ==
  ASSUME NEW E, NEW s \in Seq(E), NEW t \in Seq(E)
  PROVE  /\ s \o t \in Seq(E) /\ Range(s \o t) = Range(s) \cup Range(t)
         /\ IsInjective(s) /\ IsInjective(t) /\ Range(s) \cap Range(t) = {}
              => IsInjective(s \o t)
<1>1. PICK u : u = s \o t
  OBVIOUS
<1>2. /\ u \in Seq(E) /\ Len(u) = Len(s) + Len(t)
      /\ \A k \in 1 .. Len(u) : u[k] = IF k <= Len(s) THEN s[k] ELSE t[k - Len(s)]
  BY <1>1
<1>3. /\ DOMAIN s = 1 .. Len(s) /\ DOMAIN t = 1 .. Len(t) /\ DOMAIN u = 1 .. Len(u)
      /\ Len(s) \in Nat /\ Len(t) \in Nat
  BY <1>2
<1>4. \A k \in DOMAIN s : k \in DOMAIN u /\ u[k] = s[k]
  BY <1>2, <1>3
<1>5. \A k \in DOMAIN t : Len(s) + k \in DOMAIN u /\ u[Len(s) + k] = t[k]
  <2> TAKE k \in DOMAIN t
  <2>1. k \in 1 .. Len(t)
    BY <1>3
  <2>2. Len(s) + k \in 1 .. Len(u) /\ ~(Len(s) + k <= Len(s)) /\ (Len(s) + k) - Len(s) = k
    BY <1>2, <1>3, <2>1
  <2> QED BY <1>2, <1>3, <2>2
<1>6. \A k \in DOMAIN u : \/ k \in DOMAIN s /\ u[k] = s[k]
                          \/ k - Len(s) \in DOMAIN t /\ u[k] = t[k - Len(s)]
  BY <1>2, <1>3
<1>7. Range(u) = Range(s) \cup Range(t)
  <2>1. Range(s) \subseteq Range(u) /\ Range(t) \subseteq Range(u)
    BY <1>4, <1>5 DEF Range
  <2>2. Range(u) \subseteq Range(s) \cup Range(t)
    BY <1>6 DEF Range
  <2> QED BY <2>1, <2>2
<1>8. ASSUME IsInjective(s), IsInjective(t), Range(s) \cap Range(t) = {}
      PROVE  IsInjective(u)
  <2>1. \A k, l \in DOMAIN u : u[k] = u[l] => k = l
    <3> TAKE k, l \in DOMAIN u
    <3> HAVE u[k] = u[l]
    <3>1. (\A x, y \in DOMAIN s : s[x] = s[y] => x = y)
          /\ (\A x, y \in DOMAIN t : t[x] = t[y] => x = y)
      BY <1>8 DEF IsInjective
    <3>2. \A x \in DOMAIN s, y \in DOMAIN t : s[x] # t[y]
      BY <1>8 DEF Range
    <3>3. k \in Int /\ l \in Int
      BY <1>3
    <3>4. CASE k \in DOMAIN s /\ u[k] = s[k] /\ l \in DOMAIN s /\ u[l] = s[l]
      BY <3>1, <3>4
    <3>5. CASE k - Len(s) \in DOMAIN t /\ u[k] = t[k - Len(s)]
               /\ l - Len(s) \in DOMAIN t /\ u[l] = t[l - Len(s)]
      <4>1. k - Len(s) = l - Len(s)
        BY <3>1, <3>5
      <4> QED BY <1>3, <3>3, <4>1
    <3>6. ~(k \in DOMAIN s /\ u[k] = s[k] /\ l - Len(s) \in DOMAIN t
            /\ u[l] = t[l - Len(s)])
      BY <3>2
    <3>7. ~(l \in DOMAIN s /\ u[l] = s[l] /\ k - Len(s) \in DOMAIN t
            /\ u[k] = t[k - Len(s)])
      BY <3>2
    <3> QED BY <1>6, <3>4, <3>5, <3>6, <3>7
  <2> QED BY <2>1 DEF IsInjective
<1> QED BY <1>1, <1>2, <1>7, <1>8

LEMMA StartWalkInv ==
  ASSUME ProductsInv, NEW limit \in Limits, NEW by \in SortColumns,
         NEW order \in {"ASC", "DESC"}, StartWalk(limit, by, order)
  PROVE  ProductsInv'
<1>1. /\ walk' = [NoWalk EXCEPT !.pc = "rows", !.limit = limit, !.by = by,
                                !.order = order, !.start = Listed(products)]
      /\ UNCHANGED <<products, call, clean>>
  BY DEF StartWalk
<1>2. limit \in Nat \ {0} /\ Listed(products) \in SUBSET ProductIds
  BY CallTypes, ListedFinite, ProductsAssumption
<1>3. /\ walk'.pc = "rows" /\ walk'.page = 1 /\ walk'.pages = 1 /\ walk'.limit = limit
      /\ walk'.by = by /\ walk'.order = order
      /\ walk'.shown = <<>> /\ walk'.start = Listed(products)
      /\ walk'.shrunk = FALSE /\ walk'.grown = FALSE /\ walk'.moved = FALSE
  BY <1>1 DEF NoWalk
<1>4. walk' \in WalkTypes
  <2>1. <<>> \in Seq(ProductIds) /\ 1 \in Nat \ {0}
    OBVIOUS
  <2> QED BY <1>1, <1>2, <2>1 DEF NoWalk, WalkTypes
<1>5. AskedFor' = 0
  BY <1>2, <1>3 DEF AskedFor, Skipped
<1>6. \A i \in Listed(products) : Ahead(i)' >= 0
  <2> TAKE i \in Listed(products)
  <2>1. Ahead(i)' = Cardinality(Earlier(by, order, i))
    BY <1>1, <1>3 DEF Ahead, Earlier, Before, Listed
  <2>2. Cardinality(Earlier(by, order, i)) \in 0 .. Cardinality(Listed(products)) - 1
    BY CallTypes, ListingProps
  <2>3. Cardinality(Listed(products)) \in Nat
    BY CallTypes, ListedFinite
  <2> QED BY <2>1, <2>2, <2>3
<1>7. Range(walk'.shown) = {} /\ IsInjective(walk'.shown)
  BY <1>3 DEF Range, IsInjective
<1>8. products' = products
  BY <1>1
<1>9. WalkInv'
  BY <1>3, <1>5, <1>6, <1>7, <1>8 DEF WalkInv
<1>10. WalkShowsAll'
  BY <1>3 DEF WalkShowsAll
<1> QED BY <1>1, <1>4, <1>9, <1>10, WalkStep

LEMMA PageRowsInv ==
  ASSUME ProductsInv, PageRows
  PROVE  ProductsInv'
<1>1. PICK P : P = PageOf(Listing(walk.by, walk.order), walk.page, walk.limit)
  OBVIOUS
<1>2. PICK S : S = Skipped(walk.page, walk.limit)
  OBVIOUS
<1>3. /\ walk.pc = "rows" /\ walk' = [walk EXCEPT !.pc = "count", !.shown = @ \o P]
      /\ UNCHANGED <<products, call, clean>>
  BY <1>1 DEF PageRows
<1>4. /\ P \in Seq(ProductIds) /\ IsInjective(P)
      /\ \A i \in Range(P) : i \in Listed(products) /\ Ahead(i) >= S
                             /\ Ahead(i) < S + walk.limit
      /\ \A i \in Listed(products) : Ahead(i) >= S /\ Ahead(i) < S + walk.limit
                                     => i \in Range(P)
  <2>1. PICK order : order = walk.order
    OBVIOUS
  <2>2. PICK by \in SortColumns : by = walk.by
    BY WalkPlaces
  <2>3. PICK page \in Nat \ {0} : page = walk.page
    BY WalkPlaces
  <2>4. PICK limit \in Nat \ {0} : limit = walk.limit
    BY WalkPlaces
  <2>5. P = PageOf(Listing(by, order), page, limit) /\ S = Skipped(page, limit)
    BY <1>1, <1>2, <2>1, <2>2, <2>3, <2>4
  <2>6. \A i : Ahead(i) = Cardinality(Earlier(by, order, i))
    BY <2>1, <2>2, WalkPlaces
  <2>7. /\ P \in Seq(ProductIds) /\ IsInjective(P)
        /\ \A i \in Range(P) : /\ i \in Listed(products)
                               /\ Cardinality(Earlier(by, order, i)) >= S
                               /\ Cardinality(Earlier(by, order, i)) < S + limit
        /\ \A i \in Listed(products) : /\ Cardinality(Earlier(by, order, i)) >= S
                                       /\ Cardinality(Earlier(by, order, i)) < S + limit
                                      => i \in Range(P)
    BY <2>5, CallTypes, PageShows
  <2> QED BY <2>4, <2>6, <2>7
<1>5. /\ S \in Nat /\ walk.limit \in Nat \ {0}
      /\ \A i \in Listed(products) : Ahead(i) \in Nat
  <2>1. S \in Nat /\ walk.limit \in Nat \ {0}
    BY <1>2, WalkPlaces, SkippedProps
  <2>2. \A i \in Listed(products) : Ahead(i) \in 0 .. Cardinality(Listed(products)) - 1
    BY WalkPlaces
  <2>3. Cardinality(Listed(products)) \in Nat
    BY CallTypes, ListedFinite
  <2> QED BY <2>1, <2>2, <2>3
<1>6. /\ walk.shown \o P \in Seq(ProductIds)
      /\ Range(walk.shown \o P) = Range(walk.shown) \cup Range(P)
      /\ IsInjective(walk.shown) /\ Range(walk.shown) \cap Range(P) = {}
           => IsInjective(walk.shown \o P)
  BY <1>4, WalkPlaces, ShownMore
<1>7. /\ walk'.pc = "count" /\ walk'.page = walk.page /\ walk'.limit = walk.limit
      /\ walk'.by = walk.by /\ walk'.order = walk.order
      /\ walk'.start = walk.start /\ walk'.moved = walk.moved
      /\ walk'.shrunk = walk.shrunk /\ walk'.grown = walk.grown
      /\ walk'.shown = walk.shown \o P
      /\ walk' \in WalkTypes
  BY <1>3, <1>6, CallTypes DEF WalkTypes
<1>8. AskedFor = S /\ AskedFor' = S + walk.limit
  BY <1>2, <1>3, <1>5, <1>7 DEF AskedFor
<1>9. products' = products /\ \A i : Ahead(i)' = Ahead(i)
  BY <1>3, <1>7 DEF Ahead, Before, Listed
<1>10. ASSUME ~walk.shrunk, ~walk.moved
       PROVE  /\ walk.start \subseteq Listed(products)
              /\ \A i \in walk.start : i \in Range(walk.shown \o P)
                                        \/ Ahead(i) >= S + walk.limit
  <2>1. /\ walk.start \subseteq Listed(products)
        /\ \A i \in walk.start : i \in Range(walk.shown) \/ Ahead(i) >= S
    BY <1>3, <1>8, <1>10, CallTypes DEF WalkInv
  <2> QED BY <1>4, <1>5, <1>6, <2>1
<1>11. ASSUME ~walk.grown, ~walk.moved
       PROVE  /\ IsInjective(walk.shown \o P)
              /\ \A i \in Range(walk.shown \o P) \cap Listed(products) :
                   Ahead(i) < S + walk.limit
  <2>1. /\ IsInjective(walk.shown)
        /\ \A i \in Range(walk.shown) \cap Listed(products) : Ahead(i) < S
    BY <1>3, <1>8, <1>11, CallTypes DEF WalkInv
  <2>2. Range(walk.shown) \cap Range(P) = {}
    BY <1>4, <1>5, <2>1
  <2> QED BY <1>4, <1>5, <1>6, <2>1, <2>2
<1>12. WalkInv' /\ WalkShowsAll'
  BY <1>7, <1>8, <1>9, <1>10, <1>11, CallTypes DEF WalkInv, WalkShowsAll
<1> QED BY <1>3, <1>7, <1>12, WalkStep

LEMMA PageCountInv ==
  ASSUME ProductsInv, PageCount
  PROVE  ProductsInv'
<1>1. PICK total : total = Cardinality(Listed(products))
  OBVIOUS
<1>2. PICK pages : pages = Pages(total, walk.limit)
  OBVIOUS
<1>3. PICK S : S = Skipped(walk.page, walk.limit)
  OBVIOUS
<1>4. /\ walk.pc = "count"
      /\ walk' = [walk EXCEPT !.pages = pages,
                              !.pc = IF walk.page < pages THEN "rows" ELSE "done",
                              !.page = IF walk.page < pages THEN @ + 1 ELSE @]
      /\ UNCHANGED <<products, call, clean>>
  BY <1>1, <1>2 DEF PageCount
<1>5. /\ walk.page \in Nat \ {0} /\ walk.limit \in Nat \ {0} /\ total \in Nat
      /\ \A i \in Listed(products) : Ahead(i) \in 0 .. total - 1
  BY <1>1, CallTypes, WalkPlaces, ListedFinite
<1>6. /\ pages \in Nat \ {0} /\ S \in Nat
      /\ walk.page >= pages => total <= S + walk.limit
      /\ Skipped(walk.page + 1, walk.limit) = S + walk.limit
  BY <1>2, <1>3, <1>5, PagesEnough, SkippedProps
<1>7. /\ walk'.limit = walk.limit /\ walk'.by = walk.by /\ walk'.order = walk.order
      /\ walk'.start = walk.start /\ walk'.moved = walk.moved
      /\ walk'.shrunk = walk.shrunk /\ walk'.grown = walk.grown
      /\ walk'.shown = walk.shown
      /\ walk.page < pages => walk'.pc = "rows" /\ walk'.page = walk.page + 1
      /\ ~(walk.page < pages) => walk'.pc = "done"
      /\ walk' \in WalkTypes
  <2>1. PICK next : next = IF walk.page < pages THEN walk.page + 1 ELSE walk.page
    OBVIOUS
  <2>2. PICK step : step = IF walk.page < pages THEN "rows" ELSE "done"
    OBVIOUS
  <2>3. next \in Nat \ {0} /\ step \in {"idle", "rows", "count", "done"}
    BY <1>5, <2>1, <2>2
  <2>4. walk' = [walk EXCEPT !.pages = pages, !.pc = step, !.page = next]
    BY <1>4, <2>1, <2>2
  <2>5. walk \in WalkTypes
    BY CallTypes
  <2>6. /\ walk'.limit = walk.limit /\ walk'.by = walk.by /\ walk'.order = walk.order
      /\ walk'.start = walk.start /\ walk'.moved = walk.moved
        /\ walk'.shrunk = walk.shrunk /\ walk'.grown = walk.grown
        /\ walk'.shown = walk.shown /\ walk'.pc = step /\ walk'.page = next
    BY <2>4, <2>5 DEF WalkTypes
  <2>7. walk' \in WalkTypes
    BY <1>6, <2>3, <2>4, <2>5 DEF WalkTypes
  <2> QED BY <2>1, <2>2, <2>6, <2>7
<1>8. AskedFor = S + walk.limit /\ (walk.page < pages => AskedFor' = AskedFor)
  <2>1. AskedFor = S + walk.limit
    BY <1>3, <1>4 DEF AskedFor
  <2>2. ASSUME walk.page < pages PROVE AskedFor' = S + walk.limit
    <3>1. AskedFor' = Skipped(walk.page + 1, walk.limit) + 0
      BY <1>7, <2>2 DEF AskedFor
    <3> QED BY <1>5, <1>6, <3>1
  <2> QED BY <2>1, <2>2
<1>9. products' = products /\ \A i : Ahead(i)' = Ahead(i)
  BY <1>4, <1>7 DEF Ahead, Before, Listed
<1>10. CASE walk.page < pages
  <2>1. WalkInv' /\ WalkShowsAll'
    BY <1>4, <1>7, <1>8, <1>9, <1>10, CallTypes DEF WalkInv, WalkShowsAll
  <2> QED BY <1>4, <1>7, <2>1, WalkStep
<1>11. CASE ~(walk.page < pages)
  <2>1. \A i \in Listed(products) : ~(Ahead(i) >= S + walk.limit)
    BY <1>5, <1>6, <1>11
  <2>2. walk.shrunk \/ walk.moved \/ walk.start \subseteq Range(walk.shown)
    BY <1>4, <1>8, <2>1, CallTypes DEF WalkInv
  <2>3. walk.grown \/ walk.moved \/ IsInjective(walk.shown)
    BY <1>4, CallTypes DEF WalkInv
  <2>4. WalkInv' /\ WalkShowsAll'
    BY <1>7, <1>11, <2>2, <2>3, CallTypes DEF WalkInv, WalkShowsAll
  <2> QED BY <1>4, <1>7, <2>4, WalkStep
<1> QED BY <1>10, <1>11

LEMMA ProductsNextInv == ProductsInv /\ [ProductsNext]_productsVars => ProductsInv'
<1> SUFFICES ASSUME ProductsInv, [ProductsNext]_productsVars PROVE ProductsInv'
  OBVIOUS
<1> USE DEF ProductsNext
<1>1. ASSUME NEW limit \in Limits, NEW sort \in Sorts, StartWalk(limit, sort[1], sort[2])
      PROVE  ProductsInv'
  BY <1>1, StartWalkInv, ProductsAssumption
<1>2. ASSUME NEW i \in ProductIds, NEW title \in Titles, NEW at \in 0..MaxTime,
             Create(i, title, at)
      PROVE  ProductsInv'
  BY <1>2, CreateInv
<1>3. ASSUME NEW i \in ProductIds, NEW c \in Calls, Delete(c, i) PROVE ProductsInv'
  <2>1. Found(i) /\ Begin(c, "write", "remove", i, NoValue, NoValue)
    BY <1>3 DEF Delete
  <2>2. Restrict(products[i], {}) \in Givens
    <3>1. products[i] \in Rows
      BY <2>1, CallTypes DEF Found
    <3> QED BY <3>1 DEF Givens
  <2> QED BY <2>1, <2>2, BeginInv
<1>4. ASSUME NEW i \in ProductIds, NEW c \in Calls, NEW given \in Givens,
             Update(c, i, given)
      PROVE  ProductsInv'
  BY <1>4, BeginInv DEF Update
<1>5. ASSUME UNCHANGED productsVars PROVE ProductsInv'
  BY <1>5, CallStep, CallTypes DEF productsVars
<1>6. ASSUME EndWalk PROVE ProductsInv'
  <2>1. walk' = NoWalk /\ UNCHANGED <<products, call, clean>>
    BY <1>6 DEF EndWalk
  <2>2. walk' \in WalkTypes
    <3>1. <<>> \in Seq(ProductIds) /\ 1 \in Nat \ {0} /\ {} \in SUBSET ProductIds
      OBVIOUS
    <3> QED BY <2>1, <3>1 DEF NoWalk, WalkTypes, SortColumns
  <2>3. walk'.pc = "idle" /\ ~walk'.moved
    BY <2>1 DEF NoWalk
  <2>4. WalkInv' /\ WalkShowsAll'
    BY <2>3 DEF WalkInv, WalkShowsAll
  <2> QED BY <2>1, <2>2, <2>4, WalkStep
<1> QED BY <1>1, <1>2, <1>3, <1>4, <1>5, <1>6, SaveLoadInv, SaveWriteInv,
           DeleteWriteInv, FailsInv, PageRowsInv, PageCountInv

LEMMA ProductsInvariant == ProductsSpec => []ProductsInv
<1> QED BY ProductsInitInv, ProductsNextInv, PTL DEF ProductsSpec

(* Types of the products, the calls and the pages (product.entity,         *)
(* products.service); a listing has one page at least.                     *)
THEOREM ProductsTypeCorrect == ProductsSpec => []ProductsTypeOK
<1>1. ProductsInv => ProductsTypeOK
  BY DEF ProductsInv
<1> QED BY <1>1, ProductsInvariant, PTL

(* A walk through the pages misses a product that was listed all along     *)
(* only if another one left the listing, and shows one twice only if       *)
(* another one entered it - or if an update moved one within the listing,  *)
(* which happens to a walk by title alone (products.service.findAll, its   *)
(* two statements).                                                        *)
THEOREM WalksShowAll == ProductsSpec => []WalkShowsAll
<1>1. ProductsInv => WalkShowsAll
  BY DEF ProductsInv
<1> QED BY <1>1, ProductsInvariant, PTL

-----------------------------------------------------------------------------
ChangedBy(c, i) ==
  LET me == call[c] IN
  /\ me.id = i /\ At(c, "write") /\ call'[c] = Idle
  /\ \/ ~clean[c]
     \/ me.op = "remove" /\ products'[i] = [products[i] EXCEPT !.deleted = TRUE]
     \/ me.op = "update" /\ products'[i] = Over(me.given, products[i])

(* Only a write of a call on it changes a product that is there.           *)
LEMMA ChangesItsOwn ==
  ASSUME ProductsInv, ProductsNext, NEW i \in ProductIds, products[i] # NoValue,
         products'[i] # products[i]
  PROVE  \E c \in Calls : ChangedBy(c, i)
<1>1. products \in [ProductIds -> Rows \cup {NoValue}]
  BY CallTypes
<1>2. \A c, j, row : Store(c, j, row) => products' = [products EXCEPT ![j] = row]
  BY DEF Store
<1>3. ASSUME NEW c \in Calls, SaveWrite(c) PROVE ChangedBy(c, i)
  <2>1. PICK me : me = call[c]
    OBVIOUS
  <2>2. PICK row : row = products[i]
    OBVIOUS
  <2>3. /\ me.pc = "write" /\ me.op = "update" /\ SavingInv(me, clean[c])
        /\ call' = [call EXCEPT ![c] = Idle] /\ me \in CallRecords
        /\ products' = [products EXCEPT ![me.id] = Over(me.entity, products[me.id])]
    BY <1>2, <1>3, <2>1, CallTypes DEF SaveWrite, At, SavingOf, EndCall
  <2>4. me.id = i /\ products'[i] = Over(me.entity, row)
    BY <1>1, <2>2, <2>3
  <2>5. call'[c] = Idle
    BY <2>3, CallTypes
  <2>6. CASE clean[c]
    <3>1. products'[i] = Merge(row, me.given)
      BY <2>2, <2>3, <2>4, <2>6 DEF SavingInv
    <3>2. products'[i] = Over(me.given, row)
      BY <3>1 DEF Merge
    <3> QED BY <2>1, <2>2, <2>3, <2>4, <2>5, <3>2 DEF ChangedBy, At
  <2>7. CASE ~clean[c]
    BY <2>1, <2>3, <2>4, <2>5, <2>7 DEF ChangedBy, At
  <2> QED BY <2>6, <2>7
<1>4. ASSUME NEW c \in Calls, DeleteWrite(c) PROVE ChangedBy(c, i)
  <2>1. /\ At(c, "write") /\ call[c].op = "remove" /\ call' = [call EXCEPT ![c] = Idle]
        /\ products' = [products EXCEPT ![call[c].id] =
                          [products[call[c].id] EXCEPT !.deleted = TRUE]]
    BY <1>2, <1>4 DEF DeleteWrite, EndCall
  <2>2. call[c].id = i /\ products'[i] = [products[i] EXCEPT !.deleted = TRUE]
    BY <1>1, <2>1
  <2>3. call'[c] = Idle
    BY <2>1, CallTypes
  <2> QED BY <2>1, <2>2, <2>3 DEF ChangedBy
<1>5. ASSUME NEW j \in ProductIds, NEW title \in Titles, NEW at \in 0..MaxTime,
             Create(j, title, at)
      PROVE  FALSE
  BY <1>1, <1>2, <1>5 DEF Create
<1>6. (\E c \in Calls : SaveWrite(c) \/ DeleteWrite(c)) \/ products' = products
  BY <1>5 DEF ProductsNext, Delete, Update, Begin, SaveLoad, Fails, StartWalk,
              PageRows, PageCount, EndWalk
<1> QED BY <1>3, <1>4, <1>6

(* A product changes only by a call of its own, and by nothing the call    *)
(* was not asked for, unless another call wrote the row after it was read  *)
(* (products.service.update, remove and the two statements of save).       *)
THEOREM UpdatesKeepTheRest == ProductsSpec => UpdateKeepsTheRest
<1> DEFINE Step == \A i \in ProductIds :
                     (products[i] # NoValue /\ products'[i] # products[i]) =>
                       \E c \in Calls : ChangedBy(c, i)
<1>1. ASSUME ProductsInv, [ProductsNext]_productsVars PROVE [Step]_productsVars
  <2>1. CASE ProductsNext
    BY <1>1, <2>1, ChangesItsOwn
  <2>2. CASE UNCHANGED productsVars
    BY <2>2
  <2> QED BY <1>1, <2>1, <2>2
<1>2. ProductsSpec => [][Step]_productsVars
  <2> HIDE DEF Step
  <2> QED BY <1>1, ProductsInvariant, PTL DEF ProductsSpec
<1> QED BY <1>2 DEF ChangedBy, UpdateKeepsTheRest
=============================================================================
