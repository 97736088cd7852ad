----------------------- MODULE TransfersRepositoryProofs -----------------------
(***************************************************************************)
(* Proofs about TransfersRepository: for any number of transfers, writers, *)
(* page sizes and calls, a transfer has one document, a client that lists  *)
(* the transfers page by page misses none of those it is owed, and the     *)
(* pages of any size partition what matches a filter.                      *)
(*                                                                         *)
(* The argument for the listing: an owed transfer has at least as many     *)
(* newer transfers in front of it as the pages read so far have places     *)
(* (OwedAhead).  A write that is not receding only ever adds to what is in *)
(* front of it; the next page either shows it, or is full and in front of  *)
(* it.                                                                     *)
(*                                                                         *)
(* The argument for the pages: all but the last are full (PagesOfOrder),   *)
(* so that the first k put together are the first documents (Flattened).   *)
(***************************************************************************)
EXTENDS TransfersRepository, FiniteSetTheorems, WellFoundedInduction, TLAPS

Listings == [at : {"idle", "find", "done"}, state : Filters, asked : Nat \ {0},
             index : Nat, length : Nat]

Calls == [op : {"none", "add", "update", "remove", "store"},
          at : {"check", "write", "done"}, todo : Seq(Docs)]

\* What the listing shows, and the ids of those in it that are newer than d.
Listed == Matching(docs, listing.state)

NewerIn(ds, d) == {e \in ds : e.updatedAt > d.updatedAt}
IdsOf(ds)      == {e.id : e \in ds}

OwedAhead ==
    \A id \in owed : \E d \in Listed :
        /\ d.id = id
        /\ listing.index * PageSize(listing.asked) <= Cardinality(IdsOf(NewerIn(Listed, d)))

OwedOnlyWhileReading == listing.at # "find" => owed = {}

RepositoryTypes ==
    /\ docs \subseteq Docs
    /\ IsFiniteSet(docs)
    /\ clock \in 1..MaxTime
    /\ call \in [Writers -> Calls]
    /\ listing \in Listings
    /\ listing.length <= MaxEntries
    /\ owed \subseteq Ids

RepositoryInv == RepositoryTypes /\ OneDocumentEach /\ OwedAhead /\ OwedOnlyWhileReading

-----------------------------------------------------------------------------
(* Finite sets.                                                             *)

\* A set of documents has at most as many ids.
LEMMA FiniteIds ==
    ASSUME NEW S, IsFiniteSet(S)
    PROVE  IsFiniteSet(IdsOf(S))
<1> DEFINE f == [e \in S |-> e.id]
<1>1. f \in Surjection(S, IdsOf(S))
  BY DEF Surjection, IdsOf
<1> QED
  BY <1>1, FS_Surjection

\* A sequence of a finite set with each element once has every element.
LEMMA OrdersComplete ==
    ASSUME NEW S, IsFiniteSet(S), NEW s \in SetToSeqs(S)
    PROVE  /\ s \in [1..Cardinality(S) -> S]
           /\ Cardinality(S) \in Nat
           /\ Len(s) = Cardinality(S)
           /\ \A e \in S : \E i \in 1..Cardinality(S) : s[i] = e
           /\ \A i, j \in 1..Cardinality(S) : s[i] = s[j] => i = j
<1> DEFINE n == Cardinality(S)
<1>1. n \in Nat
  BY FS_CardinalityType
<1>2. s \in [1..n -> S] /\ \A i, j \in 1..n : i # j => s[i] # s[j]
  BY DEF SetToSeqs
<1>3. s \in Injection(1..n, S)
  BY <1>2 DEF Injection, IsInjective
<1>4. Cardinality(1..n) = n
  <2>1. Cardinality(1..n) = IF 1 > n THEN 0 ELSE n - 1 + 1
    BY <1>1, FS_Interval
  <2> QED
    BY <1>1, <2>1
<1>5. s \in Surjection(1..n, S)
  BY <1>3, <1>4, FS_Injection
<1>6. Len(s) = n
  BY <1>1, <1>2
<1> QED
  BY <1>1, <1>2, <1>5, <1>6 DEF Surjection

\* The place of a document with a time of its own: as many ids are newer as documents
\* are in front of it.
LEMMA PlaceInOrder ==
    ASSUME NEW S \in SUBSET Docs, IsFiniteSet(S), NEW s \in Orders(S),
           \A d, e \in S : d.id = e.id => d = e,
           NEW p \in 1..Cardinality(S),
           \A e \in S : e # s[p] => e.updatedAt # s[p].updatedAt
    PROVE  Cardinality(IdsOf(NewerIn(S, s[p]))) = p - 1
<1> DEFINE n     == Cardinality(S)
           front == IdsOf(NewerIn(S, s[p]))
           f     == [j \in 1..(p - 1) |-> s[j].id]
<1>1. s \in SetToSeqs(S) /\ \A i, j \in DOMAIN s : i < j => Before(s[i], s[j])
  BY DEF Orders
<1>2. /\ s \in [1..n -> S]
      /\ n \in Nat
      /\ \A e \in S : \E i \in 1..n : s[i] = e
      /\ \A i, j \in 1..n : s[i] = s[j] => i = j
  BY <1>1, OrdersComplete
<1>3. \A e \in S : e.updatedAt \in Int
  BY DEF Docs
<1>4. \A j \in 1..n : s[j].updatedAt > s[p].updatedAt <=> j < p
  <2> SUFFICES ASSUME NEW j \in 1..n
               PROVE  s[j].updatedAt > s[p].updatedAt <=> j < p
    OBVIOUS
  <2>1. s[j] \in S /\ s[p] \in S /\ DOMAIN s = 1..n
    BY <1>2
  <2>2. CASE j < p
    <3>1. s[j].updatedAt >= s[p].updatedAt
      BY <1>1, <2>1, <2>2 DEF Before
    <3>2. s[j].updatedAt # s[p].updatedAt
      BY <1>2, <2>1, <2>2
    <3> QED
      BY <1>3, <2>1, <2>2, <3>1, <3>2
  <2>3. CASE j = p
    BY <1>3, <2>1, <2>3
  <2>4. CASE p < j
    <3>1. s[p].updatedAt >= s[j].updatedAt
      BY <1>1, <2>1, <2>4 DEF Before
    <3> QED
      BY <1>3, <2>1, <2>4, <3>1
  <2> QED
    BY <1>2, <2>2, <2>3, <2>4
<1>5. front = {s[j].id : j \in 1..(p - 1)}
  <2>1. ASSUME NEW e \in NewerIn(S, s[p])
        PROVE  \E j \in 1..(p - 1) : e.id = s[j].id
    <3>1. PICK j \in 1..n : s[j] = e
      BY <1>2, <2>1 DEF NewerIn
    <3>2. j < p
      BY <1>4, <2>1, <3>1 DEF NewerIn
    <3> QED
      BY <1>2, <3>1, <3>2
  <2>2. ASSUME NEW j \in 1..(p - 1)
        PROVE  s[j] \in NewerIn(S, s[p])
    <3>1. j \in 1..n /\ j < p
      BY <1>2, <2>2
    <3> QED
      BY <1>2, <1>4, <3>1 DEF NewerIn
  <2> QED
    BY <2>1, <2>2 DEF IdsOf
<1>6. f \in Surjection(1..(p - 1), front)
  BY <1>5 DEF Surjection
<1>7. f \in Injection(1..(p - 1), front)
  <2>1. f \in [1..(p - 1) -> front]
    BY <1>5
  <2>2. ASSUME NEW i \in 1..(p - 1), NEW j \in 1..(p - 1), f[i] = f[j]
        PROVE  i = j
    <3>1. i \in 1..n /\ j \in 1..n
      BY <1>2
    <3>2. s[i].id = s[j].id
      BY <2>2
    <3>3. s[i] = s[j]
      BY <1>2, <3>1, <3>2
    <3> QED
      BY <1>2, <3>1, <3>3
  <2> QED
    BY <2>1, <2>2 DEF Injection, IsInjective
<1>8. IsFiniteSet(1..(p - 1)) /\ Cardinality(1..(p - 1)) = p - 1
  <2>1. p - 1 \in Int /\ 1 \in Int /\ p >= 1
    BY <1>2
  <2>2. /\ IsFiniteSet(1..(p - 1))
        /\ Cardinality(1..(p - 1)) = IF 1 > p - 1 THEN 0 ELSE (p - 1) - 1 + 1
    BY <2>1, FS_Interval
  <2> QED
    BY <1>2, <2>1, <2>2
<1> QED
  BY <1>6, <1>7, <1>8, FS_Surjection

-----------------------------------------------------------------------------
(* The first state.                                                         *)

LEMMA InitRepository == Init => RepositoryInv
<1> SUFFICES ASSUME Init
             PROVE  RepositoryInv
  OBVIOUS
<1>1. PICK known \in SetToAllKPermutations(Ids) :
        \E states \in [DOMAIN known -> States] :
           docs = {[id |-> known[i], state |-> states[i], updatedAt |-> i] : i \in DOMAIN known}
  BY DEF Init
<1>2. PICK states \in [DOMAIN known -> States] :
        docs = {[id |-> known[i], state |-> states[i], updatedAt |-> i] : i \in DOMAIN known}
  BY <1>1
<1>3. PICK s \in SUBSET Ids : known \in SetToSeqs(s)
  BY <1>1 DEF SetToAllKPermutations
<1> DEFINE n    == Cardinality(s)
           doc  == [i \in 1..n |-> [id |-> known[i], state |-> states[i], updatedAt |-> i]]
<1>4. IsFiniteSet(s) /\ n <= Cardinality(Ids)
  BY <1>3, RepositoryAssumption, FS_Subset
<1>5. /\ known \in [1..n -> s]
      /\ n \in Nat
      /\ \A i, j \in 1..n : known[i] = known[j] => i = j
  BY <1>3, <1>4, OrdersComplete
<1>6. n <= MaxTime
  BY <1>4, <1>5, RepositoryAssumption
<1>7. docs \subseteq Docs
  <2>1. ASSUME NEW i \in 1..n
        PROVE  [id |-> known[i], state |-> states[i], updatedAt |-> i] \in Docs
    <3>1. i \in 1..MaxTime
      BY <1>5, <1>6, RepositoryAssumption
    <3> QED
      BY <1>2, <1>3, <1>5, <3>1 DEF Docs
  <2> QED
    BY <1>2, <1>5, <2>1
<1>8. IsFiniteSet(docs)
  <2>1. doc \in Surjection(1..n, docs)
    BY <1>2, <1>5 DEF Surjection
  <2>2. IsFiniteSet(1..n)
    BY <1>5, FS_Interval
  <2> QED
    BY <2>1, <2>2, FS_Surjection
<1>9. OneDocumentEach
  BY <1>2, <1>5 DEF OneDocumentEach
<1>10. clock \in 1..MaxTime /\ call \in [Writers -> Calls] /\ owed \subseteq Ids
  BY RepositoryAssumption DEF Init, Calls, NoCall
<1>11. listing \in Listings /\ listing.length <= MaxEntries /\ owed = {}
  BY RepositoryAssumption DEF Init, NoListing, Listings, Filters
<1> QED
  BY <1>7, <1>8, <1>9, <1>10, <1>11
  DEF RepositoryInv, RepositoryTypes, OwedAhead, OwedOnlyWhileReading

-----------------------------------------------------------------------------
(* The writers.                                                             *)

\* What a write does to a listing.
LEMMA WrittenKeepsOwed ==
    ASSUME RepositoryInv, NEW new \in SUBSET Docs, IsFiniteSet(new), Written(new),
           UNCHANGED listing
    PROVE  OwedAhead' /\ OwedOnlyWhileReading' /\ owed' \subseteq Ids
<1> DEFINE then == Matching(new, listing.state)
<1>1. owed' \subseteq owed
  BY DEF Written
<1>2. OwedOnlyWhileReading' /\ owed' \subseteq Ids
  BY <1>1 DEF RepositoryInv, RepositoryTypes, OwedOnlyWhileReading
<1>3. ASSUME NEW id \in owed'
      PROVE  \E d \in Listed' :
                /\ d.id = id
                /\ (listing.index * PageSize(listing.asked))'
                      <= Cardinality(IdsOf(NewerIn(Listed', d)))
  <2>1. ~Receding(new) /\ id \in owed \ {d.id : d \in docs \ new}
    BY <1>3 DEF Written
  <2>2. PICK d \in Listed :
          /\ d.id = id
          /\ listing.index * PageSize(listing.asked) <= Cardinality(IdsOf(NewerIn(Listed, d)))
    BY <2>1 DEF RepositoryInv, OwedAhead
  <2>3. d \in then
    BY <2>1, <2>2 DEF Matching, Listed
  <2>4. \A e \in Listed : \E o \in then : o.id = e.id /\ ~(o.updatedAt < e.updatedAt)
    BY <2>1 DEF Receding, Listed
  <2>5. Listed \subseteq Docs /\ then \subseteq Docs
    BY DEF Listed, Matching, RepositoryInv, RepositoryTypes
  <2>6. IdsOf(NewerIn(Listed, d)) \subseteq IdsOf(NewerIn(then, d))
    <3>1. ASSUME NEW e \in NewerIn(Listed, d)
          PROVE  \E o \in NewerIn(then, d) : o.id = e.id
      <4>1. e \in Listed /\ e.updatedAt > d.updatedAt
        BY <3>1 DEF NewerIn
      <4>2. PICK o \in then : o.id = e.id /\ ~(o.updatedAt < e.updatedAt)
        BY <2>4, <4>1
      <4>3. e.updatedAt \in Int /\ o.updatedAt \in Int /\ d.updatedAt \in Int
        BY <2>2, <2>5, <4>1, <4>2 DEF Docs
      <4>4. o.updatedAt > d.updatedAt
        BY <4>1, <4>2, <4>3
      <4> QED
        BY <4>2, <4>4 DEF NewerIn
    <3> QED
      BY <3>1 DEF IdsOf
  <2>7. IsFiniteSet(IdsOf(NewerIn(then, d))) /\ IsFiniteSet(IdsOf(NewerIn(Listed, d)))
    <3>1. NewerIn(then, d) \subseteq new /\ NewerIn(Listed, d) \subseteq docs
      BY DEF NewerIn, Matching, Listed
    <3>2. IsFiniteSet(NewerIn(then, d)) /\ IsFiniteSet(NewerIn(Listed, d))
      BY <3>1, FS_Subset DEF RepositoryInv, RepositoryTypes
    <3> QED
      BY <3>2, FiniteIds
  <2>8. /\ Cardinality(IdsOf(NewerIn(Listed, d))) <= Cardinality(IdsOf(NewerIn(then, d)))
        /\ Cardinality(IdsOf(NewerIn(Listed, d))) \in Nat
        /\ Cardinality(IdsOf(NewerIn(then, d))) \in Nat
    BY <2>6, <2>7, FS_Subset, FS_CardinalityType
  <2>9. listing.index * PageSize(listing.asked) \in Nat
    BY RepositoryAssumption DEF RepositoryInv, RepositoryTypes, Listings, PageSize
  <2>10. listing.index * PageSize(listing.asked) <= Cardinality(IdsOf(NewerIn(then, d)))
    BY <2>2, <2>8, <2>9
  <2>11. Listed' = then /\ (listing.index * PageSize(listing.asked))'
                              = listing.index * PageSize(listing.asked)
    BY DEF Written, Listed, PageSize
  <2> QED
    BY <2>2, <2>3, <2>10, <2>11
<1> QED
  BY <1>2, <1>3 DEF OwedAhead

\* The documents of a call: what is written is a document.
LEMMA ItemIsDocument ==
    ASSUME RepositoryInv, NEW w \in Writers, call[w].todo # <<>>
    PROVE  Item(w) \in Docs /\ Tail(call[w].todo) \in Seq(Docs)
<1>1. call[w].todo \in Seq(Docs)
  BY DEF RepositoryInv, RepositoryTypes, Calls
<1> QED
  BY <1>1 DEF Item

\* What remains of the calls when one returns.
LEMMA ReturnKeepsCalls ==
    ASSUME RepositoryInv, NEW w \in Writers, Return(w)
    PROVE  call' \in [Writers -> Calls]
BY DEF RepositoryInv, RepositoryTypes, Calls, Return, NoCall

\* A call begins.
LEMMA CallInv ==
    ASSUME RepositoryInv, NEW w \in Writers,
           NEW op \in {"add", "update", "remove", "store"}, NEW todo \in Seq(Docs),
           Call(w, op, todo)
    PROVE  RepositoryInv'
<1>1. call' \in [Writers -> Calls]
  BY DEF RepositoryInv, RepositoryTypes, Calls, Call
<1>2. clock' \in 1..MaxTime
  BY RepositoryAssumption DEF RepositoryInv, RepositoryTypes, Call
<1> QED
  BY <1>1, <1>2
  DEF RepositoryInv, RepositoryTypes, OneDocumentEach, OwedAhead, OwedOnlyWhileReading,
      Listed, Call

\* What a write may leave: what was there, without the document of an id, or with that
\* document in its place.
Outcomes(d) == {docs, docs \ Held(d.id), (docs \ Held(d.id)) \cup {d}}

\* Each of them is a finite set with one document of each id.
LEMMA OutcomesProper ==
    ASSUME RepositoryInv, NEW d \in Docs, NEW new \in Outcomes(d)
    PROVE  /\ new \subseteq Docs
           /\ IsFiniteSet(new)
           /\ \A e, o \in new : e.id = o.id => e = o
<1>1. IsFiniteSet(docs) /\ docs \subseteq Docs
  BY DEF RepositoryInv, RepositoryTypes
<1>2. IsFiniteSet(docs \ Held(d.id))
  BY <1>1, FS_Subset
<1>3. IsFiniteSet((docs \ Held(d.id)) \cup {d})
  BY <1>2, FS_AddElement
<1> QED
  BY <1>1, <1>2, <1>3 DEF Outcomes, Held, RepositoryInv, OneDocumentEach

\* A write keeps the invariant; the calls are left to the actions.
LEMMA WrittenInv ==
    ASSUME RepositoryInv, NEW d \in Docs, NEW new \in Outcomes(d), Written(new),
           UNCHANGED <<clock, listing>>, call' \in [Writers -> Calls]
    PROVE  RepositoryInv'
<1>1. /\ new \subseteq Docs
      /\ IsFiniteSet(new)
      /\ \A e, o \in new : e.id = o.id => e = o
  BY OutcomesProper
<1>2. OwedAhead' /\ OwedOnlyWhileReading' /\ owed' \subseteq Ids
  BY <1>1, WrittenKeepsOwed
<1>3. docs' = new
  BY DEF Written
<1>4. OneDocumentEach'
  BY <1>1, <1>3 DEF OneDocumentEach
<1>5. RepositoryTypes'
  BY <1>1, <1>2, <1>3 DEF RepositoryInv, RepositoryTypes
<1> QED
  BY <1>2, <1>4, <1>5 DEF RepositoryInv

LEMMA AddTransferInv ==
    ASSUME RepositoryInv, NEW w \in Writers, AddTransfer(w)
    PROVE  RepositoryInv'
<1>1. Item(w) \in Docs
  BY ItemIsDocument DEF At, AddTransfer
<1>2. Inserted(Item(w)) \in Outcomes(Item(w))
  BY DEF Inserted, Outcomes
<1>3. call' \in [Writers -> Calls]
  BY ReturnKeepsCalls DEF AddTransfer
<1> QED
  BY <1>1, <1>2, <1>3, WrittenInv DEF AddTransfer

LEMMA UpdateTransferInv ==
    ASSUME RepositoryInv, NEW w \in Writers, UpdateTransfer(w)
    PROVE  RepositoryInv'
<1>1. Item(w) \in Docs
  BY ItemIsDocument DEF At, UpdateTransfer
<1>2. Replaced(Item(w)) \in Outcomes(Item(w))
  BY DEF Replaced, Outcomes
<1>3. call' \in [Writers -> Calls]
  BY ReturnKeepsCalls DEF UpdateTransfer
<1> QED
  BY <1>1, <1>2, <1>3, WrittenInv DEF UpdateTransfer

LEMMA RemoveTransferInv ==
    ASSUME RepositoryInv, NEW w \in Writers, RemoveTransfer(w)
    PROVE  RepositoryInv'
<1>1. Item(w) \in Docs
  BY ItemIsDocument DEF At, RemoveTransfer
<1>2. docs \ Held(Item(w).id) \in Outcomes(Item(w))
  BY DEF Outcomes
<1>3. call' \in [Writers -> Calls]
  BY ReturnKeepsCalls DEF RemoveTransfer
<1> QED
  BY <1>1, <1>2, <1>3, WrittenInv DEF RemoveTransfer

LEMMA StoreTransfersInv ==
    ASSUME RepositoryInv, NEW w \in Writers, StoreTransfers(w)
    PROVE  RepositoryInv'
<1>1. Item(w) \in Docs /\ Tail(call[w].todo) \in Seq(Docs)
  BY ItemIsDocument DEF At, StoreTransfers
<1>2. Upserted(Item(w)) \in Outcomes(Item(w))
  BY DEF Upserted, Outcomes
<1>3. call' \in [Writers -> Calls]
  <2>1. CASE Return(w)
    BY <2>1, ReturnKeepsCalls
  <2>2. CASE ~Return(w)
    <3> DEFINE rest == [call[w] EXCEPT !.todo = Tail(call[w].todo)]
    <3>1. call' = [call EXCEPT ![w] = rest]
      BY <2>2, Zenon DEF StoreTransfers
    <3>2. call \in [Writers -> Calls] /\ call[w] \in Calls
      BY DEF RepositoryInv, RepositoryTypes
    <3>3. rest \in Calls
      <4> DEFINE todo == Tail(call[w].todo)
      <4>1. todo \in Seq(Docs)
        BY <1>1
      <4> HIDE DEF todo
      <4>2. [call[w] EXCEPT !.todo = todo] \in Calls
        BY <3>2, <4>1 DEF Calls
      <4> QED
        BY <4>2 DEF todo
    <3> HIDE DEF rest
    <3> QED
      BY <3>1, <3>2, <3>3
  <2> QED
    BY <2>1, <2>2
<1> QED
  BY <1>1, <1>2, <1>3, WrittenInv DEF StoreTransfers

\* A check, or a call that fails, changes only the call.
LEMMA CheckedInv ==
    ASSUME RepositoryInv, NEW w \in Writers, Checked(w) \/ CallFails(w)
    PROVE  RepositoryInv'
<1>1. call' \in [Writers -> Calls]
  <2>1. CASE Return(w)
    BY <2>1, ReturnKeepsCalls
  <2>2. CASE call' = [call EXCEPT ![w].at = "write"]
    BY <2>2 DEF RepositoryInv, RepositoryTypes, Calls
  <2> QED
    BY <2>1, <2>2 DEF Checked, CallFails
<1>2. UNCHANGED <<docs, clock, listing, owed>>
  BY DEF Checked, CallFails
<1> QED
  BY <1>1, <1>2
  DEF RepositoryInv, RepositoryTypes, OneDocumentEach, OwedAhead, OwedOnlyWhileReading, Listed

\* Everything a writer does.
LEMMA WriteInv ==
    ASSUME RepositoryInv, NEW w \in Writers, Write(w)
    PROVE  RepositoryInv'
<1>1. ASSUME NEW op \in {"add", "update"}, NEW id \in Ids, NEW state \in States,
             Call(w, op, <<Stamped(id, state)>>)
      PROVE  RepositoryInv'
  <2>1. Stamped(id, state) \in Docs
    BY <1>1, RepositoryAssumption
    DEF Call, Stamped, Docs, RepositoryInv, RepositoryTypes
  <2>2. <<Stamped(id, state)>> \in Seq(Docs)
    BY <2>1
  <2> QED
    BY <1>1, <2>2, CallInv
<1>2. ASSUME NEW d \in docs, Call(w, "remove", <<d>>)
      PROVE  RepositoryInv'
  <2>1. <<d>> \in Seq(Docs)
    BY DEF RepositoryInv, RepositoryTypes
  <2> QED
    BY <1>2, <2>1, CallInv
<1>3. ASSUME NEW todo \in Batches, Call(w, "store", todo)
      PROVE  RepositoryInv'
  <2>1. ASSUME NEW id \in Ids, NEW state \in States
        PROVE  Stamped(id, state) \in Docs
    BY <1>3, RepositoryAssumption
    DEF Call, Stamped, Docs, RepositoryInv, RepositoryTypes
  <2>2. \/ \E id \in Ids, state \in States : todo = <<Stamped(id, state)>>
        \/ \E id \in Ids, state \in States : \E other \in Ids \ {id} :
              todo = <<Stamped(id, state), Stamped(other, state)>>
    BY DEF Batches
  <2>3. todo \in Seq(Docs)
    <3>1. ASSUME NEW d \in Docs, NEW e \in Docs
          PROVE  <<d>> \in Seq(Docs) /\ <<d, e>> \in Seq(Docs)
      OBVIOUS
    <3> QED
      BY <2>1, <2>2, <3>1
  <2> QED
    BY <1>3, <2>3, CallInv
<1> QED
  BY <1>1, <1>2, <1>3, AddTransferInv, UpdateTransferInv, RemoveTransferInv,
     StoreTransfersInv, CheckedInv DEF Write

-----------------------------------------------------------------------------
(* The client.                                                              *)

\* What a page of a sequence of n documents is.
LEMMA PageOf ==
    ASSUME NEW s, NEW n \in Nat, Len(s) = n, NEW index \in Nat, NEW asked \in Nat \ {0}
    PROVE  LET skip  == index * PageSize(asked)
               items == Page(s, index, asked)
           IN  /\ skip \in Nat
               /\ (index + 1) * PageSize(asked) = skip + PageSize(asked)
               /\ PageSize(asked) \in 1..MaxEntries
               /\ Len(items) \in Nat
               /\ Len(items) <= MaxEntries
               /\ DOMAIN items = 1..Len(items)
               /\ \A i \in 1..Len(items) : items[i] = s[skip + i]
               /\ skip < n => Len(items) = IF n - skip < PageSize(asked) THEN n - skip
                                           ELSE PageSize(asked)
<1> DEFINE size  == PageSize(asked)
           skip  == index * size
           items == Page(s, index, asked)
           left  == n - skip
           last  == IF left < size THEN left ELSE size
<1>1. size \in 1..MaxEntries /\ size \in Nat
  BY RepositoryAssumption DEF PageSize
<1>2. skip \in Nat /\ (index + 1) * size = skip + size
  BY <1>1
<1>3. Skip(index, asked) = skip
  BY <1>1 DEF Skip, PageIndex
<1>4. items = [i \in 1..last |-> s[skip + i]]
  BY <1>3 DEF Page
<1>5. last \in Int /\ last <= size /\ left \in Int
  BY <1>1, <1>2
<1>6. /\ Len(items) \in Nat
      /\ DOMAIN items = 1..Len(items)
      /\ Len(items) = IF last > 0 THEN last ELSE 0
  <2> HIDE DEF last, skip, size
  <2>1. CASE last > 0
    BY <1>4, <1>5, <2>1
  <2>2. CASE ~(last > 0)
    <3>1. 1..last = {}
      BY <1>5, <2>2
    <3>2. items = << >>
      BY <1>4, <3>1
    <3> QED
      BY <2>2, <3>2
  <2> QED
    BY <2>1, <2>2
<1> HIDE DEF skip, size
<1>7. Len(items) <= MaxEntries
  BY <1>1, <1>5, <1>6, RepositoryAssumption
<1>8. ASSUME skip < n
      PROVE  Len(items) = last
  BY <1>1, <1>2, <1>6, <1>8
<1>9. \A i \in 1..Len(items) : items[i] = s[skip + i]
  BY <1>4, <1>5, <1>6
<1> QED
  BY <1>1, <1>2, <1>6, <1>7, <1>8, <1>9 DEF skip, size

\* A listing that went on by one page.
NextPage(l, at, length) == [l EXCEPT !.at = at, !.index = @ + 1, !.length = length]

OnePageOn(l, next, at, length) ==
    /\ next \in Listings
    /\ next.at = at
    /\ next.index = l.index + 1
    /\ next.length = length
    /\ next.state = l.state
    /\ next.asked = l.asked

LEMMA NextListing ==
    ASSUME NEW l \in Listings, NEW at \in {"idle", "find", "done"}, NEW length \in Nat
    PROVE  OnePageOn(l, NextPage(l, at, length), at, length)
<1> DEFINE first  == [l EXCEPT !.at = at]
           second == [first EXCEPT !.index = l.index + 1]
           third  == [second EXCEPT !.length = length]
<1>1. first \in Listings /\ first.at = at /\ first.index = l.index
      /\ first.state = l.state /\ first.asked = l.asked
  BY DEF Listings
<1>2. l.index + 1 \in Nat
  BY DEF Listings
<1> HIDE DEF first
<1>3. second \in Listings /\ second.at = at /\ second.index = l.index + 1
      /\ second.state = l.state /\ second.asked = l.asked
  BY <1>1, <1>2 DEF Listings
<1> HIDE DEF second
<1>4. third \in Listings /\ third.at = at /\ third.index = l.index + 1
      /\ third.length = length /\ third.state = l.state /\ third.asked = l.asked
  BY <1>3 DEF Listings
<1>5. NextPage(l, at, length) = third
  BY Zenon DEF NextPage, first, second, third
<1> HIDE DEF third
<1> QED
  BY <1>4, <1>5 DEF OnePageOn

\* Reading a page.
LEMMA FindTransfersInv ==
    ASSUME RepositoryInv, FindTransfers
    PROVE  RepositoryInv'
<1> DEFINE S    == Listed
           n    == Cardinality(S)
           size == PageSize(listing.asked)
           skip == listing.index * size
<1>1. S \subseteq docs /\ S \subseteq Docs /\ IsFiniteSet(S)
  BY FS_Subset DEF Listed, Matching, RepositoryInv, RepositoryTypes
<1>2. PICK s \in Orders(S) :
        LET items == Page(s, listing.index, listing.asked)
            full  == Len(items) = size IN
        /\ listing' = [listing EXCEPT !.at = IF full THEN "find" ELSE "done",
                                      !.index = @ + 1, !.length = Len(items)]
        /\ owed' = (owed \ Tied) \ {items[i].id : i \in DOMAIN items}
  BY DEF FindTransfers, Listed
<1> DEFINE items == Page(s, listing.index, listing.asked)
<1>3. /\ s \in [1..n -> S]
      /\ n \in Nat
      /\ Len(s) = n
      /\ \A e \in S : \E i \in 1..n : s[i] = e
  BY <1>1, OrdersComplete DEF Orders
<1>4. listing \in Listings /\ listing.index \in Nat /\ listing.asked \in Nat \ {0}
  BY DEF RepositoryInv, RepositoryTypes, Listings
<1>5. /\ skip \in Nat
      /\ (listing.index + 1) * size = skip + size
      /\ size \in 1..MaxEntries
      /\ Len(items) \in Nat
      /\ Len(items) <= MaxEntries
      /\ DOMAIN items = 1..Len(items)
      /\ \A i \in 1..Len(items) : items[i] = s[skip + i]
      /\ skip < n => Len(items) = IF n - skip < size THEN n - skip ELSE size
  BY <1>3, <1>4, PageOf
<1>6. UNCHANGED <<docs, clock, call>>
  BY DEF FindTransfers
<1>7. /\ listing'.at = IF Len(items) = size THEN "find" ELSE "done"
      /\ listing'.index = listing.index + 1
      /\ listing'.length = Len(items)
      /\ listing'.state = listing.state
      /\ listing'.asked = listing.asked
      /\ listing' \in Listings
  <2>1. PICK at \in {"idle", "find", "done"}, length \in Nat :
          /\ at = IF Len(items) = size THEN "find" ELSE "done"
          /\ length = Len(items)
          /\ listing' = NextPage(listing, at, length)
    BY <1>2, <1>5 DEF NextPage
  <2>2. OnePageOn(listing, NextPage(listing, at, length), at, length)
    BY <1>4, NextListing
  <2> QED
    BY <2>1, <2>2 DEF OnePageOn
<1>8. Listed' = S
  BY <1>6, <1>7 DEF Listed, Matching
<1> DEFINE length == Len(items)
<1> HIDE DEF n, skip, size, items, length
<1>a. /\ n \in Int /\ skip \in Int /\ size \in Int /\ length \in Int
      /\ skip >= 0 /\ size >= 1 /\ length >= 0
      /\ skip < n => length = IF n - skip < size THEN n - skip ELSE size
  BY <1>3, <1>5, RepositoryAssumption DEF n, skip, size, items, length
<1>b. DOMAIN items = 1..length /\ \A i \in 1..length : items[i] = s[skip + i]
  BY <1>5 DEF skip, items, length
<1>9. ASSUME NEW id \in owed'
      PROVE  /\ listing'.at = "find"
             /\ \E d \in S : /\ d.id = id
                             /\ skip + size <= Cardinality(IdsOf(NewerIn(S, d)))
  <2>1. id \in owed /\ id \notin Tied /\ id \notin {items[i].id : i \in DOMAIN items}
    BY <1>2, <1>9 DEF items, size
  <2>2. PICK d \in S : d.id = id /\ skip <= Cardinality(IdsOf(NewerIn(S, d)))
    BY <2>1 DEF RepositoryInv, OwedAhead, skip, size
  <2>3. PICK p \in 1..n : s[p] = d
    BY <1>3 DEF n
  <2>4. \A e \in S : e # s[p] => e.updatedAt # s[p].updatedAt
    BY <1>1, <2>1, <2>2, <2>3 DEF Tied
  <2>5. \A e, o \in S : e.id = o.id => e = o
    BY <1>1 DEF RepositoryInv, OneDocumentEach
  <2>6. Cardinality(IdsOf(NewerIn(S, d))) = p - 1
    BY <1>1, <2>3, <2>4, <2>5, PlaceInOrder DEF n
  <2>7. p \in Int /\ skip < p /\ p <= n
    BY <1>a, <2>2, <2>3, <2>6
  <2>8. p > skip + length
    <3> SUFFICES ASSUME p <= skip + length
                 PROVE  FALSE
      BY <1>a, <2>7
    <3>1. p - skip \in 1..length /\ skip + (p - skip) = p
      BY <1>a, <2>7
    <3>2. items[p - skip] = s[p]
      BY <1>b, <3>1
    <3> QED
      BY <1>b, <2>1, <2>2, <2>3, <3>1, <3>2
  <2>9. length = size /\ skip + size <= p - 1
    BY <1>a, <2>7, <2>8
  <2> QED
    BY <1>7, <2>2, <2>6, <2>9 DEF length
<1>10. PageSize(listing.asked)' = size
  BY <1>7 DEF PageSize, size
<1>11. OwedAhead'
  <2>1. listing'.index * PageSize(listing.asked)' = skip + size
    BY <1>5, <1>7, <1>10
  <2> QED
    BY <1>8, <1>9, <2>1 DEF OwedAhead
<1>12. OwedOnlyWhileReading'
  BY <1>9 DEF OwedOnlyWhileReading
<1>13. owed' \subseteq Ids
  BY <1>2 DEF RepositoryInv, RepositoryTypes
<1> QED
  BY <1>5, <1>6, <1>7, <1>11, <1>12, <1>13
  DEF RepositoryInv, RepositoryTypes, OneDocumentEach

\* A listing begins: nothing is in front of the first page.
LEMMA StartListingInv ==
    ASSUME RepositoryInv, NEW state \in Filters, NEW asked \in PageSizes,
           StartListing(state, asked)
    PROVE  RepositoryInv'
<1>1. /\ listing' = [at |-> "find", state |-> state, asked |-> asked, index |-> 0, length |-> 0]
      /\ owed' = {d.id : d \in Matching(docs, state)}
      /\ UNCHANGED <<docs, clock, call>>
  BY DEF StartListing, NoListing
<1>2. listing' \in Listings /\ listing'.length <= MaxEntries
  BY <1>1, RepositoryAssumption DEF Listings
<1>3. owed' \subseteq Ids
  BY <1>1 DEF RepositoryInv, RepositoryTypes, Docs, Matching
<1>4. OwedAhead'
  <2>1. Listed' = Matching(docs, state)
    BY <1>1 DEF Listed, Matching
  <2>2. (listing.index * PageSize(listing.asked))' = 0
    <3>1. PageSize(listing.asked)' = PageSize(asked) /\ PageSize(asked) \in Nat
      BY <1>1, RepositoryAssumption DEF PageSize
    <3> QED
      BY <1>1, <3>1
  <2>3. ASSUME NEW d \in Matching(docs, state)
        PROVE  Cardinality(IdsOf(NewerIn(Matching(docs, state), d))) \in Nat
    <3>1. NewerIn(Matching(docs, state), d) \subseteq docs
      BY DEF NewerIn, Matching
    <3>2. IsFiniteSet(NewerIn(Matching(docs, state), d))
      BY <3>1, FS_Subset DEF RepositoryInv, RepositoryTypes
    <3> QED
      BY <3>2, FiniteIds, FS_CardinalityType
  <2>4. \A id \in owed' : \E d \in Matching(docs, state) :
           d.id = id /\ 0 <= Cardinality(IdsOf(NewerIn(Matching(docs, state), d)))
    BY <1>1, <2>3
  <2> QED
    BY <2>1, <2>2, <2>4 DEF OwedAhead
<1>5. OwedOnlyWhileReading'
  BY <1>1 DEF OwedOnlyWhileReading
<1> QED
  BY <1>1, <1>2, <1>3, <1>4, <1>5
  DEF RepositoryInv, RepositoryTypes, OneDocumentEach

-----------------------------------------------------------------------------
(* The pages, put together.                                                 *)

\* A set of numbers has a least one.
LEMMA LeastNumber ==
    ASSUME NEW T, T \subseteq Nat, T # {}
    PROVE  \E x \in T : \A y \in T : x <= y
<1> DEFINE R == OpToRel(<, Nat)
<1>1. IsWellFoundedOn(R, Nat)
  BY NatLessThanWellFounded
<1>2. \A x, y \in Nat : x < y => <<x, y>> \in R
  BY DEF OpToRel
<1> HIDE DEF R
<1>3. PICK x \in T : \A y \in T : <<y, x>> \notin R
  BY <1>1, WFMin
<1>4. x \in Nat
  BY <1>3
<1>5. ASSUME NEW y \in T PROVE x <= y
  <2>1. y \in Nat /\ ~(y < x)
    BY <1>2, <1>3, <1>4, <1>5
  <2> QED
    BY <1>4, <2>1
<1> QED
  BY <1>5

\* What FlattenSeq has put together after each of its n steps.
Flattens(f, pages, n) ==
    f = [k \in 1..n |-> IF k = 1 THEN pages[k] ELSE f[k - 1] \o pages[k]]

\* FlattenSeq is the last of the steps, by the first step that would differ.
LEMMA Flattened ==
    ASSUME NEW pages, NEW n \in Nat \ {0}, Len(pages) = n,
           NEW front, Flattens(front, pages, n)
    PROVE  FlattenSeq(pages) = front[n]
<1> DEFINE flatten == CHOOSE f : Flattens(f, pages, n)
<1>1. FlattenSeq(pages) = flatten[n]
  BY DEF FlattenSeq, Flattens
<1>2. \A k \in 1..n : front[k] = IF k = 1 THEN pages[k] ELSE front[k - 1] \o pages[k]
  BY DEF Flattens
<1>3. Flattens(flatten, pages, n)
  OBVIOUS
<1>4. \A k \in 1..n : flatten[k] = IF k = 1 THEN pages[k] ELSE flatten[k - 1] \o pages[k]
  BY <1>3 DEF Flattens
<1> HIDE DEF flatten
<1>5. \A k \in 1..n : flatten[k] = front[k]
  <2> DEFINE T == {k \in 1..n : flatten[k] # front[k]}
  <2> SUFFICES ASSUME T # {}
               PROVE  FALSE
    OBVIOUS
  <2>1. PICK k \in T : \A j \in T : k <= j
    <3>1. T \subseteq Nat
      OBVIOUS
    <3> QED
      BY <3>1, LeastNumber
  <2>2. k # 1
    BY <1>2, <1>4, <2>1
  <2>3. k - 1 \in 1..n /\ k - 1 \notin T
    BY <2>1, <2>2
  <2>4. flatten[k] = flatten[k - 1] \o pages[k] /\ front[k] = front[k - 1] \o pages[k]
    BY <1>2, <1>4, <2>1, <2>2
  <2>5. flatten[k - 1] = front[k - 1]
    BY <2>3
  <2> QED
    BY <2>1, <2>4, <2>5
<1> QED
  BY <1>1, <1>5

\* Any finite set of documents can be put in order: by the least size of one that cannot.
LEMMA OrdersExist ==
    ASSUME NEW S \in SUBSET Docs, IsFiniteSet(S)
    PROVE  Orders(S) # {}
<1> DEFINE T == {n \in Nat : \E Q \in SUBSET Docs :
                    IsFiniteSet(Q) /\ Cardinality(Q) = n /\ Orders(Q) = {}}
<1> SUFFICES ASSUME T # {}
             PROVE  FALSE
  BY FS_CardinalityType
<1>1. PICK n \in T : \A k \in T : n <= k
  <2>1. T \subseteq Nat
    OBVIOUS
  <2> HIDE DEF T
  <2> QED
    BY <2>1, LeastNumber
<1>2. PICK Q \in SUBSET Docs : IsFiniteSet(Q) /\ Cardinality(Q) = n /\ Orders(Q) = {}
  BY <1>1
<1>3. n \in Nat
  BY <1>1
<1>4. n # 0
  <2> SUFFICES ASSUME n = 0
               PROVE  FALSE
    OBVIOUS
  <2>1. Q = {}
    BY <1>2, FS_EmptySet
  <2>2. << >> \in SetToSeqs(Q)
    <3>1. Cardinality(Q) = 0 /\ 1..0 = {}
      BY <1>2
    <3> QED
      BY <2>1, <3>1 DEF SetToSeqs
  <2>3. << >> \in Orders(Q)
    BY <2>2 DEF Orders
  <2> QED
    BY <1>2, <2>3
\* The oldest goes to the end.
<1>5. PICK d \in Q : \A e \in Q : d.updatedAt <= e.updatedAt
  <2> DEFINE times == {e.updatedAt : e \in Q}
  <2>1. times \subseteq Nat
    BY RepositoryAssumption DEF Docs
  <2>2. times # {}
    <3>1. Q # {}
      BY <1>2, <1>4, FS_EmptySet
    <3> QED
      BY <3>1
  <2>3. PICK time \in times : \A other \in times : time <= other
    BY <2>1, <2>2, LeastNumber
  <2> QED
    BY <2>3
<1> DEFINE R == Q \ {d}
<1>6. IsFiniteSet(R) /\ Cardinality(R) = n - 1 /\ R \in SUBSET Docs
  BY <1>2, FS_RemoveElement
<1>7. PICK s : s \in Orders(R)
  <2>1. n - 1 \in Nat /\ ~(n <= n - 1)
    BY <1>3, <1>4
  <2>2. n - 1 \notin T
    BY <1>1, <2>1
  <2> QED
    BY <1>6, <2>1, <2>2
<1>8. /\ s \in [1..(n - 1) -> R]
      /\ \A i, j \in 1..(n - 1) : i # j => s[i] # s[j]
      /\ \A i, j \in 1..(n - 1) : i < j => Before(s[i], s[j])
  <2>1. s \in SetToSeqs(R)
    BY <1>7 DEF Orders
  <2>2. /\ s \in [1..(n - 1) -> R]
        /\ \A i, j \in 1..(n - 1) : i # j => s[i] # s[j]
    BY <1>6, <2>1 DEF SetToSeqs
  <2>3. DOMAIN s = 1..(n - 1)
    BY <2>2
  <2> QED
    BY <1>7, <2>2, <2>3 DEF Orders
<1> DEFINE t == [i \in 1..n |-> IF i = n THEN d ELSE s[i]]
<1>9. \A i \in 1..n : i # n => i \in 1..(n - 1)
  BY <1>3
<1>10. t \in [1..n -> Q] /\ DOMAIN t = 1..n
  BY <1>8, <1>9
<1>11. \A i, j \in 1..n : i # j => t[i] # t[j]
  <2> SUFFICES ASSUME NEW i \in 1..n, NEW j \in 1..n, i # j
               PROVE  t[i] # t[j]
    OBVIOUS
  <2>1. \A k \in 1..n : k # n => t[k] = s[k] /\ s[k] # d
    BY <1>8, <1>9
  <2>2. t[n] = d
    BY <1>3, <1>4
  <2> QED
    BY <1>8, <1>9, <2>1, <2>2
<1>12. \A i, j \in 1..n : i < j => Before(t[i], t[j])
  <2> SUFFICES ASSUME NEW i \in 1..n, NEW j \in 1..n, i < j
               PROVE  Before(t[i], t[j])
    OBVIOUS
  <2>1. i # n /\ i \in 1..(n - 1) /\ t[i] = s[i] /\ s[i] \in Q
    BY <1>3, <1>8
  <2>2. CASE j = n
    <3>1. d.updatedAt \in Nat /\ s[i].updatedAt \in Nat
      BY <1>2, <2>1, RepositoryAssumption DEF Docs
    <3>2. t[j] = d
      BY <2>2
    <3> HIDE DEF t
    <3> QED
      BY <1>5, <2>1, <3>1, <3>2 DEF Before
  <2>3. CASE j # n
    <3>1. t[j] = s[j] /\ j \in 1..(n - 1)
      BY <1>9, <2>3
    <3> HIDE DEF t
    <3> QED
      BY <1>8, <2>1, <3>1
  <2> QED
    BY <2>2, <2>3
<1> HIDE DEF t
<1>13. t \in Orders(Q)
  BY <1>2, <1>10, <1>11, <1>12 DEF Orders, SetToSeqs
<1> QED
  BY <1>2, <1>13

\* What the quotient of two numbers is.
LEMMA Division ==
    ASSUME NEW a \in Nat, NEW b \in Nat \ {0}
    PROVE  /\ a \div b \in Nat
           /\ (a \div b) * b <= a
           /\ a < (a \div b) * b + b
OBVIOUS

\* The first documents of a sequence, and those of the next page behind them.
LEMMA PageBehind ==
    ASSUME NEW S, NEW n \in Nat, NEW s \in [1..n -> S], NEW skip \in Nat, NEW length \in Nat,
           skip + length <= n,
           NEW items, items = [i \in 1..length |-> s[skip + i]]
    PROVE  [i \in 1..skip |-> s[i]] \o items = [i \in 1..(skip + length) |-> s[i]]
<1> DEFINE front == [i \in 1..skip |-> s[i]]
<1>1. /\ \A i \in 1..skip : s[i] \in S
      /\ \A i \in 1..length : s[skip + i] \in S
  BY SMT
<1>2. /\ front \in Seq(S) /\ Len(front) = skip
      /\ items \in Seq(S) /\ Len(items) = length
  BY <1>1
<1>3. /\ front \o items \in Seq(S)
      /\ Len(front \o items) = skip + length
      /\ \A i \in 1..skip : (front \o items)[i] = front[i]
      /\ \A i \in 1..length : (front \o items)[skip + i] = items[i]
  <2> HIDE DEF front
  <2>1. /\ front \o items \in Seq(S)
        /\ Len(front \o items) = Len(front) + Len(items)
        /\ \A i \in 1..Len(front) : (front \o items)[i] = front[i]
        /\ \A i \in 1..Len(items) : (front \o items)[Len(front) + i] = items[i]
    <3>1. front \in Seq(S) /\ items \in Seq(S)
      BY <1>2
    <3> QED
      BY <3>1
  <2> QED
    BY <1>2, <2>1
<1>4. \A i \in 1..(skip + length) : (front \o items)[i] = s[i]
  <2> SUFFICES ASSUME NEW i \in 1..(skip + length)
               PROVE  (front \o items)[i] = s[i]
    OBVIOUS
  <2>1. CASE i <= skip
    <3>1. i \in 1..skip
      BY <2>1
    <3> QED
      BY <1>3, <3>1
  <2>2. CASE ~(i <= skip)
    <3>1. i - skip \in 1..length /\ skip + (i - skip) = i
      BY <2>2
    <3> QED
      BY <1>3, <2>2, <3>1
  <2> QED
    BY <2>1, <2>2
<1>5. front \o items = [i \in 1..(skip + length) |-> (front \o items)[i]]
  <2> HIDE DEF front
  <2> QED
    BY <1>3
<1> QED
  BY <1>4, <1>5

\* The pages of the documents in order, put together, are the documents in order.
LEMMA PagesOfOrder ==
    ASSUME NEW S \in SUBSET Docs, IsFiniteSet(S), NEW asked \in Nat \ {0}
    PROVE  LET found == InOrder(S)
               pages == [k \in 1..TotalPages(Len(found), asked) |-> Page(found, k - 1, asked)]
           IN  FlattenSeq(pages) = found /\ \A k \in DOMAIN pages : pages[k] # <<>>
<1> DEFINE found == InOrder(S)
           n     == Cardinality(S)
           size  == PageSize(asked)
           total == TotalPages(Len(found), asked)
           pages == [k \in 1..total |-> Page(found, k - 1, asked)]
<1>1. found \in Orders(S)
  BY OrdersExist DEF InOrder
<1>2. found \in [1..n -> S] /\ n \in Nat /\ Len(found) = n
  BY <1>1, OrdersComplete DEF Orders
<1>3. size \in Nat /\ size > 0
  BY RepositoryAssumption DEF PageSize
<1>4. total \in Nat /\ n <= total * size /\ total * size < n + size
  <2>1. total = (n + size - 1) \div size /\ n + size - 1 \in Nat
    BY <1>2, <1>3 DEF TotalPages
  <2> HIDE DEF total, n, size
  <2> DEFINE a == n + size - 1
  <2>2. /\ a \div size \in Nat /\ (a \div size) * size <= a
        /\ a < (a \div size) * size + size
    BY <1>3, <2>1, Division
  <2> QED
    BY <1>2, <1>3, <2>1, <2>2
<1> HIDE DEF found, n, size, total
\* The pages before page k are full.
<1>5. ASSUME NEW k \in 1..total
      PROVE  /\ (k - 1) * size \in Nat /\ (k - 1) * size < n
             /\ k < total => k * size < n
             /\ k * size = (k - 1) * size + size
  <2>1. k * size <= total * size /\ (k < total => (k + 1) * size <= total * size)
    <3>1. total = k + (total - k) /\ total - k \in Nat
      BY <1>4
    <3>2. (total - k) * size >= 0 /\ (total - k > 0 => (total - k) * size >= size)
      BY <1>3, <3>1
    <3>3. total * size = k * size + (total - k) * size /\ (k + 1) * size = k * size + size
      BY <1>3, <3>1
    <3> QED
      BY <1>3, <1>4, <3>2, <3>3
  <2>2. k * size = (k - 1) * size + size /\ (k + 1) * size = k * size + size
    BY <1>3
  <2>3. (k - 1) * size \in Nat
    BY <1>3
  <2> QED
    BY <1>2, <1>3, <1>4, <2>1, <2>2, <2>3
<1> DEFINE upto(k)  == IF k * size <= n THEN k * size ELSE n
           front    == [k \in 1..total |-> [i \in 1..upto(k) |-> found[i]]]
<1>6. ASSUME NEW k \in 1..total
      PROVE  LET skip == (k - 1) * size
             IN  /\ upto(k) - skip \in Nat \ {0}
                 /\ upto(k) <= n
                 /\ pages[k] = [i \in 1..(upto(k) - skip) |-> found[skip + i]]
  <2> DEFINE skip == (k - 1) * size
  <2>1. skip \in Nat /\ skip < n /\ k * size = skip + size
    BY <1>5
  <2>2. Skip(k - 1, asked) = skip
    BY <1>3 DEF Skip, PageIndex, size
  <2>3. pages[k] = [i \in 1..(IF n - skip < size THEN n - skip ELSE size) |-> found[skip + i]]
    BY <1>2, <2>2 DEF Page, size
  <2> HIDE DEF skip, pages
  <2>4. (IF n - skip < size THEN n - skip ELSE size) = upto(k) - skip
    BY <1>2, <1>3, <2>1
  <2>5. upto(k) - skip \in Nat \ {0} /\ upto(k) <= n
    BY <1>2, <1>3, <2>1
  <2>6. pages[k] = [i \in 1..(upto(k) - skip) |-> found[skip + i]]
    BY <2>3, <2>4
  <2> QED
    BY <2>5, <2>6 DEF skip
<1>7. \A k \in DOMAIN pages : pages[k] # <<>>
  <2> SUFFICES ASSUME NEW k \in 1..total
               PROVE  pages[k] # <<>>
    OBVIOUS
  <2> HIDE DEF pages, upto
  <2>1. PICK m \in Nat \ {0} : DOMAIN pages[k] = 1..m
    BY <1>6
  <2> QED
    BY <2>1
<1>8. CASE total = 0
  <2>1. n = 0 /\ 1..n = {} /\ 1..total = {}
    BY <1>2, <1>3, <1>4, <1>8
  <2>2. found = <<>> /\ pages = <<>>
    BY <1>2, <2>1
  <2>3. FlattenSeq(pages) = pages
    <3> HIDE DEF pages
    <3>1. Len(pages) = 0
      BY <2>2
    <3> QED
      BY <3>1 DEF FlattenSeq
  <2> QED
    BY <1>7, <2>2, <2>3 DEF found, total
<1>9. CASE total # 0
  <2>1. Len(pages) = total /\ total \in Nat \ {0}
    BY <1>4, <1>9
  <2>3. ASSUME NEW k \in 1..total
        PROVE  front[k] = IF k = 1 THEN pages[k] ELSE front[k - 1] \o pages[k]
    <3> DEFINE skip   == (k - 1) * size
               length == upto(k) - skip
    <3>1. /\ skip \in Nat /\ length \in Nat /\ skip + length = upto(k) /\ upto(k) <= n
          /\ pages[k] = [i \in 1..length |-> found[skip + i]]
      BY <1>2, <1>3, <1>5, <1>6
    <3>2. front[k] = [i \in 1..(skip + length) |-> found[i]]
      BY <3>1
    <3>3. CASE k = 1
      <4>1. skip = 0
        BY <1>3, <3>3
      <4> HIDE DEF skip, length
      <4>2. pages[k] = [i \in 1..length |-> found[i]]
        BY <3>1, <4>1
      <4> QED
        BY <3>1, <3>2, <3>3, <4>1, <4>2
    <3>4. CASE k # 1
      <4>1. k - 1 \in 1..total /\ k - 1 < total
        BY <1>4, <3>4
      <4>2. upto(k - 1) = skip
        <5>1. (k - 1) * size < n
          BY <1>5, <4>1
        <5> QED
          BY <1>2, <3>1, <5>1
      <4>3. front[k - 1] = [i \in 1..skip |-> found[i]]
        BY <4>1, <4>2
      <4> HIDE DEF skip, length, front, pages
      <4>4. [i \in 1..skip |-> found[i]] \o pages[k] = [i \in 1..(skip + length) |-> found[i]]
        BY <1>2, <3>1, PageBehind
      <4> QED
        BY <3>2, <3>4, <4>3, <4>4
    <3> QED
      BY <3>3, <3>4
  <2>2. Flattens(front, pages, total)
    <3>1. front = [k \in 1..total |-> front[k]]
      OBVIOUS
    <3> HIDE DEF front, pages
    <3> QED
      BY <2>3, <3>1 DEF Flattens
  <2>4. front[total] = found
    <3>1. total \in 1..total
      BY <1>4, <1>9
    <3>2. upto(total) = n
      <4>1. total * size \in Nat
        BY <1>3, <1>4
      <4> QED
        BY <1>2, <1>4, <4>1
    <3>3. front[total] = [i \in 1..n |-> found[i]]
      BY <3>1, <3>2
    <3> QED
      BY <1>2, <3>3
  <2>5. FlattenSeq(pages) = front[total]
    <3> HIDE DEF pages, front
    <3> QED
      BY <2>1, <2>2, Flattened
  <2> QED
    BY <1>7, <2>4, <2>5 DEF found, total
<1> QED
  BY <1>8, <1>9

-----------------------------------------------------------------------------
(* The theorems.                                                            *)

LEMMA RepositoryInduction == Spec => []RepositoryInv
<1>1. RepositoryInv /\ [Next]_vars => RepositoryInv'
  <2> SUFFICES ASSUME RepositoryInv, [Next]_vars
               PROVE  RepositoryInv'
    OBVIOUS
  <2>1. CASE \E w \in Writers : Write(w)
    BY <2>1, WriteInv
  <2>2. CASE List
    BY <2>2, StartListingInv, FindTransfersInv DEF List
  <2>3. CASE UNCHANGED vars
    BY <2>3
    DEF vars, RepositoryInv, RepositoryTypes, OneDocumentEach, OwedAhead,
        OwedOnlyWhileReading, Listed
  <2> QED
    BY <2>1, <2>2, <2>3 DEF Next
<1> QED
  BY <1>1, InitRepository, PTL DEF Spec

\* The collection, the calls and the listing keep their types, and a page never has more
\* than MAX_ENTRIES_PER_PAGE transfers, for any page size asked for.
THEOREM RepositoryTypeCorrect == Spec => []RepositoryTypeOK
<1>1. RepositoryInv => RepositoryTypeOK
  BY DEF RepositoryInv, RepositoryTypes, RepositoryTypeOK, Calls, Listings
<1> QED
  BY <1>1, RepositoryInduction, PTL

\* However the checks and writes of any number of callers interleave, a transfer has one
\* document.
THEOREM AlwaysOneDocument == Spec => []OneDocumentEach
<1>1. RepositoryInv => OneDocumentEach
  BY DEF RepositoryInv
<1> QED
  BY <1>1, RepositoryInduction, PTL

\* A listing that came to its end has shown every transfer it owed, for any number of
\* transfers, any page size and whatever the writers did between the pages.
THEOREM ListingComplete == Spec => []ListingOwesNothing
<1>1. RepositoryInv => ListingOwesNothing
  BY DEF RepositoryInv, OwedOnlyWhileReading, ListingOwesNothing
<1> QED
  BY <1>1, RepositoryInduction, PTL

\* For every filter and page size, those over the maximum too, the pages 0 to
\* totalPages - 1 put together are what matches the filter, and none of them is empty.
THEOREM PagesAlwaysPartition == Spec => []PagesPartition
<1>1. RepositoryInv => PagesPartition
  <2> SUFFICES ASSUME RepositoryInv, NEW state \in Filters, NEW asked \in PageSizes
               PROVE  LET found == InOrder(Matching(docs, state))
                          pages == [n \in 1..TotalPages(Len(found), asked) |->
                                       Page(found, n - 1, asked)]
                      IN  FlattenSeq(pages) = found /\ \A n \in DOMAIN pages : pages[n] # <<>>
    BY DEF PagesPartition
  <2>1. Matching(docs, state) \in SUBSET Docs /\ IsFiniteSet(Matching(docs, state))
    BY FS_Subset DEF Matching, RepositoryInv, RepositoryTypes
  <2>2. asked \in Nat \ {0}
    BY RepositoryAssumption
  <2> QED
    BY <2>1, <2>2, PagesOfOrder
<1> QED
  BY <1>1, RepositoryInduction, PTL

\* updateTransfer never makes a document: what another caller removed between its read and
\* its write stays removed.
THEOREM UpdatesCreateNothing == Spec => OnlyAddsAndStoresCreate
<1>1. ASSUME NEW w \in Writers, UpdateTransfer(w)
      PROVE  {d.id : d \in docs'} \subseteq {d.id : d \in docs}
  <2>1. docs' = Replaced(Item(w))
    BY <1>1 DEF UpdateTransfer, Written
  <2> QED
    BY <2>1 DEF Replaced, Held
<1>2. [Next]_vars =>
        [\A w \in Writers : UpdateTransfer(w) =>
            {d.id : d \in docs'} \subseteq {d.id : d \in docs}]_vars
  BY <1>1
<1> QED
  BY <1>2, PTL DEF Spec, OnlyAddsAndStoresCreate
=============================================================================
