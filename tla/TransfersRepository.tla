-------------------------- MODULE TransfersRepository --------------------------
(***************************************************************************)
(* The collection of transfers behind MongoTransfersRepo                   *)
(* (mongo_transfers_repo.ts), with several writers - the command handlers, *)
(* each with an aggregate of its own - and a client of the admin API       *)
(* (transfer_admin_routes.ts) that lists it page by page.                  *)
(*                                                                         *)
(* Limits of the model.                                                    *)
(*  - MongoDB is not in the repository: one document is written            *)
(*    atomically, the unique index refuses a second document of an id, the *)
(*    order of documents with equal keys of a sort is not specified.       *)
(*  - A document is its id, its state and updatedAt; the state stands for  *)
(*    the fields that are compared for equality by a filter.               *)
(*  - The client asks for pages of at least one transfer and goes on until *)
(*    a page is not full; it does not use totalPages, which is counted     *)
(*    before the page is read and may be too small by then.                *)
(*  - A transfer is changed when the call that writes it begins; calls     *)
(*    begin one after another, at times up to MaxTime.                     *)
(***************************************************************************)
EXTENDS Integers, SequencesExt

CONSTANTS
    Ids,            \* ids of transfers
    States,         \* states of transfers
    AnyState,       \* no filter on the state
    Writers,        \* callers that write
    PageSizes,      \* page sizes a client asks for
    MaxEntries,     \* MAX_ENTRIES_PER_PAGE
    MaxTime         \* bound on the clock, and so on the calls of writers

ASSUME RepositoryAssumption ==
    /\ AnyState \notin States
    /\ PageSizes \subseteq Nat \ {0}
    /\ MaxEntries \in Nat \ {0}
    /\ MaxTime \in Nat \ {0}
    /\ IsFiniteSet(Ids)
    /\ Cardinality(Ids) \in 1..MaxTime

VARIABLES
    docs,       \* the documents of the collection
    clock,      \* Date.now(), of the last call that began
    call,       \* the call each writer waits for
    listing,    \* the listing of the client
    owed        \* history: the ids the listing has yet to show

vars == <<docs, clock, call, listing, owed>>

Docs == [id : Ids, state : States, updatedAt : 1..MaxTime]

\* todo: the transfers still to be written.
NoCall == [op |-> "none", at |-> "done", todo |-> <<>>]

-----------------------------------------------------------------------------
(* getTransfers.                                                            *)

Filters == States \cup {AnyState}

Matching(ds, state) == {d \in ds : state \in {AnyState, d.state}}

\* Mutant of Before: the oldest first.
OlderFirst(d, e) == d.updatedAt <= e.updatedAt

Before(d, e) == d.updatedAt >= e.updatedAt

\* The orders in which the database may deliver the documents.
Orders(ds) ==
    {s \in SetToSeqs(ds) : \A i, j \in DOMAIN s : i < j => Before(s[i], s[j])}

\* Mutant of PageSize: the size asked for.
AskedSize(asked) == asked

PageSize(asked) == IF asked < MaxEntries THEN asked ELSE MaxEntries

PageIndex(asked) == IF asked > 0 THEN asked ELSE 0

\* Mutant of Skip: pages are counted in entries of the largest size.
SkipFullPages(index, size) == PageIndex(index) * MaxEntries

Skip(index, asked) == PageIndex(index) * PageSize(asked)

Page(s, index, asked) ==
    LET left == Len(s) - Skip(index, asked) IN
    [i \in 1..(IF left < PageSize(asked) THEN left ELSE PageSize(asked)) |->
        s[Skip(index, asked) + i]]

TotalPages(count, asked) == (count + PageSize(asked) - 1) \div PageSize(asked)

\* getSearchKeywords: the distinct states, which the client can filter by.
Keywords == {d.state : d \in docs}

-----------------------------------------------------------------------------
(* What the writes of others mean for a listing.  A transfer that stays     *)
(* where it is, or moves to the front, hides no other; one that leaves the  *)
(* listing, or moves back, may pull another onto a page that was read.      *)

Receding(new) ==
    \E d \in Matching(docs, listing.state) :
        \A e \in Matching(new, listing.state) : e.id = d.id => e.updatedAt < d.updatedAt

Written(new) ==
    /\ docs' = new
    /\ owed' = IF Receding(new) THEN {} ELSE owed \ {d.id : d \in docs \ new}

-----------------------------------------------------------------------------
(* The writers.  What they write has the time at which they began.          *)

Stamped(id, state) == [id |-> id, state |-> state, updatedAt |-> clock + 1]

Call(w, op, todo) ==
    /\ call[w].at = "done"
    /\ clock < MaxTime
    /\ clock' = clock + 1
    /\ call' = [call EXCEPT ![w] =
                   [op |-> op, at |-> IF op \in {"add", "update"} THEN "check" ELSE "write",
                    todo |-> todo]]
    /\ UNCHANGED <<docs, listing, owed>>

Item(w) == Head(call[w].todo)

Held(id) == {d \in docs : d.id = id}

At(w, op, at) == call[w].op = op /\ call[w].at = at /\ call[w].todo # <<>>

Return(w) == call' = [call EXCEPT ![w] = NoCall]

\* checkIfTransferExists, and the read of updateTransfer.
Checked(w) ==
    \E op \in {"add", "update"} :
        /\ At(w, op, "check")
        /\ IF (Held(Item(w).id) = {}) = (op = "add")
           THEN call' = [call EXCEPT ![w].at = "write"]
           ELSE Return(w)
        /\ UNCHANGED <<docs, clock, listing, owed>>

\* replaceOne with upsert.  (Also the mutant of Replaced: an update that inserts.)
Upserted(d) == (docs \ Held(d.id)) \cup {d}

\* Mutant of Inserted: no unique index.
InsertedAgain(d) == docs \cup {d}

\* insertOne, which the unique index may refuse.
Inserted(d) == IF Held(d.id) = {} THEN docs \cup {d} ELSE docs

\* updateOne, which may find nothing to update any more.
Replaced(d) == IF Held(d.id) = {} THEN docs ELSE (docs \ Held(d.id)) \cup {d}

AddTransfer(w) ==
    /\ At(w, "add", "write")
    /\ Written(Inserted(Item(w)))
    /\ Return(w)
    /\ UNCHANGED <<clock, listing>>

UpdateTransfer(w) ==
    /\ At(w, "update", "write")
    /\ Written(Replaced(Item(w)))
    /\ Return(w)
    /\ UNCHANGED <<clock, listing>>

RemoveTransfer(w) ==
    /\ At(w, "remove", "write")
    /\ Written(docs \ Held(Item(w).id))
    /\ Return(w)
    /\ UNCHANGED <<clock, listing>>

\* bulkWrite replaces or inserts one document after the other.
StoreTransfers(w) ==
    /\ At(w, "store", "write")
    /\ Written(Upserted(Item(w)))
    /\ IF Len(call[w].todo) = 1 THEN Return(w)
       ELSE call' = [call EXCEPT ![w].todo = Tail(@)]
    /\ UNCHANGED <<clock, listing>>

\* The connection breaks: the rest of the call is not done, and the call throws.
CallFails(w) ==
    /\ call[w].at # "done"
    /\ Return(w)
    /\ UNCHANGED <<docs, clock, listing, owed>>

-----------------------------------------------------------------------------
(* The client.                                                              *)

NoListing == [at |-> "idle", state |-> AnyState, asked |-> 1, index |-> 0, length |-> 0]

StartListing(state, asked) ==
    /\ listing.at = "idle"
    /\ state = AnyState \/ state \in Keywords
    /\ listing' = [NoListing EXCEPT !.at = "find", !.state = state, !.asked = asked]
    /\ owed' = {d.id : d \in Matching(docs, state)}
    /\ UNCHANGED <<docs, clock, call>>

Tied == {d.id : d \in {e \in docs : \E o \in docs : o # e /\ o.updatedAt = e.updatedAt}}

\* Nothing is owed of transfers whose order the database may choose anew for each page.
FindTransfers ==
    /\ listing.at = "find"
    /\ \E s \in Orders(Matching(docs, listing.state)) :
          LET items == Page(s, listing.index, listing.asked)
              full  == Len(items) = PageSize(listing.asked) IN
          /\ listing' = [listing EXCEPT !.at = IF full THEN "find" ELSE "done",
                                        !.index = @ + 1, !.length = Len(items)]
          /\ owed' = (owed \ Tied) \ {items[i].id : i \in DOMAIN items}
    /\ UNCHANGED <<docs, clock, call>>

-----------------------------------------------------------------------------
Init ==
    /\ clock = Cardinality(Ids)
    /\ \E known \in SetToAllKPermutations(Ids) :
          \E states \in [DOMAIN known -> States] :
             docs = {[id |-> known[i], state |-> states[i], updatedAt |-> i] : i \in DOMAIN known}
    /\ call = [w \in Writers |-> NoCall]
    /\ listing = NoListing
    /\ owed = {}

\* One transfer, or two of the same state.
Batches ==
    {<<Stamped(id, state)>> : id \in Ids, state \in States} \cup
    UNION {{<<Stamped(id, state), Stamped(other, state)>> : other \in Ids \ {id}} :
              id \in Ids, state \in States}

Write(w) ==
    \/ \E op \in {"add", "update"}, id \in Ids, state \in States :
          Call(w, op, <<Stamped(id, state)>>)
    \/ \E d \in docs : Call(w, "remove", <<d>>)
    \/ \E todo \in Batches : Call(w, "store", todo)
    \/ Checked(w)
    \/ AddTransfer(w)
    \/ UpdateTransfer(w)
    \/ RemoveTransfer(w)
    \/ StoreTransfers(w)
    \/ CallFails(w)

List ==
    \/ \E state \in Filters, asked \in PageSizes : StartListing(state, asked)
    \/ FindTransfers

Next == (\E w \in Writers : Write(w)) \/ List

Spec == Init /\ [][Next]_vars

-----------------------------------------------------------------------------
(* Properties.                                                              *)

\* Type correctness; a page has at most MAX_ENTRIES_PER_PAGE transfers, whatever was
\* asked for.
RepositoryTypeOK ==
    /\ docs \subseteq Docs
    /\ clock \in 1..MaxTime
    /\ \A w \in Writers :
          /\ call[w].op \in {"none", "add", "update", "remove", "store"}
          /\ call[w].at \in {"check", "write", "done"}
          /\ call[w].todo \in Seq(Docs)
    /\ listing.at \in {"idle", "find", "done"}
    /\ listing.length <= MaxEntries
    /\ owed \subseteq Ids

\* However the checks and writes of two callers interleave, a transfer has one document:
\* what is read by its id (_getTransfer) is all there is of it.
OneDocumentEach == \A d, e \in docs : d.id = e.id => d = e

\* A transfer that was removed between the read and the write of an update is not
\* written again by it: only addTransfer and storeTransfers make documents.
OnlyAddsAndStoresCreate ==
    [][\A w \in Writers : UpdateTransfer(w) =>
          {d.id : d \in docs'} \subseteq {d.id : d \in docs}]_vars

\* The pages of a listing have every transfer that was there when it began and that
\* nobody wrote since, although transfers are added and updated between the pages: what
\* changes moves to the front.  (Not so when a transfer leaves the listing, goes back in
\* time, or has the time of another.)
ListingOwesNothing == listing.at = "done" => owed = {}

InOrder(ds) == CHOOSE s \in Orders(ds) : TRUE

\* At any time the pages 0 to totalPages - 1 of a filter are a partition of what matches
\* it, for every page size, those over the maximum too.
PagesPartition ==
    \A state \in Filters, asked \in PageSizes :
        LET found == InOrder(Matching(docs, state))
            pages == [n \in 1..TotalPages(Len(found), asked) |-> Page(found, n - 1, asked)]
        IN  FlattenSeq(pages) = found /\ \A n \in DOMAIN pages : pages[n] # <<>>
=============================================================================
