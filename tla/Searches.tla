-------------------------------- MODULE Searches --------------------------------
(***************************************************************************)
(* The search in the news and the searches users save:                     *)
(* internal/service/search.go, its handler and the repository.             *)
(*                                                                         *)
(* A search is one page of what the filters leave, in the order asked for, *)
(* by LIMIT and OFFSET; a client asks page after page while articles come, *)
(* change and go.  Of a text query the order is that of its rank, which    *)
(* may be the same for several rows: each query puts those in an order of  *)
(* its own.                                                                *)
(*                                                                         *)
(* A saved search is counted and then inserted, read and then saved.       *)
(***************************************************************************)
EXTENDS Requests, Sequences

CONSTANTS
    Searchers,      \* users
    MaxSaved,       \* maxSavedSearches
    DefaultPage,    \* defaultPageSize and
    MaxPage,        \* maxPageSize
    MaxDocs,        \* bounds on the rows of both tables
    MaxRows

ASSUME PagesAssumption == DefaultPage \in 1..MaxPage /\ MaxPage \in Nat
ASSUME RowsAssumption == MaxSaved \in Nat /\ MaxDocs \in Nat /\ MaxRows \in Nat

VARIABLES
    docs,       \* news, by the order of their insertion
    shaken,     \* history: an order the client could not go by, see Displaced
    browsing,   \* a client that goes through the pages
    saved,      \* saved_searches, by the order of their insertion
    remembered, \* history: what the last successful requests left of them
    shared      \*          and the users of whom two requests were at it at a time

searchVars == <<docs, shaken, browsing, saved, remembered, shared>>

\* A row: does it match the text; its title, or its rank for the text, whichever the
\* client sorts by; the time of the last change; and is it deleted.
SortKeys == 1..2
Doc == [match : BOOLEAN, key : SortKeys, updated : 0..MaxRequests, deleted : BOOLEAN]
SortOrder == [by : {"rank", "title", "created", "updated"}, asc : BOOLEAN]
Browsing == [on : BOOLEAN, text : BOOLEAN, order : SortOrder, size : 0..MaxPage + 1,
             page : 1..MaxDocs + 2, seen : SUBSET (1..MaxDocs), due : SUBSET (1..MaxDocs)]
SavedSearch == [user : Searchers, query : 0..MaxRequests, deleted : BOOLEAN]

SavedSearchRequest ==
    [pc : {"limit", "insert", "change", "save", "own", "drop"}, user : Searchers,
     id : 0..MaxRows, query : 1..MaxRequests, copy : Seq(SavedSearch)]

SearchesTypeOK ==
    /\ docs \in Seq(Doc) /\ Len(docs) <= MaxDocs /\ shaken \in BOOLEAN
    /\ browsing \in Browsing
    /\ saved \in Seq(SavedSearch) /\ Len(saved) <= MaxRows
    /\ remembered \in Seq(SavedSearch) /\ Len(remembered) = Len(saved)
    /\ shared \subseteq Searchers
    /\ RequestsAre(SavedSearchRequest)

SearchesInit ==
    /\ docs = <<>> /\ shaken = FALSE
    /\ browsing = [on |-> FALSE, text |-> FALSE, order |-> [by |-> "created", asc |-> FALSE],
                   size |-> 1, page |-> 1, seen |-> {}, due |-> {}]
    /\ saved = <<>> /\ remembered = <<>> /\ shared = {}

-----------------------------------------------------------------------------
(* Search *)

\* A query whose words hold no letter or digit is no condition on the text.
BuildTSQuery(text) == text

\* The conditions on the rows.
Matching(text) ==
    {d \in DOMAIN docs : ~docs[d].deleted /\ (BuildTSQuery(text) => docs[d].match)}

\* "relevance" is what is sorted by for want of anything else.
OrderClause(text, sort, asc) ==
    IF sort # "relevance" THEN [by |-> sort, asc |-> asc]
    ELSE [by |-> IF BuildTSQuery(text) THEN "rank" ELSE "created", asc |-> FALSE]

\* Row d comes before row e; of two with the same title the newer one does, and of two
\* with the same rank neither.  The id of a row stands for the time of its creation.
Before(order, d, e) ==
    LET up(x, y) == IF order.asc THEN x < y ELSE y < x
        x == docs[d]
        y == docs[e]
    IN  \/ order.by = "rank" /\ y.key < x.key
        \/ order.by = "title" /\ (up(x.key, y.key) \/ (x.key = y.key /\ e < d))
        \/ order.by = "created" /\ up(d, e)
        \/ order.by = "updated" /\ up(x.updated, y.updated)

\* How many rows come before d, and the place of d when rows that are not told apart
\* come in the order of "ties".
Rank(b, d) == Cardinality({e \in Matching(b.text) : Before(b.order, e, d)})
Place(b, ties, d) ==
    Cardinality({e \in Matching(b.text) :
        Before(b.order, e, d) \/ (~Before(b.order, d, e) /\ ties[e] < ties[d])})
Ties == {t \in [DOMAIN docs -> DOMAIN docs] : \A d, e \in DOMAIN docs : t[d] = t[e] => d = e}

ToldApart(b) ==
    \A d, e \in Matching(b.text) : d = e \/ Before(b.order, d, e) \/ Before(b.order, e, d)

\* Mutant of PageSize: a size beyond the bound is cut to nothing.
PageSizeCut(n) == IF n < 1 THEN DefaultPage ELSE IF n > MaxPage THEN 0 ELSE n

PageSize(n) == IF n < 1 \/ n > MaxPage THEN DefaultPage ELSE n

\* Mutant of Offset: pages count from nought.
OffsetFromNought(page, size) == page * size

Offset(page, size) == (page - 1) * size

\* LIMIT and OFFSET.
Search(b, ties) ==
    LET size == PageSize(b.size)
        first == Offset(b.page, size)
    IN  {d \in Matching(b.text) : Place(b, ties, d) \in first..(first + size - 1)}

\* A client starts to go through the pages ...
StartBrowsing(text, sort, asc, n) ==
    /\ Serve
    /\ ~browsing.on
    /\ browsing' = [on |-> TRUE, text |-> text, order |-> OrderClause(text, sort, asc),
                    size |-> n, page |-> 1, seen |-> {}, due |-> Matching(text)]
    /\ shaken' = FALSE
    /\ UNCHANGED <<docs, saved, remembered, shared>>

\* ... and asks for the next one until one is not full.
HandleSearch ==
    /\ browsing.on
    /\ \E ties \in Ties :
        LET rows == Search(browsing, ties)
            full == Cardinality(rows) = PageSize(browsing.size)
        IN  browsing' = [browsing EXCEPT !.seen = @ \cup rows,
                                         !.page = IF full THEN @ + 1 ELSE @, !.on = full]
    /\ shaken' = (shaken \/ ~ToldApart(browsing))
    /\ UNCHANGED <<docs, saved, remembered, shared, requestVars>>

\* The news change meanwhile, by requests of their own (module News).
NewDoc(match, key) ==
    /\ Serve
    /\ Len(docs) < MaxDocs
    /\ docs' = Append(docs, [match |-> match, key |-> key, updated |-> begun + 1,
                             deleted |-> FALSE])
    /\ UNCHANGED <<shaken, browsing, saved, remembered, shared>>

\* Row i is among those that client b goes through, and will be no more or elsewhere.
Displaced(b, i, new) ==
    /\ b.on /\ i \in Matching(b.text)
    /\ \/ new.deleted \/ (BuildTSQuery(b.text) /\ ~new.match)
       \/ b.order.by \in {"rank", "title"} /\ new.key # docs[i].key
       \/ b.order.by = "updated"

ChangeDoc(i, new) ==
    /\ Serve
    /\ ~docs[i].deleted
    /\ docs' = [docs EXCEPT ![i] = new]
    /\ shaken' = (shaken \/ Displaced(browsing, i, new))
    /\ UNCHANGED <<browsing, saved, remembered, shared>>

EditDoc(i, match, key) ==
    ChangeDoc(i, [match |-> match, key |-> key, updated |-> begun + 1, deleted |-> FALSE])

DropDoc(i) == ChangeDoc(i, [docs[i] EXCEPT !.deleted = TRUE])

-----------------------------------------------------------------------------
(* The repository of saved searches *)

SavedSearch_FindByID(s) == s \in DOMAIN saved /\ ~saved[s].deleted
SavedSearch_FindByUserID(u) == {s \in DOMAIN saved : saved[s].user = u /\ ~saved[s].deleted}

\* Save, deleted_at as it was read.
SavedSearch_Update(s, row) == saved' = [saved EXCEPT ![s] = row]

\* History: another request of the same user is between two statements.
Share(r, u) ==
    shared' = IF \E s \in Others(r) : ~At(s, "idle") /\ req[s].user = u
              THEN shared \cup {u} ELSE shared

SavedCall(label, u, s) ==
    [pc |-> label, user |-> u, id |-> s, query |-> begun + 1, copy |-> <<>>]

-----------------------------------------------------------------------------
(* Create *)

HandleCreateSavedSearch(r, u) ==
    /\ Begin(r, SavedCall("limit", u, 0))
    /\ Share(r, u)
    /\ UNCHANGED <<docs, shaken, browsing, saved, remembered>>

\* Mutant of SavedFull: one more is let in.
SavedFullLate(u) == Cardinality(SavedSearch_FindByUserID(u)) > MaxSaved

SavedFull(u) == Cardinality(SavedSearch_FindByUserID(u)) >= MaxSaved

CreateSavedSearch(r) ==
    /\ At(r, "limit")
    /\ IF SavedFull(req[r].user) THEN Finish(r) ELSE Goto(r, "insert")
    /\ UNCHANGED searchVars

InsertSavedSearch(r) ==
    LET row == [user |-> req[r].user, query |-> req[r].query, deleted |-> FALSE]
    IN  /\ At(r, "insert")
        /\ Len(saved) < MaxRows
        /\ saved' = Append(saved, row)
        /\ remembered' = Append(remembered, row)
        /\ Finish(r)
        /\ UNCHANGED <<docs, shaken, browsing, shared>>

-----------------------------------------------------------------------------
(* Update and Delete *)

HandleUpdateSavedSearch(r, u, s) ==
    /\ Begin(r, SavedCall("change", u, s))
    /\ Share(r, u)
    /\ UNCHANGED <<docs, shaken, browsing, saved, remembered>>

\* Of others the search is "not found".
OwnSaved(u, s) == SavedSearch_FindByID(s) /\ saved[s].user = u

UpdateSavedSearch(r) ==
    LET q == req[r]
    IN  /\ At(r, "change")
        /\ IF OwnSaved(q.user, q.id)
           THEN Become(r, [q EXCEPT !.pc = "save", !.copy = <<saved[q.id]>>])
           ELSE Finish(r)
        /\ UNCHANGED searchVars

SaveSavedSearch(r) ==
    LET q == req[r]
    IN  /\ At(r, "save")
        /\ SavedSearch_Update(q.id, [q.copy[1] EXCEPT !.query = q.query])
        /\ remembered' = [remembered EXCEPT ![q.id].query = q.query]
        /\ Finish(r)
        /\ UNCHANGED <<docs, shaken, browsing, shared>>

HandleDeleteSavedSearch(r, u, s) ==
    /\ Begin(r, SavedCall("own", u, s))
    /\ Share(r, u)
    /\ UNCHANGED <<docs, shaken, browsing, saved, remembered>>

DeleteSavedSearch(r) ==
    /\ At(r, "own")
    /\ IF OwnSaved(req[r].user, req[r].id) THEN Goto(r, "drop") ELSE Finish(r)
    /\ UNCHANGED searchVars

SoftDeleteSavedSearch(r) ==
    LET s == req[r].id
    IN  /\ At(r, "drop")
        /\ IF SavedSearch_FindByID(s)
           THEN /\ SavedSearch_Update(s, [saved[s] EXCEPT !.deleted = TRUE])
                /\ remembered' = [remembered EXCEPT ![s].deleted = TRUE]
           ELSE UNCHANGED <<saved, remembered>>
        /\ Finish(r)
        /\ UNCHANGED <<docs, shaken, browsing, shared>>

-----------------------------------------------------------------------------

SearchHandlers(r) ==
    \E u \in Searchers :
        \/ HandleCreateSavedSearch(r, u)
        \/ \E s \in DOMAIN saved :
            HandleUpdateSavedSearch(r, u, s) \/ HandleDeleteSavedSearch(r, u, s)

SearchesNext ==
    \/ \E text \in BOOLEAN, asc \in BOOLEAN, n \in 0..MaxPage + 1,
          sort \in {"relevance", "title", "created", "updated"} :
            StartBrowsing(text, sort, asc, n)
    \/ HandleSearch
    \/ \E match \in BOOLEAN, key \in SortKeys :
        NewDoc(match, key) \/ \E i \in DOMAIN docs : EditDoc(i, match, key)
    \/ \E i \in DOMAIN docs : DropDoc(i)
    \/ \E r \in Slots :
        \/ SearchHandlers(r)
        \/ CreateSavedSearch(r) \/ InsertSavedSearch(r)
        \/ UpdateSavedSearch(r) \/ SaveSavedSearch(r)
        \/ DeleteSavedSearch(r) \/ SoftDeleteSavedSearch(r)
        \/ Abort(r) /\ UNCHANGED searchVars

-----------------------------------------------------------------------------
(* Properties *)

\* What a user is shown of the searches saved.
GetSavedSearch(u, s) == IF OwnSaved(u, s) THEN <<saved[s]>> ELSE <<>>
ListSavedSearches(u) == SavedSearch_FindByUserID(u)

\* Whoever goes through the pages to the end, by title or by either time, has seen each
\* article that matched when he began, whatever was added or edited meanwhile, unless
\* an article he had to go through was deleted, ceased to match, or was moved by an edit
\* (of its title; of anything, by the time of the change).  By rank, as a text query is
\* sorted by default, he has only if no two articles have the same.
PagesMissNothing ==
    ~browsing.on /\ ~shaken => browsing.due \subseteq browsing.seen

\* A user has no more saved searches than the limit, and each is as the last request
\* left it that was answered with success, unless two of his were served at a time.
SavedSearchesStand ==
    \A u \in Searchers \ shared :
        /\ Cardinality(ListSavedSearches(u)) <= MaxSaved
        /\ \A s \in DOMAIN saved : saved[s].user = u =>
            /\ saved[s] = remembered[s]
            /\ ~remembered[s].deleted => GetSavedSearch(u, s) = <<remembered[s]>>

SearchesHold == PagesMissNothing /\ SavedSearchesStand

SearchesSpec == SearchesInit /\ RequestsInit /\ [][SearchesNext]_<<searchVars, requestVars>>

-----------------------------------------------------------------------------
(* What is inductive, and gives these promises *)

\* What was due was seen, or still matches and is on a page to come.
DueIsToCome ==
    ~shaken =>
    \A d \in browsing.due :
        \/ d \in browsing.seen
        \/ /\ browsing.on /\ d \in Matching(browsing.text)
           /\ Rank(browsing, d) >= Offset(browsing.page, PageSize(browsing.size))

\* A user who was never served twice at a time has no more than the limit, and his
\* rows are as he was told.
SavedAreKept ==
    \A u \in Searchers \ shared :
        /\ Cardinality(SavedSearch_FindByUserID(u)) <= MaxSaved
        /\ \A s \in DOMAIN saved : saved[s].user = u => saved[s] = remembered[s]

\* Two requests of one user are known to overlap.
SharingIsKnown ==
    \A r, s \in Slots :
        ~At(r, "idle") /\ ~At(s, "idle") /\ r # s /\ req[r].user = req[s].user
            => req[r].user \in shared

\* What a request has learnt on its way: there is room for the row it will insert, and
\* the copy it will save is the row, unless its user was served twice at a time.
KnowsItsSearch(q) ==
    /\ q.pc \in {"change", "save", "own", "drop"} => q.id \in DOMAIN saved
    /\ q.pc \in {"save", "drop"} => saved[q.id].user = q.user
    /\ q.pc = "insert" =>
        q.user \in shared \/ Cardinality(SavedSearch_FindByUserID(q.user)) < MaxSaved
    /\ q.pc = "save" =>
        /\ q.copy # <<>> /\ q.copy[1].user = q.user
        /\ q.user \in shared \/ q.copy[1] = saved[q.id]

SearchesInv ==
    /\ SearchesTypeOK /\ DueIsToCome /\ SavedAreKept /\ SharingIsKnown
    /\ \A r \in Slots : KnowsItsSearch(req[r])
=============================================================================
