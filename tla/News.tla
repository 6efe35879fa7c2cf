---------------------------------- MODULE News ----------------------------------
(***************************************************************************)
(* News articles: internal/service/news.go, its handler, its repository    *)
(* and domain/news.go.                                                     *)
(*                                                                         *)
(* The slug is made from the title and unique among all rows, the deleted  *)
(* ones included.  A status moves along the transitions of the domain,     *)
(* judged by the row that was read; Save then writes the whole row, so     *)
(* that two requests that overlap can lead anywhere.  The events go to the *)
(* bus after the row is written, by UpdateStatus and Delete only: an       *)
(* article published by Update is announced to nobody.                     *)
(***************************************************************************)
EXTENDS Requests, Sequences

CONSTANTS
    Reporters,      \* users that write articles
    Editors,        \* those with news:manage
    Slugs,
    MaxArticles     \* bound on the rows

ASSUME ArticlesAssumption == MaxArticles \in Nat

VARIABLES
    news,       \* the rows, by the order of their insertion
    told,       \* events published on the bus: how many of each kind for each row
    turns,      \* history: times a row was published by UpdateStatus, and deleted,
    crossed     \* and the rows that were written while another request held a copy

newsVars == <<news, told, turns, crossed>>

Articles == DOMAIN news
NewsStatus == {"draft", "published", "archived"}
Stamp == 0..MaxRequests
Counts == [published : Nat, deleted : Nat]
NoCounts == [published |-> 0, deleted |-> 0]

Article == [author : Reporters, slug : Slugs, status : NewsStatus,
            publishedAt : Stamp, deleted : BOOLEAN]

\* "keep" stands for a field the request leaves out.
NewsRequest ==
    [pc : {"news", "change", "savenews", "status", "savestatus", "announce", "drop",
           "dropnews", "mourn"},
     user : Reporters, id : 0..MaxArticles, slug : Slugs \cup {"keep"},
     status : NewsStatus \cup {"keep"}, stamp : Stamp, copy : Seq(Article)]

NewsTypeOK ==
    /\ news \in Seq(Article) /\ Len(news) <= MaxArticles
    /\ told \in Seq(Counts) /\ turns \in Seq(Counts)
    /\ Len(told) = Len(news) /\ Len(turns) = Len(news)
    /\ crossed \subseteq Articles
    /\ RequestsAre(NewsRequest)

NewsInit == news = <<>> /\ told = <<>> /\ turns = <<>> /\ crossed = {}

-----------------------------------------------------------------------------
(* The domain and the repository *)

\* Mutant of CanTransitionTo: what is archived may be published again at once.
CanReturnTo(old, new) == <<old, new>> \in
    {<<"draft", "published">>, <<"draft", "archived">>, <<"published", "archived">>,
     <<"archived", "draft">>, <<"archived", "published">>}

CanTransitionTo(old, new) == <<old, new>> \in
    {<<"draft", "published">>, <<"draft", "archived">>, <<"published", "archived">>,
     <<"archived", "draft">>}

News_FindByID(n) == n \in Articles /\ ~news[n].deleted
News_FindBySlug(s) == {n \in Articles : news[n].slug = s /\ ~news[n].deleted}
FindByStatus(s) == {n \in Articles : news[n].status = s /\ ~news[n].deleted}
FindByAuthorID(u) == {n \in Articles : news[n].author = u /\ ~news[n].deleted}
FindAllNews == {n \in Articles : ~news[n].deleted}

\* The index on the slug knows the deleted rows, too.
SlugIsFree(s, n) == \A m \in Articles \ {n} : news[m].slug # s

IsAdmin(u) == u \in Editors
MayTouch(n, u) == News_FindByID(n) /\ (IsAdmin(u) \/ news[n].author = u)

\* History: a request writes the row of n while another holds a copy of it.
CrossNews(r, n) ==
    crossed' = IF \E s \in Others(r) :
                      ~At(s, "idle") /\ req[s].id = n /\ req[s].copy # <<>>
               THEN crossed \cup {n} ELSE crossed

\* published_at is set the first time only.
WithStatus(row, s, stamp) ==
    [row EXCEPT !.status = s,
                !.publishedAt = IF s = "published" /\ @ = 0 THEN stamp ELSE @]

-----------------------------------------------------------------------------
(* Create *)

Asking(label, u, n, slug, status) ==
    [pc |-> label, user |-> u, id |-> n, slug |-> slug, status |-> status,
     stamp |-> begun + 1, copy |-> <<>>]

HandleCreateNews(r, u, s) ==
    Begin(r, Asking("news", u, 0, s, "keep")) /\ UNCHANGED newsVars

CreateNews(r) ==
    LET q == req[r]
        row == [author |-> q.user, slug |-> q.slug, status |-> "draft",
                publishedAt |-> 0, deleted |-> FALSE]
    IN  /\ At(r, "news")
        /\ Len(news) < MaxArticles
        /\ IF SlugIsFree(q.slug, 0)
           THEN /\ news' = Append(news, row)
                /\ told' = Append(told, NoCounts)
                /\ turns' = Append(turns, NoCounts)
           ELSE UNCHANGED <<news, told, turns>>
        /\ Finish(r)
        /\ UNCHANGED crossed

-----------------------------------------------------------------------------
(* Update *)

HandleUpdateNews(r, u, n, slug, status) ==
    Begin(r, Asking("change", u, n, slug, status)) /\ UNCHANGED newsVars

\* The author or an editor reads the row; a new status must be reachable ...
UpdateNews(r) ==
    LET q == req[r]
        row == news[q.id]
    IN  /\ At(r, "change")
        /\ IF /\ MayTouch(q.id, q.user)
              /\ \/ q.status \in {"keep", row.status}
                 \/ CanTransitionTo(row.status, q.status)
           THEN Become(r, [q EXCEPT !.pc = "savenews", !.copy = <<row>>])
           ELSE Finish(r)
        /\ UNCHANGED newsVars

\* ... and the row is saved, with the slug of a new title.
SaveNews(r) ==
    LET q == req[r]
        row == q.copy[1]
        titled == IF q.slug = "keep" THEN row ELSE [row EXCEPT !.slug = q.slug]
    IN  /\ At(r, "savenews")
        /\ IF SlugIsFree(titled.slug, q.id)
           THEN /\ news' = [news EXCEPT ![q.id] =
                               IF q.status \in {"keep", row.status} THEN titled
                               ELSE WithStatus(titled, q.status, q.stamp)]
                /\ CrossNews(r, q.id)
           ELSE UNCHANGED <<news, crossed>>
        /\ Finish(r)
        /\ UNCHANGED <<told, turns>>

-----------------------------------------------------------------------------
(* UpdateStatus *)

HandleUpdateStatus(r, u, n, status) ==
    Begin(r, Asking("status", u, n, "keep", status)) /\ UNCHANGED newsVars

UpdateStatus(r) ==
    LET q == req[r]
    IN  /\ At(r, "status")
        /\ IF MayTouch(q.id, q.user) /\ CanTransitionTo(news[q.id].status, q.status)
           THEN Become(r, [q EXCEPT !.pc = "savestatus", !.copy = <<news[q.id]>>])
           ELSE Finish(r)
        /\ UNCHANGED newsVars

\* The slug of the copy may be another article's by now.
SaveStatus(r) ==
    LET q == req[r]
    IN  /\ At(r, "savestatus")
        /\ \/ /\ SlugIsFree(q.copy[1].slug, q.id)
              /\ news' = [news EXCEPT ![q.id] = WithStatus(q.copy[1], q.status, q.stamp)]
              /\ CrossNews(r, q.id)
              /\ IF q.status = "published"
                 THEN /\ Become(r, [q EXCEPT !.pc = "announce", !.copy = <<>>])
                      /\ turns' = [turns EXCEPT ![q.id].published = @ + 1]
                 ELSE Finish(r) /\ UNCHANGED turns
           \/ /\ ~SlugIsFree(q.copy[1].slug, q.id)
              /\ Finish(r)
              /\ UNCHANGED <<news, turns, crossed>>
        /\ UNCHANGED told

\* An error of the bus is passed over.
AnnounceNews(r) ==
    /\ At(r, "announce")
    /\ \/ told' = [told EXCEPT ![req[r].id].published = @ + 1] /\ Finish(r)
       \/ UNCHANGED told /\ Stumble(r, Idle)
    /\ UNCHANGED <<news, turns, crossed>>

-----------------------------------------------------------------------------
(* Delete *)

HandleDeleteNews(r, u, n) ==
    Begin(r, Asking("drop", u, n, "keep", "keep")) /\ UNCHANGED newsVars

DeleteNews(r) ==
    /\ At(r, "drop")
    /\ IF MayTouch(req[r].id, req[r].user) THEN Goto(r, "dropnews") ELSE Finish(r)
    /\ UNCHANGED newsVars

\* Mutant of Droppable: the rows affected are not counted.
DroppableAlways(n) == TRUE

Droppable(n) == ~news[n].deleted

SoftDeleteNews(r) ==
    LET n == req[r].id
    IN  /\ At(r, "dropnews")
        /\ IF Droppable(n)
           THEN /\ news' = [news EXCEPT ![n].deleted = TRUE]
                /\ turns' = [turns EXCEPT ![n].deleted =
                                IF news[n].deleted THEN @ ELSE @ + 1]
                /\ CrossNews(r, n)
                /\ Goto(r, "mourn")
           ELSE Finish(r) /\ UNCHANGED <<news, turns, crossed>>
        /\ UNCHANGED told

AnnounceDeletion(r) ==
    /\ At(r, "mourn")
    /\ \/ told' = [told EXCEPT ![req[r].id].deleted = @ + 1] /\ Finish(r)
       \/ UNCHANGED told /\ Stumble(r, Idle)
    /\ UNCHANGED <<news, turns, crossed>>

-----------------------------------------------------------------------------

NewsHandlers(r) ==
    \E u \in Reporters :
        \/ \E s \in Slugs : HandleCreateNews(r, u, s)
        \/ \E n \in Articles :
            \/ \E slug \in Slugs \cup {"keep"}, status \in NewsStatus \cup {"keep"} :
                    HandleUpdateNews(r, u, n, slug, status)
            \/ \E status \in NewsStatus : HandleUpdateStatus(r, u, n, status)
            \/ HandleDeleteNews(r, u, n)

NewsNext ==
    \E r \in Slots :
        \/ NewsHandlers(r)
        \/ CreateNews(r) \/ UpdateNews(r) \/ SaveNews(r)
        \/ UpdateStatus(r) \/ SaveStatus(r) \/ AnnounceNews(r)
        \/ DeleteNews(r) \/ SoftDeleteNews(r) \/ AnnounceDeletion(r)
        \/ Abort(r) /\ UNCHANGED newsVars

-----------------------------------------------------------------------------
(* Properties *)

\* What a reader gets: by the slug, without and with a login, and by the id.
GetBySlug(s) == {n \in News_FindBySlug(s) : news[n].status = "published"}
GetBySlugWithAuth(u, s) ==
    {n \in News_FindBySlug(s) : news[n].status = "published" \/ MayTouch(n, u)}
GetNews(u, n) == IF MayTouch(n, u) THEN {n} ELSE {}
ListNews(u, status) ==
    (IF IsAdmin(u) THEN FindAllNews ELSE FindByAuthorID(u)) \cap FindByStatus(status)

\* A slug leads to one article at most; what anybody may read was published at a
\* time that its row tells, also after it went back to a draft and out again.
SlugsLeadToPublished ==
    \A s \in Slugs :
        /\ Cardinality(News_FindBySlug(s)) <= 1
        /\ \A n \in GetBySlug(s) : news[n].publishedAt # 0
        /\ \A u \in Reporters : GetBySlug(s) \subseteq GetBySlugWithAuth(u, s)
    /\ \A u \in Reporters, n \in Articles :
        GetNews(u, n) # {} => n \in ListNews(u, news[n].status)

\* The bus hears of a deletion only when the row was deleted, and of a
\* publication only when UpdateStatus made one; when all is quiet and nothing
\* failed it has heard of each.  Of two requests that delete one article one
\* announces it.
EventsFollowRows ==
    \A n \in Articles :
        /\ told[n].published <= turns[n].published
        /\ told[n].deleted <= turns[n].deleted
        /\ Quiet /\ faults = 0 => told[n] = turns[n]

NewsHold == SlugsLeadToPublished /\ EventsFollowRows

\* A status moves along a transition of the domain, the time of publication
\* stands once it is set, and a deleted article stays deleted, unless a request
\* wrote the row while another held a copy of it.
Moved(n) ==
    /\ news'[n].status \in {news[n].status} \/
       <<news[n].status, news'[n].status>> \in
            {<<"draft", "published">>, <<"draft", "archived">>,
             <<"published", "archived">>, <<"archived", "draft">>}
    /\ news[n].publishedAt \in {0, news'[n].publishedAt}
    /\ news[n].deleted => news'[n].deleted

NewsMovesAlong == [][\A n \in Articles : n \in crossed' \/ Moved(n)]_newsVars

-----------------------------------------------------------------------------
(* Why they hold *)

\* A row that is published has the time of it.
Stamped(row) == row.status = "published" => row.publishedAt # 0

\* What a request holds of a row is the row, unless another wrote it meanwhile,
\* and the status it is about to write was reachable from there.
CopyFits(q) ==
    /\ Len(q.copy) = 1 /\ Stamped(q.copy[1])
    /\ q.id \in crossed \/ q.copy[1] = news[q.id]
    /\ \/ q.pc = "savenews" /\ q.status \in {"keep", q.copy[1].status}
       \/ CanTransitionTo(q.copy[1].status, q.status)

\* A request has a time of its own, and its article exists.
KnowsItsRow(q) ==
    /\ q.stamp # 0
    /\ IF q.pc = "news" THEN q.slug \in Slugs ELSE q.id \in Articles
    /\ q.pc \in {"status", "savestatus"} => q.status # "keep"
    /\ IF q.pc \in {"savenews", "savestatus"} THEN CopyFits(q) ELSE q.copy = <<>>

\* The index holds, and every row was published at a time if it is published.
RowsAreSound ==
    \A n \in Articles : Stamped(news[n]) /\ SlugIsFree(news[n].slug, n)

\* The requests that have changed row n and are about to tell the bus.
Owing(label, n) == {r \in Slots : At(r, label) /\ req[r].id = n}

EventsAreOwed ==
    \A n \in Articles :
        /\ Accounted(told[n].published, turns[n].published, Owing("announce", n), faults)
        /\ Accounted(told[n].deleted, turns[n].deleted, Owing("mourn", n), faults)

NewsInv ==
    /\ NewsTypeOK
    /\ RowsAreSound
    /\ \A r \in Slots : At(r, "idle") \/ KnowsItsRow(req[r])
    /\ EventsAreOwed

NewsSpec == NewsInit /\ RequestsInit /\ [][NewsNext]_<<newsVars, requestVars>>

=============================================================================
