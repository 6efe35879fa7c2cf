------------------------------- MODULE Comments -------------------------------
(***************************************************************************)
(* What users attach to an entity, comments and tags: two components that  *)
(* share nothing but the way requests are served.                          *)
(***************************************************************************)
EXTENDS Requests, Sequences

(***************************************************************************)
(* Comments on an entity: internal/service/comment.go, its handler and its *)
(* repository.                                                             *)
(*                                                                         *)
(* A comment is read, changed in memory and saved whole, without a lock or *)
(* a version: of two requests that overlap on one comment the second save  *)
(* undoes the change of the first, a pin, an edit or the deletion (Save    *)
(* writes deleted_at as it was read).  A thread has one level.             *)
(***************************************************************************)

CONSTANTS
    Entities,       \* what can be commented on
    Writers,        \* users that may create comments
    Moderators,     \* those that may pin, and delete any comment
    MaxComments     \* bound on the rows

ASSUME ModeratorsAssumption == Moderators \subseteq Writers
ASSUME MaxCommentsAssumption == MaxComments \in Nat

VARIABLES
    comments,   \* the rows, by the order of their insertion
    wrote,      \* history: <<comment, user, text>> of the texts sent by users,
    acked,      \* what the last successful request about each comment asked for,
    mixed       \* and the comments on which the statements of two overlapped

commentVars == <<comments, wrote, acked, mixed>>

Text == 0..MaxRequests

\* A row of the table: parent 0 for none.
Comment == [on : Entities, parent : 0..MaxComments, author : Writers, text : Text,
            pinned : BOOLEAN, deleted : BOOLEAN]

CommentRequest ==
    [pc : {"comment", "insert", "edit", "saveedit", "pin", "savepin",
           "remove", "softdelete"},
     user : Writers, on : Entities, id : 0..MaxComments, text : Text, pinned : BOOLEAN,
     copy : Seq(Comment)]

CommentsTypeOK ==
    /\ comments \in Seq(Comment) /\ Len(comments) <= MaxComments
    /\ wrote \subseteq (1..MaxComments) \X Writers \X Text
    /\ acked \in Seq(Comment) /\ Len(acked) = Len(comments)
    /\ mixed \subseteq 1..Len(comments)
    /\ RequestsAre(CommentRequest)

CommentsInit == comments = <<>> /\ wrote = {} /\ acked = <<>> /\ mixed = {}

-----------------------------------------------------------------------------
(* The repository *)

Comment_FindByID(c) == c \in DOMAIN comments /\ ~comments[c].deleted

FindByCommentable(e) == {c \in DOMAIN comments : comments[c].on = e /\ ~comments[c].deleted}
FindReplies(p) == {c \in DOMAIN comments : comments[c].parent = p /\ ~comments[c].deleted}
CountReplies(p) == Cardinality(FindReplies(p))

\* Update is Save: the whole row, deleted_at as it was read.
SaveRow(c, row) == comments' = [comments EXCEPT ![c] = row]

\* History: a request wrote the row of c while another held a copy of it.
Overlap(r, c) ==
    mixed' = IF \E s \in Others(r) :
                    ~At(s, "idle") /\ req[s].id = c /\ req[s].copy # <<>>
             THEN mixed \cup {c} ELSE mixed

-----------------------------------------------------------------------------
(* Create *)

HandleCreateComment(r, u, e, parent) ==
    /\ Begin(r, [pc |-> "comment", user |-> u, on |-> e, id |-> parent,
                 text |-> begun + 1, pinned |-> FALSE, copy |-> <<>>])
    /\ UNCHANGED commentVars

\* Mutant of ParentOf: the comment that is answered, whatever it is.
AnsweredComment(c) == c

\* An answer to a reply goes under the comment at the top of the thread.
ParentOf(c) == IF comments[c].parent # 0 THEN comments[c].parent ELSE c

\* The comment that is answered exists, on the same entity.
CreateComment(r) ==
    LET p == req[r].id
    IN  /\ At(r, "comment")
        /\ \/ p = 0 /\ Goto(r, "insert")
           \/ /\ Comment_FindByID(p) /\ comments[p].on = req[r].on
              /\ Become(r, [req[r] EXCEPT !.pc = "insert", !.id = ParentOf(p)])
           \/ /\ p # 0 /\ ~(Comment_FindByID(p) /\ comments[p].on = req[r].on)
              /\ Finish(r)
        /\ UNCHANGED commentVars

\* Its parent may have been deleted by now.
InsertComment(r) ==
    LET q == req[r]
        row == [on |-> q.on, parent |-> q.id, author |-> q.user, text |-> q.text,
                pinned |-> FALSE, deleted |-> FALSE]
    IN  /\ At(r, "insert")
        /\ Len(comments) < MaxComments
        /\ comments' = Append(comments, row)
        /\ acked' = Append(acked, row)
        /\ wrote' = wrote \cup {<<Len(comments) + 1, q.user, q.text>>}
        /\ Finish(r)
        /\ UNCHANGED mixed

-----------------------------------------------------------------------------
(* Update *)

\* A request of user u about comment c.
Asks(label, u, c) ==
    [pc |-> label, user |-> u, on |-> comments[c].on, id |-> c, text |-> begun + 1,
     pinned |-> FALSE, copy |-> <<>>]

HandleUpdateComment(r, u, c) == Begin(r, Asks("edit", u, c)) /\ UNCHANGED commentVars

\* Mutant of OwnComment: anybody's.
AnyComment(c, u) == Comment_FindByID(c)

OwnComment(c, u) == Comment_FindByID(c) /\ comments[c].author = u

\* The author reads the row ...
UpdateComment(r) ==
    LET c == req[r].id
    IN  /\ At(r, "edit")
        /\ IF OwnComment(c, req[r].user)
           THEN Become(r, [req[r] EXCEPT !.pc = "saveedit", !.copy = <<comments[c]>>])
           ELSE Finish(r)
        /\ UNCHANGED commentVars

\* ... looks the users up that the text mentions, and saves the row.
SaveEdit(r) ==
    LET q == req[r]
    IN  /\ At(r, "saveedit")
        /\ SaveRow(q.id, [q.copy[1] EXCEPT !.text = q.text])
        /\ acked' = [acked EXCEPT ![q.id].text = q.text]
        /\ wrote' = wrote \cup {<<q.id, q.user, q.text>>}
        /\ Overlap(r, q.id)
        /\ Finish(r)

-----------------------------------------------------------------------------
(* Pin and Unpin *)

HandlePin(r, u, c) ==
    /\ Begin(r, [Asks("pin", u, c) EXCEPT !.pinned = TRUE])
    /\ UNCHANGED commentVars

HandleUnpin(r, u, c) == Begin(r, Asks("pin", u, c)) /\ UNCHANGED commentVars

\* A moderator reads the row; it is an error if nothing is to be changed ...
Pin(r) ==
    LET q == req[r]
    IN  /\ At(r, "pin") /\ q.pinned
        /\ IF /\ q.user \in Moderators
              /\ Comment_FindByID(q.id)
              /\ ~comments[q.id].pinned
           THEN Become(r, [q EXCEPT !.pc = "savepin", !.copy = <<comments[q.id]>>])
           ELSE Finish(r)
        /\ UNCHANGED commentVars

Unpin(r) ==
    LET q == req[r]
    IN  /\ At(r, "pin") /\ ~q.pinned
        /\ IF /\ q.user \in Moderators
              /\ Comment_FindByID(q.id)
              /\ comments[q.id].pinned
           THEN Become(r, [q EXCEPT !.pc = "savepin", !.copy = <<comments[q.id]>>])
           ELSE Finish(r)
        /\ UNCHANGED commentVars

\* ... and saves it.
SavePin(r) ==
    LET q == req[r]
    IN  /\ At(r, "savepin")
        /\ SaveRow(q.id, [q.copy[1] EXCEPT !.pinned = q.pinned])
        /\ acked' = [acked EXCEPT ![q.id].pinned = q.pinned]
        /\ Overlap(r, q.id)
        /\ Finish(r)
        /\ UNCHANGED wrote

-----------------------------------------------------------------------------
(* Delete *)

HandleDeleteComment(r, u, c) == Begin(r, Asks("remove", u, c)) /\ UNCHANGED commentVars

DeleteComment(r) ==
    LET q == req[r]
    IN  /\ At(r, "remove")
        /\ IF Comment_FindByID(q.id)
              /\ (comments[q.id].author = q.user \/ q.user \in Moderators)
           THEN Goto(r, "softdelete") ELSE Finish(r)
        /\ UNCHANGED commentVars

\* The replies stay.
SoftDeleteComment(r) ==
    LET c == req[r].id
    IN  /\ At(r, "softdelete")
        /\ IF ~comments[c].deleted
           THEN /\ SaveRow(c, [comments[c] EXCEPT !.deleted = TRUE])
                /\ acked' = [acked EXCEPT ![c].deleted = TRUE]
                /\ Overlap(r, c)
           ELSE UNCHANGED <<comments, acked, mixed>>
        /\ Finish(r)
        /\ UNCHANGED wrote

-----------------------------------------------------------------------------

CommentHandlers(r) ==
    \E u \in Writers :
        \/ \E e \in Entities, p \in 0..Len(comments) : HandleCreateComment(r, u, e, p)
        \/ \E c \in DOMAIN comments :
            \/ HandleUpdateComment(r, u, c) \/ HandleDeleteComment(r, u, c)
            \/ HandlePin(r, u, c) \/ HandleUnpin(r, u, c)

CommentsNext ==
    \E r \in Slots :
        \/ CommentHandlers(r)
        \/ CreateComment(r) \/ InsertComment(r)
        \/ UpdateComment(r) \/ SaveEdit(r)
        \/ Pin(r) \/ Unpin(r) \/ SavePin(r)
        \/ DeleteComment(r) \/ SoftDeleteComment(r)
        \/ Abort(r) /\ UNCHANGED commentVars

-----------------------------------------------------------------------------
(* Properties *)

\* What a reader is shown (the permission to view is asked before).
GetComment(c) == IF Comment_FindByID(c) THEN <<comments[c]>> ELSE <<>>
BuildCommentResponse(c) == [row |-> comments[c], replies |-> CountReplies(c)]
ListByCommentable(e) == {BuildCommentResponse(c) : c \in FindByCommentable(e)}
ListReplies(p) == {BuildCommentResponse(c) : c \in FindReplies(p)}

\* A thread has one level: what answers a comment stands under one that answers
\* none and is older, on the same entity; so every count shown beside a reply
\* is zero, and the counts beside the comments of an entity are of comments in
\* its list.
ThreadsAreFlat ==
    \A c \in DOMAIN comments :
        /\ \A reply \in ListReplies(c) : reply.replies = 0
        /\ FindReplies(c) # {} =>
            /\ comments[c].parent = 0
            /\ FindReplies(c) \subseteq FindByCommentable(comments[c].on)
            /\ \A d \in FindReplies(c) : d > c

\* Whatever overlaps, the text shown under the name of a user is one he sent for
\* this comment.
WordsAreTheAuthors ==
    \A c \in DOMAIN comments : GetComment(c) # <<>> =>
        <<c, comments[c].author, comments[c].text>> \in wrote

\* An edit, a pin or a deletion that was answered with success stands until
\* another request changes the same thing, unless a request wrote the row while
\* another held a copy of it.
ChangesStand ==
    \A c \in DOMAIN comments \ mixed : comments[c] = acked[c]

CommentsHold == ThreadsAreFlat /\ WordsAreTheAuthors /\ ChangesStand

CommentsSpec == CommentsInit /\ RequestsInit /\ [][CommentsNext]_<<commentVars, requestVars>>

-----------------------------------------------------------------------------
(* What is inductive, and gives these promises *)

\* Comment c stands at the top of a thread on entity e.
IsTop(c, e) == c \in DOMAIN comments /\ comments[c].on = e /\ comments[c].parent = 0

\* A reply is younger than the comment it stands under; a text is one that was sent; and
\* a row is what was asked for, unless requests overlapped.
CommentsAreSound ==
    \A c \in DOMAIN comments :
        LET row == comments[c]
        IN  /\ row.parent = 0 \/ (row.parent < c /\ IsTop(row.parent, row.on))
            /\ <<c, row.author, row.text>> \in wrote
            /\ c \in mixed \/ row = acked[c]

\* What a request has learnt on its way: the comment it answers stands at the top;
\* the copy it will save is the row, or the row is named as mixed.
KnowsItsComment(q) ==
    /\ q.pc \notin {"idle", "comment", "insert"} => q.id \in DOMAIN comments
    /\ q.pc = "insert" => q.id = 0 \/ IsTop(q.id, q.on)
    /\ q.pc \in {"saveedit", "savepin"} =>
        LET row == q.copy[1]
            now == comments[q.id]
        IN  /\ q.copy # <<>>
            /\ row.on = now.on /\ row.parent = now.parent /\ row.author = now.author
            /\ <<q.id, row.author, row.text>> \in wrote
            /\ q.id \in mixed \/ row = now
    /\ q.pc = "saveedit" => q.user = comments[q.id].author

CommentsInv ==
    /\ CommentsTypeOK /\ CommentsAreSound
    /\ \A r \in Slots : KnowsItsComment(req[r])

-----------------------------------------------------------------------------
(***************************************************************************)
(* The tags of an organization: internal/service/tag.go, its handler, its  *)
(* repositories and domain/tag.go.                                         *)
(*                                                                         *)
(* A tag counts its uses in usage_count, beside the rows of entity_tags    *)
(* and outside any transaction: the row is inserted or deleted, then the   *)
(* counter is changed by one statement, whose error is passed over.        *)
(* Update reads the tag and saves all of it, the counter included.  Names  *)
(* and slugs are unique among the live tags, by indexes.                   *)
(*                                                                         *)
(* The names of the model all have the same slug: slug 1 is that slug and  *)
(* slug i is the one with the suffix "-i".  A request is about one tag,    *)
(* the requests with a list do the same for each of them.                  *)
(***************************************************************************)

CONSTANTS
    Names,
    Tagged,         \* entities that are tagged
    Candidates,     \* slugs that are tried (10)
    MaxTags         \* bound on the rows

ASSUME CandidatesAssumption == Candidates \in Nat \ {0}
ASSUME MaxTagsAssumption == MaxTags \in Nat

VARIABLES
    tags,       \* the rows, by the order of their insertion
    links,      \* entity_tags: the id of the row of each entity and tag, or 0
    raced       \* history: tags whose counter was saved from a stale copy, or
                \* counted down by two requests for one row or before the
                \* row was counted

tagVars == <<tags, links, raced>>

TagIds == 1..MaxTags
Id == 0..MaxRequests

Tag == [name : Names, slug : 1..Candidates, usage : Nat, deleted : BOOLEAN]

TagRequest ==
    [pc : {"name", "slug", "inserttag", "rename", "newname", "newslug", "savetag", "untag",
           "softuntag", "attach", "lookup", "link", "count", "detach", "unlink", "discount"},
     id : 0..MaxTags, entity : Tagged \cup {"none"}, name : Names \cup {"none"},
     slug : 1..Candidates, link : Id, copy : Seq(Tag)]

TagsTypeOK ==
    /\ tags \in Seq(Tag) /\ Len(tags) <= MaxTags
    /\ links \in [Tagged \X TagIds -> Id]
    /\ raced \subseteq TagIds
    /\ RequestsAre(TagRequest)

TagsInit ==
    /\ tags = <<>>
    /\ links = [l \in Tagged \X TagIds |-> 0]
    /\ raced = {}

-----------------------------------------------------------------------------
(* The repositories *)

Tag_FindByID(t) == t \in DOMAIN tags /\ ~tags[t].deleted
LiveTags == {t \in DOMAIN tags : Tag_FindByID(t)}
Tag_FindByName(n) == {t \in LiveTags : tags[t].name = n}
Tag_FindBySlug(s) == {t \in LiveTags : tags[t].slug = s}
FindByEntityAndTag(e, t) == links[<<e, t>>]

\* The unique indexes on the live rows.
Fits(t, row) ==
    \A u \in LiveTags \ {t} : tags[u].name # row.name /\ tags[u].slug # row.slug

\* Save of a copy: the counter may have moved since, the tag may be gone.
Tag_Save(t, row) ==
    /\ tags' = [tags EXCEPT ![t] = row]
    /\ raced' = IF tags[t].usage # row.usage \/ tags[t].deleted THEN raced \cup {t} ELSE raced

\* Mutant of IncrementUsageCount: from one on.
IncrementPositive(t) ==
    tags' = IF Tag_FindByID(t) /\ tags[t].usage > 0 THEN [tags EXCEPT ![t].usage = @ + 1] ELSE tags

\* Both leave a deleted tag alone.
IncrementUsageCount(t) ==
    tags' = IF Tag_FindByID(t) THEN [tags EXCEPT ![t].usage = @ + 1] ELSE tags

DecrementUsageCount(t) ==
    tags' = IF Tag_FindByID(t) /\ tags[t].usage > 0
            THEN [tags EXCEPT ![t].usage = @ - 1] ELSE tags

-----------------------------------------------------------------------------
(* Create *)

TagCall(label, t, e, n) ==
    [pc |-> label, id |-> t, entity |-> e, name |-> n, slug |-> 1, link |-> begun + 1,
     copy |-> <<>>]

HandleCreateTag(r, n) == Begin(r, TagCall("name", 0, "none", n)) /\ UNCHANGED tagVars

CreateTag(r) ==
    /\ At(r, "name")
    /\ IF Tag_FindByName(req[r].name) = {} THEN Goto(r, "slug") ELSE Finish(r)
    /\ UNCHANGED tagVars

\* The slug, then the slug with a suffix, until one is free.
CreateTagSlug(r) ==
    LET q == req[r]
    IN  /\ At(r, "slug")
        /\ \/ Tag_FindBySlug(q.slug) = {} /\ Goto(r, "inserttag")
           \/ /\ Tag_FindBySlug(q.slug) # {} /\ q.slug < Candidates
              /\ Become(r, [q EXCEPT !.slug = @ + 1])
           \/ Tag_FindBySlug(q.slug) # {} /\ q.slug = Candidates /\ Finish(r)
        /\ UNCHANGED tagVars

InsertTag(r) ==
    LET row == [name |-> req[r].name, slug |-> req[r].slug, usage |-> 0, deleted |-> FALSE]
    IN  /\ At(r, "inserttag")
        /\ Len(tags) < MaxTags
        /\ tags' = IF Fits(0, row) THEN Append(tags, row) ELSE tags
        /\ Finish(r)
        /\ UNCHANGED <<links, raced>>

-----------------------------------------------------------------------------
(* Update and Delete *)

HandleUpdateTag(r, t, n) == Begin(r, TagCall("rename", t, "none", n)) /\ UNCHANGED tagVars

\* The row is read; without a new name the colour alone is saved.
UpdateTag(r) ==
    LET q == req[r]
    IN  /\ At(r, "rename")
        /\ IF Tag_FindByID(q.id)
           THEN Become(r, [q EXCEPT
                    !.pc = IF tags[q.id].name = q.name THEN "savetag" ELSE "newname",
                    !.copy = <<tags[q.id]>>])
           ELSE Finish(r)
        /\ UNCHANGED tagVars

RenameTag(r) ==
    LET q == req[r]
    IN  /\ At(r, "newname")
        /\ IF Tag_FindByName(q.name) \subseteq {q.id}
           THEN LET named == [q.copy[1] EXCEPT !.name = q.name, !.slug = 1]
                IN  Become(r, [q EXCEPT !.pc = "newslug", !.copy = <<named>>])
           ELSE Finish(r)
        /\ UNCHANGED tagVars

\* When every slug is taken the first is kept, and the index refuses it.
RenameTagSlug(r) ==
    LET q == req[r]
        free == Tag_FindBySlug(q.slug) \subseteq {q.id}
    IN  /\ At(r, "newslug")
        /\ \/ /\ free
              /\ LET row == [q.copy[1] EXCEPT !.slug = q.slug]
                 IN  Become(r, [q EXCEPT !.pc = "savetag", !.copy = <<row>>])
           \/ ~free /\ q.slug < Candidates /\ Become(r, [q EXCEPT !.slug = @ + 1])
           \/ ~free /\ q.slug = Candidates /\ Goto(r, "savetag")
        /\ UNCHANGED tagVars

SaveTag(r) ==
    LET q == req[r]
    IN  /\ At(r, "savetag")
        /\ IF Fits(q.id, q.copy[1]) THEN Tag_Save(q.id, q.copy[1]) ELSE UNCHANGED <<tags, raced>>
        /\ Finish(r)
        /\ UNCHANGED links

HandleDeleteTag(r, t) == Begin(r, TagCall("untag", t, "none", "none")) /\ UNCHANGED tagVars

DeleteTag(r) ==
    /\ At(r, "untag")
    /\ IF Tag_FindByID(req[r].id) THEN Goto(r, "softuntag") ELSE Finish(r)
    /\ UNCHANGED tagVars

\* The rows of entity_tags stay.
SoftDeleteTag(r) ==
    /\ At(r, "softuntag")
    /\ tags' = [tags EXCEPT ![req[r].id].deleted = TRUE]
    /\ Finish(r)
    /\ UNCHANGED <<links, raced>>

-----------------------------------------------------------------------------
(* AttachTags *)

HandleAttachTags(r, e, t) == Begin(r, TagCall("attach", t, e, "none")) /\ UNCHANGED tagVars

AttachTags(r) ==
    /\ At(r, "attach")
    /\ IF Tag_FindByID(req[r].id) THEN Goto(r, "lookup") ELSE Finish(r)
    /\ UNCHANGED tagVars

SkipAttached(r) ==
    /\ At(r, "lookup")
    /\ IF FindByEntityAndTag(req[r].entity, req[r].id) = 0 THEN Goto(r, "link") ELSE Finish(r)
    /\ UNCHANGED tagVars

\* The index refuses a second row for the same entity and tag.
InsertEntityTag(r) ==
    LET l == <<req[r].entity, req[r].id>>
    IN  /\ At(r, "link")
        /\ \/ links[l] = 0 /\ links' = [links EXCEPT ![l] = req[r].link] /\ Goto(r, "count")
           \/ links[l] # 0 /\ UNCHANGED links /\ Finish(r)
        /\ UNCHANGED <<tags, raced>>

CountUse(r) ==
    /\ At(r, "count")
    /\ \/ IncrementUsageCount(req[r].id) /\ Finish(r)
       \/ UNCHANGED tags /\ Stumble(r, Idle)
    /\ UNCHANGED <<links, raced>>

-----------------------------------------------------------------------------
(* DetachTags *)

HandleDetachTags(r, e, t) == Begin(r, TagCall("detach", t, e, "none")) /\ UNCHANGED tagVars

DetachTags(r) ==
    LET id == FindByEntityAndTag(req[r].entity, req[r].id)
    IN  /\ At(r, "detach")
        /\ IF id # 0 THEN Become(r, [req[r] EXCEPT !.pc = "unlink", !.link = id])
           ELSE Finish(r)
        /\ UNCHANGED tagVars

\* By the id of the row; that it is still there is not checked.
DeleteEntityTag(r) ==
    LET l == <<req[r].entity, req[r].id>>
    IN  /\ At(r, "unlink")
        /\ IF links[l] = req[r].link THEN links' = [links EXCEPT ![l] = 0] /\ UNCHANGED raced
           ELSE raced' = raced \cup {req[r].id} /\ UNCHANGED links
        /\ Goto(r, "discount")
        /\ UNCHANGED tags

\* History: the row goes before it was counted, and is counted later.
Overtaken(t) ==
    raced' = IF Tag_FindByID(t) /\ tags[t].usage = 0 THEN raced \cup {t} ELSE raced

DiscountUse(r) ==
    /\ At(r, "discount")
    /\ \/ DecrementUsageCount(req[r].id) /\ Overtaken(req[r].id) /\ Finish(r)
       \/ UNCHANGED <<tags, raced>> /\ Stumble(r, Idle)
    /\ UNCHANGED links

-----------------------------------------------------------------------------

TagHandlers(r) ==
    \/ \E n \in Names : HandleCreateTag(r, n)
    \/ \E t \in DOMAIN tags :
        \/ HandleDeleteTag(r, t)
        \/ \E n \in Names : HandleUpdateTag(r, t, n)
        \/ \E e \in Tagged : HandleAttachTags(r, e, t) \/ HandleDetachTags(r, e, t)

TagsNext ==
    \E r \in Slots :
        \/ TagHandlers(r)
        \/ CreateTag(r) \/ CreateTagSlug(r) \/ InsertTag(r)
        \/ UpdateTag(r) \/ RenameTag(r) \/ RenameTagSlug(r) \/ SaveTag(r)
        \/ DeleteTag(r) \/ SoftDeleteTag(r)
        \/ AttachTags(r) \/ SkipAttached(r) \/ InsertEntityTag(r) \/ CountUse(r)
        \/ DetachTags(r) \/ DeleteEntityTag(r) \/ DiscountUse(r)
        \/ Abort(r) /\ UNCHANGED tagVars

-----------------------------------------------------------------------------
(* Properties *)

\* What a reader is shown: one tag, the tags of the organization (Autocomplete
\* shows a part of them), and those of an entity.
GetTag(t) == IF Tag_FindByID(t) THEN {t} ELSE {}
GetTagBySlug(s) == Tag_FindBySlug(s)
ListTags == LiveTags
Autocomplete(Match(_)) == {t \in ListTags : Match(tags[t].name)}
ListEntityTags(e) == {t \in LiveTags : links[<<e, t>>] # 0}

\* Requests that are between the row of entity_tags and the counter of t.
Uncounted(t) == {r \in Slots : At(r, "count") /\ req[r].id = t}
Undiscounted(t) == {r \in Slots : At(r, "discount") /\ req[r].id = t}

\* The counter of a tag says how many entities show it, but for the requests that
\* have yet to count, unless a stale copy was saved over it, two requests took
\* one row away or one took a row away that was not counted yet, or a statement
\* failed.
UsageIsCounted ==
    faults = 0 =>
    \A t \in LiveTags \ raced :
        tags[t].usage + Cardinality(Uncounted(t)) - Cardinality(Undiscounted(t))
            = Cardinality({e \in Tagged : t \in ListEntityTags(e)})

\* A name leads to one tag, and so does a slug, although the code looks both up
\* before it writes and after it no more.
NamesLeadToOneTag ==
    /\ \A n \in Names : Cardinality(Autocomplete(LAMBDA m : m = n)) <= 1
    /\ \A s \in 1..Candidates : Cardinality(GetTagBySlug(s)) <= 1
    /\ \A t \in ListTags : GetTag(t) = {t}

TagsHold == UsageIsCounted /\ NamesLeadToOneTag

TagsSpec == TagsInit /\ RequestsInit /\ [][TagsNext]_<<tagVars, requestVars>>

-----------------------------------------------------------------------------
(* What is inductive, and gives these promises *)

\* The indexes hold: of the live rows no two have a name or a slug in common.
NamesDiffer ==
    \A t, u \in LiveTags :
        tags[t].name = tags[u].name \/ tags[t].slug = tags[u].slug => t = u

\* The entities that have tag t, shown or not.
Tagging(t) == {e \in Tagged : links[<<e, t>>] # 0}

\* The uses that were counted and those that will be are the rows there are and those
\* that were there; an entity has a tag that exists.
UsesAddUp ==
    \A t \in TagIds :
        /\ IsFiniteSet(Uncounted(t)) /\ IsFiniteSet(Undiscounted(t)) /\ IsFiniteSet(Tagging(t))
        /\ t \in DOMAIN tags \/ Tagging(t) = {}
        /\ faults = 0 /\ Tag_FindByID(t) /\ t \notin raced =>
            tags[t].usage + Cardinality(Uncounted(t))
                = Cardinality(Tagging(t)) + Cardinality(Undiscounted(t))

\* What a request is about.
KnowsItsTag(q) ==
    /\ q.pc \in {"name", "slug", "inserttag", "rename", "newname", "newslug", "savetag"}
            => q.name \in Names
    /\ q.pc \in {"attach", "lookup", "link", "count", "detach", "unlink", "discount"}
            => q.entity \in Tagged
    /\ q.pc \notin {"idle", "name", "slug", "inserttag"} => q.id \in DOMAIN tags
    /\ q.pc \in {"newname", "newslug", "savetag"} => q.copy # <<>>
    /\ q.pc \in {"attach", "lookup", "link", "unlink"} => q.link # 0

TagsInv ==
    /\ TagsTypeOK /\ NamesDiffer /\ UsesAddUp
    /\ \A r \in Slots : KnowsItsTag(req[r])

=============================================================================
