---------------------------- MODULE Notifications ----------------------------
(***************************************************************************)
(* What users are told, notifications and the activity feed: two components*)
(* that share nothing but the way requests are served.                     *)
(***************************************************************************)
EXTENDS Requests, SequencesExt

(***************************************************************************)
(* Notifications to users: internal/service/notification.go, its handler   *)
(* and its repositories.                                                   *)
(*                                                                         *)
(* Send counts before it writes: it reads an hourly counter in the cache   *)
(* and writes it back, one up, so that overlapping sends to one user may   *)
(* count as one and a late write may set the counter back.  What a user    *)
(* does to a row is one conditional UPDATE.                                *)
(***************************************************************************)

CONSTANTS
    Recipients,     \* users
    NoteTypes,      \* types of notifications
    MailedTypes,    \* those that are sent as an email too unless the user says no
    HourlyLimit,    \* notificationRateLimit
    MaxNotes        \* bound on the rows

ASSUME NotesAssumption == MailedTypes \subseteq NoteTypes /\ HourlyLimit \in Nat

VARIABLES
    notes,      \* notifications, by the order of their insertion
    wishes,     \* notification_preferences: email_enabled, where there is a row
    hourly,     \* the counter of each user in the cache, 0 if there is none
    owed,       \* history: sends asked for, those refused, and those let through
    refused,    \*          since the counter was last absent, by user;
    accepted,
    contended,  \*          users to whom two sends counted at a time,
    reports     \*          how often the user was told that he read a row

noteVars == <<notes, wishes, hourly, owed, refused, accepted, contended, reports>>

Count == 0..(MaxRequests * 2)
Note == [user : Recipients, type : NoteTypes, read : BOOLEAN, archived : BOOLEAN,
         mailed : BOOLEAN, \* an email was queued;
         wanted : SUBSET BOOLEAN] \* history: the wishes in effect during the send

NoteRequest ==
    [pc : {"counter", "count", "insert", "prefer", "mail"}, type : NoteTypes,
     todo : Seq(Recipients), read : Count, id : 0..MaxNotes, wanted : SUBSET BOOLEAN]

NotificationsTypeOK ==
    /\ notes \in Seq(Note) /\ Len(notes) <= MaxNotes
    /\ \A k \in DOMAIN wishes : k \in Recipients \X NoteTypes /\ wishes[k] \in BOOLEAN
    /\ {hourly, owed, refused, accepted} \subseteq [Recipients -> Count]
    /\ contended \subseteq Recipients
    /\ Len(reports) = Len(notes)
    /\ RequestsAre(NoteRequest)

NotificationsInit ==
    LET none == [u \in Recipients |-> 0]
    IN  /\ notes = <<>> /\ wishes = <<>> /\ reports = <<>>
        /\ hourly = none /\ owed = none /\ refused = none /\ accepted = none
        /\ contended = {}

-----------------------------------------------------------------------------
(* Send and SendBulk *)

\* The preference of the user, or the default of the type.
ResolveEmailEnabled(u, t) ==
    IF <<u, t>> \in DOMAIN wishes THEN wishes[<<u, t>>] ELSE t \in MailedTypes

\* A send about users in some order, one after the other.
SendRequest(users, t) ==
    [pc |-> "counter", type |-> t, todo |-> users, read |-> 0, id |-> 0, wanted |-> {}]

Asked(users) ==
    owed' = [u \in Recipients |-> owed[u] + Cardinality({i \in DOMAIN users : users[i] = u})]

SendNote(r, u, t) ==
    /\ Begin(r, SendRequest(<<u>>, t))
    /\ Asked(<<u>>)
    /\ UNCHANGED <<notes, wishes, hourly, refused, accepted, contended, reports>>

SendBulk(r, users, t) ==
    /\ Begin(r, SendRequest(users, t))
    /\ Asked(users)
    /\ UNCHANGED <<notes, wishes, hourly, refused, accepted, contended, reports>>

\* On to the next user, if there is one: Send returns what became of this one, and
\* SendBulk logs it.
NextRecipient(r) ==
    LET q == req[r]
    IN  IF Len(q.todo) = 1 THEN Idle ELSE SendRequest(Tail(q.todo), q.type)

\* Mutant of Spent: one more than the limit.
SpentAfter(u) == hourly[u] > HourlyLimit

Spent(u) == hourly[u] >= HourlyLimit

\* checkAndIncrRateLimit reads the counter; without the cache nothing is counted.
ReadCounter(r) ==
    LET q == req[r]
        u == Head(q.todo)
    IN  /\ At(r, "counter")
        /\ \/ /\ Spent(u)
              /\ refused' = [refused EXCEPT ![u] = @ + 1]
              /\ Become(r, NextRecipient(r))
              /\ UNCHANGED contended
           \/ /\ ~Spent(u)
              /\ contended' = IF \E s \in Others(r) : At(s, "count") /\ Head(req[s].todo) = u
                              THEN contended \cup {u} ELSE contended
              /\ Become(r, [q EXCEPT !.pc = "count", !.read = hourly[u]])
              /\ UNCHANGED refused
           \/ /\ Stumble(r, [q EXCEPT !.pc = "insert"])
              /\ UNCHANGED <<refused, contended>>
        /\ UNCHANGED <<notes, wishes, hourly, owed, accepted, reports>>

\* ... and writes it, one up; an error is passed over.
WriteCounter(r) ==
    LET q == req[r]
        u == Head(q.todo)
    IN  /\ At(r, "count")
        /\ \/ /\ hourly' = [hourly EXCEPT ![u] = q.read + 1]
              /\ Goto(r, "insert")
           \/ UNCHANGED hourly /\ Stumble(r, [q EXCEPT !.pc = "insert"])
        /\ accepted' = [accepted EXCEPT ![u] = @ + 1]
        /\ UNCHANGED <<notes, wishes, owed, refused, contended, reports>>

\* An hour after the last write, also between a read and a write.
HourlyExpires(u) ==
    /\ hourly[u] > 0
    /\ hourly' = [hourly EXCEPT ![u] = 0]
    /\ accepted' = [accepted EXCEPT ![u] = 0]
    /\ contended' = IF \E s \in Slots : At(s, "count") THEN contended ELSE contended \ {u}
    /\ UNCHANGED <<notes, wishes, owed, refused, reports, requestVars>>

\* The row; without it there is no email either.
InsertNote(r) ==
    LET q == req[r]
        u == Head(q.todo)
    IN  /\ At(r, "insert")
        /\ \/ /\ Len(notes) < MaxNotes
              /\ notes' = Append(notes, [user |-> u, type |-> q.type, read |-> FALSE,
                            archived |-> FALSE, mailed |-> FALSE, wanted |-> {}])
              /\ reports' = Append(reports, 0)
              /\ Become(r, [q EXCEPT !.pc = "prefer", !.id = Len(notes) + 1,
                                     !.wanted = {ResolveEmailEnabled(u, q.type)}])
           \/ UNCHANGED <<notes, reports>> /\ Stumble(r, NextRecipient(r))
        /\ UNCHANGED <<wishes, hourly, owed, refused, accepted, contended>>

\* maybeQueueEmail reads the preference; any error of it stands for "no row" ...
ReadPreference(r) ==
    LET q == req[r]
        u == Head(q.todo)
        done(wish) == IF wish THEN [q EXCEPT !.pc = "mail"] ELSE NextRecipient(r)
    IN  /\ At(r, "prefer")
        /\ notes' = [notes EXCEPT ![q.id].wanted = q.wanted]
        /\ \/ Become(r, done(ResolveEmailEnabled(u, q.type)))
           \/ Stumble(r, done(q.type \in MailedTypes))
        /\ UNCHANGED <<wishes, hourly, owed, refused, accepted, contended, reports>>

\* ... and hands an email over to the queue.  No error of this is returned.
QueueNoteEmail(r) ==
    LET q == req[r]
    IN  /\ At(r, "mail")
        /\ \/ /\ notes' = [notes EXCEPT ![q.id].mailed = TRUE]
              /\ Become(r, NextRecipient(r))
           \/ UNCHANGED notes /\ Stumble(r, NextRecipient(r))
        /\ UNCHANGED <<wishes, hourly, owed, refused, accepted, contended, reports>>

-----------------------------------------------------------------------------
(* What the user does: one statement each *)

Unread(n, u) == notes[n].user = u /\ ~notes[n].read /\ ~notes[n].archived

\* Mutant of Readable: a row may be read again.
ReadableAgain(n, u) == notes[n].user = u /\ ~notes[n].archived

Readable(n, u) == Unread(n, u)

Mark(ns) ==
    /\ notes' = [n \in DOMAIN notes |->
                    IF n \in ns THEN [notes[n] EXCEPT !.read = TRUE] ELSE notes[n]]
    /\ reports' = [n \in DOMAIN notes |-> reports[n] + IF n \in ns THEN 1 ELSE 0]
    /\ UNCHANGED <<wishes, hourly, owed, refused, accepted, contended>>

\* No row affected is "not found".
HandleMarkAsRead(u, n) ==
    /\ Serve
    /\ Readable(n, u)
    /\ Mark({n})

\* Of one type or of all; the count is the answer.
HandleMarkAllAsRead(u, ts) ==
    /\ Serve
    /\ Mark({n \in DOMAIN notes : Unread(n, u) /\ notes[n].type \in ts})

HandleArchive(u, n) ==
    /\ Serve
    /\ notes[n].user = u /\ ~notes[n].archived
    /\ notes' = [notes EXCEPT ![n].archived = TRUE]
    /\ UNCHANGED <<wishes, hourly, owed, refused, accepted, contended, reports>>

\* INSERT ... ON CONFLICT DO UPDATE.  (The sends in progress take note.)
HandleUpdatePreference(u, t, b) ==
    LET sends == {s \in Slots : At(s, "prefer") /\ Head(req[s].todo) = u /\ req[s].type = t}
    IN  /\ begun < MaxRequests
        /\ begun' = begun + 1
        /\ wishes' = [k \in DOMAIN wishes \cup {<<u, t>>} |->
                        IF k = <<u, t>> THEN b ELSE wishes[k]]
        /\ req' = [s \in Slots |-> IF s \in sends
                    THEN [req[s] EXCEPT !.wanted = @ \cup {b}] ELSE req[s]]
        /\ UNCHANGED <<faults, notes, hourly, owed, refused, accepted, contended, reports>>

-----------------------------------------------------------------------------

NotificationsNext ==
    \/ \E r \in Slots :
        \/ \E t \in NoteTypes :
            \/ \E u \in Recipients : SendNote(r, u, t)
            \/ \E u, v \in Recipients : SendBulk(r, <<u, v>>, t)
        \/ ReadCounter(r) \/ WriteCounter(r)
        \/ InsertNote(r)
        \/ ReadPreference(r) \/ QueueNoteEmail(r)
        \/ Abort(r) /\ UNCHANGED noteVars
    \/ \E u \in Recipients :
        \/ HourlyExpires(u)
        \/ \E n \in DOMAIN notes : HandleMarkAsRead(u, n) \/ HandleArchive(u, n)
        \/ \E ts \in {NoteTypes} \cup {{t} : t \in NoteTypes} : HandleMarkAllAsRead(u, ts)
        \/ \E t \in NoteTypes, b \in BOOLEAN : HandleUpdatePreference(u, t, b)

-----------------------------------------------------------------------------
(* Properties *)

\* What a user is shown: the list, the unread ones, their number, the preferences.
NotesOf(u) == {n \in DOMAIN notes : notes[n].user = u}
ListByUser(u) == {n \in NotesOf(u) : ~notes[n].archived}
ListUnreadByUser(u) == {n \in NotesOf(u) : Unread(n, u)}
CountUnread(u) == Cardinality(ListUnreadByUser(u))
GetPreferences(u) == {k \in DOMAIN wishes : k[1] = u}

\* However reads of one row and of all overlap, the user is told once that he read
\* a row: the number beside the bell goes down by what the answers said.
ReadOnce ==
    \A u \in Recipients :
        /\ \A n \in NotesOf(u) : reports[n] = IF notes[n].read THEN 1 ELSE 0
        /\ CountUnread(u) = Cardinality({n \in ListByUser(u) : reports[n] = 0})

\* No more sends to a user than the limit are let through from one expiry of the
\* counter to the next, unless two of them counted at a time or the cache failed.
SendsAreLimited ==
    \A u \in Recipients \ contended : faults = 0 => accepted[u] <= HourlyLimit

\* Nobody is left out: when all is quiet and nothing failed, each send to a user
\* (alone or among others) left him a row or was refused by the limit.
SendsReachAll ==
    Quiet /\ faults = 0 =>
        \A u \in Recipients : owed[u] = Cardinality(NotesOf(u)) + refused[u]

\* An email is queued, or not, as a preference said that stood while the send went
\* on; a user who switched the type off, and nobody else, gets none.
MailFollowsPreference ==
    Quiet /\ faults = 0 =>
        \A u \in Recipients : \A n \in NotesOf(u) : notes[n].mailed \in notes[n].wanted

NotesHold == ReadOnce /\ SendsAreLimited /\ SendsReachAll /\ MailFollowsPreference

-----------------------------------------------------------------------------
(***************************************************************************)
(* The activity feed: internal/service/activity.go, activity_follow.go and *)
(* activity_reaper.go, their handler and their repositories.               *)
(*                                                                         *)
(* What the event bus publishes goes through a channel of its own, which   *)
(* holds the bus up when it is full, and becomes a row.  Read marks and    *)
(* follows are rows with a unique index, written after a look for them.    *)
(***************************************************************************)

CONSTANTS
    Readers,        \* users
    FeedOrgs,       \* organizations
    Subjects,       \* resources that activities are about
    FeedBuffer,     \* capacity of the channel
    MaxEvents       \* bound on the events

ASSUME FeedAssumption == FeedBuffer \in Nat \ {0} /\ MaxEvents \in Nat

VARIABLES
    feed,       \* the channel between the bus and processEvents
    activities, \* rows, by the order of their insertion
    readRows,   \* activity_reads: <<user, activity>>
    followRows, \* activity_follows
    heard,      \* history: the events taken over from the bus,
    marked,     \*          activities said to be marked as read, by user,
    begunFollows, endedFollows  \* the follows answered with success, and ended so

activityVars == <<feed, activities, readRows, followRows, heard, marked, begunFollows,
                  endedFollows>>

Acts == DOMAIN activities

\* An event, of a type that has a mapping and with a user in its payload, or not.
FeedEvent == [n : 1..MaxEvents, mapped : BOOLEAN, org : FeedOrgs, about : Subjects]
Activity == [event : FeedEvent, archived : BOOLEAN, deleted : BOOLEAN]
Follow == [id : 1..MaxRequests, user : Readers, about : Subjects]

ActivityRequest ==
    [pc : {"find", "seek", "mark", "exists", "follow", "mine", "unfollow"},
     user : Readers, id : Nat, about : Subjects]

ActivitiesTypeOK ==
    /\ feed \in Seq(FeedEvent) /\ Len(feed) <= FeedBuffer
    /\ activities \in Seq(Activity)
    /\ readRows \subseteq Readers \X Acts
    /\ followRows \subseteq Follow
    /\ heard \in Seq(FeedEvent) /\ Len(heard) <= MaxEvents
    /\ marked \in [Readers -> Nat]
    /\ endedFollows \subseteq begunFollows /\ begunFollows \subseteq Follow
    /\ RequestsAre(ActivityRequest)

ActivitiesInit ==
    /\ feed = <<>> /\ activities = <<>> /\ readRows = {} /\ followRows = {}
    /\ heard = <<>> /\ marked = [u \in Readers |-> 0]
    /\ begunFollows = {} /\ endedFollows = {}

-----------------------------------------------------------------------------
(* From the event bus *)

\* The subscriber of the bus; a full channel blocks it, and the bus with it.
SubscribeToEventBus ==
    /\ Len(heard) < MaxEvents
    /\ Len(feed) < FeedBuffer
    /\ \E mapped \in BOOLEAN, o \in FeedOrgs, s \in Subjects :
        LET e == [n |-> Len(heard) + 1, mapped |-> mapped, org |-> o, about |-> s]
        IN  feed' = Append(feed, e) /\ heard' = Append(heard, e)
    /\ UNCHANGED <<activities, readRows, followRows, marked, begunFollows, endedFollows,
                   requestVars>>

\* An event without a mapping is an error, and so is one whose user the foreign
\* key does not know, such as uuid.Nil, which stands for a missing one.
Recorded(e) == e.mapped

\* Mutant of HandleFeedEvent: the last event in goes first.
HandleLastEvent ==
    /\ feed # <<>>
    /\ feed' = Front(feed)
    /\ activities' = IF Recorded(Last(feed))
                     THEN Append(activities, [event |-> Last(feed), archived |-> FALSE,
                                              deleted |-> FALSE])
                     ELSE activities
    /\ UNCHANGED <<readRows, followRows, heard, marked, begunFollows, endedFollows,
                   requestVars>>

\* processEvents takes the next one; an error is logged, and the event is gone.
HandleFeedEvent ==
    /\ feed # <<>>
    /\ feed' = Tail(feed)
    /\ \/ /\ Recorded(Head(feed))
          /\ activities' = Append(activities, [event |-> Head(feed), archived |-> FALSE,
                                               deleted |-> FALSE])
          /\ UNCHANGED requestVars
       \/ ~Recorded(Head(feed)) /\ UNCHANGED <<activities, requestVars>>
       \/ /\ faults < MaxFaults
          /\ faults' = faults + 1
          /\ UNCHANGED <<activities, req, begun>>
    /\ UNCHANGED <<readRows, followRows, heard, marked, begunFollows, endedFollows>>

\* Mutant of Expired: the newest are archived first.
ExpiredNewest(k) == {a \in Acts : a >= k}

Expired(k) == {a \in Acts : a <= k}

\* The reaper archives what has grown older than the retention, k rows by now.
ArchiveOlderThan(k) ==
    /\ \E a \in Expired(k) : ~activities[a].archived /\ ~activities[a].deleted
    /\ activities' = [a \in Acts |->
            IF a \in Expired(k) /\ ~activities[a].deleted
            THEN [activities[a] EXCEPT !.archived = TRUE] ELSE activities[a]]
    /\ UNCHANGED <<feed, readRows, followRows, heard, marked, begunFollows, endedFollows,
                   requestVars>>

\* With the permission to manage; the organization of the row is not looked at.
HandleDeleteActivity(a) ==
    /\ Serve
    /\ ~activities[a].deleted
    /\ activities' = [activities EXCEPT ![a].deleted = TRUE]
    /\ UNCHANGED <<feed, readRows, followRows, heard, marked, begunFollows, endedFollows>>

-----------------------------------------------------------------------------
(* The repositories *)

Activity_FindByID(a) == a \in Acts /\ ~activities[a].deleted

FindByOrganization(o) ==
    {a \in Acts : activities[a].event.org = o /\ ~activities[a].archived
                  /\ ~activities[a].deleted}

\* ... and those archived since then, which a caller asks for by a date.
FindArchivedSince(o, k) ==
    {a \in Acts : activities[a].event.org = o /\ activities[a].archived
                  /\ ~activities[a].deleted /\ a >= k}

CountUnreadByUser(u, o) == Cardinality({a \in FindByOrganization(o) : <<u, a>> \notin readRows})

ExistsByUserAndResource(u, s) == \E f \in followRows : f.user = u /\ f.about = s

\* The condition on the user binds to the first resource alone: AND before OR.
FindByUserAndResourceIDs(u, subjects) ==
    {subjects[i] : i \in {j \in DOMAIN subjects :
        \E f \in followRows : f.about = subjects[j] /\ (j = 1 => f.user = u)}}

\* The unique indexes.
UnreadSoFar(u, a) == <<u, a>> \notin readRows

\* Mutant of FollowIsNew: without the index.
FollowAnyway(u, s) == TRUE

FollowIsNew(u, s) == ~ExistsByUserAndResource(u, s)

-----------------------------------------------------------------------------
(* MarkAsRead and MarkAllRead *)

FeedCall(label, u, id, s) == [pc |-> label, user |-> u, id |-> id, about |-> s]

HandleMarkActivity(r, u, a) ==
    /\ Begin(r, FeedCall("find", u, a, activities[a].event.about))
    /\ UNCHANGED activityVars

FindActivity(r) ==
    /\ At(r, "find")
    /\ IF Activity_FindByID(req[r].id) THEN Goto(r, "seek") ELSE Finish(r)
    /\ UNCHANGED activityVars

\* FirstOrCreate looks for the row: one that is there gets a new time ...
SeekRead(r) ==
    /\ At(r, "seek")
    /\ IF UnreadSoFar(req[r].user, req[r].id) THEN Goto(r, "mark") ELSE Finish(r)
    /\ UNCHANGED activityVars

\* ... and else is inserted, if nobody else has done so by now.
InsertRead(r) ==
    LET q == req[r]
    IN  /\ At(r, "mark")
        /\ IF UnreadSoFar(q.user, q.id)
           THEN /\ readRows' = readRows \cup {<<q.user, q.id>>}
                /\ marked' = [marked EXCEPT ![q.user] = @ + 1]
           ELSE UNCHANGED <<readRows, marked>>
        /\ Finish(r)
        /\ UNCHANGED <<feed, activities, followRows, heard, begunFollows, endedFollows>>

\* Mutant of MarkedByAll: all activities are counted as marked.
MarkedByAnyCount(u, o) == FindByOrganization(o)

MarkedByAll(u, o) == {a \in FindByOrganization(o) : UnreadSoFar(u, a)}

\* One INSERT ... SELECT, and the answer is the number of rows.
HandleMarkAllRead(u, o) ==
    /\ Serve
    /\ readRows' = readRows \cup ({u} \X MarkedByAll(u, o))
    /\ marked' = [marked EXCEPT ![u] = @ + Cardinality(MarkedByAll(u, o))]
    /\ UNCHANGED <<feed, activities, followRows, heard, begunFollows, endedFollows>>

-----------------------------------------------------------------------------
(* Follow and Unfollow *)

HandleFollow(r, u, s) ==
    Begin(r, FeedCall("exists", u, begun + 1, s)) /\ UNCHANGED activityVars

ExistingFollow(r) ==
    LET q == req[r]
    IN  /\ At(r, "exists")
        /\ IF ExistsByUserAndResource(q.user, q.about) THEN Finish(r) ELSE Goto(r, "follow")
        /\ UNCHANGED activityVars

\* A row that came in between makes it an internal error.
InsertFollow(r) ==
    LET q == req[r]
        row == [id |-> q.id, user |-> q.user, about |-> q.about]
    IN  /\ At(r, "follow")
        /\ IF FollowIsNew(q.user, q.about)
           THEN /\ followRows' = followRows \cup {row}
                /\ begunFollows' = begunFollows \cup {row}
           ELSE UNCHANGED <<followRows, begunFollows>>
        /\ Finish(r)
        /\ UNCHANGED <<feed, activities, readRows, heard, marked, endedFollows>>

HandleUnfollow(r, u, f) ==
    Begin(r, FeedCall("mine", u, f.id, f.about)) /\ UNCHANGED activityVars

\* The handler lists the follows of the user to see whether it is among them ...
OwnFollow(r) ==
    /\ At(r, "mine")
    /\ IF \E f \in followRows : f.user = req[r].user /\ f.id = req[r].id
       THEN Goto(r, "unfollow") ELSE Finish(r)
    /\ UNCHANGED activityVars

\* ... and deletes it by its id; no row is "not found".
DeleteFollow(r) ==
    LET row == {f \in followRows : f.id = req[r].id}
    IN  /\ At(r, "unfollow")
        /\ followRows' = followRows \ row
        /\ endedFollows' = endedFollows \cup row
        /\ Finish(r)
        /\ UNCHANGED <<feed, activities, readRows, heard, marked, begunFollows>>

-----------------------------------------------------------------------------

ActivityHandlers(r) ==
    \E u \in Readers :
        \/ \E a \in Acts : HandleMarkActivity(r, u, a)
        \/ \E s \in Subjects : HandleFollow(r, u, s)
        \/ \E f \in begunFollows : HandleUnfollow(r, u, f)

ActivitiesNext ==
    \/ SubscribeToEventBus
    \/ HandleFeedEvent
    \/ \E k \in Acts : ArchiveOlderThan(k) \/ HandleDeleteActivity(k)
    \/ \E u \in Readers, o \in FeedOrgs : HandleMarkAllRead(u, o)
    \/ \E r \in Slots :
        \/ ActivityHandlers(r)
        \/ FindActivity(r) \/ SeekRead(r) \/ InsertRead(r)
        \/ ExistingFollow(r) \/ InsertFollow(r)
        \/ OwnFollow(r) \/ DeleteFollow(r)
        \/ Abort(r) /\ UNCHANGED activityVars

-----------------------------------------------------------------------------
(* Properties *)

\* What a user is shown of an organization: each activity with the marks "read" and
\* "following"; the number of those not read; the follows.
ListByOrganization(u, o) ==
    LET rows == SetToSeq(FindByOrganization(o))
        followed == FindByUserAndResourceIDs(u, [i \in DOMAIN rows |->
                                                    activities[rows[i]].event.about])
    IN  {[id |-> a, read |-> ~UnreadSoFar(u, a),
          following |-> activities[a].event.about \in followed] : a \in FindByOrganization(o)}
CountUnreadActivities(u, o) == CountUnreadByUser(u, o)
ListFollows(u) == {f \in followRows : f.user = u}
IsFollowing(u, s) == ExistsByUserAndResource(u, s)

\* Each event that can be recorded is in the feed once, in the order of the bus,
\* or still in the channel, unless a write failed.
FeedIsComplete ==
    faults = 0 =>
        SelectSeq(heard, Recorded) =
            [a \in Acts |-> activities[a].event] \o SelectSeq(feed, Recorded)

\* What is archived is older than what is shown, and what was archived is still
\* found by its date.
OldestAreArchived ==
    \A o \in FeedOrgs : \A a \in FindByOrganization(o) :
        FindArchivedSince(o, a) = {}

\* However marking one and marking all overlap, the answers add up to the marks
\* there are, and the activities not read are those shown less those marked.
ReadMarksAddUp ==
    \A u \in Readers :
        /\ marked[u] = Cardinality({m \in readRows : m[1] = u})
        /\ \A o \in FeedOrgs :
            CountUnreadActivities(u, o) =
                Cardinality({x \in ListByOrganization(u, o) : ~x.read})

\* A follow that was answered with success lasts until an unfollow of it was; a user
\* follows nothing twice; and he sees that he follows what he does.
FollowsStand ==
    /\ followRows = begunFollows \ endedFollows
    /\ \A u \in Readers :
        /\ \A f, g \in ListFollows(u) : f.about = g.about => f = g
        /\ \A o \in FeedOrgs : \A x \in ListByOrganization(u, o) :
            IsFollowing(u, activities[x.id].event.about) => x.following

ActivitiesHold == FeedIsComplete /\ OldestAreArchived /\ ReadMarksAddUp /\ FollowsStand

=============================================================================
