--------------------------- MODULE Notifications ---------------------------
(***************************************************************************)
(* Announcements (notification_service.ts, audience.ts, their controllers  *)
(* and the pruning job): staff write, publish and delete them; who sees    *)
(* one is decided by one predicate over the row and the viewer, and what   *)
(* is new to a viewer by the time they last looked. Time is in seconds, as *)
(* the rows have it.                                                       *)
(***************************************************************************)
EXTENDS Integers, FiniteSets, FiniteSetsExt, Lucid

CONSTANTS
  MaxNotices,         \* bound on the announcements, numbered as they are made
  Viewers, PlanNames,  \* accounts, and the plans of plans.ts
  Unknown,            \* a plan key or user id a form may hold that is none
  Forms,              \* what authors submit for each
  Clerks,             \* requests of staff under way at once
  CANDIDATE_LIMIT,
  MaxSeconds,         \* bound on the clock
  NoNotice

AudienceTypes == {"all", "plan", "owners", "users"}
FormRow == [type : AudienceTypes, planKeys : SUBSET (PlanNames \cup {Unknown}),
            userIds : SUBSET (Viewers \cup {Unknown})]
Notices == 1..MaxNotices
Seconds == 1..MaxSeconds
NoticeRow ==
  [audienceType : AudienceTypes,
   audience : [planKeys : SUBSET PlanNames, userIds : SUBSET Viewers],
   publishedAt : {0} \cup Seconds, expired : BOOLEAN, deleted : BOOLEAN]

ASSUME NotificationsAssumption ==
  /\ MaxNotices \in Nat /\ CANDIDATE_LIMIT \in Nat /\ MaxSeconds \in Nat \ {0}
  /\ Forms \in [Notices -> SUBSET FormRow]
  /\ NoNotice \notin Notices \cup NoticeRow \cup FormRow
  /\ Unknown \notin Viewers \cup PlanNames

VARIABLES
  second,     \* the clock
  notice,     \* the rows
  form,       \* history: what the author of each chose
  viewer,     \* role, plan and notifications_seen_at of each account
  clerk,      \* the row each request of staff has loaded
  feed,       \* what the page a viewer has open shows, and what of it as new
  owed,       \* history: announcements a viewer is to see as new, on their next visit
  read        \* history: announcements a viewer was shown, and as new

noticeVars == <<second, notice, form, viewer, clerk, feed, owed, read>>

NoAudience == [planKeys |-> {}, userIds |-> {}]
Closed == [open |-> FALSE, seenAt |-> 0, shows |-> {}, new |-> {}]

NoticesInit ==
  /\ second = 1
  /\ notice = [n \in Notices |-> NoNotice] /\ form = [n \in Notices |-> NoNotice]
  /\ viewer \in [Viewers -> [role : {"owner", "member"}, plan : PlanNames, seenAt : {0}]]
  /\ clerk = [c \in Clerks |-> NoNotice]
  /\ feed = [u \in Viewers |-> Closed]
  /\ owed = [u \in Viewers |-> {}]
  /\ read = [u \in Viewers |-> [shown |-> {}, new |-> {}]]

Made == {n \in Notices : form[n] # NoNotice}
There == {n \in Notices : notice[n] # NoNotice}
isDraft(row) == row.publishedAt = 0
isLive(row) == ~isDraft(row) /\ ~row.expired /\ ~row.deleted

-----------------------------------------------------------------------------
(* audience.ts: who an announcement reaches.                               *)

appliesTo(row, who, u) ==
  CASE row.audienceType = "all" -> TRUE
    [] row.audienceType = "plan" -> who.plan \in row.audience.planKeys
    [] row.audienceType = "owners" ->
         who.role = "owner" /\ (\/ row.audience.planKeys = {}
                                \/ who.plan \in row.audience.planKeys)
    [] row.audienceType = "users" -> u \in row.audience.userIds

\* What the type does not use, and what is no plan or id, is dropped.
normalizeAudience(f) ==
  CASE f.type = "all" -> NoAudience
    [] f.type \in {"plan", "owners"} -> [NoAudience EXCEPT !.planKeys = f.planKeys \cap PlanNames]
    [] f.type = "users" -> [NoAudience EXCEPT !.userIds = f.userIds \ {Unknown}]

-----------------------------------------------------------------------------
(* Authoring.                                                              *)

\* Who is owed it: those it reaches as it is published who are not looking.
Owe(n, row) ==
  owed' = [u \in Viewers |->
    IF appliesTo(row, viewer[u], u) /\ ~feed[u].open /\ viewer[u].seenAt < second
    THEN owed[u] \cup {n} ELSE owed[u]]

CreateNotice(n, f, publishNow) ==
  /\ n \notin Made /\ n - 1 \in Made \cup {0}
  /\ LET row == [audienceType |-> f.type, audience |-> normalizeAudience(f),
                 publishedAt |-> IF publishNow THEN second ELSE 0,
                 expired |-> FALSE, deleted |-> FALSE]
     IN /\ notice' = [notice EXCEPT ![n] = row]
        /\ form' = [form EXCEPT ![n] = f]
        /\ IF publishNow THEN Owe(n, row) ELSE UNCHANGED owed
  /\ UNCHANGED <<second, viewer, clerk, feed, read>>

LoadNotice(c, n) ==
  /\ clerk[c] = NoNotice /\ n \in There /\ ~notice[n].deleted
  /\ clerk' = [clerk EXCEPT ![c] = [n |-> n, row |-> notice[n]]]
  /\ UNCHANGED <<second, notice, form, viewer, feed, owed, read>>

\* By id: a row that was pruned stays gone.
SaveNotice(c, columns) ==
  /\ notice' = [notice EXCEPT ![clerk[c].n] =
       IF @ = NoNotice THEN @ ELSE Saved(@, clerk[c].row, columns)]
  /\ clerk' = [clerk EXCEPT ![c] = NoNotice]
  /\ UNCHANGED <<second, form, viewer, feed, read>>

PublishNotice(c) ==
  /\ clerk[c] # NoNotice /\ isDraft(clerk[c].row)
  /\ SaveNotice(c, [publishedAt |-> second])
  /\ LET n == clerk[c].n IN
     IF n \in There /\ isDraft(notice[n]) THEN Owe(n, notice[n]) ELSE UNCHANGED owed

DeleteNotice(c) ==
  /\ clerk[c] # NoNotice
  /\ SaveNotice(c, [deleted |-> TRUE])
  /\ UNCHANGED owed

\* The job removes what was deleted a month ago or more.
PruneNotices ==
  /\ \E ns \in SUBSET {n \in There : notice[n].deleted} \ {{}} :
       notice' = [n \in Notices |-> IF n \in ns THEN NoNotice ELSE notice[n]]
  /\ UNCHANGED <<second, form, viewer, clerk, feed, owed, read>>

-----------------------------------------------------------------------------
(* The viewer's page: the feed as it is read, then the stamp.              *)

Later(n, m) == \/ notice[n].publishedAt > notice[m].publishedAt
               \/ notice[n].publishedAt = notice[m].publishedAt /\ n > m
Candidates == {n \in There : ~isDraft(notice[n]) /\ ~notice[n].deleted}
Considered ==
  {n \in Candidates : Cardinality({m \in Candidates : Later(m, n)}) < CANDIDATE_LIMIT}
publishedSince(t) == {n \in Considered : isLive(notice[n]) /\ notice[n].publishedAt > t}
For(u, ns) == {n \in ns : appliesTo(notice[n], viewer[u], u)}

unread(u) == For(u, publishedSince(viewer[u].seenAt))     \* the dot on the bell

JustNow(u) == second                                                      \* mutant
LastVisit(u) == viewer[u].seenAt

OpenFeed(u) ==
  /\ ~feed[u].open
  /\ LET live == For(u, publishedSince(0)) IN
     feed' = [feed EXCEPT ![u] =
       [open |-> TRUE, seenAt |-> viewer[u].seenAt, shows |-> live,
        new |-> {n \in live : LastVisit(u) = 0 \/ notice[n].publishedAt > LastVisit(u)}]]
  /\ UNCHANGED <<second, notice, form, viewer, clerk, owed, read>>

markSeen(u) ==
  /\ feed[u].open
  /\ viewer' = [viewer EXCEPT ![u].seenAt = second]
  /\ read' = [read EXCEPT ![u] = [shown |-> @.shown \cup feed[u].shows,
                                  new |-> @.new \cup (feed[u].new \ @.shown)]]
  /\ owed' = [owed EXCEPT ![u] = @ \cap (read[u].shown \cup feed[u].shows)]
  /\ feed' = [feed EXCEPT ![u] = Closed]
  /\ UNCHANGED <<second, notice, form, clerk>>

-----------------------------------------------------------------------------

ExpireNotice(n) ==
  /\ n \in There /\ ~notice[n].expired
  /\ notice' = [notice EXCEPT ![n].expired = TRUE]
  /\ UNCHANGED <<second, form, viewer, clerk, feed, owed, read>>

\* Roles change hands and plans change.
ChangeViewer(u) ==
  /\ \E role \in {"owner", "member"}, plan \in PlanNames :
       viewer' = [viewer EXCEPT ![u].role = role, ![u].plan = plan]
  /\ viewer' # viewer
  /\ UNCHANGED <<second, notice, form, clerk, feed, owed, read>>

TickSecond ==
  /\ second < MaxSeconds /\ second' = second + 1
  /\ UNCHANGED <<notice, form, viewer, clerk, feed, owed, read>>

NoticesNext ==
  \/ \E n \in Notices, publishNow \in BOOLEAN : \E f \in Forms[n] : CreateNotice(n, f, publishNow)
  \/ \E c \in Clerks : \/ \E n \in There : LoadNotice(c, n)
                         \/ PublishNotice(c) \/ DeleteNotice(c)
  \/ \E u \in Viewers : OpenFeed(u) \/ markSeen(u) \/ ChangeViewer(u)
  \/ \E n \in There : ExpireNotice(n)
  \/ PruneNotices \/ TickSecond

NoticesSpec == NoticesInit /\ [][NoticesNext]_noticeVars

-----------------------------------------------------------------------------

\* Rows are there only for what was made, and keep of the form what they may
\* hold (notifications).
NoticeTypeOK ==
  /\ second \in Seconds /\ There \subseteq Made
  /\ \A n \in There :
       /\ notice[n] \in NoticeRow
       /\ notice[n].audienceType = "users" => notice[n].audience.planKeys = {}
       /\ notice[n].audienceType # "users" => notice[n].audience.userIds = {}
  /\ \A u \in Viewers : feed[u].new \subseteq feed[u].shows /\ viewer[u].seenAt <= second

\* An announcement reaches exactly those its author named: on these plans, the
\* owners of these plans or of any, these people; nobody if nothing was named
\* (appliesTo after normalizeAudience; reachOf counts the same).
Chosen(f, who, u) ==
  LET named == f.planKeys \cap PlanNames IN
  CASE f.type = "all" -> TRUE
    [] f.type = "plan" -> who.plan \in named
    [] f.type = "owners" -> who.role = "owner" /\ (named = {} \/ who.plan \in named)
    [] f.type = "users" -> u \in f.userIds
ReachesTheChosen ==
  \A n \in There, u \in Viewers :
    appliesTo(notice[n], viewer[u], u) <=> Chosen(form[n], viewer[u], u)

\* Whoever an announcement reached as it was published, and was not looking,
\* finds it marked as new on their next visit, if it still is for them then
\* (index: read first, stamp after).
FirstShownAsNew ==
  \A u \in Viewers : owed[u] \cap read[u].shown \subseteq read[u].new

\* And until then the bell says so, for as long as it is live and for them,
\* unless there are more than the query considers (unreadCountFor).
DotUntilRead ==
  Cardinality(Candidates) <= CANDIDATE_LIMIT =>
    \A u \in Viewers, n \in There :
      n \in owed[u] \ read[u].shown /\ isLive(notice[n]) /\ appliesTo(notice[n], viewer[u], u)
        => n \in unread(u)

\* What announcements promise, at any moment (notification_service.ts).
NoticesSafe == NoticeTypeOK /\ ReachesTheChosen /\ FirstShownAsNew /\ DotUntilRead
=============================================================================
