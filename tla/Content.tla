------------------------------ MODULE Content ------------------------------
(***************************************************************************)
(* Posts and pages (content_service.ts and its controllers): staff write,  *)
(* rename, publish, unpublish, archive and delete entries, each request    *)
(* deciding from the row it loaded; readers follow links. A slug an entry  *)
(* had when it was public redirects to it. Titles, bodies, rendering and   *)
(* the audit trail are left out.                                           *)
(***************************************************************************)
EXTENDS Integers, Lucid

CONSTANTS
  Entries,          \* content_entries there may ever be
  Posts,            \*   and which of them are posts
  Slugs, Reserved,  \* slugs, and those a route of the application answers
  Editors,          \* requests of staff under way at once
  EditorsDo,        \* what each of them does
  MaxDays,          \* bound on the clock
  NoContent

Kinds == {"insert", "update", "publish", "unpublish", "archive", "delete"}

Dates == 1..MaxDays
ArticleRow == [slug : Slugs, status : {"draft", "published", "archived"},
               publishedAt : {0} \cup Dates]

ASSUME ContentAssumption ==
  /\ EditorsDo \in [Editors -> SUBSET Kinds]
  /\ Posts \subseteq Entries /\ Reserved \subseteq Slugs
  /\ MaxDays \in Nat \ {0} /\ NoContent \notin Entries \cup Slugs \cup ArticleRow

VARIABLES
  article,     \* the rows, NoContent before they are made and once deleted
  written,     \* entries ever made
  redirect,    \* content_slug_redirects by old slug
  today,       \* the clock
  editor,      \* where each request is
  shared,      \* history: slugs at which readers saw each entry
  crossed,     \* history: a request that had been overtaken has written
  undated      \* history: entries whose date was changed after they were shown

contentVars == <<article, written, redirect, today, editor, shared, crossed, undated>>

Away == [step |-> "idle", e |-> NoContent, loaded |-> NoContent, slug |-> NoContent,
         date |-> 0, publish |-> FALSE, stale |-> FALSE]

ContentInit ==
  /\ article = [e \in Entries |-> NoContent] /\ written = {}
  /\ redirect = [s \in Slugs |-> NoContent]
  /\ today = 1
  /\ editor = [v \in Editors |-> Away]
  /\ shared = [e \in Entries |-> {}]
  /\ crossed = FALSE /\ undated = {}

Published == {e \in Entries : article[e] # NoContent}
LiveRow(row) == row.status = "published" /\ row.publishedAt \in 1..today
Live == {e \in Published : LiveRow(article[e])}

\* Nothing is said of what comes after an overtaken request has written:
\* behaviours are followed so far.
Unoccupied(v) == editor[v] = Away /\ ~crossed

\* A request ends; those still under way have been overtaken if it wrote.
EditorDone(v, wrote) ==
  editor' = [w \in Editors |->
    IF w = v THEN Away
    ELSE IF wrote /\ editor[w].step # "idle" THEN [editor[w] EXCEPT !.stale = TRUE]
    ELSE editor[w]]
MarkCrossed(v) == crossed' = (crossed \/ editor[v].stale)

\* By id: a row that was deleted stays deleted.
SaveArticle(e, loaded, columns) ==
  article' = [article EXCEPT ![e] =
    IF @ = NoContent THEN @ ELSE Saved(@, loaded, columns)]

-----------------------------------------------------------------------------
(* Slugs: resolveSlug and slugProblem. A slug made from a title is the     *)
(* first of its candidates without a problem: any that is free.            *)

TakenByOthers(s, e) == \E f \in Published \ {e} : article[f].slug = s
RedirectedByOthers(s, e) == redirect[s] \notin {NoContent, e}
slugProblem(s, e) == s \in Reserved \/ TakenByOthers(s, e) \/ RedirectedByOthers(s, e)

-----------------------------------------------------------------------------
(* Writing.                                                                *)

\* A draft, with a chosen date if it is a post; published in the same request
\* if so asked.
StartCreate(v, e, s, date, publish) ==
  /\ Unoccupied(v) /\ "insert" \in EditorsDo[v] /\ e \notin written
  /\ \A w \in Editors : editor[w].e # e
  /\ ~slugProblem(s, e) /\ (e \notin Posts => date = 0)
  /\ editor' = [editor EXCEPT ![v] = [Away EXCEPT
       !.step = "insert", !.e = e, !.slug = s, !.date = date, !.publish = publish]]
  /\ UNCHANGED <<article, written, redirect, today, shared, crossed, undated>>

InsertArticle(v) ==
  LET e == editor[v].e
      row == [slug |-> editor[v].slug, status |-> "draft", publishedAt |-> editor[v].date]
  IN /\ editor[v].step = "insert"
     /\ IF TakenByOthers(row.slug, e)    \* the unique index
        THEN EditorDone(v, FALSE) /\ UNCHANGED <<article, written, crossed>>
        ELSE /\ article' = [article EXCEPT ![e] = row]
             /\ written' = written \cup {e}
             /\ MarkCrossed(v)
             /\ IF editor[v].publish
                THEN editor' = [w \in Editors |->
                       IF w = v THEN [editor[v] EXCEPT !.step = "publish", !.loaded = row]
                       ELSE [editor[w] EXCEPT !.stale = editor[w].step # "idle"]]
                ELSE EditorDone(v, TRUE)
     /\ UNCHANGED <<redirect, today, shared, undated>>

\* The row as loaded, and the slug checked against the others.
StartUpdate(v, e, s, date) ==
  /\ Unoccupied(v) /\ "update" \in EditorsDo[v]
  /\ e \in Published /\ ~slugProblem(s, e)
  /\ (e \notin Posts => date = 0)
  /\ editor' = [editor EXCEPT ![v] = [Away EXCEPT
       !.step = "update", !.e = e, !.loaded = article[e], !.slug = s, !.date = date]]
  /\ UNCHANGED <<article, written, redirect, today, shared, crossed, undated>>

EverPublic(row) == row.publishedAt # 0

TakenBack(s, e) == IF redirect[s] = e THEN NoContent ELSE redirect[s]

MayDate(v) == editor[v].e \in Posts /\ ~LiveRow(editor[v].loaded)

\* One transaction: taking a slug back removes the redirect from it, leaving
\* one the public knew leaves a redirect behind. The unique indexes refuse a
\* slug or a redirect that is there by now.
UpdateArticle(v) ==
  LET e == editor[v].e
      loaded == editor[v].loaded
      s == editor[v].slug
      moves == s # loaded.slug
      leaves == moves /\ EverPublic(loaded)
      date == IF MayDate(v) THEN editor[v].date ELSE loaded.publishedAt
  IN /\ editor[v].step = "update"
     /\ IF (moves /\ e \in Published /\ TakenByOthers(s, e))
             \/ (leaves /\ redirect[loaded.slug] # NoContent)
        THEN EditorDone(v, FALSE) /\ UNCHANGED <<article, redirect, crossed, undated>>
        ELSE /\ redirect' = [t \in Slugs |->
                  IF leaves /\ t = loaded.slug THEN e
                  ELSE IF moves /\ t = s THEN TakenBack(t, e) ELSE redirect[t]]
             /\ SaveArticle(e, loaded, [slug |-> s, publishedAt |-> date])
             /\ undated' = IF shared[e] # {} /\ date # loaded.publishedAt
                           THEN undated \cup {e} ELSE undated
             /\ MarkCrossed(v) /\ EditorDone(v, TRUE)
     /\ UNCHANGED <<written, today, shared>>

-----------------------------------------------------------------------------
(* Publishing, and back: the refusals are about the row as loaded.         *)

MayTurn(kind, row) ==
  CASE kind = "publish" -> row.status # "published"
    [] kind = "unpublish" -> row.status = "published"
    [] kind = "archive" -> row.status # "archived"
    [] kind = "delete" -> TRUE

StartTurn(v, e, kind) ==
  /\ Unoccupied(v) /\ kind \in EditorsDo[v]
  /\ e \in Published /\ MayTurn(kind, article[e])
  /\ editor' = [editor EXCEPT ![v] = [Away EXCEPT !.step = kind, !.e = e,
                                                  !.loaded = article[e]]]
  /\ UNCHANGED <<article, written, redirect, today, shared, crossed, undated>>

Restamped(row) == today                                                \* mutant
DateOf(row) == IF row.publishedAt = 0 THEN today ELSE row.publishedAt

Turn(v) ==
  LET loaded == editor[v].loaded IN
  /\ editor[v].step \in {"publish", "unpublish", "archive"}
  /\ SaveArticle(editor[v].e, loaded,
       CASE editor[v].step = "publish" ->
              [status |-> "published", publishedAt |-> DateOf(loaded)]
         [] editor[v].step = "unpublish" -> [status |-> "draft"]
         [] editor[v].step = "archive" -> [status |-> "archived"])
  /\ MarkCrossed(v) /\ EditorDone(v, TRUE)
  /\ UNCHANGED <<written, redirect, today, shared, undated>>

\* With every old slug that pointed at it.
DeleteArticle(v) ==
  LET e == editor[v].e IN
  /\ editor[v].step = "delete"
  /\ article' = [article EXCEPT ![e] = NoContent]
  /\ redirect' = [s \in Slugs |-> IF redirect[s] = e THEN NoContent ELSE redirect[s]]
  /\ MarkCrossed(v) /\ EditorDone(v, TRUE)
  /\ UNCHANGED <<written, today, shared, undated>>

-----------------------------------------------------------------------------
(* The public: what a link shows, and what a reader may pass on.           *)

redirectFor(s) == {e \in Live : redirect[s] = e}
Lands(s) == LET here == {e \in Live : article[e].slug = s}
            IN IF here # {} THEN here ELSE redirectFor(s)

Read(e) ==
  /\ e \in Live
  /\ shared' = [shared EXCEPT ![e] = @ \cup {article[e].slug}]
  /\ shared' # shared
  /\ UNCHANGED <<article, written, redirect, today, editor, crossed, undated>>

\* A scheduled post's day comes, also while somebody is at it.
NextDay ==
  /\ today < MaxDays /\ today' = today + 1
  /\ editor' = [v \in Editors |-> [editor[v] EXCEPT !.stale = editor[v].step # "idle"]]
  /\ UNCHANGED <<article, written, redirect, shared, crossed, undated>>

ContentNext ==
  \/ \E v \in Editors, e \in Entries :
       \/ \E s \in Slugs, date \in {0} \cup Dates :
            StartUpdate(v, e, s, date) \/ \E p \in BOOLEAN : StartCreate(v, e, s, date, p)
       \/ \E kind \in Kinds \ {"insert", "update"} : StartTurn(v, e, kind)
  \/ \E v \in Editors : InsertArticle(v) \/ UpdateArticle(v) \/ Turn(v) \/ DeleteArticle(v)
  \/ \E e \in Entries : Read(e)
  \/ NextDay

ContentSpec == ContentInit /\ [][ContentNext]_contentVars

-----------------------------------------------------------------------------

TakenByAnother(e) == \E f \in Published \ {e} : article[f].slug = article[e].slug

\* Entries are made once, redirects are about entries that were made, and no
\* two entries, posts and pages alike, have one slug (content_entries).
ContentTypeOK ==
  /\ Published \subseteq written /\ undated \subseteq written
  /\ \A e \in Published : article[e] \in ArticleRow /\ ~TakenByAnother(e)
  /\ \A s \in Slugs : redirect[s] \in written \cup {NoContent}
  /\ today \in Dates

\* A link readers were given to an entry shows it, there or by a redirect,
\* for as long as it is public, unless a request that had been overtaken
\* wrote or its date was changed after it was shown (update, redirectFor).
SharedLinksLand ==
  ~crossed => \A e \in Live \ undated : \A s \in shared[e] : Lands(s) = {e}

\* A slug means one thing: nothing that redirects is an entry's own slug, and
\* what it redirects to is there, unless overtaken requests wrote
\* (slugProblem, delete).
SlugsMeanOneThing ==
  ~crossed => \A s \in Slugs : redirect[s] # NoContent =>
    redirect[s] \in Published /\ \A e \in Published : article[e].slug # s

\* "Once readers can see it, the date they saw is the date it keeps": it is
\* not moved while it is public, nor by taking it down and putting it back, but
\* only by an edit while it is down (publish, update).
DatesStay ==
  [][~crossed' => \A e \in Published :
       shared[e] # {} /\ article'[e] # NoContent /\ (e \in Live \/ e \notin undated') =>
         article'[e].publishedAt = article[e].publishedAt]_contentVars

\* What readers may rely on, at any moment and in every step
\* (content_service.ts).
ArticlesSafe == [](ContentTypeOK /\ SharedLinksLand /\ SlugsMeanOneThing) /\ DatesStay
=============================================================================
