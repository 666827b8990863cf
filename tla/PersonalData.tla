---------------------------- MODULE PersonalData ----------------------------
(***************************************************************************)
(* What is kept about the people of a workspace, table by table, and what  *)
(* a deletion takes away and an export brings along: the contributors that *)
(* start/privacy.ts registers, called in that order by erase() of          *)
(* deletion_service.ts and by export_builder.ts. A deletion is one         *)
(* transaction whose statements each see what is committed by then; an     *)
(* export is no transaction at all; requests that were let in before go on *)
(* writing beside both.                                                    *)
(***************************************************************************)
EXTENDS Integers, FiniteSets, SequencesExt

CONSTANTS
  Persons, Boss,   \* accounts of one workspace, and its owner
  Scopes,          \* bound: the rows a behaviour is about, beside the profiles
  MaxStops,        \* bound on what throws or is killed
  NoRun

\* The contributors with an erase(), in order, after the profile row itself.
Erasers == <<"profile", "connectedAccounts", "authTokens", "files", "invitationsSent",
             "activity", "listsAndTodos", "waitingList">>
\* What else is about a person: it is exported, and it stays.
Keepsakes == {"apiKeysCreated", "supportTickets"}

\* A row's table, whom it is about, and what the contributors tell apart.
What(table) ==
  CASE table = "files" -> {"avatar", "upload"}
    [] table = "invitationsSent" -> {"pending", "settled"}
    [] table = "activity" -> {"traced"}
    [] OTHER -> {"row"}
Kept == UNION {{[table |-> t, of |-> u, what |-> w] : u \in Persons, w \in What(t)} :
                 t \in {Erasers[k] : k \in DOMAIN Erasers} \cup Keepsakes}
Bare(r) == [r EXCEPT !.what = "bare"]
DataRows == Kept \cup {Bare(r) : r \in Kept}

ErasingRun == [stage : {"statements", "commit", "objects"}, whose : Persons,
               people : Seq(Persons), next : 1..Len(Erasers), last : BOOLEAN,
               doomed : SUBSET DataRows, bared : SUBSET DataRows]
ArchiveRun == [of : Persons, stage : {"list", "pack", "done"}, listed : SUBSET DataRows,
               packed : SUBSET DataRows, missing : SUBSET DataRows]

ASSUME PersonalDataAssumption ==
  /\ Boss \in Persons /\ IsFiniteSet(Persons) /\ MaxStops \in Nat
  /\ NoRun \notin ErasingRun /\ NoRun \notin ArchiveRun

VARIABLES
  scope,      \* of Scopes, the one this is
  here,       \* accounts that are not deleted
  held,       \* the rows
  objects,    \* keepings objects, by the file row they were made for
  pens,       \* rows that requests let in already are about to write
  erasing,    \* the run of a deletion: whose, and what is left to do
  archive,    \* an export under way, or done
  unfinished, \* deletions killed before their request said so
  stops,
  tardy,       \* history: rows written by requests let in before the deletion
  taken,      \* history: rows that deletions took
  adrift      \* history: objects a killed run left, files deleted mid-export

keepings == <<held, objects>>
hindsight == <<tardy, taken, adrift>>
dataVars == <<scope, here, keepings, pens, erasing, archive, unfinished, stops, hindsight>>

Account(u) == [table |-> "profile", of |-> u, what |-> "row"]
IsFile(r) == r.table = "files"

DataInit ==
  /\ scope \in Scopes
  /\ here = Persons /\ held = {Account(u) : u \in Persons} /\ objects = {}
  /\ pens = {} /\ erasing = NoRun /\ archive = NoRun /\ unfinished = {}
  /\ stops = 0
  /\ tardy = {} /\ taken = {} /\ adrift = {}

Stop == stops < MaxStops /\ stops' = stops + 1

-----------------------------------------------------------------------------
(* Requests: let in while the account is there, writing when they get to   *)
(* it. Saving a profile after its deletion puts the name back.             *)

LetIn(r) ==
  /\ r \in scope /\ r.of \in here /\ r \notin pens
  /\ r.table = "profile" \/ r \notin held
  /\ pens' = pens \cup {r}
  /\ UNCHANGED <<scope, here, keepings, erasing, archive, unfinished, stops, hindsight>>

Write(r) ==
  /\ r \in pens /\ pens' = pens \ {r}
  /\ held' = held \cup {r}
  /\ objects' = IF IsFile(r) THEN objects \cup {r} ELSE objects
  /\ tardy' = IF erasing # NoRun \/ r.of \notin here THEN tardy \cup {r} ELSE tardy
  /\ UNCHANGED <<scope, here, erasing, archive, unfinished, stops, taken, adrift>>

\* A person deletes an upload, and in time the purge takes row and object.
DropUpload(r) ==
  /\ r.of \in here /\ r \in held /\ r.what = "upload" /\ erasing = NoRun
  /\ held' = held \ {r} /\ objects' = objects \ {r}
  /\ adrift' = IF archive # NoRun THEN adrift \cup {r} ELSE adrift
  /\ UNCHANGED <<scope, here, pens, erasing, archive, unfinished, stops, tardy, taken>>

-----------------------------------------------------------------------------
(* The deletion.                                                           *)

\* An owner takes everybody along; who was last is decided once. A run that was
\* killed is made again, be the account deleted by then.
BeginErasing(u) ==
  LET others == IF u = Boss THEN here \ {u} ELSE {}
      order == Append(SetToSeq(others), u)
  IN /\ erasing = NoRun /\ u \in here \cup unfinished
     /\ erasing' = [stage |-> "statements", whose |-> u, people |-> order, next |-> 1,
                    last |-> others # {} \/ here \ {u} = {}, doomed |-> {}, bared |-> {}]
     /\ UNCHANGED <<scope, here, keepings, pens, archive, unfinished, stops, hindsight>>

\* erase() of each contributor.
Reached(r, u, table, lastMember, address) ==
  /\ r.table = table
  /\ CASE table = "files" -> (r.of = u /\ r.what = "avatar") \/ lastMember
       [] table = "invitationsSent" -> r.of = u /\ r.what = "pending"
       [] table = "activity" -> r.of = u /\ r.what = "traced"
       [] table = "listsAndTodos" -> lastMember
       [] table = "waitingList" -> r.of = address
       [] OTHER -> r.of = u

AsItIsNow(u) == NoRun                                                  \* mutant
\* Kept from before the profile was overwritten: whose the address was.
OriginalEmail(u) == u

EraseNext ==
  LET e == erasing
      u == Head(e.people)
      table == Erasers[e.next]
      reached == {r \in held : Reached(r, u, table, e.last, OriginalEmail(u))}
      lastTable == e.next = Len(Erasers)
      people == IF lastTable THEN Tail(e.people) ELSE e.people
  IN /\ erasing # NoRun /\ e.stage = "statements"
     /\ erasing' = [e EXCEPT
          !.doomed = @ \cup reached,
          !.bared = IF table = "activity" THEN @ \cup reached ELSE @,
          !.people = people,
          !.next = IF lastTable THEN 1 ELSE @ + 1,
          !.stage = IF people = <<>> THEN "commit" ELSE @]
     /\ UNCHANGED <<scope, here, keepings, pens, archive, unfinished, stops, hindsight>>

Leaving(e) == {r.of : r \in {r \in e.doomed : r.table = "profile"}}

CommitErasing ==
  LET e == erasing IN
  /\ erasing # NoRun /\ e.stage = "commit"
  /\ held' = (held \ e.doomed) \cup {Bare(r) : r \in e.bared}
  /\ here' = here \ Leaving(e)
  /\ taken' = taken \cup (e.doomed \ e.bared)
  /\ erasing' = [e EXCEPT !.stage = "objects"]
  /\ UNCHANGED <<scope, objects, pens, archive, unfinished, stops, tardy, adrift>>

\* afterCommit(): a delete that fails is let go.
DeleteObjects ==
  /\ erasing # NoRun /\ erasing.stage = "objects"
  /\ objects' = objects \ erasing.doomed
  /\ erasing' = NoRun /\ unfinished' = unfinished \ {erasing.whose}
  /\ UNCHANGED <<scope, here, held, pens, archive, stops, hindsight>>

\* A throw rolls everything back; a kill after the commit leaves the objects,
\* for the next run finds no row that names them.
StopErasing ==
  /\ erasing # NoRun /\ Stop
  /\ adrift' = IF erasing.stage = "objects" THEN adrift \cup (objects \cap erasing.doomed)
               ELSE adrift
  /\ erasing' = NoRun
  /\ unfinished' = IF erasing.stage = "objects" THEN unfinished \cup {erasing.whose} ELSE unfinished
  /\ UNCHANGED <<scope, here, keepings, pens, archive, tardy, taken>>

-----------------------------------------------------------------------------
(* The export, as far as files go: their section, then their contents.     *)

BeginArchive(u) ==
  /\ archive = NoRun /\ u \in here /\ \E r \in scope : IsFile(r)
  /\ archive' = [of |-> u, stage |-> "list", listed |-> {}, packed |-> {}, missing |-> {}]
  /\ adrift' = {r \in adrift : r \in objects}
  /\ UNCHANGED <<scope, here, keepings, pens, erasing, unfinished, stops, tardy, taken>>

uploadsOf(u) == {r \in held : IsFile(r) /\ r.of = u}

ListUploads ==
  /\ archive # NoRun /\ archive.stage = "list"
  /\ archive' = [archive EXCEPT !.stage = "pack", !.listed = uploadsOf(archive.of)]
  /\ UNCHANGED <<scope, here, keepings, pens, erasing, unfinished, stops, hindsight>>

OnlyWhatIsThere(files) == {}                                           \* mutant
Missing(files) == files \ objects

PackUploads ==
  LET files == uploadsOf(archive.of) IN
  /\ archive # NoRun /\ archive.stage = "pack"
  /\ archive' = [archive EXCEPT !.stage = "done", !.packed = files \cap objects,
                                !.missing = Missing(files)]
  /\ UNCHANGED <<scope, here, keepings, pens, erasing, unfinished, stops, hindsight>>

EndArchive ==
  /\ archive # NoRun /\ archive.stage = "done" /\ archive' = NoRun
  /\ UNCHANGED <<scope, here, keepings, pens, erasing, unfinished, stops, hindsight>>

\* The provider loses an object.
LoseObject(r) ==
  /\ r \in objects /\ Stop
  /\ objects' = objects \ {r}
  /\ UNCHANGED <<scope, here, held, pens, erasing, archive, unfinished, hindsight>>

DataNext ==
  \/ \E r \in Kept : LetIn(r) \/ Write(r) \/ DropUpload(r) \/ LoseObject(r)
  \/ \E u \in Persons : BeginErasing(u) \/ BeginArchive(u)
  \/ EraseNext \/ CommitErasing \/ DeleteObjects \/ StopErasing
  \/ ListUploads \/ PackUploads \/ EndArchive

DataSpec == DataInit /\ [][DataNext]_dataVars

-----------------------------------------------------------------------------
(* A deleted account leaves nothing of what core_contributors.ts and the   *)
(* modules promise to take, but for what requests already let in wrote     *)
(* while it ran or after.                                                  *)
MustGo(r) ==
  r.table \in {"profile", "connectedAccounts", "authTokens", "waitingList"}
  \/ r.what \in {"avatar", "pending", "traced"}
NothingLeftBehind == \A r \in held : r.of \notin here /\ MustGo(r) => r \in tardy

(* Nobody else loses anything by it: what a deletion takes was the deleted *)
(* person's, and what the workspace shares goes only when all have gone.   *)
OthersKeepTheirs ==
  \A r \in taken : r.of \notin here /\ (~MustGo(r) => here = {})

(* No object outlives its row, but for one a killed run left.              *)
ObjectsFollowRows ==
  \A r \in objects : r \in held \/ r \in adrift \/ r \in tardy
                     \/ (erasing # NoRun /\ r \in erasing.doomed)

(* Every file an export lists is in it or is named as missing, but for one *)
(* deleted between the list and the packing (export_builder.ts).           *)
ArchiveIsWhole ==
  archive # NoRun /\ archive.stage = "done" =>
    \A r \in archive.listed :
      r \in archive.packed \cup archive.missing \cup adrift \cup taken

PersonalDataSafe ==
  NothingLeftBehind /\ OthersKeepTheirs /\ ObjectsFollowRows /\ ArchiveIsWhole
=============================================================================
