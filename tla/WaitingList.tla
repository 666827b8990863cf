---------------------------- MODULE WaitingList ----------------------------
(***************************************************************************)
(* The waiting list kept while registration is closed: visitors join and   *)
(* confirm by a link, staff cancel, convert, resend and delete, a nightly  *)
(* job converts those who have an account by now (registration_control).   *)
(* Staff and the job decide from the row their request loaded; only the    *)
(* confirmation reads and writes under a lock.                             *)
(***************************************************************************)
EXTENDS Integers, Lucid

CONSTANTS
  Addresses, Visits,       \* e-mail addresses, and requests under way at once
  VisitsFor,               \* what each of them may do
  MaxLinks, MaxRows,       \* bounds on links minted and on rows of one address
  NoEntry

EntryStatuses == {"pending", "confirmed", "converted", "cancelled"}
Links == 0..MaxLinks        \* 0 is no link
EntryRow == [id : 1..MaxRows, status : EntryStatuses, optIn : BOOLEAN, hash : Links]

ASSUME WaitingListAssumption ==
  /\ VisitsFor \in [Visits -> SUBSET {"join", "cancel", "convert", "resend", "delete"}]
  /\ NoEntry \notin Addresses \cup EntryRow /\ MaxLinks \in Nat /\ MaxRows \in Nat

VARIABLES
  entry,         \* waiting_list_entries by address: NoEntry, or the row
  rowsHad,       \* rows each address has had; a row's id is its number
  accounts,      \* addresses with a users row
  doubleOptIn,   \* the setting waiting_list_double_opt_in
  minted, stale, \* confirmation links so far, and those that have expired
  inbox,         \* links that were mailed
  visit,         \* where each request is: step, address, row as loaded, link
  toConvert      \* the rows the job loaded and has not come to

waitVars == <<entry, rowsHad, accounts, doubleOptIn, minted, stale, inbox, visit, toConvert>>

AtTheDoor == [step |-> "idle", on |-> NoEntry, loaded |-> NoEntry, link |-> 0]

WaitInit ==
  /\ entry = [a \in Addresses |-> NoEntry]
  /\ rowsHad = [a \in Addresses |-> 0]
  /\ accounts = {} /\ minted = 0 /\ stale = {} /\ inbox = {}
  /\ doubleOptIn = TRUE
  /\ visit = [v \in Visits |-> AtTheDoor]
  /\ toConvert = [a \in Addresses |-> NoEntry]

Listed == {a \in Addresses : entry[a] # NoEntry}
isPending(row) == row.status = "pending"

WritesTheRow(a, loaded, columns) ==                                    \* mutant
  entry' = [entry EXCEPT ![a] = IF @ = NoEntry THEN @ ELSE Saved(loaded, loaded, columns)]
\* save() of an instance: by id, so a row that was deleted stays deleted.
SaveEntry(a, loaded, columns) ==
  entry' = [entry EXCEPT ![a] =
    IF @ # NoEntry /\ @.id = loaded.id THEN Saved(@, loaded, columns) ELSE @]

Leaves(v) == visit' = [visit EXCEPT ![v] = AtTheDoor]

-----------------------------------------------------------------------------
(* Visitors.                                                               *)

WantsLinkAgain(row) == isPending(row) /\ row.optIn

\* Not for an address with an account. The form is there while registration
\* is closed, which it may be at any time.
Join(v, a) ==
  /\ visit[v] = AtTheDoor /\ "join" \in VisitsFor[v]
  /\ a \notin accounts
  /\ IF entry[a] = NoEntry THEN TRUE ELSE WantsLinkAgain(entry[a])
  /\ visit' = [visit EXCEPT ![v] =
       [step |-> IF entry[a] = NoEntry THEN "create" ELSE "mint", on |-> a,
        loaded |-> entry[a], link |-> 0]]
  /\ UNCHANGED <<entry, rowsHad, accounts, doubleOptIn, minted, stale, inbox, toConvert>>

\* The setting is read just before; the unique index lets one of two in.
CreateEntry(v) ==
  LET a == visit[v].on
      row == [id |-> rowsHad[a] + 1, optIn |-> doubleOptIn, hash |-> 0,
              status |-> IF doubleOptIn THEN "pending" ELSE "confirmed"]
  IN /\ visit[v].step = "create"
     /\ IF entry[a] # NoEntry
        THEN Leaves(v) /\ UNCHANGED <<entry, rowsHad>>
        ELSE /\ rowsHad[a] < MaxRows
             /\ entry' = [entry EXCEPT ![a] = row]
             /\ rowsHad' = [rowsHad EXCEPT ![a] = @ + 1]
             /\ IF row.optIn
                THEN visit' = [visit EXCEPT ![v].step = "mint", ![v].loaded = row]
                ELSE Leaves(v)
     /\ UNCHANGED <<accounts, doubleOptIn, minted, stale, inbox, toConvert>>

\* sendConfirmation: a new token retires the one before; then the mail.
MintLink(v) ==
  /\ visit[v].step = "mint" /\ minted < MaxLinks
  /\ minted' = minted + 1
  /\ SaveEntry(visit[v].on, visit[v].loaded, [hash |-> minted + 1])
  /\ visit' = [visit EXCEPT ![v].step = "mail", ![v].link = minted + 1,
                            ![v].loaded = NoEntry]
  /\ UNCHANGED <<rowsHad, accounts, doubleOptIn, stale, inbox, toConvert>>

MailLink(v) ==
  /\ visit[v].step = "mail"
  /\ inbox' = inbox \cup {visit[v].link}
  /\ Leaves(v)
  /\ UNCHANGED <<entry, rowsHad, accounts, doubleOptIn, minted, stale, toConvert>>

MayConfirm(row) == isPending(row) /\ row.hash \notin stale

\* One locked transaction; a cancelled entry's link is invalid.
Confirm(a, link) ==
  /\ a \in Listed /\ link \in inbox /\ entry[a].hash = link
  /\ entry[a].status # "cancelled" /\ MayConfirm(entry[a])
  /\ entry' = [entry EXCEPT ![a].status = "confirmed"]
  /\ UNCHANGED <<rowsHad, accounts, doubleOptIn, minted, stale, inbox, visit, toConvert>>

\* The 48 hours of a link are over.
LinkExpires(link) ==
  /\ link \in (1..minted) \ stale
  /\ stale' = stale \cup {link}
  /\ UNCHANGED <<entry, rowsHad, accounts, doubleOptIn, minted, inbox, visit, toConvert>>

-----------------------------------------------------------------------------
(* Staff, and the job. A refusal is decided from the row as loaded.        *)

OpenEntry(v, a, step) ==
  /\ visit[v] = AtTheDoor /\ step \in VisitsFor[v] /\ a \in Listed
  /\ visit' = [visit EXCEPT ![v] = [step |-> step, on |-> a, loaded |-> entry[a],
                                    link |-> 0]]
  /\ UNCHANGED <<entry, rowsHad, accounts, doubleOptIn, minted, stale, inbox, toConvert>>

Cancel(v) ==
  LET loaded == visit[v].loaded IN
  /\ visit[v].step = "cancel"
  /\ IF loaded.status = "cancelled" THEN UNCHANGED entry
     ELSE SaveEntry(visit[v].on, loaded,
                    [status |-> "cancelled", hash |-> 0])
  /\ Leaves(v)
  /\ UNCHANGED <<rowsHad, accounts, doubleOptIn, minted, stale, inbox, toConvert>>

MayConvert(row) == row.status \notin {"converted", "cancelled"}

MarkConverted(a, loaded) ==
  SaveEntry(a, loaded, [status |-> "converted", hash |-> 0])

Convert(v) ==
  LET loaded == visit[v].loaded IN
  /\ visit[v].step = "convert"
  /\ IF MayConvert(loaded) THEN MarkConverted(visit[v].on, loaded) ELSE UNCHANGED entry
  /\ Leaves(v)
  /\ UNCHANGED <<rowsHad, accounts, doubleOptIn, minted, stale, inbox, toConvert>>

Resend(v) ==
  /\ visit[v].step = "resend"
  /\ IF WantsLinkAgain(visit[v].loaded) THEN visit' = [visit EXCEPT ![v].step = "mint"] ELSE Leaves(v)
  /\ UNCHANGED <<entry, rowsHad, accounts, doubleOptIn, minted, stale, inbox, toConvert>>

Destroy(v) ==
  LET a == visit[v].on IN
  /\ visit[v].step = "delete"
  /\ entry' = [entry EXCEPT ![a] =
       IF @ # NoEntry /\ @.id = visit[v].loaded.id THEN NoEntry ELSE @]
  /\ Leaves(v)
  /\ UNCHANGED <<rowsHad, accounts, doubleOptIn, minted, stale, inbox, toConvert>>

ToBeConverted(row) == row.status \in {"pending", "confirmed"}

JobReads ==
  LET due == {a \in Listed \cap accounts : ToBeConverted(entry[a])} IN
  /\ toConvert = [a \in Addresses |-> NoEntry] /\ due # {}
  /\ toConvert' = [a \in Addresses |-> IF a \in due THEN entry[a] ELSE NoEntry]
  /\ UNCHANGED <<entry, rowsHad, accounts, doubleOptIn, minted, stale, inbox, visit>>

JobConverts(a) ==
  /\ toConvert[a] # NoEntry
  /\ MarkConverted(a, toConvert[a])
  /\ toConvert' = [toConvert EXCEPT ![a] = NoEntry]
  /\ UNCHANGED <<rowsHad, accounts, doubleOptIn, minted, stale, inbox, visit>>

JobDies ==
  /\ toConvert # [a \in Addresses |-> NoEntry]
  /\ toConvert' = [a \in Addresses |-> NoEntry]
  /\ UNCHANGED <<entry, rowsHad, accounts, doubleOptIn, minted, stale, inbox, visit>>

-----------------------------------------------------------------------------
(* What happens around the list.                                           *)

\* An account appears: by signing up, or by an invitation whatever the gate.
AccountAppears(a) ==
  /\ a \notin accounts
  /\ accounts' = accounts \cup {a}
  /\ UNCHANGED <<entry, rowsHad, doubleOptIn, minted, stale, inbox, visit, toConvert>>

\* Erasure frees the address and deletes the entry with it.
AccountErased(a) ==
  /\ a \in accounts
  /\ accounts' = accounts \ {a}
  /\ entry' = [entry EXCEPT ![a] = NoEntry]
  /\ UNCHANGED <<rowsHad, doubleOptIn, minted, stale, inbox, visit, toConvert>>

ChangeSetting ==
  /\ doubleOptIn' = ~doubleOptIn
  /\ UNCHANGED <<entry, rowsHad, accounts, minted, stale, inbox, visit, toConvert>>

WaitNext ==
  \/ \E v \in Visits :
       \/ CreateEntry(v) \/ MintLink(v) \/ MailLink(v)
       \/ Cancel(v) \/ Convert(v) \/ Resend(v) \/ Destroy(v)
       \/ \E a \in Addresses :
            \/ Join(v, a)
            \/ \E step \in {"cancel", "convert", "resend", "delete"} : OpenEntry(v, a, step)
  \/ \E a \in Addresses :
       \/ \E link \in inbox : Confirm(a, link)
       \/ JobConverts(a) \/ AccountAppears(a) \/ AccountErased(a)
  \/ JobReads \/ JobDies
  \/ \E link \in 1..minted : LinkExpires(link)
  \/ ChangeSetting

WaitSpec == WaitInit /\ [][WaitNext]_waitVars

-----------------------------------------------------------------------------

\* Every column holds a value of its own kind, links are minted before they
\* are stored or mailed, and what is there of an address is the last row it had,
\* never one that was deleted (waiting_list_service.ts).
WaitTypeOK ==
  /\ entry \in [Addresses -> EntryRow \cup {NoEntry}]
  /\ rowsHad \in [Addresses -> 0..MaxRows]
  /\ inbox \subseteq 1..minted /\ minted \in Links
  /\ \A a \in Listed : entry[a].hash <= minted /\ entry[a].id = rowsHad[a]

\* "A cancel is a staff decision": whatever visitors and the job do, a
\* cancelled entry stays so until it is deleted, unless a conversion was
\* under way that had loaded it before (cancel, join, confirm, the job).
CancelStands ==
  [][\A a \in Listed :
       entry[a].status = "cancelled" =>
         \/ entry'[a] = NoEntry
         \/ entry'[a].status = "cancelled" /\ entry'[a].id = entry[a].id
         \/ \E loaded \in {visit[v].loaded : v \in {w \in Visits :
                             visit[w].step = "convert" /\ visit[w].on = a}}
                          \cup {toConvert[a]} :
              loaded # NoEntry /\ loaded.id = entry[a].id
              /\ loaded.status \in {"pending", "confirmed"}]_waitVars

\* Each row keeps the rules it joined under, whatever the setting says by
\* then: without double opt-in it never gets a link, and with it nobody is
\* confirmed who did not follow one (double_opt_in_required).
RulesOfTheDayItJoined ==
  \A a \in Listed :
    IF entry[a].optIn THEN entry[a].status = "confirmed" => entry[a].hash # 0
    ELSE entry[a].hash = 0 /\ entry[a].status # "pending"

\* What the list promises, at any moment and in every step
\* (waiting_list_service.ts).
WaitingListSafe == [](WaitTypeOK /\ RulesOfTheDayItJoined) /\ CancelStands
=============================================================================
