--------------------------- MODULE ErasureProofs ---------------------------
(***************************************************************************)
(* Theorems about Erasure for any number of people, requests, members of   *)
(* staff and workers, killed or throwing anywhere.                         *)
(***************************************************************************)
EXTENDS Erasure, TLAPS, FiniteSetTheorems

\* What a process has in hand: the row it is about exists and was decided as
\* its place says; a run past the transaction has erased its person.
OnRow == {"cancel", "reject", "approve", "retry", "find"} \cup Body
Knows(p) ==
  /\ at[p] \in OnRow => about[p] \in made
  /\ at[p] = "start" => about[p] \in joined
  /\ at[p] = "approve" => about[p] \in confirmed
  /\ at[p] \in Body \cup {"retry"} => about[p] \in confirmed \cap approved
  /\ at[p] \in {"begin", "erase"} /\ mem[p].owner => asked[about[p]] \in owners
  /\ at[p] \in {"complete", "tell"} => asked[about[p]] \in erased
  /\ mem[p].goodbye \subseteq joined

\* What a row's status says of what was done to it.
Decided(r) ==
  /\ jobs[r] > 0 => r \in made
  /\ status[r] = "confirmed" => r \in confirmed
  /\ status[r] \in {"approved", "processing", "failed"} => r \in confirmed \cap approved
  /\ status[r] = "completed" => asked[r] \in erased

Consented(u) ==
  u \in erased => /\ u \in joined
                  /\ erasedBy[u] \in confirmed \cap approved
                  /\ asked[erasedBy[u]] = u \/ asked[erasedBy[u]] \in owners

Numbered == made = 1..Cardinality(made)

ErasureInv ==
  /\ TypeOK /\ Numbered
  /\ erasedBy \in [People -> Ids \cup {None}]
  /\ owner \in owners
  /\ \A p \in Procs : Knows(p)
  /\ \A r \in Ids : Decided(r)
  /\ \A u \in People : Consented(u)

\* No step takes any of this back.
Grows ==
  /\ made \subseteq made' /\ joined \subseteq joined' /\ owners \subseteq owners'
  /\ confirmed \subseteq confirmed' /\ approved \subseteq approved'
  /\ erased \subseteq erased'
  /\ \A r \in made : asked'[r] = asked[r]

USE ErasureAssumption

\* Rows are numbered as they are made: the next number is a new row.
LEMMA NextNumber ==
  ASSUME ErasureInv, NEW r \in Ids, r = Cardinality(made) + 1, NEW u \in People,
         asked' = [asked EXCEPT ![r] = u]
  PROVE  r \notin made /\ made' = made \cup {r} /\ Numbered'
<1>1. Ids \subseteq Int /\ IsFiniteSet(Ids) /\ made \subseteq Ids
  BY FS_Interval DEF Ids, made
<1>2. IsFiniteSet(made) /\ Cardinality(made) \in Nat
  BY <1>1, FS_Subset, FS_CardinalityType
<1>3. made = 1..Cardinality(made)
  BY DEF ErasureInv, Numbered
<1>4. r \notin made
  BY <1>2, <1>3
<1>5. made' = made \cup {r}
  BY DEF made, ErasureInv, TypeOK
<1>6. Cardinality(made') = r
  BY <1>2, <1>4, <1>5, FS_AddElement
<1>7. made \cup {r} = 1..r
  BY <1>2, <1>3
<1> QED BY <1>4, <1>5, <1>6, <1>7 DEF Numbered

\* A process that did nothing still knows what it knew.
LEMMA OthersKnow ==
  ASSUME ErasureInv, Grows, NEW q \in Procs,
         at'[q] = at[q], about'[q] = about[q], mem'[q] = mem[q]
  PROVE  Knows(q)'
<1>1. Knows(q)
  BY DEF ErasureInv
<1>2. /\ at'[q] \in OnRow => about'[q] \in made'
      /\ at'[q] = "start" => about'[q] \in joined'
      /\ at'[q] = "approve" => about'[q] \in confirmed'
      /\ at'[q] \in Body \cup {"retry"} => about'[q] \in confirmed' \cap approved'
      /\ mem'[q].goodbye \subseteq joined'
  BY <1>1 DEF Knows, Grows
<1>3. at[q] \in Body => about[q] \in made /\ asked'[about[q]] = asked[about[q]]
  BY <1>1 DEF Knows, Grows, OnRow
<1>4. at'[q] \in {"begin", "erase"} /\ mem'[q].owner => asked'[about'[q]] \in owners'
  BY <1>1, <1>3 DEF Knows, Grows, Body
<1>5. at'[q] \in {"complete", "tell"} => asked'[about'[q]] \in erased'
  BY <1>1, <1>3 DEF Knows, Grows, Body
<1> QED BY <1>2, <1>4, <1>5 DEF Knows

\* A row that was not written says what it said.
LEMMA RowKept ==
  ASSUME ErasureInv, Grows, NEW r \in Ids,
         status'[r] = status[r], jobs'[r] > 0 => r \in made'
  PROVE  Decided(r)'
<1>1. Decided(r) /\ (status[r] = "none" <=> r \notin made)
  BY DEF ErasureInv, TypeOK
<1>2. status[r] = "completed" => asked'[r] = asked[r]
  BY <1>1 DEF Grows
<1> QED BY <1>1, <1>2 DEF Decided, Grows

\* An account that was erased before stays accounted for.
LEMMA ConsentKept ==
  ASSUME ErasureInv, Grows, NEW u \in People, erasedBy'[u] = erasedBy[u]
  PROVE  Consented(u)'
<1>1. Consented(u)
  BY DEF ErasureInv
<1>2. u \in erased' <=> u \in erased
  BY DEF erased
<1>3. u \in erased => erasedBy[u] \in made
  BY <1>1 DEF Consented, ErasureInv, TypeOK
<1>4. u \in erased => asked'[erasedBy[u]] = asked[erasedBy[u]]
  BY <1>3 DEF Grows
<1> QED BY <1>1, <1>2, <1>4 DEF Consented, Grows

(* TypeOK in two halves: what processes hold, and the rest.                *)
Mem == [status : Statuses, kept : BOOLEAN, address : BOOLEAN,
        owner : BOOLEAN, job : BOOLEAN, goodbye : SUBSET People]
ProcTypes ==
  /\ at \in [Procs -> Kinds \cup {"idle", "find"} \cup Body]
  /\ about \in [Procs -> Ids \cup People \cup {None}]
  /\ mem \in [Procs -> Mem]
RowTypes ==
  /\ asked \in [Ids -> joined \cup {None}] /\ status \in [Ids -> Statuses]
  /\ \A r \in Ids : status[r] = "none" <=> r \notin made
  /\ note \in [Ids -> BOOLEAN] /\ jobs \in [Ids -> Nat]
PeopleTypes ==
  /\ live \subseteq joined \ erased /\ joined \subseteq People /\ owner \in joined
  /\ work \in BOOLEAN
  /\ faults \in 0..MaxFaults
  /\ confirmed \subseteq made /\ approved \subseteq made
  /\ overlapped \cup cut \subseteq approved /\ owners \subseteq joined /\ told \subseteq joined

LEMMA TypeSplit == TypeOK <=> ProcTypes /\ RowTypes /\ PeopleTypes
BY DEF TypeOK, ProcTypes, RowTypes, PeopleTypes, Mem

LEMMA BlankIsMem == Blank \in Mem /\ Blank.owner = FALSE /\ Blank.goodbye = {}
BY DEF Blank, Mem, Statuses

\* A step that moves one process and nothing else leaves the rest as it was.
LEMMA Quiet ==
  ASSUME ErasureInv, UNCHANGED <<workspace, rows, jobs, faults, history>>
  PROVE  /\ Grows /\ RowTypes' /\ PeopleTypes' /\ Numbered'
         /\ erasedBy' \in [People -> Ids \cup {None}] /\ owner' \in owners'
         /\ \A r \in Ids : Decided(r)'
         /\ \A u \in People : Consented(u)'
<1>1. made' = made /\ erased' = erased
  BY DEF made, erased, rows, history
<1>2. RowTypes /\ PeopleTypes
  BY TypeSplit DEF ErasureInv
<1>3. RowTypes' /\ PeopleTypes'
  BY <1>1, <1>2 DEF RowTypes, PeopleTypes, workspace, rows, history
<1>4. Grows
  BY <1>1 DEF Grows, workspace, rows, history
<1>5. Numbered' /\ erasedBy' \in [People -> Ids \cup {None}] /\ owner' \in owners'
  BY <1>1 DEF ErasureInv, Numbered, workspace, history
<1>6. \A r \in Ids : Decided(r)'
  BY <1>1 DEF ErasureInv, Decided, rows, history
<1>7. \A u \in People : Consented(u)'
  BY <1>4, ConsentKept DEF history
<1> QED BY <1>3, <1>4, <1>5, <1>6, <1>7

LEMMA Whole ==
  ASSUME ProcTypes', RowTypes', PeopleTypes', Numbered',
         erasedBy' \in [People -> Ids \cup {None}], owner' \in owners',
         \A p \in Procs : Knows(p)', \A r \in Ids : Decided(r)',
         \A u \in People : Consented(u)'
  PROVE  ErasureInv'
<1>1. TypeOK'
  BY TypeSplit, PTL
<1> QED BY <1>1 DEF ErasureInv

\* A process that is done, or has nothing left to do, is back where it began.
LEMMA EndsSafe ==
  ASSUME ErasureInv, Grows, NEW p \in Procs, Ends(p)
  PROVE  ProcTypes' /\ \A q \in Procs : Knows(q)'
<1>1. ProcTypes
  BY TypeSplit DEF ErasureInv
<1>2. ProcTypes'
  BY <1>1, BlankIsMem DEF Ends, ProcTypes
<1>3. at'[p] = "idle" /\ mem'[p] = Blank
  BY <1>1 DEF Ends, ProcTypes
<1>4. Knows(p)'
  BY <1>3, BlankIsMem DEF Knows, OnRow, Body
<1>5. ASSUME NEW q \in Procs, q # p PROVE Knows(q)'
  <2>1. at'[q] = at[q] /\ about'[q] = about[q] /\ mem'[q] = mem[q]
    BY <1>1, <1>5 DEF Ends, ProcTypes
  <2> QED BY <2>1, OthersKnow
<1> QED BY <1>2, <1>4, <1>5

\* What a page loaded is there, and decided as far as the page asked.
LEMMA LoadsSafe ==
  ASSUME ErasureInv, NEW p \in Procs, NEW kind \in Kinds, NEW x,
         Loads(p, kind, x, Blank),
         UNCHANGED <<workspace, rows, jobs, faults, history>>,
         IF kind = "start" THEN x \in joined ELSE x \in made,
         kind = "approve" => x \in confirmed,
         kind = "retry" => x \in confirmed \cap approved,
         kind # "job"
  PROVE  ErasureInv'
<1>1. ProcTypes /\ RowTypes /\ PeopleTypes
  BY TypeSplit DEF ErasureInv
<1>2. Grows /\ made' = made
  BY Quiet DEF made, rows
<1>3. x \in Ids \cup People
  BY <1>1 DEF made, PeopleTypes
<1>4. ProcTypes'
  BY <1>1, <1>3, BlankIsMem DEF Loads, ProcTypes
<1>5. at'[p] = kind /\ about'[p] = x /\ mem'[p] = Blank
  BY <1>1 DEF Loads, ProcTypes
<1>6. kind \notin Body /\ kind \notin {"find", "begin", "erase", "complete", "tell"}
  BY DEF Kinds, Body
<1>7. joined' = joined /\ confirmed' = confirmed /\ approved' = approved
  BY DEF workspace, history
<1>8. Knows(p)'
  <2>1. /\ at'[p] \in OnRow => about'[p] \in made'
        /\ at'[p] = "start" => about'[p] \in joined'
        /\ at'[p] = "approve" => about'[p] \in confirmed'
        /\ at'[p] \in Body \cup {"retry"} => about'[p] \in confirmed' \cap approved'
    BY <1>2, <1>5, <1>6, <1>7 DEF OnRow
  <2> QED BY <2>1, <1>5, <1>6, BlankIsMem DEF Knows
<1>9. ASSUME NEW q \in Procs, q # p PROVE Knows(q)'
  <2>1. at'[q] = at[q] /\ about'[q] = about[q] /\ mem'[q] = mem[q]
    BY <1>1, <1>9 DEF Loads, ProcTypes
  <2> QED BY <1>2, <2>1, OthersKnow
<1> QED BY <1>4, <1>8, <1>9, Quiet, Whole

LEMMA OneMoved ==
  ASSUME ErasureInv, Grows, NEW p \in Procs, Knows(p)',
         \A q \in Procs \ {p} : at'[q] = at[q] /\ about'[q] = about[q] /\ mem'[q] = mem[q]
  PROVE  \A q \in Procs : Knows(q)'
BY OthersKnow

(* The steps that write nothing: pages, and what a run loads.              *)
LEMMA PagesSafe ==
  ASSUME ErasureInv, NEW p \in Procs, Start(p)
  PROVE  ErasureInv'
<1>1. RowTypes /\ PeopleTypes
  BY TypeSplit DEF ErasureInv
<1>2. ASSUME NEW r \in made PROVE r \in Ids /\ Decided(r)
  BY DEF made, ErasureInv
<1>3. ASSUME NEW r \in made, StartCancel(p, r) PROVE ErasureInv'
  BY <1>3, LoadsSafe DEF StartCancel, Kinds
<1>4. ASSUME NEW r \in made, StartReject(p, r) PROVE ErasureInv'
  BY <1>4, LoadsSafe DEF StartReject, Kinds
<1>5. ASSUME NEW r \in made, StartApprove(p, r) PROVE ErasureInv'
  <2>1. r \in confirmed
    BY <1>2, <1>5 DEF StartApprove, Decided
  <2> QED BY <1>5, <2>1, LoadsSafe DEF StartApprove, Kinds
<1>6. ASSUME NEW r \in made, StartRetry(p, r) PROVE ErasureInv'
  <2>1. r \in confirmed \cap approved
    BY <1>2, <1>6 DEF StartRetry, MayRetry, Decided
  <2> QED BY <1>6, <2>1, LoadsSafe DEF StartRetry, Kinds
<1>7. ASSUME NEW u \in People, StartOnBehalf(p, u) PROVE ErasureInv'
  <2>1. u \in joined
    BY <1>1, <1>7 DEF StartOnBehalf, PeopleTypes
  <2> QED BY <1>7, <2>1, LoadsSafe DEF StartOnBehalf, Kinds
<1> QED BY <1>3, <1>4, <1>5, <1>6, <1>7 DEF Start

LEMMA NothingDoneSafe ==
  ASSUME ErasureInv, NEW p \in Procs, Refused(p) \/ Skip(p)
  PROVE  ErasureInv'
<1>1. Ends(p) /\ UNCHANGED <<workspace, rows, jobs, faults, history>>
  BY DEF Refused, Skip
<1>2. Grows
  BY <1>1, Quiet
<1> QED BY <1>1, <1>2, Quiet, EndsSafe, Whole

LEMMA LoadUserSafe ==
  ASSUME ErasureInv, NEW p \in Procs, LoadUser(p)
  PROVE  ErasureInv'
<1> DEFINE u == asked[about[p]]
<1>1. ProcTypes /\ Knows(p) /\ at[p] = "user"
  BY TypeSplit DEF ErasureInv, LoadUser
<1>2. UNCHANGED <<workspace, rows, jobs, faults, history>> /\ about' = about
  BY DEF LoadUser
<1>3. Grows /\ made' = made
  BY <1>2, Quiet DEF made, rows
<1>4. mem'[p] = [mem[p] EXCEPT !.address = u \notin erased, !.owner = u = owner]
  BY <1>1 DEF LoadUser, ProcTypes
<1>5. mem'[p] \in Mem /\ mem'[p].owner = (u = owner) /\ mem'[p].goodbye = mem[p].goodbye
  <2>1. mem[p] \in Mem
    BY <1>1 DEF ProcTypes
  <2>2. (u \notin erased) \in BOOLEAN /\ (u = owner) \in BOOLEAN
    OBVIOUS
  <2> QED BY <1>4, <2>1, <2>2 DEF Mem
<1>6. at'[p] = "begin"
  BY <1>1 DEF LoadUser, ProcTypes
<1>7. \A q \in Procs \ {p} : at'[q] = at[q] /\ about'[q] = about[q] /\ mem'[q] = mem[q]
  BY <1>1 DEF LoadUser, ProcTypes
<1>8. ProcTypes'
  <2>1. at' \in [Procs -> Kinds \cup {"idle", "find"} \cup Body]
    BY <1>1 DEF LoadUser, ProcTypes, Body
  <2>2. mem' \in [Procs -> Mem]
    BY <1>1, <1>5, <1>7 DEF LoadUser, ProcTypes
  <2> QED BY <1>1, <1>2, <2>1, <2>2 DEF ProcTypes
<1>9. Knows(p)'
  <2>1. about[p] \in made /\ about[p] \in confirmed \cap approved
    BY <1>1 DEF Knows, OnRow, Body
  <2>2. mem'[p].owner => u \in owners
    BY <1>5 DEF ErasureInv
  <2>3. mem[p].goodbye \subseteq joined
    BY <1>1 DEF Knows
  <2>4. asked' = asked /\ joined' = joined /\ owners' = owners /\ confirmed' = confirmed
        /\ approved' = approved
    BY <1>2 DEF workspace, rows, history
  <2> QED BY <1>2, <1>3, <1>5, <1>6, <2>1, <2>2, <2>3, <2>4 DEF Knows
<1> QED BY <1>2, <1>3, <1>7, <1>8, <1>9, OneMoved, Quiet, Whole

\* One row written, or none, by a step that erases nobody and moves nobody: it is
\* enough that what is written was decided.
LEMMA RowWritten ==
  ASSUME ErasureInv, NEW r \in made, NEW new \in Statuses \ {"none"},
         status' = status \/ Writes(r, new),
         note' \in [Ids -> BOOLEAN], jobs' \in [Ids -> Nat],
         \A q \in Ids \ {r} : jobs'[q] = jobs[q],
         UNCHANGED <<workspace, asked, confirmed, owners, erasedBy>>,
         approved \subseteq approved', approved' \subseteq made,
         overlapped' \cup cut' \subseteq approved', told' \subseteq joined, faults' \in 0..MaxFaults,
         new = "confirmed" => r \in confirmed,
         new \in {"approved", "processing", "failed"} => r \in confirmed \cap approved',
         new = "completed" => asked[r] \in erased
  PROVE  /\ Grows /\ RowTypes' /\ PeopleTypes' /\ Numbered'
         /\ erasedBy' \in [People -> Ids \cup {None}] /\ owner' \in owners'
         /\ \A q \in Ids : Decided(q)'
         /\ \A u \in People : Consented(u)'
<1>1. made' = made /\ erased' = erased /\ r \in Ids
  BY DEF made, erased
<1>2. RowTypes /\ PeopleTypes
  BY TypeSplit DEF ErasureInv
<1>3. Grows
  BY <1>1 DEF Grows, workspace
<1>4. RowTypes'
  <2>1. status' \in [Ids -> Statuses]
    BY <1>1, <1>2 DEF RowTypes, Writes
  <2>2. \A q \in Ids : status'[q] = "none" <=> q \notin made'
    BY <1>1, <1>2 DEF RowTypes, Writes
  <2> QED BY <1>2, <2>1, <2>2 DEF RowTypes, workspace
<1>5. PeopleTypes'
  BY <1>1, <1>2 DEF PeopleTypes, workspace
<1>6. Numbered' /\ erasedBy' \in [People -> Ids \cup {None}] /\ owner' \in owners'
  BY <1>1 DEF ErasureInv, Numbered, workspace
<1>7. ASSUME NEW q \in Ids PROVE Decided(q)'
  <2>1. CASE q = r /\ status'[q] = new
    BY <1>1, <2>1 DEF Decided
  <2>2. CASE ~(q = r /\ status'[q] = new)
    <3>1. status'[q] = status[q]
      BY <1>1, <1>2, <2>2 DEF RowTypes, Writes
    <3>2. jobs'[q] > 0 => q \in made'
      <4>1. jobs[q] > 0 => q \in made
        BY DEF ErasureInv, Decided
      <4> QED BY <1>1, <4>1
    <3> QED BY <1>3, <3>1, <3>2, RowKept
  <2> QED BY <2>1, <2>2
<1>8. \A u \in People : Consented(u)'
  BY <1>3, ConsentKept
<1> QED BY <1>3, <1>4, <1>5, <1>6, <1>7, <1>8

\* What a run keeps of its history when it writes one row or none.
LEMMA InHand ==
  ASSUME ErasureInv
  PROVE  /\ ProcTypes /\ RowTypes /\ PeopleTypes
         /\ \A p \in Procs : Knows(p)
         /\ \A p \in Procs : at[p] \in OnRow => about[p] \in made /\ about[p] \in Ids
BY TypeSplit DEF ErasureInv, Knows, made

LEMMA StartJobSafe ==
  ASSUME ErasureInv, NEW p \in Procs, NEW r \in Ids, StartJob(p, r)
  PROVE  ErasureInv'
<1>1. ProcTypes /\ RowTypes /\ PeopleTypes
  BY InHand
<1>2. r \in made /\ r \in Ids
  BY DEF StartJob, ErasureInv, Decided
<1>3. /\ Grows /\ RowTypes' /\ PeopleTypes' /\ Numbered'
      /\ erasedBy' \in [People -> Ids \cup {None}] /\ owner' \in owners'
      /\ \A q \in Ids : Decided(q)'
      /\ \A u \in People : Consented(u)'
  <2>1. jobs' \in [Ids -> Nat] /\ \A q \in Ids \ {r} : jobs'[q] = jobs[q]
    BY <1>1, <1>2 DEF StartJob, RowTypes
  <2>2. note' \in [Ids -> BOOLEAN] /\ faults' \in 0..MaxFaults
    BY <1>1 DEF StartJob, RowTypes, PeopleTypes, rows
  <2>3. /\ UNCHANGED <<workspace, asked, confirmed, owners, erasedBy, status>>
        /\ approved' = approved /\ overlapped' = overlapped /\ told' = told /\ cut' = cut
    BY DEF StartJob, rows, history
  <2>4. approved \subseteq made /\ overlapped \cup cut \subseteq approved /\ told \subseteq joined
    BY <1>1 DEF PeopleTypes
  <2>5. "withdrawn" \in Statuses \ {"none"} /\ joined' = joined
    BY <2>3 DEF Statuses, workspace
  <2> HIDE DEF Statuses
  <2> QED BY <1>2, <2>1, <2>2, <2>3, <2>4, <2>5, RowWritten
<1>4. at'[p] = "find" /\ about'[p] = r /\ mem'[p] = [mem[p] EXCEPT !.job = TRUE]
  BY <1>1 DEF StartJob, ProcTypes
<1>5. mem'[p] \in Mem /\ mem'[p].goodbye = mem[p].goodbye
  BY <1>1, <1>4 DEF ProcTypes, Mem
<1>6. \A q \in Procs \ {p} : at'[q] = at[q] /\ about'[q] = about[q] /\ mem'[q] = mem[q]
  BY <1>1 DEF StartJob, ProcTypes
<1>7. ProcTypes'
  <2>1. mem' \in [Procs -> Mem]
    BY <1>1, <1>5, <1>6 DEF StartJob, ProcTypes
  <2> QED BY <1>1, <2>1 DEF StartJob, ProcTypes
<1>8. Knows(p)'
  <2>1. mem[p].goodbye \subseteq joined
    BY DEF ErasureInv, Knows
  <2>2. made \subseteq made' /\ joined \subseteq joined'
    BY <1>3 DEF Grows
  <2> QED BY <1>2, <1>4, <1>5, <2>1, <2>2 DEF Knows, Body
<1> QED BY <1>3, <1>6, <1>7, <1>8, OneMoved, Whole

LEMMA WithdrawSafe ==
  ASSUME ErasureInv, NEW p \in Procs, Withdraw(p)
  PROVE  ErasureInv'
<1>1. about[p] \in made /\ RowTypes /\ PeopleTypes
  BY InHand DEF Withdraw, OnRow
<1>2. /\ Grows /\ RowTypes' /\ PeopleTypes' /\ Numbered'
      /\ erasedBy' \in [People -> Ids \cup {None}] /\ owner' \in owners'
      /\ \A q \in Ids : Decided(q)'
      /\ \A u \in People : Consented(u)'
  <2>1. /\ UNCHANGED <<workspace, asked, confirmed, owners, erasedBy, note, jobs, faults>>
        /\ approved' = approved /\ overlapped' = overlapped /\ told' = told /\ cut' = cut
        /\ joined' = joined /\ Writes(about[p], "withdrawn")
    BY DEF Withdraw, workspace, history
  <2>2. /\ approved \subseteq made /\ overlapped \cup cut \subseteq approved /\ told \subseteq joined
        /\ faults \in 0..MaxFaults /\ note \in [Ids -> BOOLEAN] /\ jobs \in [Ids -> Nat]
    BY <1>1 DEF PeopleTypes, RowTypes
  <2>3. "withdrawn" \in Statuses \ {"none"}
    BY DEF Statuses
  <2> QED BY <1>1, <2>1, <2>2, <2>3, RowWritten
<1>3. Ends(p)
  BY DEF Withdraw
<1> QED BY <1>2, <1>3, EndsSafe, Whole

LEMMA FindSafe ==
  ASSUME ErasureInv, NEW p \in Procs, Find(p)
  PROVE  ErasureInv'
<1> DEFINE r == about[p]
<1>1. /\ ProcTypes /\ RowTypes /\ PeopleTypes /\ Knows(p)
      /\ r \in made /\ r \in Ids /\ at[p] = "find"
  BY InHand DEF Find, OnRow
<1>2. r \in confirmed \cap approved
  <2>1. status[r] \in {"approved", "processing"}
    BY DEF Find, Runnable
  <2> QED BY <1>1, <2>1 DEF ErasureInv, Decided
<1>3. /\ UNCHANGED <<workspace, rows, jobs, about, faults, confirmed, approved, owners,
                     erasedBy, told, cut>>
      /\ joined' = joined /\ asked' = asked /\ note' = note /\ status' = status
  BY DEF Find, workspace, rows
<1>4. /\ Grows /\ RowTypes' /\ PeopleTypes' /\ Numbered'
      /\ erasedBy' \in [People -> Ids \cup {None}] /\ owner' \in owners'
      /\ \A q \in Ids : Decided(q)'
      /\ \A u \in People : Consented(u)'
  <2>1. overlapped' \cup cut' \subseteq approved'
    BY <1>1, <1>2, <1>3 DEF Find, PeopleTypes
  <2>2. /\ approved \subseteq made /\ told \subseteq joined
        /\ faults \in 0..MaxFaults /\ note \in [Ids -> BOOLEAN] /\ jobs \in [Ids -> Nat]
    BY <1>1 DEF PeopleTypes, RowTypes
  <2>3. "withdrawn" \in Statuses \ {"none"}
    BY DEF Statuses
  <2> QED BY <1>1, <1>3, <2>1, <2>2, <2>3, RowWritten
<1>5. at'[p] = "user"
  BY <1>1 DEF Find, ProcTypes
<1>6. mem'[p] = [mem[p] EXCEPT !.status = status[r], !.kept = note[r]]
  BY <1>1 DEF Find, ProcTypes
<1>7. mem'[p] \in Mem /\ mem'[p].goodbye = mem[p].goodbye
  <2>1. mem[p] \in Mem /\ status[r] \in Statuses /\ note[r] \in BOOLEAN
    BY <1>1 DEF ProcTypes, RowTypes
  <2> QED BY <1>6, <2>1 DEF Mem
<1>8. \A q \in Procs \ {p} : at'[q] = at[q] /\ about'[q] = about[q] /\ mem'[q] = mem[q]
  BY <1>1, <1>3 DEF Find, ProcTypes
<1>9. ProcTypes'
  <2>1. mem' \in [Procs -> Mem]
    BY <1>1, <1>7, <1>8 DEF Find, ProcTypes
  <2>2. at' \in [Procs -> Kinds \cup {"idle", "find"} \cup Body]
    BY <1>1 DEF Find, ProcTypes, Body
  <2> QED BY <1>1, <1>3, <2>1, <2>2 DEF ProcTypes
<1>10. Knows(p)'
  <2>1. mem[p].goodbye \subseteq joined
    BY <1>1 DEF Knows
  <2>2. made \subseteq made'
    BY <1>4 DEF Grows
  <2> QED BY <1>1, <1>2, <1>3, <1>5, <1>7, <2>1, <2>2 DEF Knows
<1> QED BY <1>4, <1>8, <1>9, <1>10, OneMoved, Whole

LEMMA BeginSafe ==
  ASSUME ErasureInv, NEW p \in Procs, Begin(p)
  PROVE  ErasureInv'
<1>1. /\ ProcTypes /\ RowTypes /\ PeopleTypes /\ Knows(p)
      /\ about[p] \in made /\ at[p] = "begin"
  BY InHand DEF Begin, OnRow, Body
<1>2. about[p] \in confirmed \cap approved
  BY <1>1 DEF Knows, Body
<1>3. /\ UNCHANGED <<workspace, asked, note, jobs, about, mem, faults, confirmed, approved,
                     owners, erasedBy, overlapped, told, cut>>
      /\ joined' = joined
  BY DEF Begin, workspace, history
<1>4. /\ Grows /\ RowTypes' /\ PeopleTypes' /\ Numbered'
      /\ erasedBy' \in [People -> Ids \cup {None}] /\ owner' \in owners'
      /\ \A q \in Ids : Decided(q)'
      /\ \A u \in People : Consented(u)'
  <2>1. /\ approved \subseteq made /\ overlapped \cup cut \subseteq approved /\ told \subseteq joined
        /\ faults \in 0..MaxFaults /\ note \in [Ids -> BOOLEAN] /\ jobs \in [Ids -> Nat]
    BY <1>1 DEF PeopleTypes, RowTypes
  <2>2. "processing" \in Statuses \ {"none"}
    BY DEF Statuses, Active
  <2>3. status' = status \/ Writes(about[p], "processing")
    BY DEF Begin
  <2> QED BY <1>1, <1>2, <1>3, <2>1, <2>2, <2>3, RowWritten
<1>5. at'[p] = "erase"
  BY <1>1 DEF Begin, ProcTypes
<1>6. \A q \in Procs \ {p} : at'[q] = at[q] /\ about'[q] = about[q] /\ mem'[q] = mem[q]
  BY <1>1, <1>3 DEF Begin, ProcTypes
<1>7. ProcTypes'
  BY <1>1, <1>3 DEF Begin, ProcTypes, Body
<1>8. Knows(p)'
  <2>1. mem[p].goodbye \subseteq joined /\ (mem[p].owner => asked[about[p]] \in owners)
    BY <1>1 DEF Knows
  <2>2. made \subseteq made'
    BY <1>4 DEF Grows
  <2> QED BY <1>1, <1>2, <1>3, <1>5, <2>1, <2>2 DEF Knows
<1> QED BY <1>4, <1>6, <1>7, <1>8, OneMoved, Whole

LEMMA CompleteSafe ==
  ASSUME ErasureInv, NEW p \in Procs, Complete(p)
  PROVE  ErasureInv'
<1>1. /\ ProcTypes /\ RowTypes /\ PeopleTypes /\ Knows(p)
      /\ about[p] \in made /\ at[p] = "complete"
  BY InHand DEF Complete, OnRow, Body
<1>2. about[p] \in confirmed \cap approved /\ asked[about[p]] \in erased
  BY <1>1 DEF Knows, Body
<1>3. /\ UNCHANGED <<workspace, asked, jobs, about, mem, faults, confirmed, approved,
                     owners, erasedBy, overlapped, told, cut>>
      /\ joined' = joined
  BY DEF Complete, workspace, history
<1>4. /\ Grows /\ RowTypes' /\ PeopleTypes' /\ Numbered'
      /\ erasedBy' \in [People -> Ids \cup {None}] /\ owner' \in owners'
      /\ \A q \in Ids : Decided(q)'
      /\ \A u \in People : Consented(u)'
  <2>1. /\ approved \subseteq made /\ overlapped \cup cut \subseteq approved /\ told \subseteq joined
        /\ faults \in 0..MaxFaults /\ jobs \in [Ids -> Nat]
    BY <1>1 DEF PeopleTypes, RowTypes
  <2>2. note' \in [Ids -> BOOLEAN]
    BY <1>1 DEF Complete, RowTypes
  <2>3. "completed" \in Statuses \ {"none"} /\ Writes(about[p], "completed")
    BY DEF Statuses, Complete
  <2> QED BY <1>1, <1>2, <1>3, <2>1, <2>2, <2>3, RowWritten
<1>5. at'[p] = "tell"
  BY <1>1 DEF Complete, ProcTypes
<1>6. \A q \in Procs \ {p} : at'[q] = at[q] /\ about'[q] = about[q] /\ mem'[q] = mem[q]
  BY <1>1, <1>3 DEF Complete, ProcTypes
<1>7. ProcTypes'
  BY <1>1, <1>3 DEF Complete, ProcTypes, Body
<1>8. Knows(p)'
  <2>1. mem[p].goodbye \subseteq joined
    BY <1>1 DEF Knows
  <2>2. made \subseteq made' /\ erased \subseteq erased'
    BY <1>4 DEF Grows
  <2> QED BY <1>1, <1>2, <1>3, <1>5, <2>1, <2>2 DEF Knows
<1> QED BY <1>4, <1>6, <1>7, <1>8, OneMoved, Whole

LEMMA TellSafe ==
  ASSUME ErasureInv, NEW p \in Procs, Tell(p)
  PROVE  ErasureInv'
<1>1. /\ ProcTypes /\ RowTypes /\ PeopleTypes /\ Knows(p)
      /\ about[p] \in made /\ about[p] \in Ids /\ at[p] = "tell"
  BY InHand DEF Tell, OnRow, Body
<1>2. /\ UNCHANGED <<workspace, rows, jobs, faults, confirmed, approved, owners, erasedBy,
                     overlapped, cut>>
      /\ joined' = joined /\ asked' = asked /\ status' = status /\ note' = note
  BY DEF Tell, workspace, rows
<1>3. told' \subseteq joined
  <2>1. mem[p].goodbye \subseteq joined /\ told \subseteq joined
    BY <1>1 DEF Knows, PeopleTypes
  <2>2. asked[about[p]] \in joined
    BY <1>1 DEF RowTypes, made
  <2> QED BY <2>1, <2>2 DEF Tell
<1>4. /\ Grows /\ RowTypes' /\ PeopleTypes' /\ Numbered'
      /\ erasedBy' \in [People -> Ids \cup {None}] /\ owner' \in owners'
      /\ \A q \in Ids : Decided(q)'
      /\ \A u \in People : Consented(u)'
  <2>1. /\ approved \subseteq made /\ overlapped \cup cut \subseteq approved
        /\ faults \in 0..MaxFaults /\ jobs \in [Ids -> Nat] /\ note \in [Ids -> BOOLEAN]
    BY <1>1 DEF PeopleTypes, RowTypes
  <2>2. "withdrawn" \in Statuses \ {"none"}
    BY DEF Statuses
  <2> QED BY <1>1, <1>2, <1>3, <2>1, <2>2, RowWritten
<1>5. Ends(p)
  BY DEF Tell
<1> QED BY <1>4, <1>5, EndsSafe, Whole

LEMMA ThrowSafe ==
  ASSUME ErasureInv, NEW p \in Procs, Throw(p) \/ Kill(p)
  PROVE  ErasureInv'
<1>1. /\ ProcTypes /\ RowTypes /\ PeopleTypes /\ Knows(p) /\ at[p] \in Body
      /\ about[p] \in made /\ about[p] \in Ids
  BY InHand DEF Throw, Kill, OnRow, Body
<1>2. about[p] \in confirmed \cap approved
  BY <1>1 DEF Knows
<1>3. /\ UNCHANGED <<workspace, asked, note, confirmed, approved, owners, erasedBy,
                     overlapped, told>>
      /\ joined' = joined
  BY DEF Throw, Kill, workspace, rows, history
<1>4. /\ Grows /\ RowTypes' /\ PeopleTypes' /\ Numbered'
      /\ erasedBy' \in [People -> Ids \cup {None}] /\ owner' \in owners'
      /\ \A q \in Ids : Decided(q)'
      /\ \A u \in People : Consented(u)'
  <2>1. /\ approved \subseteq made /\ overlapped' \cup cut' \subseteq approved' /\ told \subseteq joined
        /\ note \in [Ids -> BOOLEAN]
    BY <1>1, <1>2, <1>3 DEF PeopleTypes, RowTypes, Throw, Kill, history
  <2>2. faults' \in 0..MaxFaults
    BY <1>1 DEF PeopleTypes, Throw, Kill
  <2>3. jobs' = jobs \/ jobs' = [jobs EXCEPT ![about[p]] = @ + 1]
    BY DEF Throw, Kill
  <2>4. jobs' \in [Ids -> Nat] /\ \A q \in Ids \ {about[p]} : jobs'[q] = jobs[q]
    BY <1>1, <2>3 DEF RowTypes
  <2>5. status' = status \/ Writes(about[p], "failed")
    BY DEF Throw, Kill, rows
  <2>6. "failed" \in Statuses \ {"none"}
    BY DEF Statuses
  <2> QED BY <1>1, <1>2, <1>3, <2>1, <2>2, <2>4, <2>5, <2>6, RowWritten
<1>5. Ends(p)
  BY DEF Throw, Kill
<1> QED BY <1>4, <1>5, EndsSafe, Whole

LEMMA ApproveSafe ==
  ASSUME ErasureInv, NEW p \in Procs, Approve(p)
  PROVE  ErasureInv'
<1> DEFINE r == about[p]
<1>1. /\ ProcTypes /\ RowTypes /\ PeopleTypes /\ Knows(p)
      /\ r \in made /\ r \in Ids /\ at[p] \in {"approve", "retry"}
  BY InHand DEF Approve, OnRow
<1>2. r \in confirmed /\ r \in approved'
  BY <1>1 DEF Knows, Approve
<1>3. /\ UNCHANGED <<workspace, asked, note, faults, confirmed, owners, erasedBy,
                     overlapped, told, cut, mem>>
      /\ joined' = joined
  BY DEF Approve, RunsNow, workspace
<1>4. jobs' \in [Ids -> Nat] /\ \A q \in Ids \ {r} : jobs'[q] = jobs[q]
  BY <1>1 DEF Approve, Queued, RowTypes
<1>5. approved \subseteq approved' /\ approved' \subseteq made
  BY <1>1 DEF Approve, PeopleTypes
<1>6. /\ Grows /\ RowTypes' /\ PeopleTypes' /\ Numbered'
      /\ erasedBy' \in [People -> Ids \cup {None}] /\ owner' \in owners'
      /\ \A q \in Ids : Decided(q)'
      /\ \A u \in People : Consented(u)'
  <2>1. /\ overlapped \cup cut \subseteq approved /\ told \subseteq joined
        /\ faults \in 0..MaxFaults /\ note \in [Ids -> BOOLEAN]
    BY <1>1 DEF PeopleTypes, RowTypes
  <2>2. "approved" \in Statuses \ {"none"} /\ Writes(r, "approved")
    BY DEF Statuses, Active, Approve
  <2> QED BY <1>1, <1>2, <1>3, <1>4, <1>5, <2>1, <2>2, RowWritten
<1>7. at'[p] = "find" /\ about'[p] = r
  BY <1>1 DEF Approve, RunsNow, ProcTypes
<1>8. \A q \in Procs \ {p} : at'[q] = at[q] /\ about'[q] = about[q] /\ mem'[q] = mem[q]
  BY <1>1, <1>3 DEF Approve, RunsNow, ProcTypes
<1>9. ProcTypes'
  BY <1>1, <1>3 DEF Approve, RunsNow, ProcTypes
<1>10. Knows(p)'
  <2>1. mem[p].goodbye \subseteq joined
    BY <1>1 DEF Knows
  <2>2. made \subseteq made'
    BY <1>6 DEF Grows
  <2> QED BY <1>1, <1>3, <1>7, <2>1, <2>2 DEF Knows, Body
<1> QED BY <1>6, <1>8, <1>9, <1>10, OneMoved, Whole

\* A new row, confirmed or not, approved or not, is about somebody who joined.
LEMMA RowMade ==
  ASSUME ErasureInv, NEW r \in Ids, r = Cardinality(made) + 1, NEW u \in joined,
         NEW new \in {"requested", "confirmed", "approved"},
         asked' = [asked EXCEPT ![r] = u], Writes(r, new),
         note' = note, jobs' \in [Ids -> Nat], \A q \in Ids \ {r} : jobs'[q] = jobs[q],
         UNCHANGED <<workspace, faults, owners, erasedBy, overlapped, told, cut>>,
         confirmed \subseteq confirmed', confirmed' \subseteq confirmed \cup {r},
         approved \subseteq approved', approved' \subseteq approved \cup {r},
         new # "requested" => r \in confirmed',
         new = "approved" => r \in approved'
  PROVE  /\ Grows /\ RowTypes' /\ PeopleTypes' /\ Numbered'
         /\ erasedBy' \in [People -> Ids \cup {None}] /\ owner' \in owners'
         /\ \A q \in Ids : Decided(q)'
         /\ \A v \in People : Consented(v)'
<1>1. RowTypes /\ PeopleTypes /\ u \in People
  BY InHand DEF PeopleTypes
<1>2. r \notin made /\ made' = made \cup {r} /\ Numbered'
  BY <1>1, NextNumber
<1>3. erased' = erased
  BY DEF erased
<1>4. \A q \in made : q # r /\ asked'[q] = asked[q]
  BY <1>1, <1>2 DEF RowTypes, made
<1>5. Grows
  BY <1>2, <1>3, <1>4 DEF Grows, workspace
<1>6. new \in Statuses \ {"none"}
  BY DEF Statuses, Active
<1>7. RowTypes'
  <2>1. asked' \in [Ids -> joined' \cup {None}]
    BY <1>1 DEF RowTypes, workspace
  <2>2. status' \in [Ids -> Statuses]
    BY <1>1, <1>6 DEF RowTypes, Writes
  <2>3. \A q \in Ids : status'[q] = "none" <=> q \notin made'
    BY <1>1, <1>2, <1>6 DEF RowTypes, Writes
  <2> QED BY <1>1, <2>1, <2>2, <2>3 DEF RowTypes
<1>8. PeopleTypes'
  BY <1>1, <1>2, <1>3 DEF PeopleTypes, workspace
<1>9. ASSUME NEW q \in Ids PROVE Decided(q)'
  <2>1. CASE q = r
    <3>1. status'[r] = new
      BY <1>1 DEF RowTypes, Writes
    <3> QED BY <1>2, <2>1, <3>1 DEF Decided
  <2>2. CASE q # r
    <3>1. status'[q] = status[q] /\ jobs'[q] = jobs[q]
      BY <1>1, <2>2 DEF RowTypes, Writes
    <3>2. jobs[q] > 0 => q \in made
      BY DEF ErasureInv, Decided
    <3> QED BY <1>2, <1>5, <3>1, <3>2, RowKept
  <2> QED BY <2>1, <2>2
<1>10. \A v \in People : Consented(v)'
  BY <1>5, ConsentKept
<1>11. erasedBy' \in [People -> Ids \cup {None}] /\ owner' \in owners'
  BY DEF ErasureInv, workspace
<1> QED BY <1>2, <1>5, <1>7, <1>8, <1>9, <1>10, <1>11

LEMMA OnBehalfSafe ==
  ASSUME ErasureInv, NEW p \in Procs, NEW r \in Ids, OnBehalf(p, r)
  PROVE  ErasureInv'
<1>1. /\ ProcTypes /\ RowTypes /\ PeopleTypes /\ Knows(p) /\ at[p] = "start"
  BY InHand DEF OnBehalf
<1>2. about[p] \in joined
  BY <1>1 DEF Knows
<1>3. jobs' \in [Ids -> Nat] /\ \A q \in Ids \ {r} : jobs'[q] = jobs[q]
  BY <1>1 DEF OnBehalf, Queued, RowTypes
<1>4. /\ Grows /\ RowTypes' /\ PeopleTypes' /\ Numbered'
      /\ erasedBy' \in [People -> Ids \cup {None}] /\ owner' \in owners'
      /\ \A q \in Ids : Decided(q)'
      /\ \A u \in People : Consented(u)'
  <2>1. /\ r = Cardinality(made) + 1 /\ asked' = [asked EXCEPT ![r] = about[p]]
        /\ Writes(r, "approved") /\ note' = note
        /\ UNCHANGED <<workspace, faults, owners, erasedBy, overlapped, told, cut>>
        /\ confirmed' = confirmed \cup {r} /\ approved' = approved \cup {r}
    BY DEF OnBehalf
  <2> QED BY <1>2, <1>3, <2>1, RowMade
<1>5. r \in made'
  BY <1>2, InHand, NextNumber DEF OnBehalf, PeopleTypes
<1>6. at'[p] = "find" /\ about'[p] = r /\ mem' = mem
  BY <1>1 DEF OnBehalf, RunsNow, ProcTypes
<1>7. \A q \in Procs \ {p} : at'[q] = at[q] /\ about'[q] = about[q] /\ mem'[q] = mem[q]
  BY <1>1 DEF OnBehalf, RunsNow, ProcTypes
<1>8. ProcTypes'
  BY <1>1 DEF OnBehalf, RunsNow, ProcTypes
<1>9. Knows(p)'
  <2>1. mem[p].goodbye \subseteq joined /\ joined \subseteq joined'
    BY <1>1, <1>4 DEF Knows, Grows
  <2> QED BY <1>5, <1>6, <2>1 DEF Knows, Body
<1> QED BY <1>4, <1>7, <1>8, <1>9, OneMoved, Whole

\* Steps that move no process.
LEMMA NobodyMoved ==
  ASSUME ErasureInv, Grows, UNCHANGED <<at, about, mem>>
  PROVE  ProcTypes' /\ \A p \in Procs : Knows(p)'
<1>1. ProcTypes'
  BY InHand DEF ProcTypes
<1> QED BY <1>1, OthersKnow

LEMMA AskSafe ==
  ASSUME ErasureInv, NEW u \in People, NEW r \in Ids, Ask(u, r)
  PROVE  ErasureInv'
<1>1. RowTypes /\ PeopleTypes /\ u \in joined
  BY InHand DEF Ask, PeopleTypes
<1>2. /\ Grows /\ RowTypes' /\ PeopleTypes' /\ Numbered'
      /\ erasedBy' \in [People -> Ids \cup {None}] /\ owner' \in owners'
      /\ \A q \in Ids : Decided(q)'
      /\ \A v \in People : Consented(v)'
  <2> DEFINE new == IF u \in Passwords THEN "confirmed" ELSE "requested"
  <2>1. /\ r = Cardinality(made) + 1 /\ asked' = [asked EXCEPT ![r] = u]
        /\ Writes(r, new) /\ note' = note /\ jobs' = jobs
        /\ UNCHANGED <<workspace, faults, owners, erasedBy, overlapped, told, cut, approved>>
        /\ confirmed' = IF u \in Passwords THEN confirmed \cup {r} ELSE confirmed
    BY DEF Ask
  <2>2. jobs \in [Ids -> Nat]
    BY <1>1 DEF RowTypes
  <2>3. new \in {"requested", "confirmed", "approved"} /\ (new # "requested" => r \in confirmed')
        /\ new # "approved"
    BY <2>1
  <2> HIDE DEF new
  <2> QED BY <1>1, <2>1, <2>2, <2>3, RowMade
<1>3. UNCHANGED <<at, about, mem>>
  BY DEF Ask
<1> QED BY <1>2, <1>3, NobodyMoved, Whole

LEMMA ConfirmSafe ==
  ASSUME ErasureInv, NEW r \in Ids, Confirm(r)
  PROVE  ErasureInv'
<1>1. RowTypes /\ PeopleTypes /\ r \in made
  BY InHand DEF Confirm, RowTypes
<1>2. made' = made /\ erased' = erased
  BY DEF Confirm, made, erased
<1>3. Grows
  BY <1>2 DEF Confirm, Grows, workspace
<1>4. RowTypes'
  <2>1. status' \in [Ids -> Statuses]
    BY <1>1 DEF Confirm, RowTypes, Writes, Statuses, Active
  <2>2. \A q \in Ids : status'[q] = "none" <=> q \notin made'
    BY <1>1, <1>2 DEF Confirm, RowTypes, Writes
  <2> QED BY <1>1, <2>1, <2>2 DEF Confirm, RowTypes, workspace
<1>5. PeopleTypes'
  BY <1>1, <1>2 DEF Confirm, PeopleTypes, workspace
<1>6. Numbered' /\ erasedBy' \in [People -> Ids \cup {None}] /\ owner' \in owners'
  BY <1>2 DEF Confirm, ErasureInv, Numbered, workspace
<1>7. ASSUME NEW q \in Ids PROVE Decided(q)'
  <2>1. Decided(q) /\ jobs' = jobs
    BY DEF ErasureInv, Confirm
  <2>2. CASE q = r
    <3>1. status'[r] = "confirmed" /\ r \in confirmed'
      BY <1>1 DEF Confirm, RowTypes, Writes
    <3> QED BY <1>1, <1>2, <2>2, <3>1 DEF Decided
  <2>3. CASE q # r
    <3>1. status'[q] = status[q]
      BY <1>1, <2>3 DEF Confirm, RowTypes, Writes
    <3> QED BY <1>2, <1>3, <2>1, <3>1, RowKept DEF Decided
  <2> QED BY <2>2, <2>3
<1>8. \A u \in People : Consented(u)'
  BY <1>3, ConsentKept DEF Confirm
<1>9. UNCHANGED <<at, about, mem>>
  BY DEF Confirm
<1> QED BY <1>3, <1>4, <1>5, <1>6, <1>7, <1>8, <1>9, NobodyMoved, Whole

LEMMA MembersSafe ==
  ASSUME ErasureInv, NEW u \in People, Join(u) \/ Leave(u) \/ Transfer(u)
  PROVE  ErasureInv'
<1>1. RowTypes /\ PeopleTypes
  BY InHand
<1>2. /\ UNCHANGED <<asked, status, note, jobs, at, about, mem, faults, confirmed, approved,
                     erasedBy, overlapped, told, cut, work>>
      /\ joined \subseteq joined' /\ joined' \subseteq joined \cup {u}
      /\ owners \subseteq owners' /\ owner' \in owners'
      /\ (Join(u) \/ joined' = joined)
  BY DEF Join, Leave, Transfer, rows, history, ErasureInv
<1>3. made' = made /\ erased' = erased
  BY <1>2 DEF made, erased
<1>4. Grows
  BY <1>2, <1>3 DEF Grows
<1>5. RowTypes'
  BY <1>1, <1>2, <1>3 DEF RowTypes
<1>6. erased \subseteq joined
  BY DEF ErasureInv, Consented, erased
<1>7. PeopleTypes'
  <2>1. live' \subseteq joined' \ erased' /\ owner' \in joined' /\ owners' \subseteq joined'
    <3>1. CASE Join(u)
      BY <1>1, <1>3, <1>6, <3>1 DEF Join, PeopleTypes, history
    <3>2. CASE Leave(u)
      BY <1>1, <1>3, <3>2 DEF Leave, PeopleTypes, history
    <3>3. CASE Transfer(u)
      BY <1>1, <1>3, <3>3 DEF Transfer, PeopleTypes
    <3> QED BY <3>1, <3>2, <3>3
  <2>2. joined' \subseteq People /\ told' \subseteq joined'
    BY <1>1, <1>2 DEF PeopleTypes
  <2> QED BY <1>1, <1>2, <1>3, <2>1, <2>2 DEF PeopleTypes
<1>8. Numbered' /\ erasedBy' \in [People -> Ids \cup {None}]
  BY <1>2, <1>3 DEF ErasureInv, Numbered
<1>9. \A r \in Ids : Decided(r)'
  BY <1>2, <1>3 DEF ErasureInv, Decided
<1>10. \A v \in People : Consented(v)'
  BY <1>2, <1>4, ConsentKept
<1> QED BY <1>2, <1>4, <1>5, <1>7, <1>8, <1>9, <1>10, NobodyMoved, Whole

LEMMA EraseSafe ==
  ASSUME ErasureInv, NEW p \in Procs, Erase(p)
  PROVE  ErasureInv'
<1> DEFINE r == about[p]
           u == asked[r]
           rest == live \ {u}
           others == IF mem[p].owner THEN rest ELSE {}
           gone == others \cup {u}
           known == KnowsAddress(p)
<1>1. /\ ProcTypes /\ RowTypes /\ PeopleTypes /\ Knows(p) /\ at[p] = "erase"
      /\ r \in made /\ r \in Ids
  BY InHand DEF Erase, OnRow, Body
<1>2. /\ r \in confirmed \cap approved
      /\ mem[p].owner => u \in owners
      /\ u \in joined /\ u \in People
  BY <1>1 DEF Knows, Body, RowTypes, PeopleTypes, made
<1>3. gone \subseteq joined /\ others \subseteq joined /\ joined \subseteq People
  BY <1>1, <1>2 DEF PeopleTypes
<1>4. /\ UNCHANGED <<joined, owner, asked, jobs, about, faults, confirmed, approved, owners,
                     overlapped, told, cut>>
      /\ live' = live \ gone
      /\ work' = (work /\ others = {} /\ rest # {})
      /\ status' = [q \in Ids |-> IF q \in Honoured(others) THEN "completed" ELSE status[q]]
      /\ erasedBy' = [v \in People |->
                        IF v \in gone /\ erasedBy[v] = None THEN r ELSE erasedBy[v]]
      /\ note' = note \/ note' = [note EXCEPT ![r] = known]
  BY DEF Erase, Gone
<1>5. made' = made /\ erased' = erased \cup gone
  <2>1. made' = made
    BY <1>4 DEF made
  <2>2. erased' = erased \cup gone
    BY <1>1, <1>3, <1>4 DEF erased, ErasureInv
  <2> QED BY <2>1, <2>2
<1>6. Grows
  BY <1>4, <1>5 DEF Grows
<1>7. \A q \in Honoured(others) : q \in made /\ status[q] # "none" /\ asked[q] \in others
  BY DEF Honoured
<1>8. RowTypes'
  <2>1. status' \in [Ids -> Statuses]
    BY <1>1, <1>4 DEF RowTypes, Statuses
  <2>2. ASSUME NEW q \in Ids PROVE status'[q] = "none" <=> q \notin made'
    BY <1>1, <1>4, <1>5, <1>7 DEF RowTypes
  <2>3. known \in BOOLEAN
    <3>1. mem[p] \in Mem
      BY <1>1 DEF ProcTypes
    <3> QED BY <3>1 DEF KnowsAddress, Mem
  <2>4. note' \in [Ids -> BOOLEAN]
    BY <1>1, <1>4, <2>3 DEF RowTypes
  <2> QED BY <1>1, <1>4, <2>1, <2>2, <2>4 DEF RowTypes
<1>9. PeopleTypes'
  <2>1. live' \subseteq joined' \ erased'
    BY <1>1, <1>4, <1>5 DEF PeopleTypes
  <2>2. work' \in BOOLEAN
    BY <1>4
  <2> QED BY <1>1, <1>4, <1>5, <2>1, <2>2 DEF PeopleTypes
<1>10. Numbered' /\ owner' \in owners'
  BY <1>4, <1>5 DEF ErasureInv, Numbered
<1>11. erasedBy' \in [People -> Ids \cup {None}]
  BY <1>1, <1>4 DEF ErasureInv
<1>12. ASSUME NEW q \in Ids PROVE Decided(q)'
  <2>1. CASE q \in Honoured(others)
    <3>1. status'[q] = "completed" /\ q \in made' /\ asked'[q] \in erased'
      BY <1>4, <1>5, <1>7, <2>1
    <3> QED BY <3>1 DEF Decided
  <2>2. CASE q \notin Honoured(others)
    <3>1. status'[q] = status[q] /\ (jobs'[q] > 0 => q \in made')
      BY <1>4, <1>5, <2>2 DEF ErasureInv, Decided
    <3> QED BY <1>6, <3>1, RowKept
  <2> QED BY <2>1, <2>2
<1>13. ASSUME NEW v \in People PROVE Consented(v)'
  <2>1. CASE v \in gone /\ erasedBy[v] = None
    <3>1. erasedBy'[v] = r
      BY <1>4, <2>1
    <3>2. v = u \/ u \in owners
      BY <1>2, <2>1
    <3> QED BY <1>2, <1>3, <1>4, <2>1, <3>1, <3>2 DEF Consented
  <2>2. CASE ~(v \in gone /\ erasedBy[v] = None)
    <3>1. erasedBy'[v] = erasedBy[v]
      BY <1>4, <2>2
    <3> QED BY <1>6, <3>1, ConsentKept
  <2> QED BY <2>1, <2>2
<1>14. mem'[p] = [Blank EXCEPT !.job = mem[p].job, !.kept = known, !.goodbye = others]
       /\ at'[p] = "complete"
  BY <1>1 DEF Erase, ProcTypes
<1>15. mem'[p] \in Mem /\ mem'[p].goodbye = others
  <2>1. mem[p] \in Mem /\ known \in BOOLEAN
    BY <1>1 DEF ProcTypes, KnowsAddress, Mem
  <2>2. others \in SUBSET People
    BY <1>3
  <2> HIDE DEF others, known
  <2> QED BY <1>14, <2>1, <2>2 DEF Blank, Mem, Statuses
<1>16. \A q \in Procs \ {p} : at'[q] = at[q] /\ about'[q] = about[q] /\ mem'[q] = mem[q]
  BY <1>1, <1>4 DEF Erase, ProcTypes
<1>17. ProcTypes'
  <2>1. at' \in [Procs -> Kinds \cup {"idle", "find"} \cup Body]
    BY <1>1 DEF Erase, ProcTypes, Body
  <2>2. mem' \in [Procs -> Mem]
    BY <1>1, <1>15, <1>16 DEF Erase, ProcTypes
  <2> QED BY <1>1, <1>4, <2>1, <2>2 DEF ProcTypes
<1>18. Knows(p)'
  <2>1. u \in erased' /\ asked'[about'[p]] = u /\ about'[p] = r
    BY <1>4, <1>5
  <2> HIDE DEF u, others, r
  <2> QED BY <1>1, <1>2, <1>3, <1>4, <1>5, <1>14, <1>15, <2>1 DEF Knows, r
<1> QED BY <1>6, <1>8, <1>9, <1>10, <1>11, <1>12, <1>13, <1>16, <1>17, <1>18, OneMoved, Whole

LEMMA InitSafe == Init => ErasureInv
<1> SUFFICES ASSUME Init PROVE ErasureInv
  OBVIOUS
<1>1. made = {} /\ erased = {}
  BY DEF Init, made, erased
<1>2. ProcTypes
  BY BlankIsMem DEF Init, ProcTypes
<1>3. RowTypes /\ PeopleTypes
  BY <1>1 DEF Init, RowTypes, PeopleTypes, Statuses
<1>4. Numbered
  <2>1. Cardinality({}) = 0
    BY FS_EmptySet
  <2> QED BY <1>1, <2>1 DEF Numbered
<1>5. ASSUME NEW p \in Procs PROVE Knows(p)
  BY BlankIsMem DEF Init, Knows, OnRow, Body
<1>6. \A r \in Ids : Decided(r)
  BY DEF Init, Decided
<1>7. \A u \in People : Consented(u)
  BY <1>1 DEF Consented
<1>8. erasedBy \in [People -> Ids \cup {None}] /\ owner \in owners
  BY DEF Init
<1> QED BY <1>2, <1>3, <1>4, <1>5, <1>6, <1>7, <1>8, TypeSplit DEF ErasureInv

LEMMA StepSafe == ErasureInv /\ [Next]_vars => ErasureInv'
<1> SUFFICES ASSUME ErasureInv, [Next]_vars PROVE ErasureInv'
  OBVIOUS
<1>1. ASSUME NEW p \in Procs, Start(p) PROVE ErasureInv'
  BY <1>1, PagesSafe
<1>2. ASSUME NEW p \in Procs, Step(p) PROVE ErasureInv'
  <2>1. CASE Withdraw(p) BY <2>1, WithdrawSafe
  <2>2. CASE Approve(p) BY <2>2, ApproveSafe
  <2>3. CASE Refused(p) \/ Skip(p) BY <2>3, NothingDoneSafe
  <2>4. CASE Find(p) BY <2>4, FindSafe
  <2>5. CASE LoadUser(p) BY <2>5, LoadUserSafe
  <2>6. CASE Begin(p) BY <2>6, BeginSafe
  <2>7. CASE Erase(p) BY <2>7, EraseSafe
  <2>8. CASE Complete(p) BY <2>8, CompleteSafe
  <2>9. CASE Tell(p) BY <2>9, TellSafe
  <2>10. CASE \E r \in Ids : OnBehalf(p, r) BY <2>10, OnBehalfSafe
  <2> QED BY <1>2, <2>1, <2>2, <2>3, <2>4, <2>5, <2>6, <2>7, <2>8, <2>9, <2>10 DEF Step
<1>3. ASSUME NEW p \in Procs, Throw(p) \/ Kill(p) PROVE ErasureInv'
  BY <1>3, ThrowSafe
<1>4. ASSUME NEW p \in Procs, NEW r \in Ids, StartJob(p, r) PROVE ErasureInv'
  BY <1>4, StartJobSafe
<1>5. ASSUME NEW u \in People, Join(u) \/ Leave(u) \/ Transfer(u) PROVE ErasureInv'
  BY <1>5, MembersSafe
<1>6. ASSUME NEW u \in People, NEW r \in Ids, Ask(u, r) PROVE ErasureInv'
  BY <1>6, AskSafe
<1>7. ASSUME NEW r \in Ids, Confirm(r) PROVE ErasureInv'
  BY <1>7, ConfirmSafe
<1>8. ASSUME UNCHANGED vars PROVE ErasureInv'
  <2>1. /\ UNCHANGED <<workspace, rows, jobs, faults, history>>
        /\ UNCHANGED <<at, about, mem>>
    BY <1>8 DEF vars
  <2> QED BY <2>1, Quiet, NobodyMoved, Whole
<1> QED BY <1>1, <1>2, <1>3, <1>4, <1>5, <1>6, <1>7, <1>8 DEF Next

LEMMA InvHolds == Spec => []ErasureInv
BY InitSafe, StepSafe, PTL DEF Spec

(* Requests, processes and histories keep their types; a request is about  *)
(* somebody who was a member and nobody erased is alive                    *)
(* (deletion_service.ts, whatever overlaps, throws or is killed).          *)
THEOREM TypesHold == Spec => []TypeOK
<1>1. ErasureInv => TypeOK
  BY DEF ErasureInv
<1> QED BY <1>1, InvHolds, PTL

(* Nobody is erased but by a request confirmed and approved, for them or   *)
(* for somebody who owned their workspace: approve, startByStaff, retry    *)
(* and both runs of process() taken together.                              *)
THEOREM ConsentHolds == Spec => []ErasedByConsent
<1>1. ErasureInv => ErasedByConsent
  <2> SUFFICES ASSUME ErasureInv, NEW u \in erased
               PROVE  LET r == erasedBy[u] IN
                        r \in confirmed \cap approved /\ (asked[r] = u \/ asked[r] \in owners)
    BY DEF ErasedByConsent
  <2>1. Consented(u)
    BY DEF ErasureInv, erased
  <2> QED BY <2>1 DEF Consented
<1> QED BY <1>1, InvHolds, PTL

(* A completed request is about an erased account, also one completed on   *)
(* behalf of an owner's (process(), the requests of the others).           *)
THEOREM HonoursHold == Spec => []HonouredMeansErased
<1>1. ErasureInv => HonouredMeansErased
  BY DEF ErasureInv, HonouredMeansErased, Decided, made
<1> QED BY <1>1, InvHolds, PTL

(* Both: a deletion does what was decided, and says what it did.           *)
THEOREM DecisionHolds == Spec => []ErasedAsDecided
<1>1. ErasedByConsent /\ HonouredMeansErased => ErasedAsDecided
  BY DEF ErasedAsDecided
<1> QED BY <1>1, ConsentHolds, HonoursHold, PTL

(* The workspace's work goes in no step that leaves somebody in it.        *)
THEOREM WorkOutlives == Spec => WorkGoesWithTheLast
<1>1. [Next]_vars => [work /\ ~work' => live' = {}]_vars
  <2> SUFFICES ASSUME [Next]_vars, work, ~work' PROVE live' = {}
    OBVIOUS
  <2>1. work' # work
    OBVIOUS
  <2>2. ASSUME UNCHANGED workspace PROVE FALSE
    BY <2>1, <2>2 DEF workspace
  <2>3. PICK p \in Procs : Erase(p)
    <3>1. ASSUME NEW p \in Procs, Start(p) PROVE FALSE
      BY <2>2, <3>1 DEF Start, StartCancel, StartReject, StartApprove, StartRetry, StartOnBehalf
    <3>2. ASSUME NEW p \in Procs, Step(p), ~Erase(p) PROVE FALSE
      BY <2>2, <3>2 DEF Step, Withdraw, Approve, Refused, Find, Skip, LoadUser, Begin,
                        Complete, Tell, OnBehalf
    <3>3. ASSUME NEW p \in Procs, Throw(p) \/ Kill(p) PROVE FALSE
      BY <2>2, <3>3 DEF Throw, Kill
    <3>4. ASSUME NEW p \in Procs, NEW r \in Ids, StartJob(p, r) PROVE FALSE
      BY <2>2, <3>4 DEF StartJob
    <3>5. ASSUME NEW u \in People, Join(u) \/ Leave(u) \/ Transfer(u) PROVE FALSE
      BY <2>1, <3>5 DEF Join, Leave, Transfer
    <3>6. ASSUME NEW u \in People, NEW r \in Ids, Ask(u, r) PROVE FALSE
      BY <2>2, <3>6 DEF Ask
    <3>7. ASSUME NEW r \in Ids, Confirm(r) PROVE FALSE
      BY <2>2, <3>7 DEF Confirm
    <3>8. ASSUME UNCHANGED vars PROVE FALSE
      BY <2>2, <3>8 DEF vars
    <3> QED BY <3>1, <3>2, <3>3, <3>4, <3>5, <3>6, <3>7, <3>8 DEF Next
  <2> DEFINE u == asked[about[p]]
             rest == live \ {u}
             others == IF mem[p].owner THEN rest ELSE {}
  <2>4. /\ live' = live \ (others \cup {u})
        /\ work' = (work /\ others = {} /\ rest # {})
    BY <2>3 DEF Erase, Gone
  <2>5. others # {} \/ rest = {}
    BY <2>1, <2>4
  <2>6. live' = {}
    BY <2>4, <2>5
  <2> QED BY <2>6
<1> QED BY <1>1, PTL DEF Spec, WorkGoesWithTheLast

-----------------------------------------------------------------------------
(* The goodbye. Whoever a request erased and has not told is remembered:   *)
(* by a run that has erased and knows the address, or in the row and by    *)
(* every run of the request. The kills counted in `cut` apart, nothing     *)
(* forgets them.                                                           *)

Before == {"user", "begin", "erase"}
Owing(r) == r \in made /\ erasedBy[asked[r]] = r /\ asked[r] \notin told
AtWork(p, r) == about[p] = r /\ at[p] \in Body

Teller(r) == \E p \in Procs : AtWork(p, r) /\ at[p] \in {"complete", "tell"} /\ mem[p].kept
Waiting(r) == note[r] /\ status[r] # "completed" /\ \A p \in Procs : AtWork(p, r) => mem[p].kept
Promised(r) == Owing(r) /\ r \notin cut => Teller(r) \/ Waiting(r)

\* A run that is alone knows what the row says until it completes it.
OnceAtATime(r) ==
  /\ \A p, q \in Procs : AtWork(p, r) /\ AtWork(q, r) => p = q
  /\ \A p \in Procs : AtWork(p, r) /\ at[p] # "tell" => /\ mem[p].kept = note[r]
                                                       /\ status[r] # "completed"

Goodbye(r) == /\ r \in approved => status[r] \notin {"requested", "confirmed"}
              /\ r \notin overlapped => OnceAtATime(r)
              /\ Promised(r)

\* A run that found no address found nobody left to erase.
Reaches(p) == at[p] \in {"begin", "erase"} => mem[p].address \/ asked[about[p]] \in erased

GoodbyeInv == /\ ErasureInv
              /\ \A r \in Ids : Goodbye(r)
              /\ \A p \in Procs : Reaches(p)

Idles(p) == at'[p] = at[p] /\ about'[p] = about[p] /\ mem'[p] = mem[p]
Leaves(p) == /\ at'[p] \notin Body
             /\ at[p] \in {"complete", "tell"} /\ mem[p].kept =>
                  \/ asked[about[p]] \in told' \/ about[p] \in cut'
                  \/ at[p] = "complete" /\ about[p] \notin overlapped
GoesOn(p) == {at[p], at'[p]} \subseteq Before /\ about'[p] = about[p] /\ mem'[p].kept = mem[p].kept

\* A request that no process took in hand or finished.
LEMMA GoodbyeKept ==
  ASSUME NEW r \in Ids, Goodbye(r), note'[r] = note[r],
         r \in approved' => status'[r] \notin {"requested", "confirmed"},
         status[r] # "completed" => status'[r] # "completed",
         r \in overlapped => r \in overlapped', r \in cut => r \in cut',
         Owing(r)' => Owing(r) /\ asked'[r] = asked[r],
         \A p \in Procs : \/ Idles(p) \/ Leaves(p) \/ GoesOn(p)
                          \/ about'[p] = about[p] /\ about[p] # r
  PROVE  Goodbye(r)'
<1>1. r \notin overlapped => OnceAtATime(r) BY DEF Goodbye
<1>2. ASSUME NEW p \in Procs, about'[p] = r, at'[p] \in Body
      PROVE  /\ AtWork(p, r) /\ mem'[p].kept = mem[p].kept
             /\ at'[p] = at[p] \/ {at[p], at'[p]} \subseteq Before
  BY <1>2 DEF Idles, Leaves, GoesOn, AtWork, Before, Body
<1>3. ASSUME r \notin overlapped' PROVE OnceAtATime(r)'
  <2>1. OnceAtATime(r) BY <1>1, <1>3
  <2>2. \A p, q \in Procs : (AtWork(p, r))' /\ (AtWork(q, r))' => p = q
    BY <1>2, <2>1 DEF OnceAtATime, AtWork
  <2>3. ASSUME NEW p \in Procs, (AtWork(p, r))', at'[p] # "tell"
        PROVE  mem'[p].kept = note'[r] /\ status'[r] # "completed"
    <3>1. AtWork(p, r) /\ mem'[p].kept = mem[p].kept /\ at[p] # "tell"
      BY <1>2, <2>3 DEF AtWork, Before
    <3> QED BY <2>1, <3>1 DEF OnceAtATime
  <2> QED BY <2>2, <2>3 DEF OnceAtATime
<1>4. ASSUME Owing(r)', r \notin cut' PROVE Teller(r)' \/ Waiting(r)'
  <2>1. Owing(r) /\ asked'[r] = asked[r] /\ (Teller(r) \/ Waiting(r))
    BY <1>4 DEF Goodbye, Promised
  <2>2. CASE Waiting(r)
    BY <1>2, <2>2 DEF Waiting, AtWork
  <2>3. CASE Teller(r)
    <3>1. PICK p \in Procs : /\ about[p] = r /\ at[p] \in Body /\ mem[p].kept
                             /\ at[p] \in {"complete", "tell"}
      BY <2>3 DEF Teller, AtWork
    <3>2. CASE Idles(p)
      BY <3>1, <3>2 DEF Idles, Teller, AtWork
    <3>3. CASE Leaves(p)
      <4>1. asked[r] \notin told' BY <1>4, <2>1 DEF Owing
      <4>2. at[p] = "complete" /\ r \notin overlapped BY <1>4, <3>1, <3>3, <4>1 DEF Leaves
      <4>3. OnceAtATime(r) /\ AtWork(p, r) BY <1>1, <3>1, <4>2 DEF AtWork
      <4>4. note'[r] /\ status'[r] # "completed" BY <3>1, <4>2, <4>3 DEF OnceAtATime
      <4>5. \A q \in Procs : AtWork(q, r) => q = p BY <4>3 DEF OnceAtATime
      <4>6. at'[p] \notin Body BY <3>3 DEF Leaves
      <4>7. \A q \in Procs : ~(about'[q] = r /\ at'[q] \in Body) BY <1>2, <4>5, <4>6
      <4> QED BY <4>4, <4>7 DEF Waiting, AtWork
    <3> QED BY <3>1, <3>2, <3>3 DEF GoesOn, Before
  <2> QED BY <2>1, <2>2, <2>3
<1> QED BY <1>3, <1>4 DEF Goodbye, Promised

\* What nobody approved is in no run's hands and has erased nobody.
UnapprovedAtRest == \A r \in Ids \ approved : Goodbye(r)
LEMMA UnapprovedOwesNothing == ErasureInv => UnapprovedAtRest
<1> SUFFICES ASSUME ErasureInv, NEW r \in Ids \ approved PROVE Goodbye(r)
  BY DEF UnapprovedAtRest
<1>1. \A p \in Procs : ~AtWork(p, r) BY DEF AtWork, ErasureInv, Knows
<1>2. ~Owing(r)
  <2> SUFFICES ASSUME Owing(r) PROVE FALSE OBVIOUS
  <2>1. asked[r] # None /\ asked[r] \in People /\ erasedBy[asked[r]] = r
    BY InHand DEF Owing, made, RowTypes, PeopleTypes
  <2>2. asked[r] \in erased BY <2>1 DEF erased, Ids
  <2> QED BY <2>1, <2>2 DEF ErasureInv, Consented
<1> QED BY <1>1, <1>2 DEF Goodbye, OnceAtATime, Promised

\* Nobody becomes owed by a step that erases nobody.
LEMMA OwingKept ==
  ASSUME GoodbyeInv, ErasureInv', \A r \in made : asked'[r] = asked[r], erasedBy' = erasedBy,
         told \subseteq told', NEW r \in Ids, r \in approved', Owing(r)'
  PROVE  Owing(r) /\ asked'[r] = asked[r]
<1>1. r \in made' /\ erasedBy[asked'[r]] = r /\ asked'[r] \notin told BY DEF Owing
<1>2. asked'[r] # None /\ asked'[r] \in People
  BY <1>1 DEF made, ErasureInv, TypeOK
<1>3. asked'[r] \in erased BY <1>1, <1>2 DEF erased
<1>4. r \in made BY <1>1, <1>2, <1>3 DEF GoodbyeInv, ErasureInv, Consented, TypeOK
<1> QED BY <1>1, <1>4 DEF Owing

\* A step that erases nobody and takes nothing in hand.
LEMMA GoodbyeQuiet ==
  ASSUME GoodbyeInv, ErasureInv', \A r \in made : asked'[r] = asked[r], erasedBy' = erasedBy,
         note' = note, told \subseteq told', cut \subseteq cut', overlapped' = overlapped,
         \A r \in approved' : status'[r] \notin {"requested", "confirmed"},
         \A r \in Ids : status[r] # "completed" => status'[r] # "completed",
         \A p \in Procs : Idles(p) \/ Leaves(p) \/ GoesOn(p)
  PROVE  \A r \in Ids : Goodbye(r)'
<1> SUFFICES ASSUME NEW r \in Ids PROVE Goodbye(r)'
  OBVIOUS
<1>1. CASE r \notin approved'
  <2>1. UnapprovedAtRest' BY UnapprovedOwesNothing, PTL
  <2> QED BY <1>1, <2>1 DEF UnapprovedAtRest
<1>2. CASE r \in approved'
  <2>1. Owing(r)' => Owing(r) /\ asked'[r] = asked[r] BY <1>2, OwingKept
  <2>2. Goodbye(r) BY DEF GoodbyeInv
  <2> QED BY <1>2, <2>1, <2>2, GoodbyeKept
<1> QED BY <1>1, <1>2

LEMMA ReachesKept ==
  ASSUME GoodbyeInv, \A r \in made : asked'[r] = asked[r], erased \subseteq erased',
         NEW p \in Procs, Idles(p)
  PROVE  Reaches(p)'
<1>1. Reaches(p) /\ Knows(p) BY DEF GoodbyeInv, ErasureInv
<1>2. at[p] \in {"begin", "erase"} => about[p] \in made BY <1>1 DEF Knows, OnRow, Body
<1> QED BY <1>1, <1>2 DEF Reaches, Idles

LEMMA QuietStep ==
  ASSUME GoodbyeInv, ErasureInv', \A r \in made : asked'[r] = asked[r], erasedBy' = erasedBy,
         note' = note, told \subseteq told', cut \subseteq cut', overlapped' = overlapped,
         \A r \in approved' : status'[r] \notin {"requested", "confirmed"},
         \A r \in Ids : status[r] # "completed" => status'[r] # "completed",
         \A p \in Procs : Idles(p) \/ Leaves(p) \/ (GoesOn(p) /\ Reaches(p)')
  PROVE  GoodbyeInv'
<1>1. \A r \in Ids : Goodbye(r)' BY GoodbyeQuiet
<1>2. ASSUME NEW p \in Procs PROVE Reaches(p)'
  <2>1. erased' = erased BY DEF erased
  <2>2. CASE Idles(p) BY <2>1, <2>2, ReachesKept
  <2>3. CASE Leaves(p) BY <2>3 DEF Leaves, Reaches, Body
  <2> QED BY <2>2, <2>3
<1> QED BY <1>1, <1>2 DEF GoodbyeInv

\* What decisions and runs write in a row, other than that it is done.
LEMMA WritesFine ==
  ASSUME GoodbyeInv, NEW r \in made, NEW new \in {"withdrawn", "approved", "processing", "failed"},
         status' = status \/ Writes(r, new),
         approved' = approved \/ (approved' = approved \cup {r} /\ Writes(r, new))
  PROVE  /\ \A q \in approved' : status'[q] \notin {"requested", "confirmed"}
         /\ \A q \in Ids : status[q] # "completed" => status'[q] # "completed"
<1>1. RowTypes /\ PeopleTypes /\ r \in Ids BY InHand DEF GoodbyeInv, made
<1>2. approved \subseteq Ids /\ \A q \in approved : status[q] \notin {"requested", "confirmed"}
  BY <1>1 DEF GoodbyeInv, Goodbye, PeopleTypes, made
<1>3. \A q \in Ids : status'[q] = status[q] \/ status'[q] = new
  BY <1>1 DEF Writes, RowTypes
<1>4. Writes(r, new) => status'[r] = new BY <1>1 DEF Writes, RowTypes
<1> QED BY <1>1, <1>2, <1>3, <1>4

LEMMA PagesGoodbye ==
  ASSUME GoodbyeInv, ErasureInv', NEW p \in Procs, Start(p) \/ Refused(p) \/ Skip(p)
  PROVE  GoodbyeInv'
<1>1. ProcTypes BY InHand DEF GoodbyeInv
<1>2. UNCHANGED <<workspace, rows, jobs, faults, history>>
  BY DEF Start, StartCancel, StartReject, StartApprove, StartRetry, StartOnBehalf, Refused, Skip
<1>3. UNCHANGED <<asked, status, note, approved, erasedBy, overlapped, told, cut>>
  BY <1>2 DEF rows, history
<1>4. (\E kind \in Kinds : \E x : Loads(p, kind, x, Blank)) \/ (Ends(p) /\ at[p] \in {"start", "find"})
  BY DEF Start, StartCancel, StartReject, StartApprove, StartRetry, StartOnBehalf, Refused, Skip,
         Kinds
<1>5. Leaves(p) /\ \A q \in Procs \ {p} : Idles(q)
  BY <1>1, <1>4 DEF Loads, Ends, Leaves, Idles, ProcTypes, Kinds, Body
<1>6. \A r \in approved : status[r] \notin {"requested", "confirmed"}
  BY InHand DEF GoodbyeInv, Goodbye, PeopleTypes, made
<1> QED BY <1>3, <1>5, <1>6, QuietStep

\* Decisions, and what takes a run out of somebody's hands.
LEMMA LeavesGoodbye ==
  ASSUME GoodbyeInv, ErasureInv', NEW p \in Procs,
         Withdraw(p) \/ Approve(p) \/ Throw(p) \/ Kill(p) \/ Tell(p)
  PROVE  GoodbyeInv'
<1>1. ProcTypes /\ about[p] \in made
  <2>1. at[p] \in OnRow BY DEF Withdraw, Approve, Throw, Kill, Tell, OnRow, Body, ErasureAssumption
  <2> QED BY <2>1, InHand DEF GoodbyeInv
<1>2. UNCHANGED <<asked, note, erasedBy, overlapped>> /\ told \subseteq told' /\ cut \subseteq cut'
  BY DEF Withdraw, Approve, Throw, Kill, Tell, rows, history
<1>3. PICK new \in {"withdrawn", "approved", "processing", "failed"} :
        /\ status' = status \/ Writes(about[p], new)
        /\ approved' = approved \/ (approved' = approved \cup {about[p]} /\ Writes(about[p], new))
  BY DEF Withdraw, Approve, Throw, Kill, Tell, rows, history
<1>4. /\ \A q \in approved' : status'[q] \notin {"requested", "confirmed"}
      /\ \A q \in Ids : status[q] # "completed" => status'[q] # "completed"
  BY <1>1, <1>3, WritesFine
<1>5. Leaves(p)
  <2>1. at'[p] \in {"idle", "find"}
    BY <1>1 DEF Withdraw, Approve, Throw, Kill, Tell, Ends, RunsNow, ProcTypes
  <2>2. at[p] \in {"complete", "tell"} => Tell(p) \/ Kill(p)
    BY DEF Withdraw, Approve, Throw, Kill, Tell
  <2>3. Tell(p) /\ mem[p].kept => asked[about[p]] \in told' BY DEF Tell
  <2>4. Kill(p) /\ TakesAlong(p) => about[p] \in cut' BY DEF Kill
  <2> QED BY <2>1, <2>2, <2>3, <2>4 DEF Leaves, Body, TakesAlong
<1>6. \A q \in Procs \ {p} : Idles(q)
  BY <1>1 DEF Withdraw, Approve, Throw, Kill, Tell, Ends, RunsNow, ProcTypes, Idles
<1> QED BY <1>2, <1>4, <1>5, <1>6, QuietStep

LEMMA StartJobGoodbye ==
  ASSUME GoodbyeInv, ErasureInv', NEW p \in Procs, NEW r \in Ids, StartJob(p, r)
  PROVE  GoodbyeInv'
<1>1. ProcTypes BY InHand DEF GoodbyeInv
<1>2. UNCHANGED <<asked, status, note, approved, erasedBy, overlapped, told, cut>>
  BY DEF StartJob, rows, history
<1>3. Leaves(p) /\ \A q \in Procs \ {p} : Idles(q)
  BY <1>1 DEF StartJob, Leaves, Idles, ProcTypes, Body
<1>4. \A q \in approved : status[q] \notin {"requested", "confirmed"}
  BY InHand DEF GoodbyeInv, Goodbye, PeopleTypes, made
<1> QED BY <1>2, <1>3, <1>4, QuietStep

\* A new row owes nobody a goodbye yet.
LEMMA NewRowGoodbye ==
  ASSUME GoodbyeInv, ErasureInv', NEW u \in People, NEW r \in Ids,
         Ask(u, r) \/ \E p \in Procs : OnBehalf(p, r) /\ about[p] = u
  PROVE  GoodbyeInv'
<1>1. ProcTypes /\ RowTypes /\ PeopleTypes /\ ErasureInv BY InHand DEF GoodbyeInv
<1>2. PICK new \in {"requested", "confirmed", "approved"} :
        /\ r = Cardinality(made) + 1 /\ asked' = [asked EXCEPT ![r] = u] /\ Writes(r, new)
        /\ approved' = IF new = "approved" THEN approved \cup {r} ELSE approved
        /\ UNCHANGED <<note, erasedBy, overlapped, told, cut>>
  BY DEF Ask, OnBehalf
<1>3. r \notin made BY <1>1, <1>2, NextNumber
<1>4. \A q \in made : asked'[q] = asked[q] BY <1>1, <1>2, <1>3 DEF RowTypes, made
<1>5. \A q \in approved : q \in Ids /\ q # r /\ status[q] \notin {"requested", "confirmed"}
  BY <1>1, <1>3 DEF GoodbyeInv, Goodbye, PeopleTypes, made
<1>6. /\ status'[r] = new /\ status[r] = "none"
      /\ \A q \in Ids \ {r} : status'[q] = status[q]
  BY <1>1, <1>2, <1>3 DEF Writes, RowTypes
<1>7. \A q \in Procs : Idles(q) \/ Leaves(q)
  <2>1. CASE Ask(u, r) BY <2>1 DEF Ask, Idles
  <2>2. CASE \E p \in Procs : OnBehalf(p, r) /\ about[p] = u
    <3>1. PICK p \in Procs : OnBehalf(p, r) /\ about[p] = u BY <2>2
    <3>2. \A q \in Procs \ {p} : Idles(q) BY <1>1, <3>1 DEF OnBehalf, RunsNow, ProcTypes, Idles
    <3>3. Leaves(p) BY <1>1, <3>1 DEF OnBehalf, RunsNow, ProcTypes, Leaves, Body
    <3> QED BY <3>2, <3>3
  <2> QED BY <2>1, <2>2
<1>8. \A q \in approved' : status'[q] \notin {"requested", "confirmed"}
  BY <1>2, <1>5, <1>6
<1>9. \A q \in Ids : status[q] # "completed" => status'[q] # "completed"
  BY <1>6
<1> QED BY <1>2, <1>4, <1>7, <1>8, <1>9, QuietStep

LEMMA PeopleGoodbye ==
  ASSUME GoodbyeInv, ErasureInv',
         \/ \E u \in People : Join(u) \/ Leave(u) \/ Transfer(u)
         \/ \E r \in Ids : Confirm(r)
         \/ UNCHANGED vars
  PROVE  GoodbyeInv'
<1>1. RowTypes /\ PeopleTypes BY InHand DEF GoodbyeInv
<1>2. UNCHANGED <<asked, note, approved, erasedBy, overlapped, told, cut, at, about, mem>>
  BY DEF Join, Leave, Transfer, Confirm, vars, rows, history
<1>3. \A q \in approved : status[q] \notin {"requested", "confirmed"} /\ q \in Ids
  BY <1>1 DEF GoodbyeInv, Goodbye, PeopleTypes, made
<1>4. \A q \in Ids : \/ status'[q] = status[q]
                     \/ status[q] = "requested" /\ status'[q] = "confirmed"
  BY <1>1 DEF Join, Leave, Transfer, Confirm, Writes, vars, rows, RowTypes
<1>5. \A q \in Procs : Idles(q) BY <1>2 DEF Idles
<1>6. \A q \in approved' : status'[q] \notin {"requested", "confirmed"} BY <1>2, <1>3, <1>4
<1>7. \A q \in Ids : status[q] # "completed" => status'[q] # "completed" BY <1>4
<1> QED BY <1>2, <1>5, <1>6, <1>7, QuietStep

LEMMA OnwardGoodbye ==
  ASSUME GoodbyeInv, ErasureInv', NEW p \in Procs, LoadUser(p) \/ Begin(p)
  PROVE  GoodbyeInv'
<1>1. ProcTypes /\ about[p] \in made
  <2>1. at[p] \in OnRow BY DEF LoadUser, Begin, OnRow, Body
  <2> QED BY <2>1, InHand DEF GoodbyeInv
<1>2. UNCHANGED <<asked, note, approved, erasedBy, overlapped, told, cut, about>>
  BY DEF LoadUser, Begin, rows, history
<1>3. status' = status \/ Writes(about[p], "processing") BY DEF LoadUser, Begin, rows
<1>4. /\ \A q \in approved' : status'[q] \notin {"requested", "confirmed"}
      /\ \A q \in Ids : status[q] # "completed" => status'[q] # "completed"
  BY <1>1, <1>2, <1>3, WritesFine
<1>5. \A q \in Procs \ {p} : Idles(q)
  BY <1>1 DEF LoadUser, Begin, ProcTypes, Idles
<1>6. GoesOn(p) /\ Reaches(p)'
  <2>1. CASE LoadUser(p)
    <3>1. /\ at'[p] = "begin" /\ at[p] = "user"
          /\ mem'[p] = [mem[p] EXCEPT !.address = asked[about[p]] \notin erased,
                                      !.owner = asked[about[p]] = owner]
      BY <1>1, <2>1 DEF LoadUser, ProcTypes
    <3>2. mem'[p].kept = mem[p].kept /\ mem'[p].address = (asked[about[p]] \notin erased)
      BY <1>1, <3>1 DEF ProcTypes, Mem
    <3>3. erased' = erased BY <1>2 DEF erased
    <3> QED BY <1>2, <3>1, <3>2, <3>3 DEF GoesOn, Reaches, Before
  <2>2. CASE Begin(p)
    <3>1. at'[p] = "erase" /\ at[p] = "begin" /\ mem' = mem BY <1>1, <2>2 DEF Begin, ProcTypes
    <3>2. Reaches(p) /\ erased' = erased BY <1>2 DEF GoodbyeInv, erased
    <3> QED BY <1>2, <3>1, <3>2 DEF GoesOn, Reaches, Before
  <2> QED BY <2>1, <2>2
<1> QED BY <1>2, <1>4, <1>5, <1>6, QuietStep

LEMMA FindGoodbye ==
  ASSUME GoodbyeInv, ErasureInv', NEW p \in Procs, Find(p)
  PROVE  GoodbyeInv'
<1>1. PICK r \in Ids : ProcTypes /\ RowTypes /\ r \in made /\ r = about[p] /\ at[p] = "find"
  BY InHand DEF GoodbyeInv, Find, OnRow
<1>2. UNCHANGED <<asked, status, note, approved, erasedBy, told, cut, about>>
      /\ overlapped' = IF Running(r) = {} THEN overlapped ELSE overlapped \cup {r}
  BY <1>1 DEF Find, rows
<1>3. \A q \in Procs \ {p} : Idles(q) BY <1>1 DEF Find, ProcTypes, Idles
<1>4. /\ at'[p] = "user" /\ mem'[p].kept = note[r] /\ status[r] \in Runnable
  <2>1. mem'[p] = [mem[p] EXCEPT !.status = status[r], !.kept = note[r]]
    BY <1>1 DEF Find, ProcTypes
  <2> QED BY <1>1, <2>1 DEF Find, ProcTypes, Mem
<1>5. \A q \in Procs : Reaches(q)'
  <2>1. erased' = erased BY <1>2 DEF erased
  <2> QED BY <1>2, <1>3, <1>4, <2>1, ReachesKept DEF Reaches
<1>6. \A q \in Ids : Owing(q)' => Owing(q) /\ asked'[q] = asked[q]
  BY <1>2 DEF Owing, made
<1>7. \A q \in Ids : Goodbye(q) BY DEF GoodbyeInv
<1>8. ASSUME NEW q \in Ids \ {r} PROVE Goodbye(q)'
  <2>1. about'[p] = about[p] /\ about[p] # q BY <1>1, <1>2
  <2>2. /\ q \in overlapped => q \in overlapped'
        /\ cut' = cut
        /\ q \in approved' => status'[q] \notin {"requested", "confirmed"}
        /\ note'[q] = note[q] /\ status'[q] = status[q]
    BY <1>2, <1>7 DEF Goodbye
  <2> QED BY <1>3, <1>6, <1>7, <2>1, <2>2, GoodbyeKept
<1>9. ASSUME r \notin overlapped' PROVE OnceAtATime(r)'
  <2>1. Running(r) = {} BY <1>1, <1>2, <1>9
  <2>2. \A q \in Procs \ {p} : ~(about'[q] = r /\ at'[q] \in Body)
    BY <1>3, <2>1 DEF Running, Idles
  <2>3. (\A q, q2 \in Procs : AtWork(q, r) /\ AtWork(q2, r) => q = q2)'
    BY <1>2, <2>2 DEF AtWork
  <2>4. \A q \in Procs : about'[q] = r /\ at'[q] \in Body =>
          mem'[q].kept = note'[r] /\ status'[r] # "completed"
    BY <1>2, <1>4, <2>2 DEF Runnable
  <2> QED BY <2>3, <2>4 DEF OnceAtATime, AtWork
<1>10. ASSUME Owing(r)', r \notin cut' PROVE Teller(r)' \/ Waiting(r)'
  <2>1. Teller(r) \/ Waiting(r) BY <1>1, <1>2, <1>6, <1>7, <1>10 DEF Goodbye, Promised
  <2>2. CASE Teller(r)
    <3>1. PICK q \in Procs : AtWork(q, r) /\ at[q] \in {"complete", "tell"} /\ mem[q].kept
      BY <2>2 DEF Teller
    <3>2. Idles(q) BY <1>1, <1>3, <3>1
    <3> QED BY <3>1, <3>2 DEF Teller, AtWork, Idles
  <2>3. CASE Waiting(r)
    <3>1. \A q \in Procs : about'[q] = r /\ at'[q] \in Body => mem'[q].kept
      BY <1>2, <1>3, <1>4, <2>3 DEF Waiting, AtWork, Idles
    <3> QED BY <1>2, <2>3, <3>1 DEF Waiting, AtWork
  <2> QED BY <2>1, <2>2, <2>3
<1>11. Goodbye(r)' BY <1>1, <1>2, <1>7, <1>9, <1>10 DEF Goodbye, Promised
<1> QED BY <1>5, <1>8, <1>11 DEF GoodbyeInv

LEMMA CompleteGoodbye ==
  ASSUME GoodbyeInv, ErasureInv', NEW p \in Procs, Complete(p)
  PROVE  GoodbyeInv'
<1>1. PICK r \in Ids : /\ ProcTypes /\ RowTypes /\ r \in made /\ r = about[p]
                       /\ at[p] = "complete" /\ AtWork(p, r)
  BY InHand DEF GoodbyeInv, Complete, OnRow, Body, AtWork
<1>2. UNCHANGED <<asked, approved, erasedBy, told, cut, about, mem, overlapped>>
  BY DEF Complete, history
<1>3. \A q \in Procs \ {p} : Idles(q) BY <1>1, <1>2 DEF Complete, ProcTypes, Idles
<1>4. /\ at'[p] = "tell" /\ status'[r] = "completed"
      /\ \A q \in Ids \ {r} : status'[q] = status[q] /\ note'[q] = note[q]
  BY <1>1 DEF Complete, ProcTypes, RowTypes, Writes
<1>5. \A q \in Procs : Reaches(q)'
  <2>1. erased' = erased BY <1>2 DEF erased
  <2> QED BY <1>2, <1>3, <1>4, <2>1, ReachesKept DEF Reaches
<1>6. \A q \in Ids : Owing(q)' => Owing(q) /\ asked'[q] = asked[q]
  BY <1>2 DEF Owing, made
<1>7. \A q \in Ids : Goodbye(q) BY DEF GoodbyeInv
<1>8. ASSUME NEW q \in Ids \ {r} PROVE Goodbye(q)'
  <2>1. about'[p] = about[p] /\ about[p] # q BY <1>1, <1>2
  <2>2. q \in approved' => status'[q] \notin {"requested", "confirmed"}
    BY <1>2, <1>4, <1>7 DEF Goodbye
  <2> QED BY <1>2, <1>3, <1>4, <1>6, <1>7, <2>1, <2>2, GoodbyeKept
<1>9. ASSUME r \notin overlapped' PROVE OnceAtATime(r)'
  <2>1. OnceAtATime(r) BY <1>1, <1>2, <1>7, <1>9 DEF Goodbye
  <2>2. \A q \in Procs \ {p} : ~(about'[q] = r /\ at'[q] \in Body)
    BY <1>1, <1>3, <2>1 DEF OnceAtATime, AtWork, Idles
  <2>3. (\A q, q2 \in Procs : AtWork(q, r) /\ AtWork(q2, r) => q = q2)'
    BY <1>2, <2>2 DEF AtWork
  <2>4. \A q \in Procs : about'[q] = r /\ at'[q] \in Body => at'[q] = "tell"
    BY <1>4, <2>2
  <2> QED BY <2>3, <2>4 DEF OnceAtATime, AtWork
<1>10. ASSUME Owing(r)', r \notin cut' PROVE Teller(r)'
  <2>1. Teller(r) \/ Waiting(r) BY <1>1, <1>2, <1>6, <1>7, <1>10 DEF Goodbye, Promised
  <2>2. PICK q \in Procs : /\ about[q] = r /\ at[q] \in {"complete", "tell"} /\ mem[q].kept
    BY <1>1, <2>1 DEF Teller, Waiting, AtWork
  <2>3. about'[q] = r /\ at'[q] \in {"complete", "tell"} /\ mem'[q].kept
    BY <1>2, <1>3, <1>4, <2>2 DEF Idles
  <2> QED BY <2>3 DEF Teller, AtWork, Body
<1>11. Goodbye(r)' BY <1>1, <1>4, <1>9, <1>10 DEF Goodbye, Promised
<1> QED BY <1>5, <1>8, <1>11 DEF GoodbyeInv

LEMMA EraseGoodbye ==
  ASSUME GoodbyeInv, ErasureInv', NEW p \in Procs, Erase(p)
  PROVE  GoodbyeInv'
<1> DEFINE u == asked[about[p]]
           others == IF mem[p].owner THEN live \ {u} ELSE {}
           known == KnowsAddress(p)
<1>1. PICK r \in Ids :
        /\ ErasureInv /\ ProcTypes /\ RowTypes /\ PeopleTypes /\ r \in made /\ r = about[p]
        /\ at[p] = "erase" /\ AtWork(p, r)
  BY InHand DEF GoodbyeInv, Erase, OnRow, Body, AtWork
<1>2. u # None /\ u \in People /\ r \in approved
  BY <1>1 DEF ErasureInv, Knows, RowTypes, PeopleTypes, made, Body
<1>3. /\ UNCHANGED <<asked, approved, told, cut, about, overlapped>>
      /\ status' = [q \in Ids |-> IF q \in Honoured(others) THEN "completed" ELSE status[q]]
      /\ \A v \in People : \/ erasedBy'[v] = erasedBy[v]
                           \/ erasedBy[v] = None /\ erasedBy'[v] = r
      /\ note' = IF known = mem[p].kept THEN note ELSE [note EXCEPT ![r] = known]
  BY <1>1 DEF Erase
<1>4. \A q \in Procs \ {p} : Idles(q) BY <1>1, <1>3 DEF Erase, ProcTypes, Idles
<1>5. at'[p] = "complete" /\ mem'[p].kept = known
  <2>1. mem'[p] = [Blank EXCEPT !.job = mem[p].job, !.kept = known, !.goodbye = others]
    BY <1>1 DEF Erase, ProcTypes
  <2> HIDE DEF known, others
  <2> QED BY <1>1, <2>1 DEF Blank, Erase, ProcTypes
<1> HIDE DEF others, known
<1>6. \A q \in approved : status[q] \notin {"requested", "confirmed"} /\ q \in Ids
  BY <1>1 DEF GoodbyeInv, Goodbye, PeopleTypes, made
<1>7. \A q \in approved : status'[q] = status[q] BY <1>3, <1>6 DEF Honoured
<1>8. \A q \in Procs : Reaches(q)'
  <2>1. erased \subseteq erased' BY <1>1, <1>3 DEF erased
  <2> QED BY <1>3, <1>4, <1>5, <2>1, ReachesKept DEF Reaches
<1>9. \A q \in Ids : Goodbye(q) BY DEF GoodbyeInv
<1>10. ASSUME NEW q \in Ids \ approved PROVE Goodbye(q)'
  <2>1. UnapprovedAtRest' BY UnapprovedOwesNothing, PTL
  <2> QED BY <1>3, <2>1 DEF UnapprovedAtRest
<1>11. ASSUME NEW q \in approved \ {r} PROVE Goodbye(q)'
  <2>1. about'[p] = about[p] /\ about[p] # q /\ q \in Ids BY <1>1, <1>3, <1>6
  <2>2. Owing(q)' => Owing(q) /\ asked'[q] = asked[q]
    <3> SUFFICES ASSUME Owing(q)' PROVE Owing(q) BY <1>3
    <3>1. q \in made /\ erasedBy'[asked[q]] = q /\ asked[q] \notin told
      BY <1>3 DEF Owing, made
    <3>2. asked[q] \in People BY <1>1, <3>1 DEF RowTypes, PeopleTypes, made
    <3> QED BY <1>3, <3>1, <3>2 DEF Owing
  <2>3. note'[q] = note[q] BY <1>1, <1>3, <2>1 DEF RowTypes
  <2>4. status'[q] = status[q] /\ status[q] \notin {"requested", "confirmed"} BY <1>6, <1>7
  <2> QED BY <1>3, <1>4, <1>9, <2>1, <2>2, <2>3, <2>4, GoodbyeKept
<1>12. status'[r] = status[r] BY <1>2, <1>7
<1>13. ASSUME r \notin overlapped' PROVE OnceAtATime(r)'
  <2>1. OnceAtATime(r) BY <1>1, <1>3, <1>9, <1>13 DEF Goodbye
  <2>2. \A q \in Procs \ {p} : ~(about'[q] = r /\ at'[q] \in Body)
    BY <1>1, <1>4, <2>1 DEF OnceAtATime, AtWork, Idles
  <2>3. mem[p].kept = note[r] /\ status[r] # "completed"
    BY <1>1, <2>1 DEF OnceAtATime
  <2>4. known = note'[r]
    <3>1. CASE known = mem[p].kept BY <1>3, <2>3, <3>1
    <3>2. CASE known # mem[p].kept BY <1>1, <1>3, <3>2 DEF RowTypes
    <3> QED BY <3>1, <3>2
  <2>5. (\A q, q2 \in Procs : AtWork(q, r) /\ AtWork(q2, r) => q = q2)'
    BY <1>3, <2>2 DEF AtWork
  <2>6. \A q \in Procs : about'[q] = r /\ at'[q] \in Body =>
          mem'[q].kept = note'[r] /\ status'[r] # "completed"
    BY <1>5, <1>12, <2>2, <2>3, <2>4
  <2> QED BY <2>5, <2>6 DEF OnceAtATime, AtWork
<1>14. ASSUME Owing(r)', r \notin cut' PROVE Teller(r)'
  <2>1. CASE u \in erased
    <3>1. erasedBy[u] # None BY <2>1 DEF erased
    <3>2. Owing(r) BY <1>1, <1>2, <1>3, <1>14, <3>1 DEF Owing, made
    <3>3. Teller(r) \/ Waiting(r) BY <1>1, <1>3, <1>9, <1>14, <3>2 DEF Goodbye, Promised
    <3>4. CASE Teller(r)
      <4>1. PICK q \in Procs : AtWork(q, r) /\ at[q] \in {"complete", "tell"} /\ mem[q].kept
        BY <3>4 DEF Teller
      <4>2. Idles(q) BY <1>1, <1>4, <4>1
      <4> QED BY <4>1, <4>2 DEF Teller, AtWork, Idles
    <3>5. CASE Waiting(r)
      <4>1. known BY <1>1, <3>5 DEF Waiting, known, KnowsAddress
      <4>2. about'[p] = r /\ at'[p] = "complete" /\ mem'[p].kept BY <1>1, <1>3, <1>5, <4>1
      <4> QED BY <4>2 DEF Teller, AtWork, Body
    <3> QED BY <3>3, <3>4, <3>5
  <2>2. CASE u \notin erased
    <3>1. mem[p].address BY <1>1, <2>2 DEF GoodbyeInv, Reaches
    <3>2. known BY <3>1 DEF known, KnowsAddress
    <3>3. about'[p] = r /\ at'[p] = "complete" /\ mem'[p].kept BY <1>1, <1>3, <1>5, <3>2
    <3> QED BY <3>3 DEF Teller, AtWork, Body
  <2> QED BY <2>1, <2>2
<1>15. Goodbye(r)' BY <1>2, <1>3, <1>6, <1>12, <1>13, <1>14 DEF Goodbye, Promised
<1> QED BY <1>8, <1>10, <1>11, <1>15 DEF GoodbyeInv

LEMMA GoodbyeStep ==
  ASSUME GoodbyeInv, ErasureInv', [Next]_vars
  PROVE  GoodbyeInv'
<1>1. ASSUME NEW p \in Procs, Start(p) \/ Refused(p) \/ Skip(p) PROVE GoodbyeInv'
  BY <1>1, PagesGoodbye
<1>2. ASSUME NEW p \in Procs, Withdraw(p) \/ Approve(p) \/ Throw(p) \/ Kill(p) \/ Tell(p)
      PROVE  GoodbyeInv'
  BY <1>2, LeavesGoodbye
<1>3. ASSUME NEW p \in Procs, NEW r \in Ids, StartJob(p, r) PROVE GoodbyeInv'
  BY <1>3, StartJobGoodbye
<1>4. ASSUME NEW p \in Procs, NEW r \in Ids, OnBehalf(p, r) PROVE GoodbyeInv'
  <2>1. about[p] \in People
    BY <1>4, InHand DEF GoodbyeInv, OnBehalf, Knows, PeopleTypes
  <2> QED BY <1>4, <2>1, NewRowGoodbye
<1>5. ASSUME NEW u \in People, NEW r \in Ids, Ask(u, r) PROVE GoodbyeInv'
  BY <1>5, NewRowGoodbye
<1>6. ASSUME NEW p \in Procs, LoadUser(p) \/ Begin(p) PROVE GoodbyeInv'
  BY <1>6, OnwardGoodbye
<1>7. ASSUME NEW p \in Procs, Find(p) \/ Complete(p) \/ Erase(p) PROVE GoodbyeInv'
  BY <1>7, FindGoodbye, CompleteGoodbye, EraseGoodbye
<1> QED BY <1>1, <1>2, <1>3, <1>4, <1>5, <1>6, <1>7, PeopleGoodbye DEF Next, Step

(* Whoever a completed request erased is told once nobody has it in hand,  *)
(* wherever its runs overlap, throw and are killed (process(): the address *)
(* kept in the row), but for the two kills that take the mail along.       *)
THEOREM GoodbyeHolds == Spec => []GoodbyeIsSaid
<1>1. Init => GoodbyeInv
  <2> SUFFICES ASSUME Init PROVE GoodbyeInv OBVIOUS
  <2>1. ErasureInv BY InitSafe
  <2>2. approved = {} /\ \A p \in Procs : at[p] = "idle" BY DEF Init
  <2>3. UnapprovedAtRest BY <2>1, UnapprovedOwesNothing
  <2> QED BY <2>1, <2>2, <2>3 DEF GoodbyeInv, UnapprovedAtRest, Reaches
<1>2. GoodbyeInv /\ [Next]_vars => GoodbyeInv'
  <2>1. GoodbyeInv => ErasureInv BY DEF GoodbyeInv
  <2> QED BY <2>1, StepSafe, GoodbyeStep
<1>3. GoodbyeInv => GoodbyeIsSaid
  <2> SUFFICES ASSUME GoodbyeInv, NEW r \in made \ cut, status[r] = "completed", AtRest(r),
                      erasedBy[asked[r]] = r
               PROVE  asked[r] \in told
    BY DEF GoodbyeIsSaid
  <2>1. Promised(r) BY DEF GoodbyeInv, Goodbye, made
  <2>2. ~Teller(r) /\ ~Waiting(r) BY DEF Teller, Waiting, AtWork, AtRest
  <2> QED BY <2>1, <2>2 DEF Promised, Owing
<1> QED BY <1>1, <1>2, <1>3, PTL DEF Spec
=============================================================================
