-------------------------- MODULE WorkspaceProofs --------------------------
(***************************************************************************)
(* Seats and invitations for every workspace: any number of people,        *)
(* invitations, limits and overlapping requests of any kind. The locks are *)
(* what the argument rests on. A transaction that has locked the workspace *)
(* row and counted can only see the count fall until it commits (Guarded), *)
(* because every step that adds a seat needs that lock; and the rows it    *)
(* has locked nobody else revokes (Disjoint).                              *)
(***************************************************************************)
EXTENDS Workspace, FiniteSetTheorems, TLAPS

USE WorkspaceAssumption

-----------------------------------------------------------------------------
(* Counting.                                                               *)

LEMMA CardSubset ==
  ASSUME NEW A, NEW B, IsFiniteSet(A), B \subseteq A
  PROVE  /\ IsFiniteSet(B)
         /\ Cardinality(A) \in Nat /\ Cardinality(B) \in Nat
         /\ Cardinality(B) <= Cardinality(A)
<1>1. B \in SUBSET A OBVIOUS
<1>2. IsFiniteSet(B) /\ Cardinality(B) <= Cardinality(A) BY <1>1, FS_Subset
<1> QED BY <1>2, FS_CardinalityType

LEMMA AddOne ==
  ASSUME NEW S, IsFiniteSet(S), NEW x
  PROVE  /\ IsFiniteSet(S \cup {x}) /\ Cardinality(S) \in Nat
         /\ Cardinality(S \cup {x}) <= Cardinality(S) + 1
<1>1. Cardinality(S) \in Nat BY FS_CardinalityType
<1>2. /\ IsFiniteSet(S \cup {x})
      /\ Cardinality(S \cup {x}) = Cardinality(S) \/ Cardinality(S \cup {x}) = Cardinality(S) + 1
  <2>1. CASE x \in S
    <3>1. S \cup {x} = S BY <2>1
    <3> QED BY <3>1
  <2>2. CASE x \notin S BY <2>2, FS_AddElement
  <2> QED BY <2>1, <2>2
<1> QED BY <1>1, <1>2

\* The sets a seat is counted in are finite.
LEMMA Finite ==
  ASSUME TypeOK
  PROVE  /\ IsFiniteSet(live) /\ Cardinality(live) \in Nat
         /\ \A S : S \subseteq Pending => IsFiniteSet(S) /\ Cardinality(S) \in Nat
<1>1. live \subseteq People /\ Pending \subseteq Ids BY DEF TypeOK, Pending, Open
<1>2. ASSUME NEW S, S \subseteq Pending PROVE IsFiniteSet(S) /\ Cardinality(S) \in Nat
  BY <1>1, <1>2, CardSubset
<1> QED BY <1>1, <1>2, CardSubset

LEMMA FinitePrimed ==
  ASSUME TypeOK'
  PROVE  /\ IsFiniteSet(live') /\ Cardinality(live') \in Nat
         /\ \A S : S \subseteq Pending' => IsFiniteSet(S) /\ Cardinality(S) \in Nat
<1>1. live' \subseteq People /\ Pending' \subseteq Ids BY DEF TypeOK, Pending, Open
<1>2. ASSUME NEW S, S \subseteq Pending' PROVE IsFiniteSet(S) /\ Cardinality(S) \in Nat
  BY <1>1, <1>2, CardSubset
<1> QED BY <1>1, <1>2, CardSubset

\* When nobody joins and no invitation opens, no seat is claimed.
LEMMA Shrinks ==
  ASSUME TypeOK, live' \subseteq live, Pending' \subseteq Pending
  PROVE  /\ Used' <= Used
         /\ \A p \in Procs : held'[p] = held[p] => Counts(p)' <= Counts(p)
<1>1. Cardinality(live') <= Cardinality(live) /\ Cardinality(live') \in Nat
      /\ Cardinality(live) \in Nat
  BY Finite, CardSubset
<1>2. ASSUME NEW S, NEW T, S \subseteq Pending, T \subseteq S
      PROVE  /\ Cardinality(T) <= Cardinality(S)
             /\ Cardinality(T) \in Nat /\ Cardinality(S) \in Nat
  BY <1>2, Finite, CardSubset
<1>3. Used' <= Used
  BY <1>1, <1>2 DEF Used
<1>4. ASSUME NEW p \in Procs, held'[p] = held[p]
      PROVE  Counts(p)' <= Counts(p)
  <2>1. (Pending' \ held'[p]) \subseteq Pending \ held[p] BY <1>4
  <2> QED BY <1>1, <1>2, <2>1 DEF Counts
<1> QED BY <1>3, <1>4

-----------------------------------------------------------------------------
(* A request the step is not about keeps what it holds.                    *)

Untouched(q) ==
  /\ at'[q] = at[q] /\ kind'[q] = kind[q] /\ who'[q] = who[q]
  /\ held'[q] = held[q] /\ counted'[q] = counted[q]
  /\ orgLock' = q <=> orgLock = q

LEMMA Frame ==
  ASSUME TypeOK, NEW q \in Procs, Guarded(q), Untouched(q),
         kind[q] = "accept" => held[q] \cap revoked' = {},
         orgLock = q => live' \subseteq live /\ Pending' \subseteq Pending /\ limit' = limit
  PROVE  Guarded(q)'
<1>1. at[q] = "insert" => Counts(q)' <= Counts(q) /\ limit' = limit
  BY Shrinks DEF Untouched, Guarded
<1>2. at[q] = "insert" => /\ Counts(q)' \in Nat /\ Counts(q) \in Nat
                          /\ counted[q] \in Nat /\ limit \in Nat
  <2> SUFFICES ASSUME at[q] = "insert"
               PROVE /\ Counts(q)' \in Nat /\ Counts(q) \in Nat
                     /\ counted[q] \in Nat /\ limit \in Nat
    OBVIOUS
  <2>1. live' \subseteq live /\ Pending' \subseteq Pending BY DEF Guarded
  <2>2. Cardinality(live') \in Nat /\ Cardinality(live) \in Nat BY <2>1, Finite, CardSubset
  <2>3. Cardinality(Pending \ held[q]) \in Nat BY Finite
  <2>4. Cardinality(Pending' \ held'[q]) \in Nat BY <2>1, Finite
  <2> QED BY <2>2, <2>3, <2>4 DEF Counts, TypeOK
<1>3. at'[q] = "insert" => Counts(q)' <= counted'[q] /\ counted'[q] < limit'
  BY <1>1, <1>2 DEF Untouched, Guarded
<1>4. Single(q)' <=> Single(q)
  BY DEF Single, Untouched
<1> QED BY <1>3, <1>4 DEF Guarded, Untouched, InTransaction

-----------------------------------------------------------------------------
(* What requests remember, typed.                                          *)

MemoryOK ==
  /\ orgLock \in Procs \cup {None}
  /\ at \in [Procs -> Places]
  /\ kind \in [Procs -> Kinds \cup {"none"}]
  /\ who \in [Procs -> SUBSET People]
  /\ wants \in [Procs -> SUBSET made] /\ held \in [Procs -> SUBSET made]
  /\ counted \in [Procs -> Nat]
  /\ seen \in [Procs -> [owner : People \cup {None}, from : {"none", "owner", "member"},
                         to : {"none", "owner", "member"}]]

\* A transaction that ends leaves nothing behind and disturbs nobody.
LEMMA EndsFrees ==
  ASSUME LockInv, NEW p \in Procs, Ends(p), made \subseteq made'
  PROVE  /\ MemoryOK' /\ Disjoint' /\ Guarded(p)'
         /\ \A q \in Procs \ {p} : Untouched(q)
<1>1. orgLock' \in Procs \cup {None} /\ orgLock' # p
      /\ \A q \in Procs \ {p} : orgLock' = q <=> orgLock = q
  BY DEF Ends, Unlocked, LockInv, TypeOK
<1>2. at' \in [Procs -> Places] /\ kind' \in [Procs -> Kinds \cup {"none"}]
  BY DEF Ends, LockInv, TypeOK, Places
<1>3. who' \in [Procs -> SUBSET People] /\ counted' \in [Procs -> Nat]
  BY DEF Ends, LockInv, TypeOK
<1>4. wants' \in [Procs -> SUBSET made'] /\ held' \in [Procs -> SUBSET made']
  BY DEF Ends, LockInv, TypeOK
<1>5. seen' \in [Procs -> [owner : People \cup {None}, from : {"none", "owner", "member"},
                           to : {"none", "owner", "member"}]]
  BY DEF Ends, Nobody, LockInv, TypeOK
<1>6. MemoryOK' BY <1>1, <1>2, <1>3, <1>4, <1>5 DEF MemoryOK
<1>7. /\ at'[p] = "idle" /\ held'[p] = {} /\ kind'[p] = "none"
      /\ \A q \in Procs \ {p} :
           /\ at'[q] = at[q] /\ kind'[q] = kind[q] /\ who'[q] = who[q]
           /\ held'[q] = held[q] /\ counted'[q] = counted[q]
  BY DEF Ends, LockInv, TypeOK
<1>8. Guarded(p)' BY <1>1, <1>7 DEF Guarded, InTransaction
<1>9. Disjoint' BY <1>7 DEF Disjoint, LockInv
<1>10. ASSUME NEW q \in Procs \ {p} PROVE Untouched(q) BY <1>1, <1>7 DEF Untouched
<1> QED BY <1>6, <1>8, <1>9, <1>10

\* A request that begins holds nothing yet.
LEMMA StartsHoldNothing ==
  ASSUME LockInv, NEW p \in Procs, NEW k \in Kinds, NEW users \in SUBSET People,
         NEW invitations \in SUBSET made, NEW first \in Places \ InTransaction,
         first \in {"supersede", "take", "transfer"} => \E u \in People : users = {u},
         Starts(p, k, users, invitations, first),
         seen' \in [Procs -> [owner : People \cup {None}, from : {"none", "owner", "member"},
                              to : {"none", "owner", "member"}]]
  PROVE  LockInv'
<1>1. at[p] = "idle" /\ UNCHANGED <<people, limit, history, rows, orgLock, held, counted>>
  BY DEF Starts
<1>2. UNCHANGED <<role, live, owner, deleted, limit, to, made, accepted, revoked, expired,
                  overtaken, crossed>>
  BY <1>1 DEF people, rows, history
<1>3. /\ at' \in [Procs -> Places] /\ kind' \in [Procs -> Kinds \cup {"none"}]
      /\ who' \in [Procs -> SUBSET People] /\ wants' \in [Procs -> SUBSET made']
  BY <1>2 DEF Starts, LockInv, TypeOK
<1>4. TypeOK' /\ Addressed' BY <1>1, <1>2, <1>3 DEF LockInv, TypeOK, Addressed
<1>5. Disjoint' BY <1>1 DEF LockInv, Disjoint
<1>6. held[p] = {} /\ orgLock # p
  BY <1>1 DEF LockInv, Guarded, InTransaction
<1>7. /\ at'[p] = first /\ who'[p] = users /\ held'[p] = {} /\ orgLock' # p
  BY <1>1, <1>6 DEF Starts, LockInv, TypeOK
<1>8. Guarded(p)' BY <1>7 DEF Guarded, InTransaction, Single
<1>9. ASSUME NEW q \in Procs, q # p PROVE Guarded(q)'
  <2>1. Untouched(q) BY <1>1, <1>9 DEF Untouched, Starts, LockInv, TypeOK
  <2>2. Guarded(q) /\ TypeOK BY DEF LockInv
  <2>3. kind[q] = "accept" => held[q] \cap revoked' = {} BY <1>2, <2>2 DEF Guarded
  <2>4. live' \subseteq live /\ Pending' \subseteq Pending /\ limit' = limit
    BY <1>2 DEF Pending, Open
  <2> QED BY <2>1, <2>2, <2>3, <2>4, Frame
<1> QED BY <1>4, <1>5, <1>8, <1>9 DEF LockInv

-----------------------------------------------------------------------------
(* Transactions that end.                                                  *)

RowsOK ==
  /\ role \in [People -> {"none", "owner", "member"}]
  /\ live \subseteq People /\ owner \in People
  /\ deleted \in BOOLEAN /\ limit \in Limits
  /\ to \in [Ids -> People \cup {None}]
  /\ made \subseteq Ids /\ accepted \subseteq made /\ revoked \subseteq made
  /\ expired \subseteq made
  /\ overtaken \subseteq Procs /\ crossed \in BOOLEAN

LEMMA TypeParts == TypeOK <=> RowsOK /\ MemoryOK
BY DEF TypeOK, RowsOK, MemoryOK

\* What a commit may do to the others: withdraw nothing they hold, and claim
\* no seat while one of them has the workspace locked.
LEMMA CommitKeepsOthers ==
  ASSUME LockInv, NEW p \in Procs, Ends(p), RowsOK', Addressed', made \subseteq made',
         \A q \in Procs \ {p} :
           /\ kind[q] = "accept" => held[q] \cap revoked' = {}
           /\ orgLock = q => live' \subseteq live /\ Pending' \subseteq Pending /\ limit' = limit
  PROVE  LockInv'
<1>1. MemoryOK' /\ Disjoint' /\ Guarded(p)' /\ \A q \in Procs \ {p} : Untouched(q)
  BY EndsFrees
<1>2. TypeOK' BY <1>1, TypeParts DEF TypeOK, RowsOK, MemoryOK
<1>3. ASSUME NEW q \in Procs, q # p PROVE Guarded(q)'
  <2>1. TypeOK /\ Guarded(q) BY DEF LockInv
  <2> QED BY <1>1, <1>3, <2>1, Frame
<1> QED BY <1>1, <1>2, <1>3 DEF LockInv

LEMMA RollbackSafe ==
  ASSUME LockInv, NEW p \in Procs, Rollback(p)
  PROVE  LockInv'
<1>1. Ends(p) /\ UNCHANGED <<role, live, owner, deleted, limit, to, made, accepted, revoked, expired,
                             overtaken, crossed>>
  BY DEF Rollback, people, rows, history
<1>2. RowsOK' /\ Addressed' BY <1>1 DEF RowsOK, LockInv, TypeOK, Addressed
<1>3. ASSUME NEW q \in Procs \ {p}
      PROVE  /\ kind[q] = "accept" => held[q] \cap revoked' = {}
             /\ orgLock = q => live' \subseteq live /\ Pending' \subseteq Pending /\ limit' = limit
  BY <1>1 DEF LockInv, Guarded, Pending, Open
<1> QED BY <1>1, <1>2, <1>3, CommitKeepsOthers

LEMMA CommitInviteSafe ==
  ASSUME LockInv, NEW p \in Procs, NEW i \in Ids, CommitInvite(p, i)
  PROVE  LockInv'
<1>1. at[p] = "insert" /\ Ends(p) BY DEF CommitInvite
<1>2. /\ UNCHANGED <<role, live, owner, deleted, limit, accepted, expired, overtaken, crossed>>
      /\ made' = made \cup {i} /\ revoked' = revoked \cup held[p]
  BY DEF CommitInvite, people, history
<1>3. PICK u \in People : who[p] = {u}
  BY <1>1 DEF LockInv, Guarded, Single, InTransaction
<1>4. (CHOOSE v \in People : v \in who[p]) \in People BY <1>3
<1>5. to' \in [Ids -> People \cup {None}] BY <1>4 DEF CommitInvite, LockInv, TypeOK
<1>6. held[p] \subseteq made BY DEF LockInv, TypeOK
<1>7. RowsOK' BY <1>2, <1>5, <1>6 DEF RowsOK, LockInv, TypeOK
<1>10. Addressed' BY <1>2, <1>4 DEF CommitInvite, Addressed, LockInv, TypeOK
<1>8. orgLock = p BY <1>1 DEF LockInv, Guarded
<1>9. ASSUME NEW q \in Procs \ {p}
      PROVE  /\ kind[q] = "accept" => held[q] \cap revoked' = {}
             /\ orgLock = q => live' \subseteq live /\ Pending' \subseteq Pending /\ limit' = limit
  <2>1. held[q] \cap held[p] = {} BY DEF LockInv, Disjoint
  <2>2. kind[q] = "accept" => held[q] \cap revoked = {} BY DEF LockInv, Guarded
  <2> QED BY <1>2, <1>8, <2>1, <2>2
<1> QED BY <1>1, <1>2, <1>7, <1>9, <1>10, CommitKeepsOthers

LEMMA CommitAcceptSafe ==
  ASSUME LockInv, NEW p \in Procs, CommitAccept(p)
  PROVE  LockInv'
<1>1. CASE \E u \in who[p] : role[u] # "none"
  BY <1>1, RollbackSafe DEF CommitAccept
<1>2. CASE ~(\E u \in who[p] : role[u] # "none")
  <2>1. /\ at[p] = "insert" /\ Ends(p)
        /\ accepted' = accepted \cup held[p] /\ live' = live \cup who[p]
        /\ role' = [u \in People |-> IF u \in who[p] THEN "member" ELSE role[u]]
        /\ UNCHANGED <<owner, deleted, limit, to, made, revoked, expired, overtaken, crossed>>
    BY <1>2 DEF CommitAccept, history
  <2>2. held[p] \subseteq made /\ who[p] \subseteq People BY DEF LockInv, TypeOK
  <2>3. RowsOK' /\ Addressed' BY <2>1, <2>2 DEF RowsOK, LockInv, TypeOK, Addressed
  <2>4. orgLock = p BY <2>1 DEF LockInv, Guarded
  <2>5. ASSUME NEW q \in Procs \ {p}
        PROVE  /\ kind[q] = "accept" => held[q] \cap revoked' = {}
               /\ orgLock = q => live' \subseteq live /\ Pending' \subseteq Pending /\ limit' = limit
    BY <2>1, <2>4 DEF LockInv, Guarded
  <2> QED BY <2>1, <2>3, <2>5, CommitKeepsOthers
<1> QED BY <1>1, <1>2

LEMMA RevokeSafe ==
  ASSUME LockInv, NEW p \in Procs, Revoke(p)
  PROVE  LockInv'
<1>1. /\ Ends(p) /\ revoked' = revoked \cup wants[p]
      /\ UNCHANGED <<role, live, owner, deleted, limit, to, made, accepted, expired, overtaken, crossed>>
  BY DEF Revoke, people, history
<1>2. wants[p] \subseteq made BY DEF LockInv, TypeOK
<1>3. RowsOK' /\ Addressed' BY <1>1, <1>2 DEF RowsOK, LockInv, TypeOK, Addressed
<1>4. ASSUME NEW q \in Procs \ {p}
      PROVE  /\ kind[q] = "accept" => held[q] \cap revoked' = {}
             /\ orgLock = q => live' \subseteq live /\ Pending' \subseteq Pending /\ limit' = limit
  <2>1. held[q] \cap wants[p] = {} BY DEF Revoke, LockedByOthers
  <2>2. Pending' \subseteq Pending BY <1>1 DEF Pending, Open
  <2> QED BY <1>1, <2>1, <2>2 DEF LockInv, Guarded
<1> QED BY <1>1, <1>3, <1>4, CommitKeepsOthers

LEMMA MarksSafe ==
  ASSUME LockInv, NEW p \in Procs, Marks(p) \/ UNCHANGED history
  PROVE  overtaken' \subseteq Procs /\ crossed' \in BOOLEAN
BY DEF Marks, history, LockInv, TypeOK

LEMMA DepartSafe ==
  ASSUME LockInv, NEW p \in Procs, Depart(p) \/ CommitDelete(p)
  PROVE  LockInv'
<1>1. /\ Ends(p) /\ live' = live \ who[p] /\ deleted' \in BOOLEAN
      /\ UNCHANGED <<role, owner, limit, to, made, accepted, revoked, expired>>
  BY DEF Depart, CommitDelete, rows, LockInv, TypeOK
<1>2. RowsOK' /\ Addressed'
  <2>1. overtaken' \subseteq Procs /\ crossed' \in BOOLEAN BY MarksSafe DEF Depart, CommitDelete
  <2> QED BY <1>1, <2>1 DEF RowsOK, LockInv, TypeOK, Addressed
<1>3. Pending' \subseteq Pending /\ live' \subseteq live BY <1>1 DEF Pending, Open
<1>4. ASSUME NEW q \in Procs \ {p}
      PROVE  /\ kind[q] = "accept" => held[q] \cap revoked' = {}
             /\ orgLock = q => live' \subseteq live /\ Pending' \subseteq Pending /\ limit' = limit
  BY <1>1, <1>3 DEF LockInv, Guarded
<1> QED BY <1>1, <1>2, <1>4, CommitKeepsOthers

LEMMA CommitTransferSafe ==
  ASSUME LockInv, NEW p \in Procs, CommitTransfer(p)
  PROVE  LockInv'
<1>1. /\ Ends(p) /\ at[p] = "transfer"
      /\ UNCHANGED <<live, deleted, limit, to, made, accepted, revoked, expired>>
  BY DEF CommitTransfer, rows
<1>2. PICK u \in People : who[p] = {u}
  BY <1>1 DEF LockInv, Guarded, Single
<1>3. owner' \in People BY <1>2 DEF CommitTransfer
<1>4. role' \in [People -> {"none", "owner", "member"}]
  BY DEF CommitTransfer, Changed, LockInv, TypeOK
<1>5. RowsOK' /\ Addressed'
  <2>1. overtaken' \subseteq Procs /\ crossed' \in BOOLEAN BY MarksSafe DEF CommitTransfer
  <2> QED BY <1>1, <1>3, <1>4, <2>1 DEF RowsOK, LockInv, TypeOK, Addressed
<1>6. Pending' \subseteq Pending BY <1>1 DEF Pending, Open
<1>7. ASSUME NEW q \in Procs \ {p}
      PROVE  /\ kind[q] = "accept" => held[q] \cap revoked' = {}
             /\ orgLock = q => live' \subseteq live /\ Pending' \subseteq Pending /\ limit' = limit
  BY <1>1, <1>6 DEF LockInv, Guarded
<1> QED BY <1>1, <1>5, <1>7, CommitKeepsOthers

-----------------------------------------------------------------------------
(* Steps inside a transaction: nothing is written yet.                     *)

LEMMA MemoryStep ==
  ASSUME LockInv, NEW p \in Procs, UNCHANGED <<people, limit, history, rows>>, MemoryOK', Disjoint',
         Guarded(p)', \A q \in Procs \ {p} : Untouched(q)
  PROVE  LockInv'
<1>1. UNCHANGED <<role, live, owner, deleted, limit, to, made, accepted, revoked, expired,
                  overtaken, crossed>>
  BY DEF people, rows, history
<1>2. TypeOK' /\ Addressed' BY <1>1 DEF LockInv, TypeOK, MemoryOK, Addressed
<1>3. Pending' = Pending BY <1>1 DEF Pending, Open
<1>4. ASSUME NEW q \in Procs, q # p PROVE Guarded(q)'
  <2>1. TypeOK /\ Guarded(q) BY DEF LockInv
  <2>2. kind[q] = "accept" => held[q] \cap revoked' = {} BY <1>1, <2>1 DEF Guarded
  <2> QED BY <1>1, <1>3, <1>4, <2>1, <2>2, Frame
<1> QED BY <1>2, <1>4 DEF LockInv

LEMMA SupersedeSafe ==
  ASSUME LockInv, NEW p \in Procs, Supersede(p)
  PROVE  LockInv'
<1>1. /\ at[p] = "supersede" /\ wants[p] \cap LockedByOthers(p) = {}
      /\ held' = [held EXCEPT ![p] = wants[p] \cap Open] /\ at' = [at EXCEPT ![p] = "lock"]
      /\ UNCHANGED <<people, limit, history, rows>>
      /\ UNCHANGED <<orgLock, kind, who, wants, counted, seen>>
  BY DEF Supersede
<1>2. UNCHANGED <<made, accepted, revoked>> BY <1>1 DEF rows
<1>3. MemoryOK' BY <1>1, <1>2 DEF MemoryOK, LockInv, TypeOK, Places
<1>4. /\ at'[p] = "lock" /\ held'[p] = wants[p] \cap Open
      /\ \A q \in Procs \ {p} : at'[q] = at[q] /\ held'[q] = held[q]
  BY <1>1 DEF LockInv, TypeOK
<1>5. \A q \in Procs \ {p} : held[q] \cap held'[p] = {} BY <1>1, <1>4 DEF LockedByOthers
<1>6. Disjoint' BY <1>4, <1>5 DEF Disjoint, LockInv
<1>7. held'[p] \cap revoked' = {} BY <1>2, <1>4 DEF Open
<1>8. Single(p)' BY <1>1 DEF LockInv, Guarded, Single
<1>9. orgLock' # p BY <1>1 DEF LockInv, Guarded
<1>10. Guarded(p)' BY <1>4, <1>7, <1>8, <1>9 DEF Guarded, InTransaction
<1>11. \A q \in Procs \ {p} : Untouched(q) BY <1>1, <1>4 DEF Untouched
<1> QED BY <1>1, <1>3, <1>6, <1>10, <1>11, MemoryStep

LEMMA TakeSafe ==
  ASSUME LockInv, NEW p \in Procs, Take(p)
  PROVE  LockInv'
<1>1. CASE ~StillPending(p) BY <1>1, RollbackSafe DEF Take
<1>2. CASE StillPending(p)
  <2>1. /\ at[p] = "take" /\ wants[p] \cap LockedByOthers(p) = {}
        /\ held' = [held EXCEPT ![p] = wants[p]] /\ at' = [at EXCEPT ![p] = "lock"]
        /\ UNCHANGED <<people, limit, history, rows>>
        /\ UNCHANGED <<orgLock, kind, who, wants, counted, seen>>
    BY <1>2 DEF Take
  <2>2. UNCHANGED <<made, accepted, revoked>> BY <2>1 DEF rows
  <2>3. MemoryOK' BY <2>1, <2>2 DEF MemoryOK, LockInv, TypeOK, Places
  <2>4. /\ at'[p] = "lock" /\ held'[p] = wants[p]
        /\ \A q \in Procs \ {p} : at'[q] = at[q] /\ held'[q] = held[q]
    BY <2>1 DEF LockInv, TypeOK
  <2>5. \A q \in Procs \ {p} : held[q] \cap held'[p] = {} BY <2>1, <2>4 DEF LockedByOthers
  <2>6. Disjoint' BY <2>4, <2>5 DEF Disjoint, LockInv
  <2>7. held'[p] \cap revoked' = {} BY <1>2, <2>2, <2>4 DEF StillPending, Pending, Open
  <2>8. Single(p)' BY <2>1 DEF LockInv, Guarded, Single
  <2>9. orgLock' # p BY <2>1 DEF LockInv, Guarded
  <2>10. Guarded(p)' BY <2>4, <2>7, <2>8, <2>9 DEF Guarded, InTransaction
  <2>11. \A q \in Procs \ {p} : Untouched(q) BY <2>1, <2>4 DEF Untouched
  <2> QED BY <2>1, <2>3, <2>6, <2>10, <2>11, MemoryStep
<1> QED BY <1>1, <1>2

LEMMA LockSafe ==
  ASSUME LockInv, NEW p \in Procs, Lock(p)
  PROVE  LockInv'
<1>1. CASE kind[p] = "accept" /\ deleted BY <1>1, RollbackSafe DEF Lock
<1>2. CASE ~(kind[p] = "accept" /\ deleted)
  <2>1. /\ at[p] = "lock" /\ orgLock = None /\ orgLock' = p
        /\ at' = [at EXCEPT ![p] = "count"]
        /\ UNCHANGED <<people, limit, history, rows>>
        /\ UNCHANGED <<kind, who, wants, held, counted, seen>>
    BY <1>2 DEF Lock, memory
  <2>2. UNCHANGED <<made, revoked>> BY <2>1 DEF rows
  <2>3. MemoryOK' BY <2>1, <2>2 DEF MemoryOK, LockInv, TypeOK, Places
  <2>4. at'[p] = "count" /\ \A q \in Procs \ {p} : at'[q] = at[q]
    BY <2>1 DEF LockInv, TypeOK
  <2>5. Disjoint' BY <2>1 DEF Disjoint, LockInv
  <2>6. Single(p)' BY <2>1 DEF LockInv, Guarded, Single, InTransaction
  <2>7. kind'[p] = "accept" => held'[p] \cap revoked' = {}
    BY <2>1, <2>2 DEF LockInv, Guarded
  <2>8. Guarded(p)' BY <2>1, <2>4, <2>6, <2>7 DEF Guarded, InTransaction
  <2>9. \A q \in Procs \ {p} : Untouched(q) BY <2>1, <2>4 DEF Untouched
  <2> QED BY <2>1, <2>3, <2>5, <2>8, <2>9, MemoryStep
<1> QED BY <1>1, <1>2

LEMMA CountSafe ==
  ASSUME LockInv, NEW p \in Procs, Count(p)
  PROVE  LockInv'
<1>1. CASE ~Fits(Counts(p)) BY <1>1, RollbackSafe DEF Count
<1>2. CASE Fits(Counts(p))
  <2>1. /\ at[p] = "count" /\ at' = [at EXCEPT ![p] = "insert"]
        /\ counted' = [counted EXCEPT ![p] = Counts(p)]
        /\ UNCHANGED <<people, limit, history, rows>>
        /\ UNCHANGED <<orgLock, kind, who, wants, held, seen>>
    BY <1>2 DEF Count
  <2>2. UNCHANGED <<live, limit, made, accepted, revoked, expired>>
    BY <2>1 DEF people, rows
  <2>3. Counts(p) \in Nat
    <3>1. Cardinality(live) \in Nat /\ Cardinality(Pending \ held[p]) \in Nat
      BY Finite DEF LockInv
    <3> QED BY <3>1 DEF Counts
  <2>4. MemoryOK' BY <2>1, <2>2, <2>3 DEF MemoryOK, LockInv, TypeOK, Places
  <2>5. /\ at'[p] = "insert" /\ counted'[p] = Counts(p)
        /\ \A q \in Procs \ {p} : at'[q] = at[q] /\ counted'[q] = counted[q]
    BY <2>1 DEF LockInv, TypeOK
  <2>6. Disjoint' BY <2>1 DEF Disjoint, LockInv
  <2>7. Single(p)' BY <2>1 DEF LockInv, Guarded, Single, InTransaction
  <2>8. kind'[p] = "accept" => held'[p] \cap revoked' = {}
    BY <2>1, <2>2 DEF LockInv, Guarded
  <2>9. Counts(p)' = Counts(p) BY <2>1, <2>2 DEF Counts, Pending, Open
  <2>10. Counts(p)' <= counted'[p] /\ counted'[p] < limit'
    BY <1>2, <2>2, <2>3, <2>5, <2>9 DEF Fits
  <2>11. orgLock' = p BY <2>1 DEF LockInv, Guarded
  <2>12. Guarded(p)' BY <2>5, <2>7, <2>8, <2>10, <2>11 DEF Guarded, InTransaction
  <2>13. \A q \in Procs \ {p} : Untouched(q) BY <2>1, <2>5 DEF Untouched
  <2> QED BY <2>1, <2>4, <2>6, <2>12, <2>13, MemoryStep
<1> QED BY <1>1, <1>2

-----------------------------------------------------------------------------
(* Requests that begin, and the world outside them.                        *)

LEMMA StartSafe ==
  ASSUME LockInv, NEW p \in Procs, Start(p)
  PROVE  LockInv'
<1> DEFINE Loaded == seen' \in [Procs -> [owner : People \cup {None},
                                          from : {"none", "owner", "member"},
                                          to : {"none", "owner", "member"}]]
<1>1. /\ live \subseteq People /\ owner \in People /\ Open \subseteq made
      /\ Pending \subseteq made /\ made \subseteq Ids
      /\ role \in [People -> {"none", "owner", "member"}]
  BY DEF LockInv, TypeOK, Open, Pending
<1>2. UNCHANGED seen => Loaded BY DEF LockInv, TypeOK
<1>3. ASSUME NEW u \in People, StartInvite(p, u) PROVE LockInv'
  <2>1. /\ Starts(p, "invite", {u}, {i \in Open : to[i] = u}, "supersede") /\ Loaded
    BY <1>2, <1>3 DEF StartInvite
  <2>2. /\ "invite" \in Kinds /\ {u} \in SUBSET People
        /\ {i \in Open : to[i] = u} \in SUBSET made /\ "supersede" \in Places \ InTransaction
    BY <1>1 DEF Kinds, Places, InTransaction
  <2> QED BY <2>1, <2>2, StartsHoldNothing
<1>4. ASSUME NEW u \in People, StartDepart(p, u) PROVE LockInv'
  <2>1. Starts(p, "depart", {u}, {}, "depart") /\ Loaded BY <1>2, <1>4 DEF StartDepart
  <2>2. /\ "depart" \in Kinds /\ {u} \in SUBSET People /\ {} \in SUBSET made
        /\ "depart" \in Places \ InTransaction
    BY DEF Kinds, Places, InTransaction
  <2> QED BY <2>1, <2>2, StartsHoldNothing
<1>5. ASSUME NEW u \in People, StartTransfer(p, u) PROVE LockInv'
  <2>1. Starts(p, "transfer", {u}, {}, "transfer") BY <1>5 DEF StartTransfer
  <2>2. [owner |-> owner, from |-> role[owner], to |-> role[u]]
          \in [owner : People \cup {None}, from : {"none", "owner", "member"},
               to : {"none", "owner", "member"}]
    BY <1>1
  <2>3. Loaded BY <1>5, <2>2 DEF StartTransfer, LockInv, TypeOK
  <2>4. /\ "transfer" \in Kinds /\ {u} \in SUBSET People /\ {} \in SUBSET made
        /\ "transfer" \in Places \ InTransaction
    BY DEF Kinds, Places, InTransaction
  <2> QED BY <2>1, <2>3, <2>4, StartsHoldNothing
<1>6. ASSUME NEW i \in Ids, StartAccept(p, i) PROVE LockInv'
  <2>1. Starts(p, "accept", {to[i]}, {i}, "take") /\ Loaded /\ i \in Pending
    BY <1>2, <1>6 DEF StartAccept
  <2>2. to[i] \in People
    BY <1>1, <2>1 DEF LockInv, Addressed
  <2>3. /\ "accept" \in Kinds /\ {to[i]} \in SUBSET People /\ {i} \in SUBSET made
        /\ "take" \in Places \ InTransaction
    BY <1>1, <2>1, <2>2 DEF Kinds, Places, InTransaction
  <2> QED BY <2>1, <2>2, <2>3, StartsHoldNothing
<1>7. ASSUME NEW i \in Ids, StartRevoke(p, i) \/ StartTidy(p, i) PROVE LockInv'
  <2>1. PICK k \in {"revoke", "tidy"} : Starts(p, k, {}, {i}, "revoke")
    BY <1>7 DEF StartRevoke, StartTidy
  <2>2. Loaded /\ i \in made BY <1>1, <1>2, <1>7 DEF StartRevoke, StartTidy
  <2>3. /\ k \in Kinds /\ {} \in SUBSET People /\ {i} \in SUBSET made
        /\ "revoke" \in Places \ InTransaction
    BY <2>2 DEF Kinds, Places, InTransaction
  <2> QED BY <2>1, <2>2, <2>3, StartsHoldNothing
<1>8. ASSUME StartDelete(p) PROVE LockInv'
  <2>1. Starts(p, "delete", live, {}, "delete") /\ Loaded BY <1>2, <1>8 DEF StartDelete
  <2>2. /\ "delete" \in Kinds /\ live \in SUBSET People /\ {} \in SUBSET made
        /\ "delete" \in Places \ InTransaction
    BY <1>1 DEF Kinds, Places, InTransaction
  <2> QED BY <2>1, <2>2, StartsHoldNothing
<1> QED BY <1>3, <1>4, <1>5, <1>6, <1>7, <1>8 DEF Start

LEMMA OutsideSafe ==
  ASSUME LockInv,
         \/ \E i \in Ids : Expire(i)
         \/ \E n \in Limits : SetLimit(n)
         \/ UNCHANGED vars
  PROVE  LockInv'
<1>1. /\ UNCHANGED <<role, live, owner, deleted, to, made, accepted, revoked, orgLock, at>>
      /\ UNCHANGED <<kind, who, wants, held, counted, seen>>
      /\ UNCHANGED <<overtaken, crossed>>
      /\ expired' \subseteq made /\ expired \subseteq expired' /\ limit' \in Limits
  BY DEF Expire, SetLimit, vars, people, rows, memory, history, LockInv, TypeOK
<1>2. TypeOK' BY <1>1 DEF LockInv, TypeOK
<1>3. Disjoint' BY <1>1 DEF LockInv, Disjoint
<1>4. ASSUME NEW q \in Procs PROVE Guarded(q)'
  <2>1. TypeOK /\ Guarded(q) BY DEF LockInv
  <2>2. Untouched(q) BY <1>1 DEF Untouched
  <2>3. kind[q] = "accept" => held[q] \cap revoked' = {} BY <1>1, <2>1 DEF Guarded
  <2>4. Pending' \subseteq Pending BY <1>1 DEF Pending, Open
  <2>5. orgLock = q => limit' = limit
    BY DEF Expire, SetLimit, vars
  <2> QED BY <1>1, <2>1, <2>2, <2>3, <2>4, <2>5, Frame
<1> QED BY <1>2, <1>3, <1>4, <1>1 DEF LockInv, Addressed

LEMMA FinishSafe ==
  ASSUME LockInv, NEW p \in Procs, Finish(p)
  PROVE  LockInv'
BY SupersedeSafe, LockSafe, CountSafe, TakeSafe, CommitAcceptSafe, RevokeSafe, DepartSafe,
   CommitTransferSafe, CommitInviteSafe DEF Finish

-----------------------------------------------------------------------------
(* The theorems.                                                           *)

LEMMA InitSafe == Init => LockInv
<1> SUFFICES ASSUME Init PROVE LockInv OBVIOUS
<1>1. TypeOK BY DEF Init, TypeOK, Places, Nobody
<1>2. Addressed /\ Disjoint BY DEF Init, Addressed, Disjoint
<1>3. \A p \in Procs : Guarded(p) BY DEF Init, Guarded, InTransaction
<1> QED BY <1>1, <1>2, <1>3 DEF LockInv

LEMMA NextSafe == LockInv /\ [Next]_vars => LockInv'
BY StartSafe, FinishSafe, OutsideSafe DEF Next

\* What invitation_service.ts and lockAndAssertLimit get from their row locks:
\* one transaction at a time in the workspace, one at each invitation, and a
\* count of seats that is still enough when the transaction commits.
THEOREM LocksHold == Spec => []LockInv
BY InitSafe, NextSafe, PTL DEF Spec

\* A commit claims one seat more than its transaction counted, at the most.
LEMMA OneMore ==
  ASSUME LockInv, NEW p \in Procs, at[p] = "insert", limit' = limit, LockInv',
         \/ \E u : live' = live \cup {u} /\ Pending' \subseteq Pending \ held[p]
         \/ \E i : live' = live /\ Pending' \subseteq (Pending \ held[p]) \cup {i}
  PROVE  Used' <= limit'
<1>1. /\ IsFiniteSet(live) /\ Cardinality(live) \in Nat
      /\ IsFiniteSet(Pending \ held[p]) /\ Cardinality(Pending \ held[p]) \in Nat
  BY Finite DEF LockInv
<1>2. /\ Cardinality(live') \in Nat /\ Cardinality(Pending') \in Nat
  BY FinitePrimed DEF LockInv
<1>3. Counts(p) < limit /\ limit \in Nat
  <2>1. Counts(p) <= counted[p] /\ counted[p] < limit BY DEF LockInv, Guarded
  <2>2. counted[p] \in Nat /\ limit \in Nat BY DEF LockInv, TypeOK
  <2>3. Counts(p) \in Nat BY <1>1 DEF Counts
  <2> QED BY <2>1, <2>2, <2>3
<1>4. Used' <= Counts(p) + 1
  <2>1. CASE \E u : live' = live \cup {u} /\ Pending' \subseteq Pending \ held[p]
    <3>1. PICK u : live' = live \cup {u} BY <2>1
    <3>2. Cardinality(live') <= Cardinality(live) + 1 BY <1>1, <3>1, AddOne
    <3>3. Cardinality(Pending') <= Cardinality(Pending \ held[p])
      BY <1>1, <2>1, CardSubset
    <3> QED BY <1>1, <1>2, <3>2, <3>3 DEF Used, Counts
  <2>2. CASE \E i : live' = live /\ Pending' \subseteq (Pending \ held[p]) \cup {i}
    <3>1. PICK i : Pending' \subseteq (Pending \ held[p]) \cup {i} BY <2>2
    <3>2. /\ IsFiniteSet((Pending \ held[p]) \cup {i})
          /\ Cardinality((Pending \ held[p]) \cup {i}) <= Cardinality(Pending \ held[p]) + 1
      BY <1>1, AddOne
    <3>3. /\ Cardinality(Pending') <= Cardinality((Pending \ held[p]) \cup {i})
          /\ Cardinality((Pending \ held[p]) \cup {i}) \in Nat
      BY <3>1, <3>2, CardSubset
    <3> QED BY <1>1, <1>2, <2>2, <3>2, <3>3 DEF Used, Counts
  <2> QED BY <2>1, <2>2
<1>5. Used' \in Nat /\ Counts(p) \in Nat BY <1>1, <1>2 DEF Used, Counts
<1> QED BY <1>3, <1>4, <1>5

LEMMA ClaimStep ==
  ASSUME LockInv, LockInv', [Next]_vars
  PROVE  Used' > Used => Used' <= limit'
<1>1. ASSUME NEW p \in Procs, NEW i \in Ids, CommitInvite(p, i) PROVE Used' <= limit'
  <2>1. /\ at[p] = "insert" /\ UNCHANGED <<live, limit, accepted, expired>>
        /\ made' = made \cup {i} /\ revoked' = revoked \cup held[p]
    BY <1>1 DEF CommitInvite, people
  <2>2. Pending' \subseteq (Pending \ held[p]) \cup {i} BY <2>1 DEF Pending, Open
  <2> QED BY <2>1, <2>2, OneMore
<1>2. ASSUME NEW p \in Procs, CommitAccept(p), live' # live PROVE Used' <= limit'
  <2>1. /\ at[p] = "insert" /\ accepted' = accepted \cup held[p]
        /\ live' = live \cup who[p] /\ UNCHANGED <<limit, made, revoked, expired>>
    BY <1>2 DEF CommitAccept, Rollback, people
  <2>2. PICK u \in People : who[p] = {u}
    BY <2>1 DEF LockInv, Guarded, Single, InTransaction
  <2>3. Pending' \subseteq Pending \ held[p] BY <2>1 DEF Pending, Open
  <2> QED BY <2>1, <2>2, <2>3, OneMore
<1>3. ASSUME live' \subseteq live, Pending' \subseteq Pending PROVE ~(Used' > Used)
  <2>1. Used' <= Used BY <1>3, Shrinks DEF LockInv
  <2>2. Used' \in Nat /\ Used \in Nat
    <3>1. Cardinality(live) \in Nat /\ Cardinality(Pending) \in Nat
      BY Finite DEF LockInv
    <3>2. Cardinality(live') \in Nat /\ Cardinality(Pending') \in Nat
      BY FinitePrimed DEF LockInv
    <3> QED BY <3>1, <3>2 DEF Used
  <2> QED BY <2>1, <2>2
<1>4. ASSUME NEW p \in Procs, CommitAccept(p), live' = live PROVE ~(Used' > Used)
  <2>1. Pending' \subseteq Pending
    BY <1>4 DEF CommitAccept, Rollback, rows, Pending, Open
  <2> QED BY <1>3, <1>4, <2>1
<1>5. ASSUME NEW p \in Procs,
             \/ Start(p) \/ Supersede(p) \/ Lock(p) \/ Count(p) \/ Take(p)
             \/ Revoke(p) \/ Depart(p) \/ CommitTransfer(p) \/ CommitDelete(p)
      PROVE  ~(Used' > Used)
  <2>1. CASE Start(p)
    BY <1>3, <2>1 DEF Start, Starts, StartInvite, StartAccept, StartRevoke, StartTidy,
       StartDepart, StartTransfer, StartDelete, people, rows, Pending, Open
  <2>2. CASE Supersede(p) \/ Lock(p) \/ Count(p) \/ Take(p)
    BY <1>3, <2>2 DEF Supersede, Lock, Count, Take, Rollback, people, rows, Pending, Open
  <2>3. CASE Revoke(p) \/ Depart(p) \/ CommitTransfer(p) \/ CommitDelete(p)
    BY <1>3, <2>3 DEF Revoke, Depart, CommitTransfer, CommitDelete, people, rows, Pending, Open
  <2> QED BY <1>5, <2>1, <2>2, <2>3
<1>6. ASSUME (\E i \in Ids : Expire(i)) \/ (\E n \in Limits : SetLimit(n)) \/ UNCHANGED vars
      PROVE  ~(Used' > Used)
  BY <1>3, <1>6 DEF Expire, SetLimit, vars, people, rows, Pending, Open
<1> QED BY <1>1, <1>2, <1>4, <1>5, <1>6 DEF Next, Finish

\* Whatever overlaps, no invitation is created and nobody joins beyond the
\* limit in force at the commit: invite and accept count under the lock.
THEOREM SeatsClaimedFit == Spec => ClaimsFit
<1>1. LockInv /\ LockInv' /\ [Next]_vars => [Used' > Used => Used' <= limit']_vars
  BY ClaimStep
<1> QED BY <1>1, LocksHold, PTL DEF Spec, ClaimsFit

LEMMA JoinStep ==
  ASSUME LockInv, [Next]_vars
  PROVE  (accepted' \ accepted) \cap revoked = {}
<1>1. ASSUME NEW p \in Procs, CommitAccept(p) PROVE (accepted' \ accepted) \cap revoked = {}
  <2>1. accepted' \subseteq accepted \cup held[p]
    BY <1>1 DEF CommitAccept, Rollback, rows
  <2>2. kind[p] = "accept" BY <1>1 DEF CommitAccept
  <2>3. held[p] \cap revoked = {} BY <2>2 DEF LockInv, Guarded
  <2> QED BY <2>1, <2>3
<1>2. ASSUME ~(\E p \in Procs : CommitAccept(p)) PROVE accepted' = accepted
  <2>1. ASSUME NEW p \in Procs, Start(p) PROVE accepted' = accepted
    BY <2>1 DEF Start, Starts, StartInvite, StartAccept, StartRevoke, StartTidy, StartDepart,
       StartTransfer, StartDelete, rows
  <2>2. ASSUME NEW p \in Procs, Finish(p) PROVE accepted' = accepted
    BY <1>2, <2>2 DEF Finish, Supersede, Lock, Count, Take, Revoke, Depart, CommitTransfer,
       CommitDelete, CommitInvite, Rollback, rows
  <2>3. ASSUME (\E i \in Ids : Expire(i)) \/ (\E n \in Limits : SetLimit(n)) \/ UNCHANGED vars
        PROVE  accepted' = accepted
    BY <2>3 DEF Expire, SetLimit, vars, rows
  <2> QED BY <2>1, <2>2, <2>3 DEF Next
<1> QED BY <1>1, <1>2

\* Nobody gets in by an invitation that has been withdrawn or superseded: accept
\* looks again under the row lock, and nobody revokes a row that is locked.
THEOREM RevokedStaysOut == Spec => RevokedNeverJoins
<1>1. LockInv /\ [Next]_vars => [(accepted' \ accepted) \cap revoked = {}]_vars
  BY JoinStep
<1> QED BY <1>1, LocksHold, PTL DEF Spec, RevokedNeverJoins

-----------------------------------------------------------------------------
(* The owner. A transfer writes what its request loaded. That is still so  *)
(* when it commits, or the same transfer has been made before it, unless   *)
(* another transfer or a departure overtook it.                            *)

Rolled == \A u \in live : role[u] # "none"

Fresh(p) ==
  /\ seen[p].owner = owner
  /\ \E u \in live \ {owner} : who[p] = {u} /\ seen[p].to = role[u]
Repeated(p) == who[p] = {owner} /\ seen[p].owner # owner /\ seen[p].to # "owner"

Waiting(p) ==
  ~deleted /\ p \notin overtaken =>
    /\ at[p] = "depart" => \E u \in People \ {owner} : who[p] = {u}
    /\ at[p] = "transfer" => seen[p].from = "owner" /\ (Fresh(p) \/ Repeated(p))

OwnerInv == LockInv /\ Rolled /\ OneOwner /\ \A p \in Procs : Waiting(p)

Waits(q) == at'[q] = at[q] /\ who'[q] = who[q] /\ seen'[q] = seen[q]
Kept(q) == Waits(q) /\ (q \in overtaken => q \in overtaken')

\* Steps that leave people alone.
LEMMA PeopleAlone ==
  ASSUME OwnerInv, LockInv', UNCHANGED people, UNCHANGED history,
         \A q \in Procs : Waits(q) \/ at'[q] \notin {"depart", "transfer"} \/ Waiting(q)'
  PROVE  OwnerInv'
<1>1. Rolled' /\ OneOwner' BY DEF OwnerInv, Rolled, OneOwner, people
<1>2. ASSUME NEW q \in Procs PROVE Waiting(q)'
  <2>1. CASE Waits(q)
    BY <2>1 DEF OwnerInv, Waiting, Waits, Fresh, Repeated, people, history
  <2>2. CASE at'[q] \notin {"depart", "transfer"} BY <2>2 DEF Waiting
  <2> QED BY <2>1, <2>2
<1> QED BY <1>1, <1>2 DEF OwnerInv

LEMMA StartOwner ==
  ASSUME OwnerInv, LockInv', NEW p \in Procs, Start(p)
  PROVE  OwnerInv'
<1>1. UNCHANGED people /\ UNCHANGED history /\ \A q \in Procs \ {p} : Waits(q)
  <2>1. /\ UNCHANGED people /\ UNCHANGED history
        /\ \A q \in Procs \ {p} : at'[q] = at[q] /\ who'[q] = who[q]
    BY DEF Start, Starts, StartInvite, StartDepart, StartTransfer, StartAccept, StartRevoke,
           StartTidy, StartDelete, OwnerInv, LockInv, TypeOK
  <2>2. \A q \in Procs \ {p} : seen'[q] = seen[q]
    BY DEF Start, StartInvite, StartDepart, StartTransfer, StartAccept, StartRevoke,
           StartTidy, StartDelete, OwnerInv, LockInv, TypeOK
  <2> QED BY <2>1, <2>2 DEF Waits
<1>2. at'[p] \notin {"depart", "transfer"} \/ Waiting(p)'
  <2>1. ASSUME NEW u \in People, StartDepart(p, u) PROVE Waiting(p)'
    <3>1. at'[p] = "depart" /\ who'[p] = {u} /\ owner' = owner
      BY <2>1 DEF StartDepart, Starts, OwnerInv, LockInv, TypeOK, people
    <3> QED BY <2>1, <3>1 DEF StartDepart, MayDepart, Waiting
  <2>2. ASSUME NEW u \in People, StartTransfer(p, u) PROVE Waiting(p)'
    <3>1. /\ at'[p] = "transfer" /\ who'[p] = {u}
          /\ seen'[p] = [owner |-> owner, from |-> role[owner], to |-> role[u]]
          /\ UNCHANGED <<owner, role, live, deleted>>
      BY <2>2 DEF StartTransfer, Starts, OwnerInv, LockInv, TypeOK, people
    <3>2. u \in live /\ u # owner /\ ~deleted /\ role[owner] = "owner"
      BY <2>2 DEF StartTransfer, OwnerInv, OneOwner
    <3> QED BY <3>1, <3>2 DEF Waiting, Fresh
  <2>3. ASSUME \/ \E u \in People : StartInvite(p, u)
               \/ \E i \in Ids : StartAccept(p, i) \/ StartRevoke(p, i) \/ StartTidy(p, i)
               \/ StartDelete(p)
        PROVE  at'[p] \notin {"depart", "transfer"}
    BY <2>3 DEF Starts, StartInvite, StartAccept, StartRevoke, StartTidy, StartDelete,
                OwnerInv, LockInv, TypeOK
  <2> QED BY <2>1, <2>2, <2>3 DEF Start
<1> QED BY <1>1, <1>2, PeopleAlone

\* Steps on the way, and ends that touch nobody.
LEMMA OnTheWayOwner ==
  ASSUME OwnerInv, LockInv', NEW p \in Procs,
         Supersede(p) \/ Lock(p) \/ Count(p) \/ Take(p) \/ Revoke(p) \/ Rollback(p)
           \/ \E i \in Ids : CommitInvite(p, i)
  PROVE  OwnerInv'
<1>1. UNCHANGED people /\ UNCHANGED history
  BY DEF Supersede, Lock, Count, Take, Revoke, Rollback, CommitInvite
<1>2. /\ at'[p] \in {"idle", "lock", "count", "insert"}
      /\ \A q \in Procs \ {p} : Waits(q)
  <2>1. CASE Ends(p) BY <2>1 DEF Ends, Waits, OwnerInv, LockInv, TypeOK
  <2>2. CASE ~Ends(p)
    BY <2>2 DEF Supersede, Lock, Count, Take, Revoke, Rollback, CommitInvite, memory, Waits,
                OwnerInv, LockInv, TypeOK
  <2> QED BY <2>1, <2>2
<1> QED BY <1>1, <1>2, PeopleAlone

LEMMA EndsWaits ==
  ASSUME OwnerInv, NEW p \in Procs, Ends(p)
  PROVE  Waiting(p)' /\ \A q \in Procs \ {p} : Waits(q)
BY DEF Ends, Waiting, Waits, OwnerInv, LockInv, TypeOK

LEMMA AcceptOwner ==
  ASSUME OwnerInv, LockInv', NEW p \in Procs, CommitAccept(p)
  PROVE  OwnerInv'
<1>1. CASE Rollback(p) BY <1>1, OnTheWayOwner
<1>2. CASE ~Rollback(p)
  <2>1. /\ live' = live \cup who[p] /\ Ends(p) /\ UNCHANGED <<owner, deleted, overtaken>>
        /\ role' = [u \in People |-> IF u \in who[p] THEN "member" ELSE role[u]]
        /\ \A u \in who[p] : role[u] = "none"
    BY <1>2 DEF CommitAccept, history
  <2>2. who[p] \subseteq People /\ live \subseteq People /\ role \in [People -> {"none", "owner", "member"}]
    BY DEF OwnerInv, LockInv, TypeOK
  <2>3. \A u \in live : u \notin who[p] /\ role'[u] = role[u]
    BY <2>1, <2>2 DEF OwnerInv, Rolled
  <2>4. \A u \in live' \ live : role'[u] = "member" BY <2>1, <2>2
  <2>5. Rolled' BY <2>3, <2>4 DEF OwnerInv, Rolled
  <2>6. OneOwner' BY <2>1, <2>3, <2>4 DEF OwnerInv, OneOwner
  <2>7. ASSUME NEW q \in Procs PROVE Waiting(q)'
    <3>1. CASE q = p BY <2>1, <3>1, EndsWaits
    <3>2. CASE q # p
      <4>1. Waits(q) /\ Waiting(q) BY <2>1, <3>2, EndsWaits DEF OwnerInv
      <4>2. live \subseteq live' BY <2>1
      <4>3. Fresh(q) => Fresh(q)' BY <2>1, <2>3, <4>1, <4>2 DEF Fresh, Waits
      <4>4. Repeated(q) => Repeated(q)' BY <2>1, <4>1 DEF Repeated, Waits
      <4> QED BY <2>1, <4>1, <4>3, <4>4 DEF Waiting, Waits
    <3> QED BY <3>1, <3>2
  <2> QED BY <2>5, <2>6, <2>7 DEF OwnerInv
<1> QED BY <1>1, <1>2

LEMMA DepartOwner ==
  ASSUME OwnerInv, LockInv', NEW p \in Procs,
         CommitDelete(p) \/ (Depart(p) /\ p \notin overtaken)
  PROVE  OwnerInv'
<1>1. /\ Ends(p) /\ live' = live \ who[p] /\ UNCHANGED <<role, owner>>
      /\ deleted' \/ (Depart(p) /\ p \notin overtaken /\ deleted' = deleted)
  BY DEF Depart, CommitDelete
<1>2. Rolled' BY <1>1 DEF OwnerInv, Rolled
<1>3. CASE deleted'
  <2>1. OneOwner' BY <1>3 DEF OneOwner
  <2>2. \A q \in Procs : Waiting(q)' BY <1>3 DEF Waiting
  <2> QED BY <1>2, <2>1, <2>2 DEF OwnerInv
<1>4. CASE ~deleted'
  <2>1. at[p] = "depart" /\ p \notin overtaken /\ ~deleted /\ Marks(p) /\ UNCHANGED deleted
    BY <1>1, <1>4 DEF Depart
  <2>2. PICK u \in People \ {owner} : who[p] = {u} BY <2>1 DEF OwnerInv, Waiting
  <2>3. OneOwner' BY <1>1, <2>1, <2>2 DEF OwnerInv, OneOwner
  <2>4. ASSUME NEW q \in Procs PROVE Waiting(q)'
    <3>1. CASE q = p BY <1>1, <3>1, EndsWaits
    <3>2. CASE q # p
      <4>1. Waits(q) /\ Waiting(q) BY <1>1, <3>2, EndsWaits DEF OwnerInv
      <4>2. SUFFICES ASSUME q \notin overtaken'
                     PROVE  /\ at[q] = "depart" => \E v \in People \ {owner} : who[q] = {v}
                            /\ at[q] = "transfer" =>
                                 seen[q].from = "owner" /\ (Fresh(q)' \/ Repeated(q)')
        BY <1>1, <4>1 DEF Waiting, Waits
      <4>3. q \notin overtaken /\ ~Overtakes(p, q) BY <2>1, <3>2, <4>2 DEF Marks
      <4>4. CASE at[q] = "depart" BY <2>1, <4>1, <4>3, <4>4 DEF Waiting
      <4>5. CASE at[q] = "transfer"
        <5>1. who[q] # {u} BY <2>1, <2>2, <4>3, <4>5 DEF Overtakes
        <5>2. seen[q].from = "owner" /\ (Fresh(q) \/ Repeated(q))
          BY <2>1, <4>1, <4>3, <4>5 DEF Waiting
        <5>3. Fresh(q) => Fresh(q)' BY <1>1, <2>2, <4>1, <5>1 DEF Fresh, Waits
        <5>4. Repeated(q) => Repeated(q)' BY <1>1, <4>1 DEF Repeated, Waits
        <5> QED BY <4>5, <5>2, <5>3, <5>4
      <4> QED BY <4>4, <4>5
    <3> QED BY <3>1, <3>2
  <2> QED BY <1>2, <2>3, <2>4 DEF OwnerInv
<1> QED BY <1>3, <1>4

LEMMA TransferOwner ==
  ASSUME OwnerInv, LockInv', NEW p \in Procs, CommitTransfer(p), p \notin overtaken
  PROVE  OwnerInv'
<1>1. PICK t \in People : who[p] = {t}
  BY DEF OwnerInv, LockInv, Guarded, Single, InTransaction, CommitTransfer
<1>2. /\ at[p] = "transfer" /\ Ends(p) /\ Marks(p) /\ UNCHANGED <<live, deleted>> /\ owner' = t
      /\ role' = [u \in People |->
           CASE u \in {t} -> Changed(seen[p].to, "owner", role[u])
             [] u = seen[p].owner -> Changed(seen[p].from, "member", role[u])
             [] OTHER -> role[u]]
  BY <1>1 DEF CommitTransfer
<1>3. /\ live \subseteq People /\ owner \in People
      /\ role \in [People -> {"none", "owner", "member"}]
  BY DEF OwnerInv, LockInv, TypeOK
<1>4. \A u \in People : role'[u] = role[u] \/ role'[u] \in {"owner", "member"}
  BY <1>2, <1>3 DEF Changed
<1>5. Rolled' BY <1>2, <1>3, <1>4 DEF OwnerInv, Rolled
<1>6. CASE deleted
  <2>1. OneOwner' BY <1>2, <1>6 DEF OneOwner
  <2>2. \A q \in Procs : Waiting(q)' BY <1>2, <1>6 DEF Waiting
  <2> QED BY <1>5, <2>1, <2>2 DEF OwnerInv
<1>7. CASE ~deleted
  <2>1. seen[p].from = "owner" /\ (Fresh(p) \/ Repeated(p)) BY <1>2, <1>7 DEF OwnerInv, Waiting
  <2>2. /\ owner \in live /\ role[owner] = "owner"
        /\ \A u \in live \ {owner} : role[u] # "owner" /\ role[u] = "member"
    BY <1>3, <1>7 DEF OwnerInv, OneOwner, Rolled
  <2>3. t \in live /\ role'[t] = "owner"
    <3>1. CASE Fresh(p) BY <1>1, <1>2, <1>3, <2>2, <3>1 DEF Fresh, Changed
    <3>2. CASE Repeated(p) BY <1>1, <1>2, <1>3, <2>2, <3>2 DEF Repeated, Changed
    <3> QED BY <2>1, <3>1, <3>2
  <2>4. ASSUME NEW u \in live, u # t PROVE role'[u] = "member"
    <3>1. u = seen[p].owner => role'[u] = "member"
      BY <1>2, <1>3, <2>1, <2>4 DEF Changed
    <3>2. u # seen[p].owner => role'[u] = role[u]
      BY <1>2, <1>3, <2>4
    <3>3. u # seen[p].owner => u # owner
      BY <1>1, <2>1, <2>4 DEF Fresh, Repeated
    <3> QED BY <2>2, <3>1, <3>2, <3>3
  <2>5. OneOwner' BY <1>2, <2>3, <2>4 DEF OneOwner
  <2>6. ASSUME NEW q \in Procs PROVE Waiting(q)'
    <3>1. CASE q = p BY <1>2, <3>1, EndsWaits
    <3>2. CASE q # p
      <4>1. Waits(q) /\ Waiting(q) BY <1>2, <3>2, EndsWaits DEF OwnerInv
      <4>2. SUFFICES ASSUME q \notin overtaken'
                     PROVE  /\ at[q] = "depart" => \E v \in People \ {t} : who[q] = {v}
                            /\ at[q] = "transfer" =>
                                 seen[q].from = "owner" /\ (Fresh(q)' \/ Repeated(q)')
        BY <1>2, <4>1 DEF Waiting, Waits
      <4>3. q \notin overtaken /\ ~Overtakes(p, q) BY <1>2, <3>2, <4>2 DEF Marks
      <4>4. CASE at[q] = "depart"
        <5>1. \E v \in People \ {owner} : who[q] = {v} BY <1>7, <4>1, <4>3, <4>4 DEF Waiting
        <5>2. t # owner => who[q] # {t} BY <1>1, <1>2, <4>3, <4>4 DEF Overtakes
        <5> QED BY <4>4, <5>1, <5>2
      <4>5. CASE at[q] = "transfer"
        <5>1. seen[q].from = "owner" /\ (Fresh(q) \/ Repeated(q))
          BY <1>7, <4>1, <4>3, <4>5 DEF Waiting
        <5>2. CASE t = owner
          <6>1. Repeated(q) => Repeated(q)' BY <1>2, <4>1, <5>2 DEF Repeated, Waits
          <6>2. Fresh(q) => Fresh(q)'
            <7>1. \A u \in live \ {owner} : role'[u] = role[u] BY <2>2, <2>4, <5>2
            <7> QED BY <1>2, <4>1, <5>2, <7>1 DEF Fresh, Waits
          <6> QED BY <4>5, <5>1, <6>1, <6>2
        <5>3. CASE t # owner
          <6>1. who[q] = {t} BY <1>1, <1>2, <4>3, <4>5, <5>3 DEF Overtakes
          <6>2. Fresh(q) BY <5>1, <5>3, <6>1 DEF Repeated
          <6>3. seen[q].owner = owner /\ seen[q].to = role[t] /\ role[t] # "owner"
            BY <2>2, <5>3, <6>1, <6>2 DEF Fresh
          <6>4. Repeated(q)' BY <1>2, <4>1, <5>3, <6>1, <6>3 DEF Repeated, Waits
          <6> QED BY <4>5, <5>1, <6>4
        <5> QED BY <5>2, <5>3
      <4> QED BY <4>4, <4>5
    <3> QED BY <3>1, <3>2
  <2> QED BY <1>5, <2>5, <2>6 DEF OwnerInv
<1> QED BY <1>6, <1>7

LEMMA OwnerStep ==
  ASSUME LockInv, crossed \/ OwnerInv, [Next]_vars
  PROVE  LockInv' /\ (crossed' \/ OwnerInv')
<1>1. LockInv' BY NextSafe
<1>2. crossed => crossed'
  <2>1. UNCHANGED history \/ \E p \in Procs : Marks(p)
    BY DEF Next, Finish, Start, Starts, StartInvite, StartDepart, StartTransfer, StartAccept,
           StartRevoke, StartTidy, StartDelete, Supersede, Lock, Count, Take, Revoke, Rollback,
           CommitInvite, CommitAccept, Depart, CommitTransfer, CommitDelete, Expire, SetLimit, vars
  <2> QED BY <2>1 DEF history, Marks
<1> SUFFICES ASSUME OwnerInv PROVE crossed' \/ OwnerInv' BY <1>1, <1>2
<1>3. ASSUME NEW p \in Procs, Finish(p) PROVE crossed' \/ OwnerInv'
  <2>1. CASE Depart(p) \/ CommitTransfer(p)
    <3>1. p \in overtaken => crossed' BY <2>1 DEF Depart, CommitTransfer, Marks
    <3> QED BY <1>1, <2>1, <3>1, DepartOwner, TransferOwner
  <2>2. CASE CommitDelete(p) BY <1>1, <2>2, DepartOwner
  <2> QED BY <1>1, <1>3, <2>1, <2>2, OnTheWayOwner, AcceptOwner DEF Finish
<1>4. ASSUME NEW p \in Procs, Start(p) PROVE OwnerInv'
  BY <1>1, <1>4, StartOwner
<1>5. ASSUME UNCHANGED vars \/ (\E i \in Ids : Expire(i)) \/ (\E n \in Limits : SetLimit(n))
      PROVE  OwnerInv'
  <2>1. UNCHANGED people /\ UNCHANGED history /\ \A q \in Procs : Waits(q)
    BY <1>5 DEF vars, Expire, SetLimit, memory, Waits
  <2> QED BY <1>1, <2>1, PeopleAlone
<1> QED BY <1>3, <1>4, <1>5 DEF Next

(* A live workspace has one live owner, the one owner_id names             *)
(* (transferOwnership, remove, leave, accept, deleteOrganization), however *)
(* requests overlap, until a transfer or departure commits that another    *)
(* had overtaken.                                                          *)
THEOREM OneOwnerHolds == Spec => []OneOwnerUnlessCrossed
<1>1. Init => LockInv /\ (crossed \/ OwnerInv)
  <2> SUFFICES ASSUME Init PROVE LockInv /\ OwnerInv OBVIOUS
  <2>1. LockInv BY InitSafe
  <2> QED BY <2>1 DEF Init, OwnerInv, Rolled, OneOwner, Waiting
<1>2. LockInv /\ (crossed \/ OwnerInv) /\ [Next]_vars => LockInv' /\ (crossed' \/ OwnerInv')
  BY OwnerStep
<1>3. crossed \/ OwnerInv => OneOwnerUnlessCrossed BY DEF OwnerInv, OneOwnerUnlessCrossed
<1> QED BY <1>1, <1>2, <1>3, PTL DEF Spec
=============================================================================
