----------------------------- MODULE Workspace -----------------------------
(***************************************************************************)
(* One workspace and who is in it: invitations (invitation_service.ts),    *)
(* seats (seats.ts, lockAndAssertLimit), leaving, removal, transfer of     *)
(* ownership and deletion (membership_service.ts), and the job that tidies *)
(* lapsed invitations away. Requests overlap; the database is Postgres at  *)
(* read committed, so a transaction's writes show when it commits, a row   *)
(* it has written or locked makes others wait, and an update that waited   *)
(* looks again at the rows it had found, not for new ones.                 *)
(***************************************************************************)
EXTENDS Integers, FiniteSets

CONSTANTS
  People,    \* email addresses; a user row is one of them for ever
  Founder,   \* who registered the workspace
  Ids,       \* invitation rows
  Limits,    \* seat limits the plan or staff may set
  Procs,     \* requests and jobs in flight
  Does,      \* the kinds of request each of Procs makes
  None

Kinds == {"invite", "accept", "revoke", "tidy", "depart", "transfer", "delete"}

ASSUME WorkspaceAssumption ==
  /\ IsFiniteSet(People) /\ Founder \in People
  /\ IsFiniteSet(Ids) /\ None \notin Ids
  /\ Limits \subseteq Nat /\ Limits # {}
  /\ Does \in [Procs -> SUBSET Kinds]
  /\ None \notin Procs /\ None \notin People

VARIABLES
  role,      \* of each user row; "none" where there is no row
  live,      \* users that are not soft-deleted
  owner,     \* organizations.owner_id
  deleted,   \* organizations.deleted_at is set
  limit,     \* the seat limit the workspace's plan and overrides give
  to,        \* whom each invitation is for
  made,      \* invitation rows
  accepted, revoked, expired,   \* of them, each a column
  orgLock,   \* who has locked the organisation row
  at,        \* where each request is
  kind,      \* what it does
  who,       \* the users it is about, as it loaded them
  wants,     \* invitations its statement found
  held,      \* invitations its transaction has locked and taken out
  counted,   \* seats it counted under the lock
  seen,      \* owner_id and the roles it loaded
  overtaken, \* transfers and departures that another ended the reason for
  crossed    \* and whether one of them has committed all the same

people == <<role, live, owner, deleted>>
rows == <<to, made, accepted, revoked, expired>>
memory == <<kind, who, wants, held, counted, seen>>
history == <<overtaken, crossed>>
vars == <<people, limit, rows, orgLock, at, memory, history>>

Open == made \ (accepted \cup revoked)
Pending == Open \ expired
Used == Cardinality(live) + Cardinality(Pending)

\* What p's own transaction counts: the rows it takes out are gone already.
Counts(p) == Cardinality(live) + Cardinality(Pending \ held[p])
OneTooMany(n) == n <= limit                                            \* mutant
Fits(n) == n < limit
LockedByOthers(p) == UNION {held[q] : q \in Procs \ {p}}

Nobody == [owner |-> None, from |-> "none", to |-> "none"]

Init ==
  /\ role = [u \in People |-> IF u = Founder THEN "owner" ELSE "none"]
  /\ live = {Founder}
  /\ owner = Founder
  /\ deleted = FALSE
  /\ limit \in Limits
  /\ to = [i \in Ids |-> None]
  /\ made = {} /\ accepted = {} /\ revoked = {} /\ expired = {}
  /\ orgLock = None
  /\ at = [p \in Procs |-> "idle"]
  /\ kind = [p \in Procs |-> "none"]
  /\ who = [p \in Procs |-> {}]
  /\ wants = [p \in Procs |-> {}]
  /\ held = [p \in Procs |-> {}]
  /\ counted = [p \in Procs |-> 0]
  /\ seen = [p \in Procs |-> Nobody]
  /\ overtaken = {} /\ crossed = FALSE

-----------------------------------------------------------------------------
(* A request begins with what it loads and checks outside any lock.        *)
Starts(p, k, users, invitations, first) ==
  /\ at[p] = "idle" /\ k \in Does[p]
  /\ kind' = [kind EXCEPT ![p] = k]
  /\ who' = [who EXCEPT ![p] = users]
  /\ wants' = [wants EXCEPT ![p] = invitations]
  /\ at' = [at EXCEPT ![p] = first]
  /\ UNCHANGED <<people, limit, history, rows, orgLock, held, counted>>

\* The transaction ends, and with it every lock it held.
KeepsLock(p) == orgLock                                                \* mutant
Unlocked(p) == IF orgLock = p THEN None ELSE orgLock
Ends(p) ==
  /\ at' = [at EXCEPT ![p] = "idle"]
  /\ kind' = [kind EXCEPT ![p] = "none"]
  /\ who' = [who EXCEPT ![p] = {}]
  /\ wants' = [wants EXCEPT ![p] = {}]
  /\ held' = [held EXCEPT ![p] = {}]
  /\ counted' = [counted EXCEPT ![p] = 0]
  /\ seen' = [seen EXCEPT ![p] = Nobody]
  /\ orgLock' = Unlocked(p)

Rollback(p) == Ends(p) /\ UNCHANGED <<people, limit, rows, history>>

-----------------------------------------------------------------------------
(* Inviting: refuse a member, supersede what is open to that address, lock *)
(* the workspace, count, insert. Resending is inviting the address again.  *)

\* Ids bounds the invitations a behaviour has room for.
RoomForRow == Cardinality(made) + Cardinality({q \in Procs : kind[q] = "invite"})
                < Cardinality(Ids)

\* assertInvitable, then the update statement finds the rows to supersede.
StartInvite(p, u) ==
  /\ ~deleted /\ u \notin live /\ RoomForRow
  /\ Starts(p, "invite", {u}, {i \in Open : to[i] = u}, "supersede")
  /\ UNCHANGED seen

Supersede(p) ==
  /\ at[p] = "supersede"
  /\ wants[p] \cap LockedByOthers(p) = {}
  /\ held' = [held EXCEPT ![p] = wants[p] \cap Open]
  /\ at' = [at EXCEPT ![p] = "lock"]
  /\ UNCHANGED <<people, limit, history, rows, orgLock, kind, who, wants, counted, seen>>

\* Organization ... forUpdate(). Accepting asks for a live workspace as well.
Lock(p) ==
  /\ at[p] = "lock" /\ orgLock = None
  /\ IF kind[p] = "accept" /\ deleted
     THEN Rollback(p)
     ELSE /\ orgLock' = p
          /\ at' = [at EXCEPT ![p] = "count"]
          /\ UNCHANGED <<people, limit, history, rows, memory>>

\* seatUsage inside the transaction, and the comparison with the limit.
Count(p) ==
  /\ at[p] = "count"
  /\ IF Fits(Counts(p))
     THEN /\ counted' = [counted EXCEPT ![p] = Counts(p)]
          /\ at' = [at EXCEPT ![p] = "insert"]
          /\ UNCHANGED <<people, limit, history, rows, orgLock, kind, who, wants, held, seen>>
     ELSE Rollback(p)

CommitInvite(p, i) ==
  /\ at[p] = "insert" /\ kind[p] = "invite"
  /\ i \in Ids \ made
  /\ made' = made \cup {i}
  /\ revoked' = revoked \cup held[p]
  /\ to' = [to EXCEPT ![i] = CHOOSE u \in People : u \in who[p]]
  /\ Ends(p)
  /\ UNCHANGED <<people, limit, history, accepted, expired>>

-----------------------------------------------------------------------------
(* Accepting: lock the invitation and look at it again, consume it, lock   *)
(* the workspace, count, create the user.                                  *)

StartAccept(p, i) ==
  /\ i \in Pending
  /\ Starts(p, "accept", {to[i]}, {i}, "take")
  /\ UNCHANGED seen

UnexaminedOnceLocked(p) == TRUE                                        \* mutant
StillPending(p) == wants[p] \subseteq Pending

Take(p) ==
  /\ at[p] = "take"
  /\ wants[p] \cap LockedByOthers(p) = {}
  /\ IF StillPending(p)
     THEN /\ held' = [held EXCEPT ![p] = wants[p]]
          /\ at' = [at EXCEPT ![p] = "lock"]
          /\ UNCHANGED <<people, limit, history, rows, orgLock, kind, who, wants, counted, seen>>
     ELSE Rollback(p)

\* An address that ever had a user row cannot have another: the insert fails.
CommitAccept(p) ==
  /\ at[p] = "insert" /\ kind[p] = "accept"
  /\ IF \E u \in who[p] : role[u] # "none"
     THEN Rollback(p)
     ELSE /\ accepted' = accepted \cup held[p]
          /\ live' = live \cup who[p]
          /\ role' = [u \in People |-> IF u \in who[p] THEN "member" ELSE role[u]]
          /\ Ends(p)
          /\ UNCHANGED <<owner, deleted, limit, history, to, made, revoked, expired>>

-----------------------------------------------------------------------------
(* Revoking, and the nightly job: load, check, write revoked_at, with no   *)
(* lock and no second look.                                                *)

StartRevoke(p, i) ==
  /\ ~deleted /\ i \in Pending
  /\ Starts(p, "revoke", {}, {i}, "revoke")
  /\ UNCHANGED seen

StartTidy(p, i) ==
  /\ i \in Open \cap expired
  /\ Starts(p, "tidy", {}, {i}, "revoke")
  /\ UNCHANGED seen

Revoke(p) ==
  /\ at[p] = "revoke"
  /\ wants[p] \cap LockedByOthers(p) = {}
  /\ revoked' = revoked \cup wants[p]
  /\ Ends(p)
  /\ UNCHANGED <<people, limit, history, to, made, accepted, expired>>

-----------------------------------------------------------------------------
(* Membership. Who departs or transfers acts on what it loaded. A transfer *)
(* that makes a new owner takes the ground from under the transfers to     *)
(* others and from under the new owner's departure, and a departure from   *)
(* under the transfers to whoever left.                                    *)

Overtakes(p, q) ==
  /\ owner \notin who[p]
  /\ \/ at[p] = "transfer" /\ at[q] = "transfer" /\ who[q] # who[p]
     \/ {at[p], at[q]} = {"transfer", "depart"} /\ who[q] = who[p]
Marks(p) ==
  /\ overtaken' = (overtaken \ {p}) \cup {q \in Procs \ {p} : Overtakes(p, q)}
  /\ crossed' = (crossed \/ p \in overtaken)

DepartsAnyone(u) == TRUE                                               \* mutant
MayDepart(u) == u # owner

\* remove and leave: the owner_id loaded with the request is not this user.
StartDepart(p, u) ==
  /\ ~deleted /\ u \in live /\ MayDepart(u)
  /\ Starts(p, "depart", {u}, {}, "depart")
  /\ UNCHANGED seen

Depart(p) ==
  /\ at[p] = "depart"
  /\ live' = live \ who[p]
  /\ Ends(p) /\ Marks(p)
  /\ UNCHANGED <<role, owner, deleted, limit, rows>>

\* transferOwnership: the actor is the owner_id the request loaded.
StartTransfer(p, u) ==
  /\ ~deleted /\ u \in live /\ u # owner /\ owner \in live
  /\ Starts(p, "transfer", {u}, {}, "transfer")
  /\ seen' = [seen EXCEPT ![p] = [owner |-> owner, from |-> role[owner], to |-> role[u]]]

Changed(old, new, row) == IF old = new THEN row ELSE new

\* Three saves in one transaction, each writing its column if it differs from
\* what was loaded.
CommitTransfer(p) ==
  /\ at[p] = "transfer" /\ orgLock = None
  /\ role' = [u \in People |->
       CASE u \in who[p] -> Changed(seen[p].to, "owner", role[u])
         [] u = seen[p].owner -> Changed(seen[p].from, "member", role[u])
         [] OTHER -> role[u]]
  /\ owner' = CHOOSE u \in People : u \in who[p]
  /\ Ends(p) /\ Marks(p)
  /\ UNCHANGED <<live, deleted, limit, rows>>

\* deleteOrganization: stamp the users the first statement finds, then the
\* workspace row, waiting for whoever has locked it.
StartDelete(p) ==
  /\ ~deleted
  /\ Starts(p, "delete", live, {}, "delete")
  /\ UNCHANGED seen

CommitDelete(p) ==
  /\ at[p] = "delete" /\ orgLock = None
  /\ live' = live \ who[p]
  /\ deleted' = TRUE
  /\ Ends(p)
  /\ UNCHANGED <<role, owner, limit, history, rows>>

-----------------------------------------------------------------------------
(* Time passes, and billing or staff change the limit: an update of the    *)
(* organisation row, which waits for its lock.                             *)

Expire(i) ==
  /\ i \in made \ expired
  /\ expired' = expired \cup {i}
  /\ UNCHANGED <<people, limit, history, to, made, accepted, revoked, orgLock, at, memory>>

SetLimit(n) ==
  /\ orgLock = None /\ n # limit
  /\ limit' = n
  /\ UNCHANGED <<people, history, rows, orgLock, at, memory>>

Finish(p) ==
  \/ Supersede(p) \/ Lock(p) \/ Count(p) \/ Take(p) \/ CommitAccept(p)
  \/ Revoke(p) \/ Depart(p) \/ CommitTransfer(p) \/ CommitDelete(p)
  \/ \E i \in Ids : CommitInvite(p, i)

Start(p) ==
  \/ \E u \in People : StartInvite(p, u) \/ StartDepart(p, u) \/ StartTransfer(p, u)
  \/ \E i \in Ids : StartAccept(p, i) \/ StartRevoke(p, i) \/ StartTidy(p, i)
  \/ StartDelete(p)

Next ==
  \/ \E p \in Procs : Start(p) \/ Finish(p)
  \/ \E i \in Ids : Expire(i)
  \/ \E n \in Limits : SetLimit(n)

Spec == Init /\ [][Next]_vars

\* Every request is served to its end, and the database grants a lock that is
\* free again and again to whoever waits for it.
FairSpec == Spec /\ \A p \in Procs : SF_vars(Finish(p))

-----------------------------------------------------------------------------
Places == {"idle", "supersede", "take", "lock", "count", "insert", "revoke",
           "depart", "transfer", "delete"}

TypeOK ==
  /\ role \in [People -> {"none", "owner", "member"}]
  /\ live \subseteq People /\ owner \in People
  /\ deleted \in BOOLEAN /\ limit \in Limits
  /\ to \in [Ids -> People \cup {None}]
  /\ made \subseteq Ids /\ accepted \subseteq made /\ revoked \subseteq made
  /\ expired \subseteq made
  /\ orgLock \in Procs \cup {None}
  /\ at \in [Procs -> Places]
  /\ kind \in [Procs -> Kinds \cup {"none"}]
  /\ who \in [Procs -> SUBSET People]
  /\ wants \in [Procs -> SUBSET made] /\ held \in [Procs -> SUBSET made]
  /\ counted \in [Procs -> Nat]
  /\ seen \in [Procs -> [owner : People \cup {None}, from : {"none", "owner", "member"},
                         to : {"none", "owner", "member"}]]
  /\ overtaken \subseteq Procs /\ crossed \in BOOLEAN

\* What the locks give a transaction: the workspace row to one at a time, every
\* invitation to one at a time, and a count that others can only make smaller.
InTransaction == {"lock", "count", "insert"}
Single(p) == \E u \in People : who[p] = {u}
Guarded(p) ==
  /\ orgLock = p <=> at[p] \in {"count", "insert"}
  /\ held[p] # {} => at[p] \in InTransaction
  /\ at[p] \in InTransaction \cup {"supersede", "take", "transfer"} => Single(p)
  /\ kind[p] = "accept" => held[p] \cap revoked = {}
  /\ at[p] = "insert" => Counts(p) <= counted[p] /\ counted[p] < limit
Disjoint == \A p, q \in Procs : p # q => held[p] \cap held[q] = {}
Addressed == \A i \in made : to[i] \in People
LockInv == TypeOK /\ Addressed /\ Disjoint /\ \A p \in Procs : Guarded(p)

(* A seat is a member or a pending invitation. Whatever overlaps, nobody   *)
(* claims a seat beyond the limit in force when the claim commits: a plan  *)
(* may shrink under a full workspace, but the next claim is refused.       *)
ClaimsFit == [][Used' > Used => Used' <= limit']_vars

(* A link that was withdrawn or superseded lets nobody in, even one that   *)
(* was open when its holder clicked it.                                    *)
RevokedNeverJoins == [][(accepted' \ accepted) \cap revoked = {}]_vars

(* A workspace that has not been deleted has one live owner, the one       *)
(* owner_id names: departures, transfers and joins keep the two together.  *)
OneOwner == ~deleted => {u \in live : role[u] = "owner"} = {owner} /\ owner \in live

(* However requests overlap that is so, unless a transfer or departure     *)
(* committed that another transfer or departure had overtaken: submitting  *)
(* one transfer twice is harmless, and so is somebody else leaving.        *)
OneOwnerUnlessCrossed == crossed \/ OneOwner

(* Nobody waits for ever: invitations and the workspace row are locked in  *)
(* an order that cannot deadlock, and every refusal lets go.               *)
EveryRequestEnds == \A p \in Procs : at[p] # "idle" ~> at[p] = "idle"
=============================================================================
