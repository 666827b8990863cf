------------------------------- MODULE Staff -------------------------------
(***************************************************************************)
(* The back office's own people: accounts that are created and disabled,   *)
(* staff who look at the product as a customer, and what the audit trail   *)
(* says of both (staff_controller.ts, impersonation_controller.ts, the     *)
(* impersonation and staff_auth middleware, audit_service.ts).             *)
(***************************************************************************)
EXTENDS Integers

CONSTANTS
  Hands, Admins, Founders,   \* staff accounts; admins; those there from the start
  Users,                     \* customers
  Windows,                   \* browsers, each with one session
  WindowsDo,                 \* bound: toggles there, tenant screens there
  NoStaff

StaffRow == [disabled : BOOLEAN, enrolled : BOOLEAN]
ImpersonationState ==
  [staffId : Hands, userId : Users, writes : BOOLEAN, expired : BOOLEAN]

ASSUME StaffAssumption ==
  /\ Admins \subseteq Hands /\ Founders \subseteq Hands /\ Founders \cap Admins # {}
  /\ WindowsDo \in [Windows -> SUBSET {"toggle", "tenant"}]
  /\ NoStaff \notin Hands \cup Users
  /\ NoStaff \notin StaffRow /\ NoStaff \notin ImpersonationState

VARIABLES
  staffRow,    \* staff_users
  window,      \* the sessions: staff guard, web guard, impersonation state, and
               \* which staff member the web guard was lent to
  task,        \* the toggle under way in each
  closed,      \* users removed, or whose workspace is gone or suspended
  told,        \* what the newest audit entry about an account says, "unsure"
               \* once an entry was lost or two toggles of it overlapped
  lateToggle         \* somebody disabled since their request began has saved a toggle

staffVars == <<staffRow, window, task, closed, told, lateToggle>>

NoTask == [step |-> "none", about |-> NoStaff, disabling |-> FALSE]
SignedOut == [staff |-> NoStaff, web |-> NoStaff, state |-> NoStaff, lent |-> NoStaff]

StaffInit ==
  /\ staffRow = [s \in Hands |->
       IF s \in Founders THEN [disabled |-> FALSE, enrolled |-> TRUE] ELSE NoStaff]
  /\ window = [w \in Windows |-> SignedOut]
  /\ task = [w \in Windows |-> NoTask]
  /\ closed = {} /\ lateToggle = FALSE
  /\ told = [s \in Hands |-> "enabled"]

Accounts == {s \in Hands : staffRow[s] # NoStaff}
Active == {s \in Accounts : ~staffRow[s].disabled}

-----------------------------------------------------------------------------
(* Every request passes the impersonation middleware first.                *)

Impersonates(w) == window[w].state # NoStaff

Ended(w) ==
  IF Impersonates(w)
  THEN window[w].state.expired \/ window[w].state.staffId \notin Active ELSE FALSE
MayGet(w) == task[w] = NoTask /\ ~Ended(w)
MayPost(w) ==
  MayGet(w) /\ IF Impersonates(w) THEN window[w].state.writes ELSE TRUE

OnlyForgets(session) == [session EXCEPT !.state = NoStaff]             \* mutant
End(session) ==
  [session EXCEPT !.state = NoStaff, !.web = NoStaff, !.lent = NoStaff]

\* Expired, or its staff member disabled: whatever was asked for, it ends.
EndImpersonation(w) ==
  /\ task[w] = NoTask /\ Ended(w)
  /\ window' = [window EXCEPT ![w] = End(@)]
  /\ UNCHANGED <<staffRow, task, closed, told, lateToggle>>

ExpireImpersonation(w) ==
  /\ Impersonates(w) /\ ~window[w].state.expired
  /\ window' = [window EXCEPT ![w].state.expired = TRUE]
  /\ UNCHANGED <<staffRow, task, closed, told, lateToggle>>

-----------------------------------------------------------------------------
(* The staff guard: a disabled account is out at its next request.         *)

\* Password, and the second factor that every account must have.
Admits(s) == s \in Active /\ staffRow[s].enrolled

StaffSignsIn(w, s) ==
  /\ MayPost(w) /\ window[w].staff = NoStaff /\ Admits(s)
  /\ window' = [window EXCEPT ![w].staff = s]
  /\ UNCHANGED <<staffRow, task, closed, told, lateToggle>>

StaffSignsOut(w) ==
  /\ window[w].staff # NoStaff
  /\ MayPost(w) \/ (MayGet(w) /\ window[w].staff \notin Active)
  /\ window' = [window EXCEPT ![w].staff = NoStaff]
  /\ UNCHANGED <<staffRow, task, closed, told, lateToggle>>

\* manageStaff: active admins.
ManagesStaff(w) == MayPost(w) /\ window[w].staff \in Active \cap Admins

-----------------------------------------------------------------------------
(* admin/staff.                                                            *)

CreateStaff(w, s) ==
  /\ ManagesStaff(w) /\ s \notin Accounts
  /\ staffRow' = [staffRow EXCEPT ![s] = [disabled |-> FALSE, enrolled |-> FALSE]]
  /\ UNCHANGED <<window, task, closed, told, lateToggle>>

\* node ace staff:create enrols as it creates. (--skip-two-factor is left out.)
CommandCreatesStaff(s) ==
  /\ s \notin Accounts
  /\ staffRow' = [staffRow EXCEPT ![s] = [disabled |-> FALSE, enrolled |-> TRUE]]
  /\ UNCHANGED <<window, task, closed, told, lateToggle>>

MayToggle(actor, s) == s # actor

BeginToggle(w, s) ==
  /\ "toggle" \in WindowsDo[w]
  /\ ManagesStaff(w) /\ s \in Accounts /\ MayToggle(window[w].staff, s)
  /\ task' = [task EXCEPT ![w] =
       [step |-> "save", about |-> s, disabling |-> ~staffRow[s].disabled]]
  /\ told' = IF \E v \in Windows : task[v].about = s
             THEN [told EXCEPT ![s] = "unsure"] ELSE told
  /\ UNCHANGED <<staffRow, window, closed, lateToggle>>

SaveToggle(w) ==
  /\ task[w].step = "save"
  /\ staffRow' = [staffRow EXCEPT ![task[w].about].disabled = task[w].disabling]
  /\ task' = [task EXCEPT ![w].step = "record"]
  /\ lateToggle' = (lateToggle \/ window[w].staff \notin Active)
  /\ UNCHANGED <<window, closed, told>>

ToggleEntry(disabling) == IF disabling THEN "disabled" ELSE "enabled"

RecordToggle(w) ==
  /\ task[w].step = "record"
  /\ told' = [told EXCEPT ![task[w].about] =
       IF @ = "unsure" THEN @ ELSE ToggleEntry(task[w].disabling)]
  /\ task' = [task EXCEPT ![w] = NoTask]
  /\ UNCHANGED <<staffRow, window, closed, lateToggle>>

\* The entry cannot be written, which is swallowed, or the process dies.
ToggleUnrecorded(w) ==
  /\ task[w] # NoTask
  /\ task' = [task EXCEPT ![w] = NoTask]
  /\ told' = [told EXCEPT ![task[w].about] = "unsure"]
  /\ UNCHANGED <<staffRow, window, closed, lateToggle>>

-----------------------------------------------------------------------------
(* Impersonation, and the customers' own sessions in the same browser.     *)

StartImpersonation(w, u) ==
  /\ "tenant" \in WindowsDo[w]
  /\ MayPost(w) /\ window[w].staff \in Active /\ u \notin closed
  /\ window' = [window EXCEPT ![w].web = u, ![w].lent = window[w].staff,
       ![w].state = [staffId |-> window[w].staff, userId |-> u,
                     writes |-> window[w].staff \in Admins, expired |-> FALSE]]
  /\ UNCHANGED <<staffRow, task, closed, told, lateToggle>>

\* stop-impersonating is the one POST support may make.
StopImpersonating(w) ==
  /\ MayGet(w)
  /\ window' = [window EXCEPT ![w] = End(@)]
  /\ UNCHANGED <<staffRow, task, closed, told, lateToggle>>

UserSignsIn(w, u) ==
  /\ "tenant" \in WindowsDo[w]
  /\ MayPost(w) /\ window[w].web = NoStaff /\ u \notin closed
  /\ window' = [window EXCEPT ![w].web = u, ![w].lent = NoStaff]
  /\ UNCHANGED <<staffRow, task, closed, told, lateToggle>>

\* The sign-out button, or a removed user or closed workspace at the next
\* request. Neither forgets an impersonation.
UserSignsOut(w) ==
  /\ window[w].web # NoStaff
  /\ MayPost(w) \/ (MayGet(w) /\ window[w].web \in closed)
  /\ window' = [window EXCEPT ![w].web = NoStaff, ![w].lent = NoStaff]
  /\ UNCHANGED <<staffRow, task, closed, told, lateToggle>>

\* What recordUserAction writes when a tenant screen changes something now, and
\* the staff member the session really was lent to.
Changes(w) == MayPost(w) /\ window[w].web \in Users \ closed
Entry(w) ==
  [lent |-> window[w].lent,
   impersonator |-> IF Impersonates(w) THEN window[w].state.staffId ELSE NoStaff]

CloseUser(u) ==
  /\ closed' = IF u \in closed THEN closed \ {u} ELSE closed \cup {u}
  /\ UNCHANGED <<staffRow, window, task, told, lateToggle>>

StaffNext ==
  \/ \E w \in Windows :
       \/ EndImpersonation(w) \/ ExpireImpersonation(w) \/ StaffSignsOut(w)
       \/ \E s \in Hands : StaffSignsIn(w, s) \/ CreateStaff(w, s) \/ BeginToggle(w, s)
       \/ SaveToggle(w) \/ RecordToggle(w) \/ ToggleUnrecorded(w)
       \/ \E u \in Users : StartImpersonation(w, u) \/ UserSignsIn(w, u)
       \/ StopImpersonating(w) \/ UserSignsOut(w)
  \/ \E s \in Hands : CommandCreatesStaff(s)
  \/ \E u \in Users : CloseUser(u)

StaffSpec == StaffInit /\ [][StaffNext]_staffVars

-----------------------------------------------------------------------------

\* Sessions name accounts and users that exist, and only an account that
\* exists is toggled (staff_users, the two guards, the session's state).
StaffTypeOK ==
  /\ \A s \in Hands : staffRow[s] \in StaffRow \/ staffRow[s] = NoStaff
  /\ \A w \in Windows :
       /\ window[w].staff \in Accounts \cup {NoStaff}
       /\ window[w].web \in Users \cup {NoStaff}
       /\ window[w].lent \in Accounts \cup {NoStaff}
       /\ window[w].state \in ImpersonationState \/ window[w].state = NoStaff
       /\ task[w] # NoTask => task[w].about \in Accounts /\ window[w].staff \in Admins

\* "That single rule is what keeps the back-office reachable": some admin who
\* has a second factor is never disabled, as long as nobody's toggle is saved
\* after they were disabled themselves (toggle).
BackOfficeReachable == lateToggle \/ \E s \in Active \cap Admins : staffRow[s].enrolled

\* What is done in a session that was lent to staff names both the customer
\* and the staff member, who is an admin: support only looks. Whatever signed
\* the session in or out before, and whoever else used the browser
\* (impersonation.ts, recordUserAction).
ActsAreOwned ==
  \A w \in Windows :
    Changes(w) /\ Entry(w).lent # NoStaff =>
      Entry(w).lent \in Admins /\ Entry(w).impersonator = Entry(w).lent

\* The newest entry about an account says whether it is disabled, unless two
\* toggles of it overlapped or an entry was lost (toggle, audit write).
TrailTellsWhoIsIn ==
  \A s \in Accounts :
    told[s] # "unsure" /\ (\A w \in Windows : task[w].about # s) =>
      (told[s] = "disabled" <=> staffRow[s].disabled)

\* What the back-office promises of who is in it and what they leave behind, at
\* any moment (staff_controller.ts, impersonation.ts, audit_service.ts).
StaffSafe == StaffTypeOK /\ BackOfficeReachable /\ ActsAreOwned /\ TrailTellsWhoIsIn
=============================================================================
