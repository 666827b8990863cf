---------------------------- MODULE Registration ----------------------------
(***************************************************************************)
(* How accounts come to be: the sign-up form and the first sign-in through *)
(* a provider, which create a workspace, its owner and the provider's link *)
(* in one transaction, and the gate in front of both                       *)
(* (registration_service.ts, social_auth_controller.ts, slug.ts).          *)
(* Everybody asks for the same name, so that slugs collide.                *)
(***************************************************************************)
EXTENDS Integers, FiniteSetsExt

CONSTANTS
  Emails, Identities,     \* addresses; identities at a provider
  MaxSlugs, ReservedSlugs,  \* the name, name-2, ... and those that are routes
  Visits,                 \* requests under way at once
  NoAccount

SlugNumbers == 1..MaxSlugs
AccountRow == [org : SlugNumbers, madeBy : Identities \cup {NoAccount},
               verified : BOOLEAN, deleted : BOOLEAN]
LinkRow == [email : Emails, proved : BOOLEAN]

ASSUME RegistrationAssumption ==
  /\ MaxSlugs \in Nat /\ ReservedSlugs \subseteq SlugNumbers
  /\ NoAccount \notin Emails \cup Identities
  /\ NoAccount \notin AccountRow /\ NoAccount \notin LinkRow

VARIABLES
  account,      \* users, by address
  workspace,    \* organizations, by slug: the address of the owner
  link,         \* social_accounts: whose account an identity opens, and whether
                \* its provider called the address verified
  gate,         \* registration_enabled
  visit         \* where each request is

registrationVars == <<account, workspace, link, gate, visit>>

NoVisit == [step |-> "idle", email |-> NoAccount, identity |-> NoAccount,
            proved |-> FALSE, slug |-> 0]

RegistrationInit ==
  /\ account = [e \in Emails |-> NoAccount]
  /\ workspace = [n \in SlugNumbers |-> NoAccount]
  /\ link = [i \in Identities |-> NoAccount]
  /\ gate \in BOOLEAN
  /\ visit = [v \in Visits |-> NoVisit]

TakenEmails == {e \in Emails : account[e] # NoAccount}
FreeSlugs == {n \in SlugNumbers \ ReservedSlugs : workspace[n] = NoAccount}
Linked == {i \in Identities : link[i] # NoAccount}
Leave(v) == visit' = [visit EXCEPT ![v] = NoVisit]

-----------------------------------------------------------------------------
(* The two doors.                                                          *)

\* signup: the gate before the form is looked at, the address not taken.
SignUp(v, e) ==
  /\ visit[v] = NoVisit /\ gate /\ e \notin TakenEmails
  /\ visit' = [visit EXCEPT ![v] = [NoVisit EXCEPT !.step = "register", !.email = e]]
  /\ UNCHANGED <<account, workspace, link, gate>>

LinksTo(e, proved) ==
  IF proved /\ e \in TakenEmails THEN ~account[e].deleted ELSE FALSE

\* callback of an identity that opens no account yet; one that does signs in,
\* and nothing below changes.
Callback(v, i, e, proved) ==
  /\ visit[v] = NoVisit /\ link[i] = NoAccount
  /\ visit' = [visit EXCEPT ![v] =
       [step |-> IF LinksTo(e, proved) THEN "link" ELSE "register",
        email |-> e, identity |-> i, proved |-> proved, slug |-> 0]]
  /\ UNCHANGED <<account, workspace, link, gate>>

LinkAccount(v) ==
  /\ visit[v].step = "link" /\ link[visit[v].identity] = NoAccount
  /\ link' = [link EXCEPT ![visit[v].identity] =
       [email |-> visit[v].email, proved |-> visit[v].proved]]
  /\ visit' = [visit EXCEPT ![v].step = "prove"]
  /\ UNCHANGED <<account, workspace, gate>>

\* Only a verified address proves the account's.
Prove(v) ==
  /\ visit[v].step = "prove"
  /\ account' = IF visit[v].proved
                THEN [account EXCEPT ![visit[v].email].verified = TRUE] ELSE account
  /\ Leave(v)
  /\ UNCHANGED <<workspace, link, gate>>

-----------------------------------------------------------------------------
(* register: assertOpen, the first slug that is free, then three inserts   *)
(* that are all committed or none.                                         *)

PickSlug(v) ==
  /\ visit[v].step = "register" /\ gate /\ FreeSlugs # {}
  /\ visit' = [visit EXCEPT ![v].step = "insert", ![v].slug = Min(FreeSlugs)]
  /\ UNCHANGED <<account, workspace, link, gate>>

\* The unique indices on the address, the slug and the identity.
IndicesAllow(v) ==
  /\ visit[v].email \notin TakenEmails
  /\ workspace[visit[v].slug] = NoAccount
  /\ IF visit[v].identity = NoAccount THEN TRUE ELSE link[visit[v].identity] = NoAccount

Commit(v) ==
  LET e == visit[v].email
      i == visit[v].identity
  IN /\ visit[v].step = "insert" /\ IndicesAllow(v)
     /\ workspace' = [workspace EXCEPT ![visit[v].slug] = e]
     /\ account' = [account EXCEPT ![e] =
          [org |-> visit[v].slug, madeBy |-> i, verified |-> FALSE, deleted |-> FALSE]]
     /\ link' = IF i = NoAccount THEN link
                ELSE [link EXCEPT ![i] = [email |-> e, proved |-> visit[v].proved]]
     /\ visit' = [visit EXCEPT ![v].step = "prove"]
     /\ UNCHANGED gate

FailHalfway(v) ==                                                      \* mutant
  /\ visit[v] # NoVisit
  /\ workspace' = IF visit[v].step = "insert" THEN [workspace EXCEPT ![visit[v].slug] =
       IF @ = NoAccount THEN visit[v].email ELSE @] ELSE workspace
  /\ Leave(v)
  /\ UNCHANGED <<account, link, gate>>

\* Refused by the gate or an index, or the process dies.
Fail(v) ==
  /\ visit[v] # NoVisit
  /\ Leave(v)
  /\ UNCHANGED <<account, workspace, link, gate>>

-----------------------------------------------------------------------------

\* settings.set by an administrator.
SetGate ==
  /\ gate' = ~gate
  /\ UNCHANGED <<account, workspace, link, visit>>

\* A removed member keeps the address; the workspace keeps its slug.
RemoveAccount(e) ==
  /\ e \in TakenEmails /\ ~account[e].deleted
  /\ account' = [account EXCEPT ![e].deleted = TRUE]
  /\ UNCHANGED <<workspace, link, gate, visit>>

RegistrationNext ==
  \/ \E v \in Visits :
       \/ \E e \in Emails :
            SignUp(v, e) \/ \E i \in Identities, proved \in BOOLEAN : Callback(v, i, e, proved)
       \/ LinkAccount(v) \/ Prove(v) \/ PickSlug(v) \/ Commit(v) \/ Fail(v)
  \/ SetGate
  \/ \E e \in Emails : RemoveAccount(e)

RegistrationSpec == RegistrationInit /\ [][RegistrationNext]_registrationVars

-----------------------------------------------------------------------------

\* Rows are of their own kind, and a request inserts under a slug it picked
\* (users, organizations, social_accounts).
RegistrationTypeOK ==
  /\ \A e \in Emails : account[e] \in AccountRow \/ account[e] = NoAccount
  /\ \A n \in SlugNumbers : workspace[n] \in Emails \cup {NoAccount}
  /\ \A i \in Identities : link[i] \in LinkRow \/ link[i] = NoAccount
  /\ \A v \in Visits : visit[v].step = "insert" => visit[v].slug \in SlugNumbers
  /\ \A v \in Visits : visit[v].step = "prove" => visit[v].email \in TakenEmails

\* A user without a workspace, or a workspace without its owner, is never
\* there for anybody to see, and no workspace has a route's name, whichever of
\* the inserts is refused (register: "it must never be observable").
OwnersAndWorkspacesComeTogether ==
  /\ \A e \in TakenEmails : workspace[account[e].org] = e
  /\ \A n \in SlugNumbers : workspace[n] # NoAccount =>
       n \notin ReservedSlugs /\ workspace[n] \in TakenEmails

\* An identity opens an account that it made itself, or whose address its
\* provider had verified, and an address proved without a mail was verified by
\* a provider of an identity that opens it (callback's three cases).
LinksAreProved ==
  /\ \A i \in Linked : link[i].proved \/ account[link[i].email].madeBy = i
  /\ \A e \in TakenEmails : account[e].verified =>
       \E i \in Linked : link[i] = [email |-> e, proved |-> TRUE]

\* What both ways to register promise, at any moment (registration_service.ts,
\* social_auth_controller.ts).
RegistrationSafe == RegistrationTypeOK /\ OwnersAndWorkspacesComeTogether /\ LinksAreProved
=============================================================================
