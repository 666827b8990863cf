----------------------------- MODULE MCAccounts -----------------------------
(***************************************************************************)
(* How people get in and what they hold once in: links in the mail, the    *)
(* second factor, registration, staff sessions, API keys, the exports of   *)
(* their data and its erasure. They share no state, so a behaviour follows *)
(* one of them, chosen at the start, and the others stay as they began.    *)
(***************************************************************************)
EXTENDS AuthTokens, TwoFactor, Registration, Staff, ApiKeys, Exports,
        PersonalData, TLC

CONSTANTS w1, w2, x1, x2, root, ada

VARIABLE part

allVars == <<part, tokenVars, twoFactorVars, registrationVars, staffVars, keysVars, exportVars,
             dataVars>>

\* One window of two impersonates.
OneImpersonates == (w1 :> {"toggle"}) @@ (w2 :> {"toggle", "tenant"})

\* Staff at their screen, and the worker.
StaffAndWorker == [x \in {x1, x2} |-> IF x = x1 THEN {"ask", "retry"} ELSE {"job"}]

\* The two administrators are alike.
Alike == Permutations({root, ada})

\* Any one row, or the owner's picture and a member's upload.
R(t, u, w) == [table |-> t, of |-> u, what |-> w]
NoRows == {}
FewRows == {NoRows} \cup {{r} : r \in Kept}
           \cup {{R("files", u, "avatar"), R("files", v, "upload")} : u \in {Boss}, v \in Persons \ {Boss}}

AccountsInit ==
  /\ part \in {"links", "second factor", "registration", "staff", "keys", "exports",
              "personal data"}
  /\ TokensInit /\ TwoFactorInit /\ RegistrationInit /\ StaffInit /\ KeysInit /\ ExportsInit
  /\ DataInit
  /\ part # "links" => ~person.twoFactor
  /\ part # "second factor" => secrets = 0
  /\ part # "registration" => gate
  /\ part # "personal data" => scope = NoRows
  /\ part # "keys" => open /\ \A n \in KeyLimits : keyLimit <= n

AccountsNext ==
  /\ UNCHANGED part
  /\ \/ part = "links" /\ TokensNext
        /\ UNCHANGED <<twoFactorVars, registrationVars, staffVars, keysVars, exportVars, dataVars>>
     \/ part = "second factor" /\ TwoFactorNext
        /\ UNCHANGED <<tokenVars, registrationVars, staffVars, keysVars, exportVars, dataVars>>
     \/ part = "registration" /\ RegistrationNext
        /\ UNCHANGED <<tokenVars, twoFactorVars, staffVars, keysVars, exportVars, dataVars>>
     \/ part = "staff" /\ StaffNext
        /\ UNCHANGED <<tokenVars, twoFactorVars, registrationVars, keysVars, exportVars, dataVars>>
     \/ part = "keys" /\ KeysNext
        /\ UNCHANGED <<tokenVars, twoFactorVars, registrationVars, staffVars, exportVars, dataVars>>
     \/ part = "exports" /\ ExportsNext
        /\ UNCHANGED <<tokenVars, twoFactorVars, registrationVars, staffVars, keysVars, dataVars>>
     \/ part = "personal data" /\ DataNext
        /\ UNCHANGED <<tokenVars, twoFactorVars, registrationVars, staffVars, keysVars, exportVars>>

AccountsSpec == AccountsInit /\ [][AccountsNext]_allVars
=============================================================================
