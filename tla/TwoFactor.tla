----------------------------- MODULE TwoFactor -----------------------------
(***************************************************************************)
(* Two-factor sign-in of one account, a tenant user's or a staff member's: *)
(* enrolment, recovery codes and the challenge between the password and    *)
(* the session (two_factor_service.ts, two_factor_challenge.ts, the two    *)
(* session controllers, security_controller.ts). Every operation changes   *)
(* the instance its own request loaded.                                    *)
(***************************************************************************)
EXTENDS Integers, FiniteSets, Lucid

CONSTANTS
  Browsers,        \* requests under way at once
  MaxSecrets,      \* bounds on secrets and on sets of recovery codes made
  MaxGens,
  CodesPerGen,     \* RECOVERY_CODE_COUNT
  NoRow

Codes == (1..MaxGens) \X (1..CodesPerGen)
SubjectRow == [secret : 0..MaxSecrets, confirmed : BOOLEAN, codes : SUBSET Codes]

ASSUME TwoFactorAssumption ==
  /\ MaxSecrets \in Nat \ {0} /\ MaxGens \in Nat \ {0} /\ CodesPerGen \in Nat
  /\ NoRow \notin SubjectRow

VARIABLES
  subject,      \* the three columns
  secrets,      \* secrets generated so far
  gens,         \* sets of recovery codes generated so far
  proved,       \* secrets a code was once given for
  spent,        \* how often each recovery code was accepted
  browser,      \* where each request is, and the row as it loaded it
  late,         \* requests whose row was saved by another since they loaded it
  overtook      \* a late request has saved its row

twoFactorVars == <<subject, secrets, gens, proved, spent, browser, late, overtook>>

Away == [step |-> "idle", loaded |-> NoRow, code |-> NoRow]

\* A tenant's account begins without two-factor; a staff account is made with
\* it, and nothing changes it but its challenges.
TwoFactorInit ==
  /\ subject \in {[secret |-> 0, confirmed |-> FALSE, codes |-> {}],
                  [secret |-> 1, confirmed |-> TRUE, codes |-> {1} \X (1..CodesPerGen)]}
  /\ secrets = subject.secret /\ gens = subject.secret
  /\ proved = 1..subject.secret
  /\ spent = [c \in Codes |-> 0]
  /\ browser = [b \in Browsers |-> Away]
  /\ late = {} /\ overtook = FALSE

hasTwoFactor(row) == row.secret # 0 /\ row.confirmed

Arrives(b, step, code) ==
  /\ browser[b] = Away
  /\ browser' = [browser EXCEPT ![b] = [step |-> step, loaded |-> subject, code |-> code]]
  /\ UNCHANGED <<subject, secrets, gens, proved, spent, late, overtook>>

\* save(), and who it overtakes: those who have loaded the row and not saved.
Saves(b, columns) ==
  /\ subject' = Saved(subject, browser[b].loaded, columns)
  /\ browser' = [browser EXCEPT ![b] = Away]
  /\ late' = (late \ {b}) \cup {e \in Browsers \ {b} : browser[e].loaded # NoRow}
  /\ overtook' = (overtook \/ b \in late)

GivesUp(b) ==
  /\ browser[b].step # "idle"
  /\ browser' = [browser EXCEPT ![b] = Away]
  /\ late' = late \ {b}
  /\ UNCHANGED <<subject, secrets, gens, proved, spent, overtook>>

-----------------------------------------------------------------------------
(* Settings: step one, step two, new codes, off.                           *)

Unconfirmed(n) == [secret |-> n, confirmed |-> FALSE]

BeginEnrolment(b) ==
  /\ browser[b].step = "begin" /\ secrets < MaxSecrets
  /\ secrets' = secrets + 1
  /\ Saves(b, Unconfirmed(secrets + 1))
  /\ UNCHANGED <<gens, proved, spent>>

FreshCodes(old, g) == {g} \X (1..CodesPerGen)

\* With a code from the authenticator for the secret that was loaded.
ConfirmEnrolment(b) ==
  LET loaded == browser[b].loaded IN
  /\ browser[b].step = "confirm" /\ loaded.secret # 0 /\ gens < MaxGens
  /\ gens' = gens + 1
  /\ proved' = proved \cup {loaded.secret}
  /\ Saves(b, [confirmed |-> TRUE, codes |-> FreshCodes(loaded.codes, gens + 1)])
  /\ UNCHANGED <<secrets, spent>>

RegenerateRecoveryCodes(b) ==
  LET loaded == browser[b].loaded IN
  /\ browser[b].step = "regenerate" /\ hasTwoFactor(loaded) /\ gens < MaxGens
  /\ gens' = gens + 1
  /\ Saves(b, [codes |-> FreshCodes(loaded.codes, gens + 1)])
  /\ UNCHANGED <<secrets, proved, spent>>

Disable(b) ==
  /\ browser[b].step = "disable"
  /\ Saves(b, [secret |-> 0, confirmed |-> FALSE, codes |-> {}])
  /\ UNCHANGED <<secrets, gens, proved, spent>>

-----------------------------------------------------------------------------
(* Signing in. The challenge lives in the session and times out by itself. *)

\* The password was right. Without two-factor a tenant is let in at once and
\* a staff member sent away, so only with it does a challenge begin.
StartChallenge(b) ==
  /\ browser[b] = Away /\ hasTwoFactor(subject)
  /\ browser' = [browser EXCEPT ![b].step = "challenge"]
  /\ UNCHANGED <<subject, secrets, gens, proved, spent, late, overtook>>

\* The row is loaded anew with each code that is tried. A code of the
\* authenticator is for the current secret; the challenge then ends.
AnswerWithApp(b) ==
  /\ browser[b].step = "challenge" /\ hasTwoFactor(subject)
  /\ browser' = [browser EXCEPT ![b] = Away]
  /\ UNCHANGED <<subject, secrets, gens, proved, spent, late, overtook>>

AnswerWithCode(b, code) ==
  /\ browser[b].step = "challenge" /\ code \in subject.codes
  /\ browser' = [browser EXCEPT ![b] = [step |-> "spend", loaded |-> subject,
                                        code |-> code]]
  /\ UNCHANGED <<subject, secrets, gens, proved, spent, late, overtook>>

KeepsTheCode(codes, code) == codes                                     \* mutant
Without(codes, code) == codes \ {code}

\* consumeRecoveryCode: the loaded codes but this one; then the session.
ConsumeRecoveryCode(b) ==
  LET code == browser[b].code IN
  /\ browser[b].step = "spend"
  /\ spent' = [spent EXCEPT ![code] = IF @ < 2 THEN @ + 1 ELSE @]
  /\ Saves(b, [codes |-> Without(browser[b].loaded.codes, code)])
  /\ UNCHANGED <<secrets, gens, proved>>

TwoFactorNext ==
  \E b \in Browsers :
    \/ \E step \in {"begin", "confirm", "regenerate", "disable"} :
         Arrives(b, step, NoRow)
    \/ BeginEnrolment(b) \/ ConfirmEnrolment(b)
    \/ RegenerateRecoveryCodes(b) \/ Disable(b)
    \/ StartChallenge(b) \/ AnswerWithApp(b)
    \/ \E code \in Codes : AnswerWithCode(b, code)
    \/ ConsumeRecoveryCode(b) \/ GivesUp(b)

TwoFactorSpec == TwoFactorInit /\ [][TwoFactorNext]_twoFactorVars

-----------------------------------------------------------------------------

\* The columns hold what was generated and never more codes than one set has,
\* and whoever is about to save has loaded the row (the columns shared by
\* users and staff_users).
TwoFactorTypeOK ==
  /\ subject \in SubjectRow /\ subject.secret <= secrets
  /\ \A c \in subject.codes : c[1] <= gens
  /\ Cardinality(subject.codes) <= CodesPerGen
  /\ proved \subseteq 1..secrets
  /\ late \subseteq {b \in Browsers : browser[b].loaded # NoRow}

\* "A secret that was generated but never confirmed must not lock anyone
\* out": two-factor is on only with a secret that was proved, unless somebody
\* saved a row they had loaded before another's save (beginEnrolment).
OnOnlyWhenProved ==
  ~overtook /\ hasTwoFactor(subject) => subject.secret \in proved

\* "Each one works once": no recovery code is accepted twice, and none is
\* left of an older set, under the same condition (consumeRecoveryCode,
\* regenerateRecoveryCodes).
EachCodeWorksOnce ==
  ~overtook => /\ \A c \in Codes : spent[c] <= 1
               /\ \A c \in subject.codes : c[1] = gens /\ spent[c] = 0

\* What the second factor promises, at any moment (two_factor_service.ts).
SecondFactorSafe == TwoFactorTypeOK /\ OnOnlyWhenProved /\ EachCodeWorksOnce
=============================================================================
