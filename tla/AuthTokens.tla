---------------------------- MODULE AuthTokens ----------------------------
(***************************************************************************)
(* The single-use links that verify an address and reset a password, for   *)
(* one person: asking for one retires those before it, following one       *)
(* spends it under a lock, and what the link allows is saved afterwards    *)
(* (auth_token_service.ts, password_reset_controller.ts,                   *)
(* email_verification_controller.ts).                                      *)
(***************************************************************************)
EXTENDS Integers, Lucid

CONSTANTS
  Clicks,          \* requests under way at once
  MaxTokens,       \* bound on the links a behaviour issues
  NoToken

ASSUME AuthTokensAssumption == MaxTokens \in Nat /\ NoToken \notin 1..MaxTokens

VARIABLES
  person,     \* the users row
  issued,     \* auth_tokens so far, numbered as they are committed
  token,      \* their rows, with the live ones each could not see to retire
  mailed,     \* links somebody has in their mailbox
  redeemed,   \* how often each link was honoured
  click       \* where each request is

tokenVars == <<person, issued, token, mailed, redeemed, click>>

Types == {"verify_email", "reset_password"}
Tokens == 1..MaxTokens
TokenRow == [type : Types, consumed : BOOLEAN, expired : BOOLEAN,
             missed : SUBSET Tokens]
\* password is the link it was last set through, 0 if by no link.
\* vouched: staff verified the address in the link's stead.
PersonRow == [password : 0..MaxTokens, verified : BOOLEAN, vouched : BOOLEAN,
              twoFactor : BOOLEAN, deleted : BOOLEAN, signedIn : BOOLEAN]
Waiting == [step |-> "idle", type |-> "none", t |-> 0, retires |-> {},
            missed |-> {}, user |-> NoToken]

TokensInit ==
  /\ person \in [password : {0}, verified : {FALSE}, vouched : {FALSE},
                 twoFactor : BOOLEAN, deleted : {FALSE}, signedIn : {FALSE}]
  /\ issued = 0 /\ token = [t \in Tokens |-> NoToken]
  /\ mailed = {} /\ redeemed = [t \in Tokens |-> 0]
  /\ click = [c \in Clicks |-> Waiting]

Rows == 1..issued
LiveOf(type) == {t \in Rows : token[t].type = type /\ ~token[t].consumed}
isUsable(t) == ~token[t].consumed /\ ~token[t].expired
Done(c) == click' = [click EXCEPT ![c] = Waiting]
UnderWay == {c \in Clicks : click[c].step = "issue"}

-----------------------------------------------------------------------------
(* issue: one transaction, whose update locks the tokens it retires and    *)
(* whose insert nobody sees before the commit.                             *)

RetiresNone(type) == {}                                                \* mutant
Retires(type) == LiveOf(type)

\* Forgot-password asks for a live account; resend, by the person or by staff
\* (who find erased people too), for an unverified one.
Ask(c, type) ==
  /\ click[c] = Waiting /\ issued < MaxTokens
  /\ IF type = "verify_email" THEN ~person.verified ELSE ~person.deleted
  /\ \A d \in UnderWay : click[d].retires \cap Retires(type) = {}
  /\ click' = [click EXCEPT ![c].step = "issue", ![c].type = type,
                            ![c].retires = Retires(type)]
  /\ UNCHANGED <<person, issued, token, mailed, redeemed>>

Issue(c) ==
  LET n == issued + 1 IN
  /\ click[c].step = "issue" /\ n <= MaxTokens
  /\ issued' = n
  /\ token' = [t \in Tokens |->
       IF t = n THEN [type |-> click[c].type, consumed |-> FALSE, expired |-> FALSE,
                      missed |-> click[c].missed]
       ELSE IF t \in click[c].retires THEN [token[t] EXCEPT !.consumed = TRUE]
       ELSE token[t]]
  /\ click' = [d \in Clicks |->
       IF d = c THEN [click[c] EXCEPT !.step = "mail", !.t = n, !.retires = {},
                                      !.missed = {}]
       ELSE IF d \in UnderWay /\ click[d].type = click[c].type
            THEN [click[d] EXCEPT !.missed = @ \cup {n}]
       ELSE click[d]]
  /\ UNCHANGED <<person, mailed, redeemed>>

MailToken(c) ==
  /\ click[c].step = "mail"
  /\ mailed' = mailed \cup {click[c].t}
  /\ Done(c)
  /\ UNCHANGED <<person, issued, token, redeemed>>

-----------------------------------------------------------------------------
(* consume, and what the controllers do with the person it returns.        *)

Spent(row) == [row EXCEPT !.consumed = TRUE]

\* The row is locked while it is read and spent; a deleted person's link is
\* spent and honoured for nobody.
Consume(c, t) ==
  /\ click[c] = Waiting /\ t \in mailed /\ isUsable(t)
  /\ \A d \in UnderWay : t \notin click[d].retires
  /\ token' = [token EXCEPT ![t] = Spent(@)]
  /\ IF person.deleted THEN UNCHANGED <<redeemed, click>>
     ELSE /\ redeemed' = [redeemed EXCEPT ![t] = IF @ < 2 THEN @ + 1 ELSE @]
          /\ click' = [click EXCEPT ![c] =
               [Waiting EXCEPT !.t = t, !.user = person,
                  !.step = IF token[t].type = "reset_password" THEN "password"
                           ELSE "verified"]]
  /\ UNCHANGED <<person, issued, mailed>>

SavePassword(c) ==
  /\ click[c].step = "password"
  /\ person' = Saved(person, click[c].user, [password |-> click[c].t])
  /\ click' = [click EXCEPT ![c].step = "verified"]
  /\ UNCHANGED <<issued, token, mailed, redeemed>>

\* Either link proves the address. (The welcome mail is left out.)
MarkVerified(c) ==
  /\ click[c].step = "verified"
  /\ person' = Saved(person, click[c].user, [verified |-> TRUE])
  /\ click' = [click EXCEPT ![c].step = "login"]
  /\ UNCHANGED <<issued, token, mailed, redeemed>>

\* With two-factor on, a reset ends at the sign-in page.
Login(c) ==
  /\ click[c].step = "login"
  /\ person' = IF token[click[c].t].type = "reset_password" /\ click[c].user.twoFactor
               THEN person ELSE [person EXCEPT !.signedIn = TRUE]
  /\ Done(c)
  /\ UNCHANGED <<issued, token, mailed, redeemed>>

-----------------------------------------------------------------------------

\* The process dies; an open transaction is rolled back.
Perish(c) ==
  /\ click[c].step # "idle"
  /\ Done(c)
  /\ UNCHANGED <<person, issued, token, mailed, redeemed>>

TokenExpires(t) ==
  /\ t \in LiveOf(token[t].type) /\ ~token[t].expired
  /\ token' = [token EXCEPT ![t].expired = TRUE]
  /\ UNCHANGED <<person, issued, mailed, redeemed, click>>

\* Removing a member or erasing an account stamps deleted_at.
PersonDeleted ==
  /\ ~person.deleted
  /\ person' = [person EXCEPT !.deleted = TRUE]
  /\ UNCHANGED <<issued, token, mailed, redeemed, click>>

\* settings/security: a password chosen while signed in.
ChangePassword ==
  /\ person.signedIn /\ ~person.deleted
  /\ person' = [person EXCEPT !.password = 0]
  /\ UNCHANGED <<issued, token, mailed, redeemed, click>>

\* admin/users: the escape hatch for somebody our mail does not reach.
StaffVerifies ==
  /\ ~person.verified
  /\ person' = [person EXCEPT !.verified = TRUE, !.vouched = TRUE]
  /\ UNCHANGED <<issued, token, mailed, redeemed, click>>

TokensNext ==
  \/ \E c \in Clicks :
       \/ \E type \in Types : Ask(c, type)
       \/ Issue(c) \/ MailToken(c)
       \/ \E t \in mailed : Consume(c, t)
       \/ SavePassword(c) \/ MarkVerified(c) \/ Login(c) \/ Perish(c)
  \/ \E t \in Rows : TokenExpires(t)
  \/ PersonDeleted \/ ChangePassword \/ StaffVerifies

TokensSpec == TokensInit /\ [][TokensNext]_tokenVars

-----------------------------------------------------------------------------

\* Rows are there up to the last number issued, and only links that exist are
\* mailed (auth_tokens).
TokensTypeOK ==
  /\ person \in PersonRow /\ issued \in 0..MaxTokens
  /\ \A t \in Tokens : token[t] \in IF t \in Rows THEN TokenRow ELSE {NoToken}
  /\ mailed \subseteq Rows /\ \A t \in Tokens \ mailed : redeemed[t] = 0

\* A link is honoured at most once, however many requests follow it at once
\* and whichever of them dies on the way (consume's forUpdate).
HonouredOnce == \A t \in Tokens : redeemed[t] <= 1

\* "Requesting a new reset link must retire the previous one": of two links
\* of one kind that both still work, the later was asked for before the
\* earlier was committed (issue).
NewLinkRetiresTheOld ==
  \A t, u \in Rows :
    t < u /\ token[t].type = token[u].type /\ ~token[t].consumed /\ ~token[u].consumed
      => t \in token[u].missed

\* An address counts as proved, and a password as reset, only by a link that
\* was mailed to it and honoured, unless staff vouched for the address
\* (MarkVerified, SavePassword).
ProvedByAnHonouredLink ==
  /\ person.verified => person.vouched \/ \E t \in mailed : redeemed[t] = 1
  /\ person.password # 0 =>
       redeemed[person.password] = 1 /\ token[person.password].type = "reset_password"

\* What the mail and its links promise, at any moment (auth_token_service.ts).
LinksSafe == TokensTypeOK /\ HonouredOnce /\ NewLinkRetiresTheOld /\ ProvedByAnHonouredLink
=============================================================================
