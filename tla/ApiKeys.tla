------------------------------ MODULE ApiKeys ------------------------------
(***************************************************************************)
(* The API keys of one workspace: minted under the lock of the workspace   *)
(* row, revoked by an owner, and presented by calls that look a key up and *)
(* write to its row afterwards (api_key_service.ts, api_key_auth.ts).      *)
(***************************************************************************)
EXTENDS Integers, FiniteSets, Lucid

CONSTANTS
  MaxKeys,          \* bound on the keys minted
  KeyLimits,        \* what a plan may allow: 0 means not on this plan
  Calls,            \* requests under way at once
  MaxUses,          \* bound on the minutes last_used_at distinguishes
  NoKey

Keys == 1..MaxKeys
KeyRow == [revoked : BOOLEAN, expired : BOOLEAN, lastUsed : 0..MaxUses]

ASSUME ApiKeysAssumption ==
  /\ MaxKeys \in Nat /\ MaxUses \in Nat /\ KeyLimits \subseteq Nat /\ KeyLimits # {}
  /\ NoKey \notin Keys \cup Calls \cup KeyRow

VARIABLES
  apiKey,       \* api_keys, numbered as they are inserted
  keyLimit,     \* the plan's apiKeys
  open,         \* the plan has the api feature, and the workspace is not suspended
  keyLock,      \* who has locked the workspace row
  call          \* where each request is: step, its key as it loaded it, or the
                \* keys it counted

keysVars == <<apiKey, keyLimit, open, keyLock, call>>

NoCall == [step |-> "idle", key |-> NoKey, loaded |-> NoKey, counted |-> 0]

KeysInit ==
  /\ apiKey = [k \in Keys |-> NoKey]
  /\ keyLimit \in KeyLimits /\ open \in BOOLEAN
  /\ keyLock = NoKey
  /\ call = [c \in Calls |-> NoCall]

Minted == {k \in Keys : apiKey[k] # NoKey}
LiveKeys == {k \in Minted : ~apiKey[k].revoked}
isActive(k) == ~apiKey[k].revoked /\ ~apiKey[k].expired
Answer(c) == call' = [call EXCEPT ![c] = NoCall]

-----------------------------------------------------------------------------
(* create: one transaction that locks the workspace row, counts the keys   *)
(* that are not revoked, and inserts one more.                             *)

Counted == LiveKeys

LockAndCount(c) ==
  /\ call[c] = NoCall /\ keyLock = NoKey
  /\ keyLock' = c
  /\ call' = [call EXCEPT ![c].step = "create", ![c].counted = Cardinality(Counted)]
  /\ UNCHANGED <<apiKey, keyLimit, open>>

InsertKey(c) ==
  /\ call[c].step = "create" /\ call[c].counted + 1 <= keyLimit
  /\ \E k \in Keys \ Minted :
       /\ \A j \in 1..(k - 1) : j \in Minted
       /\ apiKey' = [apiKey EXCEPT ![k] =
            [revoked |-> FALSE, expired |-> FALSE, lastUsed |-> 0]]
  /\ keyLock' = NoKey
  /\ Answer(c)
  /\ UNCHANGED <<keyLimit, open>>

-----------------------------------------------------------------------------
(* revoke, of the row its page loaded.                                     *)

FindKey(c, k) ==
  /\ call[c] = NoCall /\ k \in LiveKeys
  /\ call' = [call EXCEPT ![c] =
       [NoCall EXCEPT !.step = "revoke", !.key = k, !.loaded = apiKey[k]]]
  /\ UNCHANGED <<apiKey, keyLimit, open, keyLock>>

Revoke(c) ==
  /\ call[c].step = "revoke"
  /\ apiKey' = [apiKey EXCEPT ![call[c].key] =
       Saved(@, call[c].loaded, [revoked |-> TRUE])]
  /\ Answer(c)
  /\ UNCHANGED <<keyLimit, open, keyLock>>

-----------------------------------------------------------------------------
(* A call with a key: looked up by its hash, checked, and stamped.         *)

Authenticate(c, k) ==
  /\ call[c] = NoCall /\ k \in Minted /\ isActive(k) /\ open
  /\ call' = [call EXCEPT ![c] =
       [NoCall EXCEPT !.step = "touch", !.key = k, !.loaded = apiKey[k]]]
  /\ UNCHANGED <<apiKey, keyLimit, open, keyLock>>

WritesTheRow(row, loaded, now) == [loaded EXCEPT !.lastUsed = now]      \* mutant
Stamped(row, loaded, now) == Saved(row, loaded, [lastUsed |-> now])

\* Within the same minute nothing is written.
Touch(c) ==
  /\ call[c].step = "touch"
  /\ \/ \E now \in call[c].loaded.lastUsed + 1..MaxUses :
          apiKey' = [apiKey EXCEPT ![call[c].key] = Stamped(@, call[c].loaded, now)]
     \/ UNCHANGED apiKey
  /\ Answer(c)
  /\ UNCHANGED <<keyLimit, open, keyLock>>

-----------------------------------------------------------------------------

ExpireKey(k) ==
  /\ k \in Minted /\ ~apiKey[k].expired
  /\ apiKey' = [apiKey EXCEPT ![k].expired = TRUE]
  /\ UNCHANGED <<keyLimit, open, keyLock, call>>

\* A new plan writes the row a creation locks.
ChangePlan(n) ==
  /\ keyLock = NoKey /\ n # keyLimit
  /\ keyLimit' = n
  /\ UNCHANGED <<apiKey, open, keyLock, call>>

OpenOrClose ==
  /\ open' = ~open
  /\ UNCHANGED <<apiKey, keyLimit, keyLock, call>>

\* Refused by the plan, or the process dies: the transaction is rolled back.
GiveUp(c) ==
  /\ call[c] # NoCall
  /\ keyLock' = IF keyLock = c THEN NoKey ELSE keyLock
  /\ Answer(c)
  /\ UNCHANGED <<apiKey, keyLimit, open>>

KeysNext ==
  \/ \E c \in Calls :
       \/ LockAndCount(c) \/ InsertKey(c) \/ Revoke(c) \/ Touch(c) \/ GiveUp(c)
       \/ \E k \in Keys : FindKey(c, k) \/ Authenticate(c, k)
  \/ \E k \in Keys : ExpireKey(k)
  \/ \E n \in KeyLimits : ChangePlan(n)
  \/ OpenOrClose

KeysSpec == KeysInit /\ [][KeysNext]_keysVars

-----------------------------------------------------------------------------

\* Keys are numbered without gaps, and whoever creates holds the lock of the
\* workspace row (api_keys, lockAndAssertLimit).
KeysTypeOK ==
  /\ \A k \in Keys : apiKey[k] \in KeyRow \/ apiKey[k] = NoKey
  /\ keyLimit \in KeyLimits /\ open \in BOOLEAN
  /\ \A c \in Calls : call[c].step = "create" <=> keyLock = c
  /\ \A c \in Calls : call[c].step \in {"revoke", "touch"} => call[c].key \in Minted

\* The plan's limit on keys is kept whatever is minted and revoked at once, by
\* the plan in force when the key is inserted; an expired key still counts, and
\* only revoking frees its place (create, activeCount).
KeyQuota == INSTANCE Meter WITH Items <- Keys, Weight <- [k \in Keys |-> 1],
              Exempt <- {}, Limits <- KeyLimits, items <- LiveKeys,
              meter <- Cardinality(LiveKeys), limit <- keyLimit
KeysWithinPlan == KeyQuota!Spec

\* A key that was revoked stays revoked: the stamp of a call that looked the
\* key up before does not bring it back (touch).
RevokedStaysRevoked == [][\A k \in Minted \ LiveKeys : apiKey'[k].revoked]_keysVars

\* What the keys promise, at any moment and in every step (api_key_service.ts).
KeysSafe == []KeysTypeOK /\ KeysWithinPlan /\ RevokedStaysRevoked
=============================================================================
