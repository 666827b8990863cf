--------------------------- MODULE AccountsProofs ---------------------------
(***************************************************************************)
(* Proofs about how people get in and what they hold once in: the keys of  *)
(* a workspace, the links in the mail, the second factor, registration,    *)
(* staff and their screens, the exports of their data and its erasure, and *)
(* what is counted of the calls they make of the API.                      *)
(* Each part keeps its own rows, so each has an invariant of its own; the  *)
(* rows say little, and what the invariants add is what a request that     *)
(* read a row some steps ago still knows of it.                            *)
(***************************************************************************)
EXTENDS AuthTokens, TwoFactor, Registration, Staff, ApiKeys, Exports, PersonalData, ApiUsage,
        FiniteSetTheorems, WellFoundedInduction, TLAPS

-----------------------------------------------------------------------------
(* API keys. Only the holder of the workspace row inserts, so what it has  *)
(* counted is at least what is live when it inserts.                       *)

CallRow == [step : {"idle", "create", "revoke", "touch"}, key : Keys \cup {NoKey},
            loaded : KeyRow \cup {NoKey}, counted : Nat]

Calling(c) ==
  /\ call[c].step = "create" <=> keyLock = c
  /\ call[c].step \in {"revoke", "touch"} => call[c].key \in Minted /\ call[c].loaded \in KeyRow
  /\ call[c].step = "revoke" => ~call[c].loaded.revoked
  /\ call[c].step = "create" => Cardinality(LiveKeys) <= call[c].counted

KeysInv ==
  /\ apiKey \in [Keys -> KeyRow \cup {NoKey}]
  /\ keyLimit \in KeyLimits /\ open \in BOOLEAN /\ keyLock \in Calls \cup {NoKey}
  /\ call \in [Calls -> CallRow]
  /\ \A c \in Calls : Calling(c)

LEMMA KeysFinite ==
  ASSUME NEW S \in SUBSET Keys
  PROVE  IsFiniteSet(S) /\ Cardinality(S) \in Nat
<1>1. IsFiniteSet(Keys) BY FS_Interval, ApiKeysAssumption DEF Keys
<1>2. IsFiniteSet(S) BY <1>1, FS_Subset
<1> QED BY <1>2, FS_CardinalityType

LEMMA KeyIsRow ==
  ASSUME NEW f, DOMAIN f = {"revoked", "expired", "lastUsed"}, f = [x \in DOMAIN f |-> f[x]],
         f.revoked \in BOOLEAN, f.expired \in BOOLEAN, f.lastUsed \in 0..MaxUses
  PROVE  f \in KeyRow
<1>1. f = [revoked |-> f.revoked, expired |-> f.expired, lastUsed |-> f.lastUsed] OBVIOUS
<1> QED BY <1>1 DEF KeyRow

\* What is saved over a row of api_keys.
LEMMA SavedKey ==
  ASSUME NEW row \in KeyRow, NEW loaded \in KeyRow
  PROVE  /\ ~loaded.revoked => /\ Saved(row, loaded, [revoked |-> TRUE]) \in KeyRow
                               /\ Saved(row, loaded, [revoked |-> TRUE]).revoked
         /\ \A now \in 0..MaxUses :
              /\ Saved(row, loaded, [lastUsed |-> now]) \in KeyRow
              /\ Saved(row, loaded, [lastUsed |-> now]).revoked = row.revoked
<1>1. DOMAIN row = {"revoked", "expired", "lastUsed"} BY DEF KeyRow
<1>2. row.revoked \in BOOLEAN /\ row.expired \in BOOLEAN /\ row.lastUsed \in 0..MaxUses
  BY DEF KeyRow
<1>3. ASSUME ~loaded.revoked
      PROVE  /\ Saved(row, loaded, [revoked |-> TRUE]) \in KeyRow
             /\ Saved(row, loaded, [revoked |-> TRUE]).revoked
  <2> DEFINE s == Saved(row, loaded, [revoked |-> TRUE])
  <2>1. DOMAIN s = {"revoked", "expired", "lastUsed"} /\ s = [x \in DOMAIN s |-> s[x]]
    BY <1>1 DEF Saved
  <2>2. s.revoked = TRUE /\ s.expired = row.expired /\ s.lastUsed = row.lastUsed
    BY <1>1, <1>3 DEF Saved
  <2> QED BY <1>2, <2>1, <2>2, KeyIsRow
<1>4. ASSUME NEW now \in 0..MaxUses
      PROVE  /\ Saved(row, loaded, [lastUsed |-> now]) \in KeyRow
             /\ Saved(row, loaded, [lastUsed |-> now]).revoked = row.revoked
  <2> DEFINE s == Saved(row, loaded, [lastUsed |-> now])
  <2>1. DOMAIN s = {"revoked", "expired", "lastUsed"} /\ s = [x \in DOMAIN s |-> s[x]]
    BY <1>1 DEF Saved
  <2>2. s.revoked = row.revoked /\ s.expired = row.expired /\ s.lastUsed \in {now, row.lastUsed}
    BY <1>1 DEF Saved
  <2> QED BY <1>2, <2>1, <2>2, KeyIsRow
<1> QED BY <1>3, <1>4

\* A request that ends, and with it its lock.
LEMMA AnswerCalls ==
  ASSUME KeysInv, NEW c \in Calls, Answer(c), keyLock' = IF keyLock = c THEN NoKey ELSE keyLock,
         apiKey' \in [Keys -> KeyRow \cup {NoKey}], Minted \subseteq Minted',
         keyLock # c => LiveKeys' \subseteq LiveKeys,
         UNCHANGED <<keyLimit, open>>
  PROVE  KeysInv'
<1>1. call' \in [Calls -> CallRow] /\ call'[c] = NoCall
  BY ApiKeysAssumption DEF KeysInv, Answer, NoCall, CallRow
<1>2. \A d \in Calls \ {c} : call'[d] = call[d] BY DEF KeysInv, Answer
<1>3. Calling(c)' BY <1>1, ApiKeysAssumption DEF Calling, NoCall
<1>4. ASSUME NEW d \in Calls \ {c} PROVE Calling(d)'
  <2>1. Calling(d) BY DEF KeysInv
  <2>2. call'[d].step = "create" => Cardinality(LiveKeys') <= call'[d].counted
    <3> SUFFICES ASSUME call[d].step = "create" PROVE Cardinality(LiveKeys') <= call[d].counted
      BY <1>2
    <3>1. keyLock # c BY <2>1 DEF Calling
    <3>2. Cardinality(LiveKeys') <= Cardinality(LiveKeys)
      BY <3>1, KeysFinite, FS_Subset DEF LiveKeys, Minted
    <3>3. Cardinality(LiveKeys) \in Nat /\ Cardinality(LiveKeys') \in Nat
      BY KeysFinite DEF LiveKeys, Minted
    <3>4. call[d].counted \in Nat BY DEF KeysInv, CallRow
    <3> QED BY <2>1, <3>2, <3>3, <3>4 DEF Calling
  <2>3. call'[d].step = "create" <=> keyLock' = d
    BY <1>2, <2>1, ApiKeysAssumption DEF Calling
  <2> QED BY <1>2, <2>1, <2>2, <2>3 DEF Calling
<1> QED BY <1>1, <1>3, <1>4 DEF KeysInv

\* A request that begins.
LEMMA BeginsCalls ==
  ASSUME KeysInv, NEW c \in Calls, call[c] = NoCall, UNCHANGED <<apiKey, keyLimit, open>>,
         NEW row \in CallRow, call' = [call EXCEPT ![c] = row],
         keyLock' \in Calls \cup {NoKey}, keyLock' = c \/ UNCHANGED keyLock,
         keyLock' = c => keyLock = NoKey, Calling(c)'
  PROVE  KeysInv'
<1>1. call' \in [Calls -> CallRow] /\ \A d \in Calls \ {c} : call'[d] = call[d]
  BY DEF KeysInv
<1>2. ASSUME NEW d \in Calls \ {c} PROVE Calling(d)'
  <2>1. Calling(d) /\ LiveKeys' = LiveKeys /\ Minted' = Minted
    BY DEF KeysInv, LiveKeys, Minted
  <2>2. keyLock' = d <=> keyLock = d BY ApiKeysAssumption
  <2> QED BY <1>1, <2>1, <2>2 DEF Calling
<1> QED BY <1>1, <1>2 DEF KeysInv

\* What a step does to the keys: the meter's own steps.
Metered == [KeyQuota!Next]_<<LiveKeys, Cardinality(LiveKeys), keyLimit>>
Stays == \A k \in Minted \ LiveKeys : apiKey'[k].revoked

LEMMA SameKeys ==
  ASSUME KeysInv, UNCHANGED apiKey, UNCHANGED keyLimit
  PROVE  Metered /\ Stays
<1>1. LiveKeys' = LiveKeys BY DEF LiveKeys, Minted
<1>2. Stays BY DEF Stays, LiveKeys
<1> QED BY <1>1, <1>2 DEF Metered

LEMMA BeginStep ==
  ASSUME KeysInv, NEW c \in Calls,
         LockAndCount(c) \/ \E k \in Keys : FindKey(c, k) \/ Authenticate(c, k)
  PROVE  KeysInv' /\ Metered /\ Stays
<1>1. Metered /\ Stays BY SameKeys DEF LockAndCount, FindKey, Authenticate
<1>2. CASE LockAndCount(c)
  <2> DEFINE row == [NoCall EXCEPT !.step = "create", !.counted = Cardinality(LiveKeys)]
  <2>1. call[c] = NoCall /\ keyLock = NoKey /\ keyLock' = c /\ UNCHANGED <<apiKey, keyLimit, open>>
    BY <1>2 DEF LockAndCount
  <2>2. Cardinality(LiveKeys) \in Nat BY KeysFinite DEF LiveKeys, Minted
  <2>3. row \in CallRow BY <2>2 DEF NoCall, CallRow
  <2>4. call' = [call EXCEPT ![c] = row]
    BY <1>2, <2>1 DEF LockAndCount, Counted, NoCall, KeysInv
  <2>5. call'[c] = row BY <2>4 DEF KeysInv
  <2>6. LiveKeys' = LiveKeys BY <2>1 DEF LiveKeys, Minted
  <2>7. Calling(c)' BY <2>1, <2>2, <2>5, <2>6 DEF Calling, NoCall
  <2> QED BY <1>1, <2>1, <2>3, <2>4, <2>7, BeginsCalls
<1>3. ASSUME NEW k \in Keys, FindKey(c, k) PROVE KeysInv' /\ Metered /\ Stays
  <2> DEFINE row == [NoCall EXCEPT !.step = "revoke", !.key = k, !.loaded = apiKey[k]]
  <2>1. /\ call[c] = NoCall /\ UNCHANGED <<keyLock, apiKey, keyLimit, open>>
        /\ call' = [call EXCEPT ![c] = row] /\ k \in LiveKeys
    BY <1>3 DEF FindKey
  <2>2. apiKey[k] \in KeyRow /\ ~apiKey[k].revoked /\ k \in Minted
    BY <2>1 DEF LiveKeys, Minted, KeysInv
  <2>3. row \in CallRow BY <2>2 DEF NoCall, CallRow
  <2>4. call'[c] = row BY <2>1 DEF KeysInv
  <2>5. Calling(c) /\ Minted' = Minted BY <2>1 DEF KeysInv, Minted
  <2>6. Calling(c)' BY <2>1, <2>2, <2>4, <2>5 DEF Calling, NoCall
  <2> QED BY <1>1, <2>1, <2>3, <2>5, <2>6, BeginsCalls DEF KeysInv, Calling, NoCall
<1>4. ASSUME NEW k \in Keys, Authenticate(c, k) PROVE KeysInv' /\ Metered /\ Stays
  <2> DEFINE row == [NoCall EXCEPT !.step = "touch", !.key = k, !.loaded = apiKey[k]]
  <2>1. /\ call[c] = NoCall /\ UNCHANGED <<keyLock, apiKey, keyLimit, open>>
        /\ call' = [call EXCEPT ![c] = row] /\ k \in Minted
    BY <1>4 DEF Authenticate
  <2>2. apiKey[k] \in KeyRow BY <2>1 DEF Minted, KeysInv
  <2>3. row \in CallRow BY <2>2 DEF NoCall, CallRow
  <2>4. call'[c] = row BY <2>1 DEF KeysInv
  <2>5. Calling(c) /\ Minted' = Minted BY <2>1 DEF KeysInv, Minted
  <2>6. Calling(c)' BY <2>1, <2>2, <2>4, <2>5 DEF Calling, NoCall
  <2> QED BY <1>1, <2>1, <2>3, <2>5, <2>6, BeginsCalls DEF KeysInv, Calling, NoCall
<1> QED BY <1>2, <1>3, <1>4

\* One more key, within the limit.
LEMMA InsertStep ==
  ASSUME KeysInv, NEW c \in Calls, InsertKey(c)
  PROVE  KeysInv' /\ Metered /\ Stays
<1> DEFINE new == [revoked |-> FALSE, expired |-> FALSE, lastUsed |-> 0]
<1>1. PICK k \in Keys \ Minted : apiKey' = [apiKey EXCEPT ![k] = new] BY DEF InsertKey
<1>2. /\ call[c].step = "create" /\ call[c].counted + 1 <= keyLimit /\ keyLock' = NoKey
      /\ Answer(c) /\ UNCHANGED <<keyLimit, open>>
  BY DEF InsertKey
<1>3. new \in KeyRow BY ApiKeysAssumption DEF KeyRow
<1>4. /\ apiKey' \in [Keys -> KeyRow \cup {NoKey}]
      /\ Minted' = Minted \cup {k} /\ LiveKeys' = LiveKeys \cup {k}
  BY <1>1, <1>3, ApiKeysAssumption DEF KeysInv, Minted, LiveKeys
<1>5. keyLock = c BY <1>2 DEF KeysInv, Calling
<1>6. KeysInv' BY <1>2, <1>4, <1>5, AnswerCalls
<1>7. Stays BY <1>1 DEF Stays, KeysInv, LiveKeys, Minted
<1>8. Cardinality(LiveKeys') = Cardinality(LiveKeys) + 1
  BY <1>1, <1>4, KeysFinite, FS_AddElement DEF LiveKeys, Minted
<1>9. Cardinality(LiveKeys) + 1 <= keyLimit
  <2>1. Cardinality(LiveKeys) \in Nat BY KeysFinite DEF LiveKeys, Minted
  <2>2. call[c].counted \in Nat /\ keyLimit \in Nat
    BY ApiKeysAssumption DEF KeysInv, CallRow
  <2> QED BY <1>2, <2>1, <2>2 DEF KeysInv, Calling
<1>10. KeyQuota!Take(k)
  BY <1>1, <1>2, <1>4, <1>8, <1>9 DEF KeyQuota!Take, KeyQuota!Fits, LiveKeys
<1> QED BY <1>1, <1>6, <1>7, <1>10 DEF Metered, KeyQuota!Next

\* A row that is saved: live or not as before, or revoked.
LEMMA KeyRowStep ==
  ASSUME KeysInv, NEW k \in Minted, NEW row \in KeyRow, apiKey' = [apiKey EXCEPT ![k] = row],
         apiKey[k].revoked => row.revoked, UNCHANGED keyLimit
  PROVE  /\ apiKey' \in [Keys -> KeyRow \cup {NoKey}]
         /\ Minted' = Minted /\ LiveKeys' \subseteq LiveKeys /\ Metered /\ Stays
<1>1. apiKey' \in [Keys -> KeyRow \cup {NoKey}] /\ Minted' = Minted
  BY ApiKeysAssumption DEF KeysInv, Minted
<1>2. LiveKeys' = IF row.revoked THEN LiveKeys \ {k} ELSE LiveKeys
  BY ApiKeysAssumption DEF KeysInv, Minted, LiveKeys
<1>3. Stays BY DEF Stays, KeysInv, LiveKeys, Minted
<1>4. Metered
  <2>1. CASE LiveKeys' = LiveKeys BY <2>1 DEF Metered
  <2>2. CASE LiveKeys' = LiveKeys \ {k} /\ k \in LiveKeys
    <3>1. Cardinality(LiveKeys') = Cardinality(LiveKeys) - 1
      <4>1. IsFiniteSet(LiveKeys) BY KeysFinite DEF LiveKeys, Minted
      <4> QED BY <2>2, <4>1, FS_RemoveElement
    <3>2. Cardinality(LiveKeys) \in Nat BY KeysFinite DEF LiveKeys, Minted
    <3>3. k \in Keys BY DEF Minted
    <3>4. KeyQuota!Release(k) BY <2>2, <3>1, <3>2, <3>3 DEF KeyQuota!Release
    <3> QED BY <3>3, <3>4 DEF Metered, KeyQuota!Next
  <2> QED BY <1>2, <2>1, <2>2
<1> QED BY <1>1, <1>2, <1>3, <1>4

LEMMA EndStep ==
  ASSUME KeysInv, NEW c \in Calls, Revoke(c) \/ Touch(c) \/ GiveUp(c)
  PROVE  KeysInv' /\ Metered /\ Stays
<1>1. CASE GiveUp(c)
  <2>1. Metered /\ Stays BY <1>1, SameKeys DEF GiveUp
  <2>2. LiveKeys' = LiveKeys /\ Minted' = Minted BY <1>1 DEF GiveUp, LiveKeys, Minted
  <2> QED BY <1>1, <2>1, <2>2, AnswerCalls DEF GiveUp, KeysInv
<1>2. ASSUME call[c].step \in {"revoke", "touch"}, UNCHANGED <<keyLimit, open, keyLock>>, Answer(c),
             NEW row \in KeyRow, apiKey' = [apiKey EXCEPT ![call[c].key] = row],
             apiKey[call[c].key].revoked => row.revoked
      PROVE  KeysInv' /\ Metered /\ Stays
  <2>1. PICK k \in Minted : k = call[c].key BY <1>2 DEF KeysInv, Calling
  <2>2. /\ apiKey' \in [Keys -> KeyRow \cup {NoKey}]
        /\ Minted' = Minted /\ LiveKeys' \subseteq LiveKeys /\ Metered /\ Stays
    BY <1>2, <2>1, KeyRowStep
  <2>3. keyLock # c BY <1>2 DEF KeysInv, Calling
  <2> QED BY <1>2, <2>2, <2>3, AnswerCalls
<1>3. ASSUME call[c].step \in {"revoke", "touch"}
      PROVE  apiKey[call[c].key] \in KeyRow /\ call[c].loaded \in KeyRow
  BY <1>3 DEF KeysInv, Calling, Minted
<1>4. CASE Revoke(c)
  <2>1. call[c].step = "revoke" /\ ~call[c].loaded.revoked
    BY <1>4 DEF Revoke, KeysInv, Calling
  <2>2. PICK row : row = Saved(apiKey[call[c].key], call[c].loaded, [revoked |-> TRUE]) OBVIOUS
  <2>3. row \in KeyRow /\ row.revoked BY <1>3, <2>1, <2>2, SavedKey
  <2> QED BY <1>2, <1>4, <2>1, <2>2, <2>3 DEF Revoke
<1>5. CASE Touch(c)
  <2>1. call[c].step = "touch" BY <1>5 DEF Touch
  <2>2. CASE UNCHANGED apiKey
    <3>1. Metered /\ Stays BY <1>5, <2>2, SameKeys DEF Touch
    <3>2. LiveKeys' = LiveKeys /\ Minted' = Minted BY <2>2 DEF LiveKeys, Minted
    <3>3. keyLock # c BY <2>1 DEF KeysInv, Calling
    <3> QED BY <1>5, <2>2, <3>1, <3>2, <3>3, AnswerCalls DEF Touch, KeysInv
  <2>3. CASE ~UNCHANGED apiKey
    <3>1. PICK now \in call[c].loaded.lastUsed + 1..MaxUses :
            apiKey' = [apiKey EXCEPT ![call[c].key] = Stamped(@, call[c].loaded, now)]
      BY <1>5, <2>3 DEF Touch
    <3>2. call[c].loaded.lastUsed \in 0..MaxUses BY <1>3, <2>1 DEF KeyRow
    <3>3. now \in 0..MaxUses BY <3>1, <3>2, ApiKeysAssumption
    <3>4. PICK row : row = Saved(apiKey[call[c].key], call[c].loaded, [lastUsed |-> now]) OBVIOUS
    <3>5. row \in KeyRow /\ row.revoked = apiKey[call[c].key].revoked
      BY <1>3, <2>1, <3>3, <3>4, SavedKey
    <3> QED BY <1>2, <1>5, <2>1, <3>1, <3>4, <3>5 DEF Touch, Stamped
  <2> QED BY <2>2, <2>3
<1> QED BY <1>1, <1>4, <1>5

LEMMA KeysStep ==
  ASSUME KeysInv, [KeysNext]_keysVars
  PROVE  KeysInv' /\ Metered /\ Stays
<1>1. ASSUME UNCHANGED <<keyLock, call>>, LiveKeys' \subseteq LiveKeys, Minted' = Minted,
             apiKey' \in [Keys -> KeyRow \cup {NoKey}], keyLimit' \in KeyLimits, open' \in BOOLEAN
      PROVE  KeysInv'
  <2>1. ASSUME NEW d \in Calls PROVE Calling(d)'
    <3>1. Cardinality(LiveKeys') <= Cardinality(LiveKeys)
      BY <1>1, KeysFinite, FS_Subset DEF LiveKeys, Minted
    <3>2. Cardinality(LiveKeys) \in Nat /\ Cardinality(LiveKeys') \in Nat
      BY KeysFinite DEF LiveKeys, Minted
    <3>3. call[d].counted \in Nat /\ Calling(d) BY DEF KeysInv, CallRow
    <3> QED BY <1>1, <3>1, <3>2, <3>3 DEF Calling
  <2> QED BY <1>1, <2>1 DEF KeysInv
<1>2. ASSUME NEW k \in Keys, ExpireKey(k) PROVE KeysInv' /\ Metered /\ Stays
  <2>1. k \in Minted /\ apiKey[k] \in KeyRow BY <1>2 DEF ExpireKey, Minted, KeysInv
  <2>2. PICK row : row = [apiKey[k] EXCEPT !.expired = TRUE] OBVIOUS
  <2>3. row \in KeyRow /\ row.revoked = apiKey[k].revoked BY <2>1, <2>2 DEF KeyRow
  <2>4. apiKey' = [apiKey EXCEPT ![k] = row] BY <1>2, <2>2 DEF ExpireKey, KeysInv
  <2>5. /\ apiKey' \in [Keys -> KeyRow \cup {NoKey}]
        /\ Minted' = Minted /\ LiveKeys' \subseteq LiveKeys /\ Metered /\ Stays
    BY <1>2, <2>1, <2>3, <2>4, KeyRowStep DEF ExpireKey
  <2> QED BY <1>1, <1>2, <2>5 DEF ExpireKey, KeysInv
<1>3. ASSUME UNCHANGED <<apiKey, keyLock, call>>, keyLimit' \in KeyLimits, open' \in BOOLEAN
      PROVE  KeysInv' /\ Metered /\ Stays
  <2>1. LiveKeys' = LiveKeys /\ Minted' = Minted BY <1>3 DEF LiveKeys, Minted
  <2>2. KeysInv' BY <1>1, <1>3, <2>1 DEF KeysInv
  <2>3. KeyQuota!Next BY <1>3, <2>1 DEF KeyQuota!Next, KeyQuota!Replan
  <2>4. Stays BY <1>3 DEF Stays, LiveKeys
  <2> QED BY <2>2, <2>3, <2>4 DEF Metered
<1>4. ASSUME NEW n \in KeyLimits, ChangePlan(n) PROVE KeysInv' /\ Metered /\ Stays
  BY <1>3, <1>4 DEF ChangePlan, KeysInv
<1>5. CASE OpenOrClose BY <1>3, <1>5 DEF OpenOrClose, KeysInv
<1>6. CASE UNCHANGED keysVars BY <1>3, <1>6 DEF keysVars, KeysInv
<1> QED BY <1>2, <1>4, <1>5, <1>6, BeginStep, InsertStep, EndStep DEF KeysNext

(* The plan's limit on keys is kept, whatever is minted and revoked at     *)
(* once, and a revoked key never comes back (create, revoke, touch).       *)
THEOREM KeysHold == KeysSpec => KeysSafe
<1>1. KeysInit => KeysInv
  <2> SUFFICES ASSUME KeysInit PROVE KeysInv OBVIOUS
  <2>1. call \in [Calls -> CallRow] BY DEF KeysInit, NoCall, CallRow
  <2>2. \A c \in Calls : Calling(c) BY ApiKeysAssumption DEF KeysInit, NoCall, Calling
  <2> QED BY <2>1, <2>2 DEF KeysInit, KeysInv
<1>2. KeysInit => KeyQuota!Init
  <2> SUFFICES ASSUME KeysInit PROVE KeyQuota!Init OBVIOUS
  <2>1. LiveKeys = {} BY DEF KeysInit, LiveKeys, Minted
  <2> QED BY <2>1, FS_EmptySet DEF KeysInit, KeyQuota!Init
<1>3. KeysInv /\ [KeysNext]_keysVars => KeysInv' /\ Metered /\ Stays BY KeysStep
<1>4. KeysInv => KeysTypeOK
  BY DEF KeysInv, KeysTypeOK, Calling
<1>5. KeysInv /\ [KeysNext]_keysVars => [KeyQuota!Next]_<<LiveKeys, Cardinality(LiveKeys), keyLimit>>
  BY <1>3 DEF Metered
<1>6. KeysInv /\ [KeysNext]_keysVars => [\A k \in Minted \ LiveKeys : apiKey'[k].revoked]_keysVars
  BY <1>3 DEF Stays
<1>7. KeysSpec => []KeysInv BY <1>1, <1>3, PTL DEF KeysSpec
<1>8. KeysSpec => []KeysTypeOK BY <1>4, <1>7, PTL
<1>9. KeysSpec => KeysWithinPlan
  BY <1>2, <1>5, <1>7, PTL DEF KeysSpec, KeysWithinPlan, KeyQuota!Spec
<1>10. KeysSpec => RevokedStaysRevoked BY <1>6, <1>7, PTL DEF KeysSpec, RevokedStaysRevoked
<1> QED BY <1>8, <1>9, <1>10 DEF KeysSafe

-----------------------------------------------------------------------------
(* Links. A request that has asked and not issued yet knows every link of  *)
(* its kind that still works: it retires it, or it was issued meanwhile.   *)

ClickRow == [step : {"idle", "issue", "mail", "password", "verified", "login"},
             type : Types \cup {"none"}, t : 0..MaxTokens, retires : SUBSET Tokens,
             missed : SUBSET Tokens, user : PersonRow \cup {NoToken}]

Clicking(c) ==
  /\ click[c].step = "issue" => /\ click[c].type \in Types /\ click[c].retires \subseteq Rows
                                /\ \A t \in Rows :
                                     token[t].type = click[c].type /\ ~token[t].consumed =>
                                       t \in click[c].retires \cup click[c].missed
  /\ click[c].step = "mail" => click[c].t \in Rows
  /\ click[c].step \in {"password", "verified", "login"} =>
       click[c].t \in mailed /\ redeemed[click[c].t] = 1 /\ click[c].user \in PersonRow
  /\ click[c].step = "password" => token[click[c].t].type = "reset_password"

LinkRows ==
  /\ issued \in 0..MaxTokens /\ mailed \subseteq Rows
  /\ token \in [Tokens -> TokenRow \cup {NoToken}]
  /\ \A t \in Tokens : token[t] \in IF t \in Rows THEN TokenRow ELSE {NoToken}
  /\ redeemed \in [Tokens -> 0..1]
  /\ \A t \in Tokens : redeemed[t] = 1 => t \in mailed /\ token[t].consumed
  /\ NewLinkRetiresTheOld

LinksInv ==
  /\ LinkRows /\ person \in PersonRow /\ ProvedByAnHonouredLink
  /\ click \in [Clicks -> ClickRow] /\ \A c \in Clicks : Clicking(c)

LEMMA RowsAreTokens ==
  ASSUME LinkRows
  PROVE  Rows \subseteq Tokens /\ \A t \in Rows : token[t] \in TokenRow
<1>1. Rows \subseteq Tokens BY AuthTokensAssumption DEF LinkRows, Rows, Tokens
<1> QED BY <1>1 DEF LinkRows

LEMMA PersonIsRow ==
  ASSUME NEW row \in PersonRow, NEW loaded \in PersonRow
  PROVE  /\ \A t \in 0..MaxTokens : LET s == Saved(row, loaded, [password |-> t]) IN
              /\ s \in PersonRow /\ s.password \in {t, row.password}
              /\ s.verified = row.verified /\ s.vouched = row.vouched
         /\ LET s == Saved(row, loaded, [verified |-> TRUE]) IN
              s \in PersonRow /\ s.password = row.password /\ s.vouched = row.vouched
<1> DEFINE Columns == {"password", "verified", "vouched", "twoFactor", "deleted", "signedIn"}
<1>1. DOMAIN row = Columns BY DEF PersonRow
<1>2. /\ row.password \in 0..MaxTokens /\ row.verified \in BOOLEAN /\ row.vouched \in BOOLEAN
      /\ row.twoFactor \in BOOLEAN /\ row.deleted \in BOOLEAN /\ row.signedIn \in BOOLEAN
  BY DEF PersonRow
<1>3. ASSUME NEW f, DOMAIN f = Columns, f = [x \in DOMAIN f |-> f[x]],
             f.password \in 0..MaxTokens, f.verified \in BOOLEAN, f.vouched \in BOOLEAN,
             f.twoFactor \in BOOLEAN, f.deleted \in BOOLEAN, f.signedIn \in BOOLEAN
      PROVE  f \in PersonRow
  <2>1. f = [password |-> f.password, verified |-> f.verified, vouched |-> f.vouched,
             twoFactor |-> f.twoFactor, deleted |-> f.deleted, signedIn |-> f.signedIn]
    BY <1>3
  <2> QED BY <1>3, <2>1 DEF PersonRow
<1>4. ASSUME NEW t \in 0..MaxTokens
      PROVE  LET s == Saved(row, loaded, [password |-> t]) IN
               /\ s \in PersonRow /\ s.password \in {t, row.password}
               /\ s.verified = row.verified /\ s.vouched = row.vouched
  <2> DEFINE s == Saved(row, loaded, [password |-> t])
  <2>1. DOMAIN s = Columns /\ s = [x \in DOMAIN s |-> s[x]] BY <1>1 DEF Saved
  <2>2. /\ s.password \in {t, row.password} /\ s.verified = row.verified
        /\ s.vouched = row.vouched /\ s.twoFactor = row.twoFactor
        /\ s.deleted = row.deleted /\ s.signedIn = row.signedIn
    BY <1>1 DEF Saved
  <2>3. s \in PersonRow
    <3> HIDE DEF s
    <3> QED BY <1>2, <1>3, <2>1, <2>2
  <2> QED BY <2>2, <2>3
<1>5. LET s == Saved(row, loaded, [verified |-> TRUE]) IN
        s \in PersonRow /\ s.password = row.password /\ s.vouched = row.vouched
  <2> DEFINE s == Saved(row, loaded, [verified |-> TRUE])
  <2>1. DOMAIN s = Columns /\ s = [x \in DOMAIN s |-> s[x]] BY <1>1 DEF Saved
  <2>2. /\ s.password = row.password /\ s.verified \in {TRUE, row.verified}
        /\ s.vouched = row.vouched /\ s.twoFactor = row.twoFactor
        /\ s.deleted = row.deleted /\ s.signedIn = row.signedIn
    BY <1>1 DEF Saved
  <2>3. s \in PersonRow
    <3> HIDE DEF s
    <3> QED BY <1>2, <1>3, <2>1, <2>2
  <2> QED BY <2>2, <2>3
<1> QED BY <1>4, <1>5

\* A request's step that leaves the links as they are.
LEMMA ClickStep ==
  ASSUME LinksInv, NEW c \in Clicks, UNCHANGED <<issued, token, redeemed>>,
         NEW row \in ClickRow, click' = [click EXCEPT ![c] = row], Clicking(c)',
         mailed \subseteq mailed', mailed' \subseteq Rows,
         person' \in PersonRow, ProvedByAnHonouredLink'
  PROVE  LinksInv'
<1>1. click' \in [Clicks -> ClickRow] /\ \A d \in Clicks \ {c} : click'[d] = click[d]
  BY DEF LinksInv
<1>2. ASSUME NEW d \in Clicks \ {c} PROVE Clicking(d)'
  <2>1. Clicking(d) BY DEF LinksInv
  <2>2. Rows' = Rows BY DEF Rows
  <2> QED BY <1>1, <2>1, <2>2 DEF Clicking
<1>3. LinkRows'
  <2>1. Rows' = Rows BY DEF Rows
  <2>2. NewLinkRetiresTheOld' BY <2>1 DEF LinksInv, LinkRows, NewLinkRetiresTheOld
  <2> QED BY <2>1, <2>2 DEF LinksInv, LinkRows
<1> QED BY <1>1, <1>2, <1>3 DEF LinksInv

\* Ends, kills and whatever else ends in waiting.
LEMMA WaitingStep ==
  ASSUME LinksInv, NEW c \in Clicks, UNCHANGED <<issued, token, redeemed>>, Done(c),
         mailed \subseteq mailed', mailed' \subseteq Rows,
         person' \in PersonRow, ProvedByAnHonouredLink'
  PROVE  LinksInv'
<1>1. Waiting \in ClickRow BY AuthTokensAssumption DEF Waiting, ClickRow
<1>2. click'[c] = Waiting BY DEF Done, LinksInv
<1>3. Clicking(c)' BY <1>2 DEF Clicking, Waiting
<1> QED BY <1>1, <1>3, ClickStep DEF Done

LEMMA AskStep ==
  ASSUME LinksInv, NEW c \in Clicks, NEW type \in Types, Ask(c, type)
  PROVE  LinksInv'
<1> DEFINE row == [click[c] EXCEPT !.step = "issue", !.type = type, !.retires = LiveOf(type)]
<1>1. click[c] = Waiting /\ UNCHANGED <<person, issued, token, mailed, redeemed>> BY DEF Ask
<1>2. LiveOf(type) \subseteq Rows /\ Rows \subseteq Tokens
  BY RowsAreTokens DEF LinksInv, LiveOf
<1>3. click[c] \in ClickRow BY DEF LinksInv
<1>4. row \in ClickRow BY <1>2, <1>3 DEF ClickRow
<1>5. click' = [click EXCEPT ![c] = row] /\ click'[c] = row BY DEF Ask, Retires, LinksInv
<1>6. Rows' = Rows BY <1>1 DEF Rows
<1>7. Clicking(c)'
  <2>1. click'[c].step = "issue" /\ click'[c].type = type /\ click'[c].retires = LiveOf(type)
    BY <1>3, <1>5 DEF ClickRow
  <2>2. \A t \in Rows : token[t].type = type /\ ~token[t].consumed => t \in LiveOf(type)
    BY DEF LiveOf
  <2> QED BY <1>1, <1>2, <1>6, <2>1, <2>2 DEF Clicking
<1>8. ProvedByAnHonouredLink' BY <1>1 DEF LinksInv, ProvedByAnHonouredLink
<1> QED BY <1>1, <1>4, <1>5, <1>7, <1>8, ClickStep DEF LinksInv, LinkRows

LEMMA MailStep ==
  ASSUME LinksInv, NEW c \in Clicks, MailToken(c)
  PROVE  LinksInv'
<1>1. click[c].t \in Rows BY DEF MailToken, LinksInv, Clicking
<1>2. mailed \subseteq mailed' /\ mailed' \subseteq Rows
  BY <1>1 DEF MailToken, LinksInv, LinkRows
<1>3. ProvedByAnHonouredLink' BY <1>2 DEF MailToken, LinksInv, ProvedByAnHonouredLink
<1> QED BY <1>2, <1>3, WaitingStep DEF MailToken, LinksInv

\* What the controllers do with the person a link returned.
LEMMA AllowStep ==
  ASSUME LinksInv, NEW c \in Clicks, SavePassword(c) \/ MarkVerified(c) \/ Login(c)
  PROVE  LinksInv'
<1>1. /\ click[c].t \in mailed /\ redeemed[click[c].t] = 1 /\ click[c].user \in PersonRow
      /\ click[c].t \in 0..MaxTokens
  BY DEF SavePassword, MarkVerified, Login, LinksInv, Clicking, ClickRow
<1>2. UNCHANGED <<issued, token, mailed, redeemed>> BY DEF SavePassword, MarkVerified, Login
<1>3. ASSUME NEW step \in {"verified", "login"}, click' = [click EXCEPT ![c].step = step],
             person' \in PersonRow, ProvedByAnHonouredLink'
      PROVE  LinksInv'
  <2> DEFINE row == [click[c] EXCEPT !.step = step]
  <2>1. row \in ClickRow BY <1>3 DEF LinksInv, ClickRow
  <2>2. click' = [click EXCEPT ![c] = row] BY <1>3 DEF LinksInv
  <2>3. click'[c] = row BY <2>2 DEF LinksInv
  <2>4. row.step = step /\ row.t = click[c].t /\ row.user = click[c].user
    BY DEF LinksInv, ClickRow
  <2> HIDE DEF row
  <2>5. Clicking(c)'
    <3>1. /\ click'[c].step = step /\ click'[c].t \in mailed /\ redeemed[click'[c].t] = 1
          /\ click'[c].user \in PersonRow
      BY <1>1, <2>3, <2>4
    <3> QED BY <1>2, <3>1 DEF Clicking
  <2> QED BY <1>2, <1>3, <2>1, <2>2, <2>5, ClickStep DEF LinksInv, LinkRows
<1>4. CASE SavePassword(c)
  <2>1. token[click[c].t].type = "reset_password" BY <1>4 DEF SavePassword, LinksInv, Clicking
  <2>2. /\ person' \in PersonRow /\ person'.password \in {click[c].t, person.password}
        /\ person'.verified = person.verified /\ person'.vouched = person.vouched
    BY <1>1, <1>4, PersonIsRow DEF SavePassword, LinksInv
  <2>3. ProvedByAnHonouredLink'
    BY <1>1, <1>2, <2>1, <2>2 DEF ProvedByAnHonouredLink, LinksInv
  <2> QED BY <1>3, <1>4, <2>2, <2>3 DEF SavePassword
<1>5. CASE MarkVerified(c)
  <2>1. /\ person' \in PersonRow /\ person'.password = person.password
        /\ person'.vouched = person.vouched
    BY <1>1, <1>5, PersonIsRow DEF MarkVerified, LinksInv
  <2>2. ProvedByAnHonouredLink'
    BY <1>1, <1>2, <2>1 DEF ProvedByAnHonouredLink, LinksInv
  <2> QED BY <1>3, <1>5, <2>1, <2>2 DEF MarkVerified
<1>6. CASE Login(c)
  <2>1. /\ person' \in PersonRow /\ person'.password = person.password
        /\ person'.vouched = person.vouched /\ person'.verified = person.verified
    BY <1>6 DEF Login, LinksInv, PersonRow
  <2>2. ProvedByAnHonouredLink' BY <1>2, <2>1 DEF ProvedByAnHonouredLink, LinksInv
  <2> QED BY <1>2, <1>6, <2>1, <2>2, WaitingStep DEF Login, LinksInv, LinkRows
<1> QED BY <1>4, <1>5, <1>6

LEMMA PerishStep ==
  ASSUME LinksInv, NEW c \in Clicks, Perish(c)
  PROVE  LinksInv'
<1>1. ProvedByAnHonouredLink' BY DEF Perish, LinksInv, ProvedByAnHonouredLink
<1> QED BY <1>1, WaitingStep DEF Perish, LinksInv, LinkRows

\* The person, without a link.
LEMMA PersonStep ==
  ASSUME LinksInv, PersonDeleted \/ ChangePassword \/ StaffVerifies \/ UNCHANGED tokenVars
  PROVE  LinksInv'
<1>1. UNCHANGED <<issued, token, mailed, redeemed, click>>
  BY DEF PersonDeleted, ChangePassword, StaffVerifies, tokenVars
<1>2. person' \in PersonRow /\ ProvedByAnHonouredLink'
  <2>1. CASE PersonDeleted
    BY <1>1, <2>1 DEF PersonDeleted, LinksInv, PersonRow, ProvedByAnHonouredLink
  <2>2. CASE ChangePassword
    BY <1>1, <2>2, AuthTokensAssumption DEF ChangePassword, LinksInv, PersonRow, ProvedByAnHonouredLink
  <2>3. CASE StaffVerifies
    BY <1>1, <2>3 DEF StaffVerifies, LinksInv, PersonRow, ProvedByAnHonouredLink
  <2>4. CASE UNCHANGED tokenVars
    BY <1>1, <2>4 DEF tokenVars, LinksInv, ProvedByAnHonouredLink
  <2> QED BY <2>1, <2>2, <2>3, <2>4
<1>3. Rows' = Rows BY <1>1 DEF Rows
<1>4. LinkRows' BY <1>1, <1>3 DEF LinksInv, LinkRows, NewLinkRetiresTheOld
<1>5. ASSUME NEW d \in Clicks PROVE Clicking(d)'
  <2>1. Clicking(d) BY DEF LinksInv
  <2> QED BY <1>1, <1>3, <2>1 DEF Clicking
<1> QED BY <1>1, <1>2, <1>4, <1>5 DEF LinksInv

\* Rows that are spent or run out: fewer links work.
LEMMA LinkRowStep ==
  ASSUME LinksInv, NEW t \in Rows, NEW row \in TokenRow, token' = [token EXCEPT ![t] = row],
         row.type = token[t].type, row.missed = token[t].missed,
         token[t].consumed => row.consumed, UNCHANGED <<issued, mailed>>
  PROVE  /\ Rows' = Rows /\ NewLinkRetiresTheOld'
         /\ token' \in [Tokens -> TokenRow \cup {NoToken}]
         /\ \A u \in Tokens : token'[u] \in IF u \in Rows THEN TokenRow ELSE {NoToken}
         /\ \A u \in Rows : token'[u].type = token[u].type /\ (token[u].consumed => token'[u].consumed)
<1>1. Rows' = Rows /\ Rows \subseteq Tokens BY RowsAreTokens DEF Rows, LinksInv
<1>2. \A u \in Rows : /\ token'[u].type = token[u].type /\ token'[u].missed = token[u].missed
                      /\ token[u].consumed => token'[u].consumed
  BY <1>1 DEF LinksInv, LinkRows
<1>3. NewLinkRetiresTheOld'
  BY <1>1, <1>2 DEF LinksInv, LinkRows, NewLinkRetiresTheOld
<1> QED BY <1>1, <1>2, <1>3 DEF LinksInv, LinkRows

LEMMA ConsumeStep ==
  ASSUME LinksInv, NEW c \in Clicks, NEW t \in mailed, Consume(c, t)
  PROVE  LinksInv'
<1>1. t \in Rows /\ t \in Tokens /\ token[t] \in TokenRow /\ ~token[t].consumed /\ redeemed[t] = 0
  BY RowsAreTokens DEF LinksInv, LinkRows, Consume, isUsable
<1>2. PICK row : row = [token[t] EXCEPT !.consumed = TRUE] OBVIOUS
<1>3. /\ row \in TokenRow /\ row.type = token[t].type /\ row.missed = token[t].missed /\ row.consumed
  BY <1>1, <1>2 DEF TokenRow
<1>4. token' = [token EXCEPT ![t] = row] /\ UNCHANGED <<person, issued, mailed>> /\ click[c] = Waiting
  BY <1>2 DEF Consume, Spent, LinksInv, LinkRows
<1>5. /\ Rows' = Rows /\ NewLinkRetiresTheOld'
      /\ token' \in [Tokens -> TokenRow \cup {NoToken}]
      /\ \A u \in Tokens : token'[u] \in IF u \in Rows THEN TokenRow ELSE {NoToken}
      /\ \A u \in Rows : token'[u].type = token[u].type /\ (token[u].consumed => token'[u].consumed)
  BY <1>1, <1>3, <1>4, LinkRowStep
<1>6. /\ redeemed' \in [Tokens -> 0..1] /\ \A u \in Tokens : u # t => redeemed'[u] = redeemed[u]
      /\ redeemed'[t] \in {0, 1}
  <2>1. CASE person.deleted BY <1>1, <2>1 DEF Consume, LinksInv, LinkRows
  <2>2. CASE ~person.deleted
    <3>1. redeemed' = [redeemed EXCEPT ![t] = IF @ < 2 THEN @ + 1 ELSE @] BY <2>2 DEF Consume
    <3>2. redeemed' = [redeemed EXCEPT ![t] = 1] BY <1>1, <3>1 DEF LinksInv, LinkRows
    <3> QED BY <1>1, <3>2 DEF LinksInv, LinkRows
  <2> QED BY <2>1, <2>2
<1>7. \A u \in Tokens : redeemed'[u] = 1 => u \in mailed' /\ token'[u].consumed
  BY <1>1, <1>3, <1>4, <1>5, <1>6 DEF LinksInv, LinkRows
<1>8. LinkRows' BY <1>4, <1>5, <1>6, <1>7 DEF LinksInv, LinkRows
<1>9. ProvedByAnHonouredLink'
  <2>1. \A u \in mailed : redeemed[u] = 1 => redeemed'[u] = 1
    BY <1>1, <1>6, RowsAreTokens DEF LinksInv, LinkRows
  <2>2. person.password # 0 => /\ person.password \in mailed /\ person.password \in Rows
                               /\ redeemed'[person.password] = 1
    <3>1. person.password # 0 => person.password \in Tokens
      BY AuthTokensAssumption DEF LinksInv, PersonRow, Tokens
    <3> QED BY <2>1, <3>1 DEF LinksInv, LinkRows, ProvedByAnHonouredLink
  <2> QED BY <1>4, <1>5, <2>1, <2>2 DEF LinksInv, ProvedByAnHonouredLink
<1>10. ASSUME NEW d \in Clicks, click'[d] = click[d] PROVE Clicking(d)'
  <2>1. Clicking(d) BY DEF LinksInv
  <2>2. \A u \in mailed : redeemed[u] = 1 => redeemed'[u] = 1
    BY <1>1, <1>6, RowsAreTokens DEF LinksInv, LinkRows
  <2>3. mailed \subseteq Rows BY DEF LinksInv, LinkRows
  <2> QED BY <1>4, <1>5, <1>10, <2>1, <2>2, <2>3 DEF Clicking
<1>11. click' \in [Clicks -> ClickRow] /\ Clicking(c)' /\ \A d \in Clicks \ {c} : click'[d] = click[d]
  <2>1. CASE person.deleted
    <3>1. click' = click BY <2>1 DEF Consume
    <3> QED BY <1>10, <3>1 DEF LinksInv
  <2>2. CASE ~person.deleted
    <3> DEFINE step == IF token[t].type = "reset_password" THEN "password" ELSE "verified"
               new == [step |-> step, type |-> "none", t |-> t, retires |-> {}, missed |-> {},
                       user |-> person]
    <3>1. click' = [click EXCEPT ![c] = new] BY <2>2 DEF Consume, Waiting
    <3>2. new \in ClickRow
      <4>1. t \in 0..MaxTokens BY <1>1, AuthTokensAssumption DEF Tokens
      <4>2. {} \in SUBSET Tokens /\ person \in PersonRow BY DEF LinksInv
      <4> QED BY <4>1, <4>2 DEF ClickRow
    <3>3. click'[c] = new BY <3>1 DEF LinksInv
    <3>4. new.step = step /\ new.t = t /\ new.user = person OBVIOUS
    <3>5. redeemed'[t] = 1 BY <1>1, <2>2 DEF Consume, LinksInv, LinkRows
    <3>6. person \in PersonRow BY DEF LinksInv
    <3> HIDE DEF new
    <3>7. Clicking(c)' BY <1>1, <1>4, <1>5, <3>3, <3>4, <3>5, <3>6 DEF Clicking
    <3> QED BY <3>1, <3>2, <3>7 DEF LinksInv
  <2> QED BY <2>1, <2>2
<1>12. \A d \in Clicks : Clicking(d)' BY <1>10, <1>11
<1> QED BY <1>4, <1>8, <1>9, <1>11, <1>12 DEF LinksInv

LEMMA ExpireStep ==
  ASSUME LinksInv, NEW t \in Rows, TokenExpires(t)
  PROVE  LinksInv'
<1>1. t \in Tokens /\ token[t] \in TokenRow BY RowsAreTokens DEF LinksInv
<1>2. PICK row : row = [token[t] EXCEPT !.expired = TRUE] OBVIOUS
<1>3. /\ row \in TokenRow /\ row.type = token[t].type /\ row.missed = token[t].missed
      /\ row.consumed = token[t].consumed
  BY <1>1, <1>2 DEF TokenRow
<1>4. token' = [token EXCEPT ![t] = row] /\ UNCHANGED <<person, issued, mailed, redeemed, click>>
  BY <1>2 DEF TokenExpires, LinksInv, LinkRows
<1>5. /\ Rows' = Rows /\ NewLinkRetiresTheOld'
      /\ token' \in [Tokens -> TokenRow \cup {NoToken}]
      /\ \A u \in Tokens : token'[u] \in IF u \in Rows THEN TokenRow ELSE {NoToken}
      /\ \A u \in Rows : token'[u].type = token[u].type /\ (token[u].consumed => token'[u].consumed)
  BY <1>3, <1>4, LinkRowStep
<1>6. LinkRows' BY <1>4, <1>5 DEF LinksInv, LinkRows
<1>7. ProvedByAnHonouredLink'
  <2>1. person.password # 0 => person.password \in Rows
    <3>1. person.password # 0 => person.password \in Tokens
      BY AuthTokensAssumption DEF LinksInv, PersonRow, Tokens
    <3> QED BY <3>1 DEF LinksInv, LinkRows, ProvedByAnHonouredLink
  <2> QED BY <1>4, <1>5, <2>1 DEF LinksInv, ProvedByAnHonouredLink
<1>8. ASSUME NEW d \in Clicks PROVE Clicking(d)'
  <2>1. Clicking(d) /\ mailed \subseteq Rows BY DEF LinksInv, LinkRows
  <2> QED BY <1>4, <1>5, <2>1 DEF Clicking
<1> QED BY <1>4, <1>6, <1>7, <1>8 DEF LinksInv

\* A link is committed: it has retired what its request saw, and whoever has
\* asked and not issued yet has missed it.
LEMMA IssueStep ==
  ASSUME LinksInv, NEW c \in Clicks, Issue(c)
  PROVE  LinksInv'
<1> DEFINE n == issued + 1
           type == click[c].type
           row == [type |-> type, consumed |-> FALSE, expired |-> FALSE, missed |-> click[c].missed]
<1>1. /\ click[c].step = "issue" /\ n \in Tokens /\ issued' = n /\ n \notin Rows
      /\ UNCHANGED <<person, mailed, redeemed>> /\ Rows' = Rows \cup {n} /\ Rows \subseteq Tokens
  BY RowsAreTokens, AuthTokensAssumption DEF Issue, LinksInv, LinkRows, Rows, Tokens
<1>2. /\ type \in Types /\ click[c].retires \subseteq Rows /\ click[c].missed \subseteq Tokens
      /\ \A t \in Rows : token[t].type = type /\ ~token[t].consumed =>
                            t \in click[c].retires \cup click[c].missed
  BY <1>1 DEF LinksInv, Clicking, ClickRow
<1>3. row \in TokenRow BY <1>2 DEF TokenRow
<1>4. \A t \in Tokens : token'[t] = IF t = n THEN row
                                    ELSE IF t \in click[c].retires
                                         THEN [token[t] EXCEPT !.consumed = TRUE] ELSE token[t]
  BY DEF Issue
<1>5. token'[n] = row BY <1>1, <1>4
<1>6. ASSUME NEW t \in Rows
      PROVE  /\ token'[t] \in TokenRow /\ token'[t].type = token[t].type
             /\ token'[t].missed = token[t].missed /\ (token[t].consumed => token'[t].consumed)
             /\ t \in click[c].retires => token'[t].consumed
  <2>1. t # n /\ t \in Tokens /\ token[t] \in TokenRow BY <1>1, RowsAreTokens DEF LinksInv
  <2> QED BY <1>4, <2>1 DEF TokenRow
<1>7. \A t \in Tokens \ Rows' : token'[t] = NoToken
  BY <1>1, <1>2, <1>4 DEF LinksInv, LinkRows
<1>8. token' \in [Tokens -> TokenRow \cup {NoToken}]
  <2>1. token' = [t \in Tokens |-> token'[t]] BY DEF Issue
  <2>2. \A t \in Tokens : token'[t] \in TokenRow \cup {NoToken} BY <1>1, <1>3, <1>5, <1>6, <1>7
  <2> QED BY <2>1, <2>2
<1> HIDE DEF row
<1>9. row.type = type /\ row.missed = click[c].missed /\ ~row.consumed BY DEF row
<1>10. NewLinkRetiresTheOld'
  <2> SUFFICES ASSUME NEW t \in Rows', NEW u \in Rows', t < u, token'[t].type = token'[u].type,
                      ~token'[t].consumed, ~token'[u].consumed
               PROVE  t \in token'[u].missed
    BY DEF NewLinkRetiresTheOld
  <2>1. t \in Rows BY <1>1 DEF Rows, LinksInv, LinkRows
  <2>2. CASE u \in Rows BY <1>6, <2>1, <2>2 DEF LinksInv, LinkRows, NewLinkRetiresTheOld
  <2>3. CASE u = n
    <3>1. token[t].type = type /\ ~token[t].consumed BY <1>5, <1>6, <1>9, <2>1, <2>3
    <3>2. t \notin click[c].retires BY <1>6, <2>1
    <3> QED BY <1>2, <1>5, <1>9, <2>1, <2>3, <3>1, <3>2
  <2> QED BY <1>1, <2>2, <2>3
<1>11. LinkRows'
  <2>1. \A t \in Tokens : token'[t] \in IF t \in Rows' THEN TokenRow ELSE {NoToken}
    BY <1>1, <1>3, <1>5, <1>6, <1>7
  <2>2. \A t \in Tokens : redeemed'[t] = 1 => t \in mailed' /\ token'[t].consumed
    BY <1>1, <1>6 DEF LinksInv, LinkRows
  <2>3. issued' \in 0..MaxTokens BY <1>1, AuthTokensAssumption DEF Tokens
  <2> QED BY <1>1, <1>8, <1>10, <2>1, <2>2, <2>3 DEF LinksInv, LinkRows
<1>12. ProvedByAnHonouredLink'
  <2>1. person.password # 0 => person.password \in Rows
    <3>1. person.password # 0 => person.password \in Tokens
      BY AuthTokensAssumption DEF LinksInv, PersonRow, Tokens
    <3> QED BY <3>1 DEF LinksInv, LinkRows, ProvedByAnHonouredLink
  <2> QED BY <1>1, <1>6, <2>1 DEF LinksInv, ProvedByAnHonouredLink
<1>13. click' \in [Clicks -> ClickRow]
  <2>1. ASSUME NEW d \in Clicks PROVE click'[d] \in ClickRow
    <3>1. click[d] \in ClickRow BY DEF LinksInv
    <3>2. n \in 0..MaxTokens /\ {} \in SUBSET Tokens BY <1>1, AuthTokensAssumption DEF Tokens
    <3>3. click[d].missed \cup {n} \in SUBSET Tokens BY <1>1, <3>1 DEF ClickRow
    <3>4. CASE d = c BY <3>1, <3>2, <3>4 DEF Issue, ClickRow
    <3>5. CASE d # c BY <3>1, <3>3, <3>5 DEF Issue, ClickRow
    <3> QED BY <3>4, <3>5
  <2>2. click' = [d \in Clicks |-> click'[d]] BY DEF Issue
  <2> QED BY <2>1, <2>2
<1>14. ASSUME NEW d \in Clicks PROVE Clicking(d)'
  <2>1. CASE d = c
    <3>1. click'[d].step = "mail" /\ click'[d].t = n
      BY <2>1 DEF Issue, LinksInv, ClickRow
    <3> QED BY <1>1, <3>1 DEF Clicking
  <2>2. CASE d # c /\ d \in UnderWay /\ click[d].type = type
    <3>1. /\ click'[d].step = "issue" /\ click'[d].type = type
          /\ click'[d].retires = click[d].retires /\ click'[d].missed = click[d].missed \cup {n}
      BY <2>2 DEF Issue, LinksInv, ClickRow, UnderWay
    <3>2. Clicking(d) /\ click[d].step = "issue" BY <2>2 DEF LinksInv, UnderWay
    <3>3. ASSUME NEW t \in Rows', token'[t].type = type, ~token'[t].consumed
          PROVE  t \in click[d].retires \cup click[d].missed \cup {n}
      <4>1. CASE t = n BY <4>1
      <4>2. CASE t \in Rows
        <5>1. token[t].type = type /\ ~token[t].consumed BY <1>6, <3>3, <4>2
        <5> QED BY <2>2, <3>2, <4>2, <5>1 DEF Clicking
      <4> QED BY <1>1, <4>1, <4>2
    <3>4. click[d].retires \subseteq Rows' BY <1>1, <3>2 DEF Clicking
    <3> QED BY <1>2, <3>1, <3>3, <3>4 DEF Clicking
  <2>3. CASE d # c /\ ~(d \in UnderWay /\ click[d].type = type)
    <3>1. click'[d] = click[d] BY <2>3 DEF Issue
    <3>2. Clicking(d) BY DEF LinksInv
    <3>3. mailed \subseteq Rows BY DEF LinksInv, LinkRows
    <3>4. CASE click[d].step = "issue"
      <4>1. click[d].type # type BY <2>3, <3>4 DEF UnderWay
      <4>2. ASSUME NEW t \in Rows', token'[t].type = click[d].type, ~token'[t].consumed
            PROVE  t \in click[d].retires \cup click[d].missed
        <5>1. t \in Rows BY <1>1, <1>5, <1>9, <4>1, <4>2
        <5>2. token[t].type = click[d].type /\ ~token[t].consumed BY <1>6, <4>2, <5>1
        <5> QED BY <3>2, <3>4, <5>1, <5>2 DEF Clicking
      <4> QED BY <1>1, <3>1, <3>2, <3>4, <4>2 DEF Clicking
    <3>5. CASE click[d].step # "issue" BY <1>1, <1>6, <3>1, <3>2, <3>3, <3>5 DEF Clicking
    <3> QED BY <3>4, <3>5
  <2> QED BY <2>1, <2>2, <2>3
<1> QED BY <1>1, <1>11, <1>12, <1>13, <1>14 DEF LinksInv

(* Whatever is asked for, followed and interrupted at once: a link is      *)
(* honoured once, a new one leaves no old one working, and nothing counts  *)
(* as proved or reset but by a link that was honoured (issue, consume).    *)
THEOREM LinksHold == TokensSpec => []LinksSafe
<1>1. TokensInit => LinksInv
  <2> SUFFICES ASSUME TokensInit PROVE LinksInv OBVIOUS
  <2>1. Rows = {} /\ person \in PersonRow
    <3>1. 0 \in 0..MaxTokens /\ 1..0 = {} BY AuthTokensAssumption
    <3> QED BY <3>1 DEF TokensInit, Rows, PersonRow
  <2>2. LinkRows
    BY <2>1, AuthTokensAssumption DEF TokensInit, LinkRows, NewLinkRetiresTheOld
  <2>3. ProvedByAnHonouredLink BY DEF TokensInit, ProvedByAnHonouredLink
  <2>4. Waiting \in ClickRow BY AuthTokensAssumption DEF Waiting, ClickRow
  <2>5. \A c \in Clicks : Clicking(c) BY DEF TokensInit, Waiting, Clicking
  <2> QED BY <2>1, <2>2, <2>3, <2>4, <2>5 DEF TokensInit, LinksInv
<1>2. LinksInv /\ [TokensNext]_tokenVars => LinksInv'
  BY AskStep, IssueStep, MailStep, ConsumeStep, AllowStep, PerishStep, ExpireStep, PersonStep
  DEF TokensNext
<1>3. LinksInv => LinksSafe
  BY DEF LinksInv, LinkRows, LinksSafe, TokensTypeOK, HonouredOnce, Tokens, Rows
<1> QED BY <1>1, <1>2, <1>3, PTL DEF TokensSpec

-----------------------------------------------------------------------------
(* The second factor. A request that is not late saves over the row it     *)
(* loaded, so that what it decided from is still so.                       *)

Idle == {"idle", "challenge"}
Settings == {"begin", "confirm", "regenerate", "disable"}
BrowserRow == [step : Idle \cup Settings \cup {"spend"}, loaded : SubjectRow \cup {NoRow},
               code : Codes \cup {NoRow}]

RowOK(row, s, g) ==
  /\ row \in SubjectRow /\ row.secret <= s
  /\ \A c \in row.codes : c[1] <= g
  /\ Cardinality(row.codes) <= CodesPerGen

Holds(b) ==
  /\ browser[b].step = "idle" => browser[b] = Away
  /\ browser[b].step \in Idle => browser[b].loaded = NoRow
  /\ browser[b].step \notin Idle => RowOK(browser[b].loaded, secrets, gens)
  /\ browser[b].step = "spend" => browser[b].code \in browser[b].loaded.codes
  /\ browser[b].loaded # NoRow /\ b \notin late => browser[b].loaded = subject

Fresh == \A c \in Codes : c[1] > gens => spent[c] = 0

FactorRows ==
  /\ secrets \in 0..MaxSecrets /\ gens \in 0..MaxGens /\ overtook \in BOOLEAN
  /\ RowOK(subject, secrets, gens)
  /\ browser \in [Browsers -> BrowserRow] /\ late \subseteq Browsers
  /\ \A b \in late : browser[b].loaded # NoRow
  /\ \A b \in Browsers : Holds(b)

FactorInv ==
  /\ FactorRows
  /\ proved \subseteq 1..secrets /\ spent \in [Codes -> 0..2]
  /\ OnOnlyWhenProved /\ EachCodeWorksOnce /\ Fresh

LEMMA RowGrows ==
  ASSUME NEW row, NEW s \in Int, NEW t \in Int, NEW g \in Int, NEW h \in Int,
         RowOK(row, s, g), s <= t, g <= h
  PROVE  RowOK(row, t, h)
<1>1. row.secret \in Int BY TwoFactorAssumption DEF RowOK, SubjectRow
<1>2. \A c \in row.codes : c[1] \in Int
  BY TwoFactorAssumption DEF RowOK, SubjectRow, Codes
<1> QED BY <1>1, <1>2 DEF RowOK

\* What is saved over the row, column by column.
SubjectColumns(columns) ==
  /\ DOMAIN columns \subseteq {"secret", "confirmed", "codes"}
  /\ "secret" \in DOMAIN columns => columns.secret \in 0..MaxSecrets
  /\ "confirmed" \in DOMAIN columns => columns.confirmed \in BOOLEAN
  /\ "codes" \in DOMAIN columns => columns.codes \in SUBSET Codes

KeepsTheRest(s, row, loaded, columns) ==
  /\ s \in SubjectRow
  /\ s.secret = IF "secret" \in DOMAIN columns /\ columns.secret # loaded.secret
                THEN columns.secret ELSE row.secret
  /\ s.confirmed = IF "confirmed" \in DOMAIN columns /\ columns.confirmed # loaded.confirmed
                   THEN columns.confirmed ELSE row.confirmed
  /\ s.codes = IF "codes" \in DOMAIN columns /\ columns.codes # loaded.codes
               THEN columns.codes ELSE row.codes

LEMMA SavedSubject ==
  ASSUME NEW row \in SubjectRow, NEW loaded \in SubjectRow, NEW columns, SubjectColumns(columns),
         NEW s, s = Saved(row, loaded, columns)
  PROVE  KeepsTheRest(s, row, loaded, columns)
<1>1. DOMAIN row = {"secret", "confirmed", "codes"} BY DEF SubjectRow
<1>2. row.secret \in 0..MaxSecrets /\ row.confirmed \in BOOLEAN /\ row.codes \in SUBSET Codes
  BY DEF SubjectRow
<1>3. DOMAIN s = {"secret", "confirmed", "codes"} /\ s = [x \in DOMAIN s |-> s[x]]
  BY <1>1 DEF Saved
<1>4. s.secret = IF "secret" \in DOMAIN columns /\ columns.secret # loaded.secret
                 THEN columns.secret ELSE row.secret
  BY <1>1 DEF Saved
<1>5. s.confirmed = IF "confirmed" \in DOMAIN columns /\ columns.confirmed # loaded.confirmed
                    THEN columns.confirmed ELSE row.confirmed
  BY <1>1 DEF Saved
<1>6. s.codes = IF "codes" \in DOMAIN columns /\ columns.codes # loaded.codes
                THEN columns.codes ELSE row.codes
  BY <1>1 DEF Saved
<1>7. s \in SubjectRow
  <2>1. s.secret \in 0..MaxSecrets BY <1>2, <1>4 DEF SubjectColumns
  <2>2. s.confirmed \in BOOLEAN BY <1>2, <1>5 DEF SubjectColumns
  <2>3. s.codes \in SUBSET Codes BY <1>2, <1>6 DEF SubjectColumns
  <2>4. s = [secret |-> s.secret, confirmed |-> s.confirmed, codes |-> s.codes] BY <1>3
  <2> QED BY <2>1, <2>2, <2>3, <2>4 DEF SubjectRow
<1> QED BY <1>4, <1>5, <1>6, <1>7 DEF KeepsTheRest

LEMMA FreshSet ==
  ASSUME NEW g \in 1..MaxGens
  PROVE  /\ FreshCodes({}, g) \in SUBSET Codes /\ Cardinality(FreshCodes({}, g)) <= CodesPerGen
         /\ \A c \in FreshCodes({}, g) : c[1] = g
<1>1. FreshCodes({}, g) \in SUBSET Codes /\ \A c \in FreshCodes({}, g) : c[1] = g
  BY DEF FreshCodes, Codes
<1>2. IsFiniteSet(1..CodesPerGen) /\ Cardinality(1..CodesPerGen) = CodesPerGen
  BY FS_Interval, TwoFactorAssumption
<1>3. IsFiniteSet({g}) /\ Cardinality({g}) = 1 BY FS_Singleton
<1>4. Cardinality({g} \X (1..CodesPerGen)) = 1 * CodesPerGen BY <1>2, <1>3, FS_Product
<1> QED BY <1>1, <1>4, TwoFactorAssumption DEF FreshCodes

LEMMA FewerCodes ==
  ASSUME NEW C \in SUBSET Codes, NEW D \in SUBSET C
  PROVE  Cardinality(D) <= Cardinality(C) /\ Cardinality(C) \in Nat /\ Cardinality(D) \in Nat
<1>1. IsFiniteSet(Codes)
  <2>1. IsFiniteSet(1..MaxGens) /\ IsFiniteSet(1..CodesPerGen)
    BY FS_Interval, TwoFactorAssumption
  <2> QED BY <2>1, FS_Product DEF Codes
<1>2. IsFiniteSet(C) BY <1>1, FS_Subset
<1> QED BY <1>2, FS_Subset, FS_CardinalityType

\* A request that has loaded the row saves it. If it is not late, the row is
\* what it loaded but for the columns it saves; and all that is left to show
\* is about these.
LEMMA SavesStep ==
  ASSUME FactorInv, NEW b \in Browsers, NEW columns, Saves(b, columns), SubjectColumns(columns),
         browser[b].step \notin Idle,
         secrets' \in 0..MaxSecrets, gens' \in 0..MaxGens, secrets <= secrets', gens <= gens',
         "secret" \in DOMAIN columns => columns.secret <= secrets',
         "codes" \in DOMAIN columns => /\ \A c \in columns.codes : c[1] <= gens'
                                       /\ Cardinality(columns.codes) <= CodesPerGen
  PROVE  /\ FactorRows'
         /\ ~overtook' =>
              /\ ~overtook /\ browser[b].loaded = subject
              /\ subject'.secret = IF "secret" \in DOMAIN columns THEN columns.secret ELSE subject.secret
              /\ subject'.confirmed =
                   IF "confirmed" \in DOMAIN columns THEN columns.confirmed ELSE subject.confirmed
              /\ subject'.codes = IF "codes" \in DOMAIN columns THEN columns.codes ELSE subject.codes
<1> DEFINE loaded == browser[b].loaded
<1>1. /\ RowOK(loaded, secrets, gens) /\ RowOK(subject, secrets, gens)
      /\ loaded \in SubjectRow /\ subject \in SubjectRow
  BY DEF FactorInv, FactorRows, Holds, RowOK
<1>2. /\ subject' \in SubjectRow
      /\ subject'.secret = IF "secret" \in DOMAIN columns /\ columns.secret # loaded.secret
                           THEN columns.secret ELSE subject.secret
      /\ subject'.confirmed = IF "confirmed" \in DOMAIN columns /\ columns.confirmed # loaded.confirmed
                              THEN columns.confirmed ELSE subject.confirmed
      /\ subject'.codes = IF "codes" \in DOMAIN columns /\ columns.codes # loaded.codes
                          THEN columns.codes ELSE subject.codes
  <2>1. PICK s : s = Saved(subject, loaded, columns) OBVIOUS
  <2>2. subject' = s BY <2>1 DEF Saves
  <2>3. loaded \in SubjectRow /\ subject \in SubjectRow BY <1>1
  <2> HIDE DEF loaded
  <2>4. KeepsTheRest(s, subject, loaded, columns) BY <2>1, <2>3, SavedSubject
  <2> QED BY <2>2, <2>4 DEF KeepsTheRest
<1>3. secrets \in Int /\ gens \in Int /\ secrets' \in Int /\ gens' \in Int
  BY TwoFactorAssumption DEF FactorInv, FactorRows
<1>4. RowOK(subject, secrets', gens') BY <1>1, <1>3, RowGrows
<1>5. RowOK(subject', secrets', gens') BY <1>2, <1>4 DEF RowOK
<1>6. /\ browser' \in [Browsers -> BrowserRow] /\ browser'[b] = Away
      /\ \A e \in Browsers \ {b} : browser'[e] = browser[e]
  BY DEF Saves, FactorInv, FactorRows, Away, BrowserRow, Idle
<1>7. /\ late' \subseteq Browsers
      /\ \A e \in Browsers \ {b} : browser[e].loaded # NoRow => e \in late'
      /\ \A e \in late' : browser'[e].loaded # NoRow
  BY <1>6 DEF Saves, FactorInv, FactorRows
<1>8. ASSUME NEW e \in Browsers PROVE Holds(e)'
  <2>1. CASE e = b
    <3>1. browser'[e].step = "idle" /\ browser'[e].loaded = NoRow BY <1>6, <2>1 DEF Away
    <3> QED BY <1>6, <2>1, <3>1 DEF Holds, Idle
  <2>2. CASE e # b
    <3>1. Holds(e) BY DEF FactorInv, FactorRows
    <3>2. browser[e].step \notin Idle => RowOK(browser[e].loaded, secrets', gens')
      BY <1>3, <3>1, RowGrows DEF Holds
    <3> QED BY <1>6, <1>7, <2>2, <3>1, <3>2 DEF Holds
  <2> QED BY <2>1, <2>2
<1>9. overtook' \in BOOLEAN BY DEF Saves
<1>10. FactorRows' BY <1>5, <1>6, <1>7, <1>8, <1>9 DEF FactorRows
<1>11. ASSUME ~overtook' PROVE ~overtook /\ loaded = subject
  <2>1. ~overtook /\ b \notin late BY <1>11 DEF Saves
  <2>2. loaded # NoRow BY <1>1, TwoFactorAssumption
  <2> QED BY <2>1, <2>2 DEF FactorInv, FactorRows, Holds
<1> QED BY <1>2, <1>10, <1>11

\* One that loads the row, or gives up, or answers.
LEMMA ReadsStep ==
  ASSUME FactorInv, NEW b \in Browsers, UNCHANGED <<subject, secrets, gens, proved, spent, overtook>>,
         NEW row \in BrowserRow, browser' = [browser EXCEPT ![b] = row],
         late' = late \ {b} \/ (late' = late /\ b \notin late),
         row.step = "idle" => row = Away,
         row.step \in Idle => row.loaded = NoRow,
         row.step \notin Idle => row.loaded = subject,
         row.step = "spend" => row.code \in subject.codes
  PROVE  FactorInv'
<1>1. /\ browser' \in [Browsers -> BrowserRow] /\ browser'[b] = row
      /\ \A e \in Browsers \ {b} : browser'[e] = browser[e]
  BY DEF FactorInv, FactorRows
<1>2. b \notin late' /\ late' \subseteq Browsers /\ \A e \in Browsers \ {b} : e \in late' <=> e \in late
  BY DEF FactorInv, FactorRows
<1>3. ASSUME NEW e \in Browsers PROVE Holds(e)'
  <2>1. CASE e = b BY <1>1, <2>1 DEF Holds, FactorInv, FactorRows, Idle
  <2>2. CASE e # b
    <3>1. Holds(e) BY DEF FactorInv, FactorRows
    <3> QED BY <1>1, <1>2, <2>2, <3>1 DEF Holds
  <2> QED BY <2>1, <2>2
<1>4. FactorRows' BY <1>1, <1>2, <1>3 DEF FactorInv, FactorRows
<1>5. OnOnlyWhenProved' /\ EachCodeWorksOnce' /\ Fresh'
  BY DEF FactorInv, OnOnlyWhenProved, EachCodeWorksOnce, Fresh
<1> QED BY <1>4, <1>5 DEF FactorInv

LEMMA ReadSteps ==
  ASSUME FactorInv, NEW b \in Browsers,
         \/ \E step \in Settings : Arrives(b, step, NoRow)
         \/ GivesUp(b) \/ StartChallenge(b) \/ AnswerWithApp(b)
         \/ \E code \in Codes : AnswerWithCode(b, code)
  PROVE  FactorInv'
<1>1. /\ browser[b] \in BrowserRow /\ Holds(b) /\ subject \in SubjectRow
      /\ browser[b].loaded = NoRow => b \notin late
  BY DEF FactorInv, FactorRows, RowOK
<1>2. Away \in BrowserRow /\ Away.step = "idle" /\ Away.loaded = NoRow
  BY DEF Away, BrowserRow, Idle
<1>3. ASSUME NEW step \in Settings, Arrives(b, step, NoRow) PROVE FactorInv'
  <2> DEFINE row == [step |-> step, loaded |-> subject, code |-> NoRow]
  <2>1. row \in BrowserRow /\ row.step \notin Idle /\ row.loaded = subject /\ row.step # "spend"
    BY <1>1 DEF BrowserRow, Settings, Idle
  <2>2. row.step # "idle" BY <2>1 DEF Idle
  <2>3. /\ browser' = [browser EXCEPT ![b] = row] /\ late' = late /\ b \notin late
        /\ UNCHANGED <<subject, secrets, gens, proved, spent, overtook>>
    BY <1>1, <1>2, <1>3 DEF Arrives
  <2> HIDE DEF row
  <2> QED BY <2>1, <2>2, <2>3, ReadsStep
<1>4. CASE GivesUp(b) BY <1>2, <1>4, ReadsStep DEF GivesUp, Idle
<1>5. CASE AnswerWithApp(b)
  <2>1. b \notin late BY <1>1, <1>5 DEF AnswerWithApp, Holds, Idle
  <2> QED BY <1>2, <1>5, <2>1, ReadsStep DEF AnswerWithApp, Idle
<1>6. CASE StartChallenge(b)
  <2> DEFINE row == [browser[b] EXCEPT !.step = "challenge"]
  <2>1. row \in BrowserRow /\ row.step = "challenge" /\ row.loaded = NoRow
    BY <1>1, <1>2, <1>6 DEF StartChallenge, BrowserRow, Idle
  <2>2. /\ browser' = [browser EXCEPT ![b] = row] /\ late' = late /\ b \notin late
        /\ UNCHANGED <<subject, secrets, gens, proved, spent, overtook>>
    BY <1>1, <1>2, <1>6 DEF StartChallenge, FactorInv, FactorRows
  <2> HIDE DEF row
  <2> QED BY <2>1, <2>2, ReadsStep DEF Idle
<1>7. ASSUME NEW code \in Codes, AnswerWithCode(b, code) PROVE FactorInv'
  <2> DEFINE row == [step |-> "spend", loaded |-> subject, code |-> code]
  <2>1. row \in BrowserRow /\ row.step = "spend" /\ row.loaded = subject /\ row.code = code
    BY <1>1 DEF BrowserRow
  <2>2. b \notin late BY <1>1, <1>7 DEF AnswerWithCode, Holds, Idle
  <2>3. /\ browser' = [browser EXCEPT ![b] = row] /\ late' = late /\ code \in subject.codes
        /\ UNCHANGED <<subject, secrets, gens, proved, spent, overtook>>
    BY <1>7 DEF AnswerWithCode
  <2> HIDE DEF row
  <2> QED BY <2>1, <2>2, <2>3, ReadsStep DEF Idle
<1> QED BY <1>3, <1>4, <1>5, <1>6, <1>7

LEMMA SettingsStep ==
  ASSUME FactorInv, NEW b \in Browsers,
         BeginEnrolment(b) \/ ConfirmEnrolment(b) \/ RegenerateRecoveryCodes(b) \/ Disable(b)
  PROVE  FactorInv'
<1>1. /\ browser[b].step \notin Idle
      /\ RowOK(browser[b].loaded, secrets, gens)
  BY DEF BeginEnrolment, ConfirmEnrolment, RegenerateRecoveryCodes, Disable, Idle,
         FactorInv, FactorRows, Holds
<1>2. /\ secrets \in 0..MaxSecrets /\ gens \in 0..MaxGens /\ MaxSecrets \in Nat /\ MaxGens \in Nat
      /\ spent \in [Codes -> 0..2] /\ \A c \in Codes : c[1] \in Nat
  BY TwoFactorAssumption DEF FactorInv, FactorRows, Codes
<1>3. CASE BeginEnrolment(b)
  <2> DEFINE columns == Unconfirmed(secrets + 1)
  <2>1. /\ secrets' = secrets + 1 /\ secrets < MaxSecrets /\ Saves(b, columns)
        /\ UNCHANGED <<gens, proved, spent>>
    BY <1>3 DEF BeginEnrolment
  <2>2. /\ DOMAIN columns = {"secret", "confirmed"}
        /\ columns.secret = secrets + 1 /\ columns.confirmed = FALSE
    BY DEF Unconfirmed
  <2> HIDE DEF columns
  <2>3. SubjectColumns(columns)
    <3>1. columns.secret \in 0..MaxSecrets BY <1>2, <2>1, <2>2
    <3>2. columns.confirmed \in BOOLEAN BY <2>2
    <3> QED BY <2>2, <3>1, <3>2 DEF SubjectColumns
  <2>4. /\ FactorRows'
        /\ ~overtook' => ~overtook /\ subject'.confirmed = FALSE /\ subject'.codes = subject.codes
    BY <1>1, <1>2, <2>1, <2>2, <2>3, SavesStep
  <2>5. proved' \subseteq 1..secrets' BY <1>2, <2>1 DEF FactorInv
  <2>6. OnOnlyWhenProved' BY <2>4 DEF OnOnlyWhenProved, hasTwoFactor
  <2>7. EachCodeWorksOnce' /\ Fresh'
    BY <2>1, <2>4 DEF FactorInv, EachCodeWorksOnce, Fresh
  <2> QED BY <1>2, <2>1, <2>4, <2>5, <2>6, <2>7 DEF FactorInv
<1>4. CASE Disable(b)
  <2> DEFINE columns == [secret |-> 0, confirmed |-> FALSE, codes |-> {}]
  <2>1. Saves(b, columns) /\ UNCHANGED <<secrets, gens, proved, spent>> BY <1>4 DEF Disable
  <2>2. /\ DOMAIN columns = {"secret", "confirmed", "codes"}
        /\ columns.secret = 0 /\ columns.confirmed = FALSE /\ columns.codes = {}
    OBVIOUS
  <2> HIDE DEF columns
  <2>3. SubjectColumns(columns)
    <3>1. columns.secret \in 0..MaxSecrets BY <1>2, <2>2
    <3>2. columns.confirmed \in BOOLEAN BY <2>2
    <3>3. columns.codes \in SUBSET Codes BY <2>2
    <3> QED BY <2>2, <3>1, <3>2, <3>3 DEF SubjectColumns
  <2>4. Cardinality(columns.codes) <= CodesPerGen
    BY <2>2, FS_EmptySet, TwoFactorAssumption
  <2>5. /\ FactorRows'
        /\ ~overtook' => ~overtook /\ subject'.confirmed = FALSE /\ subject'.codes = {}
    <3>1. columns.secret <= secrets' /\ secrets <= secrets' /\ gens <= gens'
      BY <1>2, <2>1, <2>2
    <3>2. \A c \in columns.codes : c[1] <= gens' BY <2>2
    <3> QED BY <1>1, <1>2, <2>1, <2>2, <2>3, <2>4, <3>1, <3>2, SavesStep
  <2>6. OnOnlyWhenProved' BY <2>5 DEF OnOnlyWhenProved, hasTwoFactor
  <2>7. EachCodeWorksOnce' /\ Fresh'
    BY <2>1, <2>5 DEF FactorInv, EachCodeWorksOnce, Fresh
  <2> QED BY <1>2, <2>1, <2>5, <2>6, <2>7 DEF FactorInv
\* New codes, in place of all there were.
<1>5. ASSUME NEW columns, Saves(b, columns), gens' = gens + 1, gens < MaxGens,
             UNCHANGED <<secrets, spent>>, SubjectColumns(columns),
             DOMAIN columns \in {{"codes"}, {"confirmed", "codes"}},
             columns.codes = FreshCodes({}, gens + 1), proved \subseteq proved',
             proved' \subseteq 1..secrets,
             browser[b].loaded = subject => hasTwoFactor(subject) \/ subject.secret \in proved'
      PROVE  FactorInv'
  <2>1. gens + 1 \in 1..MaxGens BY <1>2, <1>5
  <2>2. /\ \A c \in columns.codes : c[1] = gens + 1
        /\ Cardinality(columns.codes) <= CodesPerGen /\ columns.codes \in SUBSET Codes
    BY <1>5, <2>1, FreshSet
  <2>3. /\ FactorRows'
        /\ ~overtook' => /\ ~overtook /\ browser[b].loaded = subject
                         /\ subject'.secret = subject.secret /\ subject'.codes = columns.codes
    <3>1. "secret" \notin DOMAIN columns /\ "codes" \in DOMAIN columns BY <1>5
    <3>2. gens <= gens' /\ gens' \in 0..MaxGens /\ secrets <= secrets' BY <1>2, <1>5
    <3>3. \A c \in columns.codes : c[1] <= gens' BY <1>2, <1>5, <2>2
    <3> QED BY <1>1, <1>2, <1>5, <2>2, <3>1, <3>2, <3>3, SavesStep
  <2>4. OnOnlyWhenProved'
    <3> SUFFICES ASSUME ~overtook' PROVE subject'.secret \in proved' BY DEF OnOnlyWhenProved
    <3> QED BY <1>5, <2>3 DEF FactorInv, OnOnlyWhenProved
  <2>5. Fresh' BY <1>2, <1>5 DEF FactorInv, Fresh
  <2>6. EachCodeWorksOnce'
    <3> SUFFICES ASSUME ~overtook'
                 PROVE  /\ \A c \in Codes : spent'[c] <= 1
                        /\ \A c \in subject'.codes : c[1] = gens' /\ spent'[c] = 0
      BY DEF EachCodeWorksOnce
    <3>1. \A c \in Codes : spent'[c] <= 1 BY <1>5, <2>3 DEF FactorInv, EachCodeWorksOnce
    <3>2. ASSUME NEW c \in subject'.codes PROVE c[1] = gens' /\ spent'[c] = 0
      <4>1. c \in Codes /\ c[1] = gens + 1 BY <2>2, <2>3
      <4>2. c[1] > gens BY <1>2, <4>1
      <4> QED BY <1>5, <4>1, <4>2 DEF FactorInv, Fresh
    <3> QED BY <3>1, <3>2
  <2> QED BY <1>2, <1>5, <2>3, <2>4, <2>5, <2>6 DEF FactorInv
<1>6. CASE ConfirmEnrolment(b)
  <2> DEFINE loaded == browser[b].loaded
             columns == [confirmed |-> TRUE, codes |-> FreshCodes(loaded.codes, gens + 1)]
  <2>1. /\ loaded.secret # 0 /\ gens < MaxGens /\ gens' = gens + 1
        /\ proved' = proved \cup {loaded.secret} /\ Saves(b, columns) /\ UNCHANGED <<secrets, spent>>
    BY <1>6 DEF ConfirmEnrolment
  <2>2. loaded.secret \in 1..secrets
    BY <1>1, <1>2, <2>1 DEF RowOK, SubjectRow
  <2>3. /\ DOMAIN columns = {"confirmed", "codes"} /\ columns.confirmed = TRUE
        /\ columns.codes = FreshCodes({}, gens + 1)
    BY DEF FreshCodes
  <2>4. gens + 1 \in 1..MaxGens BY <1>2, <2>1
  <2>5. columns.codes \in SUBSET Codes BY <2>3, <2>4, FreshSet
  <2> HIDE DEF columns
  <2>6. SubjectColumns(columns) BY <2>3, <2>5 DEF SubjectColumns
  <2>7. proved' \subseteq 1..secrets BY <2>1, <2>2 DEF FactorInv
  <2> QED BY <1>5, <2>1, <2>3, <2>6, <2>7
<1>7. CASE RegenerateRecoveryCodes(b)
  <2> DEFINE loaded == browser[b].loaded
             columns == [codes |-> FreshCodes(loaded.codes, gens + 1)]
  <2>1. /\ hasTwoFactor(loaded) /\ gens < MaxGens /\ gens' = gens + 1
        /\ Saves(b, columns) /\ UNCHANGED <<secrets, spent, proved>>
    BY <1>7 DEF RegenerateRecoveryCodes
  <2>2. DOMAIN columns = {"codes"} /\ columns.codes = FreshCodes({}, gens + 1)
    BY DEF FreshCodes
  <2>3. gens + 1 \in 1..MaxGens BY <1>2, <2>1
  <2>4. columns.codes \in SUBSET Codes BY <2>2, <2>3, FreshSet
  <2> HIDE DEF columns
  <2>5. SubjectColumns(columns) BY <2>2, <2>4 DEF SubjectColumns
  <2>6. proved' \subseteq 1..secrets BY <2>1 DEF FactorInv
  <2> QED BY <1>5, <2>1, <2>2, <2>5, <2>6
<1> QED BY <1>3, <1>4, <1>6, <1>7

\* The code that is spent was among those of the row that is saved.
LEMMA SpendStep ==
  ASSUME FactorInv, NEW b \in Browsers, ConsumeRecoveryCode(b)
  PROVE  FactorInv'
<1> DEFINE loaded == browser[b].loaded
           columns == [codes |-> Without(loaded.codes, browser[b].code)]
<1>1. /\ browser[b].step = "spend" /\ Saves(b, columns) /\ UNCHANGED <<secrets, gens, proved>>
  BY DEF ConsumeRecoveryCode
<1>2. RowOK(loaded, secrets, gens) /\ browser[b].code \in loaded.codes
  BY <1>1 DEF FactorInv, FactorRows, Holds, Idle
<1>3. PICK code \in Codes : code = browser[b].code BY <1>2 DEF RowOK, SubjectRow
<1>4. DOMAIN columns = {"codes"} /\ columns.codes = loaded.codes \ {code}
  BY <1>3 DEF Without
<1>5. /\ spent' = [spent EXCEPT ![code] = IF @ < 2 THEN @ + 1 ELSE @]
      /\ spent \in [Codes -> 0..2]
  BY <1>3 DEF ConsumeRecoveryCode, FactorInv
<1>6. /\ spent' \in [Codes -> 0..2] /\ \A c \in Codes \ {code} : spent'[c] = spent[c]
      /\ spent[code] = 0 => spent'[code] = 1
  BY <1>5
<1> HIDE DEF columns
<1>7. loaded.codes \in SUBSET Codes BY <1>2 DEF RowOK, SubjectRow
<1>8. /\ columns.codes \in SUBSET Codes /\ \A c \in columns.codes : c[1] <= gens
      /\ Cardinality(columns.codes) <= CodesPerGen
  <2>1. Cardinality(columns.codes) <= Cardinality(loaded.codes) /\ Cardinality(loaded.codes) \in Nat
        /\ Cardinality(columns.codes) \in Nat
    BY <1>4, <1>7, FewerCodes
  <2> QED BY <1>2, <1>4, <1>7, <2>1, TwoFactorAssumption DEF RowOK
<1>9. SubjectColumns(columns) BY <1>4, <1>8 DEF SubjectColumns
<1>10. /\ FactorRows'
       /\ ~overtook' => /\ ~overtook /\ loaded = subject /\ subject'.secret = subject.secret
                        /\ subject'.confirmed = subject.confirmed /\ subject'.codes = columns.codes
  <2>1. /\ browser[b].step \notin Idle /\ secrets' \in 0..MaxSecrets /\ gens' \in 0..MaxGens
        /\ secrets <= secrets' /\ gens <= gens'
    BY <1>1, TwoFactorAssumption DEF Idle, FactorInv, FactorRows
  <2> QED BY <1>1, <1>4, <1>8, <1>9, <2>1, SavesStep
<1>11. OnOnlyWhenProved' BY <1>1, <1>10 DEF FactorInv, OnOnlyWhenProved, hasTwoFactor
<1>12. Fresh'
  <2>1. code[1] <= gens BY <1>2, <1>3 DEF RowOK
  <2>2. code[1] \in Int /\ gens \in Int
    BY TwoFactorAssumption DEF Codes, FactorInv, FactorRows
  <2>3. ~(code[1] > gens) BY <2>1, <2>2
  <2> QED BY <1>1, <1>6, <2>3 DEF FactorInv, Fresh
<1>13. EachCodeWorksOnce'
  <2> SUFFICES ASSUME ~overtook'
               PROVE  /\ \A c \in Codes : spent'[c] <= 1
                      /\ \A c \in subject'.codes : c[1] = gens' /\ spent'[c] = 0
    BY DEF EachCodeWorksOnce
  <2>1. code \in subject.codes /\ spent[code] = 0
    BY <1>2, <1>3, <1>10 DEF FactorInv, EachCodeWorksOnce
  <2>2. \A c \in Codes : spent'[c] <= 1
    BY <1>6, <1>10, <2>1 DEF FactorInv, EachCodeWorksOnce
  <2>3. ASSUME NEW c \in subject'.codes PROVE c[1] = gens' /\ spent'[c] = 0
    <3>1. c \in subject.codes /\ c # code /\ c \in Codes BY <1>4, <1>7, <1>10
    <3> QED BY <1>1, <1>6, <1>10, <3>1 DEF FactorInv, EachCodeWorksOnce
  <2> QED BY <2>2, <2>3
<1> QED BY <1>1, <1>6, <1>10, <1>11, <1>12, <1>13 DEF FactorInv

(* Two-factor is on only with a secret that was proved, and every recovery *)
(* code works once, unless a request saved a row that another had saved    *)
(* since it loaded it (two_factor_service.ts).                             *)
THEOREM SecondFactorHolds == TwoFactorSpec => []SecondFactorSafe
<1>1. TwoFactorInit => FactorInv
  <2> SUFFICES ASSUME TwoFactorInit PROVE FactorInv OBVIOUS
  <2>1. /\ secrets = subject.secret /\ gens = subject.secret /\ proved = 1..subject.secret
        /\ late = {} /\ overtook = FALSE
        /\ spent = [c \in Codes |-> 0] /\ browser = [b \in Browsers |-> Away]
    BY DEF TwoFactorInit
  <2>2. RowOK(subject, secrets, gens) /\ secrets \in 0..MaxSecrets /\ gens \in 0..MaxGens
    <3>1. CASE subject = [secret |-> 0, confirmed |-> FALSE, codes |-> {}]
      <4>1. 0 \in 0..MaxSecrets /\ 0 \in 0..MaxGens /\ {} \in SUBSET Codes BY TwoFactorAssumption
      <4>2. subject.secret = 0 /\ subject.codes = {} BY <3>1
      <4>3. subject \in SubjectRow BY <3>1, <4>1 DEF SubjectRow
      <4> QED BY <2>1, <4>1, <4>2, <4>3, FS_EmptySet, TwoFactorAssumption DEF RowOK
    <3>2. CASE subject = [secret |-> 1, confirmed |-> TRUE, codes |-> {1} \X (1..CodesPerGen)]
      <4>1. 1 \in 0..MaxSecrets /\ 1 \in 0..MaxGens /\ 1 \in 1..MaxGens BY TwoFactorAssumption
      <4>2. FreshCodes({}, 1) = {1} \X (1..CodesPerGen) BY DEF FreshCodes
      <4>3. subject.secret = 1 /\ subject.codes = FreshCodes({}, 1) BY <3>2, <4>2
      <4>4. subject.codes \in SUBSET Codes BY <4>1, <4>3, FreshSet
      <4>5. subject \in SubjectRow BY <3>2, <4>1, <4>3, <4>4 DEF SubjectRow
      <4> QED BY <2>1, <4>1, <4>3, <4>5, FreshSet DEF RowOK
    <3> QED BY <3>1, <3>2 DEF TwoFactorInit
  <2>3. \A b \in Browsers : Holds(b) BY <2>1 DEF Holds, Away, Idle
  <2>4. FactorRows
    BY <2>1, <2>2, <2>3 DEF FactorRows, Away, BrowserRow, Idle
  <2>5. OnOnlyWhenProved
    <3>1. subject.secret \in 0..MaxSecrets BY <2>1, <2>2
    <3> QED BY <2>1, <3>1, TwoFactorAssumption DEF OnOnlyWhenProved, hasTwoFactor
  <2>6. EachCodeWorksOnce
    <3>1. \A c \in subject.codes : c \in Codes BY <2>2 DEF RowOK, SubjectRow
    <3>2. ASSUME NEW c \in subject.codes PROVE c[1] = gens
      <4>1. CASE subject = [secret |-> 0, confirmed |-> FALSE, codes |-> {}] BY <3>2, <4>1
      <4>2. CASE subject = [secret |-> 1, confirmed |-> TRUE, codes |-> {1} \X (1..CodesPerGen)]
        BY <2>1, <3>2, <4>2
      <4> QED BY <4>1, <4>2 DEF TwoFactorInit
    <3> QED BY <2>1, <3>1, <3>2 DEF EachCodeWorksOnce
  <2>7. Fresh BY <2>1 DEF Fresh
  <2> QED BY <2>1, <2>2, <2>4, <2>5, <2>6, <2>7 DEF FactorInv
<1>2. FactorInv /\ [TwoFactorNext]_twoFactorVars => FactorInv'
  <2> SUFFICES ASSUME FactorInv, [TwoFactorNext]_twoFactorVars PROVE FactorInv' OBVIOUS
  <2>1. CASE UNCHANGED twoFactorVars
    <3>1. ASSUME NEW e \in Browsers PROVE Holds(e)'
      <4>1. Holds(e) BY DEF FactorInv, FactorRows
      <4> QED BY <2>1, <4>1 DEF Holds, twoFactorVars
    <3>2. FactorRows' BY <2>1, <3>1 DEF FactorInv, FactorRows, twoFactorVars
    <3> QED BY <2>1, <3>2 DEF FactorInv, twoFactorVars, OnOnlyWhenProved, EachCodeWorksOnce, Fresh
  <2> QED BY <2>1, ReadSteps, SettingsStep, SpendStep DEF TwoFactorNext, Settings
<1>3. FactorInv => SecondFactorSafe
  BY DEF FactorInv, FactorRows, RowOK, SecondFactorSafe, TwoFactorTypeOK
<1> QED BY <1>1, <1>2, <1>3, PTL DEF TwoFactorSpec

-----------------------------------------------------------------------------
(* Registration. A request that is to link, or to prove an address, knows  *)
(* an account that is there, and the one that proves knows the link that   *)
(* its identity made; neither an account nor a link ever goes.             *)

VisitRow == [step : {"idle", "register", "link", "insert", "prove"},
             email : Emails \cup {NoAccount}, identity : Identities \cup {NoAccount},
             proved : BOOLEAN, slug : 0..MaxSlugs]

Visiting(row, addresses, links) ==
  /\ row.step # "idle" => row.email \in Emails
  /\ row.step # "idle" /\ row.proved => row.identity \in Identities
  /\ row.step = "insert" => row.slug \in SlugNumbers \ ReservedSlugs
  /\ row.step = "link" => row.proved /\ row.email \in addresses
  /\ row.step = "prove" => row.email \in addresses
  /\ row.step = "prove" /\ row.proved =>
       links[row.identity] = [email |-> row.email, proved |-> TRUE]

RegistrationRows ==
  /\ account \in [Emails -> AccountRow \cup {NoAccount}]
  /\ workspace \in [SlugNumbers -> Emails \cup {NoAccount}]
  /\ link \in [Identities -> LinkRow \cup {NoAccount}]
  /\ visit \in [Visits -> VisitRow]
  /\ \A i \in Linked : link[i].email \in TakenEmails
  /\ \A v \in Visits : Visiting(visit[v], TakenEmails, link)

RegistrationInv ==
  RegistrationRows /\ OwnersAndWorkspacesComeTogether /\ LinksAreProved

\* slug.ts takes the first name that is free.
LEMMA FirstFree ==
  ASSUME FreeSlugs # {}, RegistrationRows
  PROVE  Min(FreeSlugs) \in FreeSlugs
<1>1. FreeSlugs \subseteq Nat BY RegistrationAssumption DEF FreeSlugs, SlugNumbers
<1> DEFINE Less == {ss \in Nat \X Nat : ss[1] < ss[2]}
<1>2. IsWellFoundedOn(Less, Nat)
  <2>1. OpToRel(<, Nat) = Less BY Zenon DEF OpToRel
  <2> QED BY <2>1, NatLessThanWellFounded
<1>3. PICK n \in FreeSlugs : \A m \in FreeSlugs : <<m, n>> \notin Less
  <2> HIDE DEF Less
  <2> QED BY <1>1, <1>2, WFMin
<1>4. ASSUME NEW m \in FreeSlugs PROVE n <= m
  <2>1. m \in Nat /\ n \in Nat BY <1>1
  <2>2. <<m, n>> \notin Less BY <1>3
  <2> QED BY <2>1, <2>2
<1> QED BY <1>4 DEF Min

\* Rows come, and none goes: what a request knows stays so, and it is enough
\* to look at the one that acts.
LEMMA VisitStep ==
  ASSUME RegistrationRows, NEW v \in Visits, NEW row \in VisitRow,
         visit' = [visit EXCEPT ![v] = row],
         NEW addresses, TakenEmails \subseteq addresses, NEW links,
         \A i \in Linked : links[i] = link[i],
         Visiting(row, addresses, links)
  PROVE  /\ visit' \in [Visits -> VisitRow]
         /\ \A w \in Visits : Visiting(visit'[w], addresses, links)
<1>1. visit' \in [Visits -> VisitRow] BY DEF RegistrationRows
<1>2. ASSUME NEW w \in Visits PROVE Visiting(visit'[w], addresses, links)
  <2>1. CASE w = v BY <2>1 DEF RegistrationRows
  <2>2. CASE w # v
    <3>1. visit'[w] = visit[w] BY <2>2 DEF RegistrationRows
    <3>2. Visiting(visit[w], TakenEmails, link) BY DEF RegistrationRows
    <3>3. visit[w].step = "prove" /\ visit[w].proved => visit[w].identity \in Linked
      <4>1. visit[w].email \in Emails \cup {NoAccount}
        BY DEF RegistrationRows, VisitRow
      <4>2. SUFFICES ASSUME visit[w].step = "prove", visit[w].proved
                     PROVE  visit[w].identity \in Linked
        OBVIOUS
      <4>3. visit[w].identity \in Identities /\ visit[w].email \in Emails
        BY <3>2, <4>2 DEF Visiting
      <4>4. link[visit[w].identity] = [email |-> visit[w].email, proved |-> TRUE]
        BY <3>2, <4>2 DEF Visiting
      <4>5. link[visit[w].identity] \in LinkRow BY <4>3, <4>4 DEF LinkRow
      <4> QED BY <4>3, <4>5, RegistrationAssumption DEF Linked
    <3> QED BY <3>1, <3>2, <3>3 DEF Visiting
  <2> QED BY <2>1, <2>2
<1> QED BY <1>1, <1>2

LEMMA NoVisitIsRow == NoVisit \in VisitRow /\ NoVisit.step = "idle"
BY RegistrationAssumption DEF NoVisit, VisitRow

\* One that comes, picks a name or goes, and leaves the rows as they are.
LEMMA ComeAndGoStep ==
  ASSUME RegistrationInv, NEW v \in Visits, NEW row \in VisitRow,
         visit' = [visit EXCEPT ![v] = row], UNCHANGED <<account, workspace, link>>,
         Visiting(row, TakenEmails, link)
  PROVE  RegistrationInv'
<1>1. RegistrationRows BY DEF RegistrationInv
<1>2. /\ visit' \in [Visits -> VisitRow]
      /\ \A w \in Visits : Visiting(visit'[w], TakenEmails, link)
  BY <1>1, VisitStep
<1>3. TakenEmails' = TakenEmails /\ Linked' = Linked BY DEF TakenEmails, Linked
<1>4. RegistrationRows' BY <1>1, <1>2, <1>3 DEF RegistrationRows
<1>5. OwnersAndWorkspacesComeTogether' /\ LinksAreProved'
  BY <1>3 DEF RegistrationInv, OwnersAndWorkspacesComeTogether, LinksAreProved
<1> QED BY <1>4, <1>5 DEF RegistrationInv

LEMMA VisitSteps ==
  ASSUME RegistrationInv, NEW v \in Visits,
         \/ \E e \in Emails :
              SignUp(v, e) \/ \E i \in Identities, vouched \in BOOLEAN : Callback(v, i, e, vouched)
         \/ PickSlug(v) \/ Fail(v)
  PROVE  RegistrationInv'
<1> USE RegistrationAssumption
<1>0. RegistrationRows BY DEF RegistrationInv
<1>1. ASSUME NEW e \in Emails, SignUp(v, e) PROVE RegistrationInv'
  <2>1. PICK row : row = [NoVisit EXCEPT !.step = "register", !.email = e] OBVIOUS
  <2>2. row \in VisitRow /\ row.step = "register" /\ row.email = e /\ ~row.proved
    BY <2>1, NoVisitIsRow DEF NoVisit, VisitRow
  <2>3. Visiting(row, TakenEmails, link) BY <2>2 DEF Visiting
  <2> QED BY <1>1, <2>1, <2>2, <2>3, ComeAndGoStep DEF SignUp
<1>2. ASSUME NEW e \in Emails, NEW i \in Identities, NEW vouched \in BOOLEAN,
             Callback(v, i, e, vouched)
      PROVE  RegistrationInv'
  <2>1. PICK step \in {"link", "register"} :
          /\ step = IF LinksTo(e, vouched) THEN "link" ELSE "register"
          /\ step = "link" => vouched /\ e \in TakenEmails
    BY DEF LinksTo
  <2>2. PICK row : row = [step |-> step, email |-> e, identity |-> i, proved |-> vouched,
                          slug |-> 0]
    OBVIOUS
  <2>3. row \in VisitRow BY <2>2 DEF VisitRow
  <2>4. Visiting(row, TakenEmails, link) BY <2>1, <2>2 DEF Visiting
  <2>5. visit' = [visit EXCEPT ![v] = row] /\ UNCHANGED <<account, workspace, link>>
    BY <1>2, <2>1, <2>2 DEF Callback
  <2> QED BY <2>3, <2>4, <2>5, ComeAndGoStep
<1>3. CASE PickSlug(v)
  <2>1. PICK n : n = Min(FreeSlugs) OBVIOUS
  <2>2. n \in FreeSlugs BY <1>0, <1>3, <2>1, FirstFree DEF PickSlug
  <2>3. n \in SlugNumbers \ ReservedSlugs BY <2>2 DEF FreeSlugs
  <2>4. visit[v] \in VisitRow /\ visit[v].step = "register" BY <1>0, <1>3 DEF RegistrationRows, PickSlug
  <2>5. Visiting(visit[v], TakenEmails, link) BY <1>0 DEF RegistrationRows
  <2>6. PICK row : row = [[visit[v] EXCEPT !.step = "insert"] EXCEPT !.slug = n] OBVIOUS
  <2>7. /\ row.step = "insert" /\ row.slug = n /\ row.email = visit[v].email
        /\ row.identity = visit[v].identity /\ row.proved = visit[v].proved
    BY <2>4, <2>6 DEF VisitRow
  <2>8. row \in VisitRow
    <3>1. n \in 0..MaxSlugs BY <2>3 DEF SlugNumbers
    <3>2. [visit[v] EXCEPT !.step = "insert"] \in VisitRow BY <2>4 DEF VisitRow
    <3> QED BY <2>6, <3>1, <3>2 DEF VisitRow
  <2>9. Visiting(row, TakenEmails, link) BY <2>3, <2>4, <2>5, <2>7 DEF Visiting
  <2>10. visit' = [visit EXCEPT ![v] = row]
    BY <1>0, <1>3, <2>1, <2>6 DEF PickSlug, RegistrationRows
  <2> QED BY <1>3, <2>8, <2>9, <2>10, ComeAndGoStep DEF PickSlug
<1>4. CASE Fail(v)
  <2>1. Visiting(NoVisit, TakenEmails, link) BY NoVisitIsRow DEF Visiting
  <2> QED BY <1>4, <2>1, NoVisitIsRow, ComeAndGoStep DEF Fail, Leave
<1> QED BY <1>1, <1>2, <1>3, <1>4

\* An identity is linked to an account that is there already.
LEMMA LinkStep ==
  ASSUME RegistrationInv, NEW v \in Visits, LinkAccount(v)
  PROVE  RegistrationInv'
<1> USE RegistrationAssumption
<1>1. RegistrationRows BY DEF RegistrationInv
<1>2. PICK row : row = visit[v] OBVIOUS
<1>3. row \in VisitRow /\ row.step = "link" BY <1>1, <1>2 DEF RegistrationRows, LinkAccount
<1>4. Visiting(row, TakenEmails, link) BY <1>1, <1>2 DEF RegistrationRows
<1>5. /\ row.email \in TakenEmails /\ row.email \in Emails /\ row.proved = TRUE
      /\ row.identity \in Identities
  BY <1>3, <1>4 DEF Visiting, VisitRow
<1>6. PICK l : l = [email |-> row.email, proved |-> row.proved] OBVIOUS
<1>7. l \in LinkRow /\ l # NoAccount /\ l.email = row.email /\ l.proved
  <2>1. l \in LinkRow BY <1>5, <1>6 DEF LinkRow
  <2> QED BY <1>5, <1>6, <2>1
<1>8. /\ link[row.identity] = NoAccount /\ link' = [link EXCEPT ![row.identity] = l]
      /\ UNCHANGED <<account, workspace>>
  BY <1>2, <1>6 DEF LinkAccount
<1>9. /\ link' \in [Identities -> LinkRow \cup {NoAccount}] /\ link'[row.identity] = l
      /\ \A i \in Identities \ {row.identity} : link'[i] = link[i]
  BY <1>1, <1>5, <1>7, <1>8 DEF RegistrationRows
<1>10. TakenEmails' = TakenEmails BY <1>8 DEF TakenEmails
<1>11. Linked' = Linked \cup {row.identity} /\ row.identity \notin Linked
  BY <1>5, <1>7, <1>8, <1>9 DEF Linked
<1>12. PICK next : next = [row EXCEPT !.step = "prove"] OBVIOUS
<1>13. /\ next \in VisitRow /\ next.step = "prove" /\ next.email = row.email
       /\ next.identity = row.identity /\ next.proved = row.proved
  BY <1>3, <1>12 DEF VisitRow
<1>14. Visiting(next, TakenEmails, link')
  BY <1>5, <1>6, <1>9, <1>13 DEF Visiting
<1>15. visit' = [visit EXCEPT ![v] = next] BY <1>2, <1>12 DEF LinkAccount
<1>16. \A i \in Linked : link'[i] = link[i] BY <1>9, <1>11 DEF Linked
<1>17. /\ visit' \in [Visits -> VisitRow]
       /\ \A w \in Visits : Visiting(visit'[w], TakenEmails, link')
  BY <1>1, <1>13, <1>14, <1>15, <1>16, VisitStep
<1>18. RegistrationRows'
  <2>1. \A i \in Linked' : link'[i].email \in TakenEmails'
    BY <1>1, <1>5, <1>7, <1>9, <1>10, <1>11, <1>16 DEF RegistrationRows
  <2> QED BY <1>1, <1>8, <1>9, <1>10, <1>17, <2>1 DEF RegistrationRows
<1>19. OwnersAndWorkspacesComeTogether'
  BY <1>8, <1>10 DEF RegistrationInv, OwnersAndWorkspacesComeTogether
<1>20. LinksAreProved'
  BY <1>7, <1>8, <1>9, <1>10, <1>11, <1>16 DEF RegistrationInv, LinksAreProved
<1> QED BY <1>18, <1>19, <1>20 DEF RegistrationInv

\* The three inserts.
LEMMA CommitStep ==
  ASSUME RegistrationInv, NEW v \in Visits, Commit(v)
  PROVE  RegistrationInv'
<1> USE RegistrationAssumption
<1>1. RegistrationRows BY DEF RegistrationInv
<1>2. PICK row : row = visit[v] OBVIOUS
<1>3. row \in VisitRow /\ row.step = "insert"
  BY <1>1, <1>2 DEF RegistrationRows, Commit
<1>4. Visiting(row, TakenEmails, link) BY <1>1, <1>2 DEF RegistrationRows
<1>5. /\ row.email \in Emails /\ row.slug \in SlugNumbers \ ReservedSlugs
      /\ row.identity \in Identities \cup {NoAccount} /\ row.proved \in BOOLEAN
      /\ row.proved => row.identity \in Identities
  BY <1>3, <1>4 DEF Visiting, VisitRow
<1>6. PICK entered : entered = [org |-> row.slug, madeBy |-> row.identity, verified |-> FALSE,
                          deleted |-> FALSE]
  OBVIOUS
<1>7. /\ entered \in AccountRow /\ entered # NoAccount /\ entered.org = row.slug
      /\ entered.madeBy = row.identity /\ ~entered.verified
  <2>1. entered \in AccountRow BY <1>5, <1>6 DEF AccountRow
  <2> QED BY <1>6, <2>1
<1>8. /\ row.email \notin TakenEmails /\ workspace[row.slug] = NoAccount
      /\ row.identity # NoAccount => link[row.identity] = NoAccount
      /\ workspace' = [workspace EXCEPT ![row.slug] = row.email]
      /\ account' = [account EXCEPT ![row.email] = entered]
  BY <1>2, <1>6 DEF Commit, IndicesAllow
<1>9. /\ account' \in [Emails -> AccountRow \cup {NoAccount}] /\ account'[row.email] = entered
      /\ \A e \in Emails \ {row.email} : account'[e] = account[e]
  BY <1>1, <1>5, <1>7, <1>8 DEF RegistrationRows
<1>10. /\ workspace' \in [SlugNumbers -> Emails \cup {NoAccount}]
       /\ workspace'[row.slug] = row.email
       /\ \A n \in SlugNumbers \ {row.slug} : workspace'[n] = workspace[n]
  BY <1>1, <1>5, <1>8 DEF RegistrationRows
<1>11. TakenEmails' = TakenEmails \cup {row.email} BY <1>5, <1>7, <1>9 DEF TakenEmails
<1>12. PICK l : l = [email |-> row.email, proved |-> row.proved] OBVIOUS
<1>13. l \in LinkRow /\ l # NoAccount /\ l.email = row.email /\ l.proved = row.proved
  BY <1>5, <1>12 DEF LinkRow
<1>14. link' = IF row.identity = NoAccount THEN link ELSE [link EXCEPT ![row.identity] = l]
  BY <1>2, <1>12 DEF Commit
<1>15. /\ link' \in [Identities -> LinkRow \cup {NoAccount}]
       /\ \A i \in Linked : link'[i] = link[i]
       /\ row.identity # NoAccount => link'[row.identity] = l
       /\ \A i \in Linked' : i \in Linked \/ (i = row.identity /\ i # NoAccount)
  <2>1. CASE row.identity = NoAccount
    BY <1>1, <1>14, <2>1 DEF RegistrationRows, Linked
  <2>2. CASE row.identity # NoAccount
    BY <1>1, <1>5, <1>8, <1>13, <1>14, <2>2 DEF RegistrationRows, Linked
  <2> QED BY <2>1, <2>2
<1>16. PICK next : next = [row EXCEPT !.step = "prove"] OBVIOUS
<1>17. /\ next \in VisitRow /\ next.step = "prove" /\ next.email = row.email
       /\ next.identity = row.identity /\ next.proved = row.proved
  BY <1>3, <1>16 DEF VisitRow
<1>18. Visiting(next, TakenEmails', link')
  BY <1>5, <1>11, <1>12, <1>15, <1>17 DEF Visiting
<1>19. visit' = [visit EXCEPT ![v] = next] BY <1>2, <1>16 DEF Commit
<1>20. /\ visit' \in [Visits -> VisitRow]
       /\ \A w \in Visits : Visiting(visit'[w], TakenEmails', link')
  BY <1>1, <1>11, <1>15, <1>17, <1>18, <1>19, VisitStep
<1>21. \A i \in Linked' : link'[i].email \in TakenEmails'
  BY <1>1, <1>11, <1>13, <1>15 DEF RegistrationRows
<1>22. RegistrationRows' BY <1>9, <1>10, <1>15, <1>20, <1>21 DEF RegistrationRows
<1>23. OwnersAndWorkspacesComeTogether'
  <2>1. ASSUME NEW e \in TakenEmails' PROVE workspace'[account'[e].org] = e
    <3>1. CASE e = row.email BY <1>7, <1>9, <1>10, <3>1
    <3>2. CASE e # row.email
      <4>1. e \in TakenEmails /\ e \in Emails BY <1>11, <3>2 DEF TakenEmails
      <4>2. workspace[account[e].org] = e
        BY <4>1 DEF RegistrationInv, OwnersAndWorkspacesComeTogether
      <4>3. account[e] \in AccountRow BY <1>1, <4>1 DEF RegistrationRows, TakenEmails
      <4>4. account[e].org \in SlugNumbers BY <4>3 DEF AccountRow
      <4>5. account[e].org # row.slug BY <1>8, <4>1, <4>2
      <4> QED BY <1>9, <1>10, <3>2, <4>1, <4>2, <4>4, <4>5
    <3> QED BY <3>1, <3>2
  <2>2. ASSUME NEW n \in SlugNumbers, workspace'[n] # NoAccount
        PROVE  n \notin ReservedSlugs /\ workspace'[n] \in TakenEmails'
    BY <1>5, <1>10, <1>11, <2>2 DEF RegistrationInv, OwnersAndWorkspacesComeTogether
  <2> QED BY <2>1, <2>2 DEF OwnersAndWorkspacesComeTogether
<1>24. LinksAreProved'
  <2>1. ASSUME NEW i \in Linked' PROVE link'[i].proved \/ account'[link'[i].email].madeBy = i
    <3>1. CASE i \in Linked
      <4>1. link'[i] = link[i] /\ link[i].email \in TakenEmails
        BY <1>1, <1>15, <3>1 DEF RegistrationRows
      <4>2. account'[link[i].email] = account[link[i].email]
        BY <1>8, <1>9, <4>1 DEF TakenEmails
      <4> QED BY <3>1, <4>1, <4>2 DEF RegistrationInv, LinksAreProved
    <3>2. CASE i = row.identity /\ i # NoAccount
      BY <1>7, <1>9, <1>13, <1>15, <3>2
    <3> QED BY <1>15, <3>1, <3>2
  <2>2. ASSUME NEW e \in TakenEmails', account'[e].verified
        PROVE  \E i \in Linked' : link'[i] = [email |-> e, proved |-> TRUE]
    <3>1. e # row.email BY <1>7, <1>9, <2>2
    <3>2. e \in TakenEmails /\ account[e].verified
      BY <1>9, <1>11, <2>2, <3>1 DEF TakenEmails
    <3>3. PICK i \in Linked : link[i] = [email |-> e, proved |-> TRUE]
      BY <3>2 DEF RegistrationInv, LinksAreProved
    <3>4. link'[i] = link[i] /\ i \in Linked' BY <1>15 DEF Linked
    <3> QED BY <3>3, <3>4
  <2> QED BY <2>1, <2>2 DEF LinksAreProved
<1> QED BY <1>22, <1>23, <1>24 DEF RegistrationInv

\* What changes a row of an account that is there: the address is proved, by
\* the link the request made, or a member is removed.
LEMMA AccountStep ==
  ASSUME RegistrationInv, NEW e \in TakenEmails, NEW row \in AccountRow,
         account' = [account EXCEPT ![e] = row], UNCHANGED <<workspace, link>>,
         row.org = account[e].org, row.madeBy = account[e].madeBy,
         row.verified => account[e].verified
                         \/ \E i \in Linked : link[i] = [email |-> e, proved |-> TRUE],
         visit' \in [Visits -> VisitRow],
         \A w \in Visits : Visiting(visit'[w], TakenEmails, link)
  PROVE  RegistrationInv'
<1> USE RegistrationAssumption
<1>1. RegistrationRows BY DEF RegistrationInv
<1>2. /\ account' \in [Emails -> AccountRow \cup {NoAccount}] /\ account'[e] = row
      /\ row # NoAccount /\ \A f \in Emails \ {e} : account'[f] = account[f]
  BY <1>1 DEF RegistrationRows, TakenEmails
<1>3. TakenEmails' = TakenEmails /\ Linked' = Linked BY <1>2 DEF TakenEmails, Linked
<1>4. RegistrationRows' BY <1>1, <1>2, <1>3 DEF RegistrationRows
<1>5. \A f \in TakenEmails : account'[f].org = account[f].org /\ account'[f].madeBy = account[f].madeBy
  BY <1>2 DEF TakenEmails
<1>6. OwnersAndWorkspacesComeTogether'
  BY <1>3, <1>5 DEF RegistrationInv, OwnersAndWorkspacesComeTogether
<1>7. \A i \in Linked : link[i].email \in TakenEmails BY <1>1 DEF RegistrationRows
<1>8. \A f \in TakenEmails : account'[f].verified =>
        \E i \in Linked : link[i] = [email |-> f, proved |-> TRUE]
  BY <1>2 DEF RegistrationInv, LinksAreProved, TakenEmails
<1>9. LinksAreProved'
  BY <1>3, <1>5, <1>7, <1>8 DEF RegistrationInv, LinksAreProved
<1> QED BY <1>4, <1>6, <1>9 DEF RegistrationInv

LEMMA ProveStep ==
  ASSUME RegistrationInv, NEW v \in Visits, Prove(v)
  PROVE  RegistrationInv'
<1> USE RegistrationAssumption
<1>1. RegistrationRows BY DEF RegistrationInv
<1>2. visit' = [visit EXCEPT ![v] = NoVisit] /\ UNCHANGED <<workspace, link>>
  BY DEF Prove, Leave
<1>3. Visiting(NoVisit, TakenEmails, link) BY NoVisitIsRow DEF Visiting
<1>4. CASE ~visit[v].proved
  <2>1. account' = account BY <1>4 DEF Prove
  <2> QED BY <1>2, <1>3, <2>1, NoVisitIsRow, ComeAndGoStep
<1>5. CASE visit[v].proved
  <2>1. PICK e : e = visit[v].email OBVIOUS
  <2>2. PICK row : row = [account[e] EXCEPT !.verified = TRUE] OBVIOUS
  <2>3. Visiting(visit[v], TakenEmails, link) /\ visit[v].step = "prove"
    BY <1>1 DEF RegistrationRows, Prove
  <2>4. e \in TakenEmails BY <2>1, <2>3 DEF Visiting
  <2>5. visit[v].identity \in Identities /\ link[visit[v].identity] = [email |-> e, proved |-> TRUE]
    BY <1>5, <2>1, <2>3 DEF Visiting
  <2>6. visit[v].identity \in Linked
    <3>1. link[visit[v].identity] \in LinkRow BY <2>4, <2>5 DEF LinkRow, TakenEmails
    <3> QED BY <2>5, <3>1 DEF Linked
  <2>7. account[e] \in AccountRow BY <1>1, <2>4 DEF RegistrationRows, TakenEmails
  <2>8. /\ row \in AccountRow /\ row.org = account[e].org /\ row.madeBy = account[e].madeBy
    BY <2>2, <2>7 DEF AccountRow
  <2>9. account' = [account EXCEPT ![e] = row]
    BY <1>1, <1>5, <2>1, <2>2, <2>4 DEF Prove, RegistrationRows, TakenEmails
  <2>10. /\ visit' \in [Visits -> VisitRow]
         /\ \A w \in Visits : Visiting(visit'[w], TakenEmails, link)
    BY <1>1, <1>2, <1>3, NoVisitIsRow, VisitStep
  <2> QED BY <1>2, <2>4, <2>5, <2>6, <2>8, <2>9, <2>10, AccountStep
<1> QED BY <1>4, <1>5

LEMMA RemoveStep ==
  ASSUME RegistrationInv, NEW e \in Emails, RemoveAccount(e)
  PROVE  RegistrationInv'
<1> USE RegistrationAssumption
<1>1. RegistrationRows /\ e \in TakenEmails BY DEF RegistrationInv, RemoveAccount
<1>2. PICK row : row = [account[e] EXCEPT !.deleted = TRUE] OBVIOUS
<1>3. account[e] \in AccountRow BY <1>1 DEF RegistrationRows, TakenEmails
<1>4. /\ row \in AccountRow /\ row.org = account[e].org /\ row.madeBy = account[e].madeBy
      /\ row.verified = account[e].verified
  BY <1>2, <1>3 DEF AccountRow
<1>5. account' = [account EXCEPT ![e] = row] /\ UNCHANGED <<workspace, link, visit>>
  BY <1>1, <1>2 DEF RemoveAccount, RegistrationRows
<1>6. visit' \in [Visits -> VisitRow] /\ \A w \in Visits : Visiting(visit'[w], TakenEmails, link)
  BY <1>1, <1>5 DEF RegistrationRows
<1> QED BY <1>1, <1>4, <1>5, <1>6, AccountStep

\* What both ways to register promise holds at any moment, for any number of
\* requests, addresses, identities and names: no user without a workspace, no
\* workspace without its owner, none that has a route's name, and no identity
\* that opens an account it did not make and whose address nobody vouched for.
THEOREM RegistrationHolds == RegistrationSpec => []RegistrationSafe
<1>1. RegistrationInit => RegistrationInv
  <2> USE RegistrationAssumption
  <2>1. SUFFICES ASSUME RegistrationInit PROVE RegistrationInv OBVIOUS
  <2>2. TakenEmails = {} /\ Linked = {} BY <2>1 DEF RegistrationInit, TakenEmails, Linked
  <2>3. ASSUME NEW v \in Visits PROVE Visiting(visit[v], TakenEmails, link)
    BY <2>1, NoVisitIsRow DEF RegistrationInit, Visiting
  <2>4. visit \in [Visits -> VisitRow] BY <2>1, NoVisitIsRow DEF RegistrationInit
  <2>5. RegistrationRows BY <2>1, <2>2, <2>3, <2>4 DEF RegistrationInit, RegistrationRows
  <2>6. OwnersAndWorkspacesComeTogether /\ LinksAreProved
    BY <2>1, <2>2 DEF RegistrationInit, OwnersAndWorkspacesComeTogether, LinksAreProved
  <2> QED BY <2>5, <2>6 DEF RegistrationInv
<1>2. RegistrationInv /\ [RegistrationNext]_registrationVars => RegistrationInv'
  <2>1. SUFFICES ASSUME RegistrationInv, [RegistrationNext]_registrationVars
                 PROVE  RegistrationInv'
    OBVIOUS
  <2>2. CASE SetGate \/ UNCHANGED registrationVars
    <3>1. UNCHANGED <<account, workspace, link, visit>>
      BY <2>2 DEF SetGate, registrationVars
    <3>2. TakenEmails' = TakenEmails /\ Linked' = Linked BY <3>1 DEF TakenEmails, Linked
    <3> QED BY <2>1, <3>1, <3>2 DEF RegistrationInv, RegistrationRows,
         OwnersAndWorkspacesComeTogether, LinksAreProved
  <2>3. ASSUME NEW v \in Visits,
               \/ \E e \in Emails : SignUp(v, e) \/ \E i \in Identities, vouched \in BOOLEAN :
                                                   Callback(v, i, e, vouched)
               \/ LinkAccount(v) \/ Prove(v) \/ PickSlug(v) \/ Commit(v) \/ Fail(v)
        PROVE  RegistrationInv'
    <3>1. CASE LinkAccount(v) \/ Prove(v) \/ Commit(v)
      BY <2>1, <3>1, LinkStep, ProveStep, CommitStep
    <3> QED BY <2>1, <2>3, <3>1, VisitSteps
  <2>4. ASSUME NEW e \in Emails, RemoveAccount(e) PROVE RegistrationInv'
    BY <2>1, <2>4, RemoveStep
  <2> QED BY <2>1, <2>2, <2>3, <2>4 DEF RegistrationNext
<1>3. RegistrationInv => RegistrationSafe
  BY DEF RegistrationInv, RegistrationRows, Visiting, RegistrationSafe, RegistrationTypeOK
<1> QED BY <1>1, <1>2, <1>3, PTL DEF RegistrationSpec

-----------------------------------------------------------------------------
(* Staff. Whoever toggles is an administrator with a second factor and not *)
(* the one who is toggled, so that one at least is left.                   *)

Sessions == [staff : Hands \cup {NoStaff}, web : Users \cup {NoStaff},
             state : ImpersonationState \cup {NoStaff}, lent : Hands \cup {NoStaff}]
TaskRow == [step : {"none", "save", "record"}, about : Hands \cup {NoStaff}, disabling : BOOLEAN]

Session(w) ==
  /\ window[w].staff \in Accounts \cup {NoStaff} /\ window[w].lent \in Accounts \cup {NoStaff}
  /\ window[w].staff # NoStaff => staffRow[window[w].staff].enrolled
  /\ window[w].lent # NoStaff =>
       /\ window[w].state \in ImpersonationState /\ window[w].state.staffId = window[w].lent
       /\ window[w].state.writes => window[w].lent \in Admins
  /\ IF task[w].step = "none" THEN task[w] = NoTask
     ELSE /\ task[w].about \in Accounts \ {window[w].staff}
          /\ window[w].staff \in Admins \cap Accounts

Trail(s) ==
  told[s] # "unsure" =>
    /\ s \notin Accounts => told[s] = "enabled"
    /\ \A v, w \in Windows : task[v].about = s /\ task[w].about = s => v = w
    /\ \A w \in Windows : task[w].about = s /\ task[w].step = "record" =>
         (task[w].disabling <=> staffRow[s].disabled)
    /\ s \in Accounts /\ (\A w \in Windows : ~(task[w].about = s /\ task[w].step = "record")) =>
         (told[s] = "disabled" <=> staffRow[s].disabled)

StaffInv ==
  /\ staffRow \in [Hands -> StaffRow \cup {NoStaff}]
  /\ window \in [Windows -> Sessions] /\ task \in [Windows -> TaskRow]
  /\ told \in [Hands -> {"enabled", "disabled", "unsure"}] /\ lateToggle \in BOOLEAN
  /\ BackOfficeReachable
  /\ \A w \in Windows : Session(w)
  /\ \A s \in Hands : Trail(s)

\* Steps of one window that leave accounts and toggles alone.
LEMMA WindowStep ==
  ASSUME StaffInv, NEW w \in Windows, UNCHANGED <<staffRow, task, told, lateToggle>>,
         NEW row \in Sessions, window' = [window EXCEPT ![w] = row],
         row.staff \in Accounts \cup {NoStaff}, row.lent \in Accounts \cup {NoStaff},
         row.staff # NoStaff => staffRow[row.staff].enrolled,
         row.lent # NoStaff => /\ row.state \in ImpersonationState /\ row.state.staffId = row.lent
                               /\ row.state.writes => row.lent \in Admins,
         row.staff = window[w].staff \/ task[w] = NoTask
  PROVE  StaffInv'
<1>1. window' \in [Windows -> Sessions] /\ window'[w] = row
      /\ \A v \in Windows \ {w} : window'[v] = window[v]
  BY DEF StaffInv
<1>2. Accounts' = Accounts /\ Active' = Active BY DEF Accounts, Active
<1>3. BackOfficeReachable' BY <1>2 DEF StaffInv, BackOfficeReachable
<1>4. ASSUME NEW v \in Windows PROVE Session(v)'
  <2>1. Session(v) BY DEF StaffInv
  <2>2. CASE v = w
    <3>1. task[w] = NoTask => task[w].step = "none" BY DEF NoTask
    <3> QED BY <1>1, <1>2, <2>1, <2>2, <3>1 DEF Session
  <2>3. CASE v # w BY <1>1, <1>2, <2>1, <2>3 DEF Session
  <2> QED BY <2>2, <2>3
<1>5. ASSUME NEW s \in Hands PROVE Trail(s)'
  <2>1. Trail(s) BY DEF StaffInv
  <2> QED BY <1>2, <2>1 DEF Trail
<1> QED BY <1>1, <1>3, <1>4, <1>5 DEF StaffInv

LEMMA SessionSteps ==
  ASSUME StaffInv, NEW w \in Windows,
         \/ EndImpersonation(w) \/ ExpireImpersonation(w) \/ StaffSignsOut(w)
         \/ StopImpersonating(w) \/ UserSignsOut(w)
         \/ \E s \in Hands : StaffSignsIn(w, s)
         \/ \E u \in Users : StartImpersonation(w, u) \/ UserSignsIn(w, u)
  PROVE  StaffInv'
<1> DEFINE was == window[w]
<1>1. was \in Sessions /\ Session(w) BY DEF StaffInv
<1>2. CASE EndImpersonation(w) \/ StopImpersonating(w)
  <2> DEFINE row == [was EXCEPT !.state = NoStaff, !.web = NoStaff, !.lent = NoStaff]
  <2>1. /\ row \in Sessions /\ row.staff = was.staff /\ row.lent = NoStaff
    BY <1>1 DEF Sessions
  <2>2. window' = [window EXCEPT ![w] = row] /\ UNCHANGED <<staffRow, task, told, lateToggle>>
    BY <1>2 DEF EndImpersonation, StopImpersonating, End, StaffInv
  <2> HIDE DEF row
  <2> QED BY <1>1, <2>1, <2>2, WindowStep DEF Session
<1>3. CASE ExpireImpersonation(w)
  <2> DEFINE row == [was EXCEPT !.state.expired = TRUE]
  <2>1. was.state \in ImpersonationState
    BY <1>1, <1>3 DEF ExpireImpersonation, Impersonates, Sessions
  <2>2. /\ row \in Sessions /\ row.staff = was.staff /\ row.lent = was.lent
        /\ row.state \in ImpersonationState /\ row.state.staffId = was.state.staffId
        /\ row.state.writes = was.state.writes
    BY <1>1, <2>1 DEF Sessions, ImpersonationState
  <2>3. window' = [window EXCEPT ![w] = row] /\ UNCHANGED <<staffRow, task, told, lateToggle>>
    BY <1>3 DEF ExpireImpersonation, StaffInv
  <2> HIDE DEF row
  <2> QED BY <1>1, <2>2, <2>3, WindowStep DEF Session
<1>4. CASE StaffSignsOut(w)
  <2> DEFINE row == [was EXCEPT !.staff = NoStaff]
  <2>1. /\ row \in Sessions /\ row.staff = NoStaff /\ row.lent = was.lent /\ row.state = was.state
    BY <1>1 DEF Sessions
  <2>2. /\ window' = [window EXCEPT ![w] = row] /\ UNCHANGED <<staffRow, task, told, lateToggle>>
        /\ task[w] = NoTask
    BY <1>4 DEF StaffSignsOut, MayPost, MayGet, StaffInv
  <2> HIDE DEF row
  <2> QED BY <1>1, <2>1, <2>2, WindowStep DEF Session
<1>5. CASE UserSignsOut(w)
  <2> DEFINE row == [was EXCEPT !.web = NoStaff, !.lent = NoStaff]
  <2>1. /\ row \in Sessions /\ row.staff = was.staff /\ row.lent = NoStaff
    BY <1>1 DEF Sessions
  <2>2. window' = [window EXCEPT ![w] = row] /\ UNCHANGED <<staffRow, task, told, lateToggle>>
    BY <1>5 DEF UserSignsOut, StaffInv
  <2> HIDE DEF row
  <2> QED BY <1>1, <2>1, <2>2, WindowStep DEF Session
<1>6. ASSUME NEW s \in Hands, StaffSignsIn(w, s) PROVE StaffInv'
  <2> DEFINE row == [was EXCEPT !.staff = s]
  <2>1. /\ row \in Sessions /\ row.staff = s /\ row.lent = was.lent /\ row.state = was.state
    BY <1>1 DEF Sessions
  <2>2. /\ window' = [window EXCEPT ![w] = row] /\ UNCHANGED <<staffRow, task, told, lateToggle>>
        /\ task[w] = NoTask /\ s \in Accounts /\ staffRow[s].enrolled
    BY <1>6 DEF StaffSignsIn, MayPost, MayGet, Admits, Active, StaffInv
  <2> HIDE DEF row
  <2> QED BY <1>1, <2>1, <2>2, WindowStep DEF Session
<1>7. ASSUME NEW u \in Users, UserSignsIn(w, u) PROVE StaffInv'
  <2> DEFINE row == [was EXCEPT !.web = u, !.lent = NoStaff]
  <2>1. /\ row \in Sessions /\ row.staff = was.staff /\ row.lent = NoStaff
    BY <1>1 DEF Sessions
  <2>2. window' = [window EXCEPT ![w] = row] /\ UNCHANGED <<staffRow, task, told, lateToggle>>
    BY <1>7 DEF UserSignsIn, StaffInv
  <2> HIDE DEF row
  <2> QED BY <1>1, <2>1, <2>2, WindowStep DEF Session
<1>8. ASSUME NEW u \in Users, StartImpersonation(w, u) PROVE StaffInv'
  <2>0. PICK writes \in BOOLEAN : writes = (was.staff \in Admins)
    <3>1. CASE was.staff \in Admins
      <4>1. TRUE = (was.staff \in Admins) BY <3>1
      <4> QED BY <4>1
    <3>2. CASE was.staff \notin Admins
      <4>1. FALSE = (was.staff \in Admins) BY <3>2
      <4> QED BY <4>1
    <3> QED BY <3>1, <3>2
  <2> DEFINE lent == [staffId |-> was.staff, userId |-> u, writes |-> writes, expired |-> FALSE]
             row == [was EXCEPT !.web = u, !.lent = was.staff, !.state = lent]
  <2>1. was.staff \in Active BY <1>8 DEF StartImpersonation
  <2>2. was.staff \in Accounts /\ was.staff \in Hands BY <2>1 DEF Active, Accounts
  <2>3. /\ lent \in ImpersonationState /\ lent.staffId = was.staff
        /\ lent.writes => was.staff \in Admins
    BY <2>0, <2>2 DEF ImpersonationState
  <2>4. window' = [window EXCEPT ![w] = row] /\ UNCHANGED <<staffRow, task, told, lateToggle>>
    BY <1>8, <2>0 DEF StartImpersonation, StaffInv
  <2> HIDE DEF lent
  <2>5. /\ row \in Sessions /\ row.staff = was.staff /\ row.lent = was.staff /\ row.state = lent
    BY <1>1, <2>2, <2>3 DEF Sessions
  <2> HIDE DEF row
  <2> QED BY <1>1, <2>2, <2>3, <2>4, <2>5, WindowStep DEF Session
<1> QED BY <1>2, <1>3, <1>4, <1>5, <1>6, <1>7, <1>8

\* An account is made; nobody has a session or a toggle about it yet.
LEMMA CreateStep ==
  ASSUME StaffInv, NEW s \in Hands,
         CommandCreatesStaff(s) \/ \E w \in Windows : CreateStaff(w, s)
  PROVE  StaffInv'
<1>1. PICK row \in StaffRow : ~row.disabled /\ staffRow' = [staffRow EXCEPT ![s] = row]
  BY DEF CommandCreatesStaff, CreateStaff, StaffRow
<1>2. s \notin Accounts /\ UNCHANGED <<window, task, told, lateToggle>>
  BY DEF CommandCreatesStaff, CreateStaff
<1>3. /\ staffRow' \in [Hands -> StaffRow \cup {NoStaff}] /\ Accounts' = Accounts \cup {s}
      /\ \A t \in Hands \ {s} : staffRow'[t] = staffRow[t]
  BY <1>1, <1>2, StaffAssumption DEF StaffInv, Accounts
<1>4. Active \subseteq Active' BY <1>2, <1>3 DEF Active, Accounts
<1>5. BackOfficeReachable'
  BY <1>2, <1>3, <1>4 DEF StaffInv, BackOfficeReachable, Active, Accounts
<1>6. ASSUME NEW v \in Windows PROVE Session(v)'
  <2>1. Session(v) BY DEF StaffInv
  <2> QED BY <1>2, <1>3, <2>1 DEF Session, Accounts
<1>7. ASSUME NEW t \in Hands PROVE Trail(t)'
  <2>1. Trail(t) BY DEF StaffInv
  <2>2. CASE t # s BY <1>2, <1>3, <2>1, <2>2 DEF Trail
  <2>3. CASE t = s
    <3>1. staffRow'[s].disabled = FALSE BY <1>1 DEF StaffInv, StaffRow
    <3>2. \A v \in Windows : task[v].about # s
      BY <1>2, StaffAssumption DEF StaffInv, Session, NoTask
    <3> QED BY <1>2, <1>3, <2>1, <2>3, <3>1, <3>2 DEF Trail
  <2> QED BY <2>2, <2>3
<1> QED BY <1>2, <1>3, <1>5, <1>6, <1>7 DEF StaffInv

LEMMA BeginToggleStep ==
  ASSUME StaffInv, NEW w \in Windows, NEW s \in Hands, BeginToggle(w, s)
  PROVE  StaffInv'
<1> DEFINE new == [step |-> "save", about |-> s, disabling |-> ~staffRow[s].disabled]
<1>1. /\ UNCHANGED <<staffRow, window, lateToggle>> /\ task[w] = NoTask
      /\ s \in Accounts /\ s # window[w].staff /\ window[w].staff \in Active \cap Admins
      /\ task' = [task EXCEPT ![w] = new]
  BY DEF BeginToggle, ManagesStaff, MayPost, MayGet, MayToggle
<1>2. new \in TaskRow BY DEF TaskRow
<1>3. task' \in [Windows -> TaskRow] /\ task'[w] = new
      /\ \A v \in Windows \ {w} : task'[v] = task[v]
  BY <1>1, <1>2 DEF StaffInv
<1>4. Accounts' = Accounts /\ Active' = Active /\ BackOfficeReachable'
  BY <1>1 DEF Accounts, Active, StaffInv, BackOfficeReachable
<1>5. ASSUME NEW v \in Windows PROVE Session(v)'
  <2>1. Session(v) BY DEF StaffInv
  <2>2. new.step = "save" /\ new.about = s OBVIOUS
  <2>3. window[w].staff \in Accounts BY <1>1 DEF Active
  <2> HIDE DEF new
  <2> QED BY <1>1, <1>3, <1>4, <2>1, <2>2, <2>3 DEF Session
<1>6. told' = IF \E v \in Windows : task[v].about = s THEN [told EXCEPT ![s] = "unsure"] ELSE told
  BY DEF BeginToggle
<1>7. told' \in [Hands -> {"enabled", "disabled", "unsure"}]
      /\ \A t \in Hands \ {s} : told'[t] = told[t]
  BY <1>6 DEF StaffInv
<1>8. task[w].about = NoStaff /\ task[w].step = "none" BY <1>1 DEF NoTask
<1>9. ASSUME NEW t \in Hands PROVE Trail(t)'
  <2>1. Trail(t) BY DEF StaffInv
  <2>2. new.step = "save" /\ new.about = s OBVIOUS
  <2> HIDE DEF new
  <2>3. CASE t # s BY <1>1, <1>3, <1>4, <1>7, <1>8, <2>1, <2>2, <2>3 DEF Trail
  <2>4. CASE t = s /\ \E v \in Windows : task[v].about = s
    <3>1. told'[s] = "unsure" BY <1>6, <2>4 DEF StaffInv
    <3> QED BY <2>4, <3>1 DEF Trail
  <2>5. CASE t = s /\ ~(\E v \in Windows : task[v].about = s)
    <3>1. told' = told BY <1>6, <2>5
    <3> QED BY <1>1, <1>3, <1>4, <2>1, <2>2, <2>5, <3>1 DEF Trail
  <2> QED BY <2>3, <2>4, <2>5
<1> QED BY <1>1, <1>3, <1>4, <1>5, <1>7, <1>9 DEF StaffInv

LEMMA SaveToggleStep ==
  ASSUME StaffInv, NEW w \in Windows, SaveToggle(w)
  PROVE  StaffInv'
<1>1. PICK s \in Hands : s = task[w].about /\ s \in Accounts /\ s # window[w].staff
  BY DEF SaveToggle, StaffInv, Session, Accounts
<1>2. /\ task[w].step = "save" /\ UNCHANGED <<window, told>>
      /\ window[w].staff \in Admins \cap Accounts
      /\ lateToggle' = (lateToggle \/ window[w].staff \notin Active)
  BY DEF SaveToggle, StaffInv, Session
<1>3. task[w] \in TaskRow /\ staffRow[s] \in StaffRow BY <1>1 DEF StaffInv, Accounts
<1>4. /\ staffRow' \in [Hands -> StaffRow \cup {NoStaff}] /\ Accounts' = Accounts
      /\ \A t \in Hands \ {s} : staffRow'[t] = staffRow[t]
      /\ staffRow'[s].enrolled = staffRow[s].enrolled
      /\ staffRow'[s].disabled = task[w].disabling
  <2>1. PICK row : row = [staffRow[s] EXCEPT !.disabled = task[w].disabling] OBVIOUS
  <2>2. /\ row \in StaffRow /\ row.enrolled = staffRow[s].enrolled
        /\ row.disabled = task[w].disabling
    BY <1>3, <2>1 DEF StaffRow, TaskRow
  <2>3. staffRow' = [staffRow EXCEPT ![s] = row] BY <1>1, <2>1 DEF SaveToggle, StaffInv
  <2>4. staffRow'[s] = row /\ \A t \in Hands \ {s} : staffRow'[t] = staffRow[t]
    BY <2>3 DEF StaffInv
  <2>5. Accounts' = Accounts BY <1>1, <2>2, <2>4, StaffAssumption DEF Accounts
  <2> QED BY <2>2, <2>3, <2>4, <2>5 DEF StaffInv
<1>5. /\ task' \in [Windows -> TaskRow] /\ \A v \in Windows \ {w} : task'[v] = task[v]
      /\ task'[w].step = "record" /\ task'[w].about = s /\ task'[w].disabling = task[w].disabling
  BY <1>1, <1>3 DEF SaveToggle, StaffInv, TaskRow
<1>6. BackOfficeReachable'
  <2>1. CASE window[w].staff \in Active
    <3>1. window[w].staff \in Hands \ {s} /\ staffRow[window[w].staff].enrolled
      BY <1>1, <1>2, StaffAssumption DEF Accounts, StaffInv, Session
    <3>2. window[w].staff \in Active' BY <1>2, <1>4, <2>1, <3>1 DEF Active
    <3> QED BY <1>2, <1>4, <3>1, <3>2 DEF BackOfficeReachable
  <2>2. CASE window[w].staff \notin Active BY <1>2, <2>2 DEF BackOfficeReachable
  <2> QED BY <2>1, <2>2
<1>7. ASSUME NEW v \in Windows PROVE Session(v)'
  <2>1. Session(v) BY DEF StaffInv
  <2>2. window[v].staff # NoStaff => staffRow'[window[v].staff].enrolled
    BY <1>4, <2>1 DEF Session, Accounts
  <2>3. CASE v = w BY <1>1, <1>2, <1>4, <1>5, <2>1, <2>2, <2>3 DEF Session
  <2>4. CASE v # w BY <1>2, <1>4, <1>5, <2>1, <2>2, <2>4 DEF Session
  <2> QED BY <2>3, <2>4
<1>8. ASSUME NEW t \in Hands PROVE Trail(t)'
  <2>1. Trail(t) BY DEF StaffInv
  <2>2. CASE t # s BY <1>1, <1>2, <1>4, <1>5, <2>1, <2>2 DEF Trail
  <2>3. CASE t = s BY <1>1, <1>2, <1>4, <1>5, <2>1, <2>3 DEF Trail
  <2> QED BY <2>2, <2>3
<1>9. lateToggle' \in BOOLEAN BY <1>2
<1> QED BY <1>2, <1>4, <1>5, <1>6, <1>7, <1>8, <1>9 DEF StaffInv

LEMMA EndToggleStep ==
  ASSUME StaffInv, NEW w \in Windows, RecordToggle(w) \/ ToggleUnrecorded(w)
  PROVE  StaffInv'
<1>1. task[w].step # "none"
  BY DEF RecordToggle, ToggleUnrecorded, StaffInv, Session
<1>2. PICK s \in Hands : s = task[w].about /\ s \in Accounts
  BY <1>1 DEF StaffInv, Session, Accounts
<1>3. /\ UNCHANGED <<staffRow, window, lateToggle>> /\ task' = [task EXCEPT ![w] = NoTask]
      /\ \/ told' = [told EXCEPT ![s] = "unsure"]
         \/ /\ task[w].step = "record"
            /\ told' = [told EXCEPT ![s] = IF @ = "unsure" THEN @ ELSE ToggleEntry(task[w].disabling)]
  BY <1>2 DEF RecordToggle, ToggleUnrecorded
<1>4. NoTask \in TaskRow /\ NoTask.step = "none" /\ NoTask.about = NoStaff BY DEF NoTask, TaskRow
<1>5. task' \in [Windows -> TaskRow] /\ task'[w] = NoTask
      /\ \A v \in Windows \ {w} : task'[v] = task[v]
  BY <1>3, <1>4 DEF StaffInv
<1>6. told' \in [Hands -> {"enabled", "disabled", "unsure"}]
      /\ \A t \in Hands \ {s} : told'[t] = told[t]
  BY <1>3 DEF StaffInv, ToggleEntry
<1>7. Accounts' = Accounts /\ Active' = Active /\ BackOfficeReachable'
  BY <1>3 DEF Accounts, Active, StaffInv, BackOfficeReachable
<1>8. ASSUME NEW v \in Windows PROVE Session(v)'
  <2>1. Session(v) BY DEF StaffInv
  <2> QED BY <1>3, <1>4, <1>5, <1>7, <2>1 DEF Session
<1>9. ASSUME NEW t \in Hands PROVE Trail(t)'
  <2>1. Trail(t) /\ t # NoStaff BY StaffAssumption DEF StaffInv
  <2>2. CASE t # s BY <1>2, <1>3, <1>4, <1>5, <1>6, <1>7, <2>1, <2>2 DEF Trail
  <2>3. CASE t = s
    <3>1. CASE told'[s] = "unsure" BY <2>3, <3>1 DEF Trail
    <3>2. CASE told'[s] # "unsure"
      <4>1. told[s] # "unsure" /\ told'[s] = ToggleEntry(task[w].disabling) /\ task[w].step = "record"
        BY <1>3, <3>2 DEF StaffInv
      <4>2. \A v \in Windows : task'[v].about # s
        BY <1>2, <1>4, <1>5, <2>1, <2>3, <4>1 DEF Trail
      <4>3. told'[s] = "disabled" <=> staffRow[s].disabled
        BY <1>2, <2>1, <2>3, <4>1 DEF Trail, ToggleEntry
      <4> QED BY <1>2, <1>3, <1>7, <2>3, <4>2, <4>3 DEF Trail
    <3> QED BY <3>1, <3>2
  <2> QED BY <2>2, <2>3
<1> QED BY <1>3, <1>5, <1>6, <1>7, <1>8, <1>9 DEF StaffInv

LEMMA StaffStep ==
  ASSUME StaffInv, [StaffNext]_staffVars
  PROVE  StaffInv'
<1>1. ASSUME UNCHANGED <<staffRow, window, task, told, lateToggle>> PROVE StaffInv'
  <2>1. Accounts' = Accounts /\ Active' = Active BY <1>1 DEF Accounts, Active
  <2>2. BackOfficeReachable' BY <1>1, <2>1 DEF StaffInv, BackOfficeReachable
  <2>3. ASSUME NEW v \in Windows PROVE Session(v)'
    <3>1. Session(v) BY DEF StaffInv
    <3> QED BY <1>1, <2>1, <3>1 DEF Session
  <2>4. ASSUME NEW t \in Hands PROVE Trail(t)'
    <3>1. Trail(t) BY DEF StaffInv
    <3> QED BY <1>1, <2>1, <3>1 DEF Trail
  <2> QED BY <1>1, <2>2, <2>3, <2>4 DEF StaffInv
<1>2. ASSUME NEW u \in Users, CloseUser(u) PROVE StaffInv' BY <1>1, <1>2 DEF CloseUser
<1>3. CASE UNCHANGED staffVars BY <1>1, <1>3 DEF staffVars
<1> QED BY <1>2, <1>3, SessionSteps, CreateStep, BeginToggleStep, SaveToggleStep, EndToggleStep
        DEF StaffNext

(* Some administrator can get in unless a toggle was late, what a session  *)
(* lent to staff does names both, and the trail tells who is disabled,     *)
(* whoever works in how many windows (toggle, impersonate, audit).         *)
THEOREM StaffHolds == StaffSpec => []StaffSafe
<1>1. StaffInit => StaffInv
  <2> SUFFICES ASSUME StaffInit PROVE StaffInv OBVIOUS
  <2>1. Founders \subseteq Accounts /\ \A s \in Accounts : staffRow[s] = [disabled |-> FALSE, enrolled |-> TRUE]
    <3>1. [disabled |-> FALSE, enrolled |-> TRUE] \in StaffRow BY DEF StaffRow
    <3>2. [disabled |-> FALSE, enrolled |-> TRUE] # NoStaff BY <3>1, StaffAssumption
    <3> QED BY <3>2, StaffAssumption DEF StaffInit, Accounts
  <2>2. staffRow \in [Hands -> StaffRow \cup {NoStaff}] BY DEF StaffInit, StaffRow
  <2>3. BackOfficeReachable
    BY <2>1, StaffAssumption DEF BackOfficeReachable, Active
  <2>4. SignedOut \in Sessions /\ NoTask \in TaskRow BY DEF SignedOut, Sessions, NoTask, TaskRow
  <2>5. \A w \in Windows : Session(w) BY DEF StaffInit, Session, SignedOut, NoTask
  <2>6. \A s \in Hands : Trail(s)
    <3> SUFFICES ASSUME NEW s \in Hands PROVE Trail(s) OBVIOUS
    <3>1. told[s] = "enabled" /\ \A w \in Windows : task[w].about # s
      BY StaffAssumption DEF StaffInit, NoTask
    <3>2. s \in Accounts => ~staffRow[s].disabled BY <2>1
    <3> QED BY <3>1, <3>2 DEF Trail
  <2> QED BY <2>2, <2>3, <2>4, <2>5, <2>6 DEF StaffInit, StaffInv
<1>2. StaffInv /\ [StaffNext]_staffVars => StaffInv' BY StaffStep
<1>3. StaffInv => StaffSafe
  <2> SUFFICES ASSUME StaffInv PROVE StaffSafe OBVIOUS
  <2>1. StaffTypeOK
    <3>1. \A s \in Hands : staffRow[s] \in StaffRow \/ staffRow[s] = NoStaff BY DEF StaffInv
    <3>2. ASSUME NEW w \in Windows
          PROVE  /\ window[w].staff \in Accounts \cup {NoStaff}
                 /\ window[w].web \in Users \cup {NoStaff}
                 /\ window[w].lent \in Accounts \cup {NoStaff}
                 /\ window[w].state \in ImpersonationState \/ window[w].state = NoStaff
                 /\ task[w] # NoTask => task[w].about \in Accounts /\ window[w].staff \in Admins
      <4>1. window[w] \in Sessions /\ Session(w) BY DEF StaffInv
      <4> QED BY <4>1 DEF Sessions, Session
    <3> QED BY <3>1, <3>2 DEF StaffTypeOK
  <2>2. ActsAreOwned
    <3> SUFFICES ASSUME NEW w \in Windows, Changes(w), window[w].lent # NoStaff
                 PROVE  window[w].lent \in Admins /\ Entry(w).impersonator = window[w].lent
      BY DEF ActsAreOwned, Entry
    <3>1. Session(w) BY DEF StaffInv
    <3>2. Impersonates(w) BY <3>1, StaffAssumption DEF Session, Impersonates
    <3>3. window[w].state.writes BY <3>2 DEF Changes, MayPost
    <3> QED BY <3>1, <3>2, <3>3 DEF Session, Entry
  <2>3. TrailTellsWhoIsIn
    BY DEF TrailTellsWhoIsIn, StaffInv, Trail, Accounts
  <2> QED BY <2>1, <2>2, <2>3 DEF StaffSafe, StaffInv
<1> QED BY <1>1, <1>2, <1>3, PTL DEF StaffSpec

-----------------------------------------------------------------------------
(* Exports. While a run or a retry has a request in hand, its row is not   *)
(* one that the purge takes; while one run alone has it, the row is as     *)
(* that run loaded it.                                                     *)

Unclaimed == {"idle", "find"}
Running == {"giveUp", "begin", "json", "zip", "complete"}
BuilderRow == [step : Unclaimed \cup {"retry"} \cup Running, r : 0..MaxExports,
               job : BOOLEAN, loaded : ExportRow \cup {NoExport}]

Settled(row) == row.status = "expired" \/ (row.status = "completed" /\ row.lapsed)
Whole(row, objs) == "zip" \in objs /\ (row.staff => "json" \in objs)
Backed(r) == exportJobs[r] > 0 \/ \E b \in Builders : builder[b].r = r /\ builder[b].job

Request(r) ==
  /\ r \notin AskedFor => stored[r] = {} /\ exportJobs[r] = 0 /\ purge[r] = NoExport
  /\ r \in AskedFor =>
       /\ "json" \in stored[r] => export[r].staff
       /\ export[r].status = "completed" => export[r].key
       /\ Settled(export[r]) =>
            \A b \in Builders : builder[b].r = r => builder[b].step = "find"
       /\ export[r].status = "expired" => stored[r] = {} \/ r \in refused
       /\ isDownloadable(r) => Whole(export[r], stored[r])
       /\ purge[r] # NoExport =>
            /\ purge[r].row = export[r] /\ Purgeable(export[r])
            /\ purge[r].step = "row" => stored[r] = {} \/ r \in refused
       /\ Buildable(export[r].status) /\ r \notin met \cup parked => Backed(r)

Build(b) ==
  LET r == builder[b].r
      loaded == builder[b].loaded
  IN /\ builder[b].step = "idle" => builder[b] = NotBuilding
     /\ builder[b].step # "idle" => r \in AskedFor
     /\ builder[b].step \notin Unclaimed =>
          /\ loaded \in ExportRow /\ loaded.staff = export[r].staff
          /\ loaded.key => export[r].key
          /\ loaded.again => export[r].again
     /\ builder[b].step = "retry" => loaded.status = "failed"
     /\ builder[b].step \in Running => Buildable(loaded.status)
     /\ builder[b].step = "json" => loaded.staff
     /\ builder[b].step \in {"zip", "complete"} /\ loaded.staff => "json" \in stored[r]
     /\ builder[b].step = "complete" => "zip" \in stored[r]
     /\ builder[b].step \in Running /\ r \notin met =>
          /\ export[r].status = loaded.status
          /\ \A c \in Builders : builder[c].r = r /\ builder[c].step # "find" => c = b

ExportTables ==
  /\ erasedPerson \in BOOLEAN /\ mishaps \in 0..MaxMishaps
  /\ export \in [ExportIds -> ExportRow \cup {NoExport}]
  /\ stored \in [ExportIds -> SUBSET {"json", "zip"}]
  /\ exportJobs \in [ExportIds -> Nat]
  /\ builder \in [Builders -> BuilderRow]
  /\ purge \in [ExportIds -> LoadedToPurge \cup {NoExport}]
  /\ \E n \in 0..MaxExports : AskedFor = 1..n
  /\ met \cup parked \cup refused \subseteq AskedFor

ExportsInv ==
  /\ ExportTables
  /\ \A r \in ExportIds : Request(r)
  /\ \A b \in Builders : Build(b)
  /\ OneInProgress

\* A step about one request leaves the others, and those at work on them.
Only(r) ==
  /\ \A u \in ExportIds \ {r} :
       /\ export'[u] = export[u] /\ stored'[u] = stored[u]
       /\ exportJobs'[u] = exportJobs[u] /\ purge'[u] = purge[u]
       /\ u \in met' <=> u \in met
       /\ u \in parked' <=> u \in parked
       /\ u \in refused' <=> u \in refused
  /\ \A c \in Builders : \/ builder'[c] = builder[c]
                         \/ builder[c].r \in {0, r} /\ builder'[c].r \in {0, r}

LEMMA AskedElsewhere ==
  ASSUME NEW r \in ExportIds, Only(r), NEW u \in ExportIds \ {r}
  PROVE  u \in AskedFor' <=> u \in AskedFor
BY DEF Only, AskedFor

LEMMA RequestElsewhere ==
  ASSUME ExportsInv, NEW r \in ExportIds, Only(r), NEW u \in ExportIds \ {r}
  PROVE  Request(u)'
<1>1. Request(u) BY DEF ExportsInv
<1>2. u \in AskedFor' <=> u \in AskedFor BY AskedElsewhere
<1>3. /\ export'[u] = export[u] /\ stored'[u] = stored[u]
      /\ exportJobs'[u] = exportJobs[u] /\ purge'[u] = purge[u]
      /\ u \in met' <=> u \in met
      /\ u \in parked' <=> u \in parked
      /\ u \in refused' <=> u \in refused
  BY DEF Only
<1>4. \A c \in Builders : builder'[c].r = u <=> builder[c].r = u
  BY DEF Only, ExportIds
<1>5. \A c \in Builders : builder[c].r = u => builder'[c] = builder[c]
  BY DEF Only, ExportIds
<1>6. Backed(u) => Backed(u)' BY <1>3, <1>5 DEF Backed
<1>7. (\A b \in Builders : builder[b].r = u => builder[b].step = "find") =>
        \A b \in Builders : builder'[b].r = u => builder'[b].step = "find"
  BY <1>4, <1>5
<1>8. isDownloadable(u)' => isDownloadable(u) BY <1>3 DEF isDownloadable
<1> QED BY <1>1, <1>2, <1>3, <1>6, <1>7, <1>8 DEF Request

LEMMA BuildElsewhere ==
  ASSUME ExportsInv, NEW r \in ExportIds, Only(r), NEW c \in Builders,
         builder'[c] = builder[c], builder[c].r # r
  PROVE  Build(c)'
<1>1. Build(c) BY DEF ExportsInv
<1>2. CASE builder[c].step = "idle" BY <1>1, <1>2 DEF Build, Unclaimed, Running
<1>3. CASE builder[c].step # "idle"
  <2>1. PICK u : u = builder[c].r OBVIOUS
  <2>2. u \in AskedFor /\ u \in ExportIds \ {r} BY <1>1, <1>3, <2>1 DEF Build, AskedFor
  <2>3. u \in AskedFor' BY <2>2, AskedElsewhere
  <2>4. export'[u] = export[u] /\ stored'[u] = stored[u] /\ (u \in met' <=> u \in met)
    BY <2>2 DEF Only
  <2>5. \A e \in Builders : builder'[e].r = u => builder'[e] = builder[e]
    BY <2>2 DEF Only, ExportIds
  <2> QED BY <1>1, <1>3, <2>1, <2>3, <2>4, <2>5 DEF Build
<1> QED BY <1>2, <1>3

\* One more is in progress only if it is the first of its kind.
LEMMA ProgressStep ==
  ASSUME ExportsInv, NEW r \in ExportIds, Only(r),
         r \in AskedFor' /\ Buildable(export'[r].status) /\ ~export'[r].again /\ r \notin met' =>
           \/ /\ r \in AskedFor \ met /\ Buildable(export[r].status) /\ ~export[r].again
              /\ export[r].staff = export'[r].staff
           \/ \A u \in AskedFor : export[u].staff = export'[r].staff => ~Buildable(export[u].status)
  PROVE  OneInProgress'
<1>1. \A u \in ExportIds \ {r} : (u \in AskedFor' <=> u \in AskedFor) /\ (u \in met' <=> u \in met)
                                 /\ export'[u] = export[u]
  BY AskedElsewhere DEF Only
<1>2. AskedFor \subseteq ExportIds /\ AskedFor' \subseteq ExportIds BY DEF AskedFor
<1>3. OneInProgress BY DEF ExportsInv
<1> QED BY <1>1, <1>2, <1>3 DEF OneInProgress

\* A step of one run or retry, whatever it does to the row and the objects of
\* its request.
Moves(b, r, next, row, objs) ==
  /\ r \in AskedFor /\ next \in BuilderRow /\ row \in ExportRow
  /\ builder[b].r \in {0, r} /\ next.r \in {0, r}
  /\ builder' = [builder EXCEPT ![b] = next]
  /\ export' = [export EXCEPT ![r] = row]
  /\ stored' = [stored EXCEPT ![r] = objs]
  /\ stored[r] \subseteq objs /\ objs \subseteq {"json", "zip"}
  /\ exportJobs' \in [ExportIds -> Nat]
  /\ \A u \in ExportIds \ {r} : exportJobs'[u] = exportJobs[u]
  /\ met' \in {met, met \cup {r}} /\ parked' \in {parked, parked \cup {r}}
  /\ UNCHANGED <<purge, refused, erasedPerson>> /\ mishaps' \in 0..MaxMishaps

\* What it may do to the row, and what it must know when it claims it.
Allowed(b, r, next, row, objs) ==
  /\ row = export[r] \/ builder[b].step \notin Unclaimed
  /\ row.staff = export[r].staff /\ (export[r].key => row.key) /\ (export[r].again => row.again)
  /\ "json" \in objs => row.staff
  /\ row.status = "completed" => row.key
  /\ Settled(row) => row = export[r] /\ objs = stored[r] /\ next.step \in Unclaimed
  /\ row.status = "completed" /\ ~row.lapsed => Whole(row, objs)
  /\ Buildable(row.status) /\ ~row.again /\ r \notin met' => Buildable(export[r].status)
  /\ \A c \in Builders \ {b} : builder[c].r = r /\ builder[c].step \in Running =>
       r \in met' \/ (row.status = export[r].status /\ next.step \in Unclaimed)

LEMMA MoveStep ==
  ASSUME ExportsInv, NEW b \in Builders, NEW r, NEW next, NEW row, NEW objs,
         Moves(b, r, next, row, objs), Allowed(b, r, next, row, objs),
         Buildable(row.status) /\ r \notin met' \cup parked' => Backed(r)',
         Build(b)'
  PROVE  ExportsInv'
<1> USE ExportsAssumption
<1>1. /\ r \in ExportIds /\ r \in AskedFor /\ export[r] \in ExportRow
      /\ Request(r) /\ ExportTables
  BY DEF Moves, AskedFor, ExportsInv, ExportTables
<1>2. /\ export' \in [ExportIds -> ExportRow \cup {NoExport}] /\ export'[r] = row
      /\ \A u \in ExportIds \ {r} : export'[u] = export[u]
  BY <1>1 DEF Moves, ExportTables
<1>3. /\ stored' \in [ExportIds -> SUBSET {"json", "zip"}] /\ stored'[r] = objs
      /\ \A u \in ExportIds \ {r} : stored'[u] = stored[u]
  BY <1>1 DEF Moves, ExportTables
<1>4. /\ builder' \in [Builders -> BuilderRow] /\ builder'[b] = next
      /\ \A c \in Builders \ {b} : builder'[c] = builder[c]
  BY <1>1 DEF Moves, ExportTables
<1>5. AskedFor' = AskedFor
  <2>1. row # NoExport BY DEF Moves
  <2> QED BY <1>1, <1>2, <2>1 DEF AskedFor
<1>6. Only(r) BY <1>1, <1>2, <1>3, <1>4 DEF Only, Moves
<1>7. ExportTables'
  BY <1>1, <1>2, <1>3, <1>4, <1>5 DEF ExportTables, Moves
<1>8. Request(r)'
  <2>1. "json" \in objs => row.staff BY DEF Allowed
  <2>2. Settled(row) => \A c \in Builders : builder'[c].r = r => builder'[c].step = "find"
    <3>1. SUFFICES ASSUME Settled(row), NEW c \in Builders, builder'[c].r = r
                   PROVE  builder'[c].step = "find"
      OBVIOUS
    <3>2. row = export[r] /\ next.step \in Unclaimed BY <3>1 DEF Allowed
    <3>3. CASE c = b
      <4>1. next.step # "idle"
        BY <1>1, <1>4, <3>1, <3>3 DEF Build, NotBuilding, ExportIds
      <4> QED BY <1>4, <3>2, <3>3, <4>1 DEF Unclaimed
    <3>4. CASE c # b BY <1>1, <1>4, <3>1, <3>2, <3>4 DEF Request
    <3> QED BY <3>3, <3>4
  <2>3. row.status = "expired" => objs = {} \/ r \in refused
    <3>1. SUFFICES ASSUME row.status = "expired" PROVE objs = {} \/ r \in refused OBVIOUS
    <3>2. Settled(row) BY <3>1 DEF Settled
    <3>3. row = export[r] /\ objs = stored[r] BY <3>2 DEF Allowed
    <3> QED BY <1>1, <3>1, <3>3 DEF Request
  <2>4. isDownloadable(r)' => Whole(row, objs)
    BY <1>2 DEF Allowed, isDownloadable
  <2>5. purge[r] # NoExport =>
            /\ purge[r].row = row /\ Purgeable(row)
            /\ purge[r].step = "row" => objs = {} \/ r \in refused
    <3>1. SUFFICES ASSUME purge[r] # NoExport
                   PROVE  /\ purge[r].row = row /\ Purgeable(row)
                          /\ purge[r].step = "row" => objs = {} \/ r \in refused
      OBVIOUS
    <3>2. /\ purge[r].row = export[r] /\ Purgeable(export[r]) /\ Settled(export[r])
          /\ purge[r].step = "row" => stored[r] = {} \/ r \in refused
      BY <1>1, <3>1 DEF Request, Purgeable, Settled
    <3>3. builder[b].step \in Unclaimed
      <4>1. Build(b) BY DEF ExportsInv
      <4>2. builder[b].step # "idle" => builder[b].r = r
        BY <4>1 DEF Build, Moves, AskedFor, ExportIds
      <4> QED BY <1>1, <3>2, <4>2 DEF Request, Unclaimed
    <3>4. row = export[r] BY <3>3 DEF Allowed
    <3>5. objs = stored[r] BY <3>2, <3>4 DEF Allowed
    <3> QED BY <3>2, <3>4, <3>5
  <2> QED BY <1>1, <1>2, <1>3, <1>5, <2>1, <2>2, <2>3, <2>4, <2>5
         DEF Request, Moves, Allowed
<1>9. ASSUME NEW c \in Builders PROVE Build(c)'
  <2>1. CASE c = b BY <2>1
  <2>2. CASE c # b /\ builder[c].r # r BY <1>1, <1>4, <1>6, <2>2, BuildElsewhere
  <2>3. CASE c # b /\ builder[c].r = r
    <3>1. Build(c) BY DEF ExportsInv
    <3>2. builder'[c] = builder[c] BY <1>4, <2>3
    <3>3. stored[r] \subseteq stored'[r] /\ met \subseteq met' BY <1>3 DEF Moves
    <3>4. builder[c].step \in Running /\ r \notin met' =>
            /\ row.status = builder[c].loaded.status
            /\ \A e \in Builders : builder'[e].r = r /\ builder'[e].step # "find" => e = c
      <4>1. SUFFICES ASSUME builder[c].step \in Running, r \notin met'
                     PROVE  /\ row.status = builder[c].loaded.status
                            /\ \A e \in Builders :
                                 builder'[e].r = r /\ builder'[e].step # "find" => e = c
        OBVIOUS
      <4>2. row.status = export[r].status /\ next.step \in Unclaimed
        BY <2>3, <4>1 DEF Allowed
      <4>3. r \notin met BY <3>3, <4>1
      <4>4. /\ export[r].status = builder[c].loaded.status
            /\ \A e \in Builders : builder[e].r = r /\ builder[e].step # "find" => e = c
        BY <2>3, <3>1, <4>1, <4>3 DEF Build
      <4>5. next.r = r => next.step = "find"
        <5>1. next.step = "idle" => next.r = 0 BY <1>4 DEF Build, NotBuilding
        <5> QED BY <1>1, <4>2, <5>1 DEF Unclaimed, ExportIds
      <4> QED BY <1>4, <4>2, <4>4, <4>5
    <3> QED BY <1>2, <1>3, <1>5, <2>3, <3>1, <3>2, <3>3, <3>4 DEF Build, Allowed, Moves
  <2> QED BY <2>1, <2>2, <2>3
<1>10. OneInProgress'
  <2>1. met \subseteq met' BY DEF Moves
  <2> QED BY <1>1, <1>2, <1>5, <1>6, <2>1, ProgressStep DEF Allowed
<1>11. \A u \in ExportIds : Request(u)' BY <1>1, <1>6, <1>8, RequestElsewhere
<1> QED BY <1>7, <1>9, <1>10, <1>11 DEF ExportsInv

\* What a run or a retry that has its request in hand may count on.
LEMMA InHandKnows ==
  ASSUME ExportsInv, NEW b \in Builders, builder[b].step \notin Unclaimed,
         NEW r, r = builder[b].r, NEW loaded, loaded = builder[b].loaded
  PROVE  /\ r \in AskedFor /\ r \in ExportIds /\ builder[b] \in BuilderRow
         /\ export[r] \in ExportRow /\ loaded \in ExportRow
         /\ stored[r] \in SUBSET {"json", "zip"} /\ exportJobs[r] \in Nat
         /\ loaded.staff = export[r].staff
         /\ (loaded.key => export[r].key) /\ (loaded.again => export[r].again)
         /\ ~Settled(export[r])
         /\ export[r].status = "completed" => export[r].key
         /\ "json" \in stored[r] => export[r].staff
         /\ isDownloadable(r) => Whole(export[r], stored[r])
         /\ \A c \in Builders \ {b} :
              builder[c].r = r /\ builder[c].step \in Running => r \in met
<1>1. Build(b) /\ ExportTables BY DEF ExportsInv
<1>2. r \in AskedFor /\ r \in ExportIds BY <1>1 DEF Build, Unclaimed, AskedFor
<1>3. Request(r) BY <1>2 DEF ExportsInv
<1>4. export[r] \in ExportRow BY <1>1, <1>2 DEF ExportTables, AskedFor
<1>5. ~Settled(export[r]) BY <1>2, <1>3 DEF Request, Unclaimed
<1>6. ASSUME NEW c \in Builders \ {b}, builder[c].r = r, builder[c].step \in Running
      PROVE  r \in met
  <2>1. Build(c) BY DEF ExportsInv
  <2> QED BY <1>6, <2>1 DEF Build, Unclaimed
<1> QED BY <1>1, <1>2, <1>3, <1>4, <1>5, <1>6 DEF Build, Request, ExportTables

ExportColumns(columns) ==
  /\ DOMAIN columns \subseteq {"status", "key", "again"}
  /\ "status" \in DOMAIN columns /\ columns.status \in ExportStatuses
  /\ "key" \in DOMAIN columns => columns.key \in BOOLEAN
  /\ "again" \in DOMAIN columns => columns.again \in BOOLEAN

WrittenOver(s, row, loaded, columns) ==
  /\ s \in ExportRow /\ s.staff = row.staff /\ s.lapsed = row.lapsed
  /\ s.status = IF columns.status # loaded.status THEN columns.status ELSE row.status
  /\ s.key = IF "key" \in DOMAIN columns /\ columns.key # loaded.key
             THEN columns.key ELSE row.key
  /\ s.again = IF "again" \in DOMAIN columns /\ columns.again # loaded.again
               THEN columns.again ELSE row.again

LEMMA SavedExport ==
  ASSUME NEW row \in ExportRow, NEW loaded \in ExportRow, NEW columns, ExportColumns(columns),
         NEW s, s = Saved(row, loaded, columns)
  PROVE  WrittenOver(s, row, loaded, columns)
<1>1. DOMAIN row = {"staff", "status", "key", "lapsed", "again"} BY DEF ExportRow
<1>2. /\ row.staff \in BOOLEAN /\ row.status \in ExportStatuses /\ row.key \in BOOLEAN
      /\ row.lapsed \in BOOLEAN /\ row.again \in BOOLEAN
  BY DEF ExportRow
<1>3. DOMAIN s = {"staff", "status", "key", "lapsed", "again"} /\ s = [x \in DOMAIN s |-> s[x]]
  BY <1>1 DEF Saved
<1>4. s.staff = row.staff /\ s.lapsed = row.lapsed BY <1>1 DEF Saved, ExportColumns
<1>5. s.status = IF columns.status # loaded.status THEN columns.status ELSE row.status
  BY <1>1 DEF Saved, ExportColumns
<1>6. s.key = IF "key" \in DOMAIN columns /\ columns.key # loaded.key
              THEN columns.key ELSE row.key
  BY <1>1 DEF Saved
<1>7. s.again = IF "again" \in DOMAIN columns /\ columns.again # loaded.again
                THEN columns.again ELSE row.again
  BY <1>1 DEF Saved
<1>8. s \in ExportRow
  <2>1. s.status \in ExportStatuses BY <1>2, <1>5 DEF ExportColumns
  <2>2. s.key \in BOOLEAN BY <1>2, <1>6 DEF ExportColumns
  <2>3. s.again \in BOOLEAN BY <1>2, <1>7 DEF ExportColumns
  <2>4. s = [staff |-> s.staff, status |-> s.status, key |-> s.key, lapsed |-> s.lapsed,
             again |-> s.again]
    BY <1>3
  <2> QED BY <1>2, <1>4, <2>1, <2>2, <2>3, <2>4 DEF ExportRow
<1> QED BY <1>4, <1>5, <1>6, <1>7, <1>8 DEF WrittenOver

LEMMA NotBuildingIsRow ==
  /\ NotBuilding \in BuilderRow /\ NotBuilding.step = "idle" /\ NotBuilding.r = 0
  /\ NotBuilding.job = FALSE
BY ExportsAssumption DEF NotBuilding, BuilderRow, Unclaimed

SavedAs(row, r, loaded, columns) ==
  /\ columns.status # loaded.status => row.status = columns.status
  /\ columns.status = loaded.status => row.status = export[r].status
  /\ row.staff = export[r].staff /\ (export[r].key => row.key)
  /\ export[r].again => row.again
  /\ ~Settled(row) /\ (row.status = "completed" => row.key)
  /\ row.status = "completed" /\ ~row.lapsed => Whole(row, stored[r])
  /\ Buildable(row.status) /\ ~row.again /\ r \notin met => Buildable(export[r].status)

\* A run or a retry that has its request in hand saves the row, and gives it
\* out of hand or goes on.
LEMMA SaveStep ==
  ASSUME ExportsInv, NEW b \in Builders, builder[b].step \notin Unclaimed,
         NEW columns, ExportColumns(columns), SaveExport(b, columns),
         NEW r, r = builder[b].r, NEW loaded, loaded = builder[b].loaded,
         columns.status \in {"requested", "processing", "failed"},
         "key" \notin DOMAIN columns, "again" \in DOMAIN columns => columns.again = TRUE,
         \/ columns.status = "failed"
         \/ "again" \in DOMAIN columns
         \/ builder[b].step \in Running
  PROVE  \E row \in ExportRow :
           export' = [export EXCEPT ![r] = row] /\ SavedAs(row, r, loaded, columns)
<1>1. PICK row : row = Saved(export[r], loaded, columns) OBVIOUS
<1>2. /\ r \in ExportIds /\ export[r] \in ExportRow /\ loaded \in ExportRow
      /\ (loaded.again => export[r].again) /\ ~Settled(export[r])
      /\ export[r].status = "completed" => export[r].key
      /\ isDownloadable(r) => Whole(export[r], stored[r])
  BY InHandKnows
<1>3. WrittenOver(row, export[r], loaded, columns) BY <1>1, <1>2, SavedExport
<1>4. export' = [export EXCEPT ![r] = row] BY <1>1, <1>2 DEF SaveExport
<1>5. /\ row \in ExportRow /\ row.staff = export[r].staff /\ row.lapsed = export[r].lapsed
      /\ row.key = export[r].key
      /\ row.status = IF columns.status # loaded.status THEN columns.status ELSE export[r].status
  BY <1>3 DEF WrittenOver
<1>6. export[r].again => row.again BY <1>2, <1>3 DEF WrittenOver, ExportRow
<1>7. "again" \in DOMAIN columns => row.again BY <1>2, <1>3 DEF WrittenOver, ExportRow
<1>8. ~Settled(row) BY <1>2, <1>5 DEF Settled
<1>9. row.status = "completed" => row.key BY <1>2, <1>5
<1>10. row.status = "completed" /\ ~row.lapsed => Whole(row, stored[r])
  BY <1>2, <1>5 DEF isDownloadable, Whole
<1>11. Buildable(row.status) /\ ~row.again /\ r \notin met => Buildable(export[r].status)
  <2>1. SUFFICES ASSUME Buildable(row.status), ~row.again, r \notin met
                 PROVE  Buildable(export[r].status)
    OBVIOUS
  <2>2. CASE columns.status = "failed" BY <1>5, <2>1, <2>2 DEF Buildable
  <2>3. CASE "again" \in DOMAIN columns BY <1>7, <2>1, <2>3
  <2>4. CASE builder[b].step \in Running
    <3>1. Build(b) BY DEF ExportsInv
    <3>2. Buildable(loaded.status) /\ export[r].status = loaded.status
      BY <2>1, <2>4, <3>1 DEF Build
    <3> QED BY <3>2
  <2> QED BY <2>2, <2>3, <2>4
<1>12. SavedAs(row, r, loaded, columns)
  BY <1>5, <1>6, <1>8, <1>9, <1>10, <1>11 DEF SavedAs
<1> QED BY <1>4, <1>5, <1>12

LEMMA RetryStep ==
  ASSUME ExportsInv, NEW b \in Builders, RetryExport(b)
  PROVE  ExportsInv'
<1> USE ExportsAssumption
<1>1. PICK r, loaded, columns :
        /\ r = builder[b].r /\ loaded = builder[b].loaded
        /\ columns = [status |-> "requested", again |-> TRUE]
  OBVIOUS
<1>2. builder[b].step \notin Unclaimed BY DEF RetryExport, Unclaimed
<1>3. /\ r \in AskedFor /\ r \in ExportIds /\ builder[b] \in BuilderRow
      /\ export[r] \in ExportRow /\ stored[r] \in SUBSET {"json", "zip"}
      /\ "json" \in stored[r] => export[r].staff
      /\ exportJobs[r] \in Nat
      /\ \A c \in Builders \ {b} : builder[c].r = r /\ builder[c].step \in Running => r \in met
  BY <1>1, <1>2, InHandKnows
<1>4. ExportColumns(columns) BY <1>1 DEF ExportColumns, ExportStatuses
<1>5. SaveExport(b, columns) BY <1>1 DEF RetryExport
<1>6. PICK row \in ExportRow :
        export' = [export EXCEPT ![r] = row] /\ SavedAs(row, r, loaded, columns)
  <2>1. columns.status = "requested" /\ "key" \notin DOMAIN columns
        /\ "again" \in DOMAIN columns /\ columns.again = TRUE
    BY <1>1
  <2> QED BY <1>1, <1>2, <1>4, <1>5, <2>1, SaveStep
<1>7. PICK next : next = [[builder[b] EXCEPT !.step = "find"] EXCEPT !.loaded = NoExport] OBVIOUS
<1>8. /\ next.step = "find" /\ next.r = r /\ next.loaded = NoExport
  BY <1>1, <1>3, <1>7 DEF BuilderRow
<1>9. next \in BuilderRow BY <1>3, <1>7 DEF BuilderRow, Unclaimed
<1>10. ExportTables BY DEF ExportsInv
<1>11. builder' = [builder EXCEPT ![b] = next]
  BY <1>7, <1>10 DEF RetryExport, ExportTables
<1>12. /\ exportJobs' \in [ExportIds -> Nat] /\ exportJobs'[r] = exportJobs[r] + 1
       /\ \A u \in ExportIds \ {r} : exportJobs'[u] = exportJobs[u]
  BY <1>1, <1>3, <1>10 DEF RetryExport, ExportTables
<1>13. stored' = [stored EXCEPT ![r] = stored[r]] BY <1>3, <1>10 DEF RetryExport, ExportTables
<1>14. Moves(b, r, next, row, stored[r])
  BY <1>1, <1>3, <1>6, <1>8, <1>9, <1>10, <1>11, <1>12, <1>13 DEF Moves, RetryExport, ExportTables
<1>15. Allowed(b, r, next, row, stored[r])
  BY <1>2, <1>3, <1>6 DEF Allowed, RetryExport, SavedAs
<1>16. Backed(r)' BY <1>3, <1>12 DEF Backed
<1>17. Build(b)'
  <2>1. builder'[b] = next BY <1>10, <1>11 DEF ExportTables
  <2>2. r \in AskedFor' BY <1>3, <1>6 , <1>10 DEF AskedFor, ExportTables
  <2> QED BY <1>8, <2>1, <2>2 DEF Build, Unclaimed, Running
<1> QED BY <1>14, <1>15, <1>16, <1>17, MoveStep

\* A step that leaves the row as it is.
LEMMA StayStep ==
  ASSUME ExportsInv, NEW b \in Builders, NEW r \in AskedFor, NEW next \in BuilderRow,
         builder[b].r \in {0, r}, next.r \in {0, r},
         builder' = [builder EXCEPT ![b] = next],
         NEW objs \in SUBSET {"json", "zip"}, stored' = [stored EXCEPT ![r] = objs],
         stored[r] \subseteq objs, "json" \in objs => export[r].staff,
         exportJobs' \in [ExportIds -> Nat],
         \A u \in ExportIds \ {r} : exportJobs'[u] = exportJobs[u],
         met' \in {met, met \cup {r}}, parked' \in {parked, parked \cup {r}},
         UNCHANGED <<export, purge, refused, erasedPerson>>, mishaps' \in 0..MaxMishaps,
         Settled(export[r]) => objs = stored[r] /\ next.step \in Unclaimed,
         \A c \in Builders \ {b} : builder[c].r = r /\ builder[c].step \in Running =>
           r \in met' \/ next.step \in Unclaimed,
         Buildable(export[r].status) /\ r \notin met' \cup parked' => Backed(r)',
         Build(b)'
  PROVE  ExportsInv'
<1>1. ExportTables /\ Request(r) /\ r \in ExportIds BY DEF ExportsInv, AskedFor
<1>2. export[r] \in ExportRow BY <1>1 DEF ExportTables, AskedFor
<1>3. export' = [export EXCEPT ![r] = export[r]] BY <1>1 DEF ExportTables
<1>4. Moves(b, r, next, export[r], objs) BY <1>2, <1>3 DEF Moves
<1>5. export[r].status = "completed" /\ ~export[r].lapsed => Whole(export[r], objs)
  BY <1>1 DEF Request, isDownloadable, Whole
<1>6. export[r].status = "completed" => export[r].key BY <1>1 DEF Request
<1>7. Allowed(b, r, next, export[r], objs) BY <1>5, <1>6 DEF Allowed
<1> QED BY <1>4, <1>7, MoveStep

\* A step of a request or a job about what it is about, and what is known then.
LEMMA AtWorkKnows ==
  ASSUME ExportsInv, NEW b \in Builders, builder[b].step # "idle",
         NEW r, r = builder[b].r
  PROVE  /\ r \in AskedFor /\ r \in ExportIds /\ builder[b] \in BuilderRow
         /\ export[r] \in ExportRow /\ stored[r] \in SUBSET {"json", "zip"}
         /\ exportJobs[r] \in Nat
         /\ stored' = stored => stored' = [stored EXCEPT ![r] = stored[r]]
         /\ "json" \in stored[r] => export[r].staff
         /\ Buildable(export[r].status) /\ r \notin met \cup parked => Backed(r)
         /\ Build(b) /\ ExportTables
<1>1. Build(b) /\ ExportTables BY DEF ExportsInv
<1>2. r \in AskedFor /\ r \in ExportIds BY <1>1 DEF Build, AskedFor
<1>3. Request(r) BY <1>2 DEF ExportsInv
<1>4. export[r] \in ExportRow BY <1>1, <1>2 DEF ExportTables, AskedFor
<1> QED BY <1>1, <1>2, <1>3, <1>4 DEF Request, ExportTables

\* A run that ends and leaves the row as it is.
LEMMA GoneStep ==
  ASSUME ExportsInv, NEW b \in Builders, builder[b].step # "idle", BuilderDone(b),
         NEW r, r = builder[b].r,
         UNCHANGED <<export, stored, purge, refused, erasedPerson, met>>,
         exportJobs' \in [ExportIds -> Nat],
         \A u \in ExportIds \ {r} : exportJobs'[u] = exportJobs[u],
         parked' \in {parked, parked \cup {r}}, mishaps' \in 0..MaxMishaps,
         Buildable(export[r].status) /\ r \notin met \cup parked' => Backed(r)'
  PROVE  ExportsInv'
<1>1. /\ r \in AskedFor /\ r \in ExportIds /\ ExportTables
      /\ stored[r] \in SUBSET {"json", "zip"} /\ ("json" \in stored[r] => export[r].staff)
      /\ stored' = [stored EXCEPT ![r] = stored[r]]
  <2>1. stored' = stored OBVIOUS
  <2> QED BY <2>1, AtWorkKnows
<1>2. builder' = [builder EXCEPT ![b] = NotBuilding] BY DEF BuilderDone
<1>3. Build(b)'
  <2>1. builder'[b] = NotBuilding BY <1>1, <1>2 DEF ExportTables
  <2> QED BY <2>1, NotBuildingIsRow DEF Build, Unclaimed, Running
<1>4. /\ builder[b].r \in {0, r} /\ NotBuilding.r \in {0, r} /\ NotBuilding \in BuilderRow
      /\ NotBuilding.step \in Unclaimed /\ met' \in {met, met \cup {r}}
  BY NotBuildingIsRow DEF Unclaimed
<1>5. /\ \A c \in Builders \ {b} : builder[c].r = r /\ builder[c].step \in Running =>
           r \in met' \/ NotBuilding.step \in Unclaimed
      /\ Buildable(export[r].status) /\ r \notin met' \cup parked' => Backed(r)'
  BY <1>4
<1>6. PICK objs : objs = stored[r] OBVIOUS
<1>7. /\ objs \in SUBSET {"json", "zip"} /\ stored' = [stored EXCEPT ![r] = objs]
      /\ stored[r] \subseteq objs /\ ("json" \in objs => export[r].staff)
  BY <1>1, <1>6
<1>8. UNCHANGED <<export, purge, refused, erasedPerson>> OBVIOUS
<1>9. Settled(export[r]) => objs = stored[r] /\ NotBuilding.step \in Unclaimed BY <1>4, <1>6
<1> QED BY <1>1, <1>2, <1>3, <1>4, <1>5, <1>7, <1>8, <1>9, StayStep

LEMMA FindStep ==
  ASSUME ExportsInv, NEW b \in Builders, FindExport(b)
  PROVE  ExportsInv'
<1> USE ExportsAssumption
<1>1. PICK r : r = builder[b].r OBVIOUS
<1>2. builder[b].step = "find" BY DEF FindExport
<1>3. /\ r \in AskedFor /\ r \in ExportIds /\ builder[b] \in BuilderRow
      /\ export[r] \in ExportRow /\ stored[r] \in SUBSET {"json", "zip"}
      /\ "json" \in stored[r] => export[r].staff
      /\ Buildable(export[r].status) /\ r \notin met \cup parked => Backed(r)
      /\ ExportTables
  BY <1>1, <1>2, AtWorkKnows
<1>4. /\ UNCHANGED <<export, stored, exportJobs, purge, refused, erasedPerson, parked>>
      /\ mishaps' \in 0..MaxMishaps /\ exportJobs' \in [ExportIds -> Nat]
      /\ stored' = [stored EXCEPT ![r] = stored[r]]
  BY <1>3 DEF FindExport, ExportTables
<1>5. CASE ~Buildable(export[r].status)
  <2>1. BuilderDone(b) /\ met' = met BY <1>1, <1>5 DEF FindExport
  <2>2. /\ \A u \in ExportIds \ {r} : exportJobs'[u] = exportJobs[u]
        /\ parked' \in {parked, parked \cup {r}}
        /\ builder[b].step # "idle"
    BY <1>2, <1>4
  <2> QED BY <1>1, <1>3, <1>4, <1>5, <2>1, <2>2, GoneStep
<1>6. CASE Buildable(export[r].status)
  <2>1. PICK step \in {"giveUp", "begin"} : step = IF erasedPerson THEN "giveUp" ELSE "begin"
    OBVIOUS
  <2>2. PICK next : next = [[builder[b] EXCEPT !.step = step] EXCEPT !.loaded = export[r]] OBVIOUS
  <2>3. /\ next.step = step /\ next.r = r /\ next.loaded = export[r] /\ next.job = builder[b].job
    BY <1>1, <1>3, <2>2 DEF BuilderRow
  <2>4. next \in BuilderRow BY <1>3, <2>2 DEF BuilderRow, Running
  <2>5. builder' = [builder EXCEPT ![b] = next]
    BY <1>1, <1>3, <1>6, <2>1, <2>2 DEF FindExport, ExportTables
  <2>6. met' = IF InHand(r) = {} THEN met ELSE met \cup {r}
    BY <1>1, <1>6 DEF FindExport
  <2>7. /\ builder'[b] = next
        /\ \A c \in Builders \ {b} : builder'[c] = builder[c]
    BY <1>3, <2>5 DEF ExportTables
  <2>8. r \notin met' => \A c \in Builders : builder[c].r = r => builder[c].step = "find"
    BY <2>6 DEF InHand
  <2>9. Backed(r) => Backed(r)'
    BY <1>1, <1>4, <2>3, <2>7 DEF Backed
  <2>10. Build(b)'
    <3>1. r \in AskedFor' BY <1>3, <1>4 DEF AskedFor
    <3>2. r \notin met' => \A c \in Builders : builder'[c].r = r /\ builder'[c].step # "find" => c = b
      BY <2>7, <2>8
    <3> QED BY <1>3, <1>4, <1>6, <2>3, <2>7, <3>1, <3>2 DEF Build, Unclaimed, Running
  <2>11. ~Settled(export[r]) BY <1>6 DEF Settled, Buildable
  <2>12. \A c \in Builders \ {b} : builder[c].r = r /\ builder[c].step \in Running => r \in met'
    BY <2>8 DEF Running
  <2>13. met' \in {met, met \cup {r}} /\ met \subseteq met' BY <2>6
  <2>14. PICK objs : objs = stored[r] OBVIOUS
  <2>15. /\ stored' = [stored EXCEPT ![r] = objs] /\ objs \in SUBSET {"json", "zip"}
         /\ stored[r] \subseteq objs /\ ("json" \in objs => export[r].staff)
    BY <1>3, <1>4, <2>14
  <2>16. /\ builder[b].r \in {0, r} /\ next.r \in {0, r}
         /\ met' \in {met, met \cup {r}} /\ parked' \in {parked, parked \cup {r}}
         /\ \A u \in ExportIds \ {r} : exportJobs'[u] = exportJobs[u]
         /\ \A c \in Builders \ {b} : builder[c].r = r /\ builder[c].step \in Running => r \in met'
         /\ Buildable(export[r].status) /\ r \notin met' \cup parked' => Backed(r)'
    BY <1>1, <1>3, <1>4, <2>3, <2>9, <2>12, <2>13
  <2>17. r \in AskedFor BY <1>3
  <2>18. /\ UNCHANGED <<export, purge, refused, erasedPerson>>
         /\ mishaps' \in 0..MaxMishaps /\ exportJobs' \in [ExportIds -> Nat]
    BY <1>4
  <2> QED BY <2>4, <2>5, <2>10, <2>11, <2>15, <2>16, <2>17, <2>18, StayStep
<1> QED BY <1>5, <1>6

LEMMA PlaceStep ==
  ASSUME ExportsInv, NEW b \in Builders, PlaceObject(b)
  PROVE  ExportsInv'
<1> USE ExportsAssumption
<1>1. PICK r, loaded, object :
        r = builder[b].r /\ loaded = builder[b].loaded /\ object = builder[b].step
  OBVIOUS
<1>2. object \in {"json", "zip"} /\ builder[b].step \notin Unclaimed
  BY <1>1 DEF PlaceObject, Unclaimed
<1>3. /\ r \in AskedFor /\ r \in ExportIds /\ builder[b] \in BuilderRow
      /\ export[r] \in ExportRow /\ stored[r] \in SUBSET {"json", "zip"}
      /\ "json" \in stored[r] => export[r].staff
      /\ Buildable(export[r].status) /\ r \notin met \cup parked => Backed(r)
      /\ ExportTables /\ Build(b)
  BY <1>1, <1>2, AtWorkKnows DEF Unclaimed
<1>4. /\ loaded.staff = export[r].staff /\ ~Settled(export[r])
      /\ \A c \in Builders \ {b} : builder[c].r = r /\ builder[c].step \in Running => r \in met
  BY <1>1, <1>2, InHandKnows
<1>5. PICK objs : objs = stored[r] \cup {object} OBVIOUS
<1>6. /\ stored' = [stored EXCEPT ![r] = objs] /\ objs \in SUBSET {"json", "zip"}
      /\ stored[r] \subseteq objs /\ object \in objs
  BY <1>1, <1>2, <1>3, <1>5 DEF PlaceObject
<1>7. "json" \in objs => export[r].staff
  BY <1>1, <1>2, <1>3, <1>4, <1>5 DEF Build
<1>8. PICK step \in {"zip", "complete"} : step = IF object = "json" THEN "zip" ELSE "complete"
  OBVIOUS
<1>9. PICK next : next = [builder[b] EXCEPT !.step = step] OBVIOUS
<1>10. /\ next.step = step /\ next.r = r /\ next.loaded = loaded /\ next.job = builder[b].job
  BY <1>1, <1>3, <1>9 DEF BuilderRow
<1>11. next \in BuilderRow BY <1>3, <1>9 DEF BuilderRow, Running
<1>12. builder' = [builder EXCEPT ![b] = next]
  BY <1>1, <1>3, <1>8, <1>9 DEF PlaceObject, ExportTables
<1>13. builder'[b] = next /\ \A c \in Builders \ {b} : builder'[c] = builder[c]
  BY <1>3, <1>12 DEF ExportTables
<1>14. /\ UNCHANGED <<export, exportJobs, purge, refused, erasedPerson, parked, met>>
       /\ mishaps' \in 0..MaxMishaps /\ exportJobs' \in [ExportIds -> Nat]
  BY <1>3 DEF PlaceObject, ExportTables
<1>15. Backed(r) => Backed(r)' BY <1>1, <1>10, <1>13, <1>14 DEF Backed
<1>16. Build(b)'
  <2>1. r \in AskedFor' BY <1>3, <1>14 DEF AskedFor
  <2>2. stored'[r] = objs BY <1>3, <1>6 DEF ExportTables
  <2>3. /\ loaded \in ExportRow /\ (loaded.key => export[r].key)
        /\ (loaded.again => export[r].again) /\ Buildable(loaded.status)
        /\ r \notin met =>
             /\ export[r].status = loaded.status
             /\ \A c \in Builders : builder[c].r = r /\ builder[c].step # "find" => c = b
    BY <1>1, <1>2, <1>3 DEF Build, Unclaimed, Running
  <2>4. r \notin met => \A c \in Builders : builder'[c].r = r /\ builder'[c].step # "find" => c = b
    BY <1>13, <2>3
  <2>5. step = "zip" => "json" \in objs BY <1>2, <1>6, <1>8
  <2>6. step = "complete" => "zip" \in objs /\ (loaded.staff => "json" \in objs)
    BY <1>1, <1>2, <1>3, <1>6, <1>8 DEF Build
  <2> QED BY <1>4, <1>8, <1>10, <1>13, <1>14, <2>1, <2>2, <2>3, <2>4, <2>5, <2>6
         DEF Build, Unclaimed, Running
<1>17. /\ builder[b].r \in {0, r} /\ next.r \in {0, r}
       /\ met' \in {met, met \cup {r}} /\ parked' \in {parked, parked \cup {r}}
       /\ \A u \in ExportIds \ {r} : exportJobs'[u] = exportJobs[u]
       /\ \A c \in Builders \ {b} : builder[c].r = r /\ builder[c].step \in Running => r \in met'
       /\ Buildable(export[r].status) /\ r \notin met' \cup parked' => Backed(r)'
  BY <1>1, <1>3, <1>4, <1>10, <1>14, <1>15
<1> QED BY <1>3, <1>4, <1>6, <1>7, <1>11, <1>12, <1>14, <1>16, <1>17, StayStep

\* A run that ends, and saves a row that nothing need be behind any more.
LEMMA EndsStep ==
  ASSUME ExportsInv, NEW b \in Builders, builder[b].step \in Running, BuilderDone(b),
         NEW r, r = builder[b].r, NEW row \in ExportRow, export' = [export EXCEPT ![r] = row],
         row.staff = export[r].staff, export[r].key => row.key, export[r].again => row.again,
         ~Settled(row), row.status = "completed" => row.key, ~Buildable(row.status),
         row.status = "completed" /\ ~row.lapsed => Whole(row, stored[r]),
         UNCHANGED <<stored, exportJobs, purge, refused, erasedPerson, met, parked>>,
         mishaps' \in 0..MaxMishaps
  PROVE  ExportsInv'
<1> USE ExportsAssumption
<1>1. builder[b].step \notin Unclaimed /\ builder[b].step # "idle" BY DEF Unclaimed, Running
<1>2. /\ r \in AskedFor /\ r \in ExportIds /\ ExportTables
      /\ stored[r] \in SUBSET {"json", "zip"} /\ ("json" \in stored[r] => export[r].staff)
      /\ stored' = [stored EXCEPT ![r] = stored[r]]
  <2>1. stored' = stored OBVIOUS
  <2> QED BY <1>1, <2>1, AtWorkKnows
<1>3. \A c \in Builders \ {b} : builder[c].r = r /\ builder[c].step \in Running => r \in met
  BY <1>1, InHandKnows
<1>4. builder' = [builder EXCEPT ![b] = NotBuilding] BY DEF BuilderDone
<1>5. Moves(b, r, NotBuilding, row, stored[r])
  BY <1>2, <1>4, NotBuildingIsRow DEF Moves, ExportTables
<1>6. Allowed(b, r, NotBuilding, row, stored[r])
  BY <1>1, <1>2, <1>3 DEF Allowed
<1>7. Build(b)'
  <2>1. builder'[b] = NotBuilding BY <1>2, <1>4 DEF ExportTables
  <2> QED BY <2>1, NotBuildingIsRow DEF Build, Unclaimed, Running
<1> QED BY <1>5, <1>6, <1>7, MoveStep

\* generate() marks the request as failed.
LEMMA MarkFailedStep ==
  ASSUME ExportsInv, NEW b \in Builders, builder[b].step \in Running, BuilderDone(b),
         SaveExport(b, [status |-> "failed"]),
         UNCHANGED <<stored, exportJobs, purge, refused, erasedPerson, met, parked>>,
         mishaps' \in 0..MaxMishaps
  PROVE  ExportsInv'
<1>1. PICK r, loaded, columns :
        r = builder[b].r /\ loaded = builder[b].loaded /\ columns = [status |-> "failed"]
  OBVIOUS
<1>2. builder[b].step \notin Unclaimed BY DEF Unclaimed, Running
<1>3. ExportColumns(columns) /\ SaveExport(b, columns)
  BY <1>1 DEF ExportColumns, ExportStatuses
<1>4. columns.status = "failed" /\ "key" \notin DOMAIN columns /\ "again" \notin DOMAIN columns
  BY <1>1
<1>5. PICK row \in ExportRow :
        export' = [export EXCEPT ![r] = row] /\ SavedAs(row, r, loaded, columns)
  BY <1>1, <1>2, <1>3, <1>4, SaveStep
<1>6. row.status = "failed"
  <2>1. Build(b) BY DEF ExportsInv
  <2>2. Buildable(loaded.status) BY <1>1, <2>1 DEF Build
  <2> QED BY <1>4, <1>5, <2>2 DEF Buildable, SavedAs
<1>7. ~Buildable(row.status) BY <1>6 DEF Buildable
<1> QED BY <1>1, <1>5, <1>7, EndsStep DEF SavedAs

LEMMA CompleteStep ==
  ASSUME ExportsInv, NEW b \in Builders, CompleteExport(b)
  PROVE  ExportsInv'
<1>1. PICK r, loaded, columns :
        /\ r = builder[b].r /\ loaded = builder[b].loaded
        /\ columns = [status |-> "completed", key |-> TRUE]
  OBVIOUS
<1>2. builder[b].step = "complete" /\ builder[b].step \in Running /\ builder[b].step \notin Unclaimed
  BY DEF CompleteExport, Unclaimed, Running
<1>3. /\ r \in ExportIds /\ export[r] \in ExportRow /\ loaded \in ExportRow
      /\ loaded.staff = export[r].staff
      /\ (loaded.key => export[r].key) /\ (loaded.again => export[r].again)
  BY <1>1, <1>2, InHandKnows
<1>4. Build(b) BY DEF ExportsInv
<1>5. PICK s : s = Saved(export[r], loaded, columns) OBVIOUS
<1>6. PICK row : row = [s EXCEPT !.lapsed = FALSE] OBVIOUS
<1>7. ExportColumns(columns) BY <1>1 DEF ExportColumns, ExportStatuses
<1>8. WrittenOver(s, export[r], loaded, columns) BY <1>3, <1>5, <1>7, SavedExport
<1>9. columns.status = "completed" /\ "key" \in DOMAIN columns /\ columns.key = TRUE
      /\ "again" \notin DOMAIN columns
  BY <1>1
<1>10. s.status = "completed"
  <2>1. Buildable(loaded.status) BY <1>1, <1>2, <1>4 DEF Build
  <2> QED BY <1>8, <1>9, <2>1 DEF WrittenOver, Buildable
<1>11. s.key
  BY <1>3, <1>8, <1>9 DEF WrittenOver, ExportRow
<1>12. s \in ExportRow /\ s.staff = export[r].staff /\ s.again = export[r].again
  BY <1>8, <1>9 DEF WrittenOver
<1>13. /\ row \in ExportRow /\ row.staff = s.staff /\ row.status = s.status /\ row.key = s.key
       /\ row.again = s.again /\ ~row.lapsed
  BY <1>6, <1>12 DEF ExportRow
<1>14. export' = [export EXCEPT ![r] = row]
  BY <1>1, <1>3, <1>5, <1>6 DEF CompleteExport
<1>15. Whole(row, stored[r])
  BY <1>1, <1>2, <1>3, <1>4, <1>12, <1>13 DEF Build, Whole
<1>16. ~Settled(row) /\ ~Buildable(row.status)
  BY <1>10, <1>13 DEF Settled, Buildable
<1>17. mishaps' \in 0..MaxMishaps BY DEF CompleteExport, ExportsInv, ExportTables
<1>18. /\ UNCHANGED <<stored, exportJobs, purge, refused, erasedPerson, met, parked>>
       /\ BuilderDone(b)
  BY DEF CompleteExport
<1>19. /\ row.staff = export[r].staff /\ row.key /\ row.again = export[r].again
       /\ row.status = "completed"
  BY <1>10, <1>11, <1>12, <1>13
<1> QED BY <1>1, <1>2, <1>13, <1>14, <1>15, <1>16, <1>17, <1>18, <1>19, EndsStep

LEMMA BeginStepOfBuild ==
  ASSUME ExportsInv, NEW b \in Builders, BeginExport(b)
  PROVE  ExportsInv'
<1> USE ExportsAssumption
<1>1. PICK r, loaded, columns :
        /\ r = builder[b].r /\ loaded = builder[b].loaded
        /\ columns = [status |-> "processing"]
  OBVIOUS
<1>2. builder[b].step = "begin" /\ builder[b].step \in Running /\ builder[b].step \notin Unclaimed
  BY DEF BeginExport, Unclaimed, Running
<1>3. /\ r \in AskedFor /\ r \in ExportIds /\ builder[b] \in BuilderRow
      /\ export[r] \in ExportRow /\ loaded \in ExportRow
      /\ stored[r] \in SUBSET {"json", "zip"} /\ ("json" \in stored[r] => export[r].staff)
      /\ loaded.staff = export[r].staff
      /\ (loaded.key => export[r].key) /\ (loaded.again => export[r].again)
      /\ \A c \in Builders \ {b} : builder[c].r = r /\ builder[c].step \in Running => r \in met
  <2>1. /\ r \in AskedFor /\ r \in ExportIds /\ builder[b] \in BuilderRow
        /\ export[r] \in ExportRow /\ loaded \in ExportRow
        /\ stored[r] \in SUBSET {"json", "zip"} /\ ("json" \in stored[r] => export[r].staff)
    BY <1>1, <1>2, InHandKnows
  <2>2. /\ loaded.staff = export[r].staff
        /\ (loaded.key => export[r].key) /\ (loaded.again => export[r].again)
        /\ \A c \in Builders \ {b} : builder[c].r = r /\ builder[c].step \in Running => r \in met
    BY <1>1, <1>2, InHandKnows
  <2> QED BY <2>1, <2>2
<1>4. /\ Build(b) /\ ExportTables
      /\ Buildable(export[r].status) /\ r \notin met \cup parked => Backed(r)
  BY <1>1, <1>2, AtWorkKnows
<1>5. ExportColumns(columns) /\ SaveExport(b, columns)
  BY <1>1 DEF ExportColumns, ExportStatuses, BeginExport
<1>6. columns.status = "processing" /\ "key" \notin DOMAIN columns /\ "again" \notin DOMAIN columns
  BY <1>1
<1>7. PICK row \in ExportRow :
        export' = [export EXCEPT ![r] = row] /\ SavedAs(row, r, loaded, columns)
  BY <1>1, <1>2, <1>5, <1>6, SaveStep
<1>8. r \notin met =>
        /\ Buildable(export[r].status) /\ row.status = "processing"
        /\ \A c \in Builders : builder[c].r = r /\ builder[c].step # "find" => c = b
  BY <1>1, <1>2, <1>4, <1>6, <1>7 DEF Build, SavedAs
<1>9. PICK step \in {"json", "zip"} : step = FirstObject(loaded) /\ (step = "json" <=> loaded.staff)
  BY <1>3 DEF FirstObject, ExportRow
<1>10. PICK now : now = [loaded EXCEPT !.status = "processing"] OBVIOUS
<1>11. /\ now \in ExportRow /\ now.status = "processing" /\ now.staff = loaded.staff
       /\ now.key = loaded.key /\ now.again = loaded.again
  BY <1>3, <1>10 DEF ExportRow, ExportStatuses
<1>12. PICK next : next = [[builder[b] EXCEPT !.step = step] EXCEPT !.loaded = now] OBVIOUS
<1>13. /\ next.step = step /\ next.r = r /\ next.loaded = now /\ next.job = builder[b].job
  BY <1>1, <1>3, <1>12 DEF BuilderRow
<1>14. next \in BuilderRow BY <1>3, <1>11, <1>12 DEF BuilderRow, Running
<1>15. builder' = [builder EXCEPT ![b] = next]
  BY <1>1, <1>3, <1>4, <1>9, <1>10, <1>12 DEF BeginExport, ExportTables, BuilderRow
<1>16. builder'[b] = next /\ \A c \in Builders \ {b} : builder'[c] = builder[c]
  BY <1>4, <1>15 DEF ExportTables
<1>17. Moves(b, r, next, row, stored[r])
  BY <1>1, <1>3, <1>4, <1>7, <1>13, <1>14, <1>15 DEF Moves, BeginExport, ExportTables
<1>18. met' = met /\ parked' = parked BY DEF BeginExport
<1>19. Allowed(b, r, next, row, stored[r])
  BY <1>2, <1>3, <1>7, <1>18 DEF Allowed, SavedAs
<1>20. Buildable(row.status) /\ r \notin met' \cup parked' => Backed(r)'
  <2>1. Backed(r) => Backed(r)' BY <1>1, <1>13, <1>16 DEF Backed, BeginExport
  <2> QED BY <1>4, <1>8, <1>18, <2>1
<1>21. Build(b)'
  <2>1. export'[r] = row /\ r \in AskedFor' BY <1>3, <1>4, <1>7 DEF ExportTables, AskedFor
  <2>2. stored' = stored BY DEF BeginExport
  <2>3. r \notin met => \A c \in Builders : builder'[c].r = r /\ builder'[c].step # "find" => c = b
    BY <1>8, <1>16
  <2>4. step = "zip" => ~loaded.staff BY <1>9
  <2>5. /\ builder'[b].step = step /\ builder'[b].r = r /\ builder'[b].loaded = now
    BY <1>13, <1>16
  <2>6. now \in ExportRow /\ now.staff = row.staff /\ (now.key => row.key)
        /\ (now.again => row.again) /\ Buildable(now.status)
        /\ (step = "json" <=> now.staff) /\ step \in {"json", "zip"}
    BY <1>3, <1>7, <1>9, <1>11 DEF Buildable, SavedAs
  <2>7. r \notin met' => /\ row.status = now.status
                        /\ \A c \in Builders : builder'[c].r = r /\ builder'[c].step # "find" => c = b
    BY <1>8, <1>11, <1>18, <2>3
  <2> QED BY <2>1, <2>5, <2>6, <2>7 DEF Build, Unclaimed, Running
<1> QED BY <1>17, <1>19, <1>20, <1>21, MoveStep

LEMMA RunEndsSteps ==
  ASSUME ExportsInv, NEW b \in Builders, GiveUpExport(b) \/ FailExport(b) \/ KillBuilder(b)
  PROVE  ExportsInv'
<1>1. PICK r : r = builder[b].r OBVIOUS
<1>2. ExportTables BY DEF ExportsInv
<1>3. Mishap => mishaps' \in 0..MaxMishaps BY <1>2, ExportsAssumption DEF Mishap, ExportTables
<1>4. CASE GiveUpExport(b)
  <2>1. builder[b].step \in Running /\ BuilderDone(b) /\ SaveExport(b, [status |-> "failed"])
    BY <1>4 DEF GiveUpExport, Running
  <2>2. /\ UNCHANGED <<stored, exportJobs, purge, refused, erasedPerson, met, parked>>
        /\ mishaps' \in 0..MaxMishaps
    BY <1>2, <1>4 DEF GiveUpExport, ExportTables
  <2> QED BY <2>1, <2>2, MarkFailedStep
<1>5. CASE FailExport(b) /\ export' = export
  <2>1. /\ builder[b].step # "idle" /\ BuilderDone(b) /\ mishaps' \in 0..MaxMishaps
        /\ UNCHANGED <<export, stored, purge, refused, erasedPerson, met>>
        /\ parked' = parked
    BY <1>3, <1>5 DEF FailExport
  <2>2. CASE exportJobs' = IF builder[b].job THEN [exportJobs EXCEPT ![builder[b].r] = @ + 1]
                           ELSE exportJobs
    <3>1. /\ r \in ExportIds /\ exportJobs[r] \in Nat
          /\ Buildable(export[r].status) /\ r \notin met \cup parked => Backed(r)
      BY <1>1, <2>1, AtWorkKnows
    <3>2. /\ exportJobs' \in [ExportIds -> Nat]
          /\ \A u \in ExportIds \ {r} : exportJobs'[u] = exportJobs[u]
          /\ exportJobs'[r] = IF builder[b].job THEN exportJobs[r] + 1 ELSE exportJobs[r]
      BY <1>1, <1>2, <2>2, <3>1 DEF ExportTables
    <3>3. Backed(r) => Backed(r)'
      <4>1. CASE builder[b].job BY <3>1, <3>2, <4>1 DEF Backed
      <4>2. CASE ~builder[b].job
        <5>1. \A c \in Builders \ {b} : builder'[c] = builder[c] BY <1>2, <2>1 DEF BuilderDone, ExportTables
        <5> QED BY <3>2, <4>2, <5>1 DEF Backed
      <4> QED BY <4>1, <4>2
    <3>4. /\ Buildable(export[r].status) /\ r \notin met \cup parked' => Backed(r)'
          /\ parked' \in {parked, parked \cup {r}}
      BY <2>1, <3>1, <3>3
    <3> QED BY <1>1, <2>1, <3>2, <3>4, GoneStep
  <2>3. CASE /\ builder[b].job /\ SaveExport(b, [status |-> "failed"])
             /\ UNCHANGED exportJobs
    <3>1. builder[b].step \in Running BY <1>5 DEF FailExport, Running
    <3>2. UNCHANGED <<stored, exportJobs, purge, refused, erasedPerson, met, parked>>
      BY <2>1, <2>3
    <3> QED BY <2>1, <2>3, <3>1, <3>2, MarkFailedStep
  <2> QED BY <1>5, <2>2, <2>3 DEF FailExport
<1>6. CASE FailExport(b) /\ export' # export
  <2>1. /\ builder[b].step \in Running /\ BuilderDone(b)
        /\ SaveExport(b, [status |-> "failed"])
        /\ UNCHANGED <<stored, exportJobs, purge, refused, erasedPerson, met, parked>>
        /\ mishaps' \in 0..MaxMishaps
    BY <1>3, <1>6 DEF FailExport, Running
  <2> QED BY <2>1, MarkFailedStep
<1>7. CASE KillBuilder(b)
  <2>1. /\ builder[b].step # "idle" /\ BuilderDone(b) /\ mishaps' \in 0..MaxMishaps
        /\ UNCHANGED <<export, stored, purge, refused, erasedPerson, met>>
    BY <1>3, <1>7 DEF KillBuilder
  <2>2. /\ r \in ExportIds /\ exportJobs[r] \in Nat
        /\ Buildable(export[r].status) /\ r \notin met \cup parked => Backed(r)
    BY <1>1, <2>1, AtWorkKnows
  <2>3. CASE builder[b].job /\ exportJobs' = [exportJobs EXCEPT ![r] = @ + 1] /\ parked' = parked
    <3>1. /\ exportJobs' \in [ExportIds -> Nat] /\ exportJobs'[r] = exportJobs[r] + 1
          /\ \A u \in ExportIds \ {r} : exportJobs'[u] = exportJobs[u]
      BY <1>2, <2>2, <2>3 DEF ExportTables
    <3>2. Backed(r)' BY <2>2, <3>1 DEF Backed
    <3>3. parked' \in {parked, parked \cup {r}} BY <2>3
    <3> QED BY <1>1, <2>1, <3>1, <3>2, <3>3, GoneStep
  <2>4. CASE /\ parked' = IF builder[b].job THEN parked \cup {r} ELSE parked
             /\ exportJobs' = exportJobs
    <3>1. /\ exportJobs' \in [ExportIds -> Nat]
          /\ \A u \in ExportIds \ {r} : exportJobs'[u] = exportJobs[u]
      BY <1>2, <2>4 DEF ExportTables
    <3>2. ~builder[b].job => (Backed(r) => Backed(r)')
      <4>1. \A c \in Builders \ {b} : builder'[c] = builder[c] BY <1>2, <2>1 DEF BuilderDone, ExportTables
      <4> QED BY <2>4, <4>1 DEF Backed
    <3>3. builder[b].job => r \in parked' BY <2>4
    <3>4. parked' \in {parked, parked \cup {r}} /\ parked \subseteq parked' BY <2>4
    <3>5. Buildable(export[r].status) /\ r \notin met \cup parked' => Backed(r)'
      BY <2>2, <3>2, <3>3, <3>4
    <3> QED BY <1>1, <2>1, <3>1, <3>4, <3>5, GoneStep
  <2> QED BY <1>1, <1>7, <2>3, <2>4 DEF KillBuilder
<1> QED BY <1>4, <1>5, <1>6, <1>7

\* A retry begins, and a job is taken.
LEMMA TakeUpSteps ==
  ASSUME ExportsInv, NEW b \in Builders, NEW r \in ExportIds,
         StartRetryExport(b, r) \/ StartExportJob(b, r)
  PROVE  ExportsInv'
<1> USE ExportsAssumption
<1>1. ExportTables /\ Request(r) BY DEF ExportsInv
<1>2. /\ UNCHANGED <<export, stored, purge, refused, erasedPerson, met, parked>>
      /\ mishaps' \in 0..MaxMishaps /\ builder[b] = NotBuilding
  BY <1>1 DEF StartRetryExport, StartExportJob, ExportTables
<1>3. r \in AskedFor
  BY <1>1 DEF StartRetryExport, StartExportJob, Request
<1>4. export[r] \in ExportRow BY <1>1, <1>3 DEF ExportTables, AskedFor
<1>5. PICK objs : objs = stored[r] OBVIOUS
<1>6. /\ objs \in SUBSET {"json", "zip"} /\ stored' = [stored EXCEPT ![r] = objs]
      /\ stored[r] \subseteq objs /\ ("json" \in objs => export[r].staff)
  BY <1>1, <1>2, <1>3, <1>5 DEF ExportTables, Request
<1>7. builder[b].r = 0 /\ builder[b].r \in {0, r} BY <1>2, NotBuildingIsRow
<1>8. /\ met' \in {met, met \cup {r}} /\ parked' \in {parked, parked \cup {r}}
      /\ UNCHANGED <<export, purge, refused, erasedPerson>>
  BY <1>2
<1>9. r \in AskedFor' BY <1>2, <1>3 DEF AskedFor
<1>10. CASE StartRetryExport(b, r)
  <2>1. PICK next : next = [step |-> "retry", r |-> r, job |-> FALSE, loaded |-> export[r]] OBVIOUS
  <2>2. next \in BuilderRow BY <1>4, <2>1 DEF BuilderRow, ExportIds
  <2>3. builder' = [builder EXCEPT ![b] = next] BY <1>10, <2>1 DEF StartRetryExport
  <2>4. builder'[b] = next /\ \A c \in Builders \ {b} : builder'[c] = builder[c]
    BY <1>1, <2>3 DEF ExportTables
  <2>5. export[r].status = "failed" /\ exportJobs' = exportJobs BY <1>10 DEF StartRetryExport
  <2>6. /\ ~Settled(export[r]) /\ ~Buildable(export[r].status) BY <2>5 DEF Settled, Buildable
  <2>7. \A c \in Builders \ {b} : builder[c].r = r /\ builder[c].step \in Running =>
           r \in met' \/ next.step \in Unclaimed
    <3>1. \A c \in Builders : Build(c) BY DEF ExportsInv
    <3> QED BY <1>2, <2>6, <3>1 DEF Build
  <2>8. Build(b)'
    BY <1>2, <1>4, <1>9, <2>1, <2>4, <2>5 DEF Build, Unclaimed, Running
  <2>9. /\ exportJobs' \in [ExportIds -> Nat]
        /\ \A u \in ExportIds \ {r} : exportJobs'[u] = exportJobs[u]
    BY <1>1, <2>1, <2>5 DEF ExportTables
  <2>10. next.r \in {0, r} BY <2>1
  <2> QED BY <1>2, <1>3, <1>6, <1>7, <1>8, <2>2, <2>3, <2>6, <2>7, <2>8, <2>9, <2>10, StayStep
<1>11. CASE StartExportJob(b, r)
  <2>1. PICK next : next = [NotBuilding EXCEPT !.step = "find", !.r = r, !.job = TRUE] OBVIOUS
  <2>2. next = [step |-> "find", r |-> r, job |-> TRUE, loaded |-> NoExport]
    BY <2>1 DEF NotBuilding
  <2>3. next \in BuilderRow BY <2>2 DEF BuilderRow, ExportIds, Unclaimed
  <2>4. builder' = [builder EXCEPT ![b] = next] BY <1>11, <2>1 DEF StartExportJob
  <2>5. builder'[b] = next /\ \A c \in Builders \ {b} : builder'[c] = builder[c]
    BY <1>1, <2>4 DEF ExportTables
  <2>6. /\ exportJobs' \in [ExportIds -> Nat]
        /\ \A u \in ExportIds \ {r} : exportJobs'[u] = exportJobs[u]
    BY <1>1, <1>11 DEF StartExportJob, ExportTables
  <2>7. Backed(r)' BY <2>2, <2>5 DEF Backed
  <2>8. Build(b)' BY <1>9, <2>2, <2>5 DEF Build, Unclaimed, Running
  <2>9. next.step \in Unclaimed /\ next.r \in {0, r} BY <2>2 DEF Unclaimed
  <2>10. \A c \in Builders \ {b} : builder[c].r = r /\ builder[c].step \in Running =>
           r \in met' \/ next.step \in Unclaimed
    BY <2>9
  <2>11. Settled(export[r]) => objs = stored[r] /\ next.step \in Unclaimed BY <1>5, <2>9
  <2> QED BY <1>2, <1>3, <1>6, <1>7, <1>8, <2>3, <2>4, <2>6, <2>7, <2>8, <2>9, <2>10, <2>11, StayStep
<1> QED BY <1>10, <1>11

Begun(r) == [step |-> "find", r |-> r, job |-> FALSE, loaded |-> NoExport]

LEMMA BegunIsRow ==
  ASSUME NEW r \in ExportIds
  PROVE  /\ Begun(r) \in BuilderRow
         /\ [[NotBuilding EXCEPT !.step = "find"] EXCEPT !.r = r] = Begun(r)
<1>1. Begun(r) \in BuilderRow BY DEF Begun, BuilderRow, ExportIds, Unclaimed
<1>2. [[NotBuilding EXCEPT !.step = "find"] EXCEPT !.r = r] = Begun(r)
  <2>1. PICK x : x = [[NotBuilding EXCEPT !.step = "find"] EXCEPT !.r = r] OBVIOUS
  <2>2. x.step = "find" /\ x.r = r /\ x.job = FALSE /\ x.loaded = NoExport
    BY <2>1, NotBuildingIsRow DEF BuilderRow, NotBuilding
  <2>3. DOMAIN x = {"step", "r", "job", "loaded"} /\ x = [f \in DOMAIN x |-> x[f]]
    BY <2>1 DEF NotBuilding
  <2>4. x = [step |-> x.step, r |-> x.r, job |-> x.job, loaded |-> x.loaded] BY <2>3
  <2> QED BY <2>1, <2>2, <2>4 DEF Begun
<1> QED BY <1>1, <1>2

\* Under the lock of the user row, a request is made and its job queued.
LEMMA ExportAskStep ==
  ASSUME ExportsInv, NEW r \in ExportIds, NEW staff \in BOOLEAN, CreateExport(r, staff),
         builder' \in [Builders -> BuilderRow],
         \A c \in Builders : \/ builder'[c] = builder[c]
                             \/ builder[c] = NotBuilding /\ builder'[c] = Begun(r),
         UNCHANGED <<erasedPerson, stored, purge, mishaps, met, parked, refused>>
  PROVE  ExportsInv'
<1> USE ExportsAssumption
<1>1. ExportTables /\ Request(r) BY DEF ExportsInv
<1>2. PICK n \in 0..MaxExports : AskedFor = 1..n BY <1>1 DEF ExportTables
<1>3. r = n + 1 /\ r \notin AskedFor /\ r \in 1..MaxExports
  <2>1. Cardinality(AskedFor) = n BY <1>2, FS_Interval
  <2> QED BY <1>2, <2>1 DEF CreateExport, ExportIds
<1>4. PICK row : row = [staff |-> staff, status |-> "requested", key |-> FALSE, lapsed |-> FALSE,
                        again |-> FALSE]
  OBVIOUS
<1>5. row \in ExportRow BY <1>4 DEF ExportRow, ExportStatuses
<1>6. /\ export' \in [ExportIds -> ExportRow \cup {NoExport}] /\ export'[r] = row
      /\ \A u \in ExportIds \ {r} : export'[u] = export[u]
  BY <1>1, <1>4, <1>5 DEF CreateExport, ExportTables
<1>7. /\ exportJobs' \in [ExportIds -> Nat] /\ exportJobs'[r] = 1
      /\ \A u \in ExportIds \ {r} : exportJobs'[u] = exportJobs[u]
  BY <1>1, <1>3 DEF CreateExport, ExportTables, Request
<1>8. AskedFor' = AskedFor \cup {r}
  <2>1. row # NoExport BY <1>5
  <2> QED BY <1>6, <2>1 DEF AskedFor
<1>9. AskedFor' = 1..(n + 1) /\ n + 1 \in 0..MaxExports BY <1>2, <1>3, <1>8
<1>10. Only(r)
  <2>1. NotBuilding.r = 0 /\ Begun(r).r = r BY NotBuildingIsRow DEF Begun
  <2>2. \A c \in Builders : \/ builder'[c] = builder[c]
                            \/ builder[c].r \in {0, r} /\ builder'[c].r \in {0, r}
    BY <2>1
  <2> QED BY <1>6, <1>7, <2>2 DEF Only
<1>11. ExportTables' BY <1>1, <1>6, <1>7, <1>8, <1>9 DEF ExportTables
<1>12. Request(r)'
  <2>1. stored[r] = {} /\ purge[r] = NoExport BY <1>1, <1>3 DEF Request
  <2>2. row.status = "requested" /\ ~Settled(row) BY <1>4 DEF Settled
  <2>3. Backed(r)' BY <1>7 DEF Backed
  <2> QED BY <1>3, <1>6, <1>8, <2>1, <2>2, <2>3 DEF Request, isDownloadable
<1>13. ASSUME NEW c \in Builders PROVE Build(c)'
  <2>1. CASE builder'[c] = builder[c]
    <3>1. builder[c].r # r
      BY <1>3, NotBuildingIsRow DEF ExportsInv, Build
    <3> QED BY <1>10, <2>1, <3>1, BuildElsewhere
  <2>2. CASE builder'[c] = Begun(r)
    <3>1. r \in AskedFor' BY <1>8
    <3> QED BY <2>2, <3>1 DEF Build, Begun, Unclaimed, Running
  <2> QED BY <2>1, <2>2
<1>14. OneInProgress'
  <2>1. \A u \in AskedFor : export[u].staff = staff => ~Buildable(export[u].status)
    BY DEF CreateExport, ActiveExports, Buildable
  <2>2. row.staff = staff BY <1>4
  <2> QED BY <1>6, <1>10, <2>1, <2>2, ProgressStep
<1>15. \A u \in ExportIds : Request(u)' BY <1>10, <1>12, RequestElsewhere
<1> QED BY <1>11, <1>13, <1>14, <1>15 DEF ExportsInv

LEMMA AskSteps ==
  ASSUME ExportsInv, NEW r \in ExportIds,
         RequestExport(r) \/ \E b \in Builders : StartExport(b, r)
  PROVE  ExportsInv'
<1> USE ExportsAssumption
<1>1. ExportTables /\ Request(r) BY DEF ExportsInv
<1>2. CASE RequestExport(r)
  <2>1. builder' \in [Builders -> BuilderRow] /\ builder' = builder
    BY <1>1, <1>2 DEF RequestExport, ExportTables
  <2>2. /\ CreateExport(r, FALSE)
        /\ UNCHANGED <<erasedPerson, stored, purge, mishaps, met, parked, refused>>
    BY <1>2 DEF RequestExport
  <2> QED BY <2>1, <2>2, ExportAskStep
<1>3. ASSUME NEW b \in Builders, StartExport(b, r) PROVE ExportsInv'
  <2>1. builder' = [builder EXCEPT ![b] = Begun(r)] /\ builder[b] = NotBuilding
    BY <1>1, <1>3, BegunIsRow DEF StartExport, ExportTables
  <2>2. /\ builder' \in [Builders -> BuilderRow] /\ builder'[b] = Begun(r)
        /\ \A c \in Builders \ {b} : builder'[c] = builder[c]
    BY <1>1, <2>1, BegunIsRow DEF ExportTables
  <2>3. UNCHANGED <<erasedPerson, stored, purge, mishaps, met, parked, refused>>
    BY <1>3 DEF StartExport
  <2>4. CASE CreateExport(r, TRUE)
    <3>1. \A c \in Builders : \/ builder'[c] = builder[c]
                              \/ builder[c] = NotBuilding /\ builder'[c] = Begun(r)
      BY <2>1, <2>2
    <3> QED BY <2>2, <2>3, <2>4, <3>1, ExportAskStep
  <2>5. CASE r \in ActiveExports(TRUE) /\ UNCHANGED <<export, exportJobs>>
    <3>1. r \in AskedFor /\ Buildable(export[r].status) BY <2>5 DEF ActiveExports, Buildable
    <3>2. PICK objs : objs = stored[r] OBVIOUS
    <3>3. /\ objs \in SUBSET {"json", "zip"} /\ stored' = [stored EXCEPT ![r] = objs]
          /\ stored[r] \subseteq objs /\ ("json" \in objs => export[r].staff)
      BY <1>1, <2>3, <3>1, <3>2 DEF ExportTables, Request
    <3>4. builder[b].r \in {0, r} /\ Begun(r).r \in {0, r} /\ Begun(r).step \in Unclaimed
      BY <2>1, NotBuildingIsRow DEF Begun, Unclaimed
    <3>5. /\ met' \in {met, met \cup {r}} /\ parked' \in {parked, parked \cup {r}}
          /\ UNCHANGED <<export, purge, refused, erasedPerson>> /\ mishaps' \in 0..MaxMishaps
          /\ exportJobs' \in [ExportIds -> Nat]
          /\ \A u \in ExportIds \ {r} : exportJobs'[u] = exportJobs[u]
      BY <1>1, <2>3, <2>5 DEF ExportTables
    <3>6. /\ \A c \in Builders \ {b} : builder[c].r = r /\ builder[c].step \in Running =>
               r \in met' \/ Begun(r).step \in Unclaimed
          /\ Settled(export[r]) => objs = stored[r] /\ Begun(r).step \in Unclaimed
      BY <3>2, <3>4
    <3>7. Backed(r) => Backed(r)'
      <4>1. \A c \in Builders : builder[c].r = r /\ builder[c].job => c # b
        BY <2>1, NotBuildingIsRow
      <4> QED BY <2>2, <2>5, <4>1 DEF Backed
    <3>8. Buildable(export[r].status) /\ r \notin met' \cup parked' => Backed(r)'
      BY <1>1, <2>3, <3>1, <3>7 DEF Request
    <3>9. Build(b)'
      <4>1. r \in AskedFor' BY <2>5, <3>1 DEF AskedFor
      <4> QED BY <2>2, <4>1 DEF Build, Begun, Unclaimed, Running
    <3> QED BY <2>1, <3>1, <3>3, <3>4, <3>5, <3>6, <3>8, <3>9, BegunIsRow, StayStep
  <2> QED BY <1>3, <2>4, <2>5 DEF StartExport
<1> QED BY <1>2, <1>3

\* While nobody has a request in hand, nobody notices what becomes of it.
LEMMA Unnoticed ==
  ASSUME ExportsInv, NEW r \in AskedFor, r \in AskedFor', Only(r), builder' = builder,
         \A c \in Builders : builder[c].r = r => builder[c].step = "find"
  PROVE  \A c \in Builders : Build(c)'
<1> SUFFICES ASSUME NEW c \in Builders PROVE Build(c)' OBVIOUS
<1>1. r \in ExportIds BY DEF AskedFor
<1>2. CASE builder[c].r # r BY <1>1, <1>2, BuildElsewhere
<1>3. CASE builder[c].r = r BY <1>3 DEF Build, Unclaimed, Running
<1> QED BY <1>2, <1>3

LEMMA PurgeObjectsStep ==
  ASSUME ExportsInv, NEW r \in ExportIds, PurgeObjects(r)
  PROVE  ExportsInv'
<1> USE ExportsAssumption
<1>1. ExportTables /\ Request(r) BY DEF ExportsInv
<1>2. purge[r] # NoExport /\ purge[r] \in LoadedToPurge
  BY <1>1 DEF PurgeObjects, DeletingObjects, ExportTables
<1>3. /\ r \in AskedFor /\ purge[r].row = export[r] /\ Purgeable(export[r])
      /\ "json" \in stored[r] => export[r].staff
      /\ export[r].status = "completed" => export[r].key
  BY <1>1, <1>2 DEF Request
<1>4. Settled(export[r]) BY <1>3 DEF Purgeable, Settled
<1>5. \A c \in Builders : builder[c].r = r => builder[c].step = "find"
  BY <1>1, <1>3, <1>4 DEF Request
<1>6. PICK p : p = [purge[r] EXCEPT !.step = "row"] OBVIOUS
<1>7. p \in LoadedToPurge /\ p.row = export[r] BY <1>2, <1>3, <1>6 DEF LoadedToPurge
<1>8. /\ purge' = [purge EXCEPT ![r] = p]
      /\ UNCHANGED <<erasedPerson, export, exportJobs, builder, met, parked>>
  BY <1>1, <1>6 DEF PurgeObjects, ExportTables
<1>9. /\ purge' \in [ExportIds -> LoadedToPurge \cup {NoExport}] /\ purge'[r] = p
      /\ \A u \in ExportIds \ {r} : purge'[u] = purge[u]
  BY <1>1, <1>7, <1>8 DEF ExportTables
<1>10. /\ stored' \in [ExportIds -> SUBSET {"json", "zip"}] /\ stored'[r] \subseteq stored[r]
       /\ stored'[r] = {} \/ r \in refused'
       /\ \A u \in ExportIds \ {r} : stored'[u] = stored[u]
       /\ refused' \in {refused, refused \cup {r}} /\ mishaps' \in 0..MaxMishaps
  <2>1. CASE /\ stored' = [stored EXCEPT ![r] = @ \ ObjectsOf(purge[r].row)]
             /\ UNCHANGED <<mishaps, refused>>
    <3>1. stored'[r] = stored[r] \ ObjectsOf(export[r]) BY <1>1, <1>3, <2>1 DEF ExportTables
    <3>2. stored[r] \subseteq {"json", "zip"} BY <1>1 DEF ExportTables
    <3>3. export[r].key /\ ("json" \in stored[r] => export[r].staff) BY <1>3 DEF Purgeable
    <3>4. stored'[r] = {} BY <3>1, <3>2, <3>3 DEF ObjectsOf
    <3> QED BY <1>1, <2>1, <3>4 DEF ExportTables
  <2>2. CASE Mishap /\ refused' = refused \cup {r} /\ UNCHANGED stored
    BY <1>1, <2>2 DEF ExportTables, Mishap
  <2> QED BY <2>1, <2>2 DEF PurgeObjects
<1>11. AskedFor' = AskedFor BY <1>8 DEF AskedFor
<1>12. Only(r) BY <1>8, <1>9, <1>10 DEF Only
<1>13. ExportTables' BY <1>1, <1>3, <1>8, <1>9, <1>10, <1>11 DEF ExportTables
<1>14. Request(r)'
  <2>1. ~isDownloadable(r)' /\ export[r].status # "expired" /\ ~Buildable(export[r].status)
    BY <1>3, <1>8 DEF isDownloadable, Purgeable, Buildable
  <2>2. "json" \in stored'[r] => export[r].staff BY <1>3, <1>10
  <2> QED BY <1>3, <1>5, <1>7, <1>8, <1>9, <1>10, <1>11, <2>1, <2>2 DEF Request
<1>15. \A c \in Builders : Build(c)' BY <1>3, <1>5, <1>8, <1>11, <1>12, Unnoticed
<1>16. OneInProgress' BY <1>8, <1>11 DEF ExportsInv, OneInProgress
<1>17. \A u \in ExportIds : Request(u)' BY <1>12, <1>14, RequestElsewhere
<1> QED BY <1>13, <1>15, <1>16, <1>17 DEF ExportsInv

LEMMA PurgeRowStep ==
  ASSUME ExportsInv, NEW r \in ExportIds, PurgeRow(r)
  PROVE  ExportsInv'
<1> USE ExportsAssumption
<1>1. ExportTables /\ Request(r) BY DEF ExportsInv
<1>2. purge[r] # NoExport /\ purge[r] \in LoadedToPurge /\ purge[r].step = "row"
  BY <1>1 DEF PurgeRow, DeletingObjects, ExportTables, LoadedToPurge
<1>3. /\ r \in AskedFor /\ purge[r].row = export[r] /\ Purgeable(export[r])
      /\ stored[r] = {} \/ r \in refused
      /\ "json" \in stored[r] => export[r].staff
  BY <1>1, <1>2 DEF Request
<1>4. Settled(export[r]) /\ export[r] \in ExportRow
  BY <1>1, <1>3 DEF Purgeable, Settled, ExportTables, AskedFor
<1>5. \A c \in Builders : builder[c].r = r => builder[c].step = "find"
  BY <1>1, <1>3, <1>4 DEF Request
<1>6. PICK columns : columns = [status |-> "expired", key |-> FALSE] OBVIOUS
<1>7. PICK row : row = Saved(export[r], export[r], columns) OBVIOUS
<1>8. ExportColumns(columns) BY <1>6 DEF ExportColumns, ExportStatuses
<1>9. WrittenOver(row, export[r], export[r], columns) BY <1>4, <1>7, <1>8, SavedExport
<1>10. row \in ExportRow /\ row.staff = export[r].staff /\ row.status = "expired"
  BY <1>3, <1>6, <1>9 DEF WrittenOver, Purgeable
<1>11. /\ export' = [export EXCEPT ![r] = row] /\ purge' = [purge EXCEPT ![r] = NoExport]
       /\ UNCHANGED <<erasedPerson, stored, exportJobs, builder, mishaps, met, parked, refused>>
  BY <1>1, <1>3, <1>6, <1>7 DEF PurgeRow, ExportTables
<1>12. /\ export' \in [ExportIds -> ExportRow \cup {NoExport}] /\ export'[r] = row
       /\ \A u \in ExportIds \ {r} : export'[u] = export[u]
  BY <1>1, <1>10, <1>11 DEF ExportTables
<1>13. /\ purge' \in [ExportIds -> LoadedToPurge \cup {NoExport}] /\ purge'[r] = NoExport
       /\ \A u \in ExportIds \ {r} : purge'[u] = purge[u]
  BY <1>1, <1>11 DEF ExportTables
<1>14. AskedFor' = AskedFor
  <2>1. row # NoExport BY <1>10
  <2> QED BY <1>3, <1>12, <2>1 DEF AskedFor
<1>15. Only(r) BY <1>11, <1>12, <1>13 DEF Only
<1>16. ExportTables' BY <1>1, <1>11, <1>12, <1>13, <1>14 DEF ExportTables
<1>17. Request(r)'
  BY <1>3, <1>5, <1>10, <1>11, <1>12, <1>13, <1>14 DEF Request, isDownloadable, Buildable
<1>18. \A c \in Builders : Build(c)' BY <1>3, <1>5, <1>11, <1>14, <1>15, Unnoticed
<1>19. OneInProgress' BY <1>10, <1>12, <1>15, ProgressStep DEF Buildable
<1>20. \A u \in ExportIds : Request(u)' BY <1>15, <1>17, RequestElsewhere
<1> QED BY <1>16, <1>18, <1>19, <1>20 DEF ExportsInv

LEMMA LapseStep ==
  ASSUME ExportsInv, NEW r \in ExportIds, Lapse(r)
  PROVE  ExportsInv'
<1> USE ExportsAssumption
<1>1. ExportTables /\ Request(r) BY DEF ExportsInv
<1>2. r \in AskedFor /\ export[r] \in ExportRow /\ ~export[r].lapsed
  BY <1>1 DEF Lapse, ExportTables, AskedFor
<1>3. \A c \in Builders : builder[c].r = r => builder[c].step = "find"
  BY DEF Lapse, InHand
<1>4. purge[r] = NoExport BY <1>1, <1>2 DEF Request, Purgeable
<1>5. PICK row : row = [export[r] EXCEPT !.lapsed = TRUE] OBVIOUS
<1>6. /\ row \in ExportRow /\ row.staff = export[r].staff /\ row.status = export[r].status
      /\ row.key = export[r].key /\ row.again = export[r].again /\ row.lapsed
  BY <1>2, <1>5 DEF ExportRow
<1>7. /\ export' = [export EXCEPT ![r] = row]
      /\ UNCHANGED <<erasedPerson, stored, exportJobs, builder, purge, mishaps, met,
                     parked, refused>>
  BY <1>1, <1>5 DEF Lapse, ExportTables
<1>8. /\ export' \in [ExportIds -> ExportRow \cup {NoExport}] /\ export'[r] = row
      /\ \A u \in ExportIds \ {r} : export'[u] = export[u]
  BY <1>1, <1>6, <1>7 DEF ExportTables
<1>9. AskedFor' = AskedFor
  <2>1. row # NoExport BY <1>6
  <2> QED BY <1>2, <1>8, <2>1 DEF AskedFor
<1>10. Only(r) BY <1>7, <1>8 DEF Only
<1>11. ExportTables' BY <1>1, <1>7, <1>8, <1>9 DEF ExportTables
<1>12. Backed(r)' <=> Backed(r) BY <1>7 DEF Backed
<1>13. Request(r)'
  BY <1>1, <1>2, <1>3, <1>4, <1>6, <1>7, <1>8, <1>9, <1>12 DEF Request, isDownloadable
<1>14. \A c \in Builders : Build(c)' BY <1>2, <1>3, <1>7, <1>9, <1>10, Unnoticed
<1>15. OneInProgress' BY <1>2, <1>6, <1>7, <1>8, <1>10, ProgressStep
<1>16. \A u \in ExportIds : Request(u)' BY <1>10, <1>13, RequestElsewhere
<1> QED BY <1>11, <1>14, <1>15, <1>16 DEF ExportsInv

\* The purge loads the rows or is killed, and an account is deleted.
LEMMA AsideStep ==
  ASSUME ExportsInv, StartPurge \/ KillPurge \/ ErasePerson \/ UNCHANGED exportVars
  PROVE  ExportsInv'
<1> USE ExportsAssumption
<1>1. ExportTables BY DEF ExportsInv
<1>2. /\ UNCHANGED <<export, stored, exportJobs, builder, met, parked, refused>>
      /\ erasedPerson' \in BOOLEAN /\ mishaps' \in 0..MaxMishaps
  <2>1. CASE StartPurge \/ ErasePerson \/ UNCHANGED exportVars
    BY <1>1, <2>1 DEF StartPurge, ErasePerson, exportVars, ExportTables
  <2>2. CASE KillPurge BY <1>1, <2>2 DEF KillPurge, ExportTables, Mishap
  <2> QED BY <2>1, <2>2
<1>3. ASSUME NEW r \in ExportIds
      PROVE  /\ purge'[r] \in LoadedToPurge \cup {NoExport}
             /\ \/ purge'[r] = purge[r] \/ purge'[r] = NoExport
                \/ /\ r \in AskedFor /\ Purgeable(export[r])
                   /\ purge'[r].row = export[r] /\ purge'[r].step # "row"
  <2>1. CASE StartPurge
    <3>1. CASE r \in AskedFor /\ Purgeable(export[r])
      <4>1. export[r] \in ExportRow BY <1>1, <3>1 DEF ExportTables, AskedFor
      <4>2. purge'[r] = [row |-> export[r], step |-> "objects"] BY <2>1, <3>1 DEF StartPurge
      <4> QED BY <3>1, <4>1, <4>2 DEF LoadedToPurge
    <3>2. CASE ~(r \in AskedFor /\ Purgeable(export[r])) BY <2>1, <3>2 DEF StartPurge
    <3> QED BY <3>1, <3>2
  <2>2. CASE KillPurge BY <2>2 DEF KillPurge
  <2>3. CASE ErasePerson \/ UNCHANGED exportVars
    BY <1>1, <2>3 DEF ErasePerson, exportVars, ExportTables
  <2> QED BY <2>1, <2>2, <2>3
<1>4. purge' \in [ExportIds -> LoadedToPurge \cup {NoExport}]
  <2>1. CASE StartPurge \/ KillPurge
    <3>1. purge' = [r \in ExportIds |-> purge'[r]] BY <2>1 DEF StartPurge, KillPurge
    <3> QED BY <1>3, <3>1
  <2>2. CASE ErasePerson \/ UNCHANGED exportVars
    BY <1>1, <2>2 DEF ErasePerson, exportVars, ExportTables
  <2> QED BY <2>1, <2>2
<1>5. AskedFor' = AskedFor BY <1>2 DEF AskedFor
<1>6. ExportTables' BY <1>1, <1>2, <1>4, <1>5 DEF ExportTables
<1>7. ASSUME NEW r \in ExportIds PROVE Request(r)'
  <2>1. Request(r) BY DEF ExportsInv
  <2>2. (Backed(r)' <=> Backed(r)) /\ (isDownloadable(r)' <=> isDownloadable(r))
    BY <1>2 DEF Backed, isDownloadable
  <2> QED BY <1>2, <1>3, <1>5, <2>1, <2>2 DEF Request
<1>8. ASSUME NEW c \in Builders PROVE Build(c)'
  BY <1>2, <1>5 DEF ExportsInv, Build
<1>9. OneInProgress' BY <1>2, <1>5 DEF ExportsInv, OneInProgress
<1> QED BY <1>6, <1>7, <1>8, <1>9 DEF ExportsInv

\* What exports promise holds at any moment, for any number of requests, runs
\* and jobs, whatever throws, is refused or is killed: what can be downloaded
\* is whole, one is in progress for the person and one for staff, nothing is
\* left of one that has expired, and a job is behind one that is waited for.
THEOREM ExportsHold == ExportsSpec => []ExportsSafe
<1>1. ExportsInit => ExportsInv
  <2> USE ExportsAssumption
  <2>1. SUFFICES ASSUME ExportsInit PROVE ExportsInv OBVIOUS
  <2>2. AskedFor = {} /\ AskedFor = 1..0 BY <2>1 DEF ExportsInit, AskedFor
  <2>3. builder \in [Builders -> BuilderRow] BY <2>1, NotBuildingIsRow DEF ExportsInit
  <2>4. ExportTables
    <3>1. \E n \in 0..MaxExports : AskedFor = 1..n
      <4>1. 0 \in 0..MaxExports OBVIOUS
      <4> QED BY <2>2, <4>1
    <3>2. mishaps \in 0..MaxMishaps BY <2>1 DEF ExportsInit
    <3> QED BY <2>1, <2>2, <2>3, <3>1, <3>2 DEF ExportsInit, ExportTables
  <2>5. ASSUME NEW r \in ExportIds PROVE Request(r)
    BY <2>1, <2>2 DEF ExportsInit, Request
  <2>6. ASSUME NEW b \in Builders PROVE Build(b)
    BY <2>1, NotBuildingIsRow DEF ExportsInit, Build, Unclaimed, Running
  <2>7. OneInProgress BY <2>2 DEF OneInProgress
  <2> QED BY <2>4, <2>5, <2>6, <2>7 DEF ExportsInv
<1>2. ExportsInv /\ [ExportsNext]_exportVars => ExportsInv'
  <2>1. SUFFICES ASSUME ExportsInv, [ExportsNext]_exportVars PROVE ExportsInv' OBVIOUS
  <2>2. ASSUME NEW b \in Builders, BuilderStep(b) \/ FailExport(b) \/ KillBuilder(b)
        PROVE  ExportsInv'
    <3>1. CASE BuilderStep(b)
      BY <2>1, <3>1, RetryStep, FindStep, BeginStepOfBuild, PlaceStep, CompleteStep, RunEndsSteps
      DEF BuilderStep
    <3> QED BY <2>1, <2>2, <3>1, RunEndsSteps
  <2>3. ASSUME NEW b \in Builders, NEW r \in ExportIds,
               StartExport(b, r) \/ StartRetryExport(b, r) \/ StartExportJob(b, r)
        PROVE  ExportsInv'
    BY <2>1, <2>3, AskSteps, TakeUpSteps
  <2>4. ASSUME NEW r \in ExportIds, RequestExport(r) \/ PurgeStep(r) \/ Lapse(r)
        PROVE  ExportsInv'
    BY <2>1, <2>4, AskSteps, PurgeObjectsStep, PurgeRowStep, LapseStep DEF PurgeStep
  <2>5. CASE StartPurge \/ KillPurge \/ ErasePerson \/ UNCHANGED exportVars
    BY <2>1, <2>5, AsideStep
  <2> QED BY <2>1, <2>2, <2>3, <2>4, <2>5 DEF ExportsNext
<1>3. ExportsInv => ExportsSafe
  <2>1. SUFFICES ASSUME ExportsInv PROVE ExportsSafe OBVIOUS
  <2>2. AskedFor \subseteq ExportIds /\ \A r \in ExportIds : Request(r)
    BY <2>1 DEF ExportsInv, AskedFor
  <2>3. ExportTypeOK
    BY <2>1, <2>2 DEF ExportsInv, ExportTables, Request, ExportTypeOK, AskedFor
  <2>4. DownloadsWork BY <2>2 DEF DownloadsWork, Request, Whole
  <2>5. ExpiredMeansGone BY <2>2 DEF ExpiredMeansGone, Request
  <2>6. SomethingIsBehindIt BY <2>2 DEF SomethingIsBehindIt, Request, Backed
  <2> QED BY <2>1, <2>3, <2>4, <2>5, <2>6 DEF ExportsInv, ExportsSafe
<1> QED BY <1>1, <1>2, <1>3, PTL DEF ExportsSpec

-----------------------------------------------------------------------------
(* What is kept about people. While a deletion runs, the rows it has       *)
(* reached stay where they are: it knows them until it commits. What it    *)
(* has passed by it has taken all there was to take of, and who it takes   *)
(* away it takes whole.                                                    *)

Covered(v, k) ==
  \A r \in held \ tardy :
    r.of = v /\ r.table = Erasers[k] /\ MustGo(r) => r \in erasing.doomed

People == {erasing.people[i] : i \in 1..Len(erasing.people)}

Reaches ==
  /\ erasing.doomed \subseteq held /\ erasing.bared \subseteq erasing.doomed
  /\ \A r \in erasing.bared : r.table = "activity"
  /\ (erasing.stage = "commit" <=> erasing.people = <<>>)
  /\ \A r \in erasing.doomed :
       /\ erasing.last \/ MustGo(r)
       /\ r.of \in here => erasing.last \/ r.of \in Leaving(erasing)

Complete ==
  /\ erasing.last => here \subseteq Leaving(erasing) \cup People
  /\ erasing.next > 1 =>
       /\ erasing.people # <<>>
       /\ Head(erasing.people) \in here => Head(erasing.people) \in Leaving(erasing)
  /\ \A v \in Leaving(erasing) :
       \/ \A k \in 1..Len(Erasers) : Covered(v, k)
       \/ /\ erasing.people # <<>> /\ v = Head(erasing.people)
          /\ \A k \in 1..(erasing.next - 1) : Covered(v, k)

Packing ==
  archive # NoRun /\ archive.stage = "pack" =>
    \A r \in archive.listed : IsFile(r) /\ r.of = archive.of /\ r \in held \cup adrift \cup taken

DataTables ==
  /\ here \subseteq Persons /\ unfinished \subseteq Persons
  /\ held \subseteq DataRows /\ pens \subseteq Kept
  /\ erasing \in ErasingRun \cup {NoRun} /\ archive \in ArchiveRun \cup {NoRun}
  /\ \A u \in here : Account(u) \in held

DataInv ==
  /\ DataTables /\ Packing
  /\ erasing # NoRun /\ erasing.stage # "objects" => Reaches /\ Complete
  /\ PersonalDataSafe

\* The community module's list of a set has each member in it.
LEMMA SetToSeqLists ==
  ASSUME NEW S, IsFiniteSet(S)
  PROVE  /\ SetToSeq(S) \in Seq(S)
         /\ \A x \in S : \E i \in 1..Len(SetToSeq(S)) : SetToSeq(S)[i] = x
<1> DEFINE n == Cardinality(S)
           s == SetToSeq(S)
<1>1. n \in Nat /\ ExistsBijection(1..n, S) BY FS_CardinalityType
<1>2. \E f \in [1..n -> S] : IsInjective(f)
  BY <1>1 DEF ExistsBijection, Bijection, Injection
<1>3. s \in [1..n -> S] /\ IsInjective(s) BY <1>2 DEF SetToSeq
<1>4. s \in Injection(1..n, S) BY <1>3 DEF Injection
<1>5. Cardinality(1..n) = n BY <1>1, FS_Interval
<1>6. s \in Surjection(1..n, S) BY <1>4, <1>5, FS_Injection
<1>7. s \in Seq(S) /\ Len(s) = n BY <1>1, <1>3
<1> QED BY <1>6, <1>7 DEF Surjection

\* A row keeps its table and its owner when it is stripped, and a row that
\* must go is in a table that an eraser is for.
LEMMA RowShape ==
  ASSUME NEW r \in DataRows
  PROVE  /\ r.of \in Persons /\ Bare(r) \in DataRows
         /\ Bare(r).of = r.of /\ Bare(r).table = r.table /\ Bare(r).what = "bare"
         /\ \/ \E k \in 1..8 : r.table = Erasers[k]
            \/ r.table \in Keepsakes
         /\ r.what \in What(r.table) \cup {"bare"}
<1> DEFINE Tables == {Erasers[k] : k \in DOMAIN Erasers} \cup Keepsakes
<1>1. PICK q \in Kept : r = q \/ r = Bare(q) BY DEF DataRows
<1>2. PICK t \in Tables : q \in {[table |-> t, of |-> u, what |-> w] : u \in Persons, w \in What(t)}
  BY DEF Kept
<1>3. PICK u \in Persons, w \in What(t) : q = [table |-> t, of |-> u, what |-> w] BY <1>2
<1>4. Bare(q) = [table |-> t, of |-> u, what |-> "bare"] BY <1>3 DEF Bare
<1>5. Bare(r) = Bare(q) BY <1>1, <1>3, <1>4 DEF Bare
<1>6. Bare(r) \in DataRows BY <1>5 DEF DataRows
<1>7. DOMAIN Erasers = 1..8 BY DEF Erasers
<1> QED BY <1>1, <1>3, <1>4, <1>5, <1>6, <1>7

\* What must go has an eraser.
LEMMA HasEraser ==
  ASSUME NEW r \in DataRows, MustGo(r)
  PROVE  /\ \E k \in 1..8 : r.table = Erasers[k]
         /\ r.table = "files" => r.what = "avatar"
         /\ r.table = "invitationsSent" => r.what = "pending"
         /\ r.table = "activity" => r.what = "traced"
         /\ r.table # "listsAndTodos"
<1> QED BY RowShape DEF MustGo, What, Keepsakes

LEMMA BareStays ==
  ASSUME NEW r \in DataRows, r.table = "activity"
  PROVE  ~ MustGo(Bare(r))
<1> QED BY RowShape DEF MustGo

-----------------------------------------------------------------------------
(* Steps beside the deletion.                                              *)

\* What a deletion knows stays true while others only add to the rows, and
\* what they add is known to be late.
LEMMA ErasingStays ==
  ASSUME erasing' = erasing, here' = here, held \subseteq held',
         held' \ tardy' \subseteq held \ tardy, Reaches, Complete
  PROVE  Reaches' /\ Complete'
<1>1. Leaving(erasing)' = Leaving(erasing) /\ People' = People BY DEF Leaving, People
<1>2. ASSUME NEW v, NEW k, Covered(v, k) PROVE Covered(v, k)'
  BY <1>2 DEF Covered, MustGo
<1>3. Reaches' BY <1>1 DEF Reaches, MustGo
<1>4. Complete' BY <1>1, <1>2 DEF Complete
<1> QED BY <1>3, <1>4

LEMMA LetInStep ==
  ASSUME DataInv, NEW r \in Kept, LetIn(r)
  PROVE  DataInv'
<1> USE DEF DataInv
<1>1. /\ pens' = pens \cup {r} /\ erasing' = erasing /\ here' = here /\ held' = held
      /\ objects' = objects /\ archive' = archive /\ unfinished' = unfinished
      /\ tardy' = tardy /\ taken' = taken /\ adrift' = adrift
  BY DEF LetIn, keepings, hindsight
<1>2. DataTables' BY <1>1 DEF DataTables
<1>3. Packing' BY <1>1 DEF Packing
<1>4. (erasing # NoRun /\ erasing.stage # "objects" => Reaches /\ Complete)'
  BY <1>1, ErasingStays
<1>5. PersonalDataSafe'
  BY <1>1 DEF PersonalDataSafe, NothingLeftBehind, OthersKeepTheirs, ObjectsFollowRows, ArchiveIsWhole
<1> QED BY <1>2, <1>3, <1>4, <1>5

LEMMA WriteStep ==
  ASSUME DataInv, NEW r \in Kept, Write(r)
  PROVE  DataInv'
<1> USE DEF DataInv
<1>1. /\ pens' = pens \ {r} /\ erasing' = erasing /\ here' = here /\ held' = held \cup {r}
      /\ objects' = IF IsFile(r) THEN objects \cup {r} ELSE objects
      /\ tardy' = IF erasing # NoRun \/ r.of \notin here THEN tardy \cup {r} ELSE tardy
      /\ archive' = archive /\ unfinished' = unfinished /\ taken' = taken /\ adrift' = adrift
  BY DEF Write, keepings, hindsight
<1>2. DataTables' BY <1>1 DEF DataTables, DataRows
<1>3. Packing' BY <1>1 DEF Packing
<1>4. (erasing # NoRun /\ erasing.stage # "objects" => Reaches /\ Complete)'
  <2>1. SUFFICES ASSUME erasing # NoRun, erasing.stage # "objects" PROVE Reaches' /\ Complete'
    BY <1>1
  <2>2. held \subseteq held' /\ held' \ tardy' \subseteq held \ tardy BY <1>1, <2>1
  <2> QED BY <1>1, <2>1, <2>2, ErasingStays
<1>5. NothingLeftBehind' BY <1>1 DEF PersonalDataSafe, NothingLeftBehind
<1>6. ObjectsFollowRows' BY <1>1 DEF PersonalDataSafe, ObjectsFollowRows
<1>7. OthersKeepTheirs' /\ ArchiveIsWhole' BY <1>1 DEF PersonalDataSafe, OthersKeepTheirs, ArchiveIsWhole
<1> QED BY <1>2, <1>3, <1>4, <1>5, <1>6, <1>7 DEF PersonalDataSafe

LEMMA DropUploadStep ==
  ASSUME DataInv, NEW r \in Kept, DropUpload(r)
  PROVE  DataInv'
<1> USE DEF DataInv
<1>1. /\ held' = held \ {r} /\ objects' = objects \ {r} /\ r.what = "upload" /\ erasing = NoRun
      /\ adrift' = IF archive # NoRun THEN adrift \cup {r} ELSE adrift
      /\ pens' = pens /\ erasing' = erasing /\ here' = here
      /\ archive' = archive /\ unfinished' = unfinished /\ taken' = taken /\ tardy' = tardy
  BY DEF DropUpload
<1>2. DataTables'
  <2>1. ASSUME NEW u \in here PROVE Account(u) # r BY <1>1 DEF Account
  <2> QED BY <1>1, <2>1 DEF DataTables, Account
<1>3. Packing' BY <1>1 DEF Packing
<1>4. PersonalDataSafe'
  BY <1>1 DEF PersonalDataSafe, NothingLeftBehind, OthersKeepTheirs, ObjectsFollowRows, ArchiveIsWhole
<1> QED BY <1>1, <1>2, <1>3, <1>4

LEMMA LoseObjectStep ==
  ASSUME DataInv, NEW r \in Kept, LoseObject(r)
  PROVE  DataInv'
<1> USE DEF DataInv
<1>1. /\ objects' = objects \ {r} /\ held' = held
      /\ pens' = pens /\ erasing' = erasing /\ here' = here /\ adrift' = adrift
      /\ archive' = archive /\ unfinished' = unfinished /\ taken' = taken /\ tardy' = tardy
  BY DEF LoseObject, hindsight
<1>2. DataTables' BY <1>1 DEF DataTables
<1>3. Packing' BY <1>1 DEF Packing
<1>4. (erasing # NoRun /\ erasing.stage # "objects" => Reaches /\ Complete)'
  BY <1>1, ErasingStays
<1>5. PersonalDataSafe'
  BY <1>1 DEF PersonalDataSafe, NothingLeftBehind, OthersKeepTheirs, ObjectsFollowRows, ArchiveIsWhole
<1> QED BY <1>2, <1>3, <1>4, <1>5

-----------------------------------------------------------------------------
(* The export.                                                             *)

LEMMA ArchiveSteps ==
  ASSUME DataInv,
         (\E u \in Persons : BeginArchive(u)) \/ ListUploads \/ PackUploads \/ EndArchive
  PROVE  DataInv'
<1> USE DEF DataInv
<1>1. /\ here' = here /\ held' = held /\ objects' = objects /\ pens' = pens
      /\ erasing' = erasing /\ unfinished' = unfinished /\ tardy' = tardy /\ taken' = taken
  BY DEF BeginArchive, ListUploads, PackUploads, EndArchive, keepings, hindsight
<1>2. (erasing # NoRun /\ erasing.stage # "objects" => Reaches /\ Complete)'
  BY <1>1, ErasingStays
<1>3. \A r \in objects : r \in adrift => r \in adrift'
  BY DEF BeginArchive, ListUploads, PackUploads, EndArchive, keepings, hindsight
<1>4. NothingLeftBehind' /\ OthersKeepTheirs' /\ ObjectsFollowRows'
  BY <1>1, <1>3 DEF PersonalDataSafe, NothingLeftBehind, OthersKeepTheirs, ObjectsFollowRows
<1>5. archive' \in ArchiveRun \cup {NoRun} /\ Packing' /\ ArchiveIsWhole'
  <2>1. ASSUME NEW u \in Persons, BeginArchive(u)
        PROVE  archive' \in ArchiveRun \cup {NoRun} /\ Packing' /\ ArchiveIsWhole'
    <3>1. archive' = [of |-> u, stage |-> "list", listed |-> {}, packed |-> {}, missing |-> {}]
      BY <2>1 DEF BeginArchive
    <3> QED BY <3>1 DEF ArchiveRun, Packing, ArchiveIsWhole
  <2>2. CASE ListUploads
    <3>1. PICK a : a = archive OBVIOUS
    <3>2. a \in ArchiveRun BY <2>2, <3>1 DEF ListUploads, DataTables
    <3>3. /\ archive' = [a EXCEPT !.stage = "pack", !.listed = uploadsOf(a.of)]
          /\ adrift' = adrift
      BY <2>2, <3>1 DEF ListUploads, hindsight
    <3>4. uploadsOf(a.of) \subseteq DataRows BY DEF uploadsOf, DataTables
    <3>5. archive' \in ArchiveRun BY <3>2, <3>3, <3>4 DEF ArchiveRun
    <3>6. archive'.stage = "pack" /\ archive'.of = a.of /\ archive'.listed = uploadsOf(a.of)
      BY <3>2, <3>3 DEF ArchiveRun
    <3> QED BY <1>1, <3>3, <3>5, <3>6 DEF Packing, ArchiveIsWhole, uploadsOf
  <2>3. CASE PackUploads
    <3>1. PICK a : a = archive OBVIOUS
    <3>2. a \in ArchiveRun /\ a.stage = "pack" BY <2>3, <3>1 DEF PackUploads, DataTables
    <3>3. /\ archive' = [a EXCEPT !.stage = "done", !.packed = uploadsOf(a.of) \cap objects,
                                  !.missing = Missing(uploadsOf(a.of))]
          /\ adrift' = adrift
      BY <2>3, <3>1 DEF PackUploads, hindsight
    <3>4. uploadsOf(a.of) \subseteq DataRows /\ Missing(uploadsOf(a.of)) \subseteq DataRows
      BY DEF uploadsOf, DataTables, Missing
    <3>5. archive' \in ArchiveRun BY <3>2, <3>3, <3>4 DEF ArchiveRun
    <3>6. /\ archive'.stage = "done" /\ archive'.listed = a.listed
          /\ archive'.packed = uploadsOf(a.of) \cap objects
          /\ archive'.missing = Missing(uploadsOf(a.of))
      BY <3>2, <3>3 DEF ArchiveRun
    <3>7. \A r \in a.listed : IsFile(r) /\ r.of = a.of /\ r \in held \cup adrift \cup taken
      BY <2>3, <3>1, <3>2 DEF Packing, PackUploads
    <3> QED BY <1>1, <3>3, <3>5, <3>6, <3>7 DEF Packing, ArchiveIsWhole, uploadsOf, Missing
  <2>4. CASE EndArchive BY <2>4 DEF EndArchive, Packing, ArchiveIsWhole
  <2> QED BY <2>1, <2>2, <2>3, <2>4
<1>6. DataTables' BY <1>1, <1>5 DEF DataTables
<1> QED BY <1>2, <1>4, <1>5, <1>6 DEF PersonalDataSafe

-----------------------------------------------------------------------------
(* The deletion.                                                           *)

LEMMA BeginErasingStep ==
  ASSUME DataInv, NEW u \in Persons, BeginErasing(u)
  PROVE  DataInv'
<1> USE DEF DataInv
<1> DEFINE others == IF u = Boss THEN here \ {u} ELSE {}
           order == Append(SetToSeq(others), u)
           last == others # {} \/ here \ {u} = {}
<1>1. /\ erasing' = [stage |-> "statements", whose |-> u, people |-> order, next |-> 1,
                     last |-> last, doomed |-> {}, bared |-> {}]
      /\ erasing = NoRun /\ here' = here /\ held' = held /\ objects' = objects
      /\ pens' = pens /\ archive' = archive /\ unfinished' = unfinished
      /\ tardy' = tardy /\ taken' = taken /\ adrift' = adrift
  BY DEF BeginErasing, keepings, hindsight
<1>2. IsFiniteSet(others) /\ others \subseteq Persons
  <2>1. others \in SUBSET Persons BY DEF DataTables
  <2>2. IsFiniteSet(Persons) BY PersonalDataAssumption
  <2> HIDE DEF others
  <2> QED BY <2>1, <2>2, FS_Subset
<1>3. /\ SetToSeq(others) \in Seq(Persons)
      /\ \A v \in others : \E i \in 1..Len(SetToSeq(others)) : SetToSeq(others)[i] = v
  <2> HIDE DEF others
  <2>1. /\ SetToSeq(others) \in Seq(others)
        /\ \A v \in others : \E i \in 1..Len(SetToSeq(others)) : SetToSeq(others)[i] = v
    BY <1>2, SetToSeqLists
  <2>2. SetToSeq(others) \in Seq(Persons)
    <3>1. PICK s : s = SetToSeq(others) OBVIOUS
    <3>2. s \in Seq(others) /\ others \subseteq Persons BY <1>2, <2>1, <3>1
    <3>3. s \in Seq(Persons) BY <3>2
    <3> QED BY <3>1, <3>3
  <2> QED BY <2>1, <2>2
<1>4. /\ order \in Seq(Persons) /\ order # <<>> /\ order[Len(order)] = u
      /\ Len(order) = Len(SetToSeq(others)) + 1
      /\ \A i \in 1..Len(SetToSeq(others)) : order[i] = SetToSeq(others)[i]
  <2> HIDE DEF others
  <2>1. PICK s \in Seq(Persons) : s = SetToSeq(others) BY <1>3
  <2>2. /\ Append(s, u) \in Seq(Persons) /\ Append(s, u) # <<>>
        /\ Len(Append(s, u)) = Len(s) + 1 /\ Append(s, u)[Len(s) + 1] = u
        /\ \A i \in 1..Len(s) : Append(s, u)[i] = s[i]
    OBVIOUS
  <2> QED BY <2>1, <2>2
<1>5. last => \A v \in here : \E i \in 1..Len(order) : order[i] = v
  <2>1. SUFFICES ASSUME last, NEW v \in here PROVE \E i \in 1..Len(order) : order[i] = v
    OBVIOUS
  <2>2. v = u \/ v \in others BY <2>1
  <2>3. CASE v = u BY <1>3, <1>4, <2>3
  <2>4. CASE v \in others
    <3>1. PICK i \in 1..Len(SetToSeq(others)) : SetToSeq(others)[i] = v BY <1>3, <2>4
    <3>2. i \in 1..Len(order) BY <1>3, <1>4
    <3> QED BY <1>4, <3>1, <3>2
  <2> QED BY <2>2, <2>3, <2>4
<1> HIDE DEF others, order
<1>6. 1 \in 1..Len(Erasers) BY DEF Erasers
<1>7. erasing' \in ErasingRun BY <1>1, <1>4, <1>6 DEF ErasingRun
<1>8. /\ erasing'.doomed = {} /\ erasing'.bared = {} /\ erasing'.stage = "statements"
      /\ erasing'.people = order /\ erasing'.next = 1 /\ erasing'.last = last
  BY <1>1
<1>9. DataTables' BY <1>1, <1>7 DEF DataTables
<1>10. Reaches' BY <1>4, <1>8 DEF Reaches
<1>11. Complete'
  <2>1. Leaving(erasing)' = {} BY <1>8 DEF Leaving
  <2>2. last => here \subseteq People' BY <1>5, <1>8 DEF People
  <2>3. erasing'.last => here' \subseteq People' BY <1>1, <1>8, <2>2
  <2>4. ~ (erasing'.next > 1) BY <1>8
  <2> QED BY <2>1, <2>3, <2>4 DEF Complete
<1>12. Packing' BY <1>1 DEF Packing
<1>13. PersonalDataSafe'
  BY <1>1 DEF PersonalDataSafe, NothingLeftBehind, OthersKeepTheirs, ObjectsFollowRows, ArchiveIsWhole
<1> QED BY <1>9, <1>10, <1>11, <1>12, <1>13

\* A statement reaches what it is for, and without a last member nothing else.
LEMMA StatementReaches ==
  ASSUME NEW r \in DataRows, NEW u, NEW k \in 1..8, NEW last \in BOOLEAN
  PROVE  /\ MustGo(r) /\ r.of = u /\ r.table = Erasers[k] =>
              Reached(r, u, Erasers[k], last, OriginalEmail(u))
         /\ Reached(r, u, Erasers[k], last, OriginalEmail(u)) =>
              /\ r.table = Erasers[k]
              /\ last \/ (MustGo(r) /\ r.of = u)
<1>1. Erasers[k] \in {"profile", "connectedAccounts", "authTokens", "files", "invitationsSent",
                      "activity", "listsAndTodos", "waitingList"}
  BY DEF Erasers
<1>2. ASSUME MustGo(r), r.of = u, r.table = Erasers[k]
      PROVE  Reached(r, u, Erasers[k], last, OriginalEmail(u))
  BY <1>1, <1>2, HasEraser DEF Reached, OriginalEmail
<1>3. ASSUME Reached(r, u, Erasers[k], last, OriginalEmail(u)), ~ last
      PROVE  MustGo(r) /\ r.of = u
  BY <1>1, <1>3 DEF Reached, OriginalEmail, MustGo
<1>4. Reached(r, u, Erasers[k], last, OriginalEmail(u)) => r.table = Erasers[k]
  BY DEF Reached
<1> QED BY <1>2, <1>3, <1>4

LEMMA EraseNextStep ==
  ASSUME DataInv, EraseNext
  PROVE  DataInv'
<1> USE DEF DataInv
<1>1. PICK e : e = erasing OBVIOUS
<1> DEFINE u == Head(e.people)
           table == Erasers[e.next]
           reached == {r \in held : Reached(r, u, table, e.last, OriginalEmail(u))}
           lastTable == e.next = Len(Erasers)
           people == IF lastTable THEN Tail(e.people) ELSE e.people
<1>2. /\ erasing # NoRun /\ e.stage = "statements"
      /\ erasing' = [e EXCEPT !.doomed = e.doomed \cup reached,
           !.bared = IF table = "activity" THEN e.bared \cup reached ELSE e.bared,
           !.people = people, !.next = IF lastTable THEN 1 ELSE e.next + 1,
           !.stage = IF people = <<>> THEN "commit" ELSE e.stage]
      /\ here' = here /\ held' = held /\ objects' = objects /\ pens' = pens
      /\ archive' = archive /\ unfinished' = unfinished
      /\ tardy' = tardy /\ taken' = taken /\ adrift' = adrift
  BY <1>1 DEF EraseNext, keepings, hindsight
<1>3. e \in ErasingRun /\ Reaches /\ Complete BY <1>1, <1>2 DEF DataTables
<1>4. /\ e.people \in Seq(Persons) /\ e.people # <<>> /\ e.next \in 1..8 /\ e.last \in BOOLEAN
      /\ Len(Erasers) = 8
  BY <1>1, <1>2, <1>3 DEF ErasingRun, Reaches, Erasers
<1>5. u \in Persons /\ people \in Seq(Persons) BY <1>4
<1>6. /\ reached \subseteq held /\ reached \subseteq DataRows
      /\ \A r \in held : MustGo(r) /\ r.of = u /\ r.table = table => r \in reached
      /\ \A r \in reached : r.table = table /\ (e.last \/ (MustGo(r) /\ r.of = u))
  <2>1. held \subseteq DataRows BY DEF DataTables
  <2> QED BY <1>4, <2>1, StatementReaches
<1> HIDE DEF reached
<1>7. /\ erasing'.doomed = e.doomed \cup reached
      /\ erasing'.bared = IF table = "activity" THEN e.bared \cup reached ELSE e.bared
      /\ erasing'.people = people /\ erasing'.next = IF lastTable THEN 1 ELSE e.next + 1
      /\ erasing'.stage = (IF people = <<>> THEN "commit" ELSE "statements")
      /\ erasing'.last = e.last
  BY <1>2, <1>3 DEF ErasingRun
<1>8. erasing' \in ErasingRun
  <2>1. e.doomed \cup reached \in SUBSET DataRows
    BY <1>3, <1>6 DEF ErasingRun
  <2>2. (IF table = "activity" THEN e.bared \cup reached ELSE e.bared) \in SUBSET DataRows
    BY <1>3, <1>6 DEF ErasingRun
  <2>3. (IF lastTable THEN 1 ELSE e.next + 1) \in 1..Len(Erasers) BY <1>4
  <2> QED BY <1>2, <1>3, <1>5, <2>1, <2>2, <2>3 DEF ErasingRun
<1>9. DataTables' BY <1>2, <1>8 DEF DataTables
<1>10. Leaving(e) \subseteq Leaving(erasing)'
  BY <1>7 DEF Leaving
<1>11. ASSUME NEW v \in Leaving(erasing)', v \notin Leaving(e)
       PROVE  v = u /\ e.next = 1
  <2>1. PICK r \in reached : r.table = "profile" /\ r.of = v BY <1>7, <1>11 DEF Leaving
  <2>2. table = "profile" BY <1>6, <2>1
  <2>3. e.next = 1 BY <1>4, <2>2 DEF Erasers
  <2>4. MustGo(r) BY <2>1 DEF MustGo
  <2>5. Reached(r, u, table, e.last, OriginalEmail(u)) BY <2>1 DEF reached
  <2> QED BY <2>1, <2>2, <2>3, <2>5 DEF Reached
<1>12. u \in here => u \in Leaving(erasing)'
  <2>1. CASE e.next = 1
    <3>1. ASSUME u \in here PROVE Account(u) \in reached
      <4>1. Account(u) \in held BY <3>1 DEF DataTables
      <4>2. table = "profile" BY <2>1 DEF Erasers
      <4> QED BY <1>6, <4>1, <4>2 DEF Account, MustGo
    <3> QED BY <1>7, <3>1 DEF Leaving, Account
  <2>2. CASE e.next > 1 BY <1>1, <1>3, <1>10, <2>2 DEF Complete
  <2> QED BY <1>4, <2>1, <2>2
<1>13. Reaches'
  <2>1. \A r \in erasing'.bared : r.table = "activity" BY <1>1, <1>3, <1>6, <1>7 DEF Reaches
  <2>2. erasing'.doomed \subseteq held' /\ erasing'.bared \subseteq erasing'.doomed
    BY <1>1, <1>2, <1>3, <1>6, <1>7 DEF Reaches
  <2>3. erasing'.stage = "commit" <=> erasing'.people = <<>> BY <1>7
  <2>4. ASSUME NEW r \in erasing'.doomed
        PROVE  /\ erasing'.last \/ MustGo(r)
               /\ r.of \in here => erasing'.last \/ r.of \in Leaving(erasing)'
    <3>1. CASE r \in e.doomed BY <1>1, <1>3, <1>7, <1>10, <3>1 DEF Reaches
    <3>2. CASE r \in reached BY <1>6, <1>7, <1>12, <3>2
    <3> QED BY <1>7, <2>4, <3>1, <3>2
  <2> QED BY <1>2, <2>1, <2>2, <2>3, <2>4 DEF Reaches, MustGo
<1>14. \A v \in Persons, k \in 1..8 : Covered(v, k) => Covered(v, k)'
  BY <1>1, <1>2, <1>7 DEF Covered, MustGo
<1>15. Covered(u, e.next)'
  BY <1>2, <1>6, <1>7 DEF Covered, MustGo
<1>16. Complete'
  <2>1. ASSUME e.last, NEW v \in here PROVE v \in Leaving(erasing)' \cup People'
    <3>1. v \in Leaving(e) \cup People BY <1>1, <1>3, <2>1 DEF Complete
    <3>2. CASE v \in People
      <4>1. PICK i \in 1..Len(e.people) : e.people[i] = v BY <1>1, <3>2 DEF People
      <4>2. CASE lastTable /\ i = 1 BY <1>4, <1>12, <2>1, <4>1, <4>2
      <4>3. CASE lastTable /\ i > 1
        <5>1. i - 1 \in 1..Len(people) /\ people[i - 1] = v BY <1>4, <4>1, <4>3
        <5> QED BY <1>7, <5>1 DEF People
      <4>4. CASE ~ lastTable BY <1>7, <4>1, <4>4 DEF People
      <4> QED BY <1>4, <4>1, <4>2, <4>3, <4>4
    <3> QED BY <1>10, <3>1, <3>2
  <2>2. ASSUME erasing'.next > 1
        PROVE  /\ erasing'.people # <<>>
               /\ Head(erasing'.people) \in here => Head(erasing'.people) \in Leaving(erasing)'
    BY <1>4, <1>7, <1>12, <2>2
  <2>3. ASSUME NEW v \in Leaving(erasing)'
        PROVE  \/ \A k \in 1..Len(Erasers) : Covered(v, k)'
               \/ /\ erasing'.people # <<>> /\ v = Head(erasing'.people)
                  /\ \A k \in 1..(erasing'.next - 1) : Covered(v, k)'
    <3>1. v \in Persons
      <4>1. erasing'.doomed \subseteq DataRows BY <1>8 DEF ErasingRun
      <4> QED BY <2>3, <4>1, RowShape DEF Leaving
    <3>2. CASE \A k \in 1..8 : Covered(v, k) BY <1>4, <1>14, <3>1, <3>2
    <3>3. CASE v = u /\ \A k \in 1..(e.next - 1) : Covered(v, k)
      <4>1. \A k \in 1..e.next : Covered(v, k)' BY <1>4, <1>14, <1>15, <3>1, <3>3
      <4>2. CASE lastTable BY <1>4, <4>1, <4>2
      <4>3. CASE ~ lastTable BY <1>4, <1>7, <3>3, <4>1, <4>3
      <4> QED BY <4>2, <4>3
    <3>4. v \in Leaving(e) => (\A k \in 1..8 : Covered(v, k))
                              \/ (v = u /\ \A k \in 1..(e.next - 1) : Covered(v, k))
      BY <1>1, <1>3, <1>4 DEF Complete
    <3>5. v \notin Leaving(e) => v = u /\ \A k \in 1..(e.next - 1) : Covered(v, k)
      BY <1>11, <2>3
    <3> QED BY <3>2, <3>3, <3>4, <3>5
  <2> QED BY <1>2, <1>7, <2>1, <2>2, <2>3 DEF Complete
<1>17. Packing' BY <1>2 DEF Packing
<1>18. PersonalDataSafe'
  <2>1. ObjectsFollowRows'
    <3>1. erasing' # NoRun BY <1>8, PersonalDataAssumption
    <3> QED BY <1>1, <1>2, <1>7, <3>1 DEF PersonalDataSafe, ObjectsFollowRows
  <2> QED BY <1>2, <2>1 DEF PersonalDataSafe, NothingLeftBehind, OthersKeepTheirs, ArchiveIsWhole, MustGo
<1> QED BY <1>9, <1>13, <1>16, <1>17, <1>18

LEMMA CommitErasingStep ==
  ASSUME DataInv, CommitErasing
  PROVE  DataInv'
<1> USE DEF DataInv
<1>1. PICK e : e = erasing OBVIOUS
<1>2. /\ erasing # NoRun /\ e.stage = "commit"
      /\ held' = (held \ e.doomed) \cup {Bare(r) : r \in e.bared}
      /\ here' = here \ Leaving(e)
      /\ taken' = taken \cup (e.doomed \ e.bared)
      /\ erasing' = [e EXCEPT !.stage = "objects"]
      /\ objects' = objects /\ pens' = pens /\ archive' = archive /\ unfinished' = unfinished
      /\ tardy' = tardy /\ adrift' = adrift
  BY <1>1 DEF CommitErasing
<1>3. e \in ErasingRun /\ Reaches /\ Complete BY <1>1, <1>2 DEF DataTables
<1>4. erasing' \in ErasingRun /\ erasing'.stage = "objects" /\ erasing'.doomed = e.doomed
  BY <1>2, <1>3 DEF ErasingRun
<1>5. e.people = <<>> /\ People = {}
  <2>1. e.people = <<>> BY <1>1, <1>2, <1>3 DEF Reaches
  <2> QED BY <1>1, <2>1 DEF People
<1>6. \A r \in e.bared : r \in DataRows /\ r.table = "activity"
  BY <1>1, <1>3 DEF Reaches, ErasingRun
<1>7. held' \subseteq DataRows BY <1>2, <1>6, RowShape DEF DataTables
<1>8. DataTables'
  <2>1. ASSUME NEW v \in here' PROVE Account(v) \in held'
    <3>1. Account(v) \in held BY <1>2, <2>1 DEF DataTables
    <3>2. Account(v) \in e.doomed => v \in Leaving(e) BY DEF Leaving, Account
    <3> QED BY <1>2, <2>1, <3>1, <3>2
  <2> QED BY <1>2, <1>4, <1>7, <2>1 DEF DataTables
<1>9. NothingLeftBehind'
  <2>1. SUFFICES ASSUME NEW r \in held', r.of \notin here', MustGo(r), r \notin tardy PROVE FALSE
    BY <1>2 DEF NothingLeftBehind, MustGo
  <2>2. r \in held /\ r \notin e.doomed BY <1>2, <1>6, <2>1, BareStays
  <2>3. r \in DataRows BY <1>7, <2>1
  <2>4. r.of \in Leaving(e) BY <1>2, <2>1, <2>2 DEF PersonalDataSafe, NothingLeftBehind
  <2>5. PICK k \in 1..8 : r.table = Erasers[k] BY <2>1, <2>3, HasEraser
  <2>6. Covered(r.of, k)
    <3>1. Len(Erasers) = 8 BY DEF Erasers
    <3> QED BY <1>1, <1>3, <1>5, <2>4, <3>1 DEF Complete
  <2> QED BY <1>1, <2>1, <2>2, <2>5, <2>6 DEF Covered
<1>10. OthersKeepTheirs'
  <2>1. e.last => here' = {} BY <1>1, <1>2, <1>3, <1>5 DEF Complete
  <2>2. ASSUME NEW r \in e.doomed PROVE r.of \notin here' /\ (~ MustGo(r) => here' = {})
    BY <1>1, <1>2, <1>3, <2>1, <2>2 DEF Reaches
  <2>3. ASSUME NEW r \in taken PROVE r.of \notin here' /\ (~ MustGo(r) => here' = {})
    BY <1>2, <2>3 DEF PersonalDataSafe, OthersKeepTheirs
  <2> QED BY <1>2, <2>2, <2>3 DEF OthersKeepTheirs, MustGo
<1>11. ObjectsFollowRows'
  <2>1. erasing' # NoRun BY <1>4, PersonalDataAssumption
  <2> QED BY <1>1, <1>2, <1>4, <2>1 DEF PersonalDataSafe, ObjectsFollowRows
<1>12. ArchiveIsWhole' BY <1>2 DEF PersonalDataSafe, ArchiveIsWhole
<1>13. Packing'
  <2>1. ASSUME NEW r, IsFile(r), r \in held PROVE r \in held' \cup taken'
    BY <1>2, <1>6, <2>1 DEF IsFile
  <2> QED BY <1>2, <2>1 DEF Packing
<1> QED BY <1>4, <1>8, <1>9, <1>10, <1>11, <1>12, <1>13 DEF PersonalDataSafe

LEMMA ErasingEnds ==
  ASSUME DataInv, DeleteObjects \/ StopErasing
  PROVE  DataInv'
<1> USE DEF DataInv
<1>1. PICK e : e = erasing OBVIOUS
<1>2. /\ erasing # NoRun /\ erasing' = NoRun /\ here' = here /\ held' = held /\ pens' = pens
      /\ archive' = archive /\ tardy' = tardy /\ taken' = taken /\ adrift \subseteq adrift'
      /\ objects' \subseteq objects
  BY DEF DeleteObjects, StopErasing, keepings, hindsight
<1>3. unfinished' \subseteq Persons
  BY <1>2 DEF DeleteObjects, StopErasing, DataTables, ErasingRun
<1>4. DataTables' BY <1>2, <1>3 DEF DataTables
<1>5. Packing' BY <1>2 DEF Packing
<1>6. ObjectsFollowRows'
  <2>1. CASE DeleteObjects
    BY <1>1, <1>2, <2>1 DEF DeleteObjects, PersonalDataSafe, ObjectsFollowRows
  <2>2. CASE StopErasing /\ e.stage = "objects"
    BY <1>1, <1>2, <2>2 DEF StopErasing, keepings, PersonalDataSafe, ObjectsFollowRows
  <2>3. CASE StopErasing /\ e.stage # "objects"
    <3>1. e.doomed \subseteq held BY <1>1, <1>2, <2>3 DEF Reaches
    <3> QED BY <1>1, <1>2, <2>3, <3>1 DEF StopErasing, keepings, PersonalDataSafe, ObjectsFollowRows
  <2> QED BY <2>1, <2>2, <2>3
<1>7. NothingLeftBehind' /\ OthersKeepTheirs' /\ ArchiveIsWhole'
  BY <1>2 DEF PersonalDataSafe, NothingLeftBehind, OthersKeepTheirs, ArchiveIsWhole
<1> QED BY <1>2, <1>4, <1>5, <1>6, <1>7 DEF PersonalDataSafe

\* What a deletion promises holds for any number of people and rows, whatever
\* is written beside it and wherever it throws or is killed: what must go of
\* the deleted is gone, others keep theirs, objects follow their rows, and an
\* export's files are in it or named as missing.
THEOREM PersonalDataHolds == DataSpec => []PersonalDataSafe
<1>1. DataInit => DataInv
  <2>1. SUFFICES ASSUME DataInit PROVE DataInv OBVIOUS
  <2>2. ASSUME NEW v \in Persons PROVE Account(v) \in DataRows
    <3>1. 1 \in DOMAIN Erasers /\ Erasers[1] = "profile" BY DEF Erasers
    <3>2. "row" \in What("profile") BY DEF What
    <3> QED BY <3>1, <3>2 DEF Account, DataRows, Kept
  <2>3. DataTables BY <2>1, <2>2 DEF DataInit, DataTables
  <2>4. Packing BY <2>1 DEF DataInit, Packing
  <2>5. NothingLeftBehind
    <3>1. \A v \in Persons : Account(v).of = v BY DEF Account
    <3> QED BY <2>1, <3>1 DEF DataInit, NothingLeftBehind
  <2>6. OthersKeepTheirs /\ ObjectsFollowRows /\ ArchiveIsWhole
    BY <2>1 DEF DataInit, OthersKeepTheirs, ObjectsFollowRows, ArchiveIsWhole
  <2> QED BY <2>1, <2>3, <2>4, <2>5, <2>6 DEF DataInit, DataInv, PersonalDataSafe
<1>2. DataInv /\ [DataNext]_dataVars => DataInv'
  <2>1. SUFFICES ASSUME DataInv, [DataNext]_dataVars PROVE DataInv' OBVIOUS
  <2>2. CASE UNCHANGED dataVars
    <3>1. /\ here' = here /\ held' = held /\ objects' = objects /\ pens' = pens
          /\ erasing' = erasing /\ archive' = archive /\ unfinished' = unfinished
          /\ tardy' = tardy /\ taken' = taken /\ adrift' = adrift
      BY <2>2 DEF dataVars, keepings, hindsight
    <3>2. (erasing # NoRun /\ erasing.stage # "objects" => Reaches /\ Complete)'
      BY <2>1, <3>1, ErasingStays DEF DataInv
    <3>3. PersonalDataSafe'
      BY <2>1, <3>1 DEF DataInv, PersonalDataSafe, NothingLeftBehind, OthersKeepTheirs,
         ObjectsFollowRows, ArchiveIsWhole
    <3>4. DataTables' /\ Packing' BY <2>1, <3>1 DEF DataInv, DataTables, Packing
    <3> QED BY <3>2, <3>3, <3>4 DEF DataInv
  <2> QED BY <2>1, <2>2, LetInStep, WriteStep, DropUploadStep, LoseObjectStep, ArchiveSteps,
             BeginErasingStep, EraseNextStep, CommitErasingStep, ErasingEnds DEF DataNext
<1>3. DataInv => PersonalDataSafe BY DEF DataInv
<1> QED BY <1>1, <1>2, <1>3, PTL DEF DataSpec

-----------------------------------------------------------------------------
(* Numbers divided into days and months.                                   *)

LEMMA Division ==
  ASSUME NEW t \in Nat, NEW n \in Nat \ {0}
  PROVE  /\ t \div n \in Nat /\ t % n \in 0..(n - 1)
         /\ t = n * (t \div n) + (t % n)
         /\ n * (t \div n) <= t /\ t < n * ((t \div n) + 1)
OBVIOUS

LEMMA NoCarry ==
  ASSUME NEW p \in Int, NEW q \in Int, NEW n \in Nat \ {0}, n * p < n * (q + 1)
  PROVE  p <= q
OBVIOUS

LEMMA Distributes ==
  ASSUME NEW p \in Int, NEW q \in Int, NEW n \in Int
  PROVE  n * (p + q) = n * p + n * q
OBVIOUS

-----------------------------------------------------------------------------
(* Calls of the API. What has left the raw rows is old, and had its day    *)
(* counted; a month is served from at most two windows of the counter,     *)
(* the second of which lasts to the month's end.                           *)

RollupRow == [step : {"idle", "write", "delete"}, totals : SUBSET (Days \X (1..TicksPerDay)),
              expired : SUBSET Ticks]
QuotaRow == [month : Months, points : 0..(MonthlyLimit + 1), until : Nat]

Begins(month) == month * DaysPerMonth * TicksPerDay
Ends(month) == (month + 1) * DaysPerMonth * TicksPerDay
PointsSpent == IF quota.points < MonthlyLimit THEN quota.points ELSE MonthlyLimit

RowsInv ==
  /\ clock \in Ticks /\ made \subseteq 0..clock /\ raw \subseteq made
  /\ usageDay \in [Days -> -1..TicksPerDay]
  /\ rollup \in RollupRow /\ rollup.expired \subseteq raw
  /\ \A t \in made \ raw : PastRetention(t)
  /\ \A t \in rollup.expired : PastRetention(t)
  /\ \A entry \in rollup.totals : entry[2] <= CallsOf(made, entry[1])
  /\ \A d \in Days :
       /\ usageDay[d] # 0 /\ usageDay[d] <= CallsOf(made, d)
       /\ CallsOf(made, d) > 0 => CallsOf(raw, d) > 0 \/ usageDay[d] > 0

\* No window yet, the first of the month, or the one after it.
TwoWindows ==
  \/ served[quota.month] = 0 /\ quota.until = 0
  \/ /\ served[quota.month] <= PointsSpent
     /\ \/ quota.until >= Begins(quota.month) + ClampDays * TicksPerDay
        \/ quota.until >= Ends(quota.month)
  \/ served[quota.month] <= MonthlyLimit + PointsSpent /\ quota.until >= Ends(quota.month)

QuotaInv ==
  /\ quota \in QuotaRow /\ served \in [Months -> Nat]
  /\ quota.month <= Month(clock)
  /\ \A m \in Months : (m > quota.month => served[m] = 0) /\ served[m] <= 2 * MonthlyLimit
  /\ TwoWindows

UsageInv == RowsInv /\ QuotaInv

-----------------------------------------------------------------------------

LEMMA DayIs ==
  ASSUME NEW t \in Nat
  PROVE  /\ Day(t) \in Nat /\ TicksPerDay * Day(t) <= t /\ t < TicksPerDay * (Day(t) + 1)
BY Division, ApiUsageAssumption DEF Day

LEMMA MonthIs ==
  ASSUME NEW t \in Nat
  PROVE  /\ Month(t) \in Nat /\ DaysPerMonth * Month(t) <= Day(t)
         /\ Day(t) < DaysPerMonth * (Month(t) + 1)
         /\ Day(t) = DaysPerMonth * Month(t) + (Day(t) % DaysPerMonth)
BY DayIs, Division, ApiUsageAssumption DEF Month

LEMMA DaysPass ==
  ASSUME NEW t \in Nat, NEW c \in Nat, NEW n \in Nat, t + n * TicksPerDay <= c
  PROVE  Day(t) + n <= Day(c)
<1>1. PICK T : T = TicksPerDay OBVIOUS
<1>2. T \in Nat \ {0} BY <1>1, ApiUsageAssumption
<1>3. PICK p \in Nat, q \in Nat : p = Day(t) /\ q = Day(c) BY DayIs
<1>4. T * p <= t /\ c < T * (q + 1) /\ t + n * T <= c BY <1>1, <1>3, DayIs
<1>5. T * (p + n) = T * p + T * n BY <1>2, <1>3, Distributes
<1>6. T * p \in Int /\ T * n \in Int /\ T * (q + 1) \in Int /\ n * T = T * n BY <1>2, <1>3
<1>7. T * (p + n) < T * (q + 1) BY <1>4, <1>5, <1>6
<1>8. p + n <= q BY <1>2, <1>3, <1>7, NoCarry
<1> QED BY <1>3, <1>8

LEMMA DayGrows ==
  ASSUME NEW t \in Nat, NEW c \in Nat, t <= c
  PROVE  Day(t) <= Day(c)
<1>1. t + 0 * TicksPerDay <= c BY ApiUsageAssumption
<1>2. Day(t) + 0 <= Day(c) BY <1>1, DaysPass
<1> QED BY <1>2, DayIs

LEMMA MonthGrows ==
  ASSUME NEW t \in Nat, NEW c \in Nat, t <= c
  PROVE  Month(t) <= Month(c)
<1>1. PICK P : P = DaysPerMonth OBVIOUS
<1>2. P \in Nat \ {0} BY <1>1, ApiUsageAssumption
<1>3. PICK p \in Nat, q \in Nat : p = Month(t) /\ q = Month(c) BY MonthIs
<1>4. P * p <= Day(t) /\ Day(c) < P * (q + 1) /\ Day(t) <= Day(c) BY <1>1, <1>3, MonthIs, DayGrows
<1>5. P * p \in Int /\ P * (q + 1) \in Int /\ Day(t) \in Int /\ Day(c) \in Int BY <1>2, <1>3, DayIs
<1>6. P * p < P * (q + 1) BY <1>4, <1>5
<1> QED BY <1>2, <1>3, <1>6, NoCarry

LEMMA MonthSpans ==
  ASSUME NEW t \in Nat
  PROVE  /\ Begins(Month(t)) \in Nat /\ Ends(Month(t)) \in Nat
         /\ Begins(Month(t)) <= t /\ t < Ends(Month(t))
         /\ Ends(Month(t)) = Begins(Month(t)) + DaysPerMonth * TicksPerDay
<1>1. PICK P, T : P = DaysPerMonth /\ T = TicksPerDay OBVIOUS
<1>2. P \in Nat \ {0} /\ T \in Nat \ {0} BY <1>1, ApiUsageAssumption
<1>3. PICK m \in Nat, d \in Nat : m = Month(t) /\ d = Day(t) BY MonthIs, DayIs
<1>4. P * m <= d /\ d < P * (m + 1) /\ T * d <= t /\ t < T * (d + 1) BY <1>1, <1>3, MonthIs, DayIs
<1>5. Begins(m) = m * P * T /\ Ends(m) = (m + 1) * P * T BY <1>1 DEF Begins, Ends
<1>6. m * P * T = T * (P * m) /\ (m + 1) * P * T = T * (P * (m + 1)) BY <1>2
<1>7. T * (P * m) <= T * d
  <2>1. PICK k \in Nat : d = P * m + k BY <1>2, <1>4
  <2>2. T * d = T * (P * m) + T * k BY <1>2, <2>1, Distributes
  <2>3. T * k \in Nat BY <1>2, <2>1
  <2> QED BY <1>2, <2>2, <2>3
<1>8. T * (d + 1) <= T * (P * (m + 1))
  <2>1. PICK k \in Nat : P * (m + 1) = (d + 1) + k BY <1>2, <1>4
  <2>2. T * (P * (m + 1)) = T * (d + 1) + T * k BY <1>2, <2>1, Distributes
  <2>3. T * k \in Nat BY <1>2, <2>1
  <2> QED BY <1>2, <2>2, <2>3
<1>9. (m + 1) * P * T = m * P * T + P * T BY <1>2
<1>10. m * P * T \in Nat /\ P * T \in Nat /\ T * d \in Nat /\ T * (d + 1) \in Nat BY <1>2
<1> QED BY <1>1, <1>3, <1>4, <1>5, <1>6, <1>7, <1>8, <1>9, <1>10

LEMMA CallsCount ==
  ASSUME NEW rows, rows \subseteq Nat, NEW some, some \subseteq rows, NEW d \in Nat
  PROVE  /\ CallsOf(rows, d) \in 0..TicksPerDay
         /\ CallsOf(some, d) <= CallsOf(rows, d)
         /\ CallsOf(rows, d) = 0 <=> {t \in rows : Day(t) = d} = {}
<1> DEFINE A == {t \in rows : Day(t) = d}
           B == {t \in some : Day(t) = d}
<1>1. PICK T : T = TicksPerDay OBVIOUS
<1>2. T \in Nat \ {0} BY <1>1, ApiUsageAssumption
<1>3. PICK a \in Int : a = T * d BY <1>2
<1>4. T * (d + 1) = a + T BY <1>2, <1>3
<1>5. A \subseteq a..(a + T - 1)
  <2>1. SUFFICES ASSUME NEW t \in rows, Day(t) = d PROVE t \in a..(a + T - 1) OBVIOUS
  <2>2. t \in Nat /\ T * d <= t /\ t < T * (d + 1) BY <1>1, <2>1, DayIs
  <2> QED BY <1>2, <1>3, <1>4, <2>2
<1>6. IsFiniteSet(a..(a + T - 1)) /\ Cardinality(a..(a + T - 1)) = T
  <2>1. a + T - 1 \in Int /\ ~(a > a + T - 1) /\ (a + T - 1) - a + 1 = T BY <1>2
  <2> QED BY <2>1, FS_Interval
<1>7. IsFiniteSet(A) /\ Cardinality(A) <= T BY <1>5, <1>6, FS_Subset
<1>8. B \subseteq A OBVIOUS
<1>9. Cardinality(B) <= Cardinality(A) BY <1>7, <1>8, FS_Subset
<1>10. Cardinality(A) \in Nat BY <1>7, FS_CardinalityType
<1>11. Cardinality(A) = 0 <=> A = {} BY <1>7, FS_EmptySet
<1> HIDE DEF A, B
<1>12. Cardinality(A) \in 0..T BY <1>2, <1>7, <1>10
<1> QED BY <1>1, <1>9, <1>11, <1>12 DEF CallsOf, A, B

LEMMA CallsType ==
  ASSUME NEW rows, rows \subseteq Nat, NEW d \in Nat
  PROVE  CallsOf(rows, d) \in Nat
<1>1. PICK some : some = rows OBVIOUS
<1>2. some \subseteq rows BY <1>1
<1>3. CallsOf(rows, d) \in 0..TicksPerDay BY <1>2, CallsCount
<1> QED BY <1>3, ApiUsageAssumption

LEMMA MinOfTwo ==
  ASSUME NEW m \in Int, NEW n \in Int
  PROVE  Min({m, n}) = IF m <= n THEN m ELSE n
<1>1. \E k \in {m, n} : \A j \in {m, n} : k <= j OBVIOUS
<1>2. PICK x : x = Min({m, n}) OBVIOUS
<1>3. x \in {m, n} /\ x <= m /\ x <= n BY <1>1, <1>2 DEF Min
<1> QED BY <1>2, <1>3

LEMMA GreaterOfTwo ==
  ASSUME NEW m \in Int, NEW n \in Int
  PROVE  Max({m, n}) = IF m >= n THEN m ELSE n
<1>1. \E k \in {m, n} : \A j \in {m, n} : k >= j OBVIOUS
<1>2. PICK x : x = Max({m, n}) OBVIOUS
<1>3. x \in {m, n} /\ x >= m /\ x >= n BY <1>1, <1>2 DEF Max
<1> QED BY <1>2, <1>3

LEMMA Ages ==
  ASSUME NEW t \in Int, clock \in Nat, clock' \in Nat, clock <= clock', PastRetention(t)
  PROVE  PastRetention(t)'
<1>1. RawRetentionDays * TicksPerDay \in Int BY ApiUsageAssumption
<1> QED BY <1>1 DEF PastRetention

-----------------------------------------------------------------------------

LEMMA TimeTypes ==
  ASSUME RowsInv
  PROVE  /\ clock \in Nat /\ MaxTicks \in Nat /\ Ticks \subseteq Nat
         /\ \A t \in Ticks : Day(t) \in Days /\ Month(t) \in Months
         /\ Days \subseteq Nat /\ Months \subseteq Nat /\ made \subseteq Ticks
<1>1. Ticks \subseteq Nat /\ MaxTicks \in Nat BY ApiUsageAssumption DEF Ticks
<1>2. \A t \in Ticks : Day(t) \in Days /\ Month(t) \in Months BY DEF Days, Months
<1>3. Days \subseteq Nat /\ Months \subseteq Nat BY <1>1, DayIs, MonthIs DEF Days, Months
<1>4. clock \in Ticks /\ made \subseteq 0..clock BY DEF RowsInv
<1>5. made \subseteq Ticks BY <1>1, <1>4 DEF Ticks
<1> QED BY <1>1, <1>2, <1>3, <1>4, <1>5

LEMMA InitUsage == UsageInit => UsageInv
<1> SUFFICES ASSUME UsageInit PROVE UsageInv OBVIOUS
<1>1. 0 \in Ticks /\ MonthlyLimit \in Nat /\ TicksPerDay \in Nat BY ApiUsageAssumption DEF Ticks
<1>2. Day(0) = 0 /\ Month(0) = 0
  <2>1. Day(0) = 0 BY ApiUsageAssumption DEF Day
  <2> QED BY <2>1, ApiUsageAssumption DEF Month
<1>3. 0 \in Months /\ Months \subseteq Nat
  <2>1. Ticks \subseteq Nat BY ApiUsageAssumption DEF Ticks
  <2> QED BY <1>1, <1>2, <2>1, MonthIs DEF Months
<1>4. \A d : CallsOf(made, d) = 0
  <2>1. ASSUME NEW d PROVE {t \in made : Day(t) = d} = {} BY DEF UsageInit
  <2> QED BY <2>1, FS_EmptySet DEF CallsOf
<1>5. RowsInv
  <2>1. usageDay \in [Days -> -1..TicksPerDay] /\ \A d \in Days : usageDay[d] = -1 BY <1>1 DEF UsageInit
  <2>2. rollup \in RollupRow /\ rollup.totals = {} /\ rollup.expired = {} BY DEF UsageInit, Resting, RollupRow
  <2> QED BY <1>1, <1>4, <2>1, <2>2 DEF UsageInit, RowsInv
<1>6. QuotaInv
  <2>1. quota \in QuotaRow /\ quota.month = 0 /\ quota.until = 0 BY <1>1, <1>3 DEF UsageInit, QuotaRow
  <2>2. served \in [Months -> Nat] /\ \A m \in Months : served[m] = 0 BY DEF UsageInit
  <2>3. quota.month <= Month(clock) BY <1>2, <2>1 DEF UsageInit
  <2>4. TwoWindows BY <1>3, <2>1, <2>2 DEF TwoWindows
  <2> QED BY <1>1, <2>1, <2>2, <2>3, <2>4 DEF QuotaInv
<1> QED BY <1>5, <1>6 DEF UsageInv

LEMMA QuotaStands ==
  ASSUME QuotaInv, UNCHANGED <<clock, quota, served>>
  PROVE  QuotaInv'
BY DEF QuotaInv, TwoWindows, PointsSpent

LEMMA TickHolds ==
  ASSUME UsageInv, PassTick
  PROVE  UsageInv'
<1>1. /\ clock \in Nat /\ MaxTicks \in Nat /\ clock' \in Ticks /\ clock' = clock + 1
      /\ UNCHANGED <<made, raw, usageDay, rollup, quota, served>>
  BY TimeTypes, ApiUsageAssumption DEF PassTick, Ticks, UsageInv
<1>2. made \subseteq 0..clock' BY <1>1 DEF UsageInv, RowsInv
<1>3. ASSUME NEW t \in made, PastRetention(t) PROVE PastRetention(t)'
  BY <1>1, <1>3, Ages DEF UsageInv, RowsInv
<1>4. RowsInv'
  <2>1. \A t \in made' \ raw' : PastRetention(t)' BY <1>1, <1>3 DEF UsageInv, RowsInv
  <2>2. \A t \in rollup'.expired : PastRetention(t)' BY <1>1, <1>3 DEF UsageInv, RowsInv
  <2> QED BY <1>1, <1>2, <2>1, <2>2 DEF UsageInv, RowsInv, CallsOf
<1>5. QuotaInv'
  <2>1. Month(clock) <= Month(clock') /\ Month(clock) \in Nat /\ Month(clock') \in Nat
    BY <1>1, MonthGrows, MonthIs
  <2>2. Months \subseteq Nat BY TimeTypes DEF UsageInv
  <2>3. quota.month \in Nat BY <2>2 DEF UsageInv, QuotaInv, QuotaRow
  <2>4. Month(clock)' = Month(clock') BY DEF Month, Day
  <2>5. quota'.month <= Month(clock)' BY <1>1, <2>1, <2>3, <2>4 DEF UsageInv, QuotaInv
  <2> QED BY <1>1, <2>5 DEF UsageInv, QuotaInv, TwoWindows, PointsSpent
<1> QED BY <1>4, <1>5 DEF UsageInv

LEMMA CallHolds ==
  ASSUME UsageInv, NEW recorded \in BOOLEAN, Call(recorded)
  PROVE  UsageInv'
<1>1. RowsInv'
  <2>1. clock \in Nat /\ made \subseteq Nat /\ Days \subseteq Nat /\ raw \subseteq made
    BY TimeTypes DEF UsageInv, RowsInv
  <2>2. UNCHANGED <<clock, usageDay, rollup>> BY DEF Call
  <2>3. CASE ~recorded
    <3>1. UNCHANGED <<made, raw>> BY <2>3 DEF Call
    <3> QED BY <2>2, <3>1 DEF UsageInv, RowsInv, CallsOf, PastRetention
  <2>4. CASE recorded
    <3>1. made' = made \cup {clock} /\ raw' = raw \cup {clock} BY <2>4 DEF Call
    <3>2. made' \subseteq 0..clock /\ raw' \subseteq made' BY <2>1, <3>1 DEF UsageInv, RowsInv
    <3>3. ASSUME NEW d \in Days
          PROVE  /\ CallsOf(made, d) <= CallsOf(made', d) /\ CallsOf(raw, d) <= CallsOf(raw', d)
                 /\ CallsOf(made, d) \in Nat /\ CallsOf(made', d) \in Nat
                 /\ CallsOf(raw, d) \in Nat /\ CallsOf(raw', d) \in Nat
                 /\ d # Day(clock) => CallsOf(made', d) = CallsOf(made, d)
                 /\ d = Day(clock) => CallsOf(raw', d) > 0
      <4>1. made' \subseteq Nat /\ raw' \subseteq Nat /\ raw \subseteq Nat /\ d \in Nat BY <2>1, <3>1, <3>2
      <4>2. CallsOf(made, d) <= CallsOf(made', d) /\ CallsOf(raw, d) <= CallsOf(raw', d)
        BY <3>1, <4>1, CallsCount
      <4>3. /\ CallsOf(made, d) \in Nat /\ CallsOf(made', d) \in Nat
            /\ CallsOf(raw, d) \in Nat /\ CallsOf(raw', d) \in Nat
        BY <2>1, <4>1, CallsType
      <4>4. ASSUME d # Day(clock) PROVE CallsOf(made', d) = CallsOf(made, d)
        <5>1. {t \in made' : Day(t) = d} = {t \in made : Day(t) = d} BY <3>1, <4>4
        <5> QED BY <5>1 DEF CallsOf
      <4>5. ASSUME d = Day(clock) PROVE CallsOf(raw', d) > 0
        <5>1. {t \in raw' : Day(t) = d} # {} BY <3>1, <4>5
        <5>2. CallsOf(raw', d) # 0 BY <4>1, <5>1, CallsCount
        <5> QED BY <4>3, <5>2
      <4> QED BY <4>2, <4>3, <4>4, <4>5
    <3>4. \A entry \in rollup.totals : entry[1] \in Days /\ entry[2] \in 1..TicksPerDay
      BY DEF UsageInv, RowsInv, RollupRow
    <3>5. \A entry \in rollup'.totals : entry[2] <= CallsOf(made, entry[1])'
      <4>1. SUFFICES ASSUME NEW entry \in rollup.totals PROVE entry[2] <= CallsOf(made', entry[1])
        BY <2>2 DEF CallsOf
      <4>2. PICK n, d : n = entry[2] /\ d = entry[1] OBVIOUS
      <4>3. n \in Nat /\ d \in Days /\ n <= CallsOf(made, d)
        BY <3>4, <4>2, ApiUsageAssumption DEF UsageInv, RowsInv
      <4> QED BY <3>3, <4>2, <4>3
    <3>6. ASSUME NEW d \in Days
          PROVE  /\ usageDay[d] # 0 /\ usageDay[d] <= CallsOf(made', d)
                 /\ CallsOf(made', d) > 0 => CallsOf(raw', d) > 0 \/ usageDay[d] > 0
      <4>1. /\ usageDay[d] # 0 /\ usageDay[d] <= CallsOf(made, d) /\ usageDay[d] \in Int
            /\ CallsOf(made, d) > 0 => CallsOf(raw, d) > 0 \/ usageDay[d] > 0
        BY ApiUsageAssumption DEF UsageInv, RowsInv
      <4>2. usageDay[d] <= CallsOf(made', d) BY <3>3, <4>1
      <4>3. ASSUME CallsOf(made', d) > 0 PROVE CallsOf(raw', d) > 0 \/ usageDay[d] > 0
        BY <3>3, <4>1, <4>3
      <4> QED BY <4>1, <4>2, <4>3
    <3>7. \A t \in made' \ raw' : PastRetention(t)' BY <2>2, <3>1 DEF UsageInv, RowsInv, PastRetention
    <3> QED BY <2>2, <3>1, <3>2, <3>5, <3>6, <3>7 DEF UsageInv, RowsInv, CallsOf, PastRetention
  <2> QED BY <2>3, <2>4
<1>2. QuotaInv'
  <2> DEFINE M == Month(clock)
             L == MonthlyLimit
             C == ClampDays * TicksPerDay
  <2>1. /\ clock \in Nat /\ Months \subseteq Nat /\ M \in Months /\ L \in Nat
        /\ Begins(M) \in Nat /\ Ends(M) \in Nat /\ Begins(M) <= clock /\ clock < Ends(M)
        /\ Ends(M) = Begins(M) + DaysPerMonth * TicksPerDay
    BY TimeTypes, MonthSpans, ApiUsageAssumption DEF UsageInv, RowsInv
  <2>2. C \in Nat /\ C > 0 /\ DaysPerMonth * TicksPerDay <= 2 * C
    <3>1. PICK P, T, k : P = DaysPerMonth /\ T = TicksPerDay /\ k = ClampDays OBVIOUS
    <3>2. P \in Nat \ {0} /\ T \in Nat \ {0} /\ k \in Nat \ {0} /\ P <= 2 * k
      BY <3>1, ApiUsageAssumption
    <3>3. k * T \in Nat /\ k * T > 0 BY <3>2
    <3>4. PICK r \in Nat : 2 * k = P + r BY <3>2
    <3>5. (2 * k) * T = P * T + r * T /\ r * T \in Nat /\ P * T \in Nat BY <3>2, <3>4
    <3>6. (2 * k) * T = 2 * (k * T) BY <3>2
    <3> QED BY <3>1, <3>3, <3>5, <3>6
  <2>3. PICK now : now = Counter OBVIOUS
  <2>4. /\ now.month = M /\ now.points \in 0..(L + 1) /\ now.until \in Nat
        /\ now = [month |-> now.month, points |-> now.points, until |-> now.until]
        /\ quota.month = M /\ clock < quota.until => now = quota
        /\ ~(quota.month = M /\ clock < quota.until) =>
             /\ now.points = 0
             /\ now.until = clock + (IF Ends(M) - clock <= C THEN Ends(M) - clock ELSE C)
    <3>1. secondsUntilNextMonth(clock) = IF Ends(M) - clock <= C THEN Ends(M) - clock ELSE C
      BY <2>1, <2>2, MinOfTwo DEF secondsUntilNextMonth, Ends
    <3>2. CASE quota.month = M /\ clock < quota.until
      <4>1. now = quota BY <2>3, <3>2 DEF Counter
      <4> QED BY <3>2, <4>1 DEF UsageInv, QuotaInv, QuotaRow
    <3>3. CASE ~(quota.month = M /\ clock < quota.until)
      <4> HIDE DEF C
      <4>1. now = [month |-> M, points |-> 0, until |-> clock + secondsUntilNextMonth(clock)]
        BY <2>3, <3>3 DEF Counter
      <4>2. clock + (IF Ends(M) - clock <= C THEN Ends(M) - clock ELSE C) \in Nat
        BY <2>1, <2>2
      <4> QED BY <2>1, <3>1, <3>3, <4>1, <4>2
    <3> QED BY <3>2, <3>3
  <2> HIDE DEF C
  <2>5. PICK w : w = IF now.points < L THEN now.points ELSE L OBVIOUS
  <2>6. PICK n : n = served[M] OBVIOUS
  <2>7. /\ quota.month \in Nat /\ quota.until \in Nat /\ quota.points \in Nat /\ quota.month <= M
        /\ n \in Nat /\ \A m \in Months : (m > quota.month => served[m] = 0) /\ served[m] <= 2 * L
        /\ TwoWindows /\ w \in 0..L
    BY <2>1, <2>4, <2>5, <2>6 DEF UsageInv, QuotaInv, QuotaRow
  <2> HIDE DEF M
  <2>22. Ends(M) - Begins(M) <= 2 * C /\ M \in Nat
    <3>1. PICK z : z = DaysPerMonth * TicksPerDay OBVIOUS
    <3>2. z \in Nat /\ z <= 2 * C /\ Ends(M) = Begins(M) + z
      BY <2>1, <2>2, <3>1, ApiUsageAssumption
    <3> QED BY <2>1, <2>2, <3>2
  <2>8. \/ n <= w /\ (now.until >= Begins(M) + C \/ now.until >= Ends(M))
        \/ n <= L + w /\ now.until >= Ends(M)
    <3>1. CASE quota.month = M /\ clock < quota.until
      <4>1. now = quota /\ w = PointsSpent /\ quota.until # 0 BY <2>1, <2>4, <2>5, <3>1 DEF PointsSpent
      <4> QED BY <2>6, <2>7, <3>1, <4>1 DEF TwoWindows, C
    <3>2. CASE quota.month # M
      <4>1. M > quota.month BY <2>7, <2>22, <3>2
      <4>3. n = 0 BY <2>1, <2>6, <2>7, <4>1
      <4>2. now.until >= Begins(M) + C \/ now.until >= Ends(M) BY <2>1, <2>2, <2>4, <3>2
      <4> QED BY <2>1, <2>7, <4>2, <4>3
    <3>3. CASE quota.month = M /\ ~(clock < quota.until)
      <4>1. /\ now.points = 0
            /\ now.until = clock + (IF Ends(M) - clock <= C THEN Ends(M) - clock ELSE C)
        BY <2>4, <3>3
      <4>2. CASE n = 0
        <5>1. now.until >= Begins(M) + C \/ now.until >= Ends(M) BY <2>1, <2>2, <4>1
        <5> QED BY <2>1, <2>7, <4>2, <5>1
      <4>3. CASE n # 0
        <5>1. quota.until < Ends(M) BY <2>1, <2>7, <3>3
        <5>2. n <= PointsSpent /\ quota.until >= Begins(M) + C
          BY <2>1, <2>6, <2>7, <3>3, <4>3, <5>1 DEF TwoWindows, C
        <5>3. PointsSpent <= L /\ PointsSpent \in Nat BY <2>1, <2>7 DEF PointsSpent
        <5>4. Ends(M) - clock <= C BY <2>1, <2>2, <2>7, <2>22, <3>3, <5>2
        <5>5. now.until = Ends(M) BY <2>1, <4>1, <5>4
        <5> QED BY <2>1, <2>7, <5>2, <5>3, <5>5
      <4> QED BY <4>2, <4>3
    <3> QED BY <3>1, <3>2, <3>3
  <2>9. PICK new : new = quota' OBVIOUS
  <2>10. new.month = M /\ new.until = now.until /\ new.points = w + 1 /\ new \in QuotaRow
    <3>1. Min({now.points, L}) = w BY <2>1, <2>4, <2>5, MinOfTwo
    <3>2. new = [now EXCEPT !.points = w + 1] BY <2>3, <2>9, <3>1 DEF Call
    <3>3. new = [month |-> now.month, points |-> w + 1, until |-> now.until] BY <2>4, <3>2
    <3>4. w + 1 \in 0..(L + 1) BY <2>1, <2>7
    <3> QED BY <2>1, <2>4, <3>3, <3>4 DEF QuotaRow
  <2>11. served' = IF now.points < L THEN [served EXCEPT ![M] = n + 1] ELSE served
    BY <2>3, <2>6 DEF Call, LetThrough, M
  <2>12. PICK k : k = IF now.points < L THEN n + 1 ELSE n OBVIOUS
  <2>13. /\ served' \in [Months -> Nat] /\ served'[M] = k /\ k \in Nat
         /\ \A m \in Months \ {M} : served'[m] = served[m]
    BY <2>1, <2>6, <2>7, <2>11, <2>12 DEF UsageInv, QuotaInv
  <2>14. PICK v : v = IF w + 1 < L THEN w + 1 ELSE L OBVIOUS
  <2>15. k - v <= n - w /\ v <= L /\ v \in Nat
    BY <2>1, <2>4, <2>5, <2>7, <2>12, <2>14
  <2>16. \/ k <= v /\ (now.until >= Begins(M) + C \/ now.until >= Ends(M))
         \/ k <= L + v /\ now.until >= Ends(M)
    BY <2>1, <2>7, <2>8, <2>13, <2>15
  <2>17. k <= 2 * L BY <2>1, <2>13, <2>15, <2>16
  <2>18. PointsSpent' = v BY <2>9, <2>10, <2>14 DEF PointsSpent
  <2>19. TwoWindows' BY <2>9, <2>10, <2>13, <2>16, <2>18 DEF TwoWindows, Begins, Ends, C
  <2>20. ASSUME NEW m \in Months PROVE (m > M => served'[m] = 0) /\ served'[m] <= 2 * L
    <3>1. CASE m = M BY <2>13, <2>17, <2>22, <3>1
    <3>2. CASE m # M
      <4>1. m \in Nat /\ quota.month <= M /\ quota.month \in Nat BY <2>1, <2>7
      <4>2. m > M => m > quota.month BY <2>22, <4>1
      <4> QED BY <2>7, <2>13, <3>2, <4>2
    <3> QED BY <3>1, <3>2
  <2>21. Month(clock)' = M /\ M <= M BY <2>22 DEF Call, Month, Day, M
  <2> QED BY <2>9, <2>10, <2>13, <2>19, <2>20, <2>21 DEF QuotaInv
<1> QED BY <1>1, <1>2 DEF UsageInv

\* The job reads, and turns to the rows it is to delete; nothing else changes.
LEMMA JobMoves ==
  ASSUME UsageInv, UNCHANGED <<clock, made, raw, usageDay, quota, served>>,
         rollup' \in RollupRow, rollup'.expired \subseteq raw,
         \A t \in rollup'.expired : PastRetention(t),
         \A entry \in rollup'.totals : entry[2] <= CallsOf(made, entry[1])
  PROVE  UsageInv'
<1>1. RowsInv'
  <2>1. \A t : PastRetention(t)' <=> PastRetention(t) BY DEF PastRetention
  <2>2. \A d : CallsOf(made, d)' = CallsOf(made, d) /\ CallsOf(raw, d)' = CallsOf(raw, d) BY DEF CallsOf
  <2> QED BY <2>1, <2>2 DEF UsageInv, RowsInv
<1> QED BY <1>1, QuotaStands DEF UsageInv

LEMMA RestingIs == Resting \in RollupRow /\ Resting.totals = {} /\ Resting.expired = {}
BY DEF Resting, RollupRow

LEMMA JobHolds ==
  ASSUME UsageInv, ReadRaw \/ ReadExpired \/ FinishRollup \/ KillRollup
  PROVE  UsageInv'
<1>1. rollup \in RollupRow /\ rollup.expired \subseteq raw /\ raw \subseteq made /\ made \subseteq Ticks
      /\ Days \subseteq Nat /\ Ticks \subseteq Nat /\ \A t \in rollup.expired : PastRetention(t)
  BY TimeTypes DEF UsageInv, RowsInv
<1>2. CASE ReadRaw
  <2> DEFINE totals == {<<d, CallsOf(raw, d)>> : d \in {Day(t) : t \in raw}}
  <2>1. ASSUME NEW entry \in totals
        PROVE  /\ entry \in Days \X (1..TicksPerDay)
               /\ entry[2] <= CallsOf(made, entry[1])
    <3>1. PICK t \in raw : entry = <<Day(t), CallsOf(raw, Day(t))>> OBVIOUS
    <3>2. PICK d : d = Day(t) OBVIOUS
    <3>3. d \in Days /\ d \in Nat BY <1>1, <3>2, TimeTypes DEF UsageInv
    <3>4. {s \in raw : Day(s) = d} # {} BY <3>2
    <3>5. made \subseteq Nat /\ raw \subseteq Nat /\ raw \subseteq made BY <1>1
    <3>6. CallsOf(raw, d) \in 0..TicksPerDay /\ CallsOf(raw, d) # 0
      <4>1. PICK some : some = raw OBVIOUS
      <4>2. some \subseteq raw BY <4>1
      <4> QED BY <3>3, <3>4, <3>5, <4>2, CallsCount
    <3>7. CallsOf(raw, d) <= CallsOf(made, d) BY <3>3, <3>5, CallsCount
    <3>8. CallsOf(raw, d) \in 1..TicksPerDay BY <3>6, ApiUsageAssumption
    <3> QED BY <3>1, <3>2, <3>3, <3>7, <3>8
  <2>2. PICK y : y = [rollup EXCEPT !.step = "write"] OBVIOUS
  <2>3. rollup' = [y EXCEPT !.totals = totals] BY <1>2, <2>2 DEF ReadRaw
  <2>4. totals \subseteq Days \X (1..TicksPerDay) BY <2>1
  <2> HIDE DEF totals
  <2>5. y \in RollupRow /\ y.expired = rollup.expired BY <1>1, <2>2 DEF RollupRow
  <2>6. rollup' \in RollupRow /\ rollup'.expired = rollup.expired /\ rollup'.totals = totals
    BY <2>3, <2>4, <2>5 DEF RollupRow
  <2> QED BY <1>1, <1>2, <2>1, <2>6, JobMoves DEF ReadRaw
<1>3. CASE ReadExpired
  <2> DEFINE expired == {t \in raw : PastRetention(t)}
  <2>1. expired \subseteq raw /\ expired \subseteq Ticks /\ \A t \in expired : PastRetention(t) BY <1>1
  <2>2. PICK y : y = [Resting EXCEPT !.step = "delete"] OBVIOUS
  <2>3. rollup' = [y EXCEPT !.expired = expired] BY <1>3, <2>2 DEF ReadExpired
  <2> HIDE DEF expired
  <2>4. y \in RollupRow /\ y.totals = {} BY <2>2, RestingIs DEF RollupRow
  <2>5. rollup' \in RollupRow /\ rollup'.expired = expired /\ rollup'.totals = {}
    BY <2>1, <2>3, <2>4 DEF RollupRow
  <2> QED BY <1>3, <2>1, <2>5, JobMoves DEF ReadExpired
<1>4. CASE FinishRollup \/ KillRollup
  BY <1>4, RestingIs, JobMoves DEF FinishRollup, KillRollup
<1> QED BY <1>2, <1>3, <1>4

LEMMA WriteHolds ==
  ASSUME UsageInv, WriteDay
  PROVE  UsageInv'
<1>1. PICK entry \in rollup.totals :
        /\ usageDay' = [usageDay EXCEPT ![entry[1]] = entry[2]]
        /\ rollup' = [rollup EXCEPT !.totals = @ \ {entry}]
  BY DEF WriteDay, Recomputed
<1>2. PICK d, n : d = entry[1] /\ n = entry[2] OBVIOUS
<1>3. rollup \in RollupRow /\ rollup.totals \subseteq Days \X (1..TicksPerDay)
  BY DEF UsageInv, RowsInv, RollupRow
<1>4. d \in Days /\ n \in 1..TicksPerDay /\ n <= CallsOf(made, d)
  BY <1>1, <1>2, <1>3 DEF UsageInv, RowsInv
<1>5. UNCHANGED <<clock, made, raw, quota, served>> BY DEF WriteDay
<1>6. /\ usageDay' \in [Days -> -1..TicksPerDay] /\ usageDay'[d] = n
      /\ \A c \in Days \ {d} : usageDay'[c] = usageDay[c]
  <2>1. n \in -1..TicksPerDay BY <1>4, ApiUsageAssumption
  <2> QED BY <1>1, <1>2, <1>4, <2>1 DEF UsageInv, RowsInv
<1>7. rollup' \in RollupRow /\ rollup'.totals \subseteq rollup.totals /\ rollup'.expired = rollup.expired
  BY <1>1, <1>3 DEF RollupRow
<1>8. RowsInv'
  <2>1. \A t : PastRetention(t)' <=> PastRetention(t) BY <1>5 DEF PastRetention
  <2>2. \A c : CallsOf(made, c)' = CallsOf(made, c) /\ CallsOf(raw, c)' = CallsOf(raw, c)
    BY <1>5 DEF CallsOf
  <2>3. ASSUME NEW c \in Days
        PROVE  /\ usageDay'[c] # 0 /\ usageDay'[c] <= CallsOf(made, c)
               /\ CallsOf(made, c) > 0 => CallsOf(raw, c) > 0 \/ usageDay'[c] > 0
    <3>1. CASE c = d BY <1>4, <1>6, <3>1, ApiUsageAssumption
    <3>2. CASE c # d BY <1>6, <3>2 DEF UsageInv, RowsInv
    <3> QED BY <3>1, <3>2
  <2> QED BY <1>5, <1>6, <1>7, <2>1, <2>2, <2>3 DEF UsageInv, RowsInv
<1> QED BY <1>5, <1>8, QuotaStands DEF UsageInv

LEMMA DeleteHolds ==
  ASSUME UsageInv, DeleteRow
  PROVE  UsageInv'
<1>1. PICK t \in rollup.expired :
        /\ raw' = IF usageDay[Day(t)] = -1 THEN raw ELSE raw \ {t}
        /\ rollup' = [rollup EXCEPT !.expired = @ \ {t}]
  BY DEF DeleteRow
<1>2. UNCHANGED <<clock, made, usageDay, quota, served>> BY DEF DeleteRow
<1>3. /\ rollup \in RollupRow /\ rollup.expired \subseteq raw /\ raw \subseteq made /\ made \subseteq Ticks
      /\ Ticks \subseteq Nat /\ Days \subseteq Nat
  BY TimeTypes DEF UsageInv, RowsInv
<1>4. rollup' \in RollupRow /\ rollup'.totals = rollup.totals /\ rollup'.expired = rollup.expired \ {t}
  BY <1>1, <1>3 DEF RollupRow
<1>5. raw' \subseteq raw /\ rollup'.expired \subseteq raw' /\ PastRetention(t)
      /\ \A u \in raw \ raw' : u = t
  BY <1>1, <1>3, <1>4 DEF UsageInv, RowsInv
<1>6. RowsInv'
  <2>1. \A u : PastRetention(u)' <=> PastRetention(u) BY <1>2 DEF PastRetention
  <2>2. \A c : CallsOf(made, c)' = CallsOf(made, c) BY <1>2 DEF CallsOf
  <2>3. ASSUME NEW c \in Days, CallsOf(made, c) > 0 PROVE CallsOf(raw', c) > 0 \/ usageDay[c] > 0
    <3>1. usageDay[c] \in -1..TicksPerDay /\ usageDay[c] # 0 BY DEF UsageInv, RowsInv
    <3>2. CASE usageDay[c] = -1
      <4>1. CallsOf(raw, c) > 0 BY <2>3, <3>2 DEF UsageInv, RowsInv
      <4>2. {u \in raw' : Day(u) = c} = {u \in raw : Day(u) = c} BY <1>1, <1>5, <3>2
      <4> QED BY <4>1, <4>2 DEF CallsOf
    <3>3. CASE usageDay[c] # -1 BY <3>1, <3>3, ApiUsageAssumption
    <3> QED BY <3>2, <3>3
  <2>4. \A c : CallsOf(raw, c)' = CallsOf(raw', c) BY DEF CallsOf
  <2>5. \A u \in made' \ raw' : PastRetention(u) BY <1>2, <1>5 DEF UsageInv, RowsInv
  <2>6. \A u \in rollup'.expired : PastRetention(u) BY <1>4 DEF UsageInv, RowsInv
  <2>7. raw' \subseteq made' BY <1>2, <1>3, <1>5
  <2> QED BY <1>2, <1>4, <1>5, <2>1, <2>2, <2>3, <2>4, <2>5, <2>6, <2>7 DEF UsageInv, RowsInv
<1> QED BY <1>2, <1>6, QuotaStands DEF UsageInv

LEMMA NextUsage == UsageInv /\ [UsageNext]_usageVars => UsageInv'
<1> SUFFICES ASSUME UsageInv, [UsageNext]_usageVars PROVE UsageInv' OBVIOUS
<1>1. CASE \E recorded \in BOOLEAN : Call(recorded) BY <1>1, CallHolds
<1>2. CASE ReadRaw \/ ReadExpired \/ FinishRollup \/ KillRollup BY <1>2, JobHolds
<1>3. CASE WriteDay BY <1>3, WriteHolds
<1>4. CASE DeleteRow BY <1>4, DeleteHolds
<1>5. CASE PassTick BY <1>5, TickHolds
<1>6. CASE UNCHANGED usageVars
  <2>1. UNCHANGED <<clock, made, raw, usageDay, rollup, quota, served>> BY <1>6 DEF usageVars
  <2>2. RowsInv' BY <2>1 DEF UsageInv, RowsInv, PastRetention, CallsOf
  <2> QED BY <2>1, <2>2, QuotaStands DEF UsageInv
<1> QED BY <1>1, <1>2, <1>3, <1>4, <1>5, <1>6 DEF UsageNext

\* What is on a screen is young enough to be among the raw rows.
LEMMA YoungIsRaw ==
  ASSUME RowsInv, NEW t \in made, Day(clock) - Day(t) < RawRetentionDays
  PROVE  t \in raw
<1>1. SUFFICES ASSUME PastRetention(t) PROVE FALSE BY DEF RowsInv
<1>2. clock \in Nat /\ t \in Nat /\ RawRetentionDays \in Nat /\ TicksPerDay \in Nat
  BY TimeTypes, ApiUsageAssumption
<1>3. PICK z : z = RawRetentionDays * TicksPerDay OBVIOUS
<1>4. z \in Nat /\ t <= clock - z BY <1>1, <1>2, <1>3 DEF PastRetention
<1>5. t + RawRetentionDays * TicksPerDay <= clock BY <1>2, <1>3, <1>4
<1>6. Day(t) + RawRetentionDays <= Day(clock) BY <1>2, <1>5, DaysPass
<1> QED BY <1>2, <1>6, DayIs

LEMMA UsageImplies == UsageInv => UsageSafe
<1> SUFFICES ASSUME UsageInv PROVE UsageSafe OBVIOUS
<1>1. /\ clock \in Nat /\ made \subseteq Nat /\ raw \subseteq made /\ Days \subseteq Nat /\ Months \subseteq Nat
      /\ Day(clock) \in Nat
  BY TimeTypes, DayIs DEF UsageInv, RowsInv
<1>2. UsageTypeOK
  BY DEF UsageTypeOK, UsageInv, RowsInv, QuotaInv, RollupRow, QuotaRow
<1>3. DaysAreCountedOnce BY DEF DaysAreCountedOnce, UsageInv, RowsInv
<1>4. ScreenIsRight
  <2>1. ASSUME NEW d \in Days, d <= Day(clock), d > Day(clock) - ChartDays
        PROVE  recentDays(d) = CallsOf(made, d)
    <3>1. ASSUME NEW t \in made, Day(t) = d PROVE t \in raw
      <4>1. Day(clock) - Day(t) < RawRetentionDays
        BY <1>1, <2>1, <3>1, ApiUsageAssumption
      <4> QED BY <4>1, YoungIsRaw DEF UsageInv
    <3>2. {t \in raw : Day(t) = d} = {t \in made : Day(t) = d} BY <1>1, <3>1
    <3>3. PICK n : n = CallsOf(made, d) OBVIOUS
    <3>4. CallsOf(raw, d) = n /\ n \in Nat BY <1>1, <3>2, <3>3, CallsType DEF CallsOf
    <3>5. usageDay[d] <= n /\ usageDay[d] \in Int BY <3>3, ApiUsageAssumption DEF UsageInv, RowsInv
    <3>6. n = 0 => Max({usageDay[d], 0}) = 0 BY <3>5, GreaterOfTwo
    <3> QED BY <3>3, <3>4, <3>6 DEF recentDays
  <2>2. ASSUME Day(clock) % DaysPerMonth < RawRetentionDays
        PROVE  monthToDate = Cardinality({t \in made : Month(t) = Month(clock)})
    <3>1. ASSUME NEW t \in made, Month(t) = Month(clock) PROVE t \in raw
      <4>1. PICK z : z = DaysPerMonth * Month(clock) OBVIOUS
      <4>2. t \in Nat /\ z \in Nat BY <1>1, <4>1, MonthIs, ApiUsageAssumption
      <4>3. z <= Day(t) /\ Day(t) \in Nat BY <3>1, <4>1, <4>2, MonthIs, DayIs
      <4>4. PICK r : r = Day(clock) % DaysPerMonth OBVIOUS
      <4>5. Day(clock) = z + r BY <1>1, <4>1, <4>4, MonthIs
      <4>6. r \in Nat /\ r < RawRetentionDays
        <5>1. DaysPerMonth \in Nat \ {0} BY ApiUsageAssumption
        <5>2. r \in 0..(DaysPerMonth - 1) BY <1>1, <4>4, <5>1, Division
        <5> QED BY <2>2, <4>4, <5>1, <5>2
      <4>7. Day(clock) - Day(t) < RawRetentionDays
        BY <1>1, <4>2, <4>3, <4>5, <4>6, ApiUsageAssumption
      <4> QED BY <4>7, YoungIsRaw DEF UsageInv
    <3>2. {t \in raw : Month(t) = Month(clock)} = {t \in made : Month(t) = Month(clock)}
      BY <1>1, <3>1
    <3> QED BY <3>2 DEF monthToDate
  <2> QED BY <2>1, <2>2 DEF ScreenIsRight
<1>5. QuotaAtMostDoubles BY DEF QuotaAtMostDoubles, UsageInv, QuotaInv
<1> QED BY <1>2, <1>3, <1>4, <1>5 DEF UsageSafe

\* For any lengths of day, month, retention and window, and any quota: no day
\* is counted twice or forgotten, the screens are right at any moment of the
\* night, and a month serves at most twice its quota (rollup_api_usage_job.ts,
\* usage_service.ts, api_rate_limit.ts).
THEOREM UsageHolds == UsageSpec => []UsageSafe
<1> QED BY InitUsage, NextUsage, UsageImplies, PTL DEF UsageSpec
=============================================================================
