----------------------------- MODULE FilesProofs -----------------------------
(***************************************************************************)
(* Theorems about Files for any number of uploads, requests and faults: a  *)
(* row is never without its object whatever overlaps, and the byte counter *)
(* is wrong by no more than what was given back twice.                     *)
(***************************************************************************)
EXTENDS Files, FiniteSetTheorems, TLAPS

USE FilesAssumption DEF FileKinds

-----------------------------------------------------------------------------
(* Rows and bucket. An upload in hand is nobody else's (its key is fresh), *)
(* and what a purge holds is past recovery and will not come back, so what *)
(* it deletes no row is missing.                                           *)

Rising == {"put", "record", "cleanup"}
Rises(q, f) == stage[q] \in Rising /\ file[q] = f

\* Past recovery, and not on its way in.
Settled(f) == f \in begun /\ f \notin fileRows \ lapsed /\ \A q \in Requests : ~Rises(q, f)

Hand(p) ==
  /\ stage[p] \in Rising => /\ file[p] \in begun \ fileRows
                            /\ \A q \in Requests : Rises(q, file[p]) => q = p
                            /\ purpose[p] \in {"upload", "avatar", "logo"}
  /\ stage[p] = "put" => file[p] \notin objects
  /\ stage[p] = "record" => file[p] \in objects
  /\ stage[p] = "retire" => purpose[p] \in {"avatar", "logo"}
  /\ stage[p] = "delete" => file[p] \in Uploads
  /\ stage[p] \in {"purge", "purge row"} => \A f \in old[p] : Settled(f)
  /\ stage[p] = "purge row" => Settled(file[p]) /\ file[p] \notin objects

Orphans == \A f \in objects \ fileRows : f \in left \/ \E q \in Requests : Rises(q, f)

HandsOK ==
  /\ stage \in [Requests -> {"idle", "put", "record", "cleanup", "retire", "delete",
                       "purge", "purge row"}]
  /\ purpose \in [Requests -> FileKinds \cup {"none"}]
  /\ file \in [Requests -> Uploads \cup {NoFile}] /\ old \in [Requests -> SUBSET Uploads]
  /\ loaded \in [Requests -> Nat] /\ believed \in [Requests -> Nat]

\* The rest of FilesTypeOK.
StoreOK ==
  /\ begun \subseteq Uploads /\ fileRows \subseteq begun
  /\ binned \subseteq fileRows /\ lapsed \subseteq binned
  /\ pictures \in [{"avatar", "logo"} -> SUBSET fileRows]
  /\ used \in Nat /\ quota \in Quotas
  /\ objects \subseteq begun /\ left \subseteq begun
  /\ faults \in 0..MaxFaults

BucketInv == StoreOK /\ HandsOK /\ RowsHaveObjects /\ Orphans /\ \A p \in Requests : Hand(p)

Others(p) == \A q \in Requests \ {p} : /\ stage'[q] = stage[q] /\ purpose'[q] = purpose[q]
                                       /\ file'[q] = file[q] /\ old'[q] = old[q]

LEMMA ServedHands ==
  ASSUME HandsOK, NEW p \in Requests, Served(p)
  PROVE  /\ HandsOK' /\ Others(p)
         /\ stage'[p] = "idle" /\ purpose'[p] = "none" /\ old'[p] = {}
BY DEF HandsOK, Served, Others

LEMMA ReceivesHands ==
  ASSUME StoreOK, HandsOK, NEW p \in Requests, NEW k \in FileKinds, NEW f \in Uploads \cup {NoFile},
         NEW olds \in SUBSET Uploads, NEW first \in {"put", "delete", "purge"},
         Receives(p, k, f, olds, first)
  PROVE  /\ HandsOK' /\ Others(p) /\ k \in RequestsDo[p] /\ stage[p] = "idle"
         /\ stage'[p] = first /\ purpose'[p] = k /\ old'[p] = olds /\ file'[p] = f
<1>1. PICK c \in Nat : loaded' = [loaded EXCEPT ![p] = c] /\ believed' = [believed EXCEPT ![p] = c]
  BY DEF Receives, StoreOK
<1>2. /\ stage[p] = "idle" /\ k \in RequestsDo[p]
      /\ purpose' = [purpose EXCEPT ![p] = k] /\ file' = [file EXCEPT ![p] = f]
      /\ old' = [old EXCEPT ![p] = olds] /\ stage' = [stage EXCEPT ![p] = first]
  BY DEF Receives
<1> QED BY <1>1, <1>2 DEF HandsOK, Others

\* What others have in hand stays good, if only p's own upload appears and what
\* disappears is p's or past recovery.
LEMMA HandsOfOthers ==
  ASSUME BucketInv, NEW p \in Requests, Others(p), begun \subseteq begun',
         \A f \in begun : f \in fileRows' => f \in fileRows \/ Rises(p, f),
         \A f \in begun : f \in fileRows' \ lapsed' => f \in fileRows \ lapsed \/ Rises(p, f),
         \A f \in begun : f \in objects' => f \in objects \/ Rises(p, f),
         \A f \in begun : f \in objects => f \in objects' \/ Settled(f) \/ Rises(p, f),
         \A f \in begun : stage'[p] \in Rising /\ file'[p] = f => Rises(p, f)
  PROVE  \A q \in Requests \ {p} : Hand(q)'
<1> SUFFICES ASSUME NEW q \in Requests \ {p} PROVE Hand(q)'
  OBVIOUS
<1>1. Hand(q) /\ Hand(p) /\ stage'[q] = stage[q] /\ purpose'[q] = purpose[q]
      /\ file'[q] = file[q] /\ old'[q] = old[q]
  BY DEF BucketInv, Others
<1>2. \A f \in begun, r \in Requests : stage'[r] \in Rising /\ file'[r] = f => Rises(r, f)
  BY DEF Others, Rises
<1>3. ASSUME NEW f, Settled(f) PROVE Settled(f)'
  <2>1. f \in begun /\ f \notin fileRows \ lapsed /\ \A r \in Requests : ~Rises(r, f)
    BY <1>3 DEF Settled
  <2>2. f \in begun' /\ f \notin fileRows' \ lapsed' BY <2>1
  <2>3. \A r \in Requests : ~(stage'[r] \in Rising /\ file'[r] = f) BY <1>2, <2>1
  <2> QED BY <2>2, <2>3 DEF Settled, Rises
<1>4. CASE stage[q] \in Rising
  <2>1. file[q] \in begun /\ file[q] \notin fileRows /\ ~Rises(p, file[q]) /\ Rises(q, file[q])
        /\ purpose[q] \in {"upload", "avatar", "logo"}
        /\ \A r \in Requests : Rises(r, file[q]) => r = q
    BY <1>1, <1>4 DEF Hand, Rises
  <2>2. file[q] \in begun' /\ file[q] \notin fileRows' BY <2>1
  <2>3. \A r \in Requests : stage'[r] \in Rising /\ file'[r] = file[q] => r = q BY <1>2, <2>1
  <2>4. stage[q] = "put" => file[q] \notin objects' BY <1>1, <2>1 DEF Hand
  <2>5. stage[q] = "record" => file[q] \in objects' BY <1>1, <2>1 DEF Hand, Settled
  <2> QED BY <1>1, <1>4, <2>1, <2>2, <2>3, <2>4, <2>5 DEF Hand, Rises, Rising
<1>5. CASE stage[q] \notin Rising
  <2>1. stage[q] = "purge row" => file[q] \notin objects'
    BY <1>1 DEF Hand, Settled
  <2> QED BY <1>1, <1>3, <1>5, <2>1 DEF Hand, Rises, Rising
<1> QED BY <1>4, <1>5

\* What is lost sight of is in nobody's hand; a step of p that leaves bucket and
\* rows alone and p's upload in p's hand, or none, loses nothing.
LEMMA OrphansStay ==
  ASSUME BucketInv, NEW p \in Requests, Others(p),
         \A f \in objects' \ fileRows' : \/ f \in objects \ fileRows /\ ~Rises(p, f)
                                         \/ f \in left'
                                         \/ stage'[p] \in Rising /\ file'[p] = f,
         left \subseteq left'
  PROVE  Orphans'
<1> SUFFICES ASSUME NEW f \in objects' \ fileRows', f \notin left'
             PROVE  \E q \in Requests : stage'[q] \in Rising /\ file'[q] = f
  BY DEF Orphans, Rises
<1>1. CASE stage'[p] \in Rising /\ file'[p] = f BY <1>1
<1>2. CASE f \in objects \ fileRows /\ ~Rises(p, f)
  <2>1. PICK q \in Requests : Rises(q, f) BY <1>2 DEF BucketInv, Orphans
  <2>2. q # p BY <1>2, <2>1
  <2>3. stage'[q] \in Rising /\ file'[q] = f BY <2>1, <2>2 DEF Rises, Others
  <2> QED BY <2>3
<1> QED BY <1>1, <1>2

LEMMA StartUploadSafe ==
  ASSUME BucketInv, NEW p \in Requests, NEW f \in Uploads, NEW k \in {"upload", "avatar", "logo"},
         StartUpload(p, f, k)
  PROVE  BucketInv'
<1> DEFINE olds == IF k = "upload" THEN {} ELSE pictures[k] \cap liveFiles
<1>1. /\ f \notin begun /\ begun' = begun \cup {f} /\ Receives(p, k, f, olds, "put")
      /\ UNCHANGED <<fileRows, binned, lapsed, pictures, used, quota, objects, left, faults>>
  BY DEF StartUpload, fileTables, bucket
<1>2. StoreOK /\ HandsOK BY DEF BucketInv
<1>3. olds \in SUBSET Uploads BY <1>2 DEF StoreOK
<1> HIDE DEF olds
<1>4. /\ HandsOK' /\ Others(p) /\ stage[p] = "idle"
      /\ stage'[p] = "put" /\ purpose'[p] = k /\ file'[p] = f
  BY <1>1, <1>2, <1>3, ReceivesHands
<1>5. StoreOK' BY <1>1, <1>2 DEF StoreOK
<1>6. RowsHaveObjects' BY <1>1 DEF BucketInv, RowsHaveObjects
<1>7. Orphans' BY <1>1, <1>4, OrphansStay DEF Rises, Rising
<1>8. Hand(p)'
  <2>1. f \in begun' /\ f \notin fileRows' /\ f \notin objects' BY <1>1, <1>2 DEF StoreOK
  <2>2. ASSUME NEW r \in Requests, stage'[r] \in Rising, file'[r] = f, r # p PROVE FALSE
    <3>1. stage[r] \in Rising /\ file[r] = f BY <1>4, <2>2 DEF Others
    <3> QED BY <1>1, <3>1 DEF BucketInv, Hand
  <2> QED BY <1>4, <2>1, <2>2 DEF Hand, Rises, Rising
<1>9. \A q \in Requests \ {p} : Hand(q)' BY <1>1, <1>4, HandsOfOthers
<1> QED BY <1>4, <1>5, <1>6, <1>7, <1>8, <1>9 DEF BucketInv

\* A step that leaves rows and bucket alone and ends with nothing in hand, from
\* a stage in which nothing was rising.
LEMMA RestSafe ==
  ASSUME BucketInv, NEW p \in Requests, HandsOK', Others(p), Hand(p)', stage[p] \notin Rising,
         stage'[p] \notin Rising, StoreOK', UNCHANGED <<begun, fileRows, lapsed, objects, left>>
  PROVE  BucketInv'
<1>1. RowsHaveObjects' BY DEF BucketInv, RowsHaveObjects
<1>2. Orphans' BY OrphansStay DEF Rises
<1>3. \A q \in Requests \ {p} : Hand(q)' BY HandsOfOthers
<1> QED BY <1>1, <1>2, <1>3 DEF BucketInv

LEMMA IdleHand == ASSUME NEW p \in Requests, stage'[p] = "idle" PROVE Hand(p)'
BY DEF Hand, Rising

LEMMA PutSafe ==
  ASSUME BucketInv, NEW p \in Requests, PutObject(p)
  PROVE  BucketInv'
<1>1. /\ stage[p] = "put" /\ objects' = objects \cup {file[p]}
      /\ stage' = [stage EXCEPT ![p] = "record"]
      /\ UNCHANGED <<begun, fileRows, binned, lapsed, pictures, used, quota, left, faults,
                     purpose, file, old, loaded, believed>>
  BY DEF PutObject, Proceeds, fileTables, filesInHand
<1>2. StoreOK /\ HandsOK BY DEF BucketInv
<1>3. HandsOK' /\ Others(p) /\ stage'[p] = "record" BY <1>1, <1>2 DEF HandsOK, Others
<1>4. /\ file[p] \in begun \ fileRows /\ \A q \in Requests : Rises(q, file[p]) => q = p
      /\ purpose[p] \in {"upload", "avatar", "logo"}
  BY <1>1 DEF BucketInv, Hand, Rising
<1>5. StoreOK' BY <1>1, <1>2, <1>4 DEF StoreOK
<1>6. RowsHaveObjects' BY <1>1 DEF BucketInv, RowsHaveObjects
<1>7. Orphans' BY <1>1, <1>3, OrphansStay DEF Rises, Rising
<1>8. Hand(p)'
  <2>1. \A q \in Requests : stage'[q] \in Rising /\ file'[q] = file[p] => q = p
    BY <1>1, <1>3, <1>4 DEF Others, Rises
  <2> QED BY <1>1, <1>3, <1>4, <2>1 DEF Hand, Rises, Rising
<1>9. \A q \in Requests \ {p} : Hand(q)'
  <2>1. \A f : file[p] = f => Rises(p, f) BY <1>1 DEF Rises, Rising
  <2> QED BY <1>1, <1>3, <2>1, HandsOfOthers
<1> QED BY <1>3, <1>5, <1>6, <1>7, <1>8, <1>9 DEF BucketInv

LEMMA RecordSafe ==
  ASSUME BucketInv, NEW p \in Requests, Record(p)
  PROVE  BucketInv'
<1>1. stage[p] = "record" /\ UNCHANGED <<begun, binned, lapsed, quota, objects, left, faults>>
  BY DEF Record, bucket
<1>2. StoreOK /\ HandsOK BY DEF BucketInv
<1>3. /\ file[p] \in begun \ fileRows /\ \A q \in Requests : Rises(q, file[p]) => q = p
      /\ purpose[p] \in {"upload", "avatar", "logo"} /\ file[p] \in objects
  BY <1>1 DEF BucketInv, Hand, Rising
<1>4. \A f : file[p] = f => Rises(p, f) BY <1>1 DEF Rises, Rising
<1>5. Size[file[p]] \in Nat BY <1>2, <1>3 DEF StoreOK
<1>6. CASE ~StillFits(file[p])
  <2>1. /\ stage' = [stage EXCEPT ![p] = "cleanup"]
        /\ UNCHANGED <<fileRows, used, pictures, purpose, file, old, loaded, believed>>
    BY <1>6 DEF Record, Proceeds, filesInHand
  <2>2. HandsOK' /\ Others(p) /\ stage'[p] = "cleanup" BY <1>2, <2>1 DEF HandsOK, Others
  <2>3. StoreOK' BY <1>1, <1>2, <2>1 DEF StoreOK
  <2>4. RowsHaveObjects' BY <1>1, <2>1 DEF BucketInv, RowsHaveObjects
  <2>5. Orphans' BY <1>1, <2>1, <2>2, OrphansStay DEF Rises, Rising
  <2>6. Hand(p)'
    <3>1. \A q \in Requests : stage'[q] \in Rising /\ file'[q] = file[p] => q = p
      BY <1>3, <2>1, <2>2 DEF Others, Rises
    <3> QED BY <1>1, <1>3, <2>1, <2>2, <3>1 DEF Hand, Rises, Rising
  <2>7. \A q \in Requests \ {p} : Hand(q)' BY <1>1, <1>4, <2>1, <2>2, HandsOfOthers
  <2> QED BY <2>2, <2>3, <2>4, <2>5, <2>6, <2>7 DEF BucketInv
<1>7. CASE StillFits(file[p])
  <2>1. fileRows' = fileRows \cup {file[p]} /\ used' = used + Size[file[p]]
    BY <1>7 DEF Record
  <2>2. /\ HandsOK' /\ Others(p) /\ stage'[p] \in {"idle", "retire"}
        /\ stage'[p] = "retire" => purpose'[p] \in {"avatar", "logo"}
        /\ pictures' \in [{"avatar", "logo"} -> SUBSET fileRows']
    <3>1. CASE purpose[p] = "upload"
      <4>1. Served(p) /\ UNCHANGED pictures BY <1>7, <3>1 DEF Record
      <4>2. pictures' \in [{"avatar", "logo"} -> SUBSET fileRows'] BY <1>2, <2>1, <4>1 DEF StoreOK
      <4> QED BY <1>2, <4>1, <4>2, ServedHands
    <3>2. CASE purpose[p] # "upload"
      <4>1. /\ pictures' = [pictures EXCEPT ![purpose[p]] = @ \cup {file[p]}]
            /\ believed' = [believed EXCEPT ![p] = used'] \/ believed' = believed
            /\ stage' = [stage EXCEPT ![p] = "retire"]
            /\ UNCHANGED <<purpose, file, old, loaded>>
        BY <1>7, <3>2 DEF Record, Proceeds
      <4>2. used' \in Nat BY <1>2, <1>5, <2>1 DEF StoreOK
      <4>5. believed' \in [Requests -> Nat] BY <1>2, <4>1, <4>2 DEF HandsOK
      <4>3. HandsOK' /\ Others(p) /\ stage'[p] = "retire" BY <1>2, <4>1, <4>5 DEF HandsOK, Others
      <4>4. pictures' \in [{"avatar", "logo"} -> SUBSET fileRows']
        BY <1>2, <1>3, <2>1, <3>2, <4>1 DEF StoreOK
      <4> QED BY <1>3, <3>2, <4>1, <4>3, <4>4
    <3> QED BY <3>1, <3>2
  <2>3. StoreOK' BY <1>1, <1>2, <1>3, <1>5, <2>1, <2>2 DEF StoreOK
  <2>4. RowsHaveObjects' BY <1>1, <1>3, <2>1 DEF BucketInv, RowsHaveObjects
  <2>5. Orphans' BY <1>1, <2>1, <2>2, OrphansStay DEF Rises
  <2>6. Hand(p)' BY <2>2 DEF Hand, Rising
  <2>7. \A q \in Requests \ {p} : Hand(q)'
    BY <1>1, <1>4, <2>1, <2>2, HandsOfOthers DEF Rising
  <2> QED BY <2>2, <2>3, <2>4, <2>5, <2>6, <2>7 DEF BucketInv
<1> QED BY <1>6, <1>7

LEMMA CleanUpSafe ==
  ASSUME BucketInv, NEW p \in Requests, CleanUp(p)
  PROVE  BucketInv'
<1>1. /\ stage[p] = "cleanup" /\ Served(p)
      /\ UNCHANGED <<begun, fileRows, binned, lapsed, pictures, used, quota>>
      /\ \/ objects' = objects \ {file[p]} /\ UNCHANGED <<left, faults>>
         \/ /\ faults < MaxFaults /\ faults' = faults + 1 /\ left' = left \cup {file[p]}
            /\ UNCHANGED objects
  BY DEF CleanUp, WithoutObject, fileTables
<1>2. StoreOK /\ HandsOK BY DEF BucketInv
<1>3. HandsOK' /\ Others(p) /\ stage'[p] = "idle" BY <1>1, <1>2, ServedHands
<1>4. file[p] \in begun \ fileRows BY <1>1 DEF BucketInv, Hand, Rising
<1>5. \A f : file[p] = f <=> Rises(p, f) BY <1>1 DEF Rises, Rising
<1>6. StoreOK' BY <1>1, <1>2, <1>4 DEF StoreOK
<1>7. RowsHaveObjects' BY <1>1, <1>4 DEF BucketInv, RowsHaveObjects
<1>8. Orphans' BY <1>1, <1>3, <1>5, OrphansStay
<1>9. Hand(p)' BY <1>3, IdleHand
<1>10. \A q \in Requests \ {p} : Hand(q)' BY <1>1, <1>3, <1>5, HandsOfOthers DEF Rising
<1> QED BY <1>3, <1>6, <1>7, <1>8, <1>9, <1>10 DEF BucketInv

LEMMA GivenBackNat == ASSUME StoreOK, NEW f \in Uploads PROVE GivenBack(f) \in Nat
BY DEF StoreOK, GivenBack

\* A deletion, a replaced picture or a saved one.
LEMMA DestroySafe ==
  ASSUME BucketInv, NEW p \in Requests, NEW f,
         StartDestroy(p, f) \/ Delete(p) \/ Retire(p, f) \/ SaveAvatar(p) \/ SaveLogo(p)
  PROVE  BucketInv'
<1>1. StoreOK /\ HandsOK BY DEF BucketInv
<1>2. UNCHANGED <<begun, fileRows, lapsed, pictures, quota, objects, left, faults>>
  BY DEF StartDestroy, Delete, Retire, SaveAvatar, SaveLogo, SoftDelete, fileTables, bucket
<1>3. CASE StartDestroy(p, f)
  <2>1. Receives(p, "delete", f, {}, "delete") /\ UNCHANGED <<binned, used>>
    BY <1>3 DEF StartDestroy, fileTables
  <2>5. f \in Uploads BY <1>1, <1>3 DEF StoreOK, StartDestroy, liveFiles
  <2>2. HandsOK' /\ Others(p) /\ stage[p] = "idle" /\ stage'[p] = "delete" /\ file'[p] = f
    BY <1>1, <2>1, <2>5, ReceivesHands DEF FileKinds
  <2>3. StoreOK' BY <1>1, <1>2, <2>1 DEF StoreOK
  <2>4. Hand(p)' BY <2>2, <2>5 DEF Hand, Rising
  <2> QED BY <1>2, <2>2, <2>3, <2>4, RestSafe DEF Rising
<1>4. CASE Retire(p, f)
  <2>1. /\ stage[p] = "retire" /\ SoftDelete(f) /\ old' = [old EXCEPT ![p] = @ \ {f}]
        /\ UNCHANGED <<stage, purpose, file, loaded, believed>>
    BY <1>4 DEF Retire
  <2>2. HandsOK' /\ Others(p) /\ stage'[p] = "retire" BY <1>1, <2>1 DEF HandsOK, Others
  <2>6. f \in Uploads BY <1>1, <1>4 DEF HandsOK, Retire
  <2>3. GivenBack(f) \in Nat BY <1>1, <2>6, GivenBackNat
  <2>4. StoreOK' BY <1>1, <1>2, <2>1, <2>3 DEF StoreOK, SoftDelete
  <2>5. Hand(p)' BY <2>1 DEF BucketInv, Hand, Rising
  <2> QED BY <1>2, <2>1, <2>2, <2>4, <2>5, RestSafe DEF Rising
<1>5. CASE Delete(p) \/ SaveAvatar(p) \/ SaveLogo(p)
  <2>1. Served(p) /\ stage[p] \in {"delete", "retire"}
    BY <1>5 DEF Delete, SaveAvatar, SaveLogo
  <2>2. HandsOK' /\ Others(p) /\ stage'[p] = "idle" BY <1>1, <2>1, ServedHands
  <2>3. binned' \subseteq fileRows /\ lapsed \subseteq binned' /\ used' \in Nat
    <3>1. CASE Delete(p)
      <4>1. file[p] \in Uploads BY <3>1 DEF BucketInv, Hand, Delete
      <4>2. GivenBack(file[p]) \in Nat BY <1>1, <4>1, GivenBackNat
      <4> QED BY <1>1, <3>1, <4>2 DEF Delete, SoftDelete, StoreOK
    <3>2. CASE SaveAvatar(p) \/ SaveLogo(p)
      <4>1. believed[p] \in Nat BY <1>1 DEF HandsOK
      <4> QED BY <1>1, <3>2, <4>1 DEF SaveAvatar, SaveLogo, StoreOK, fileTables
    <3> QED BY <1>5, <3>1, <3>2
  <2>4. StoreOK' BY <1>1, <1>2, <2>3 DEF StoreOK
  <2>5. Hand(p)' BY <2>2, IdleHand
  <2> QED BY <1>2, <2>1, <2>2, <2>4, <2>5, RestSafe DEF Rising
<1> QED BY <1>3, <1>4, <1>5

\* The purge, up to its rows: an object that goes is past recovery.
LEMMA PurgeSafe ==
  ASSUME BucketInv, NEW p \in Requests, NEW f,
         StartPurge(p) \/ PurgeObject(p, f) \/ PurgeRefused(p, f) \/ PurgeDone(p)
  PROVE  BucketInv'
<1>1. StoreOK /\ HandsOK BY DEF BucketInv
<1>2. UNCHANGED <<begun, fileRows, binned, lapsed, pictures, used, quota, left>>
  BY DEF StartPurge, PurgeObject, PurgeRefused, PurgeDone, fileTables, bucket
<1>3. CASE StartPurge(p)
  <2>1. Receives(p, "purge", NoFile, lapsed, "purge") /\ UNCHANGED <<objects, faults>>
    BY <1>3 DEF StartPurge, Expired, bucket
  <2>2. lapsed \in SUBSET Uploads BY <1>1 DEF StoreOK
  <2>3. /\ HandsOK' /\ Others(p) /\ stage[p] = "idle" /\ stage'[p] = "purge"
        /\ old'[p] = lapsed
    BY <1>1, <2>1, <2>2, ReceivesHands
  <2>4. StoreOK' BY <1>1, <1>2, <2>1 DEF StoreOK
  <2>5. ASSUME NEW g \in lapsed PROVE Settled(g)'
    <3>1. g \in begun' /\ g \notin fileRows' \ lapsed' BY <1>1, <1>2 DEF StoreOK
    <3>2. ASSUME NEW q \in Requests, stage'[q] \in Rising, file'[q] = g PROVE FALSE
      <4>1. q # p BY <2>3, <3>2 DEF Rising
      <4>2. stage[q] \in Rising /\ file[q] = g BY <2>3, <3>2, <4>1 DEF Others
      <4>3. g \notin fileRows BY <4>2 DEF BucketInv, Hand
      <4> QED BY <1>1, <4>3 DEF StoreOK
    <3> QED BY <3>1, <3>2 DEF Settled, Rises
  <2>6. Hand(p)' BY <2>3, <2>5 DEF Hand, Rising
  <2> QED BY <1>2, <2>1, <2>3, <2>4, <2>6, RestSafe DEF Rising
<1>4. CASE PurgeRefused(p, f)
  <2>1. /\ stage[p] = "purge" /\ faults < MaxFaults /\ faults' = faults + 1
        /\ old' = [old EXCEPT ![p] = @ \ {f}]
        /\ UNCHANGED <<objects, stage, purpose, file, loaded, believed>>
    BY <1>4 DEF PurgeRefused, bucket
  <2>2. HandsOK' /\ Others(p) /\ stage'[p] = "purge" BY <1>1, <2>1 DEF HandsOK, Others
  <2>3. StoreOK' BY <1>1, <1>2, <2>1 DEF StoreOK
  <2>4. old'[p] \subseteq old[p] BY <1>1, <2>1 DEF HandsOK
  <2>5. \A g \in old[p] : Settled(g)
    BY <2>1 DEF BucketInv, Hand
  <2>6. \A g \in old'[p] : Settled(g)' BY <1>2, <2>1, <2>4, <2>5 DEF Settled, Rises
  <2>7. Hand(p)' BY <2>2, <2>6 DEF Hand, Rising
  <2> QED BY <1>2, <2>1, <2>2, <2>3, <2>7, RestSafe DEF Rising
<1>5. CASE PurgeDone(p)
  <2>1. Served(p) /\ stage[p] = "purge" /\ UNCHANGED <<objects, faults>>
    BY <1>5 DEF PurgeDone, bucket
  <2>2. HandsOK' /\ Others(p) /\ stage'[p] = "idle" BY <1>1, <2>1, ServedHands
  <2>3. StoreOK' BY <1>1, <1>2, <2>1 DEF StoreOK
  <2>4. Hand(p)' BY <2>2, IdleHand
  <2> QED BY <1>2, <2>1, <2>2, <2>3, <2>4, RestSafe DEF Rising
<1>6. CASE PurgeObject(p, f)
  <2>1. /\ stage[p] = "purge" /\ f \in old[p] /\ objects' = objects \ {f}
        /\ old' = [old EXCEPT ![p] = @ \ {f}] /\ file' = [file EXCEPT ![p] = f]
        /\ stage' = [stage EXCEPT ![p] = "purge row"]
        /\ UNCHANGED <<faults, purpose, loaded, believed>>
    BY <1>6 DEF PurgeObject, Proceeds
  <2>2. HandsOK' /\ Others(p) /\ stage'[p] = "purge row" /\ file'[p] = f
        /\ old'[p] \subseteq old[p]
    BY <1>1, <2>1 DEF HandsOK, Others
  <2>3. StoreOK' BY <1>1, <1>2, <2>1 DEF StoreOK
  <2>4. \A g \in old[p] : Settled(g) BY <2>1 DEF BucketInv, Hand
  <2>5. Settled(f) BY <2>1, <2>4
  <2>6. RowsHaveObjects' BY <1>2, <2>1, <2>5 DEF BucketInv, RowsHaveObjects, Settled
  <2>7. Orphans' BY <1>2, <2>1, <2>2, OrphansStay DEF Rises, Rising
  <2>8. \A q \in Requests \ {p} : Hand(q)'
    BY <1>2, <2>1, <2>2, <2>5, HandsOfOthers DEF Rising
  <2>9. ASSUME NEW g, Settled(g) PROVE Settled(g)'
    BY <1>2, <2>2, <2>9 DEF Settled, Rises, Others, Rising
  <2>11. Settled(f)' /\ \A g \in old'[p] : Settled(g)' BY <2>2, <2>4, <2>5, <2>9
  <2>12. /\ file'[p] \in begun' /\ file'[p] \notin fileRows' \ lapsed'
         /\ \A q \in Requests : ~(stage'[q] \in Rising /\ file'[q] = file'[p])
    BY <2>2, <2>11 DEF Settled, Rises
  <2>13. Settled(file[p])' BY <2>12 DEF Settled, Rises
  <2>14. (\A g \in old[p] : Settled(g))' BY <2>11
  <2>15. f \notin objects' /\ file'[p] = f BY <2>1, <2>2
  <2>10. Hand(p)' BY <2>2, <2>13, <2>14, <2>15 DEF Hand, Rising
  <2> QED BY <2>2, <2>3, <2>6, <2>7, <2>8, <2>10 DEF BucketInv
<1> QED BY <1>3, <1>4, <1>5, <1>6

LEMMA PurgeRowSafe ==
  ASSUME BucketInv, NEW p \in Requests, PurgeRow(p)
  PROVE  BucketInv'
<1>1. /\ stage[p] = "purge row" /\ fileRows' = fileRows \ {file[p]}
      /\ binned' = binned \ {file[p]} /\ lapsed' = lapsed \ {file[p]}
      /\ pictures' = [k \in DOMAIN pictures |-> pictures[k] \ {file[p]}]
      /\ file' = [file EXCEPT ![p] = NoFile] /\ stage' = [stage EXCEPT ![p] = "purge"]
      /\ UNCHANGED <<begun, used, quota, objects, left, faults, purpose, old, loaded, believed>>
  BY DEF PurgeRow, Proceeds, bucket
<1>2. StoreOK /\ HandsOK BY DEF BucketInv
<1>3. HandsOK' /\ Others(p) /\ stage'[p] = "purge" /\ old'[p] = old[p]
  BY <1>1, <1>2 DEF HandsOK, Others
<1>4. file[p] \notin objects /\ file[p] \in begun /\ \A g \in old[p] : Settled(g)
  BY <1>1 DEF BucketInv, Hand, Settled
<1>5. StoreOK'
  <2>1. pictures' \in [{"avatar", "logo"} -> SUBSET fileRows'] BY <1>1, <1>2 DEF StoreOK
  <2> QED BY <1>1, <1>2, <2>1 DEF StoreOK
<1>6. RowsHaveObjects' BY <1>1 DEF BucketInv, RowsHaveObjects
<1>7. Orphans' BY <1>1, <1>3, <1>4, OrphansStay DEF Rises, Rising
<1>8. \A q \in Requests \ {p} : Hand(q)' BY <1>1, <1>3, HandsOfOthers DEF Rising
<1>9. ASSUME NEW g, Settled(g) PROVE Settled(g)'
  <2>1. g \in begun /\ g \notin fileRows \ lapsed /\ \A q \in Requests : ~Rises(q, g)
    BY <1>9 DEF Settled
  <2>2. \A q \in Requests : ~(stage'[q] \in Rising /\ file'[q] = g)
    BY <1>3, <2>1 DEF Rises, Others, Rising
  <2> QED BY <1>1, <2>1, <2>2 DEF Settled, Rises
<1>10. Hand(p)' BY <1>3, <1>4, <1>9 DEF Hand, Rising
<1> QED BY <1>3, <1>5, <1>6, <1>7, <1>8, <1>10 DEF BucketInv

LEMMA WorldSafe ==
  ASSUME BucketInv, (\E f \in Uploads : Lapse(f)) \/ (\E n \in Quotas : SetQuota(n))
  PROVE  BucketInv'
<1>1. UNCHANGED <<begun, fileRows, binned, pictures, used, objects, left, faults, stage,
                  purpose, file, old, loaded, believed>>
      /\ lapsed \subseteq lapsed' /\ lapsed' \subseteq binned /\ quota' \in Quotas
  BY DEF Lapse, SetQuota, fileTables, bucket, filesInHand, BucketInv, StoreOK
<1>2. StoreOK' BY <1>1 DEF StoreOK, BucketInv
<1>3. HandsOK' BY <1>1 DEF HandsOK, BucketInv
<1>4. RowsHaveObjects' /\ Orphans'
  BY <1>1 DEF BucketInv, RowsHaveObjects, Orphans, Rises
<1>5. \A g : Settled(g) => Settled(g)' BY <1>1 DEF Settled, Rises
<1>6. ASSUME NEW p \in Requests PROVE Hand(p)'
  <2>1. Hand(p) BY DEF BucketInv
  <2> QED BY <1>1, <1>5, <2>1 DEF Hand, Rises
<1> QED BY <1>2, <1>3, <1>4, <1>6 DEF BucketInv

LEMMA KillSafe ==
  ASSUME BucketInv, NEW p \in Requests, KillRequest(p)
  PROVE  BucketInv'
<1>1. /\ faults < MaxFaults /\ faults' = faults + 1 /\ Served(p)
      /\ left' = IF stage[p] \in {"record", "cleanup"} THEN left \cup {file[p]} ELSE left
      /\ UNCHANGED <<begun, fileRows, binned, lapsed, pictures, used, quota, objects>>
  BY DEF KillRequest, fileTables
<1>2. StoreOK /\ HandsOK /\ Hand(p) BY DEF BucketInv
<1>3. HandsOK' /\ Others(p) /\ stage'[p] = "idle" BY <1>1, <1>2, ServedHands
<1>4. StoreOK'
  <2>1. left' \subseteq begun BY <1>1, <1>2 DEF StoreOK, Hand, Rising
  <2> QED BY <1>1, <1>2, <2>1 DEF StoreOK
<1>5. RowsHaveObjects' BY <1>1 DEF BucketInv, RowsHaveObjects
<1>6. Orphans'
  <2>1. \A f \in objects : Rises(p, f) => f \in left' BY <1>1, <1>2 DEF Hand, Rises, Rising
  <2> QED BY <1>1, <1>3, <2>1, OrphansStay
<1>7. Hand(p)' BY <1>3, IdleHand
<1>8. \A q \in Requests \ {p} : Hand(q)' BY <1>1, <1>3, HandsOfOthers DEF Rising
<1> QED BY <1>3, <1>4, <1>5, <1>6, <1>7, <1>8 DEF BucketInv

LEMMA BucketStep ==
  ASSUME BucketInv, [FilesNext \/ \E p \in Requests : SaveLogo(p)]_filesVars
  PROVE  BucketInv'
<1>1. CASE UNCHANGED filesVars
  BY <1>1 DEF filesVars, fileTables, bucket, filesInHand, BucketInv, StoreOK, HandsOK,
              RowsHaveObjects, Orphans, Hand, Settled, Rises
<1>2. CASE \E p \in Requests : SaveLogo(p) BY <1>2, DestroySafe
<1>3. CASE FilesNext
  BY <1>3, StartUploadSafe, PutSafe, RecordSafe, CleanUpSafe, DestroySafe, PurgeSafe, PurgeRowSafe,
     WorldSafe, KillSafe DEF FilesNext, Receive, ServeStep
<1> QED BY <1>1, <1>2, <1>3

LEMMA BucketStart == FilesInit => BucketInv
BY DEF FilesInit, BucketInv, StoreOK, HandsOK, RowsHaveObjects, Orphans, Hand, Rising, FileKinds

LEMMA TwiceStep ==
  ASSUME BucketInv, twice \in Nat, [FilesNext \/ \E p \in Requests : SaveLogo(p)]_filesVars
  PROVE  twice' \in Nat
<1>1. ASSUME NEW f \in Uploads, SoftDelete(f) PROVE twice' \in Nat
  <2>1. Size[f] \in Nat OBVIOUS
  <2> QED BY <1>1, <2>1 DEF SoftDelete
<1>2. ASSUME NEW p \in Requests, Delete(p) PROVE twice' \in Nat
  <2>1. file[p] \in Uploads BY <1>2 DEF BucketInv, Hand, Delete
  <2> QED BY <1>1, <1>2, <2>1 DEF Delete
<1>3. ASSUME NEW p \in Requests, NEW f \in Uploads, Retire(p, f) PROVE twice' \in Nat
  BY <1>1, <1>3 DEF Retire
<1>4. ASSUME NEW p \in Requests, NEW f \in Uploads, PurgeObject(p, f) \/ PurgeRefused(p, f)
      PROVE  twice' = twice
  BY <1>4 DEF PurgeObject, PurgeRefused, fileTables
<1>5. ASSUME NEW p \in Requests,
             \/ Receive(p) \/ PutObject(p) \/ Record(p) \/ CleanUp(p) \/ SaveAvatar(p)
             \/ SaveLogo(p) \/ PurgeRow(p) \/ PurgeDone(p) \/ KillRequest(p)
      PROVE  twice' = twice
  BY <1>5 DEF Receive, StartUpload, StartDestroy, StartPurge, PutObject, Record, CleanUp, SaveAvatar,
     SaveLogo, PurgeRow, PurgeDone, KillRequest, fileTables
<1>6. CASE (\E f \in Uploads : Lapse(f)) \/ (\E n \in Quotas : SetQuota(n)) \/ UNCHANGED filesVars
  BY <1>6 DEF Lapse, SetQuota, filesVars, fileTables
<1> QED BY <1>2, <1>3, <1>4, <1>5, <1>6 DEF FilesNext, ServeStep

LEMMA BucketInvGives == BucketInv /\ twice \in Nat => BucketMatchesRows
<1> SUFFICES ASSUME BucketInv, twice \in Nat PROVE BucketMatchesRows OBVIOUS
<1>1. FilesTypeOK BY DEF FilesTypeOK, BucketInv, StoreOK, HandsOK
<1>2. NothingUnclaimed BY DEF NothingUnclaimed, BucketInv, Orphans, Rises, InFlight
<1> QED BY <1>1, <1>2 DEF BucketMatchesRows, BucketInv

(* Rows and bucket tell one story, whatever overlaps, is killed or is      *)
(* refused, a saved logo included (BucketMatchesRows).                     *)
THEOREM BucketAlwaysMatchesRows ==
  FilesInit /\ [][FilesNext \/ \E p \in Requests : SaveLogo(p)]_filesVars => []BucketMatchesRows
<1>1. FilesInit => BucketInv /\ twice \in Nat BY BucketStart DEF FilesInit
<1>2. /\ BucketInv /\ twice \in Nat /\ [FilesNext \/ \E p \in Requests : SaveLogo(p)]_filesVars
      => BucketInv' /\ (twice \in Nat)'
  BY BucketStep, TwiceStep
<1> QED BY <1>1, <1>2, BucketInvGives, PTL

-----------------------------------------------------------------------------
(* The counter. Any number of processes delete and replace: what is given  *)
(* back is of a live file, or counted in `twice`.                          *)

LEMMA BytesAdd ==
  ASSUME NEW S \in SUBSET Uploads, NEW f \in Uploads \ S, IsFiniteSet(Bytes(S))
  PROVE  /\ IsFiniteSet(Bytes(S \cup {f}))
         /\ Cardinality(Bytes(S \cup {f})) = Cardinality(Bytes(S)) + Size[f]
<1> DEFINE T == {f} \X (1..Size[f])
<1>1. Size[f] \in Nat \ {0} OBVIOUS
<1>2. IsFiniteSet(1..Size[f]) /\ Cardinality(1..Size[f]) = Size[f] BY <1>1, FS_Interval
<1>3. IsFiniteSet({f}) /\ Cardinality({f}) = 1 BY FS_Singleton
<1>4. IsFiniteSet(T) /\ Cardinality(T) = 1 * Size[f] BY <1>2, <1>3, FS_Product
<1>5. Bytes(S \cup {f}) = Bytes(S) \cup T BY DEF Bytes
<1>6. Bytes(S) \cap T = {} BY DEF Bytes
<1> HIDE DEF T
<1>7. /\ IsFiniteSet(Bytes(S) \cup T)
      /\ Cardinality(Bytes(S) \cup T) = Cardinality(Bytes(S)) + Cardinality(T)
                                       - Cardinality(Bytes(S) \cap T)
  BY <1>4, FS_Union
<1>8. Cardinality(Bytes(S) \cap T) = 0 BY <1>6, FS_EmptySet
<1>9. Cardinality(Bytes(S)) \in Nat BY FS_CardinalityType
<1>10. Size[f] \in Int /\ Cardinality(T) = Size[f] BY <1>1, <1>4
<1>11. Cardinality(Bytes(S) \cup T) = Cardinality(Bytes(S)) + Size[f] BY <1>7, <1>8, <1>9, <1>10
<1> QED BY <1>5, <1>7, <1>11

LEMMA BytesRemove ==
  ASSUME NEW S \in SUBSET Uploads, NEW f \in S, IsFiniteSet(Bytes(S))
  PROVE  /\ IsFiniteSet(Bytes(S \ {f}))
         /\ Cardinality(Bytes(S)) = Cardinality(Bytes(S \ {f})) + Size[f]
         /\ Cardinality(Bytes(S \ {f})) \in Nat
<1>1. Bytes(S \ {f}) \subseteq Bytes(S) BY DEF Bytes
<1>2. IsFiniteSet(Bytes(S \ {f})) BY <1>1, FS_Subset
<1>3. (S \ {f}) \cup {f} = S /\ S \ {f} \in SUBSET Uploads /\ f \in Uploads \ (S \ {f}) OBVIOUS
<1>4. Cardinality(Bytes(S)) = Cardinality(Bytes(S \ {f})) + Size[f]
  BY <1>2, <1>3, BytesAdd
<1> QED BY <1>2, <1>4, FS_CardinalityType

Still == liveFiles' = liveFiles /\ used' = used
Takes(f) == /\ f \in Uploads \ liveFiles /\ StillFits(f)
            /\ liveFiles' = liveFiles \cup {f} /\ used' = used + Size[f]
Gives(f) == f \in liveFiles /\ liveFiles' = liveFiles \ {f} /\ used' = GivenBack(f)

TrailInv == BucketInv /\ twice \in Nat /\ IsFiniteSet(Bytes(liveFiles)) /\ CounterTrails

GivesAgain(f) == /\ f \in Uploads /\ liveFiles' = liveFiles
                 /\ used' = GivenBack(f) /\ twice' = twice + Size[f]

Movement == \/ (Still \/ \E f \in Uploads : Takes(f) \/ Gives(f)) /\ twice' = twice
            \/ \E f \in Uploads : GivesAgain(f)

\* Whoever deletes finds the file live, or somebody has deleted it before.
LEMMA SoftDeletes ==
  ASSUME NEW f \in Uploads, SoftDelete(f)
  PROVE  Movement
<1>1. CASE f \in liveFiles
  BY <1>1 DEF SoftDelete, Movement, Gives, liveFiles
<1>2. CASE f \notin liveFiles
  BY <1>2 DEF SoftDelete, Movement, GivesAgain, liveFiles
<1> QED BY <1>1, <1>2

LEMMA Recorded ==
  ASSUME BucketInv, NEW p \in Requests, Record(p)
  PROVE  Movement
<1>1. file[p] \in Uploads \ liveFiles /\ file[p] \notin binned
  BY DEF Record, BucketInv, Hand, Rising, StoreOK, liveFiles
<1>2. UNCHANGED <<binned, twice>> BY DEF Record
<1>3. CASE StillFits(file[p])
  <2>1. fileRows' = fileRows \cup {file[p]} /\ used' = used + Size[file[p]] BY <1>3 DEF Record
  <2>2. liveFiles' = liveFiles \cup {file[p]} BY <1>1, <1>2, <2>1 DEF liveFiles
  <2> QED BY <1>1, <1>2, <1>3, <2>1, <2>2 DEF Movement, Takes
<1>4. CASE ~StillFits(file[p]) BY <1>2, <1>4 DEF Record, Movement, Still, liveFiles
<1> QED BY <1>3, <1>4

\* The purge's rows are not live.
LEMMA Purged ==
  ASSUME BucketInv, NEW p \in Requests, PurgeRow(p)
  PROVE  Movement
<1>1. Settled(file[p]) /\ StoreOK BY DEF PurgeRow, BucketInv, Hand
<1>2. file[p] \notin liveFiles BY <1>1 DEF Settled, StoreOK, liveFiles
<1> QED BY <1>2 DEF PurgeRow, Movement, Still, liveFiles

LEMMA EveryMovement ==
  ASSUME BucketInv, [FilesNext]_filesVars
  PROVE  Movement /\ (quota' = quota \/ (Still /\ quota' \in Quotas /\ twice' = twice))
<1>1. StoreOK /\ HandsOK BY DEF BucketInv
<1>2. ASSUME NEW p \in Requests, Delete(p) PROVE Movement /\ quota' = quota
  <2>1. file[p] \in Uploads BY <1>2 DEF BucketInv, Hand, Delete
  <2> QED BY <1>2, <2>1, SoftDeletes DEF Delete
<1>3. ASSUME NEW p \in Requests, NEW f \in Uploads, Retire(p, f) PROVE Movement /\ quota' = quota
  BY <1>3, SoftDeletes DEF Retire
<1>4. ASSUME NEW p \in Requests, Record(p) \/ PurgeRow(p) PROVE Movement /\ quota' = quota
  BY <1>4, Recorded, Purged DEF Record, PurgeRow
<1>5. ASSUME NEW p \in Requests,
             \/ Receive(p) \/ PutObject(p) \/ CleanUp(p) \/ SaveAvatar(p) \/ PurgeDone(p)
             \/ KillRequest(p) \/ \E f \in Uploads : PurgeObject(p, f) \/ PurgeRefused(p, f)
      PROVE  Movement /\ quota' = quota
  <2>1. UNCHANGED <<fileRows, binned, used, twice, quota>>
    BY <1>5 DEF Receive, StartUpload, StartDestroy, StartPurge, PutObject, CleanUp, SaveAvatar,
       PurgeDone, KillRequest, PurgeObject, PurgeRefused, fileTables
  <2> QED BY <2>1 DEF Movement, Still, liveFiles
<1>6. CASE (\E f \in Uploads : Lapse(f)) \/ (\E n \in Quotas : SetQuota(n)) \/ UNCHANGED filesVars
  BY <1>1, <1>6 DEF Lapse, SetQuota, filesVars, fileTables, Movement, Still, liveFiles, StoreOK
<1>7. CASE \E p \in Requests : \/ Receive(p) \/ ServeStep(p) \/ KillRequest(p)
                               \/ \E f \in Uploads : PurgeRefused(p, f)
  BY <1>2, <1>3, <1>4, <1>5, <1>7 DEF ServeStep
<1> QED BY <1>6, <1>7 DEF FilesNext

\* What each movement does to the two sums.
LEMMA MovementCounts ==
  ASSUME TrailInv, Movement
  PROVE  /\ IsFiniteSet(Bytes(liveFiles)') /\ CounterTrails'
         /\ \A f \in liveFiles' \ liveFiles :
              f \in Attachments \/ stored' <= quota + twice
         /\ twice' = 0 => \/ Still
                          \/ \E f \in Uploads : Takes(f)
                          \/ \E f \in liveFiles : liveFiles' = liveFiles \ {f} /\ used' + Size[f] = used
<1>1. /\ used \in Nat /\ quota \in Nat /\ twice \in Nat /\ liveFiles \in SUBSET Uploads
      /\ IsFiniteSet(Bytes(liveFiles)) /\ used <= stored /\ stored <= used + twice
  BY DEF TrailInv, CounterTrails, BucketInv, StoreOK, liveFiles
<1>2. stored \in Nat BY <1>1, FS_CardinalityType DEF stored
<1>3. CASE Still /\ twice' = twice
  BY <1>1, <1>3 DEF Still, CounterTrails, stored, Bytes
<1>4. ASSUME NEW f \in Uploads, Takes(f), twice' = twice
      PROVE  /\ IsFiniteSet(Bytes(liveFiles)') /\ CounterTrails'
             /\ f \in Attachments \/ stored' <= quota + twice
  <2>1. Bytes(liveFiles)' = Bytes(liveFiles \cup {f}) /\ f \in Uploads \ liveFiles BY <1>4 DEF Takes, Bytes
  <2>2. IsFiniteSet(Bytes(liveFiles \cup {f})) /\ Cardinality(Bytes(liveFiles \cup {f})) = stored + Size[f]
    BY <1>1, <2>1, BytesAdd DEF stored
  <2>3. stored' = stored + Size[f] BY <2>1, <2>2 DEF stored
  <2>4. Size[f] \in Nat OBVIOUS
  <2>5. used' = used + Size[f] /\ (f \in Attachments \/ used + Size[f] <= quota)
    BY <1>4 DEF Takes, StillFits, WithinLimit
  <2>6. CounterTrails' BY <1>1, <1>2, <1>4, <2>3, <2>4, <2>5 DEF CounterTrails
  <2>7. f \in Attachments \/ stored' <= quota + twice BY <1>1, <1>2, <2>3, <2>4, <2>5
  <2> QED BY <2>1, <2>2, <2>6, <2>7
<1>5. ASSUME NEW f \in Uploads, Gives(f), twice' = twice
      PROVE  /\ IsFiniteSet(Bytes(liveFiles)') /\ CounterTrails'
             /\ liveFiles' \ liveFiles = {}
             /\ twice' = 0 => f \in liveFiles /\ liveFiles' = liveFiles \ {f} /\ used' + Size[f] = used
  <2>1. Bytes(liveFiles)' = Bytes(liveFiles \ {f}) /\ f \in liveFiles /\ liveFiles' = liveFiles \ {f}
    BY <1>5 DEF Gives, Bytes
  <2>2. /\ IsFiniteSet(Bytes(liveFiles \ {f})) /\ Cardinality(Bytes(liveFiles \ {f})) \in Nat
        /\ stored = Cardinality(Bytes(liveFiles \ {f})) + Size[f]
    BY <1>1, <2>1, BytesRemove DEF stored
  <2>3. stored' \in Nat /\ stored = stored' + Size[f] BY <2>1, <2>2 DEF stored
  <2>4. Size[f] \in Nat OBVIOUS
  <2>5. used' = IF used > Size[f] THEN used - Size[f] ELSE 0 BY <1>5 DEF Gives, GivenBack
  <2>6. CounterTrails' BY <1>1, <1>5, <2>3, <2>4, <2>5 DEF CounterTrails
  <2>7. twice' = 0 => used' + Size[f] = used BY <1>1, <1>5, <2>3, <2>4, <2>5
  <2>8. IsFiniteSet(Bytes(liveFiles)') BY <2>1, <2>2
  <2> QED BY <2>1, <2>6, <2>7, <2>8
<1>6. ASSUME NEW f \in Uploads, GivesAgain(f)
      PROVE  /\ IsFiniteSet(Bytes(liveFiles)') /\ CounterTrails'
             /\ liveFiles' \ liveFiles = {} /\ twice' # 0
  <2>1. Size[f] \in Nat \ {0} OBVIOUS
  <2>2. Bytes(liveFiles)' = Bytes(liveFiles) /\ stored' = stored BY <1>6 DEF GivesAgain, Bytes, stored
  <2>3. twice' = twice + Size[f] /\ used' = IF used > Size[f] THEN used - Size[f] ELSE 0
    BY <1>6 DEF GivesAgain, GivenBack
  <2>4. CounterTrails' /\ twice' # 0 BY <1>1, <1>2, <2>1, <2>2, <2>3 DEF CounterTrails
  <2> QED BY <1>1, <1>6, <2>2, <2>4 DEF GivesAgain
<1>7. CASE \E f \in Uploads : Takes(f) /\ twice' = twice
  <2>1. PICK f \in Uploads : Takes(f) /\ twice' = twice BY <1>7
  <2>2. liveFiles' \ liveFiles \subseteq {f} BY <2>1 DEF Takes
  <2> QED BY <1>4, <2>1, <2>2
<1>8. CASE \E f \in Uploads : Gives(f) /\ twice' = twice BY <1>5, <1>8
<1>9. CASE \E f \in Uploads : GivesAgain(f) BY <1>6, <1>9
<1> QED BY <1>3, <1>7, <1>8, <1>9 DEF Movement

LEMMA TrailStep ==
  ASSUME TrailInv, [FilesNext]_filesVars
  PROVE  /\ TrailInv'
         /\ [\A f \in liveFiles' \ liveFiles : f \in Attachments \/ stored' <= quota + twice]_filesVars
         /\ [Ledger!Next \/ twice' > 0]_<<liveFiles, used, quota>>
<1>1. BucketInv /\ twice \in Nat BY DEF TrailInv
<1>2. BucketInv' /\ twice' \in Nat BY <1>1, BucketStep, TwiceStep
<1>3. Movement /\ (quota' = quota \/ (Still /\ quota' \in Quotas /\ twice' = twice))
  BY <1>1, EveryMovement
<1>4. /\ IsFiniteSet(Bytes(liveFiles)') /\ CounterTrails'
      /\ \A f \in liveFiles' \ liveFiles : f \in Attachments \/ stored' <= quota + twice
      /\ twice' = 0 => \/ Still
                       \/ \E f \in Uploads : Takes(f)
                       \/ \E f \in liveFiles : liveFiles' = liveFiles \ {f} /\ used' + Size[f] = used
  BY <1>3, MovementCounts
<1>5. TrailInv' BY <1>2, <1>4 DEF TrailInv
<1>6. [Ledger!Next \/ twice' > 0]_<<liveFiles, used, quota>>
  <2>1. CASE twice' # 0 BY <1>2, <2>1
  <2>2. CASE twice' = 0
    <3>1. CASE Still BY <1>3, <3>1 DEF Still, Ledger!Next, Ledger!Replan
    <3>2. CASE ~Still
      <4>1. quota' = quota BY <1>3, <3>2
      <4>2. liveFiles \in SUBSET Uploads BY <1>1 DEF BucketInv, StoreOK, liveFiles
      <4> QED BY <1>4, <2>2, <3>2, <4>1, <4>2 DEF Ledger!Next, Ledger!Take, Ledger!Release,
                Ledger!Fits, Takes, StillFits, WithinLimit
    <3> QED BY <3>1, <3>2
  <2> QED BY <2>1, <2>2
<1> QED BY <1>4, <1>5, <1>6

(* Whatever is deleted, replaced, purged and killed at once, and however   *)
(* the limit moves, the counter is below the bytes of the live files by no *)
(* more than was given back twice, no upload passes the limit by more than *)
(* that, and until something is given back twice it implements Meter       *)
(* (upload, delete, replaceAttachment).                                    *)
THEOREM LedgerAlwaysHolds == FilesSpec => LedgerHolds
<1>1. FilesInit => TrailInv
  <2> SUFFICES ASSUME FilesInit PROVE TrailInv OBVIOUS
  <2>1. BucketInv BY BucketStart
  <2>2. Bytes(liveFiles) = {} BY DEF FilesInit, liveFiles, Bytes
  <2>3. used = 0 /\ twice = 0 BY DEF FilesInit
  <2> QED BY <2>1, <2>2, <2>3, FS_EmptySet DEF TrailInv, CounterTrails, stored
<1>2. FilesInit => Ledger!Init BY DEF FilesInit, Ledger!Init, liveFiles
<1>3. TrailInv /\ [FilesNext]_filesVars
        => /\ TrailInv'
           /\ [\A f \in liveFiles' \ liveFiles : f \in Attachments \/ stored' <= quota + twice]_filesVars
           /\ [Ledger!Next \/ twice' > 0]_<<liveFiles, used, quota>>
  BY TrailStep
<1>4. TrailInv => CounterTrails BY DEF TrailInv
<1> QED BY <1>1, <1>2, <1>3, <1>4, PTL DEF FilesSpec, LedgerHolds, OverrunBounded, LedgerUnlessTwice
=============================================================================
