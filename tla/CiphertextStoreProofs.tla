----------------------- MODULE CiphertextStoreProofs -----------------------
(***************************************************************************)
(* Theorems of CiphertextStore, for every set of bodies and any number of  *)
(* crashes and power failures.                                             *)
(*                                                                         *)
(* That two replicas hold what went to the chain is not inductive: the     *)
(* receipts behind it have to be of replicas that signed, and a signed     *)
(* file can only go missing at the price of a power failure.               *)
(***************************************************************************)
EXTENDS CiphertextStore, FiniteSetTheorems, TLAPS

Signed(b) == {r \in ReplicaIds : request[r][b] = "signed"}
Whole(b) == {r \in ReplicaIds : objects[r][b] = "whole"}
Receipted(b) == {r \in ReplicaIds : outcome[r][b] = "receipt"}
Damaged(b) == Signed(b) \ Whole(b)

\* The client only has receipts of replicas that signed.
ReceiptsAreSigned ==
    \A b \in Bodies :
        /\ Receipted(b) \subseteq Signed(b)
        /\ upload[b] = "idle" => \A r \in ReplicaIds : outcome[r][b] = "pending"

\* A signed file that is not whole was lost to a power failure of its own.
DamageIsCounted == \A b \in Bodies : Cardinality(Damaged(b)) <= losses

\* The chain has a body on two receipts.
AcceptedOnQuorum == \A b \in Bodies : upload[b] = "quorum" => QuorumMet(Receipted(b))

StoreInv ==
    /\ StoreTypeOK
    /\ ReceiptsAreSigned
    /\ DamageIsCounted
    /\ AcceptedOnQuorum
    /\ FetchedIsWhole

-----------------------------------------------------------------------------

\* There are finitely many replicas, so every set of them can be counted.
LEMMA ReplicasFinite == IsFiniteSet(ReplicaIds)
<1>1. 1 \in Int /\ 3 \in Int
  OBVIOUS
<1>2. IsFiniteSet(1 .. 3)
  BY <1>1, FS_Interval, Zenon
<1> QED
  BY <1>2 DEF ReplicaIds

\* They are three.
LEMMA ThreeReplicas == Cardinality(ReplicaIds) = 3
<1>1. 1 \in Int /\ 3 \in Int
  OBVIOUS
<1>2. Cardinality(1 .. 3) = IF 1 > 3 THEN 0 ELSE 3 - 1 + 1
  BY <1>1, FS_Interval, Zenon
<1> QED
  BY <1>2 DEF ReplicaIds

\* A set of replicas with at most one more has a cardinality of at most one more.
LEMMA OneMore ==
  ASSUME NEW S \in SUBSET ReplicaIds, NEW T \in SUBSET ReplicaIds, NEW r, S \subseteq T \cup {r}
  PROVE  Cardinality(S) \in Nat /\ Cardinality(T) \in Nat /\ Cardinality(S) <= Cardinality(T) + 1
<1>1. IsFiniteSet(S) /\ IsFiniteSet(T)
  BY ReplicasFinite, FS_Subset
<1>2. IsFiniteSet(T \cup {r})
  BY <1>1, FS_AddElement
<1>3. Cardinality(T \cup {r}) <= Cardinality(T) + 1
  <2>1. Cardinality(T) \in Nat
    BY <1>1, FS_CardinalityType
  <2>2. Cardinality(T \cup {r}) \in {Cardinality(T), Cardinality(T) + 1}
    BY <1>1, FS_AddElement
  <2> QED
    BY <2>1, <2>2
<1>4. Cardinality(S) <= Cardinality(T \cup {r})
  BY <1>2, FS_Subset
<1> QED
  BY <1>1, <1>2, <1>3, <1>4, FS_CardinalityType

\* A smaller set of replicas has a smaller cardinality.
LEMMA Fewer ==
  ASSUME NEW S \in SUBSET ReplicaIds, NEW T \in SUBSET ReplicaIds, S \subseteq T
  PROVE  Cardinality(S) \in Nat /\ Cardinality(T) \in Nat /\ Cardinality(S) <= Cardinality(T)
  BY ReplicasFinite, FS_Subset, FS_CardinalityType

\* No replica is damaged where none has signed.
LEMMA NoneDamaged == Cardinality({}) = 0
  BY FS_EmptySet

-----------------------------------------------------------------------------

\* The invariant holds before anything was uploaded.
LEMMA StoreInitInv == StoreInit => StoreInv
<1> SUFFICES ASSUME StoreInit PROVE StoreInv
  OBVIOUS
<1>1. StoreTypeOK
  BY StoreAssumption DEF StoreInit, StoreTypeOK, Files, ReplicaIds
<1>2. ReceiptsAreSigned
  BY DEF StoreInit, ReceiptsAreSigned, Receipted, Signed
<1>3. DamageIsCounted
  <2> SUFFICES ASSUME NEW b \in Bodies PROVE Cardinality(Damaged(b)) <= losses
    BY DEF DamageIsCounted
  <2>1. Damaged(b) = {}
    BY DEF StoreInit, Damaged, Signed
  <2> QED
    BY <2>1, NoneDamaged DEF StoreInit
<1> QED
  BY <1>1, <1>2, <1>3 DEF StoreInv, StoreInit, AcceptedOnQuorum, FetchedIsWhole

-----------------------------------------------------------------------------
(* One step lemma per part of the invariant.                               *)

\* What an update of one replica's entry for one body leaves of a table.
LEMMA OneEntry ==
  ASSUME NEW X, NEW f \in [ReplicaIds -> [Bodies -> X]],
         NEW r \in ReplicaIds, NEW b \in Bodies, NEW v \in X
  PROVE  /\ [f EXCEPT ![r][b] = v] \in [ReplicaIds -> [Bodies -> X]]
         /\ \A q \in ReplicaIds, c \in Bodies :
              [f EXCEPT ![r][b] = v][q][c] = IF q = r /\ c = b THEN v ELSE f[q][c]
<1>1. [f[r] EXCEPT ![b] = v] \in [Bodies -> X]
  OBVIOUS
<1> QED
  BY <1>1

Answers == {"none", "sent", "signed", "refused", "lost"}

\* The two ways a PUT ends, entry by entry.
LEMMA PutEntries ==
  ASSUME StoreTypeOK, NEW r \in ReplicaIds, NEW b \in Bodies, NEW intact \in BOOLEAN,
         HashWriteSign(r, b, intact)
  PROVE  /\ objects' \in [ReplicaIds -> [Bodies -> Files]]
         /\ request' \in [ReplicaIds -> [Bodies -> Answers]]
         /\ \A q \in ReplicaIds, c \in Bodies : <<q, c>> # <<r, b>> =>
              objects'[q][c] = objects[q][c] /\ request'[q][c] = request[q][c]
         /\ request'[r][b] = "signed" => objects'[r][b] = "whole"
<1>1. objects \in [ReplicaIds -> [Bodies -> Files]] /\ request \in [ReplicaIds -> [Bodies -> Answers]]
  BY DEF StoreTypeOK, Answers
<1>2. CASE /\ objects' = [objects EXCEPT ![r][b] = "whole"]
           /\ request' = [request EXCEPT ![r][b] = "signed"]
  <2>1. "whole" \in Files /\ "signed" \in Answers
    BY DEF Files, Answers
  <2>2. /\ objects' \in [ReplicaIds -> [Bodies -> Files]]
        /\ \A q \in ReplicaIds, c \in Bodies :
             objects'[q][c] = IF q = r /\ c = b THEN "whole" ELSE objects[q][c]
    BY <1>1, <1>2, <2>1, OneEntry
  <2>3. /\ request' \in [ReplicaIds -> [Bodies -> Answers]]
        /\ \A q \in ReplicaIds, c \in Bodies :
             request'[q][c] = IF q = r /\ c = b THEN "signed" ELSE request[q][c]
    BY <1>1, <1>2, <2>1, OneEntry
  <2> QED
    BY <2>2, <2>3
<1>3. CASE /\ request' = [request EXCEPT ![r][b] = "refused"]
           /\ UNCHANGED objects
  <2>1. "refused" \in Answers
    BY DEF Answers
  <2>2. /\ request' \in [ReplicaIds -> [Bodies -> Answers]]
        /\ \A q \in ReplicaIds, c \in Bodies :
             request'[q][c] = IF q = r /\ c = b THEN "refused" ELSE request[q][c]
    BY <1>1, <1>3, <2>1, OneEntry
  <2> QED
    BY <1>1, <1>3, <2>2
<1> QED
  BY <1>2, <1>3 DEF HashWriteSign

\* A replica that goes down drops what it had not answered, and no answer it gave.
LEMMA DropEntries ==
  ASSUME StoreTypeOK, NEW r \in ReplicaIds, request' = [request EXCEPT ![r] = Drop(r)]
  PROVE  /\ request' \in [ReplicaIds -> [Bodies -> Answers]]
         /\ \A q \in ReplicaIds, c \in Bodies :
              request'[q][c] = "signed" <=> request[q][c] = "signed"
<1>1. request \in [ReplicaIds -> [Bodies -> Answers]]
  BY DEF StoreTypeOK, Answers
<1>2. Drop(r) \in [Bodies -> Answers]
  BY <1>1 DEF Drop, Answers
<1>3. \A c \in Bodies : Drop(r)[c] = "signed" <=> request[r][c] = "signed"
  BY <1>1 DEF Drop
<1> QED
  BY <1>1, <1>2, <1>3

\* An answer the client takes in, or not.
LEMMA OutcomeEntries ==
  ASSUME StoreTypeOK, NEW r \in ReplicaIds, NEW b \in Bodies, NEW v \in {"receipt", "problem"},
         outcome' = [outcome EXCEPT ![r][b] = v]
  PROVE  /\ outcome' \in [ReplicaIds -> [Bodies -> {"pending", "receipt", "problem"}]]
         /\ \A q \in ReplicaIds, c \in Bodies :
              outcome'[q][c] = IF q = r /\ c = b THEN v ELSE outcome[q][c]
  BY OneEntry DEF StoreTypeOK

\* Every action leaves every variable in its type.
LEMMA StepTyped == StoreInv /\ [StoreNext]_storeVars => StoreTypeOK'
<1> SUFFICES ASSUME StoreInv, [StoreNext]_storeVars PROVE StoreTypeOK'
  OBVIOUS
<1> USE StoreAssumption DEF StoreInv, StoreTypeOK, Files
<1>1. ASSUME NEW r \in ReplicaIds, NEW b \in Bodies, NEW intact \in BOOLEAN,
             PutObject(r, b, intact)
      PROVE  StoreTypeOK'
  <2>1. /\ objects' \in [ReplicaIds -> [Bodies -> Files]]
        /\ request' \in [ReplicaIds -> [Bodies -> Answers]]
    BY <1>1, PutEntries DEF PutObject
  <2>2. UNCHANGED <<up, outcome, upload, asking, fetched, crashes, losses>>
    BY <1>1 DEF PutObject, clientVars
  <2> QED
    BY <2>1, <2>2 DEF Answers
<1>2. ASSUME NEW r \in ReplicaIds, Crash(r) PROVE StoreTypeOK'
  <2>1. request' \in [ReplicaIds -> [Bodies -> {"none", "sent", "signed", "refused", "lost"}]]
    BY <1>2, DropEntries DEF Crash, Answers
  <2>2. objects' \in [ReplicaIds -> [Bodies -> Files]]
    <3>1. CASE UNCHANGED objects
      BY <3>1
    <3>2. ASSUME NEW b \in Bodies, NEW file \in {"torn", "whole"},
                 objects' = [objects EXCEPT ![r][b] = file]
          PROVE  objects' \in [ReplicaIds -> [Bodies -> Files]]
      BY <3>2
    <3> QED
      BY <1>2, <3>1, <3>2 DEF Crash
  <2>3. crashes' \in 0 .. MaxCrashes /\ up' \in [ReplicaIds -> BOOLEAN]
    BY <1>2 DEF Crash
  <2>4. UNCHANGED <<outcome, upload, asking, fetched, losses>>
    BY <1>2 DEF Crash, clientVars
  <2> QED
    BY <2>1, <2>2, <2>3, <2>4
<1>3. ASSUME NEW r \in ReplicaIds, LosePower(r) PROVE StoreTypeOK'
  <2>1. request' \in [ReplicaIds -> [Bodies -> {"none", "sent", "signed", "refused", "lost"}]]
    BY <1>3, DropEntries DEF LosePower, Answers
  <2>2. objects' \in [ReplicaIds -> [Bodies -> Files]]
    <3>1. PICK hit \in SUBSET Bodies, file \in {"absent", "torn"} :
            objects' = [objects EXCEPT ![r] = [b \in Bodies |->
                          IF b \in hit /\ @[b] # "absent" THEN file ELSE @[b]]]
      BY <1>3 DEF LosePower
    <3>2. [b \in Bodies |-> IF b \in hit /\ objects[r][b] # "absent" THEN file ELSE objects[r][b]]
            \in [Bodies -> Files]
      OBVIOUS
    <3> QED
      BY <3>1, <3>2
  <2>3. losses' \in 0 .. MaxLosses /\ up' \in [ReplicaIds -> BOOLEAN]
    BY <1>3 DEF LosePower
  <2>4. UNCHANGED <<outcome, upload, asking, fetched, crashes>>
    BY <1>3 DEF LosePower, clientVars
  <2> QED
    BY <2>1, <2>2, <2>3, <2>4
<1>4. ASSUME NEW r \in ReplicaIds, Restart(r) PROVE StoreTypeOK'
  BY <1>4 DEF Restart, clientVars
<1>5. ASSUME NEW b \in Bodies, Upload(b) \/ Settle(b) \/ Fetch(b) PROVE StoreTypeOK'
  BY <1>5 DEF Upload, Settle, Fetch, ReplicaIds
<1>6. ASSUME NEW r \in ReplicaIds, NEW b \in Bodies,
             Acknowledged(r, b) \/ Unacknowledged(r, b)
      PROVE  StoreTypeOK'
  <2>1. outcome' \in [ReplicaIds -> [Bodies -> {"pending", "receipt", "problem"}]]
    BY <1>6, OutcomeEntries DEF Acknowledged, Unacknowledged
  <2>2. UNCHANGED <<up, objects, request, upload, asking, fetched, crashes, losses>>
    BY <1>6 DEF Acknowledged, Unacknowledged
  <2> QED
    BY <2>1, <2>2
<1>7. ASSUME NEW r \in ReplicaIds, NEW b \in Bodies, Served(r, b) PROVE StoreTypeOK'
  <2>1. PICK file \in Files : Serve(r, b, file) /\ fetched' = [fetched EXCEPT ![b] = file]
    BY <1>7 DEF Served
  <2>2. file = "whole"
    BY <2>1 DEF Serve
  <2>3. fetched' \in [Bodies -> {"nothing", "whole", "torn"}]
    BY <2>1, <2>2
  <2>4. asking' \in [Bodies -> {0} \cup ReplicaIds]
    BY <1>7 DEF Served
  <2>5. UNCHANGED <<up, objects, request, outcome, upload, crashes, losses>>
    BY <1>7 DEF Served
  <2> QED
    BY <2>3, <2>4, <2>5
<1>8. ASSUME NEW r \in ReplicaIds, NEW b \in Bodies, NotServed(r, b) PROVE StoreTypeOK'
  <2>1. NextAsked(r) \in {0} \cup ReplicaIds
    <3>1. Cardinality(ReplicaIds) = 3
      BY ThreeReplicas
    <3> QED
      BY <3>1 DEF NextAsked, ReplicaIds
  <2> QED
    BY <1>8, <2>1 DEF NotServed
<1>9. CASE UNCHANGED storeVars
  BY <1>9 DEF storeVars
<1> QED
  BY <1>1, <1>2, <1>3, <1>4, <1>5, <1>6, <1>7, <1>8, <1>9 DEF StoreNext

\* A receipt is taken in only from a replica that signed, and no signature is undone.
LEMMA StepReceipts == StoreInv /\ [StoreNext]_storeVars => ReceiptsAreSigned'
<1> SUFFICES ASSUME StoreInv, [StoreNext]_storeVars, NEW b \in Bodies
             PROVE  /\ \A r \in ReplicaIds : outcome'[r][b] = "receipt" => request'[r][b] = "signed"
                    /\ upload'[b] = "idle" => \A r \in ReplicaIds : outcome'[r][b] = "pending"
  BY DEF ReceiptsAreSigned, Receipted, Signed
<1> USE DEF StoreInv, StoreTypeOK
<1>0. /\ \A r \in ReplicaIds : outcome[r][b] = "receipt" => request[r][b] = "signed"
      /\ upload[b] = "idle" => \A r \in ReplicaIds : outcome[r][b] = "pending"
  BY DEF ReceiptsAreSigned, Receipted, Signed
<1>1. ASSUME NEW q \in ReplicaIds, NEW c \in Bodies, NEW intact \in BOOLEAN,
             PutObject(q, c, intact)
      PROVE  /\ UNCHANGED <<outcome, upload>>
             /\ \A r \in ReplicaIds : request[r][b] = "signed" => request'[r][b] = "signed"
  <2>1. \A r \in ReplicaIds : request[r][b] = "signed" => request'[r][b] = "signed"
    <3>1. request[q][c] = "sent"
      BY <1>1 DEF PutObject
    <3>2. \A r \in ReplicaIds, d \in Bodies :
            <<r, d>> # <<q, c>> => request'[r][d] = request[r][d]
      BY <1>1, PutEntries DEF PutObject
    <3>3. ASSUME NEW r \in ReplicaIds, request[r][b] = "signed" PROVE request'[r][b] = "signed"
      BY <3>1, <3>2, <3>3
    <3> QED
      BY <3>3
  <2> QED
    BY <1>1, <2>1 DEF PutObject, clientVars
<1>2. ASSUME NEW q \in ReplicaIds, Crash(q) \/ LosePower(q) \/ Restart(q)
      PROVE  /\ UNCHANGED <<outcome, upload>>
             /\ \A r \in ReplicaIds : request[r][b] = "signed" => request'[r][b] = "signed"
  <2>1. \A r \in ReplicaIds : request[r][b] = "signed" => request'[r][b] = "signed"
    <3>1. CASE Restart(q)
      BY <3>1 DEF Restart
    <3>2. ASSUME request' = [request EXCEPT ![q] = Drop(q)]
          PROVE  \A r \in ReplicaIds : request[r][b] = "signed" => request'[r][b] = "signed"
      <4>1. \A r \in ReplicaIds, c \in Bodies :
              request'[r][c] = "signed" <=> request[r][c] = "signed"
        BY <3>2, DropEntries
      <4> QED
        BY <4>1
    <3> QED
      BY <1>2, <3>1, <3>2 DEF Crash, LosePower
  <2> QED
    BY <1>2, <2>1 DEF Crash, LosePower, Restart, clientVars
<1>3. ASSUME NEW c \in Bodies, Upload(c)
      PROVE  /\ \A r \in ReplicaIds : outcome'[r][b] = "receipt" => request'[r][b] = "signed"
             /\ upload'[b] = "idle" => \A r \in ReplicaIds : outcome'[r][b] = "pending"
  BY <1>0, <1>3 DEF Upload
<1>4. ASSUME NEW c \in Bodies, Settle(c) \/ Fetch(c)
      PROVE  /\ UNCHANGED <<outcome, request>>
             /\ upload'[b] = "idle" => upload[b] = "idle"
  BY <1>4 DEF Settle, Fetch
<1>5. ASSUME NEW q \in ReplicaIds, NEW c \in Bodies,
             Acknowledged(q, c) \/ Unacknowledged(q, c)
      PROVE  /\ \A r \in ReplicaIds : outcome'[r][b] = "receipt" => request'[r][b] = "signed"
             /\ upload'[b] = "idle" => \A r \in ReplicaIds : outcome'[r][b] = "pending"
  <2>1. PICK v \in {"receipt", "problem"} :
          /\ outcome' = [outcome EXCEPT ![q][c] = v]
          /\ v = "receipt" => request[q][c] = "signed"
          /\ upload[c] = "running"
          /\ UNCHANGED <<request, upload>>
    BY <1>5 DEF Acknowledged, Unacknowledged
  <2>2. \A r \in ReplicaIds : outcome'[r][b] = IF r = q /\ b = c THEN v ELSE outcome[r][b]
    BY <2>1, OutcomeEntries
  <2> QED
    BY <1>0, <2>1, <2>2
<1>6. ASSUME NEW q \in ReplicaIds, NEW c \in Bodies, Served(q, c) \/ NotServed(q, c)
      PROVE  UNCHANGED <<outcome, request, upload>>
  BY <1>6 DEF Served, NotServed
<1>7. CASE UNCHANGED storeVars
  BY <1>0, <1>7 DEF storeVars
<1> QED
  BY <1>0, <1>1, <1>2, <1>3, <1>4, <1>5, <1>6, <1>7 DEF StoreNext

\* A step leaves the damage to body b where it was, or a power failure adds to it.
LEMMA StepDamage == StoreInv /\ [StoreNext]_storeVars => DamageIsCounted'
<1> SUFFICES ASSUME StoreInv, [StoreNext]_storeVars, NEW b \in Bodies
             PROVE  Cardinality(Damaged(b)') <= losses'
  BY DEF DamageIsCounted
<1> USE DEF StoreInv
<1>0. /\ Cardinality(Damaged(b)) <= losses
      /\ losses \in Nat
      /\ Damaged(b) \in SUBSET ReplicaIds
      /\ Damaged(b)' \in SUBSET ReplicaIds
  <2>1. Cardinality(Damaged(b)) <= losses
    BY DEF DamageIsCounted
  <2>2. losses \in Nat
    BY StoreAssumption DEF StoreTypeOK
  <2>3. Damaged(b) \in SUBSET ReplicaIds /\ Damaged(b)' \in SUBSET ReplicaIds
    BY DEF Damaged, Signed
  <2> QED
    BY <2>1, <2>2, <2>3
<1>1. ASSUME Damaged(b)' \subseteq Damaged(b), losses' = losses
      PROVE  Cardinality(Damaged(b)') <= losses'
  <2>1. Cardinality(Damaged(b)') <= Cardinality(Damaged(b))
    BY <1>0, <1>1, Fewer
  <2> QED
    BY <1>0, <1>1, <2>1, Fewer
<1>2. ASSUME NEW q \in ReplicaIds, NEW c \in Bodies, NEW intact \in BOOLEAN,
             PutObject(q, c, intact)
      PROVE  Damaged(b)' \subseteq Damaged(b) /\ losses' = losses
  <2>1. \A r \in ReplicaIds, d \in Bodies :
          request'[r][d] = "signed" /\ objects'[r][d] # "whole" =>
            request[r][d] = "signed" /\ objects[r][d] # "whole"
    BY <1>2, PutEntries DEF PutObject
  <2> QED
    BY <1>2, <2>1 DEF PutObject, Damaged, Signed, Whole
<1>3. ASSUME NEW q \in ReplicaIds, Crash(q)
      PROVE  Damaged(b)' \subseteq Damaged(b) /\ losses' = losses
  <2>1. \A r \in ReplicaIds : request'[r][b] = "signed" <=> request[r][b] = "signed"
    BY <1>3, DropEntries DEF Crash
  <2>2. \A r \in ReplicaIds : request[r][b] = "signed" => objects'[r][b] = objects[r][b]
    <3>1. CASE UNCHANGED objects
      BY <3>1
    <3>2. ASSUME NEW c \in Bodies, NEW file \in {"torn", "whole"}, request[q][c] = "sent",
                 objects' = [objects EXCEPT ![q][c] = file]
          PROVE  \A r \in ReplicaIds : request[r][b] = "signed" => objects'[r][b] = objects[r][b]
      <4>1. objects \in [ReplicaIds -> [Bodies -> Files]] /\ file \in Files
        BY DEF StoreTypeOK, Files
      <4>2. \A r \in ReplicaIds : objects'[r][b] = IF r = q /\ b = c THEN file ELSE objects[r][b]
        BY <3>2, <4>1, OneEntry
      <4> QED
        BY <3>2, <4>2
    <3> QED
      BY <1>3, <3>1, <3>2 DEF Crash
  <2> QED
    BY <1>3, <2>1, <2>2 DEF Crash, Damaged, Signed, Whole
<1>4. ASSUME NEW q \in ReplicaIds, LosePower(q)
      PROVE  Cardinality(Damaged(b)') <= losses'
  <2>1. \A r \in ReplicaIds : request'[r][b] = "signed" <=> request[r][b] = "signed"
    BY <1>4, DropEntries DEF LosePower
  <2>2. \A r \in ReplicaIds : r # q => objects'[r][b] = objects[r][b]
    BY <1>4 DEF LosePower, StoreTypeOK
  <2>3. Damaged(b)' \subseteq Damaged(b) \cup {q}
    BY <2>1, <2>2 DEF Damaged, Signed, Whole
  <2>4. Cardinality(Damaged(b)') <= Cardinality(Damaged(b)) + 1
    BY <1>0, <2>3, OneMore
  <2>5. losses' = losses + 1
    BY <1>4 DEF LosePower
  <2> QED
    BY <1>0, <2>3, <2>4, <2>5, OneMore
<1>5. ASSUME NEW q \in ReplicaIds, Restart(q)
      PROVE  Damaged(b)' \subseteq Damaged(b) /\ losses' = losses
  BY <1>5 DEF Restart, Damaged, Signed, Whole
<1>6. ASSUME NEW c \in Bodies, Upload(c)
      PROVE  Damaged(b)' \subseteq Damaged(b) /\ losses' = losses
  <2>1. \A r \in ReplicaIds : request'[r][b] = "signed" => request[r][b] = "signed"
    BY <1>6 DEF Upload, StoreTypeOK
  <2> QED
    BY <1>6, <2>1 DEF Upload, Damaged, Signed, Whole
<1>7. ASSUME NEW c \in Bodies, Settle(c) \/ Fetch(c)
      PROVE  Damaged(b)' \subseteq Damaged(b) /\ losses' = losses
  BY <1>7 DEF Settle, Fetch, Damaged, Signed, Whole
<1>8. ASSUME NEW q \in ReplicaIds, NEW c \in Bodies,
             \/ Acknowledged(q, c) \/ Unacknowledged(q, c)
             \/ Served(q, c) \/ NotServed(q, c)
      PROVE  Damaged(b)' \subseteq Damaged(b) /\ losses' = losses
  BY <1>8 DEF Acknowledged, Unacknowledged, Served, NotServed, Damaged, Signed, Whole
<1>9. CASE UNCHANGED storeVars
  BY <1>1, <1>9 DEF storeVars, Damaged, Signed, Whole
<1> QED
  BY <1>1, <1>2, <1>3, <1>4, <1>5, <1>6, <1>7, <1>8, <1>9 DEF StoreNext

\* Only Settle takes a body to the chain, and no outcome changes afterwards.
LEMMA StepAccepted == StoreInv /\ [StoreNext]_storeVars => AcceptedOnQuorum'
<1> SUFFICES ASSUME StoreInv, [StoreNext]_storeVars, NEW b \in Bodies, upload'[b] = "quorum"
             PROVE  QuorumMet(Receipted(b)')
  BY DEF AcceptedOnQuorum, QuorumMet
<1> USE DEF StoreInv
<1>0. /\ upload[b] = "quorum" => QuorumMet(Receipted(b))
      /\ upload \in [Bodies -> {"idle", "running", "quorum", "short"}]
  BY DEF AcceptedOnQuorum, StoreTypeOK
<1>1. ASSUME UNCHANGED <<outcome, upload>> PROVE QuorumMet(Receipted(b)')
  BY <1>0, <1>1 DEF Receipted
<1>2. ASSUME NEW c \in Bodies, Upload(c) PROVE QuorumMet(Receipted(b)')
  BY <1>0, <1>2 DEF Upload, Receipted
<1>3. ASSUME NEW c \in Bodies, Settle(c) PROVE QuorumMet(Receipted(b)')
  BY <1>0, <1>3 DEF Settle, Receipted
<1>4. ASSUME NEW q \in ReplicaIds, NEW c \in Bodies,
             Acknowledged(q, c) \/ Unacknowledged(q, c)
      PROVE  QuorumMet(Receipted(b)')
  <2>1. PICK v \in {"receipt", "problem"} :
          /\ outcome' = [outcome EXCEPT ![q][c] = v]
          /\ upload[c] = "running"
          /\ UNCHANGED upload
    BY <1>4 DEF Acknowledged, Unacknowledged
  <2>2. c # b
    BY <2>1
  <2>3. \A r \in ReplicaIds : outcome'[r][b] = outcome[r][b]
    BY <2>1, <2>2, OutcomeEntries
  <2>4. Receipted(b)' = Receipted(b)
    BY <2>3 DEF Receipted
  <2> QED
    BY <1>0, <2>1, <2>4
<1>5. CASE UNCHANGED storeVars
  BY <1>1, <1>5 DEF storeVars
<1>6. ASSUME NEW r \in ReplicaIds, Crash(r) \/ LosePower(r) \/ Restart(r)
      PROVE  UNCHANGED <<outcome, upload>>
  BY <1>6 DEF Crash, LosePower, Restart, clientVars
<1>7. ASSUME NEW r \in ReplicaIds, NEW c \in Bodies, NEW intact \in BOOLEAN,
             PutObject(r, c, intact)
      PROVE  UNCHANGED <<outcome, upload>>
  BY <1>7 DEF PutObject, clientVars
<1>8. ASSUME NEW r \in ReplicaIds, NEW c \in Bodies,
             Served(r, c) \/ NotServed(r, c)
      PROVE  UNCHANGED <<outcome, upload>>
  BY <1>8 DEF Served, NotServed
<1>9. ASSUME NEW c \in Bodies, Fetch(c) PROVE UNCHANGED <<outcome, upload>>
  BY <1>9 DEF Fetch
<1> QED
  BY <1>1, <1>2, <1>3, <1>4, <1>5, <1>6, <1>7, <1>8, <1>9 DEF StoreNext

\* What is fetched was served, and only whole files are.
LEMMA StepFetched == StoreInv /\ [StoreNext]_storeVars => FetchedIsWhole'
<1> SUFFICES ASSUME StoreInv, [StoreNext]_storeVars PROVE FetchedIsWhole'
  OBVIOUS
<1> USE DEF StoreInv
<1>1. ASSUME UNCHANGED fetched PROVE FetchedIsWhole'
  BY <1>1 DEF FetchedIsWhole
<1>2. ASSUME NEW r \in ReplicaIds, NEW b \in Bodies, Served(r, b) PROVE FetchedIsWhole'
  <2>1. fetched' = [fetched EXCEPT ![b] = "whole"]
    BY <1>2 DEF Served, Serve
  <2>2. fetched \in [Bodies -> {"nothing", "whole", "torn"}]
    BY DEF StoreTypeOK
  <2> QED
    BY <2>1, <2>2 DEF FetchedIsWhole
<1>3. ASSUME NEW r \in ReplicaIds, Crash(r) \/ LosePower(r) \/ Restart(r)
      PROVE  UNCHANGED fetched
  BY <1>3 DEF Crash, LosePower, Restart, clientVars
<1>4. ASSUME NEW r \in ReplicaIds, NEW b \in Bodies, NEW intact \in BOOLEAN,
             PutObject(r, b, intact)
      PROVE  UNCHANGED fetched
  BY <1>4 DEF PutObject, clientVars
<1>5. ASSUME NEW b \in Bodies, Upload(b) \/ Settle(b) \/ Fetch(b) PROVE UNCHANGED fetched
  BY <1>5 DEF Upload, Settle, Fetch
<1>6. ASSUME NEW r \in ReplicaIds, NEW b \in Bodies,
             Acknowledged(r, b) \/ Unacknowledged(r, b) \/ NotServed(r, b)
      PROVE  UNCHANGED fetched
  BY <1>6 DEF Acknowledged, Unacknowledged, NotServed
<1>7. CASE UNCHANGED storeVars
  BY <1>7 DEF storeVars, FetchedIsWhole
<1> QED
  BY <1>1, <1>2, <1>3, <1>4, <1>5, <1>6, <1>7 DEF StoreNext

-----------------------------------------------------------------------------

\* The invariant gives the property: the receipts are of replicas that signed, and
\* those are whole or damaged.
LEMMA InvHolds == StoreInv => TwoHoldIt
<1> SUFFICES ASSUME StoreInv, NEW b \in Bodies, upload[b] = "quorum"
             PROVE  Cardinality(Whole(b)) + losses >= STORAGE_QUORUM
  BY DEF TwoHoldIt, Whole
<1>1. /\ Receipted(b) \in SUBSET ReplicaIds
      /\ Whole(b) \in SUBSET ReplicaIds
      /\ Damaged(b) \in SUBSET ReplicaIds
  BY DEF Receipted, Whole, Damaged, Signed
<1>2. Cardinality(Receipted(b)) >= 2
  BY DEF StoreInv, AcceptedOnQuorum, QuorumMet, STORAGE_QUORUM
<1>3. Receipted(b) \subseteq Whole(b) \cup Damaged(b)
  BY DEF StoreInv, ReceiptsAreSigned, Damaged
<1>4. Cardinality(Damaged(b)) <= losses /\ losses \in Nat
  BY StoreAssumption DEF StoreInv, DamageIsCounted, StoreTypeOK
<1>5. IsFiniteSet(Whole(b)) /\ IsFiniteSet(Damaged(b))
  BY <1>1, ReplicasFinite, FS_Subset
<1>6. /\ IsFiniteSet(Whole(b) \cup Damaged(b))
      /\ Cardinality(Whole(b) \cup Damaged(b)) =
           Cardinality(Whole(b)) + Cardinality(Damaged(b)) - Cardinality(Whole(b) \cap Damaged(b))
  BY <1>5, FS_Union
<1>7. Whole(b) \cap Damaged(b) = {}
  BY DEF Damaged
<1>8. Cardinality(Receipted(b)) <= Cardinality(Whole(b) \cup Damaged(b))
  BY <1>3, <1>6, FS_Subset
<1>9. /\ Cardinality(Receipted(b)) \in Nat
      /\ Cardinality(Whole(b)) \in Nat
      /\ Cardinality(Damaged(b)) \in Nat
  BY <1>1, Fewer
<1> QED
  BY <1>2, <1>4, <1>6, <1>7, <1>8, <1>9, NoneDamaged DEF STORAGE_QUORUM

\* The inductive invariant of the store, its clients and its network.
THEOREM StoreInvariant == StoreSpec => []StoreInv
<1>1. StoreInv /\ [StoreNext]_storeVars => StoreInv'
  BY StepTyped, StepReceipts, StepDamage, StepAccepted, StepFetched DEF StoreInv
<1> QED
  BY StoreInitInv, <1>1, PTL DEF StoreSpec

\* Types, for every set of bodies and every bound on crashes and power failures.
THEOREM StoreTyped == StoreSpec => []StoreTypeOK
<1>1. StoreInv => StoreTypeOK
  BY DEF StoreInv
<1> QED
  BY StoreInvariant, <1>1, PTL

\* What went to the chain is whole at two replicas, less one for each power
\* failure, however many processes crash and whatever the network loses.
THEOREM AcceptedIsHeld == StoreSpec => []TwoHoldIt
  BY StoreInvariant, InvHolds, PTL

\* No damaged file is ever taken for a body.
THEOREM FetchIsSound == StoreSpec => []FetchedIsWhole
<1>1. StoreInv => FetchedIsWhole
  BY DEF StoreInv
<1> QED
  BY StoreInvariant, <1>1, PTL

=============================================================================
