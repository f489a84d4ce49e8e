-------------------------- MODULE CiphertextStore --------------------------
(***************************************************************************)
(* The three ciphertext replicas (services/ciphertext-store) and their     *)
(* client (crypto/src/storage.ts): a body is put to all of them at once,   *)
(* taken to the chain on two signed receipts, and fetched from the first   *)
(* replica that serves it when the tender is opened.                       *)
(*                                                                         *)
(* A PUT is hashed, written and signed in one synchronous stretch of the   *)
(* server, which a crash may cut; writeFileSync does not sync, so a power  *)
(* failure may take what was written and signed for.  Answers may come too *)
(* late or never: the client's timer decides.                              *)
(***************************************************************************)
EXTENDS Naturals, FiniteSets

CONSTANTS
    Bodies,        \* sealed bids; each is sealed and uploaded once
    MaxCrashes,    \* bound: process crashes
    MaxLosses      \* bound: power failures

ReplicaIds == 1 .. 3
STORAGE_QUORUM == 2

ASSUME StoreAssumption == MaxCrashes \in Nat /\ MaxLosses \in Nat

VARIABLES
    up,         \* whether the replica's process runs
    objects,    \* DATA_DIR: the file named by the hash of a body
    request,    \* the PUT of a body to a replica, as the network has it
    outcome,    \* ReplicaOutcome, as the client has it
    upload,     \* uploadToReplicas, by body
    asking,     \* fetchCiphertext: the replica asked, 0 where none runs
    fetched,    \* what it returned
    crashes, losses

storeVars == <<up, objects, request, outcome, upload, asking, fetched, crashes, losses>>
clientVars == <<outcome, upload, asking, fetched>>

Files == {"absent", "torn", "whole"}

StoreTypeOK ==
    /\ up \in [ReplicaIds -> BOOLEAN]
    /\ objects \in [ReplicaIds -> [Bodies -> Files]]
    /\ request \in [ReplicaIds -> [Bodies -> {"none", "sent", "signed", "refused", "lost"}]]
    /\ outcome \in [ReplicaIds -> [Bodies -> {"pending", "receipt", "problem"}]]
    /\ upload \in [Bodies -> {"idle", "running", "quorum", "short"}]
    /\ asking \in [Bodies -> {0} \cup ReplicaIds]
    /\ fetched \in [Bodies -> {"nothing", "whole", "torn"}]
    /\ crashes \in 0 .. MaxCrashes
    /\ losses \in 0 .. MaxLosses

StoreInit ==
    /\ up = [r \in ReplicaIds |-> TRUE]
    /\ objects = [r \in ReplicaIds |-> [b \in Bodies |-> "absent"]]
    /\ request = [r \in ReplicaIds |-> [b \in Bodies |-> "none"]]
    /\ outcome = [r \in ReplicaIds |-> [b \in Bodies |-> "pending"]]
    /\ upload = [b \in Bodies |-> "idle"]
    /\ asking = [b \in Bodies |-> 0]
    /\ fetched = [b \in Bodies |-> "nothing"]
    /\ crashes = 0
    /\ losses = 0

-----------------------------------------------------------------------------
(* server.mjs.                                                             *)

\* Faulty: signs the hash the request claims, whatever bytes arrived.
SignTheClaim(r, b, intact) ==
    /\ objects' = [objects EXCEPT ![r][b] = IF intact THEN "whole" ELSE "torn"]
    /\ request' = [request EXCEPT ![r][b] = "signed"]

\* The hash is of the bytes received: bytes that are not the body claimed are
\* answered with 400, the body itself is written and signed for.
HashWriteSign(r, b, intact) ==
    \/ /\ intact
       /\ objects' = [objects EXCEPT ![r][b] = "whole"]
       /\ request' = [request EXCEPT ![r][b] = "signed"]
    \/ /\ ~intact
       /\ request' = [request EXCEPT ![r][b] = "refused"]
       /\ UNCHANGED objects

\* PUT /objects, for a client that may have stopped waiting.
PutObject(r, b, intact) ==
    /\ up[r]
    /\ request[r][b] = "sent"
    /\ HashWriteSign(r, b, intact)
    /\ UNCHANGED <<up, clientVars, crashes, losses>>

\* What the process had not answered goes with it.
Drop(r) == [b \in Bodies |-> IF request[r][b] = "sent" THEN "lost" ELSE request[r][b]]

\* The process dies, between two requests or in the stretch of one: its file may
\* then be torn or whole, and no answer was sent.
Crash(r) ==
    /\ up[r]
    /\ crashes < MaxCrashes
    /\ crashes' = crashes + 1
    /\ up' = [up EXCEPT ![r] = FALSE]
    /\ request' = [request EXCEPT ![r] = Drop(r)]
    /\ \/ UNCHANGED objects
       \/ \E b \in Bodies, file \in {"torn", "whole"} :
            /\ request[r][b] = "sent"
            /\ objects' = [objects EXCEPT ![r][b] = file]
    /\ UNCHANGED <<clientVars, losses>>

\* The machine loses power: files written but not synced are torn or gone.
LosePower(r) ==
    /\ losses < MaxLosses
    /\ losses' = losses + 1
    /\ up' = [up EXCEPT ![r] = FALSE]
    /\ request' = [request EXCEPT ![r] = Drop(r)]
    /\ \E hit \in SUBSET Bodies, file \in {"absent", "torn"} :
         objects' = [objects EXCEPT ![r] = [b \in Bodies |->
                       IF b \in hit /\ @[b] # "absent" THEN file ELSE @[b]]]
    /\ UNCHANGED <<clientVars, crashes>>

Restart(r) ==
    /\ ~up[r]
    /\ up' = [up EXCEPT ![r] = TRUE]
    /\ UNCHANGED <<objects, request, clientVars, crashes, losses>>

\* Faulty: a file that is there is served as it is.
ServeUnchecked(r, b, file) ==
    up[r] /\ objects[r][b] # "absent" /\ file = objects[r][b]

\* GET /objects: 404 without the file, 500 if its hash is not its name.
Serve(r, b, file) == up[r] /\ objects[r][b] = "whole" /\ file = "whole"

-----------------------------------------------------------------------------
(* storage.ts, uploadToReplicas.                                           *)

\* The body goes to every replica in parallel.
Upload(b) ==
    /\ upload[b] = "idle"
    /\ upload' = [upload EXCEPT ![b] = "running"]
    /\ request' = [r \in ReplicaIds |-> [request[r] EXCEPT ![b] = "sent"]]
    /\ UNCHANGED <<up, objects, outcome, asking, fetched, crashes, losses>>

\* The receipt arrives in time and validates: id, hash, length, signature.
Acknowledged(r, b) ==
    /\ upload[b] = "running"
    /\ outcome[r][b] = "pending"
    /\ request[r][b] = "signed"
    /\ outcome' = [outcome EXCEPT ![r][b] = "receipt"]
    /\ UNCHANGED <<up, objects, request, upload, asking, fetched, crashes, losses>>

\* An error, a dropped connection, or timeoutMs gone by, whatever the replica did
\* or still does with the request.
Unacknowledged(r, b) ==
    /\ upload[b] = "running"
    /\ outcome[r][b] = "pending"
    /\ outcome' = [outcome EXCEPT ![r][b] = "problem"]
    /\ UNCHANGED <<up, objects, request, upload, asking, fetched, crashes, losses>>

\* hasStorageQuorum.
QuorumMet(receipts) == Cardinality(receipts) >= STORAGE_QUORUM

\* All three are in: the bidder submits on a quorum, and throws without.
Settle(b) ==
    /\ upload[b] = "running"
    /\ \A r \in ReplicaIds : outcome[r][b] # "pending"
    /\ upload' = [upload EXCEPT ![b] =
         IF QuorumMet({r \in ReplicaIds : outcome[r][b] = "receipt"})
         THEN "quorum" ELSE "short"]
    /\ UNCHANGED <<up, objects, request, outcome, asking, fetched, crashes, losses>>

-----------------------------------------------------------------------------
(* storage.ts, fetchCiphertext.                                            *)

\* A press of open, or of open again, for a body the chain has.
Fetch(b) ==
    /\ upload[b] = "quorum"
    /\ fetched[b] = "nothing"
    /\ asking[b] = 0
    /\ asking' = [asking EXCEPT ![b] = 1]
    /\ UNCHANGED <<up, objects, request, outcome, upload, fetched, crashes, losses>>

\* The replica asked serves the body, and the answer is in time.
Served(r, b) ==
    /\ asking[b] = r
    /\ \E file \in Files : Serve(r, b, file) /\ fetched' = [fetched EXCEPT ![b] = file]
    /\ asking' = [asking EXCEPT ![b] = 0]
    /\ UNCHANGED <<up, objects, request, outcome, upload, crashes, losses>>

\* Faulty: the first problem ends the search.
GiveUp(r) == 0

\* After a problem the next replica is asked; after the last it throws.
NextAsked(r) == (r + 1) % (Cardinality(ReplicaIds) + 1)

\* It does not, or not in time.
NotServed(r, b) ==
    /\ asking[b] = r
    /\ asking' = [asking EXCEPT ![b] = NextAsked(r)]
    /\ UNCHANGED <<up, objects, request, outcome, upload, fetched, crashes, losses>>

-----------------------------------------------------------------------------

StoreNext ==
    \/ \E r \in ReplicaIds : Crash(r) \/ LosePower(r) \/ Restart(r)
    \/ \E b \in Bodies : Upload(b) \/ Settle(b) \/ Fetch(b)
    \/ \E r \in ReplicaIds, b \in Bodies :
         \/ \E intact \in BOOLEAN : PutObject(r, b, intact)
         \/ Acknowledged(r, b) \/ Unacknowledged(r, b)
         \/ Served(r, b) \/ NotServed(r, b)

StoreSpec == StoreInit /\ [][StoreNext]_storeVars

\* Replicas are started again, the opening is pressed again, each replica asked
\* answers or its timer runs out, and one that has the body is not too late for
\* ever.
StoreFairness ==
    /\ \A r \in ReplicaIds : WF_storeVars(Restart(r))
    /\ \A b \in Bodies :
         /\ WF_storeVars(Fetch(b))
         /\ \A r \in ReplicaIds :
              /\ WF_storeVars(Served(r, b) \/ NotServed(r, b))
              /\ SF_storeVars(Served(r, b))

StoreFairSpec == StoreSpec /\ StoreFairness

-----------------------------------------------------------------------------
(* Properties.                                                             *)

\* "An on-chain submission whose ciphertext only one replica holds" never happens
\* (storage.ts): a body taken to the chain is whole at two replicas, less one for
\* each power failure, whatever crashed, was late or arrived garbled.
TwoHoldIt ==
    \A b \in Bodies : upload[b] = "quorum" =>
        Cardinality({r \in ReplicaIds : objects[r][b] = "whole"}) + losses >= STORAGE_QUORUM

\* What the opening gets is the body the chain names, never a damaged file
\* (GET hashes again on the way out).
FetchedIsWhole == \A b \in Bodies : fetched[b] # "torn"

\* A body the chain has is fetched in the end, with one replica's file lost and
\* any of them down for a while (fetchCiphertext asks them all).
AcceptedIsFetched == \A b \in Bodies : upload[b] = "quorum" ~> fetched[b] = "whole"

=============================================================================
