--------------------------- MODULE TenderScripts ---------------------------
(***************************************************************************)
(* scripts/: the commands that seed and finish tenders on a live network   *)
(* (publish-tender, complete-tender, seed-demo, committee-ceremony deal),  *)
(* each a terminal that reads the chain, sends one transaction after       *)
(* another and leaves files for the workspaces, while other bidders, other *)
(* terminals and the council use the same chain.  A transaction that the   *)
(* contracts refuse ends the script, and a script may be interrupted       *)
(* anywhere and started again.                                             *)
(***************************************************************************)
EXTENDS Integers, Sequences, FiniteSets, SequencesExt

CONSTANTS
    Sessions,       \* bound: the sets of terminals of a behaviour, [script, ref]
    Refs,           \* tender references
    FirmAmounts,    \* what each firm of the scripts bids, in the order it is listed
    CommitteeFiles, \* COMMITTEE_SIZE
    MaxStarts,      \* bound: how often each terminal starts its script
    Outsider,       \* a bidder who uses the workspace instead
    Unwritten, NoKey, NoIndex, NoRoot

Firms == DOMAIN FirmAmounts

Scripts == {"publish", "complete", "seed", "deal"}

ASSUME ScriptsAssumption ==
    /\ Sessions \subseteq SUBSET [script : Scripts, ref : Refs]
    /\ Unwritten \notin Nat
    /\ FirmAmounts \in Seq(Nat) /\ FirmAmounts # << >>
    /\ CommitteeFiles \in Nat \ {0} /\ MaxStarts \in Nat
    /\ Outsider \notin Firms

VARIABLES
    terminals,    \* bound: the session of this behaviour
    jobs,         \* the script under way in each terminal, or Stopped
    starts,       \* bound counter
    tender,       \* what the contracts hold of each reference
    currentRoot,  \* revocation root of the registry's current epoch
    dealt,        \* dealings drawn so far, each one new
    dealingFile,  \* public/committee-dealings/<tender>.json
    dealingIndex, \* public/committee-dealings/index.json
    receiptsFile, \* public/bidder-receipts/index.json
    shareFile, publicFile   \* infrastructure/committee-shares

chainVars == <<tender, currentRoot>>
fileVars == <<dealt, dealingFile, dealingIndex, receiptsFile, shareFile, publicFile>>
scriptVars == <<terminals, jobs, starts, chainVars, fileVars>>

Stopped == [at |-> 0]
\* Revocation roots: of the empty tree, of the one revocationTreeWith(9999) and another.
NoneRevoked == "none"
ThirdFirmRevoked == "9999"
OtherRevoked == "other"

NewTender ==
    [state |-> "NONE", clock |-> "review", rules |-> FALSE, key |-> NoKey, bids |-> << >>,
     pinned |-> NoRoot, opened |-> {}, proven |-> {}, award |-> NoIndex, named |-> FALSE]

ScriptsInit ==
    /\ terminals \in Sessions
    /\ jobs = [j \in terminals |-> Stopped]
    /\ starts = [j \in terminals |-> 0]
    /\ tender = [r \in Refs |-> NewTender]
    /\ currentRoot = NoRoot
    /\ dealt = 0
    /\ dealingFile = [r \in Refs |-> Unwritten]
    /\ dealingIndex = Unwritten /\ receiptsFile = Unwritten
    /\ shareFile = [r \in Refs |-> [i \in 1 .. CommitteeFiles |-> Unwritten]]
    /\ publicFile = [r \in Refs |-> Unwritten]

-----------------------------------------------------------------------------
(* The scripts, as the order of their stages.                              *)

\* Faulty: the dealing is saved as soon as it is dealt.
SavedFirst == <<"root", "create", "rules", "key", "file", "index", "activate">>

\* publish-tender.mjs: the dealing is written for the workspace once the tender is ACTIVE.
PublishStages == <<"root", "create", "rules", "key", "activate", "file", "index">>

\* Faulty: each firm's receipt is written when its bid was accepted.
ReceiptsAtOnce ==
    <<"read", "wait", "submit", "receipts", "revoke", "close", "open", "status", "award",
      "identity">>

\* complete-tender.mjs.
CompleteStages ==
    <<"read", "wait", "submit", "revoke", "close", "open", "status", "award", "identity",
      "receipts">>

\* seed-demo.mjs: both in one process, the dealing in its memory only.
SeedDrafts == <<"root", "create", "rules", "key", "activate">>
SeedBids == <<"wait", "submit">>
SeedOpens == <<"revoke", "close", "open">>
SeedAwards == <<"check", "status", "award", "identity">>
SeedStages == SeedDrafts \o SeedBids \o SeedOpens \o SeedAwards

\* committee-ceremony.mjs deal.
DealStages == <<"refuse", "shares", "public">>

Stages(script) ==
    CASE script = "publish" -> PublishStages
      [] script = "complete" -> CompleteStages
      [] script = "seed" -> SeedStages
      [] script = "deal" -> DealStages

On(j, stage) ==
    /\ jobs[j] # Stopped
    /\ Stages(j.script)[jobs[j].at] = stage

\* The job with its memory changed, at the next stage; a stage of the firms or the
\* members goes through them in turn.
Onward(j, job) ==
    jobs' = [jobs EXCEPT ![j] =
               IF job.at = Len(Stages(j.script)) THEN Stopped
               ELSE [job EXCEPT !.at = @ + 1, !.k = 1]]
InTurn(j, job, last) ==
    IF job.k < last THEN jobs' = [jobs EXCEPT ![j] = [job EXCEPT !.k = @ + 1]]
    ELSE Onward(j, job)
Die(j) == jobs' = [jobs EXCEPT ![j] = Stopped]

StartScript(j) ==
    /\ jobs[j] = Stopped /\ starts[j] < MaxStarts
    /\ starts' = [starts EXCEPT ![j] = @ + 1]
    /\ jobs' = [jobs EXCEPT ![j] = [at |-> 1, k |-> 1, sent |-> FALSE, dealing |-> NoKey,
                                    index |-> [f \in Firms |-> NoIndex]]]
    /\ UNCHANGED <<terminals, chainVars, fileVars>>

InterruptScript(j) ==
    /\ jobs[j] # Stopped
    /\ Die(j)
    /\ UNCHANGED <<terminals, starts, chainVars, fileVars>>

\* A transaction: sent when the contract takes it, otherwise the script throws.
Transact(j, accepted, t, job) ==
    /\ IF accepted THEN tender' = [tender EXCEPT ![j.ref] = t] /\ Onward(j, job)
       ELSE tender' = tender /\ Die(j)
    /\ UNCHANGED <<terminals, starts, currentRoot>>

-----------------------------------------------------------------------------
(* publish-tender.mjs and the first half of seed-demo.mjs.                 *)

\* closeTender pins the current epoch's root, so one must be there.
EnsureRoot(j) ==
    /\ On(j, "root")
    /\ currentRoot' = IF currentRoot = NoRoot THEN NoneRevoked ELSE currentRoot
    /\ Onward(j, jobs[j])
    /\ UNCHANGED <<terminals, starts, tender, fileVars>>

CreateTender(j) ==
    /\ On(j, "create")
    /\ Transact(j, tender[j.ref].state = "NONE", [tender[j.ref] EXCEPT !.state = "DRAFT"], jobs[j])
    /\ UNCHANGED fileVars

\* setRuleDocument, the comparison with the recomputed hash, setRuleFields.
StoreRules(j) ==
    /\ On(j, "rules")
    /\ Transact(j, tender[j.ref].state = "DRAFT", [tender[j.ref] EXCEPT !.rules = TRUE], jobs[j])
    /\ UNCHANGED fileVars

DealKey(j) ==
    /\ On(j, "key")
    /\ dealt' = dealt + 1
    /\ Transact(j, tender[j.ref].state = "DRAFT", [tender[j.ref] EXCEPT !.key = dealt'],
                [jobs[j] EXCEPT !.dealing = dealt'])
    /\ UNCHANGED <<dealingFile, dealingIndex, receiptsFile, shareFile, publicFile>>

ActivateTender(j) ==
    /\ On(j, "activate")
    /\ LET t == tender[j.ref] IN
       Transact(j, t.state = "DRAFT" /\ t.rules /\ t.key # NoKey,
                [t EXCEPT !.state = "ACTIVE"], jobs[j])
    /\ UNCHANGED fileVars

WriteDealing(j) ==
    /\ On(j, "file")
    /\ dealingFile' = [dealingFile EXCEPT ![j.ref] = jobs[j].dealing]
    /\ Onward(j, jobs[j])
    /\ UNCHANGED <<terminals, starts, chainVars, dealt, dealingIndex, receiptsFile, shareFile,
                   publicFile>>

\* The index names the dealing written last and forgets the others.
WriteIndex(j) ==
    /\ On(j, "index")
    /\ dealingIndex' = j.ref
    /\ Onward(j, jobs[j])
    /\ UNCHANGED <<terminals, starts, chainVars, dealt, dealingFile, receiptsFile, shareFile,
                   publicFile>>

-----------------------------------------------------------------------------
(* complete-tender.mjs and the second half of seed-demo.mjs.               *)

\* The tender must be ACTIVE and its dealing served; every firm's proof is made and its
\* bid sealed to the served key, before bidding opens.
ReadTender(j) ==
    /\ On(j, "read")
    /\ IF tender[j.ref].state = "ACTIVE" /\ dealingFile[j.ref] # Unwritten
       THEN Onward(j, [jobs[j] EXCEPT !.dealing = dealingFile[j.ref]]) ELSE Die(j)
    /\ UNCHANGED <<terminals, starts, chainVars, fileVars>>

IsBiddingOpen(r) == tender[r].state = "ACTIVE" /\ tender[r].clock = "bidding"

\* A script started after the deadline waits here for ever.
WaitForBidding(j) ==
    /\ On(j, "wait")
    /\ IsBiddingOpen(j.ref)
    /\ Onward(j, jobs[j])
    /\ UNCHANGED <<terminals, starts, chainVars, fileVars>>

BidsOf(r, by) == {i \in DOMAIN tender[r].bids : tender[r].bids[i] = by}

\* The k-th firm's bid.  A nullifier used is refused, in a second run too: the secrets
\* are derived from the reference.  seed-demo takes the place in its list for the index.
SubmitBid(j) ==
    /\ On(j, "submit") /\ ~jobs[j].sent
    /\ LET k == jobs[j].k IN
       IF IsBiddingOpen(j.ref) /\ BidsOf(j.ref, k) = {}
       THEN /\ tender' = [tender EXCEPT ![j.ref].bids = Append(@, k)]
            /\ IF j.script = "seed"
               THEN InTurn(j, [jobs[j] EXCEPT !.index[k] = k - 1], Len(FirmAmounts))
               ELSE jobs' = [jobs EXCEPT ![j].sent = TRUE]
       ELSE tender' = tender /\ Die(j)
    /\ UNCHANGED <<terminals, starts, currentRoot, fileVars>>

\* complete-tender asks for the count afterwards, when others may have bid as well.
ReadIndex(j) ==
    /\ On(j, "submit") /\ jobs[j].sent
    /\ InTurn(j, [jobs[j] EXCEPT !.sent = FALSE,
                                 !.index[jobs[j].k] = Len(tender[j.ref].bids) - 1],
              Len(FirmAmounts))
    /\ UNCHANGED <<terminals, starts, chainVars, fileVars>>

RevokeThirdFirm(j) ==
    /\ On(j, "revoke")
    /\ currentRoot' = ThirdFirmRevoked
    /\ Onward(j, jobs[j])
    /\ UNCHANGED <<terminals, starts, tender, fileVars>>

Closed(t) == [t EXCEPT !.state = "CLOSED", !.pinned = currentRoot]
Closable(r) == tender[r].state = "ACTIVE" /\ currentRoot # NoRoot

\* The deadline passes, and the script's closer is not the first to close: it throws.
CloseTender(j) ==
    /\ On(j, "close")
    /\ ~IsBiddingOpen(j.ref)
    /\ Transact(j, Closable(j.ref) /\ tender[j.ref].clock = "over", Closed(tender[j.ref]), jobs[j])
    /\ UNCHANGED fileVars

\* The contract compares the ciphertext with the hash in the bid at that index, and
\* each share's proof with the pinned key; the opening with the bid's commitment.
Openable(j, i) ==
    /\ tender[j.ref].state = "CLOSED"
    /\ i + 1 \in BidsOf(j.ref, jobs[j].k)
    /\ i \notin tender[j.ref].opened
    /\ tender[j.ref].key = jobs[j].dealing

EachFirm(j, accepted, t) ==
    /\ IF accepted THEN tender' = [tender EXCEPT ![j.ref] = t] /\ InTurn(j, jobs[j], Len(FirmAmounts))
       ELSE tender' = tender /\ Die(j)
    /\ UNCHANGED <<terminals, starts, currentRoot, fileVars>>

OpenBid(j) ==
    /\ On(j, "open")
    /\ LET i == jobs[j].index[jobs[j].k] IN
       EachFirm(j, Openable(j, i), [tender[j.ref] EXCEPT !.opened = @ \cup {i}])

\* seed-demo only: the root pinned is the one the script published.
CheckDeadlineRoot(j) ==
    /\ On(j, "check")
    /\ IF tender[j.ref].pinned = ThirdFirmRevoked THEN Onward(j, jobs[j]) ELSE Die(j)
    /\ UNCHANGED <<terminals, starts, chainVars, fileVars>>

\* Proved under the tree the script published, checked under the root pinned.
SubmitStatusProof(j) ==
    /\ On(j, "status")
    /\ LET i == jobs[j].index[jobs[j].k] IN
       EachFirm(j, tender[j.ref].pinned = ThirdFirmRevoked /\ i \notin tender[j.ref].proven,
                [tender[j.ref] EXCEPT !.proven = @ \cup {i}])

Lowest(k) == \A f \in Firms : \/ FirmAmounts[k] < FirmAmounts[f]
                              \/ FirmAmounts[k] = FirmAmounts[f] /\ k <= f

\* proveAward, over the script's own firms, against the root of all the bids.
RecordAward(j) ==
    /\ On(j, "award")
    /\ LET t == tender[j.ref]
           k == CHOOSE f \in Firms : Lowest(f) IN
       Transact(j, /\ t.state = "CLOSED"
                   /\ Len(t.bids) = Len(FirmAmounts)
                   /\ \A f \in Firms : t.bids[jobs[j].index[f] + 1] = f,
                [t EXCEPT !.state = "AWARDED", !.award = jobs[j].index[k]], jobs[j])
    /\ UNCHANGED fileVars

SubmitIdentityProof(j) ==
    /\ On(j, "identity")
    /\ Transact(j, tender[j.ref].state = "AWARDED" /\ ~tender[j.ref].named,
                [tender[j.ref] EXCEPT !.named = TRUE], jobs[j])
    /\ UNCHANGED fileVars

WriteReceipts(j) ==
    /\ On(j, "receipts")
    /\ receiptsFile' = [ref |-> j.ref, index |-> jobs[j].index]
    /\ Onward(j, jobs[j])
    /\ UNCHANGED <<terminals, starts, chainVars, dealt, dealingFile, dealingIndex, shareFile,
                   publicFile>>

-----------------------------------------------------------------------------
(* committee-ceremony.mjs deal.                                            *)

RefuseSecondDealing(j) ==
    /\ On(j, "refuse")
    /\ IF publicFile[j.ref] = Unwritten
       THEN dealt' = dealt + 1 /\ Onward(j, [jobs[j] EXCEPT !.dealing = dealt'])
       ELSE dealt' = dealt /\ Die(j)
    /\ UNCHANGED <<terminals, starts, chainVars, dealingFile, dealingIndex, receiptsFile,
                   shareFile, publicFile>>

WriteShare(j) ==
    /\ On(j, "shares")
    /\ shareFile' = [shareFile EXCEPT ![j.ref][jobs[j].k] = jobs[j].dealing]
    /\ InTurn(j, jobs[j], CommitteeFiles)
    /\ UNCHANGED <<terminals, starts, chainVars, dealt, dealingFile, dealingIndex, receiptsFile,
                   publicFile>>

WritePublic(j) ==
    /\ On(j, "public")
    /\ publicFile' = [publicFile EXCEPT ![j.ref] = jobs[j].dealing]
    /\ Onward(j, jobs[j])
    /\ UNCHANGED <<terminals, starts, chainVars, dealt, dealingFile, dealingIndex, receiptsFile,
                   shareFile>>

-----------------------------------------------------------------------------
(* Everybody else.                                                         *)

Clock(r) ==
    /\ tender[r].state = "ACTIVE"
    /\ \/ tender[r].clock = "review" /\ tender' = [tender EXCEPT ![r].clock = "bidding"]
       \/ tender[r].clock = "bidding" /\ tender' = [tender EXCEPT ![r].clock = "over"]
    /\ UNCHANGED <<terminals, jobs, starts, currentRoot, fileVars>>

OutsiderBids(r) ==
    /\ IsBiddingOpen(r) /\ BidsOf(r, Outsider) = {}
    /\ tender' = [tender EXCEPT ![r].bids = Append(@, Outsider)]
    /\ UNCHANGED <<terminals, jobs, starts, currentRoot, fileVars>>

OutsiderCloses(r) ==
    /\ Closable(r) /\ tender[r].clock = "over"
    /\ tender' = [tender EXCEPT ![r] = Closed(@)]
    /\ UNCHANGED <<terminals, jobs, starts, currentRoot, fileVars>>

CouncilRevokes ==
    /\ currentRoot \notin {NoRoot, OtherRevoked}
    /\ currentRoot' = OtherRevoked
    /\ UNCHANGED <<terminals, jobs, starts, tender, fileVars>>

ScriptsNext ==
    \/ \E j \in terminals :
         \/ StartScript(j) \/ InterruptScript(j)
         \/ EnsureRoot(j) \/ CreateTender(j) \/ StoreRules(j) \/ DealKey(j) \/ ActivateTender(j)
         \/ WriteDealing(j) \/ WriteIndex(j)
         \/ ReadTender(j) \/ WaitForBidding(j) \/ SubmitBid(j) \/ ReadIndex(j)
         \/ RevokeThirdFirm(j) \/ CloseTender(j) \/ OpenBid(j) \/ CheckDeadlineRoot(j)
         \/ SubmitStatusProof(j) \/ RecordAward(j) \/ SubmitIdentityProof(j) \/ WriteReceipts(j)
         \/ RefuseSecondDealing(j) \/ WriteShare(j) \/ WritePublic(j)
    \/ \E r \in Refs : Clock(r) \/ OutsiderBids(r) \/ OutsiderCloses(r)
    \/ CouncilRevokes

-----------------------------------------------------------------------------

\* What the scripts leave for the committee is usable: a served dealing is the key its
\* tender was activated with, the index names one that is served, and where the public
\* arguments of a ceremony are, all the members' share files are shares of that key -
\* however often a script was interrupted and run again, and whoever else published.
DealingsUsable ==
    /\ \A r \in Refs : dealingFile[r] # Unwritten =>
         tender[r].state \notin {"NONE", "DRAFT"} /\ tender[r].key = dealingFile[r]
    /\ dealingIndex # Unwritten => dealingFile[dealingIndex] # Unwritten
    /\ \A r \in Refs : publicFile[r] # Unwritten =>
         \A i \in 1 .. CommitteeFiles : shareFile[r][i] = publicFile[r]

\* The receipts served to the Bidder workspace are true: each firm's index is where the
\* chain holds that firm's bid and no other bid was in the comparison, although indices
\* are read after the bid was accepted and others bid and close in between; the award
\* is to the lowest.
ReceiptsTrue ==
    receiptsFile # Unwritten =>
      LET t == tender[receiptsFile.ref] IN
      /\ t.state = "AWARDED" /\ t.named
      /\ Len(t.bids) = Len(FirmAmounts)
      /\ \A f \in Firms : /\ t.bids[receiptsFile.index[f] + 1] = f
                          /\ receiptsFile.index[f] \in t.opened \cap t.proven
      /\ \A f \in Firms : FirmAmounts[t.bids[t.award + 1]] <= FirmAmounts[f]

=============================================================================
