--------------------------- MODULE SetupCeremony ---------------------------
(***************************************************************************)
(* packages/circuits/scripts: the phase-2 ceremony of one circuit as the   *)
(* files its commands leave behind.  One operator runs one command at a    *)
(* time in one checkout; a command may be interrupted between any two      *)
(* files it writes, and started again.                                     *)
(***************************************************************************)
EXTENDS Integers, Sequences, FiniteSets, SequencesExt

CONSTANTS
    DeclaredContributors,   \* how many contributors.json names
    MaxDraws,               \* bound: random values drawn in a behaviour
    MaxSources,             \* bound: versions of the circuit's source compiled
    NoFile,
    Idle                    \* no command is running

ASSUME CeremonyAssumption ==
    /\ DeclaredContributors \in Nat
    /\ MaxDraws \in Nat /\ MaxSources \in Nat
    /\ NoFile \notin Nat

VARIABLES
    r1cs,        \* the compiled circuit: which source it is of
    zkeys,       \* the intermediate parameters, by number
    stateFile,   \* state.json
    finalZkey, vkey,
    verifierSol, \* the committed Solidity verifier: the parameters it was exported from
    transcript,
    running,     \* the command under way: [command, index, at, own]
    draws,       \* bound counter: random values drawn, each one new
    allRan       \* history: the transcript is of one uninterrupted `ceremony all`

files == <<r1cs, zkeys, stateFile, finalZkey, vkey, verifierSol, transcript>>
ceremonyVars == <<files, running, draws, allRan>>

\* Parameters are the circuit they are for and the values that went into them; the
\* hash of one file is taken for the file.
Zkey(circuit, chain) == [circuit |-> circuit, chain |-> chain]

CeremonyInit ==
    /\ r1cs = 1
    /\ zkeys = [n \in 0 .. DeclaredContributors |-> NoFile]
    /\ stateFile = NoFile /\ finalZkey = NoFile /\ vkey = NoFile
    /\ verifierSol = NoFile /\ transcript = NoFile
    /\ running = Idle /\ draws = 0 /\ allRan = FALSE

\* The step of the running command, and where it goes next.
At(at) == running # Idle /\ running.at = at
GoOn(at) == running' = [running EXCEPT !.at = at]
Command(command, at, index) == [command |-> command, at |-> at, index |-> index, own |-> 0]

\* What a file holds, and what a command under way is.
Zkeys == [circuit : Nat, chain : Seq(Nat)]
StateFiles == [circuit : Nat, contributions : Seq(Nat), beacon : Nat \cup {NoFile},
               single : BOOLEAN, final : Zkeys \cup {NoFile}, key : Zkeys \cup {NoFile}]
Commands == [command : {"init", "contribute", "finalize", "all"},
             at : {"setup", "fresh", "read", "record", "single", "beacon", "key", "state",
                   "publish"},
             index : Nat, own : Nat]

ASSUME FilesAssumption == NoFile \notin Zkeys \cup StateFiles /\ Idle \notin Commands

\* The turns of `ceremony all`: the contributors in order, then the admission.
TurnOf(index) == IF index <= DeclaredContributors THEN Command("all", "read", index)
                 ELSE Command("all", "single", 0)

Draw == draws < MaxDraws /\ draws' = draws + 1

-----------------------------------------------------------------------------
(* The commands, typed by the operator.                                    *)

StartCommand(command) ==
    /\ running = Idle
    /\ \/ /\ command \in {"init", "all"}
          /\ running' = Command(command, "setup", 0)
       \/ /\ command = "contribute"
          /\ \E index \in 1 .. DeclaredContributors : running' = Command(command, "read", index)
       \/ /\ command = "finalize"
          /\ running' = Command(command, "beacon", 0)
    /\ UNCHANGED <<files, draws, allRan>>

\* cmdInit: the parameters numbered 0, then a fresh state.json.
Setup ==
    /\ At("setup")
    /\ zkeys' = [zkeys EXCEPT ![0] = Zkey(r1cs, << >>)]
    /\ GoOn("fresh")
    /\ UNCHANGED <<r1cs, stateFile, finalZkey, vkey, verifierSol, transcript, draws, allRan>>

FreshState ==
    /\ At("fresh")
    /\ stateFile' = [circuit |-> r1cs, contributions |-> << >>, beacon |-> NoFile,
                     single |-> FALSE, final |-> NoFile, key |-> NoFile]
    /\ running' = IF running.command = "all" THEN TurnOf(1) ELSE Idle
    /\ UNCHANGED <<r1cs, zkeys, finalZkey, vkey, verifierSol, transcript, draws, allRan>>

\* cmdContribute's refusals: no ceremony, a finalized one, an index out of turn.
ContributionDue(index) ==
    /\ stateFile # NoFile
    /\ stateFile.beacon = NoFile
    /\ index = Len(stateFile.contributions) + 1
    /\ zkeys[index - 1] # NoFile

\* Faulty: an interrupted contribution is built upon, not made again.
Resumed(index) == IF zkeys[index] # NoFile THEN zkeys[index] ELSE zkeys[index - 1]

\* The parameters a contribution starts from.
Previous(index) == zkeys[index - 1]

\* cmdContribute writes the next parameters, then records what it mixed in.
Contribute ==
    /\ At("read")
    /\ IF ContributionDue(running.index)
       THEN /\ Draw
            /\ LET previous == Previous(running.index) IN
               zkeys' = [zkeys EXCEPT ![running.index] =
                           Zkey(previous.circuit, Append(previous.chain, draws'))]
            /\ running' = [running EXCEPT !.at = "record", !.own = draws']
       ELSE running' = Idle /\ UNCHANGED <<zkeys, draws>>
    /\ UNCHANGED <<r1cs, stateFile, finalZkey, vkey, verifierSol, transcript, allRan>>

RecordContribution ==
    /\ At("record")
    /\ stateFile' = [stateFile EXCEPT !.contributions = Append(@, running.own)]
    /\ running' = IF running.command = "all" THEN TurnOf(running.index + 1) ELSE Idle
    /\ UNCHANGED <<r1cs, zkeys, finalZkey, vkey, verifierSol, transcript, draws, allRan>>

\* cmdAll admits, before it finalizes, that one machine made them all.
RecordSingleMachine ==
    /\ At("single")
    /\ stateFile' = [stateFile EXCEPT !.single = TRUE]
    /\ GoOn("beacon")
    /\ UNCHANGED <<r1cs, zkeys, finalZkey, vkey, verifierSol, transcript, draws, allRan>>

FinalizeDue ==
    /\ stateFile # NoFile
    /\ stateFile.beacon = NoFile
    /\ Len(stateFile.contributions) >= DeclaredContributors
    /\ Len(stateFile.contributions) >= 3

\* cmdFinalize: the beacon goes in and the final parameters are written, and only then
\* verified against the circuit.
ApplyBeacon ==
    /\ At("beacon")
    /\ IF FinalizeDue
       THEN /\ Draw
            /\ LET last == zkeys[Len(stateFile.contributions)] IN
               finalZkey' = Zkey(last.circuit, Append(last.chain, draws'))
            /\ running' = IF finalZkey'.circuit = r1cs
                          THEN [running EXCEPT !.at = "key", !.own = draws'] ELSE Idle
       ELSE running' = Idle /\ UNCHANGED <<finalZkey, draws>>
    /\ UNCHANGED <<r1cs, zkeys, stateFile, vkey, verifierSol, transcript, allRan>>

ExportKey ==
    /\ At("key")
    /\ vkey' = finalZkey
    /\ GoOn("state")
    /\ UNCHANGED <<r1cs, zkeys, stateFile, finalZkey, verifierSol, transcript, draws, allRan>>

SaveFinal ==
    /\ At("state")
    /\ stateFile' = [stateFile EXCEPT !.beacon = running.own, !.final = finalZkey, !.key = vkey]
    /\ GoOn("publish")
    /\ UNCHANGED <<r1cs, zkeys, finalZkey, vkey, verifierSol, transcript, draws, allRan>>

PublishTranscript ==
    /\ At("publish")
    /\ transcript' = stateFile
    /\ allRan' = (running.command = "all")
    /\ running' = Idle
    /\ UNCHANGED <<r1cs, zkeys, stateFile, finalZkey, vkey, verifierSol, draws>>

\* circuits:compile, of a source somebody edited.
Compile ==
    /\ running = Idle
    /\ r1cs < MaxSources
    /\ r1cs' = r1cs + 1
    /\ UNCHANGED <<zkeys, stateFile, finalZkey, vkey, verifierSol, transcript, running, draws,
                   allRan>>

ExportVerifier ==
    /\ running = Idle
    /\ finalZkey # NoFile
    /\ verifierSol' = finalZkey
    /\ UNCHANGED <<r1cs, zkeys, stateFile, finalZkey, vkey, transcript, running, draws, allRan>>

\* Ctrl-C, or a machine that goes down, between two files.
InterruptCommand ==
    /\ running # Idle
    /\ running' = Idle
    /\ UNCHANGED <<files, draws, allRan>>

CeremonyNext ==
    \/ \E command \in {"init", "contribute", "finalize", "all"} : StartCommand(command)
    \/ Setup \/ FreshState \/ Contribute \/ RecordContribution \/ RecordSingleMachine
    \/ ApplyBeacon \/ ExportKey \/ SaveFinal \/ PublishTranscript
    \/ Compile \/ ExportVerifier \/ InterruptCommand

-----------------------------------------------------------------------------
(* ceremony-verify.mjs, each section of its report.                        *)

CircuitUnchanged == r1cs = transcript.circuit

TranscriptComplete ==
    /\ Len(transcript.contributions) >= 3
    /\ Len(transcript.contributions) = DeclaredContributors
    /\ IsInjective(transcript.contributions)

BeaconRecorded == transcript.beacon # NoFile

FinalMatches ==
    /\ finalZkey # NoFile
    /\ finalZkey = transcript.final
    /\ finalZkey.circuit = r1cs
    /\ ToSet(transcript.contributions) \subseteq ToSet(finalZkey.chain)

KeyMatches == vkey # NoFile /\ vkey = transcript.key

\* exportVerifier into a scratch file, byte for byte.
VerifierMatches == verifierSol # NoFile /\ verifierSol = finalZkey

CeremonyVerified ==
    /\ transcript # NoFile
    /\ CircuitUnchanged /\ TranscriptComplete /\ BeaconRecorded
    /\ FinalMatches /\ KeyMatches /\ VerifierMatches

-----------------------------------------------------------------------------

\* The verification passes exactly when the published transcript is the history of the
\* parameters in use: the contributions it names and its beacon, in that order and no
\* others, went into the final parameters of the circuit as compiled, from which the
\* verification key and the contract's verifier were exported - whatever was
\* interrupted, run again, recompiled or started over on the way.  And one `ceremony
\* all` that ran through says in its transcript that one machine saw everything.
TranscriptIsHistory ==
    /\ CeremonyVerified <=>
         /\ transcript # NoFile /\ transcript.circuit = r1cs
         /\ finalZkey = Zkey(r1cs, Append(transcript.contributions, transcript.beacon))
         /\ vkey = finalZkey /\ verifierSol = finalZkey
    /\ allRan => transcript.single

=============================================================================
