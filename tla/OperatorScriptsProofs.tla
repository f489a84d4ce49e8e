------------------------- MODULE OperatorScriptsProofs -------------------------
(***************************************************************************)
(* Theorems of OperatorScripts, for every number of contributors, every    *)
(* list of firms, every committee size and every set of terminals.         *)
(*                                                                         *)
(* The ceremony: every random value is drawn once and goes to one place,   *)
(* the same in every file that has it, so a transcript whose values are    *)
(* among those of the final parameters has them in their order.            *)
(*                                                                         *)
(* The tender scripts: what a terminal found on the chain when a           *)
(* transaction of its was taken is never undone, and the terminal that     *)
(* created a tender is the only one that drafts it.                        *)
(***************************************************************************)
EXTENDS OperatorScripts, SequenceTheorems, WellFoundedInduction, TLAPS

-----------------------------------------------------------------------------
(* The ceremony.                                                           *)

\* The values the files, the running command and the counters may have.
CeremonyTypeOK ==
    /\ r1cs \in Nat /\ draws \in Nat /\ allRan \in BOOLEAN
    /\ zkeys \in [0 .. DeclaredContributors -> Zkeys \cup {NoFile}]
    /\ {stateFile, transcript} \subseteq StateFiles \cup {NoFile}
    /\ {finalZkey, vkey, verifierSol} \subseteq Zkeys \cup {NoFile}
    /\ running \in Commands \cup {Idle}

\* The sequences of random values in the files.
ZkeyChains(Z) == {z.chain : z \in Z \ {NoFile}}
RecordedChains(s) ==
    IF s = NoFile THEN {} ELSE {s.contributions} \cup ZkeyChains({s.final})
Chains ==
    ZkeyChains({zkeys[n] : n \in 0 .. DeclaredContributors} \cup {finalZkey})
      \cup RecordedChains(stateFile) \cup RecordedChains(transcript)

\* No value is at two places, in one sequence or in two.
AtOnePlace(C) ==
    \A b, c \in C : \A i \in DOMAIN b, j \in DOMAIN c : b[i] = c[j] => i = j

\* The random values of the files are those drawn so far, each at its place.
DrawnOnce ==
    /\ AtOnePlace(Chains)
    /\ \A c \in Chains : \A i \in DOMAIN c : c[i] <= draws

\* Parameters numbered n hold n values, and every recorded contribution has its
\* parameters and those it started from.
ParametersInTurn ==
    /\ \A n \in 0 .. DeclaredContributors :
         zkeys[n] # NoFile => Len(zkeys[n].chain) = n
    /\ finalZkey # NoFile => Len(finalZkey.chain) = DeclaredContributors + 1
    /\ stateFile # NoFile =>
         /\ Len(stateFile.contributions) <= DeclaredContributors
         /\ \A n \in 0 .. Len(stateFile.contributions) : zkeys[n] # NoFile

\* What state.json says once the beacon is in it: the parameters it names have the
\* beacon last, and are those in use if the beacon is the same.
Finalized(s) ==
    /\ s.beacon # NoFile /\ s.final # NoFile /\ s.key = s.final
    /\ Len(s.contributions) = DeclaredContributors /\ DeclaredContributors >= 3
    /\ Len(s.final.chain) = DeclaredContributors + 1
    /\ s.final.chain[DeclaredContributors + 1] = s.beacon
    /\ finalZkey # NoFile /\ finalZkey.chain[DeclaredContributors + 1] = s.beacon
         => finalZkey = s.final

\* So it is of the state file, when it names a beacon, and of the transcript.
FinalizedFiles ==
    /\ stateFile # NoFile /\ stateFile.beacon # NoFile => Finalized(stateFile)
    /\ transcript # NoFile => Finalized(transcript)
    /\ allRan => transcript # NoFile /\ transcript.single

\* The command has applied the beacon.
BeaconApplied == running.at \in {"key", "state", "publish"}

\* What the running command can rely on at each of its steps.
CommandInStep ==
    running # Idle =>
    /\ running.at = "fresh" => zkeys[0] # NoFile
    /\ running.at = "read" => running.index \in 1 .. DeclaredContributors
    /\ running.at = "record" =>
         /\ stateFile # NoFile /\ stateFile.beacon = NoFile
         /\ running.index = Len(stateFile.contributions) + 1
         /\ running.index <= DeclaredContributors
         /\ zkeys[running.index] # NoFile
         /\ running.own <= draws
         /\ \A c \in Chains : \A i \in DOMAIN c : c[i] = running.own => i = running.index
    /\ running.at = "single" => stateFile # NoFile
    /\ running.command = "all" /\ (running.at = "beacon" \/ BeaconApplied)
         => stateFile # NoFile /\ stateFile.single
    /\ BeaconApplied =>
         /\ stateFile # NoFile /\ Len(stateFile.contributions) = DeclaredContributors
         /\ DeclaredContributors >= 3
         /\ finalZkey # NoFile /\ finalZkey.chain[DeclaredContributors + 1] = running.own
    /\ running.at = "state" => vkey = finalZkey
    /\ running.at = "publish" => stateFile.beacon # NoFile

\* The inductive invariant of the ceremony.
CeremonyInv == CeremonyTypeOK /\ DrawnOnce /\ ParametersInTurn /\ FinalizedFiles /\ CommandInStep

\* A value that is new, or was already put at the next place, may be appended there.
LEMMA AppendedInPlace ==
    ASSUME NEW C \in SUBSET Seq(Nat), AtOnePlace(C), NEW c \in C, NEW d \in Nat,
           \A b \in C : \A i \in DOMAIN b : b[i] = d => i = Len(c) + 1,
           NEW D, D \subseteq C \cup {Append(c, d)}
    PROVE  AtOnePlace(D)
<1> DEFINE a == Append(c, d)
<1>0. c \in Seq(Nat)
  OBVIOUS
<1>1. DOMAIN a = 1 .. Len(c) + 1 /\ DOMAIN c = 1 .. Len(c) /\ Len(c) \in Nat
      /\ (\A i \in 1 .. Len(c) : a[i] = c[i]) /\ a[Len(c) + 1] = d
  BY <1>0, AppendProperties, LenProperties
<1> HIDE DEF a
<1>2. \A b \in C : \A i \in DOMAIN b, j \in DOMAIN a : b[i] = a[j] => i = j
  <2> SUFFICES ASSUME NEW b \in C, NEW i \in DOMAIN b, NEW j \in DOMAIN a, b[i] = a[j]
               PROVE  i = j
    OBVIOUS
  <2>1. CASE j \in 1 .. Len(c)
    BY <1>1, <2>1 DEF AtOnePlace
  <2>2. CASE j = Len(c) + 1
    BY <1>1, <2>2
  <2> QED
    BY <1>1, <2>1, <2>2
<1>3. \A i, j \in DOMAIN a : a[i] = a[j] => i = j
  <2> SUFFICES ASSUME NEW i \in DOMAIN a, NEW j \in DOMAIN a, a[i] = a[j] PROVE i = j
    OBVIOUS
  <2>1. CASE i \in 1 .. Len(c)
    BY <1>1, <1>2, <2>1
  <2>2. CASE j \in 1 .. Len(c)
    BY <1>1, <1>2, <2>2
  <2> QED
    BY <1>1, <2>1, <2>2
<1>4. D \subseteq C \cup {a}
  BY DEF a
<1> QED
  <2> SUFFICES ASSUME NEW x \in D, NEW y \in D, NEW i \in DOMAIN x, NEW j \in DOMAIN y, x[i] = y[j]
               PROVE  i = j
    BY DEF AtOnePlace
  <2>1. x \in C \/ x = a
    BY <1>4
  <2>2. y \in C \/ y = a
    BY <1>4
  <2>3. CASE x \in C /\ y \in C
    BY <2>3 DEF AtOnePlace
  <2>4. CASE x \in C /\ y = a
    BY <2>4, <1>2
  <2>5. CASE x = a /\ y \in C
    BY <2>5, <1>2
  <2>6. CASE x = a /\ y = a
    BY <2>6, <1>3
  <2> QED
    BY <2>1, <2>2, <2>3, <2>4, <2>5, <2>6

\* The sequences in the files are sequences of random values.
LEMMA ChainsAreSequences == CeremonyTypeOK => Chains \in SUBSET Seq(Nat)
<1> SUFFICES ASSUME CeremonyTypeOK PROVE Chains \subseteq Seq(Nat)
  OBVIOUS
<1>1. \A Z : Z \subseteq Zkeys \cup {NoFile} => ZkeyChains(Z) \subseteq Seq(Nat)
  BY DEF ZkeyChains, Zkeys
<1>2. \A s \in StateFiles \cup {NoFile} : RecordedChains(s) \subseteq Seq(Nat)
  BY <1>1 DEF RecordedChains, StateFiles
<1> QED
  BY <1>1, <1>2 DEF CeremonyTypeOK, Chains

\* A fresh checkout satisfies the invariant.
LEMMA CeremonyStarts == CeremonyInit => CeremonyInv
<1> SUFFICES ASSUME CeremonyInit PROVE CeremonyInv
  OBVIOUS
<1>1. CeremonyTypeOK
  BY CeremonyAssumption DEF CeremonyInit, CeremonyTypeOK
<1>2. Chains = {}
  BY DEF CeremonyInit, Chains, ZkeyChains, RecordedChains
<1> QED
  BY <1>1, <1>2
     DEF CeremonyInit, CeremonyInv, DrawnOnce, AtOnePlace, ParametersInTurn, FinalizedFiles,
         CommandInStep

-----------------------------------------------------------------------------

\* Files that are only copied or forgotten keep every value in its place.
LEMMA CopiedInPlace == DrawnOnce /\ Chains' \subseteq Chains /\ draws' = draws => DrawnOnce'
BY DEF DrawnOnce, AtOnePlace

\* A started command is at its first step, an interrupted one at none.
LEMMA StartKeeps ==
    ASSUME CeremonyInv, running = Idle, UNCHANGED <<files, draws, allRan>>,
           \/ \E command \in {"init", "all"} : running' = Command(command, "setup", 0)
           \/ \E index \in 1 .. DeclaredContributors :
                running' = Command("contribute", "read", index)
           \/ running' = Command("finalize", "beacon", 0)
    PROVE  CeremonyInv'
<1>1. Chains' = Chains
  BY DEF files, Chains, ZkeyChains, RecordedChains
<1>2. running' \in Commands
  BY DEF Command, Commands
<1>3. CeremonyTypeOK'
  BY <1>2 DEF CeremonyInv, CeremonyTypeOK, files
<1>4. CommandInStep'
  BY <1>2 DEF CommandInStep, Command, BeaconApplied
<1> QED
  BY <1>1, <1>3, <1>4, CopiedInPlace
     DEF CeremonyInv, ParametersInTurn, FinalizedFiles, Finalized, files

\* An interruption, or a refusal, leaves the files as they are.
LEMMA InterruptKeeps ==
    ASSUME CeremonyInv, running' = Idle, UNCHANGED <<files, draws, allRan>>
    PROVE  CeremonyInv'
<1>1. Chains' = Chains
  BY DEF files, Chains, ZkeyChains, RecordedChains
<1> QED
  BY <1>1, CopiedInPlace
     DEF CeremonyInv, CeremonyTypeOK, CommandInStep, ParametersInTurn, FinalizedFiles, Finalized,
         files

\* cmdInit, first file: the parameters numbered 0 may replace those of an older run.
LEMMA SetupKeeps == ASSUME CeremonyInv, Setup PROVE CeremonyInv'
<1> USE DEF CeremonyInv, Setup, At, GoOn
<1>1. Zkey(r1cs, << >>) \in Zkeys /\ 0 \in 0 .. DeclaredContributors
  BY CeremonyAssumption DEF Zkey, Zkeys, CeremonyTypeOK
<1>2. Zkey(r1cs, << >>) # NoFile
  BY <1>1, FilesAssumption
<1>3. /\ zkeys'[0] = Zkey(r1cs, << >>)
      /\ \A n \in 0 .. DeclaredContributors : n # 0 => zkeys'[n] = zkeys[n]
  BY <1>1 DEF CeremonyTypeOK
<1>4. CeremonyTypeOK'
  <2>1. running' \in Commands
    BY FilesAssumption DEF CeremonyTypeOK, Commands
  <2> QED
    BY <2>1, <1>1 DEF CeremonyTypeOK
<1>5. DrawnOnce'
  <2>1. Chains' \subseteq Chains \cup {<< >>}
    BY <1>3 DEF Chains, ZkeyChains, Zkey
  <2> QED
    BY <2>1 DEF DrawnOnce, AtOnePlace
<1>6. ParametersInTurn'
  BY <1>2, <1>3, CeremonyAssumption DEF ParametersInTurn, Zkey
<1>7. FinalizedFiles'
  BY DEF FinalizedFiles, Finalized
<1>8. CommandInStep'
  BY <1>2, <1>3 DEF CommandInStep, CeremonyTypeOK, Commands, BeaconApplied
<1> QED
  BY <1>4, <1>5, <1>6, <1>7, <1>8

\* The turns of `all` that come next.
LEMMA NextTurn ==
    ASSUME NEW index \in Nat \ {0}
    PROVE  /\ TurnOf(index) \in Commands /\ TurnOf(index).command = "all"
           /\ \/ TurnOf(index).at = "read" /\ TurnOf(index).index \in 1 .. DeclaredContributors
              \/ TurnOf(index).at = "single"
BY CeremonyAssumption DEF TurnOf, Command, Commands

\* cmdInit, second file: no contribution is recorded yet.
LEMMA FreshStateKeeps == ASSUME CeremonyInv, FreshState PROVE CeremonyInv'
<1> USE DEF CeremonyInv, FreshState, At, GoOn
<1>1. stateFile' \in StateFiles /\ stateFile'.contributions = << >> /\ stateFile'.beacon = NoFile
      /\ stateFile'.final = NoFile
  BY DEF StateFiles, CeremonyTypeOK
<1>2. stateFile' # NoFile
  BY <1>1, FilesAssumption
<1>3. running' = Idle \/ running' = TurnOf(1)
  OBVIOUS
<1>4. CeremonyTypeOK'
  BY <1>1, <1>3, NextTurn DEF CeremonyTypeOK
<1>5. DrawnOnce'
  <2>1. Chains' \subseteq Chains \cup {<< >>}
    BY <1>1 DEF Chains, ZkeyChains, RecordedChains
  <2> QED
    BY <2>1 DEF DrawnOnce, AtOnePlace
<1>6. ParametersInTurn'
  <2>1. zkeys[0] # NoFile
    BY DEF CommandInStep
  <2>2. Len(stateFile'.contributions) = 0
    BY <1>1
  <2> QED
    BY <2>1, <2>2, CeremonyAssumption DEF ParametersInTurn
<1>7. FinalizedFiles'
  BY <1>1 DEF FinalizedFiles, Finalized
<1>8. CommandInStep'
  BY <1>2, <1>3, NextTurn DEF CommandInStep, BeaconApplied
<1> QED
  BY <1>4, <1>5, <1>6, <1>7, <1>8

\* cmdContribute, first file: a fresh value at the next place, over an interrupted one.
LEMMA ContributeKeeps == ASSUME CeremonyInv, Contribute PROVE CeremonyInv'
<1> USE DEF CeremonyInv, Contribute, At
<1>1. CASE ~ContributionDue(running.index)
  BY <1>1, InterruptKeeps DEF files
<1>2. CASE ContributionDue(running.index)
  <2> DEFINE n == running.index
             previous == zkeys[n - 1]
             made == Zkey(previous.circuit, Append(previous.chain, draws'))
  <2>1. n \in 1 .. DeclaredContributors /\ n - 1 \in 0 .. DeclaredContributors
        /\ n \in 0 .. DeclaredContributors
    BY CeremonyAssumption DEF CommandInStep, CeremonyTypeOK
  <2>2. previous \in Zkeys /\ previous # NoFile /\ Len(previous.chain) = n - 1
        /\ previous.chain \in Seq(Nat)
    BY <1>2, <2>1 DEF ContributionDue, CeremonyTypeOK, ParametersInTurn, Zkeys
  <2>3. draws \in Nat /\ draws' = draws + 1 /\ draws' \in Nat
    BY <1>2 DEF Draw, CeremonyTypeOK
  <2>4. made \in Zkeys /\ Len(made.chain) = n /\ made.chain = Append(previous.chain, draws')
    <3>1. Append(previous.chain, draws') \in Seq(Nat) /\ Len(Append(previous.chain, draws')) = n
      BY <2>1, <2>2, <2>3, AppendProperties
    <3>2. previous.circuit \in Nat
      BY <2>2 DEF Zkeys
    <3> QED
      BY <3>1, <3>2 DEF Zkey, Zkeys
  <2>5. made # NoFile
    BY <2>4, FilesAssumption
  <2>6. /\ zkeys'[n] = made
        /\ \A m \in 0 .. DeclaredContributors : m # n => zkeys'[m] = zkeys[m]
        /\ zkeys' \in [0 .. DeclaredContributors -> Zkeys \cup {NoFile}]
    BY <1>2, <2>1, <2>4 DEF Previous, CeremonyTypeOK
  <2>7. running' \in Commands /\ running'.at = "record" /\ running'.own = draws'
        /\ running'.index = n
    BY <1>2, <2>3 DEF CeremonyTypeOK, Commands
  <2>8. CeremonyTypeOK'
    BY <2>6, <2>7, <2>3 DEF CeremonyTypeOK
  <2>9. Chains' \subseteq Chains \cup {Append(previous.chain, draws')}
    BY <2>4, <2>6 DEF Chains, ZkeyChains
  <2>10. previous.chain \in Chains
    BY <2>1, <2>2 DEF Chains, ZkeyChains
  <2>11. Chains \in SUBSET Seq(Nat)
    BY ChainsAreSequences
  <2>12. \A c \in Chains : \A i \in DOMAIN c : c[i] # draws' /\ c[i] <= draws'
    <3> SUFFICES ASSUME NEW c \in Chains, NEW i \in DOMAIN c PROVE c[i] # draws' /\ c[i] <= draws'
      OBVIOUS
    <3>1. c \in Seq(Nat)
      BY <2>11
    <3>2. c[i] \in Nat /\ c[i] <= draws
      BY <3>1 DEF DrawnOnce
    <3> QED
      BY <3>2, <2>3
  <2>13. \A c \in Chains' : \A i \in DOMAIN c :
           c[i] <= draws' /\ (c[i] = draws' => i = n)
    <3> SUFFICES ASSUME NEW c \in Chains', NEW i \in DOMAIN c
                 PROVE  c[i] <= draws' /\ (c[i] = draws' => i = n)
      OBVIOUS
    <3>1. CASE c \in Chains
      BY <3>1, <2>12
    <3>2. CASE c = Append(previous.chain, draws')
      <4>1. DOMAIN c = 1 .. n /\ \A m \in 1 .. n - 1 : c[m] = previous.chain[m]
        BY <3>2, <2>1, <2>2, <2>3, AppendProperties, LenProperties
      <4>2. CASE i \in 1 .. n - 1
        <5>1. i \in DOMAIN previous.chain
          BY <4>2, <2>2, LenProperties
        <5> QED
          BY <4>1, <4>2, <5>1, <2>10, <2>12
      <4>3. CASE i = n
        <5>1. c[n] = draws'
          BY <3>2, <2>1, <2>2, <2>3, AppendProperties
        <5> QED
          BY <4>3, <5>1, <2>3
      <4> QED
        BY <4>1, <4>2, <4>3, <2>1
    <3> QED
      BY <3>1, <3>2, <2>9
  <2>14. DrawnOnce'
    <3>1. AtOnePlace(Chains')
      <4>1. \A c \in Chains : \A i \in DOMAIN c : c[i] = draws' => i = Len(previous.chain) + 1
        BY <2>12
      <4>2. AtOnePlace(Chains)
        BY DEF DrawnOnce
      <4> HIDE DEF n, previous, made
      <4> QED
        BY <4>1, <4>2, <2>3, <2>9, <2>10, <2>11, AppendedInPlace
    <3> QED
      BY <3>1, <2>13 DEF DrawnOnce
  <2>15. ParametersInTurn'
    <3>1. \A m \in 0 .. DeclaredContributors :
            /\ zkeys[m] # NoFile => zkeys'[m] # NoFile
            /\ zkeys'[m] # NoFile => Len(zkeys'[m].chain) = m
      BY <2>4, <2>5, <2>6 DEF ParametersInTurn
    <3>2. UNCHANGED <<stateFile, finalZkey>>
      OBVIOUS
    <3>3. stateFile # NoFile => Len(stateFile.contributions) \in Nat
      BY DEF CeremonyTypeOK, StateFiles
    <3> QED
      BY <3>1, <3>2, <3>3, CeremonyAssumption DEF ParametersInTurn
  <2>16. FinalizedFiles'
    BY DEF FinalizedFiles, Finalized
  <2>17. CommandInStep'
    <3>1. stateFile # NoFile /\ stateFile.beacon = NoFile /\ n = Len(stateFile.contributions) + 1
      BY <1>2 DEF ContributionDue
    <3> QED
      BY <3>1, <2>1, <2>3, <2>5, <2>6, <2>7, <2>13 DEF CommandInStep, BeaconApplied
  <2> QED
    BY <2>8, <2>14, <2>15, <2>16, <2>17
<1> QED
  BY <1>1, <1>2

\* cmdContribute, second file: the value it drew, at the place it was put.
LEMMA RecordKeeps == ASSUME CeremonyInv, RecordContribution PROVE CeremonyInv'
<1> USE DEF CeremonyInv, RecordContribution, At
<1> DEFINE s == stateFile
           n == running.index
<1>1. /\ s \in StateFiles /\ s # NoFile /\ s.beacon = NoFile
      /\ n = Len(s.contributions) + 1 /\ n <= DeclaredContributors /\ n \in Nat \ {0}
      /\ running.own \in Nat /\ running.own <= draws
      /\ \A c \in Chains : \A i \in DOMAIN c : c[i] = running.own => i = n
      /\ zkeys[n] # NoFile /\ s.contributions \in Seq(Nat)
  <2>1. running \in Commands /\ running.at = "record"
    BY DEF CeremonyTypeOK
  <2>2. s \in StateFiles /\ s # NoFile
    BY <2>1 DEF CommandInStep, CeremonyTypeOK
  <2>3. Len(s.contributions) \in Nat
    BY <2>2 DEF StateFiles
  <2> QED
    BY <2>1, <2>2, <2>3 DEF CommandInStep, Commands, StateFiles
<1>2. /\ stateFile' \in StateFiles /\ stateFile'.beacon = NoFile
      /\ stateFile'.final = s.final
      /\ stateFile'.contributions = Append(s.contributions, running.own)
  <2>1. Append(s.contributions, running.own) \in Seq(Nat)
    BY <1>1, AppendProperties
  <2>2. stateFile' = [s EXCEPT !.contributions = Append(s.contributions, running.own)]
    OBVIOUS
  <2> QED
    BY <1>1, <2>1, <2>2 DEF StateFiles
<1>3. Len(stateFile'.contributions) = n
  BY <1>1, <1>2
<1>4. stateFile' # NoFile
  BY <1>2, FilesAssumption
<1>5. running' = Idle \/ /\ running' \in Commands /\ running'.command = "all"
                         /\ \/ running'.at = "read" /\ running'.index \in 1 .. DeclaredContributors
                            \/ running'.at = "single"
  <2>1. n + 1 \in Nat \ {0} /\ (running' = Idle \/ running' = TurnOf(n + 1))
    BY <1>1
  <2> QED
    BY <2>1, NextTurn
<1>6. CeremonyTypeOK'
  BY <1>1, <1>2, <1>5 DEF CeremonyTypeOK
<1>7. DrawnOnce'
  <2>1. Chains' \subseteq Chains \cup {Append(s.contributions, running.own)}
    BY <1>1, <1>2 DEF Chains, RecordedChains
  <2>2. s.contributions \in Chains
    BY <1>1 DEF Chains, RecordedChains
  <2>3. AtOnePlace(Chains')
    BY <1>1, <2>1, <2>2, ChainsAreSequences, AppendedInPlace DEF DrawnOnce
  <2>4. \A c \in Chains' : \A i \in DOMAIN c : c[i] <= draws
    <3> SUFFICES ASSUME NEW i \in DOMAIN Append(s.contributions, running.own)
                 PROVE  Append(s.contributions, running.own)[i] <= draws
      BY <2>1 DEF DrawnOnce
    <3>1. CASE i = n
      BY <3>1, <1>1
    <3>2. CASE i \in 1 .. Len(s.contributions)
      BY <3>2, <1>1, <2>2 DEF DrawnOnce
    <3> QED
      BY <3>1, <3>2, <1>1
  <2> QED
    BY <2>3, <2>4 DEF DrawnOnce
<1>8. ParametersInTurn'
  <2>1. \A m \in 0 .. n : m \in 0 .. Len(s.contributions) \/ m = n
    BY <1>1
  <2> QED
    BY <1>1, <1>3, <2>1 DEF ParametersInTurn
<1>9. FinalizedFiles'
  BY <1>2 DEF FinalizedFiles, Finalized
<1>10. CommandInStep'
  <2>1. CASE running' = Idle
    BY <2>1 DEF CommandInStep
  <2>2. CASE running' # Idle
    BY <1>4, <1>5, <2>2 DEF CommandInStep, BeaconApplied
  <2> QED
    BY <2>1, <2>2
<1> QED
  BY <1>6, <1>7, <1>8, <1>9, <1>10

\* cmdAll: the admission changes nothing else in state.json.
LEMMA SingleKeeps == ASSUME CeremonyInv, RecordSingleMachine PROVE CeremonyInv'
<1> USE DEF CeremonyInv, RecordSingleMachine, At, GoOn
<1>1. stateFile \in StateFiles /\ stateFile # NoFile
  BY DEF CommandInStep, CeremonyTypeOK
<1>2. /\ stateFile' \in StateFiles /\ stateFile'.single = TRUE
      /\ stateFile'.beacon = stateFile.beacon /\ stateFile'.contributions = stateFile.contributions
      /\ stateFile'.final = stateFile.final /\ stateFile'.key = stateFile.key
  BY <1>1 DEF StateFiles
<1>3. stateFile' # NoFile
  BY <1>2, FilesAssumption
<1>4. running' \in Commands /\ running'.at = "beacon"
  BY DEF CeremonyTypeOK, Commands
<1>5. CeremonyTypeOK'
  BY <1>2, <1>4 DEF CeremonyTypeOK
<1>6. DrawnOnce'
  <2>1. Chains' = Chains
    BY <1>1, <1>2, <1>3 DEF Chains, RecordedChains
  <2> QED
    BY <2>1, CopiedInPlace
<1>7. ParametersInTurn'
  BY <1>1, <1>2 DEF ParametersInTurn
<1>8. FinalizedFiles'
  BY <1>1, <1>2 DEF FinalizedFiles, Finalized
<1>9. CommandInStep'
  BY <1>2, <1>3, <1>4 DEF CommandInStep, BeaconApplied
<1> QED
  BY <1>5, <1>6, <1>7, <1>8, <1>9

\* cmdFinalize, first file: a fresh beacon, so older transcripts are of other parameters.
LEMMA BeaconKeeps == ASSUME CeremonyInv, ApplyBeacon PROVE CeremonyInv'
<1> USE DEF CeremonyInv, ApplyBeacon, At
<1>1. CASE ~FinalizeDue
  BY <1>1, InterruptKeeps DEF files
<1>2. CASE FinalizeDue
  <2> DEFINE last == zkeys[Len(stateFile.contributions)]
  <2>1. /\ stateFile \in StateFiles /\ stateFile # NoFile /\ stateFile.beacon = NoFile
        /\ Len(stateFile.contributions) = DeclaredContributors /\ DeclaredContributors >= 3
    <3>1. stateFile \in StateFiles /\ stateFile # NoFile
      BY <1>2 DEF FinalizeDue, CeremonyTypeOK
    <3>2. Len(stateFile.contributions) \in Nat
      BY <3>1 DEF StateFiles
    <3> QED
      BY <1>2, <3>1, <3>2, CeremonyAssumption DEF FinalizeDue, ParametersInTurn
  <2>2. last = zkeys[DeclaredContributors] /\ last \in Zkeys /\ last # NoFile
        /\ Len(last.chain) = DeclaredContributors /\ last.chain \in Seq(Nat)
        /\ last.circuit \in Nat
    BY <2>1, CeremonyAssumption DEF CeremonyTypeOK, ParametersInTurn, Zkeys
  <2>3. draws \in Nat /\ draws' = draws + 1 /\ draws' \in Nat
    BY <1>2 DEF Draw, CeremonyTypeOK
  <2> DEFINE chain == Append(last.chain, draws')
  <2>4. /\ chain \in Seq(Nat) /\ Len(chain) = DeclaredContributors + 1
        /\ DOMAIN chain = 1 .. DeclaredContributors + 1
        /\ \A i \in 1 .. DeclaredContributors : chain[i] = last.chain[i]
        /\ chain[DeclaredContributors + 1] = draws'
    BY <2>2, <2>3, AppendProperties, LenProperties
  <2>5. finalZkey' = Zkey(last.circuit, chain)
    BY <1>2
  <2> HIDE DEF last, chain
  <2>6. finalZkey' \in Zkeys /\ finalZkey'.chain = chain /\ finalZkey' # NoFile
    BY <2>2, <2>4, <2>5, FilesAssumption DEF Zkey, Zkeys
  <2>7. \/ running' = Idle
        \/ /\ running' \in Commands /\ running'.at = "key" /\ running'.own = draws'
           /\ running'.command = running.command
    BY <1>2, <2>3 DEF CeremonyTypeOK, Commands
  <2>8. CeremonyTypeOK'
    BY <2>3, <2>6, <2>7 DEF CeremonyTypeOK
  <2>9. Chains' \subseteq Chains \cup {chain}
    BY <2>6 DEF Chains, ZkeyChains
  <2>10. last.chain \in Chains
    BY <2>2, CeremonyAssumption DEF Chains, ZkeyChains
  <2>11. \A c \in Chains : \A i \in DOMAIN c : c[i] # draws' /\ c[i] <= draws'
    <3> SUFFICES ASSUME NEW c \in Chains, NEW i \in DOMAIN c PROVE c[i] # draws' /\ c[i] <= draws'
      OBVIOUS
    <3>1. c \in Seq(Nat)
      BY ChainsAreSequences
    <3>2. c[i] \in Nat /\ c[i] <= draws
      BY <3>1 DEF DrawnOnce
    <3> QED
      BY <3>2, <2>3
  <2>12. DrawnOnce'
    <3>1. AtOnePlace(Chains')
      <4>1. \A c \in Chains : \A i \in DOMAIN c : c[i] = draws' => i = Len(last.chain) + 1
        BY <2>11
      <4>2. AtOnePlace(Chains) /\ Chains \in SUBSET Seq(Nat)
        BY ChainsAreSequences DEF DrawnOnce
      <4>3. Chains' \subseteq Chains \cup {Append(last.chain, draws')}
        BY <2>9 DEF chain
      <4> QED
        BY <4>1, <4>2, <4>3, <2>3, <2>10, AppendedInPlace
    <3>2. \A i \in DOMAIN chain : chain[i] <= draws'
      <4> SUFFICES ASSUME NEW i \in DOMAIN chain PROVE chain[i] <= draws'
        OBVIOUS
      <4>1. CASE i \in 1 .. DeclaredContributors
        <5>1. i \in DOMAIN last.chain
          BY <4>1, <2>2, LenProperties
        <5> QED
          BY <4>1, <5>1, <2>4, <2>10, <2>11
      <4>2. CASE i = DeclaredContributors + 1
        BY <4>2, <2>3, <2>4
      <4> QED
        BY <4>1, <4>2, <2>4, CeremonyAssumption
    <3> QED
      BY <3>1, <3>2, <2>9, <2>11 DEF DrawnOnce
  <2>13. ParametersInTurn'
    BY <2>4, <2>6 DEF ParametersInTurn
  <2>14. FinalizedFiles'
    <3>1. \A s \in {stateFile, transcript} :
            s \in StateFiles /\ s # NoFile /\ s.final # NoFile => s.final.chain \in Chains
      BY DEF Chains, RecordedChains, ZkeyChains
    <3>2. ASSUME NEW s \in {stateFile, transcript}, s \in StateFiles, s # NoFile, Finalized(s)
          PROVE  Finalized(s)'
      <4>1. s.final.chain \in Chains /\ DeclaredContributors + 1 \in DOMAIN s.final.chain
        <5>1. s.final.chain \in Seq(Nat)
          BY <3>2 DEF Finalized, StateFiles, Zkeys
        <5> QED
          BY <3>1, <3>2, <5>1, CeremonyAssumption, LenProperties DEF Finalized
      <4>2. s.beacon # draws'
        BY <3>2, <4>1, <2>11 DEF Finalized
      <4>3. finalZkey'.chain[DeclaredContributors + 1] = draws'
        BY <2>4, <2>6
      <4>4. UNCHANGED <<stateFile, transcript>>
        OBVIOUS
      <4> QED
        BY <3>2, <4>2, <4>3, <4>4 DEF Finalized
    <3>3. transcript # NoFile => transcript \in StateFiles
      BY DEF CeremonyTypeOK
    <3> QED
      BY <2>1, <3>2, <3>3 DEF FinalizedFiles
  <2>15. CommandInStep'
    <3>1. CASE running' = Idle
      BY <3>1 DEF CommandInStep
    <3>2. CASE running' # Idle
      <4>1. running.command = "all" => stateFile.single
        BY DEF CommandInStep
      <4> QED
        BY <3>2, <4>1, <2>1, <2>4, <2>6, <2>7 DEF CommandInStep, BeaconApplied
    <3> QED
      BY <3>1, <3>2
  <2> QED
    BY <2>8, <2>12, <2>13, <2>14, <2>15
<1> QED
  BY <1>1, <1>2

\* cmdFinalize: the key of the parameters just written.
LEMMA ExportKeyKeeps == ASSUME CeremonyInv, ExportKey PROVE CeremonyInv'
<1> USE DEF CeremonyInv, ExportKey, At, GoOn
<1>1. running \in Commands /\ running' \in Commands /\ running'.at = "state"
      /\ running'.own = running.own /\ running'.command = running.command
  BY DEF CeremonyTypeOK, Commands
<1>2. CeremonyTypeOK'
  BY <1>1 DEF CeremonyTypeOK
<1>3. Chains' = Chains
  BY DEF Chains, RecordedChains, ZkeyChains
<1>4. CommandInStep'
  BY <1>1 DEF CommandInStep, BeaconApplied
<1> QED
  BY <1>2, <1>3, <1>4, CopiedInPlace DEF ParametersInTurn, FinalizedFiles, Finalized

\* cmdFinalize: state.json names what this command wrote.
LEMMA SaveFinalKeeps == ASSUME CeremonyInv, SaveFinal PROVE CeremonyInv'
<1> USE DEF CeremonyInv, SaveFinal, At, GoOn
<1>1. running \in Commands /\ running' \in Commands /\ running'.at = "publish"
      /\ running'.own = running.own /\ running'.command = running.command /\ running.own \in Nat
  BY DEF CeremonyTypeOK, Commands
<1>2. /\ stateFile \in StateFiles /\ stateFile # NoFile
      /\ Len(stateFile.contributions) = DeclaredContributors /\ DeclaredContributors >= 3
      /\ finalZkey \in Zkeys /\ finalZkey # NoFile /\ vkey = finalZkey
      /\ finalZkey.chain[DeclaredContributors + 1] = running.own
  BY DEF CommandInStep, BeaconApplied, CeremonyTypeOK
<1>3. /\ stateFile' \in StateFiles /\ stateFile'.beacon = running.own
      /\ stateFile'.final = finalZkey /\ stateFile'.key = finalZkey
      /\ stateFile'.single = stateFile.single
      /\ stateFile'.contributions = stateFile.contributions
  BY <1>1, <1>2 DEF StateFiles
<1>4. stateFile' # NoFile /\ stateFile'.beacon # NoFile
  BY <1>1, <1>3, FilesAssumption, CeremonyAssumption
<1>5. CeremonyTypeOK'
  BY <1>1, <1>3 DEF CeremonyTypeOK
<1>6. DrawnOnce'
  <2>1. Chains' \subseteq Chains
    BY <1>2, <1>3 DEF Chains, RecordedChains, ZkeyChains
  <2> QED
    BY <2>1, CopiedInPlace
<1>7. ParametersInTurn'
  BY <1>2, <1>3 DEF ParametersInTurn
<1>8. FinalizedFiles'
  <2>1. Finalized(stateFile)'
    BY <1>2, <1>3, <1>4 DEF Finalized, ParametersInTurn
  <2> QED
    BY <2>1 DEF FinalizedFiles, Finalized
<1>9. CommandInStep'
  <2>1. running.command = "all" => stateFile.single
    BY DEF CommandInStep, BeaconApplied
  <2> QED
    BY <2>1, <1>1, <1>2, <1>3, <1>4 DEF CommandInStep, BeaconApplied
<1> QED
  BY <1>5, <1>6, <1>7, <1>8, <1>9

\* cmdFinalize: the transcript is the state file.
LEMMA PublishKeeps == ASSUME CeremonyInv, PublishTranscript PROVE CeremonyInv'
<1> USE DEF CeremonyInv, PublishTranscript, At
<1>1. /\ stateFile \in StateFiles /\ stateFile # NoFile /\ stateFile.beacon # NoFile
      /\ running.command = "all" => stateFile.single
  BY DEF CommandInStep, BeaconApplied, CeremonyTypeOK
<1>2. CeremonyTypeOK'
  BY <1>1 DEF CeremonyTypeOK
<1>3. Chains' \subseteq Chains
  BY <1>1 DEF Chains, RecordedChains, ZkeyChains
<1>4. FinalizedFiles'
  BY <1>1 DEF FinalizedFiles, Finalized
<1> QED
  BY <1>2, <1>3, <1>4, CopiedInPlace DEF ParametersInTurn, CommandInStep

\* Recompiling and exporting write no file that the ceremony reads back.
LEMMA OutsideCommandsKeep ==
    ASSUME CeremonyInv, Compile \/ ExportVerifier
    PROVE  CeremonyInv'
<1> USE DEF CeremonyInv
<1>1. UNCHANGED <<zkeys, stateFile, finalZkey, vkey, transcript, running, draws, allRan>>
      /\ running = Idle
  BY DEF Compile, ExportVerifier
<1>2. CeremonyTypeOK'
  BY <1>1 DEF Compile, ExportVerifier, CeremonyTypeOK
<1>3. Chains' = Chains
  BY <1>1 DEF Chains, RecordedChains, ZkeyChains
<1> QED
  BY <1>1, <1>2, <1>3, CopiedInPlace DEF ParametersInTurn, FinalizedFiles, Finalized, CommandInStep

\* Every step of the ceremony keeps the invariant.
LEMMA CeremonyStep == ASSUME CeremonyInv, CeremonyNext PROVE CeremonyInv'
<1>1. ASSUME NEW command \in {"init", "contribute", "finalize", "all"}, StartCommand(command)
      PROVE  CeremonyInv'
  BY <1>1, StartKeeps DEF StartCommand
<1>2. CASE InterruptCommand
  BY <1>2, InterruptKeeps DEF InterruptCommand
<1> QED
  BY <1>1, <1>2, SetupKeeps, FreshStateKeeps, ContributeKeeps, RecordKeeps, SingleKeeps,
     BeaconKeeps, ExportKeyKeeps, SaveFinalKeeps, PublishKeeps, OutsideCommandsKeep
     DEF CeremonyNext

\* The files the verification accepts are the history, and it accepts the history.
LEMMA CeremonyInvSuffices == CeremonyInv => TranscriptIsHistory
<1> SUFFICES ASSUME CeremonyInv PROVE TranscriptIsHistory
  OBVIOUS
<1> USE DEF CeremonyInv
<1>1. allRan => transcript.single
  BY DEF FinalizedFiles
<1>2. CASE transcript = NoFile
  BY <1>1, <1>2 DEF TranscriptIsHistory, CeremonyVerified
<1>3. CASE transcript # NoFile
  <2> DEFINE c == transcript.contributions
             b == transcript.beacon
  <2>1. /\ transcript \in StateFiles /\ Finalized(transcript)
        /\ c \in Seq(Nat) /\ DOMAIN c = 1 .. DeclaredContributors /\ b \in Nat
    BY <1>3, LenProperties DEF CeremonyTypeOK, FinalizedFiles, Finalized, StateFiles
  <2>2. c \in Chains
    BY <1>3 DEF Chains, RecordedChains
  <2>3. IsInjective(c)
    BY <2>2 DEF IsInjective, DrawnOnce, AtOnePlace
  <2>4. /\ Append(c, b) \in Seq(Nat) /\ Len(Append(c, b)) = DeclaredContributors + 1
        /\ \A i \in 1 .. DeclaredContributors : Append(c, b)[i] = c[i]
        /\ Append(c, b)[DeclaredContributors + 1] = b
    BY <2>1, AppendProperties DEF Finalized
  <2>5. ASSUME CeremonyVerified
        PROVE  /\ transcript.circuit = r1cs
               /\ finalZkey = Zkey(r1cs, Append(c, b))
               /\ vkey = finalZkey /\ verifierSol = finalZkey
    <3>1. /\ finalZkey = transcript.final /\ finalZkey # NoFile /\ finalZkey.circuit = r1cs
          /\ ToSet(c) \subseteq ToSet(finalZkey.chain)
          /\ transcript.circuit = r1cs /\ vkey = finalZkey /\ verifierSol = finalZkey
      BY <2>1, <2>5
         DEF CeremonyVerified, FinalMatches, CircuitUnchanged, KeyMatches, VerifierMatches, Finalized
    <3>2. /\ finalZkey \in Zkeys /\ finalZkey.chain \in Seq(Nat)
          /\ Len(finalZkey.chain) = DeclaredContributors + 1
          /\ finalZkey.chain[DeclaredContributors + 1] = b
      BY <2>1, <3>1 DEF Finalized, CeremonyTypeOK, Zkeys
    <3>3. finalZkey.chain \in Chains
      BY <3>1 DEF Chains, ZkeyChains
    <3>4. \A i \in 1 .. DeclaredContributors : finalZkey.chain[i] = c[i]
      <4> SUFFICES ASSUME NEW i \in 1 .. DeclaredContributors PROVE finalZkey.chain[i] = c[i]
        OBVIOUS
      <4>1. PICK j \in DOMAIN finalZkey.chain : finalZkey.chain[j] = c[i]
        BY <2>1, <3>1 DEF ToSet
      <4>2. j = i
        BY <2>1, <2>2, <3>3, <4>1 DEF DrawnOnce, AtOnePlace
      <4> QED
        BY <4>1, <4>2
    <3>5. finalZkey.chain = Append(c, b)
      <4>1. \A i \in 1 .. DeclaredContributors + 1 : finalZkey.chain[i] = Append(c, b)[i]
        BY <2>4, <3>2, <3>4, CeremonyAssumption
      <4> QED
        BY <2>4, <3>2, <4>1, SeqEqual
    <3> QED
      BY <3>1, <3>2, <3>5 DEF Zkey, Zkeys
  <2>6. ASSUME transcript.circuit = r1cs, finalZkey = Zkey(r1cs, Append(c, b)),
               vkey = finalZkey, verifierSol = finalZkey
        PROVE  CeremonyVerified
    <3>1. finalZkey.circuit = r1cs /\ finalZkey.chain = Append(c, b)
      BY <2>6 DEF Zkey
    <3>2. finalZkey # NoFile
      <4>1. r1cs \in Nat
        BY DEF CeremonyTypeOK
      <4>2. Zkey(r1cs, Append(c, b)) \in Zkeys
        BY <4>1, <2>4 DEF Zkey, Zkeys
      <4> QED
        BY <4>2, <2>6, FilesAssumption
    <3>3. finalZkey = transcript.final
      BY <2>1, <2>4, <3>1, <3>2 DEF Finalized
    <3>4. ToSet(c) \subseteq ToSet(finalZkey.chain)
      <4>1. DOMAIN Append(c, b) = 1 .. DeclaredContributors + 1
        BY <2>4, LenProperties
      <4>2. \A i \in DOMAIN c : i \in DOMAIN finalZkey.chain /\ finalZkey.chain[i] = c[i]
        BY <2>1, <2>4, <3>1, <4>1, CeremonyAssumption
      <4> QED
        BY <4>2 DEF ToSet
    <3> QED
      BY <1>3, <2>1, <2>3, <2>6, <3>1, <3>2, <3>3, <3>4
         DEF CeremonyVerified, FinalMatches, CircuitUnchanged, KeyMatches, VerifierMatches,
             Finalized, TranscriptComplete, BeaconRecorded
  <2> QED
    BY <1>1, <1>3, <2>5, <2>6 DEF TranscriptIsHistory, CeremonyVerified
<1> QED
  BY <1>2, <1>3

-----------------------------------------------------------------------------

\* A script under way, and what the contracts hold of a tender.
Jobs == [at : Nat \ {0}, k : Nat \ {0}, sent : BOOLEAN, dealing : Nat \cup {NoKey},
         index : [Firms -> Int \cup {NoIndex}]]
Roots == {NoRoot, NoneRevoked, ThirdFirmRevoked, OtherRevoked}
TenderRecords ==
    [state : {"NONE", "DRAFT", "ACTIVE", "CLOSED", "AWARDED"},
     clock : {"review", "bidding", "over"}, rules : BOOLEAN, key : Nat \cup {NoKey},
     bids : Seq(Firms \cup {Outsider}), pinned : Roots,
     opened : SUBSET (Int \cup {NoIndex}), proven : SUBSET (Int \cup {NoIndex}),
     award : Int \cup {NoIndex}, named : BOOLEAN]

\* How often the stages of the firms, or of the members, are repeated.
Turns(script) == IF script = "deal" THEN CommitteeFiles ELSE Len(FirmAmounts)

\* The values the jobs, the chain and the files may have.
JobsTypeOK ==
    /\ jobs \in [terminals -> Jobs \cup {Stopped}]
    /\ \A j \in terminals : jobs[j] # Stopped =>
         jobs[j].at <= Len(Stages(j.script)) /\ jobs[j].k <= Turns(j.script)
ChainTypeOK == tender \in [Refs -> TenderRecords] /\ currentRoot \in Roots
FilesTypeOK ==
    /\ dealt \in Nat
    /\ dealingFile \in [Refs -> Nat \cup {Unwritten}]
    /\ dealingIndex \in Refs \cup {Unwritten}
    /\ receiptsFile \in [ref : Refs, index : [Firms -> Int \cup {NoIndex}]] \cup {Unwritten}
    /\ shareFile \in [Refs -> [1 .. CommitteeFiles -> Nat \cup {Unwritten}]]
    /\ publicFile \in [Refs -> Nat \cup {Unwritten}]
ScriptsTypeOK == terminals \in Sessions /\ JobsTypeOK /\ ChainTypeOK /\ FilesTypeOK

\* Terminal j created its tender; no two terminals created the same.
Created(j) == j.script \in {"publish", "seed"} /\ jobs[j].at >= 3
OneCreator ==
    /\ \A j \in terminals : Created(j) => tender[j.ref].state # "NONE"
    /\ \A i, j \in terminals : Created(i) /\ Created(j) /\ i.ref = j.ref => i = j

\* Where publish-tender is, and what holds of its tender and its files there.
PublishStands(j) ==
    j.script = "publish" =>
      /\ jobs[j].at >= 5 => jobs[j].dealing \in Nat /\ jobs[j].dealing = tender[j.ref].key
      /\ jobs[j].at >= 6 => tender[j.ref].state \notin {"NONE", "DRAFT"}
      /\ jobs[j].at >= 7 => dealingFile[j.ref] # Unwritten

\* Where committee-ceremony deal is in its share files.
DealStands(j) ==
    j.script = "deal" /\ jobs[j].at >= 2 =>
      /\ jobs[j].dealing \in Nat /\ publicFile[j.ref] = Unwritten
      /\ \A i \in 1 .. CommitteeFiles :
           jobs[j].at >= 3 \/ i < jobs[j].k => shareFile[j.ref][i] = jobs[j].dealing

\* The bid at index i is firm f's, and opened.
OpenedWell(t, i, f) == i + 1 \in DOMAIN t.bids /\ t.bids[i + 1] = f /\ i \in t.opened

\* Where complete-tender is, and what it found on the chain so far.
CompleteStands(j) ==
    LET t == tender[j.ref]
        job == jobs[j] IN
    j.script = "complete" =>
      /\ job.at >= 6 => t.state \in {"CLOSED", "AWARDED"}
      /\ \A f \in Firms : job.at >= 7 \/ (job.at = 6 /\ f < job.k) => OpenedWell(t, job.index[f], f)
      /\ \A f \in Firms : job.at >= 8 \/ (job.at = 7 /\ f < job.k) => job.index[f] \in t.proven
      /\ job.at >= 9 => /\ t.state = "AWARDED" /\ Len(t.bids) = Len(FirmAmounts)
                        /\ \E f \in Firms : Lowest(f) /\ t.award = job.index[f]
      /\ job.at >= 10 => t.named
JobsInStep == \A j \in terminals : PublishStands(j) /\ DealStands(j) /\ CompleteStands(j)

\* The inductive invariant of the tender scripts.
ScriptsInv == ScriptsTypeOK /\ OneCreator /\ JobsInStep /\ DealingsUsable /\ ReceiptsTrue

\* A fresh chain and checkout satisfy the invariant.
LEMMA ScriptsStart == ScriptsInit => ScriptsInv
<1> SUFFICES ASSUME ScriptsInit PROVE ScriptsInv
  OBVIOUS
<1> USE DEF ScriptsInit
<1>1. JobsTypeOK
  BY DEF JobsTypeOK
<1>2. ChainTypeOK
  <2>1. NewTender \in TenderRecords
    BY DEF NewTender, TenderRecords, Roots
  <2> QED
    BY <2>1 DEF ChainTypeOK, Roots
<1>3. FilesTypeOK
  BY DEF FilesTypeOK
<1>4. \A j \in terminals : jobs[j].at = 0
  BY DEF Stopped
<1>5. OneCreator /\ JobsInStep
  BY <1>4 DEF OneCreator, Created, JobsInStep, PublishStands, DealStands, CompleteStands
<1>6. DealingsUsable /\ ReceiptsTrue
  BY ScriptsAssumption DEF DealingsUsable, ReceiptsTrue
<1> QED
  BY <1>1, <1>2, <1>3, <1>5, <1>6 DEF ScriptsInv, ScriptsTypeOK

\* The firms are numbered from 1, and one of them has the lowest amount.
LEMMA FirmsNumbered ==
    Firms = 1 .. Len(FirmAmounts) /\ Len(FirmAmounts) \in Nat \ {0}
      /\ \A f \in Firms : FirmAmounts[f] \in Nat
BY ScriptsAssumption, LenProperties, EmptySeq DEF Firms

\* A set of numbers that is not empty has a least.
LEMMA LeastMember == ASSUME NEW S \in SUBSET Nat, S # {} PROVE \E m \in S : \A n \in S : m <= n
<1> DEFINE Below == OpToRel(<, Nat)
<1>1. IsWellFoundedOn(Below, Nat)
  BY NatLessThanWellFounded, Zenon
<1>2. \A x, y \in Nat : x < y => <<x, y>> \in Below
  BY Zenon DEF OpToRel
<1> HIDE DEF Below
<1>3. PICK m \in S : \A n \in S : <<n, m>> \notin Below
  BY <1>1, WFMin
<1>4. \A n \in S : m \in Nat /\ n \in Nat /\ ~(n < m)
  BY <1>2, <1>3
<1> QED
  BY <1>4

\* The award goes to somebody.
LEMMA LowestExists == \E f \in Firms : Lowest(f)
<1>1. PICK a \in {FirmAmounts[f] : f \in Firms} :
        \A b \in {FirmAmounts[f] : f \in Firms} : a <= b
  <2>1. {FirmAmounts[f] : f \in Firms} \in SUBSET Nat
    BY FirmsNumbered
  <2>2. {FirmAmounts[f] : f \in Firms} # {}
    <3>1. 1 \in Firms
      BY FirmsNumbered
    <3> QED
      BY <3>1
  <2> QED
    BY <2>1, <2>2, LeastMember
<1>2. PICK k \in {f \in Firms : FirmAmounts[f] = a} :
        \A f \in {g \in Firms : FirmAmounts[g] = a} : k <= f
  <2>1. {f \in Firms : FirmAmounts[f] = a} # {}
    OBVIOUS
  <2>2. {f \in Firms : FirmAmounts[f] = a} \in SUBSET Nat
    BY FirmsNumbered
  <2> QED
    BY <2>1, <2>2, LeastMember
<1>3. ASSUME NEW f \in Firms
      PROVE  FirmAmounts[k] < FirmAmounts[f] \/ (FirmAmounts[k] = FirmAmounts[f] /\ k <= f)
  <2>1. FirmAmounts[k] = a /\ a <= FirmAmounts[f] /\ a \in Nat /\ FirmAmounts[f] \in Nat
    BY <1>1, <1>2, FirmsNumbered
  <2>2. FirmAmounts[f] = a => k <= f
    BY <1>2
  <2> QED
    BY <2>1, <2>2
<1> QED
  BY <1>3, <1>2 DEF Lowest

-----------------------------------------------------------------------------
(* Where the stages are.                                                   *)

\* The stages of seed-demo, written out.
LEMMA SeedStagesAre ==
    SeedStages = <<"root", "create", "rules", "key", "activate", "wait", "submit",
                   "revoke", "close", "open", "check", "status", "award", "identity">>
<1> DEFINE Names == {"root", "create", "rules", "key", "activate", "wait", "submit",
                     "revoke", "close", "open", "check", "status", "award", "identity"}
           drafts == SeedDrafts
           bid == drafts \o SeedBids
           open == bid \o SeedOpens
           all == open \o SeedAwards
<1>1. drafts \in Seq(Names) /\ Len(drafts) = 5
  BY DEF SeedDrafts
<1>2. SeedBids \in Seq(Names) /\ Len(SeedBids) = 2
  BY DEF SeedBids
<1>3. SeedOpens \in Seq(Names) /\ Len(SeedOpens) = 3
  BY DEF SeedOpens
<1>4. SeedAwards \in Seq(Names) /\ Len(SeedAwards) = 4
  BY DEF SeedAwards
<1> HIDE DEF drafts, Names
<1>5. /\ bid \in Seq(Names) /\ Len(bid) = 7
      /\ \A i \in 1 .. 7 : bid[i] = IF i <= 5 THEN drafts[i] ELSE SeedBids[i - 5]
  <2>1. /\ bid \in Seq(Names) /\ Len(bid) = Len(drafts) + Len(SeedBids)
        /\ \A i \in 1 .. Len(drafts) + Len(SeedBids) :
             bid[i] = IF i <= Len(drafts) THEN drafts[i] ELSE SeedBids[i - Len(drafts)]
    BY <1>1, <1>2, ConcatProperties
  <2>2. Len(drafts) = 5 /\ Len(SeedBids) = 2 /\ Len(drafts) + Len(SeedBids) = 7
    BY <1>1, <1>2
  <2> QED
    BY <2>1, <2>2
<1> HIDE DEF bid
<1>6. /\ open \in Seq(Names) /\ Len(open) = 10
      /\ \A i \in 1 .. 10 : open[i] = IF i <= 7 THEN bid[i] ELSE SeedOpens[i - 7]
  <2>1. /\ open \in Seq(Names) /\ Len(open) = Len(bid) + Len(SeedOpens)
        /\ \A i \in 1 .. Len(bid) + Len(SeedOpens) :
             open[i] = IF i <= Len(bid) THEN bid[i] ELSE SeedOpens[i - Len(bid)]
    BY <1>3, <1>5, ConcatProperties
  <2>2. Len(bid) = 7 /\ Len(SeedOpens) = 3 /\ Len(bid) + Len(SeedOpens) = 10
    BY <1>3, <1>5
  <2> QED
    BY <2>1, <2>2
<1> HIDE DEF open
<1>7. /\ all \in Seq(Names) /\ Len(all) = 14
      /\ \A i \in 1 .. 14 : all[i] = IF i <= 10 THEN open[i] ELSE SeedAwards[i - 10]
  <2>1. /\ all \in Seq(Names) /\ Len(all) = Len(open) + Len(SeedAwards)
        /\ \A i \in 1 .. Len(open) + Len(SeedAwards) :
             all[i] = IF i <= Len(open) THEN open[i] ELSE SeedAwards[i - Len(open)]
    BY <1>4, <1>6, ConcatProperties
  <2>2. Len(open) = 10 /\ Len(SeedAwards) = 4 /\ Len(open) + Len(SeedAwards) = 14
    BY <1>4, <1>6
  <2> QED
    BY <2>1, <2>2
<1> HIDE DEF all
<1> DEFINE listed ==
      <<"root", "create", "rules", "key", "activate", "wait", "submit",
        "revoke", "close", "open", "check", "status", "award", "identity">>
<1>8. \A i \in 1 .. 14 : all[i] = listed[i]
  <2>0. drafts = SeedDrafts
    BY DEF drafts
  <2>1. drafts[1] = "root" /\ drafts[2] = "create" /\ drafts[3] = "rules" /\ drafts[4] = "key"
        /\ drafts[5] = "activate"
    BY <2>0 DEF SeedDrafts
  <2>2. SeedBids[1] = "wait" /\ SeedBids[2] = "submit"
    BY DEF SeedBids
  <2>3. SeedOpens[1] = "revoke" /\ SeedOpens[2] = "close" /\ SeedOpens[3] = "open"
    BY DEF SeedOpens
  <2>4. SeedAwards[1] = "check" /\ SeedAwards[2] = "status" /\ SeedAwards[3] = "award"
        /\ SeedAwards[4] = "identity"
    BY DEF SeedAwards
  <2> QED
    BY <1>5, <1>6, <1>7, <2>1, <2>2, <2>3, <2>4
<1>9. listed \in Seq(Names) /\ Len(listed) = 14
  BY DEF Names
<1> HIDE DEF listed
<1>10. all = listed
  BY <1>7, <1>8, <1>9, SeqEqual
<1>11. SeedStages = all
  BY DEF SeedStages, all, open, bid, drafts
<1> QED
  BY <1>10, <1>11 DEF listed

\* A stage is at its place in each script that has it.
LEMMA StagePlaces ==
    ASSUME NEW j \in terminals, ScriptsTypeOK, NEW stage, On(j, stage)
    PROVE  /\ j.ref \in Refs /\ jobs[j] \in Jobs /\ jobs[j] # Stopped
           /\ jobs[j].k \in 1 .. Turns(j.script) /\ jobs[j].at \in 1 .. Len(Stages(j.script))
           /\ j.script = "publish" =>
                /\ Len(Stages(j.script)) = 7
                /\ <<jobs[j].at, stage>> \in
                     {<<1, "root">>, <<2, "create">>, <<3, "rules">>, <<4, "key">>,
                      <<5, "activate">>, <<6, "file">>, <<7, "index">>}
           /\ j.script = "complete" =>
                /\ Len(Stages(j.script)) = 10
                /\ <<jobs[j].at, stage>> \in
                     {<<1, "read">>, <<2, "wait">>, <<3, "submit">>, <<4, "revoke">>,
                      <<5, "close">>, <<6, "open">>, <<7, "status">>, <<8, "award">>,
                      <<9, "identity">>, <<10, "receipts">>}
           /\ j.script = "seed" =>
                /\ Len(Stages(j.script)) = 14
                /\ <<jobs[j].at, stage>> \in
                     {<<1, "root">>, <<2, "create">>, <<3, "rules">>, <<4, "key">>,
                      <<5, "activate">>, <<6, "wait">>, <<7, "submit">>, <<8, "revoke">>,
                      <<9, "close">>, <<10, "open">>, <<11, "check">>, <<12, "status">>,
                      <<13, "award">>, <<14, "identity">>}
           /\ j.script = "deal" =>
                /\ Len(Stages(j.script)) = 3
                /\ <<jobs[j].at, stage>> \in {<<1, "refuse">>, <<2, "shares">>, <<3, "public">>}
           /\ j.script \in Scripts
<1>1. j \in [script : Scripts, ref : Refs]
  BY ScriptsAssumption DEF ScriptsTypeOK
<1>2. /\ jobs[j] \in Jobs /\ jobs[j] # Stopped /\ jobs[j].at \in 1 .. Len(Stages(j.script))
      /\ jobs[j].k \in 1 .. Turns(j.script)
      /\ Stages(j.script)[jobs[j].at] = stage
  <2>1. jobs[j] # Stopped /\ jobs[j] \in Jobs /\ Stages(j.script)[jobs[j].at] = stage
    BY DEF On, ScriptsTypeOK, JobsTypeOK
  <2>2. jobs[j].at \in Nat \ {0} /\ jobs[j].k \in Nat \ {0}
    BY <2>1 DEF Jobs
  <2>3. jobs[j].at <= Len(Stages(j.script)) /\ jobs[j].k <= Turns(j.script)
    BY <2>1 DEF ScriptsTypeOK, JobsTypeOK
  <2>4. Len(Stages(j.script)) \in Nat
    <3>1. j.script \in Scripts
      BY <1>1
    <3> QED
      BY <3>1, SeedStagesAre DEF Stages, Scripts, PublishStages, CompleteStages, DealStages
  <2>5. Turns(j.script) \in Nat
    BY FirmsNumbered, ScriptsAssumption DEF Turns
  <2> QED
    BY <2>1, <2>2, <2>3, <2>4, <2>5
<1>3. CASE j.script = "publish"
  BY <1>1, <1>2, <1>3 DEF Stages, PublishStages, Scripts
<1>4. CASE j.script = "complete"
  BY <1>1, <1>2, <1>4 DEF Stages, CompleteStages, Scripts
<1>5. CASE j.script = "seed"
  BY <1>1, <1>2, <1>5, SeedStagesAre DEF Stages, Scripts
<1>6. CASE j.script = "deal"
  BY <1>1, <1>2, <1>6 DEF Stages, DealStages, Scripts
<1> QED
  BY <1>1, <1>2, <1>3, <1>4, <1>5, <1>6 DEF Scripts

-----------------------------------------------------------------------------
(* The steps of a terminal.                                                *)

\* Only terminal j moves.
Alone(j) == terminals' = terminals /\ \A i \in terminals \ {j} : jobs'[i] = jobs[i]

\* It comes to the next stage, or to the end of the script.
ComesOn(j, job) ==
    \/ jobs'[j] = Stopped
    \/ /\ jobs'[j].at = job.at + 1 /\ jobs'[j].k = 1
       /\ jobs'[j].dealing = job.dealing /\ jobs'[j].index = job.index

\* A script that throws ends, and the other terminals do not move.
LEMMA DieMoves ==
    ASSUME ScriptsTypeOK, NEW j \in terminals, Die(j), terminals' = terminals
    PROVE  Alone(j) /\ JobsTypeOK' /\ jobs'[j].at = 0
BY DEF Die, Alone, ScriptsTypeOK, JobsTypeOK, Stopped

\* The next stage of a script is one of its stages.
LEMMA OnwardMoves ==
    ASSUME ScriptsTypeOK, NEW j \in terminals, jobs[j] # Stopped,
           NEW job \in Jobs, job.at = jobs[j].at,
           Onward(j, job), terminals' = terminals
    PROVE  Alone(j) /\ JobsTypeOK' /\ ComesOn(j, job)
<1>1. On(j, Stages(j.script)[jobs[j].at])
  BY DEF On
<1>2. j.script \in Scripts /\ jobs[j].at \in 1 .. Len(Stages(j.script)) /\ jobs[j] \in Jobs
  BY <1>1, StagePlaces
<1>3. Alone(j) /\ DOMAIN jobs' = terminals
  BY DEF Onward, Alone, ScriptsTypeOK, JobsTypeOK
<1>4. CASE job.at = Len(Stages(j.script))
  <2>1. jobs'[j] = Stopped
    BY <1>4 DEF Onward, ScriptsTypeOK, JobsTypeOK
  <2> QED
    BY <1>3, <2>1 DEF ScriptsTypeOK, JobsTypeOK, Onward, Alone, ComesOn
<1>5. CASE job.at # Len(Stages(j.script))
  <2>1. jobs'[j] = [job EXCEPT !.at = @ + 1, !.k = 1]
    BY <1>5 DEF Onward, ScriptsTypeOK, JobsTypeOK
  <2>2. /\ jobs'[j] \in Jobs /\ jobs'[j].at = job.at + 1 /\ jobs'[j].k = 1
        /\ jobs'[j].dealing = job.dealing /\ jobs'[j].index = job.index
    <3>1. job.at + 1 \in Nat \ {0} /\ 1 \in Nat \ {0}
      BY DEF Jobs
    <3> QED
      BY <2>1, <3>1 DEF Jobs
  <2>3. jobs'[j].at <= Len(Stages(j.script))
    BY <1>2, <1>5, <2>2
  <2>4. jobs'[j].k <= Turns(j.script)
    BY <2>2, FirmsNumbered, ScriptsAssumption DEF Turns
  <2>5. \A i \in terminals : i # j => jobs'[i] = jobs[i]
    BY <1>3 DEF Alone
  <2>6. jobs' \in [terminals -> Jobs \cup {Stopped}]
    BY <2>2 DEF Onward, ScriptsTypeOK, JobsTypeOK
  <2>7. JobsTypeOK'
    BY <2>2, <2>3, <2>4, <2>5, <2>6 DEF ScriptsTypeOK, JobsTypeOK
  <2> QED
    BY <1>3, <2>2, <2>7 DEF ComesOn
<1> QED
  BY <1>4, <1>5

\* A stage of the firms or of the members is repeated for the next of them.
LEMMA InTurnMoves ==
    ASSUME ScriptsTypeOK, NEW j \in terminals, jobs[j] # Stopped,
           NEW job \in Jobs, job.at = jobs[j].at,
           NEW last, last = Turns(j.script), job.k <= last,
           InTurn(j, job, last), terminals' = terminals
    PROVE  /\ Alone(j) /\ JobsTypeOK'
           /\ \/ job.k = last /\ ComesOn(j, job)
              \/ /\ job.k < last
                 /\ jobs'[j].at = job.at /\ jobs'[j].k = job.k + 1
                 /\ jobs'[j].dealing = job.dealing /\ jobs'[j].index = job.index
<1>1. last \in Nat /\ job.k \in Nat
  BY FirmsNumbered, ScriptsAssumption DEF Turns, Jobs
<1>2. CASE job.k < last
  <2>1. jobs' = [jobs EXCEPT ![j] = [job EXCEPT !.k = @ + 1]]
    BY <1>2 DEF InTurn
  <2>2. jobs'[j] = [job EXCEPT !.k = @ + 1] /\ \A i \in terminals : i # j => jobs'[i] = jobs[i]
    BY <2>1 DEF ScriptsTypeOK, JobsTypeOK
  <2>3. /\ jobs'[j] \in Jobs /\ jobs'[j].at = job.at /\ jobs'[j].k = job.k + 1
        /\ jobs'[j].dealing = job.dealing /\ jobs'[j].index = job.index
    BY <2>2 DEF Jobs
  <2>4. jobs' \in [terminals -> Jobs \cup {Stopped}]
    BY <2>1, <2>3, <2>2 DEF ScriptsTypeOK, JobsTypeOK
  <2>5. JobsTypeOK'
    <3>1. jobs'[j].k <= Turns(j.script) /\ jobs'[j].at <= Len(Stages(j.script))
      BY <1>1, <1>2, <2>3 DEF ScriptsTypeOK, JobsTypeOK
    <3> QED
      BY <2>2, <2>4, <3>1 DEF ScriptsTypeOK, JobsTypeOK
  <2> QED
    BY <1>2, <2>2, <2>3, <2>5 DEF Alone
<1>3. CASE ~(job.k < last)
  BY <1>1, <1>3, OnwardMoves DEF InTurn
<1> QED
  BY <1>2, <1>3

-----------------------------------------------------------------------------
(* What a step leaves of a tender.                                         *)

\* Nothing that was settled about a tender is unsettled.
Advances(t, u) ==
    /\ t.state # "NONE" => u.state # "NONE"
    /\ t.state \notin {"NONE", "DRAFT"} => u.state \notin {"NONE", "DRAFT"} /\ u.key = t.key
    /\ t.state \in {"CLOSED", "AWARDED"} =>
         /\ u.state \in {"CLOSED", "AWARDED"} /\ u.bids = t.bids
         /\ t.opened \subseteq u.opened /\ t.proven \subseteq u.proven
    /\ t.state = "AWARDED" => u.state = "AWARDED" /\ u.award = t.award
    /\ t.named => u.named
TendersAdvance == \A r \in Refs : Advances(tender[r], tender'[r])
KeysStand == \A r \in Refs : tender'[r].key = tender[r].key

\* A transaction for one tender leaves the others alone.
LEMMA TenderSet ==
    ASSUME ScriptsTypeOK, NEW r \in Refs, NEW t \in TenderRecords, Advances(tender[r], t),
           tender' = [tender EXCEPT ![r] = t], currentRoot' \in Roots
    PROVE  /\ ChainTypeOK' /\ TendersAdvance /\ tender'[r] = t
           /\ t.key = tender[r].key => KeysStand
<1>1. tender'[r] = t /\ \A q \in Refs : q # r => tender'[q] = tender[q]
  BY DEF ScriptsTypeOK, ChainTypeOK
<1>2. \A q \in Refs : Advances(tender[q], tender[q])
  BY DEF Advances
<1>3. tender' \in [Refs -> TenderRecords]
  BY DEF ScriptsTypeOK, ChainTypeOK
<1> QED
  BY <1>1, <1>2, <1>3 DEF TendersAdvance, KeysStand, ChainTypeOK

\* No transaction, no change.
LEMMA TendersStand == ASSUME UNCHANGED tender PROVE TendersAdvance /\ KeysStand
BY DEF TendersAdvance, Advances, KeysStand

\* A terminal is a script and a tender.
LEMMA TerminalRef == ASSUME ScriptsTypeOK, NEW i \in terminals
                     PROVE  i.ref \in Refs /\ i.script \in Scripts
                            /\ jobs[i].at \in Nat /\ (jobs[i] # Stopped => jobs[i] \in Jobs)
<1>1. i \in [script : Scripts, ref : Refs]
  BY ScriptsAssumption DEF ScriptsTypeOK
<1>2. jobs[i] = Stopped \/ jobs[i] \in Jobs
  BY DEF ScriptsTypeOK, JobsTypeOK
<1>3. jobs[i].at \in Nat
  BY <1>2 DEF Jobs, Stopped
<1> QED
  BY <1>1, <1>2, <1>3

\* A job that does not move, or stops, stands where it did.
LEMMA PublishStill ==
    ASSUME ScriptsTypeOK, NEW i \in terminals, PublishStands(i), jobs'[i] = jobs[i],
           TendersAdvance, tender'[i.ref].key = tender[i.ref].key \/ jobs[i].at < 5,
           dealingFile[i.ref] # Unwritten => dealingFile'[i.ref] # Unwritten, i.ref \in Refs
    PROVE  PublishStands(i)'
<1>1. jobs[i].at \in Nat /\ Advances(tender[i.ref], tender'[i.ref])
  BY TerminalRef DEF TendersAdvance
<1>2. CASE i.script = "publish" /\ jobs[i].at >= 5
  BY <1>1, <1>2 DEF PublishStands, Advances
<1>3. CASE i.script # "publish" \/ jobs[i].at < 5
  BY <1>1, <1>3 DEF PublishStands
<1> QED
  BY <1>1, <1>2, <1>3

\* So it is of complete-tender: its tender only advances.
LEMMA CompleteStill ==
    ASSUME ScriptsTypeOK, NEW i \in terminals, CompleteStands(i), jobs'[i] = jobs[i],
           TendersAdvance, i.ref \in Refs
    PROVE  CompleteStands(i)'
<1> DEFINE t == tender[i.ref]
           u == tender'[i.ref]
           job == jobs[i]
<1>1. Advances(t, u)
  BY DEF TendersAdvance
<1>2. CASE i.script # "complete" \/ ~(job.at >= 6)
  <2>1. job = Stopped \/ job \in Jobs
    BY DEF ScriptsTypeOK, JobsTypeOK
  <2>2. job.at \in Nat
    BY <2>1 DEF Jobs, Stopped
  <2> QED
    BY <1>2, <2>2 DEF CompleteStands
<1>3. CASE i.script = "complete" /\ job.at >= 6
  <2>1. t.state \in {"CLOSED", "AWARDED"}
    BY <1>3 DEF CompleteStands
  <2>2. /\ u.state \in {"CLOSED", "AWARDED"} /\ u.bids = t.bids
        /\ t.opened \subseteq u.opened /\ t.proven \subseteq u.proven
        /\ t.state = "AWARDED" => u.state = "AWARDED" /\ u.award = t.award
        /\ t.named => u.named
    BY <1>1, <2>1 DEF Advances
  <2> HIDE DEF t, u
  <2>3. \A n, f : OpenedWell(t, n, f) => OpenedWell(u, n, f)
    BY <2>2 DEF OpenedWell
  <2>4. \A f \in Firms : job.at >= 7 \/ (job.at = 6 /\ f < job.k) => OpenedWell(u, job.index[f], f)
    BY <1>3, <2>3 DEF CompleteStands, t
  <2>5. \A f \in Firms : job.at >= 8 \/ (job.at = 7 /\ f < job.k) => job.index[f] \in u.proven
    BY <1>3, <2>2 DEF CompleteStands, t
  <2>6. job.at >= 9 => /\ u.state = "AWARDED" /\ Len(u.bids) = Len(FirmAmounts)
                       /\ \E f \in Firms : Lowest(f) /\ u.award = job.index[f]
    BY <1>3, <2>2 DEF CompleteStands, t
  <2>7. job.at >= 10 => u.named
    BY <1>3, <2>2 DEF CompleteStands, t
  <2>8. \A f : Lowest(f)' <=> Lowest(f)
    BY DEF Lowest
  <2>9. \A n, f : OpenedWell(tender[i.ref], n, f)' <=> OpenedWell(u, n, f)
    BY DEF OpenedWell, u
  <2> QED
    BY <2>2, <2>4, <2>5, <2>6, <2>7, <2>9 DEF CompleteStands, u
<1> QED
  BY <1>2, <1>3

\* A step that writes no file, by one terminal whose own new standing is known.
WritesNothing == UNCHANGED <<dealingFile, dealingIndex, receiptsFile, shareFile, publicFile>>

\* The receipts stay true of a tender that only advances.
LEMMA ReceiptsStill ==
    ASSUME ScriptsTypeOK, ReceiptsTrue, TendersAdvance, UNCHANGED receiptsFile
    PROVE  ReceiptsTrue'
<1> SUFFICES ASSUME receiptsFile # Unwritten PROVE ReceiptsTrue'
  BY DEF ReceiptsTrue
<1> DEFINE t == tender[receiptsFile.ref]
           u == tender'[receiptsFile.ref]
<1>1. receiptsFile.ref \in Refs
  BY DEF ScriptsTypeOK, FilesTypeOK
<1>2. t.state = "AWARDED" /\ t.named /\ Advances(t, u)
  BY <1>1 DEF ReceiptsTrue, TendersAdvance
<1>3. /\ u.state = "AWARDED" /\ u.award = t.award /\ u.named /\ u.bids = t.bids
      /\ t.opened \subseteq u.opened /\ t.proven \subseteq u.proven
  BY <1>2 DEF Advances
<1> HIDE DEF t, u
<1>4. /\ Len(u.bids) = Len(FirmAmounts)
      /\ \A f \in Firms : /\ u.bids[receiptsFile.index[f] + 1] = f
                          /\ receiptsFile.index[f] \in u.opened \cap u.proven
      /\ \A f \in Firms : FirmAmounts[u.bids[u.award + 1]] <= FirmAmounts[f]
  BY <1>3 DEF ReceiptsTrue, t
<1> QED
  BY <1>3, <1>4 DEF ReceiptsTrue, u

\* The dealings stay usable when no file is written.
LEMMA DealingsStill ==
    ASSUME ScriptsTypeOK, DealingsUsable, TendersAdvance,
           UNCHANGED <<dealingFile, dealingIndex, shareFile, publicFile>>
    PROVE  DealingsUsable'
BY DEF DealingsUsable, TendersAdvance, Advances

\* A move without a file, when what the terminal relies on next is known.
LEMMA MoveKeeps ==
    ASSUME ScriptsInv, NEW j \in terminals, Alone(j), ScriptsTypeOK', WritesNothing,
           TendersAdvance, OneCreator', PublishStands(j)', DealStands(j)', CompleteStands(j)',
           \A i \in terminals \ {j} : i.script = "publish" =>
              tender'[i.ref].key = tender[i.ref].key \/ jobs[i].at < 5
    PROVE  ScriptsInv'
<1>1. ASSUME NEW i \in terminals \ {j}
      PROVE  PublishStands(i)' /\ DealStands(i)' /\ CompleteStands(i)'
  <2>1. jobs'[i] = jobs[i] /\ i.ref \in Refs
    BY TerminalRef DEF Alone, ScriptsInv
  <2>2. CompleteStands(i)'
    BY <2>1, CompleteStill DEF ScriptsInv, JobsInStep
  <2>3. DealStands(i)'
    BY <2>1 DEF ScriptsInv, JobsInStep, DealStands, WritesNothing
  <2>4. PublishStands(i)'
    <3>1. CASE i.script = "publish"
      BY <2>1, <3>1, PublishStill DEF ScriptsInv, JobsInStep, WritesNothing
    <3> QED
      BY <3>1 DEF PublishStands
  <2> QED
    BY <2>2, <2>3, <2>4
<1>2. JobsInStep'
  BY <1>1 DEF JobsInStep, Alone
<1>3. DealingsUsable' /\ ReceiptsTrue'
  BY DealingsStill, ReceiptsStill DEF ScriptsInv, WritesNothing
<1> QED
  BY <1>2, <1>3 DEF ScriptsInv

\* Only CreateTender makes a creator.
LEMMA CreatorStill ==
    ASSUME ScriptsInv, NEW j \in terminals, Alone(j), TendersAdvance,
           Created(j)' => Created(j)
    PROVE  OneCreator'
<1>1. \A i \in terminals : Created(i)' => Created(i)
  BY DEF Alone, Created
<1>2. \A i \in terminals : tender[i.ref].state # "NONE" => tender'[i.ref].state # "NONE"
  BY TerminalRef DEF TendersAdvance, Advances, ScriptsInv
<1> QED
  BY <1>1, <1>2 DEF OneCreator, ScriptsInv, Alone

\* Whatever a terminal does early in its script, and stopping.
LEMMA QuietKeeps ==
    ASSUME ScriptsInv, NEW j \in terminals, Alone(j), JobsTypeOK', currentRoot' \in Roots,
           UNCHANGED <<tender, fileVars>>,
           j.script = "publish" => jobs'[j].at <= 2,
           j.script = "complete" => jobs'[j].at <= 5,
           j.script = "deal" => jobs'[j].at <= 1,
           j.script = "seed" => jobs'[j].at <= 2 \/ jobs[j].at >= 3
    PROVE  ScriptsInv'
<1>1. ScriptsTypeOK'
  BY DEF ScriptsInv, ScriptsTypeOK, ChainTypeOK, FilesTypeOK, fileVars, Alone
<1>2. TendersAdvance /\ KeysStand
  BY TendersStand
<1>3. jobs'[j].at \in Nat
  <2>1. jobs'[j] = Stopped \/ jobs'[j] \in Jobs
    BY DEF JobsTypeOK, Alone
  <2> QED
    BY <2>1 DEF Stopped, Jobs
<1>4. OneCreator'
  <2>1. Created(j)' => Created(j)
    BY <1>3 DEF Created
  <2> QED
    BY <1>2, <2>1, CreatorStill
<1>5. PublishStands(j)' /\ DealStands(j)' /\ CompleteStands(j)'
  BY <1>3 DEF PublishStands, DealStands, CompleteStands
<1>6. \A i \in terminals : tender'[i.ref].key = tender[i.ref].key
  OBVIOUS
<1> QED
  BY <1>1, <1>2, <1>4, <1>5, <1>6, MoveKeeps DEF WritesNothing, fileVars

\* Transactions of the second half: the keys stand, and no creator is made.
LEMMA FirmsMoveKeeps ==
    ASSUME ScriptsInv, NEW j \in terminals, Alone(j), JobsTypeOK', ChainTypeOK',
           UNCHANGED fileVars, TendersAdvance, KeysStand, CompleteStands(j)',
           \/ j.script = "complete"
           \/ j.script = "seed" /\ jobs[j].at >= 3
    PROVE  ScriptsInv'
<1>1. ScriptsTypeOK'
  BY DEF ScriptsInv, ScriptsTypeOK, ChainTypeOK, FilesTypeOK, fileVars, Alone
<1>2. OneCreator'
  BY CreatorStill DEF Created
<1>3. PublishStands(j)' /\ DealStands(j)'
  BY DEF PublishStands, DealStands
<1>4. \A i \in terminals : tender'[i.ref].key = tender[i.ref].key
  BY TerminalRef DEF KeysStand, ScriptsInv
<1> QED
  BY <1>1, <1>2, <1>3, <1>4, MoveKeeps DEF WritesNothing, fileVars

-----------------------------------------------------------------------------
(* The steps of the terminals, one by one.                                 *)

\* A started script is at its first stage and relies on nothing.
LEMMA StartScriptKeeps ==
    ASSUME ScriptsInv, NEW j \in terminals, StartScript(j) PROVE ScriptsInv'
<1> DEFINE job == [at |-> 1, k |-> 1, sent |-> FALSE, dealing |-> NoKey,
                   index |-> [f \in Firms |-> NoIndex]]
<1>1. /\ jobs' = [jobs EXCEPT ![j] = job] /\ terminals' = terminals
      /\ UNCHANGED <<tender, currentRoot, fileVars>>
  BY DEF StartScript, chainVars
<1>2. job \in Jobs /\ job.at = 1 /\ job.k = 1
  BY DEF Jobs
<1> HIDE DEF job
<1>3. jobs'[j] = job /\ jobs' \in [terminals -> Jobs \cup {Stopped}] /\ Alone(j)
  BY <1>1, <1>2 DEF ScriptsInv, ScriptsTypeOK, JobsTypeOK, Alone
<1>4. 1 <= Len(Stages(j.script)) /\ 1 <= Turns(j.script)
  <2>1. j.script \in Scripts
    BY TerminalRef DEF ScriptsInv
  <2> QED
    BY <2>1, SeedStagesAre, FirmsNumbered, ScriptsAssumption
       DEF Stages, Scripts, PublishStages, CompleteStages, DealStages, Turns
<1>5. JobsTypeOK'
  BY <1>1, <1>2, <1>3, <1>4 DEF JobsTypeOK, Alone, ScriptsInv, ScriptsTypeOK
<1> QED
  BY <1>1, <1>2, <1>3, <1>5, QuietKeeps DEF ScriptsInv, ScriptsTypeOK, ChainTypeOK

\* A script that ends, interrupted or by an error.
LEMMA DyingKeeps ==
    ASSUME ScriptsInv, NEW j \in terminals, Die(j), terminals' = terminals,
           UNCHANGED <<tender, fileVars>>, UNCHANGED currentRoot
    PROVE  ScriptsInv'
<1>1. Alone(j) /\ JobsTypeOK' /\ jobs'[j].at = 0
  BY DieMoves DEF ScriptsInv
<1> QED
  BY <1>1, QuietKeeps DEF ScriptsInv, ScriptsTypeOK, ChainTypeOK

\* The stages that neither send a transaction for the tender nor write a file.
LEMMA PassingKeeps ==
    ASSUME ScriptsInv, NEW j \in terminals, NEW stage, On(j, stage),
           stage \in {"root", "read", "wait", "revoke", "check"},
           NEW job \in Jobs, job.at = jobs[j].at, Onward(j, job),
           terminals' = terminals, UNCHANGED <<tender, fileVars>>, currentRoot' \in Roots
    PROVE  ScriptsInv'
<1>1. ScriptsTypeOK
  BY DEF ScriptsInv
<1>2. jobs[j] # Stopped /\ jobs[j].at \in Nat
  BY <1>1, TerminalRef DEF On
<1>3. Alone(j) /\ JobsTypeOK' /\ ComesOn(j, job)
  BY <1>1, <1>2, OnwardMoves
<1>4. jobs'[j].at = 0 \/ jobs'[j].at = jobs[j].at + 1
  BY <1>3 DEF ComesOn, Stopped
<1>5. /\ j.script = "publish" => jobs[j].at = 1
      /\ j.script = "complete" => jobs[j].at <= 4
      /\ j.script # "deal"
      /\ j.script = "seed" => jobs[j].at = 1 \/ jobs[j].at >= 3
  BY <1>1, StagePlaces
<1> QED
  BY <1>2, <1>3, <1>4, <1>5, QuietKeeps

\* These stages, and an interruption, keep the invariant.
LEMMA PassingStagesKeep ==
    ASSUME ScriptsInv, NEW j \in terminals,
           \/ EnsureRoot(j) \/ WaitForBidding(j) \/ RevokeThirdFirm(j) \/ CheckDeadlineRoot(j)
           \/ ReadTender(j) \/ InterruptScript(j)
    PROVE  ScriptsInv'
<1>1. ScriptsTypeOK /\ currentRoot \in Roots
  BY DEF ScriptsInv, ScriptsTypeOK, ChainTypeOK
<1>2. CASE EnsureRoot(j)
  <2>1. jobs[j] \in Jobs
    BY <1>1, <1>2, StagePlaces DEF EnsureRoot
  <2>2. currentRoot' \in Roots
    BY <1>1, <1>2 DEF EnsureRoot, Roots
  <2> QED
    BY <1>2, <2>1, <2>2, PassingKeeps DEF EnsureRoot
<1>3. CASE WaitForBidding(j)
  <2>1. jobs[j] \in Jobs
    BY <1>1, <1>3, StagePlaces DEF WaitForBidding
  <2> QED
    BY <1>1, <1>3, <2>1, PassingKeeps DEF WaitForBidding, chainVars
<1>4. CASE RevokeThirdFirm(j)
  <2>1. jobs[j] \in Jobs
    BY <1>1, <1>4, StagePlaces DEF RevokeThirdFirm
  <2>2. currentRoot' \in Roots
    BY <1>4 DEF RevokeThirdFirm, Roots
  <2> QED
    BY <1>4, <2>1, <2>2, PassingKeeps DEF RevokeThirdFirm
<1>5. CASE CheckDeadlineRoot(j)
  <2>1. jobs[j] \in Jobs
    BY <1>1, <1>5, StagePlaces DEF CheckDeadlineRoot
  <2>2. CASE tender[j.ref].pinned = ThirdFirmRevoked
    BY <1>1, <1>5, <2>1, <2>2, PassingKeeps DEF CheckDeadlineRoot, chainVars
  <2>3. CASE tender[j.ref].pinned # ThirdFirmRevoked
    BY <1>5, <2>3, DyingKeeps DEF CheckDeadlineRoot, chainVars
  <2> QED
    BY <2>2, <2>3
<1>6. CASE ReadTender(j)
  <2>1. jobs[j] \in Jobs /\ j.ref \in Refs
    BY <1>1, <1>6, StagePlaces DEF ReadTender
  <2>2. CASE tender[j.ref].state = "ACTIVE" /\ dealingFile[j.ref] # Unwritten
    <3> DEFINE job == [jobs[j] EXCEPT !.dealing = dealingFile[j.ref]]
    <3>1. dealingFile[j.ref] \in Nat
      BY <1>1, <2>1, <2>2 DEF ScriptsTypeOK, FilesTypeOK
    <3>2. job \in Jobs /\ job.at = jobs[j].at
      BY <2>1, <3>1 DEF Jobs
    <3>3. Onward(j, job) /\ On(j, "read") /\ terminals' = terminals
          /\ UNCHANGED <<tender, currentRoot, fileVars>>
      BY <1>6, <2>2 DEF ReadTender, chainVars
    <3> HIDE DEF job
    <3> QED
      BY <1>1, <3>2, <3>3, PassingKeeps
  <2>3. CASE ~(tender[j.ref].state = "ACTIVE" /\ dealingFile[j.ref] # Unwritten)
    BY <1>6, <2>3, DyingKeeps DEF ReadTender, chainVars
  <2> QED
    BY <2>2, <2>3
<1>7. CASE InterruptScript(j)
  BY <1>7, DyingKeeps DEF InterruptScript, chainVars
<1> QED
  BY <1>2, <1>3, <1>4, <1>5, <1>6, <1>7

\* Publishing: the one that creates the tender is the only one to go on.
LEMMA CreateTenderKeeps ==
    ASSUME ScriptsInv, NEW j \in terminals, CreateTender(j) PROVE ScriptsInv'
<1>1. ScriptsTypeOK
  BY DEF ScriptsInv
<1>2. /\ j.ref \in Refs /\ jobs[j] \in Jobs /\ jobs[j] # Stopped /\ jobs[j].at = 2
      /\ j.script \in {"publish", "seed"}
  BY <1>1, StagePlaces DEF CreateTender, Scripts
<1>3. CASE tender[j.ref].state = "NONE"
  <2> DEFINE t == [tender[j.ref] EXCEPT !.state = "DRAFT"]
  <2>1. /\ tender' = [tender EXCEPT ![j.ref] = t] /\ Onward(j, jobs[j])
        /\ terminals' = terminals /\ UNCHANGED <<currentRoot, fileVars>>
    BY <1>3 DEF CreateTender, Transact
  <2>2. tender[j.ref] \in TenderRecords /\ currentRoot \in Roots
    BY <1>1, <1>2 DEF ScriptsTypeOK, ChainTypeOK
  <2>3. t \in TenderRecords /\ t.state = "DRAFT" /\ t.key = tender[j.ref].key
        /\ t.named = tender[j.ref].named
    BY <2>2 DEF TenderRecords
  <2>4. Advances(tender[j.ref], t)
    BY <1>3, <2>3 DEF Advances
  <2> HIDE DEF t
  <2>5. ChainTypeOK' /\ TendersAdvance /\ tender'[j.ref] = t /\ KeysStand
    BY <1>1, <1>2, <2>1, <2>2, <2>3, <2>4, TenderSet
  <2>6. Alone(j) /\ JobsTypeOK' /\ ComesOn(j, jobs[j])
    BY <1>1, <1>2, <2>1, OnwardMoves
  <2>7. jobs'[j].at \in {0, 3}
    BY <1>2, <2>6 DEF ComesOn, Stopped
  <2>8. ScriptsTypeOK'
    BY <1>1, <2>1, <2>5, <2>6 DEF ScriptsTypeOK, FilesTypeOK, fileVars
  <2>9. OneCreator'
    <3>1. \A i \in terminals \ {j} : Created(i)' => Created(i) /\ i.ref # j.ref
      BY <1>3, <2>6 DEF Alone, Created, ScriptsInv, OneCreator
    <3>2. \A i \in terminals \ {j} : Created(i)' => tender'[i.ref].state # "NONE"
      BY <3>1, <1>1, <2>5, TerminalRef DEF TendersAdvance, Advances, ScriptsInv, OneCreator
    <3>3. tender'[j.ref].state # "NONE"
      BY <2>3, <2>5
    <3> QED
      BY <3>1, <3>2, <3>3, <2>6 DEF OneCreator, Alone, ScriptsInv
  <2>10. PublishStands(j)' /\ DealStands(j)' /\ CompleteStands(j)'
    BY <1>2, <2>7 DEF PublishStands, DealStands, CompleteStands
  <2>11. \A i \in terminals : tender'[i.ref].key = tender[i.ref].key
    BY <1>1, <2>5, TerminalRef DEF KeysStand
  <2> QED
    BY <2>1, <2>5, <2>6, <2>8, <2>9, <2>10, <2>11, MoveKeeps DEF WritesNothing, fileVars
<1>4. CASE tender[j.ref].state # "NONE"
  BY <1>4, DyingKeeps DEF CreateTender, Transact
<1> QED
  BY <1>3, <1>4

\* The creator's transactions before the tender is active.
LEMMA DraftMoves ==
    ASSUME ScriptsInv, NEW j \in terminals, NEW stage, On(j, stage),
           stage \in {"rules", "key", "activate"},
           NEW t \in TenderRecords, Advances(tender[j.ref], t),
           NEW job \in Jobs, job.at = jobs[j].at,
           tender' = [tender EXCEPT ![j.ref] = t], Onward(j, job),
           terminals' = terminals, currentRoot' = currentRoot, dealt' \in Nat, WritesNothing
    PROVE  /\ ScriptsTypeOK' /\ Alone(j) /\ TendersAdvance /\ tender'[j.ref] = t
           /\ ComesOn(j, job) /\ OneCreator' /\ DealStands(j)' /\ CompleteStands(j)'
           /\ \A q \in Refs : q # j.ref => tender'[q] = tender[q]
           /\ \A i \in terminals \ {j} : i.script = "publish" =>
                tender'[i.ref].key = tender[i.ref].key \/ jobs[i].at < 5
<1>1. ScriptsTypeOK
  BY DEF ScriptsInv
<1>2. /\ j.ref \in Refs /\ jobs[j] \in Jobs /\ jobs[j] # Stopped /\ jobs[j].at \in 3 .. 5
      /\ j.script \in {"publish", "seed"}
  BY <1>1, StagePlaces DEF Scripts
<1>3. Created(j)
  BY <1>2 DEF Created
<1>4. ChainTypeOK' /\ TendersAdvance /\ tender'[j.ref] = t
  BY <1>1, <1>2, TenderSet DEF ScriptsTypeOK, ChainTypeOK
<1>5. Alone(j) /\ JobsTypeOK' /\ ComesOn(j, job)
  BY <1>1, <1>2, OnwardMoves
<1>6. ScriptsTypeOK'
  BY <1>1, <1>4, <1>5 DEF ScriptsTypeOK, FilesTypeOK, WritesNothing
<1>7. OneCreator'
  BY <1>3, <1>4, <1>5, CreatorStill
<1>8. \A q \in Refs : q # j.ref => tender'[q] = tender[q]
  BY <1>1 DEF ScriptsTypeOK, ChainTypeOK
<1>9. ASSUME NEW i \in terminals \ {j}, i.script = "publish"
      PROVE  tender'[i.ref].key = tender[i.ref].key \/ jobs[i].at < 5
  <2>1. i.ref \in Refs /\ jobs[i].at \in Nat
    BY <1>1, TerminalRef
  <2>2. CASE i.ref = j.ref
    <3>1. ~Created(i)
      BY <1>3, <2>2 DEF ScriptsInv, OneCreator
    <3> QED
      BY <1>9, <2>1, <3>1 DEF Created
  <2>3. CASE i.ref # j.ref
    BY <1>8, <2>1, <2>3
  <2> QED
    BY <2>2, <2>3
<1> QED
  BY <1>2, <1>4, <1>5, <1>6, <1>7, <1>8, <1>9 DEF DealStands, CompleteStands

\* The rules of a draft.
LEMMA StoreRulesKeeps ==
    ASSUME ScriptsInv, NEW j \in terminals, StoreRules(j) PROVE ScriptsInv'
<1>1. ScriptsTypeOK
  BY DEF ScriptsInv
<1>2. j.ref \in Refs /\ jobs[j] \in Jobs /\ jobs[j].at = 3
  BY <1>1, StagePlaces DEF StoreRules, Scripts
<1>3. CASE tender[j.ref].state = "DRAFT"
  <2> DEFINE t == [tender[j.ref] EXCEPT !.rules = TRUE]
  <2>1. /\ tender' = [tender EXCEPT ![j.ref] = t] /\ Onward(j, jobs[j]) /\ On(j, "rules")
        /\ terminals' = terminals /\ UNCHANGED <<currentRoot, fileVars>>
    BY <1>3 DEF StoreRules, Transact
  <2>2. tender[j.ref] \in TenderRecords /\ dealt \in Nat
    BY <1>1, <1>2 DEF ScriptsTypeOK, ChainTypeOK, FilesTypeOK
  <2>3. t \in TenderRecords /\ Advances(tender[j.ref], t)
    BY <1>3, <2>2 DEF TenderRecords, Advances
  <2> HIDE DEF t
  <2>4. dealt' \in Nat /\ WritesNothing
    BY <2>1, <2>2 DEF WritesNothing, fileVars
  <2>5. /\ ScriptsTypeOK' /\ Alone(j) /\ TendersAdvance /\ ComesOn(j, jobs[j]) /\ OneCreator'
        /\ DealStands(j)' /\ CompleteStands(j)'
        /\ \A i \in terminals \ {j} : i.script = "publish" =>
             tender'[i.ref].key = tender[i.ref].key \/ jobs[i].at < 5
    BY <1>2, <2>1, <2>3, <2>4, DraftMoves
  <2>6. jobs'[j].at \in {0, 4}
    BY <1>2, <2>5 DEF ComesOn, Stopped
  <2>7. PublishStands(j)'
    BY <2>6 DEF PublishStands
  <2> QED
    BY <2>4, <2>5, <2>7, MoveKeeps
<1>4. CASE tender[j.ref].state # "DRAFT"
  BY <1>4, DyingKeeps DEF StoreRules, Transact
<1> QED
  BY <1>3, <1>4

\* The key of a draft is the dealing in the memory of its creator.
LEMMA DealKeyKeeps ==
    ASSUME ScriptsInv, NEW j \in terminals, DealKey(j) PROVE ScriptsInv'
<1>1. ScriptsTypeOK
  BY DEF ScriptsInv
<1>2. j.ref \in Refs /\ jobs[j] \in Jobs /\ jobs[j].at = 4 /\ jobs[j] # Stopped
  BY <1>1, StagePlaces DEF DealKey, Scripts
<1>3. dealt \in Nat /\ dealt' \in Nat /\ WritesNothing
  BY <1>1 DEF DealKey, ScriptsTypeOK, FilesTypeOK, WritesNothing
<1>4. CASE tender[j.ref].state = "DRAFT"
  <2> DEFINE t == [tender[j.ref] EXCEPT !.key = dealt']
             job == [jobs[j] EXCEPT !.dealing = dealt']
  <2>1. /\ tender' = [tender EXCEPT ![j.ref] = t] /\ Onward(j, job) /\ On(j, "key")
        /\ terminals' = terminals /\ currentRoot' = currentRoot
    BY <1>4 DEF DealKey, Transact
  <2>2. tender[j.ref] \in TenderRecords
    BY <1>1, <1>2 DEF ScriptsTypeOK, ChainTypeOK
  <2>3. t \in TenderRecords /\ Advances(tender[j.ref], t) /\ t.key = dealt'
    BY <1>3, <1>4, <2>2 DEF TenderRecords, Advances
  <2>4. job \in Jobs /\ job.at = jobs[j].at /\ job.dealing = dealt'
    BY <1>2, <1>3 DEF Jobs
  <2> HIDE DEF t, job
  <2>5. /\ ScriptsTypeOK' /\ Alone(j) /\ TendersAdvance /\ ComesOn(j, job) /\ OneCreator'
        /\ DealStands(j)' /\ CompleteStands(j)' /\ tender'[j.ref] = t
        /\ \A i \in terminals \ {j} : i.script = "publish" =>
             tender'[i.ref].key = tender[i.ref].key \/ jobs[i].at < 5
    BY <1>3, <2>1, <2>3, <2>4, DraftMoves
  <2>6. jobs'[j].at = 0 \/ (jobs'[j].at = 5 /\ jobs'[j].dealing = dealt')
    BY <1>2, <2>4, <2>5 DEF ComesOn, Stopped
  <2>7. PublishStands(j)'
    BY <1>3, <2>3, <2>5, <2>6 DEF PublishStands
  <2> QED
    BY <1>3, <2>5, <2>7, MoveKeeps
<1>5. CASE tender[j.ref].state # "DRAFT"
  <2>1. Die(j) /\ UNCHANGED <<tender, terminals, currentRoot>>
    BY <1>5 DEF DealKey, Transact
  <2>2. Alone(j) /\ JobsTypeOK' /\ jobs'[j].at = 0
    BY <1>1, <2>1, DieMoves
  <2>3. ScriptsTypeOK'
    BY <1>1, <1>3, <2>1, <2>2 DEF ScriptsTypeOK, ChainTypeOK, FilesTypeOK, WritesNothing
  <2>4. TendersAdvance
    BY <2>1, TendersStand
  <2>5. OneCreator'
    BY <2>2, <2>4, CreatorStill DEF Created
  <2>6. PublishStands(j)' /\ DealStands(j)' /\ CompleteStands(j)'
    BY <2>2 DEF PublishStands, DealStands, CompleteStands
  <2> QED
    BY <1>3, <2>1, <2>2, <2>3, <2>4, <2>5, <2>6, MoveKeeps
<1> QED
  BY <1>4, <1>5

\* Activation freezes the key that the creator dealt.
LEMMA ActivateTenderKeeps ==
    ASSUME ScriptsInv, NEW j \in terminals, ActivateTender(j) PROVE ScriptsInv'
<1>1. ScriptsTypeOK
  BY DEF ScriptsInv
<1>2. j.ref \in Refs /\ jobs[j] \in Jobs /\ jobs[j].at = 5
  BY <1>1, StagePlaces DEF ActivateTender, Scripts
<1> DEFINE accepted ==
             tender[j.ref].state = "DRAFT" /\ tender[j.ref].rules /\ tender[j.ref].key # NoKey
<1>3. CASE accepted
  <2> DEFINE t == [tender[j.ref] EXCEPT !.state = "ACTIVE"]
  <2>1. /\ tender' = [tender EXCEPT ![j.ref] = t] /\ Onward(j, jobs[j]) /\ On(j, "activate")
        /\ terminals' = terminals /\ UNCHANGED <<currentRoot, fileVars>>
    BY <1>3 DEF ActivateTender, Transact
  <2>2. tender[j.ref] \in TenderRecords /\ dealt \in Nat
    BY <1>1, <1>2 DEF ScriptsTypeOK, ChainTypeOK, FilesTypeOK
  <2>3. t \in TenderRecords /\ Advances(tender[j.ref], t) /\ t.state = "ACTIVE"
        /\ t.key = tender[j.ref].key
    BY <1>3, <2>2 DEF TenderRecords, Advances
  <2> HIDE DEF t
  <2>4. dealt' \in Nat /\ WritesNothing
    BY <2>1, <2>2 DEF WritesNothing, fileVars
  <2>5. /\ ScriptsTypeOK' /\ Alone(j) /\ TendersAdvance /\ ComesOn(j, jobs[j]) /\ OneCreator'
        /\ DealStands(j)' /\ CompleteStands(j)' /\ tender'[j.ref] = t
        /\ \A i \in terminals \ {j} : i.script = "publish" =>
             tender'[i.ref].key = tender[i.ref].key \/ jobs[i].at < 5
    BY <1>2, <2>1, <2>3, <2>4, DraftMoves
  <2>6. jobs'[j].at = 0 \/ (jobs'[j].at = 6 /\ jobs'[j].dealing = jobs[j].dealing)
    BY <1>2, <2>5 DEF ComesOn, Stopped
  <2>7. PublishStands(j)'
    BY <1>2, <2>3, <2>5, <2>6 DEF PublishStands, ScriptsInv, JobsInStep
  <2> QED
    BY <2>4, <2>5, <2>7, MoveKeeps
<1>4. CASE ~accepted
  BY <1>4, DyingKeeps DEF ActivateTender, Transact
<1> QED
  BY <1>3, <1>4

\* Completing: what each transaction found on the chain is not undone.
LEMMA SubmitBidKeeps ==
    ASSUME ScriptsInv, NEW j \in terminals, SubmitBid(j) PROVE ScriptsInv'
<1>1. ScriptsTypeOK
  BY DEF ScriptsInv
<1>2. /\ j.ref \in Refs /\ jobs[j] \in Jobs /\ jobs[j] # Stopped
      /\ jobs[j].k \in Firms /\ j.script \in {"complete", "seed"}
      /\ Turns(j.script) = Len(FirmAmounts)
      /\ j.script = "complete" => jobs[j].at = 3
      /\ j.script = "seed" => jobs[j].at = 7
  BY <1>1, StagePlaces, FirmsNumbered DEF SubmitBid, Scripts, Turns
<1> DEFINE k == jobs[j].k
           accepted == IsBiddingOpen(j.ref) /\ BidsOf(j.ref, k) = {}
<1>3. CASE accepted
  <2> DEFINE t == [tender[j.ref] EXCEPT !.bids = Append(@, k)]
  <2>1. tender' = [tender EXCEPT ![j.ref] = t] /\ terminals' = terminals
        /\ UNCHANGED <<currentRoot, fileVars>>
    BY <1>3 DEF SubmitBid
  <2>2. tender[j.ref] \in TenderRecords /\ currentRoot \in Roots /\ tender[j.ref].state = "ACTIVE"
    BY <1>1, <1>2, <1>3 DEF ScriptsTypeOK, ChainTypeOK, IsBiddingOpen
  <2>3. Append(tender[j.ref].bids, k) \in Seq(Firms \cup {Outsider})
    <3>1. tender[j.ref].bids \in Seq(Firms \cup {Outsider})
      BY <2>2 DEF TenderRecords
    <3> QED
      BY <1>2, <3>1, AppendProperties
  <2>4. t \in TenderRecords /\ t.key = tender[j.ref].key /\ Advances(tender[j.ref], t)
    BY <2>2, <2>3 DEF TenderRecords, Advances
  <2> HIDE DEF t
  <2>5. ChainTypeOK' /\ TendersAdvance /\ KeysStand
    BY <1>1, <1>2, <2>1, <2>2, <2>4, TenderSet
  <2>6. CASE j.script = "complete"
    <3> DEFINE job == [jobs[j] EXCEPT !.sent = TRUE]
    <3>1. jobs' = [jobs EXCEPT ![j] = job]
      BY <1>1, <1>3, <2>6 DEF SubmitBid, ScriptsTypeOK, JobsTypeOK
    <3>2. job \in Jobs /\ job.at = 3 /\ job.k = jobs[j].k
      BY <1>2, <2>6 DEF Jobs
    <3> HIDE DEF job
    <3>3. Alone(j) /\ jobs'[j] = job /\ jobs' \in [terminals -> Jobs \cup {Stopped}]
      BY <1>1, <2>1, <3>1, <3>2 DEF Alone, ScriptsTypeOK, JobsTypeOK
    <3>4. JobsTypeOK'
      BY <1>1, <1>2, <2>1, <2>6, <3>2, <3>3 DEF ScriptsTypeOK, JobsTypeOK, Alone
    <3>5. CompleteStands(j)'
      BY <3>2, <3>3 DEF CompleteStands
    <3> QED
      BY <2>1, <2>5, <2>6, <3>3, <3>4, <3>5, FirmsMoveKeeps
  <2>7. CASE j.script = "seed"
    <3> DEFINE job == [jobs[j] EXCEPT !.index[k] = k - 1]
    <3>1. InTurn(j, job, Len(FirmAmounts))
      BY <1>3, <2>7 DEF SubmitBid
    <3>2. job \in Jobs /\ job.at = jobs[j].at /\ job.k = jobs[j].k
      <4>1. k - 1 \in Int
        BY <1>2, FirmsNumbered
      <4> QED
        BY <1>2, <4>1 DEF Jobs
    <3> HIDE DEF job
    <3>3. job.k <= Len(FirmAmounts)
      BY <1>2, <3>2, FirmsNumbered
    <3>4. Alone(j) /\ JobsTypeOK'
      BY <1>1, <1>2, <2>1, <3>1, <3>2, <3>3, InTurnMoves
    <3>5. CompleteStands(j)'
      BY <2>7 DEF CompleteStands
    <3> QED
      BY <1>2, <2>1, <2>5, <2>7, <3>4, <3>5, FirmsMoveKeeps
  <2> QED
    BY <1>2, <2>6, <2>7
<1>4. CASE ~accepted
  BY <1>4, DyingKeeps DEF SubmitBid
<1> QED
  BY <1>3, <1>4

\* The index read after a bid may be another bid's: nothing relies on it yet.
LEMMA ReadIndexKeeps ==
    ASSUME ScriptsInv, NEW j \in terminals, ReadIndex(j) PROVE ScriptsInv'
<1>1. ScriptsTypeOK
  BY DEF ScriptsInv
<1>2. /\ j.ref \in Refs /\ jobs[j] \in Jobs /\ jobs[j] # Stopped
      /\ jobs[j].k \in Firms /\ j.script \in {"complete", "seed"}
      /\ Turns(j.script) = Len(FirmAmounts)
      /\ j.script = "complete" => jobs[j].at = 3
      /\ j.script = "seed" => jobs[j].at = 7
  BY <1>1, StagePlaces, FirmsNumbered DEF ReadIndex, Scripts, Turns
<1> DEFINE job == [jobs[j] EXCEPT !.sent = FALSE,
                                  !.index[jobs[j].k] = Len(tender[j.ref].bids) - 1]
<1>3. /\ InTurn(j, job, Len(FirmAmounts)) /\ terminals' = terminals
      /\ UNCHANGED <<tender, currentRoot, fileVars>>
  BY DEF ReadIndex, chainVars
<1>4. job \in Jobs /\ job.at = jobs[j].at /\ job.k = jobs[j].k
  <2>1. Len(tender[j.ref].bids) - 1 \in Int
    BY <1>1, <1>2 DEF ScriptsTypeOK, ChainTypeOK, TenderRecords
  <2> QED
    BY <1>2, <2>1 DEF Jobs
<1> HIDE DEF job
<1>5. job.k <= Len(FirmAmounts)
  BY <1>2, <1>4, FirmsNumbered
<1>6. /\ Alone(j) /\ JobsTypeOK'
      /\ ComesOn(j, job) \/ jobs'[j].at = job.at
  BY <1>1, <1>2, <1>3, <1>4, <1>5, InTurnMoves
<1>7. jobs'[j].at \in {0, jobs[j].at, jobs[j].at + 1}
  BY <1>4, <1>6 DEF ComesOn, Stopped
<1> QED
  BY <1>1, <1>2, <1>3, <1>6, <1>7, QuietKeeps DEF ScriptsTypeOK, ChainTypeOK

\* A transaction of the second half that the contract takes, with the job it leaves.
LEMMA FirmsTransact ==
    ASSUME ScriptsInv, NEW j \in terminals, NEW stage, On(j, stage),
           stage \in {"close", "open", "status", "award", "identity"},
           NEW t \in TenderRecords, Advances(tender[j.ref], t), t.key = tender[j.ref].key,
           tender' = [tender EXCEPT ![j.ref] = t],
           terminals' = terminals, UNCHANGED <<currentRoot, fileVars>>,
           \/ Onward(j, jobs[j])
           \/ InTurn(j, jobs[j], Len(FirmAmounts)),
           j.script = "complete" /\ tender'[j.ref] = t /\ Alone(j)
             /\ jobs'[j] # Stopped => CompleteStands(j)'
    PROVE  ScriptsInv'
<1>1. ScriptsTypeOK
  BY DEF ScriptsInv
<1>2. /\ j.ref \in Refs /\ jobs[j] \in Jobs /\ jobs[j] # Stopped
      /\ jobs[j].k \in 1 .. Len(FirmAmounts) /\ j.script \in {"complete", "seed"}
      /\ Turns(j.script) = Len(FirmAmounts)
      /\ j.script = "seed" => jobs[j].at >= 3
  BY <1>1, StagePlaces DEF Scripts, Turns
<1>3. currentRoot' \in Roots
  BY <1>1 DEF ScriptsTypeOK, ChainTypeOK
<1>4. ChainTypeOK' /\ TendersAdvance /\ KeysStand /\ tender'[j.ref] = t
  BY <1>1, <1>2, <1>3, TenderSet
<1>5. Alone(j) /\ JobsTypeOK'
  <2>1. jobs[j].k <= Len(FirmAmounts)
    BY <1>2, FirmsNumbered
  <2> QED
    BY <1>1, <1>2, <2>1, OnwardMoves, InTurnMoves
<1>6. CompleteStands(j)'
  <2>1. CASE jobs'[j] = Stopped
    BY <2>1 DEF CompleteStands, Stopped
  <2>2. CASE j.script # "complete"
    BY <2>2 DEF CompleteStands
  <2> QED
    BY <1>4, <1>5, <2>1, <2>2
<1> QED
  BY <1>2, <1>4, <1>5, <1>6, FirmsMoveKeeps

\* The job of a complete terminal, where its stage is one of the firms' in turn.
LEMMA TurnOrNext ==
    ASSUME ScriptsTypeOK, NEW j \in terminals, jobs[j] # Stopped, j.script = "complete",
           terminals' = terminals, InTurn(j, jobs[j], Len(FirmAmounts)), jobs'[j] # Stopped
    PROVE  /\ jobs'[j].index = jobs[j].index
           /\ \/ /\ jobs'[j].at = jobs[j].at /\ jobs'[j].k = jobs[j].k + 1
              \/ /\ jobs'[j].at = jobs[j].at + 1 /\ jobs'[j].k = 1
                 /\ \A f \in Firms : f <= jobs[j].k
<1>1. jobs[j] \in Jobs /\ jobs[j].k <= Len(FirmAmounts) /\ Len(FirmAmounts) = Turns(j.script)
  BY DEF ScriptsTypeOK, JobsTypeOK, Turns
<1>2. \/ jobs[j].k = Len(FirmAmounts) /\ ComesOn(j, jobs[j])
      \/ /\ jobs[j].k < Len(FirmAmounts)
         /\ jobs'[j].at = jobs[j].at /\ jobs'[j].k = jobs[j].k + 1
         /\ jobs'[j].index = jobs[j].index
  BY <1>1, InTurnMoves
<1>3. \A f \in Firms : f <= Len(FirmAmounts)
  BY FirmsNumbered
<1> QED
  BY <1>2, <1>3 DEF ComesOn

\* The job of a complete terminal after any other stage.
LEMMA NextStage ==
    ASSUME ScriptsTypeOK, NEW j \in terminals, jobs[j] # Stopped,
           terminals' = terminals, Onward(j, jobs[j]), jobs'[j] # Stopped
    PROVE  jobs'[j].index = jobs[j].index /\ jobs'[j].at = jobs[j].at + 1 /\ jobs'[j].k = 1
<1>1. jobs[j] \in Jobs
  BY DEF ScriptsTypeOK, JobsTypeOK
<1> QED
  BY <1>1, OnwardMoves DEF ComesOn

\* Closing: from here on the bids stand still.
LEMMA CloseTenderKeeps ==
    ASSUME ScriptsInv, NEW j \in terminals, CloseTender(j) PROVE ScriptsInv'
<1>1. ScriptsTypeOK
  BY DEF ScriptsInv
<1>2. /\ j.ref \in Refs /\ jobs[j] \in Jobs /\ jobs[j] # Stopped
      /\ j.script = "complete" => jobs[j].at = 5
  BY <1>1, StagePlaces DEF CloseTender
<1> DEFINE accepted == Closable(j.ref) /\ tender[j.ref].clock = "over"
           t == Closed(tender[j.ref])
<1>3. CASE accepted
  <2>1. /\ tender' = [tender EXCEPT ![j.ref] = t] /\ terminals' = terminals
        /\ UNCHANGED <<currentRoot, fileVars>> /\ Onward(j, jobs[j]) /\ On(j, "close")
    BY <1>3 DEF CloseTender, Transact
  <2>2. tender[j.ref] \in TenderRecords /\ currentRoot \in Roots /\ tender[j.ref].state = "ACTIVE"
    BY <1>1, <1>2, <1>3 DEF ScriptsTypeOK, ChainTypeOK, Closable
  <2>3. /\ t \in TenderRecords /\ t.key = tender[j.ref].key /\ Advances(tender[j.ref], t)
        /\ t.state = "CLOSED"
    BY <2>2 DEF TenderRecords, Advances, Closed
  <2> HIDE DEF t
  <2>4. ASSUME j.script = "complete", tender'[j.ref] = t, jobs'[j] # Stopped
        PROVE  CompleteStands(j)'
    <3>1. jobs'[j].at = 6 /\ jobs'[j].k = 1
      BY <1>1, <1>2, <2>1, <2>4, NextStage
    <3>2. \A f \in Firms : ~(f < 1)
      BY FirmsNumbered
    <3> QED
      BY <2>3, <2>4, <3>1, <3>2 DEF CompleteStands
  <2> QED
    BY <2>1, <2>3, <2>4, FirmsTransact
<1>4. CASE ~accepted
  BY <1>4, DyingKeeps DEF CloseTender, Transact
<1> QED
  BY <1>3, <1>4

\* An opening accepted is of the firm's own bid, so its index was right.
LEMMA OpenBidKeeps ==
    ASSUME ScriptsInv, NEW j \in terminals, OpenBid(j) PROVE ScriptsInv'
<1>1. ScriptsTypeOK
  BY DEF ScriptsInv
<1>2. /\ j.ref \in Refs /\ jobs[j] \in Jobs /\ jobs[j] # Stopped /\ jobs[j].k \in Nat
      /\ j.script = "complete" => jobs[j].at = 6 /\ jobs[j].k \in Firms
  BY <1>1, StagePlaces, FirmsNumbered DEF OpenBid, Turns, Jobs
<1> DEFINE k == jobs[j].k
           i == jobs[j].index[k]
           t == [tender[j.ref] EXCEPT !.opened = @ \cup {i}]
<1>3. CASE Openable(j, i)
  <2>1. /\ tender' = [tender EXCEPT ![j.ref] = t] /\ terminals' = terminals
        /\ UNCHANGED <<currentRoot, fileVars>> /\ InTurn(j, jobs[j], Len(FirmAmounts))
        /\ On(j, "open")
    BY <1>3 DEF OpenBid, EachFirm
  <2>2. tender[j.ref] \in TenderRecords /\ tender[j.ref].state = "CLOSED"
        /\ i + 1 \in DOMAIN tender[j.ref].bids /\ tender[j.ref].bids[i + 1] = k
    BY <1>1, <1>2, <1>3 DEF ScriptsTypeOK, ChainTypeOK, Openable, BidsOf
  <2>3. i \in Int \cup {NoIndex}
    <3>1. k \in Firms
      <4>1. Turns(j.script) = Len(FirmAmounts)
        BY <1>1, StagePlaces DEF OpenBid, Scripts, Turns
      <4> QED
        BY <1>1, <4>1, StagePlaces, FirmsNumbered DEF OpenBid
    <3> QED
      BY <1>2, <3>1 DEF Jobs
  <2>4. /\ t \in TenderRecords /\ t.key = tender[j.ref].key /\ Advances(tender[j.ref], t)
        /\ t.state = "CLOSED" /\ t.bids = tender[j.ref].bids
        /\ t.opened = tender[j.ref].opened \cup {i} /\ t.proven = tender[j.ref].proven
    BY <2>2, <2>3 DEF TenderRecords, Advances
  <2> HIDE DEF t
  <2>5. ASSUME j.script = "complete", tender'[j.ref] = t, jobs'[j] # Stopped
        PROVE  CompleteStands(j)'
    <3>1. /\ jobs'[j].index = jobs[j].index
          /\ \/ jobs'[j].at = 6 /\ jobs'[j].k = k + 1
             \/ jobs'[j].at = 7 /\ jobs'[j].k = 1 /\ \A f \in Firms : f <= k
      BY <1>1, <1>2, <2>1, <2>5, TurnOrNext
    <3>2. \A f \in Firms : f < k => OpenedWell(t, jobs[j].index[f], f)
      BY <1>2, <2>4, <2>5 DEF ScriptsInv, JobsInStep, CompleteStands, OpenedWell
    <3>3. OpenedWell(t, jobs[j].index[k], k)
      BY <2>2, <2>4 DEF OpenedWell
    <3>4. \A f \in Firms : f \in Nat
      BY FirmsNumbered
    <3>5. \A f \in Firms : f <= k => OpenedWell(t, jobs[j].index[f], f)
      BY <1>2, <3>2, <3>3, <3>4
    <3>6. \A f \in Firms : ~(f < 1)
      BY FirmsNumbered
    <3>7. \A f \in Firms : jobs'[j].at = 7 \/ f < jobs'[j].k => OpenedWell(t, jobs[j].index[f], f)
      BY <1>2, <3>1, <3>4, <3>5, <3>6
    <3>8. \A f \in Firms : OpenedWell(tender[j.ref], jobs[j].index[f], f)'
                             <=> OpenedWell(t, jobs[j].index[f], f)
      BY <2>5, <3>1 DEF OpenedWell
    <3>9. \A f \in Firms : jobs'[j].at >= 7 \/ (jobs'[j].at = 6 /\ f < jobs'[j].k)
                             => OpenedWell(tender[j.ref], jobs[j].index[f], f)'
      BY <3>1, <3>7, <3>8
    <3> QED
      BY <2>4, <2>5, <3>1, <3>6, <3>9 DEF CompleteStands
  <2> QED
    BY <2>1, <2>4, <2>5, FirmsTransact
<1>4. CASE ~Openable(j, i)
  BY <1>4, DyingKeeps DEF OpenBid, EachFirm
<1> QED
  BY <1>3, <1>4

\* The standing of one more firm's bid.
LEMMA StatusKeeps ==
    ASSUME ScriptsInv, NEW j \in terminals, SubmitStatusProof(j) PROVE ScriptsInv'
<1>1. ScriptsTypeOK
  BY DEF ScriptsInv
<1>2. /\ j.ref \in Refs /\ jobs[j] \in Jobs /\ jobs[j] # Stopped
      /\ jobs[j].k \in Firms
      /\ j.script = "complete" => jobs[j].at = 7
  <2>1. Turns(j.script) = Len(FirmAmounts)
    BY <1>1, StagePlaces DEF SubmitStatusProof, Scripts, Turns
  <2> QED
    BY <1>1, <2>1, StagePlaces, FirmsNumbered DEF SubmitStatusProof
<1> DEFINE k == jobs[j].k
           i == jobs[j].index[k]
           accepted == tender[j.ref].pinned = ThirdFirmRevoked /\ i \notin tender[j.ref].proven
           t == [tender[j.ref] EXCEPT !.proven = @ \cup {i}]
<1>3. CASE accepted
  <2>1. /\ tender' = [tender EXCEPT ![j.ref] = t] /\ terminals' = terminals
        /\ UNCHANGED <<currentRoot, fileVars>> /\ InTurn(j, jobs[j], Len(FirmAmounts))
        /\ On(j, "status")
    BY <1>3 DEF SubmitStatusProof, EachFirm
  <2>2. tender[j.ref] \in TenderRecords /\ i \in Int \cup {NoIndex}
    BY <1>1, <1>2 DEF ScriptsTypeOK, ChainTypeOK, Jobs
  <2>3. /\ t \in TenderRecords /\ t.key = tender[j.ref].key /\ Advances(tender[j.ref], t)
        /\ t.state = tender[j.ref].state /\ t.bids = tender[j.ref].bids
        /\ t.opened = tender[j.ref].opened /\ t.proven = tender[j.ref].proven \cup {i}
    BY <2>2 DEF TenderRecords, Advances
  <2> HIDE DEF t
  <2>4. ASSUME j.script = "complete", tender'[j.ref] = t, jobs'[j] # Stopped
        PROVE  CompleteStands(j)'
    <3>1. /\ jobs'[j].index = jobs[j].index
          /\ \/ jobs'[j].at = 7 /\ jobs'[j].k = k + 1
             \/ jobs'[j].at = 8 /\ jobs'[j].k = 1 /\ \A f \in Firms : f <= k
      BY <1>1, <1>2, <2>1, <2>4, TurnOrNext
    <3>2. CompleteStands(j)
      BY DEF ScriptsInv, JobsInStep
    <3>3. t.state \in {"CLOSED", "AWARDED"}
      BY <1>2, <2>3, <2>4, <3>2 DEF CompleteStands
    <3>4. \A f \in Firms : OpenedWell(t, jobs[j].index[f], f)
      BY <1>2, <2>3, <2>4, <3>2 DEF CompleteStands, OpenedWell
    <3>5. \A f \in Firms : f < k => jobs[j].index[f] \in t.proven
      BY <1>2, <2>3, <2>4, <3>2 DEF CompleteStands
    <3>6. \A f \in Firms : f \in Nat
      BY FirmsNumbered
    <3>7. \A f \in Firms : f <= k => jobs[j].index[f] \in t.proven
      BY <1>2, <2>3, <3>5, <3>6
    <3>8. \A f \in Firms : jobs'[j].at = 8 \/ f < jobs'[j].k => jobs[j].index[f] \in t.proven
      BY <1>2, <3>1, <3>6, <3>7
    <3>9. \A f \in Firms : OpenedWell(tender[j.ref], jobs[j].index[f], f)'
      BY <2>4, <3>1, <3>4 DEF OpenedWell
    <3> QED
      BY <2>4, <3>1, <3>3, <3>8, <3>9 DEF CompleteStands
  <2> QED
    BY <2>1, <2>3, <2>4, FirmsTransact
<1>4. CASE ~accepted
  BY <1>4, DyingKeeps DEF SubmitStatusProof, EachFirm
<1> QED
  BY <1>3, <1>4

\* The award is to the lowest firm, over all the bids there are.
LEMMA AwardKeeps ==
    ASSUME ScriptsInv, NEW j \in terminals, RecordAward(j) PROVE ScriptsInv'
<1>1. ScriptsTypeOK
  BY DEF ScriptsInv
<1>2. /\ j.ref \in Refs /\ jobs[j] \in Jobs /\ jobs[j] # Stopped
      /\ j.script = "complete" => jobs[j].at = 8
  BY <1>1, StagePlaces DEF RecordAward
<1> DEFINE k == CHOOSE f \in Firms : Lowest(f)
           old == tender[j.ref]
           accepted == /\ old.state = "CLOSED" /\ Len(old.bids) = Len(FirmAmounts)
                       /\ \A f \in Firms : old.bids[jobs[j].index[f] + 1] = f
           t == [old EXCEPT !.state = "AWARDED", !.award = jobs[j].index[k]]
<1>3. CASE accepted
  <2>1. /\ tender' = [tender EXCEPT ![j.ref] = t] /\ terminals' = terminals
        /\ UNCHANGED <<currentRoot, fileVars>> /\ Onward(j, jobs[j]) /\ On(j, "award")
    BY <1>3 DEF RecordAward, Transact
  <2>2. k \in Firms /\ Lowest(k)
    BY LowestExists
  <2>3. old \in TenderRecords /\ jobs[j].index[k] \in Int \cup {NoIndex}
    BY <1>1, <1>2, <2>2 DEF ScriptsTypeOK, ChainTypeOK, Jobs
  <2> HIDE DEF k
  <2>4. /\ t \in TenderRecords /\ t.key = old.key /\ Advances(old, t)
        /\ t.state = "AWARDED" /\ t.award = jobs[j].index[k] /\ t.bids = old.bids
        /\ t.opened = old.opened /\ t.proven = old.proven
    BY <1>3, <2>3 DEF TenderRecords, Advances
  <2> HIDE DEF t
  <2>5. ASSUME j.script = "complete", tender'[j.ref] = t, jobs'[j] # Stopped
        PROVE  CompleteStands(j)'
    <3>1. jobs'[j].index = jobs[j].index /\ jobs'[j].at = 9
      BY <1>1, <1>2, <2>1, <2>5, NextStage
    <3>2. CompleteStands(j)
      BY DEF ScriptsInv, JobsInStep
    <3>3. \A f \in Firms : OpenedWell(t, jobs[j].index[f], f) /\ jobs[j].index[f] \in t.proven
      BY <1>2, <2>4, <2>5, <3>2 DEF CompleteStands, OpenedWell
    <3>4. Len(t.bids) = Len(FirmAmounts)
      BY <1>3, <2>4
    <3>5. Lowest(k)'
      BY <2>2 DEF Lowest
    <3>6. \A f \in Firms : OpenedWell(tender[j.ref], jobs[j].index[f], f)'
      BY <2>5, <3>1, <3>3 DEF OpenedWell
    <3> QED
      BY <2>2, <2>4, <2>5, <3>1, <3>3, <3>4, <3>5, <3>6 DEF CompleteStands
  <2> QED
    BY <2>1, <2>4, <2>5, FirmsTransact
<1>4. CASE ~accepted
  BY <1>4, DyingKeeps DEF RecordAward, Transact
<1> QED
  BY <1>3, <1>4

\* The winner is named.
LEMMA IdentityKeeps ==
    ASSUME ScriptsInv, NEW j \in terminals, SubmitIdentityProof(j) PROVE ScriptsInv'
<1>1. ScriptsTypeOK
  BY DEF ScriptsInv
<1>2. /\ j.ref \in Refs /\ jobs[j] \in Jobs /\ jobs[j] # Stopped
      /\ j.script = "complete" => jobs[j].at = 9
  BY <1>1, StagePlaces DEF SubmitIdentityProof
<1> DEFINE old == tender[j.ref]
           accepted == old.state = "AWARDED" /\ ~old.named
           t == [old EXCEPT !.named = TRUE]
<1>3. CASE accepted
  <2>1. /\ tender' = [tender EXCEPT ![j.ref] = t] /\ terminals' = terminals
        /\ UNCHANGED <<currentRoot, fileVars>> /\ Onward(j, jobs[j]) /\ On(j, "identity")
    BY <1>3 DEF SubmitIdentityProof, Transact
  <2>2. old \in TenderRecords
    BY <1>1, <1>2 DEF ScriptsTypeOK, ChainTypeOK
  <2>3. /\ t \in TenderRecords /\ t.key = old.key /\ Advances(old, t)
        /\ t.state = "AWARDED" /\ t.award = old.award /\ t.bids = old.bids
        /\ t.opened = old.opened /\ t.proven = old.proven /\ t.named
    BY <1>3, <2>2 DEF TenderRecords, Advances
  <2> HIDE DEF t
  <2>4. ASSUME j.script = "complete", tender'[j.ref] = t, jobs'[j] # Stopped
        PROVE  CompleteStands(j)'
    <3>1. jobs'[j].index = jobs[j].index /\ jobs'[j].at = 10
      BY <1>1, <1>2, <2>1, <2>4, NextStage
    <3>2. CompleteStands(j)
      BY DEF ScriptsInv, JobsInStep
    <3>3. \A f \in Firms : OpenedWell(t, jobs[j].index[f], f) /\ jobs[j].index[f] \in t.proven
      BY <1>2, <2>3, <2>4, <3>2 DEF CompleteStands, OpenedWell
    <3>4. Len(t.bids) = Len(FirmAmounts) /\ \E f \in Firms : Lowest(f) /\ t.award = jobs[j].index[f]
      BY <1>2, <2>3, <2>4, <3>2 DEF CompleteStands
    <3>5. \A f : Lowest(f)' <=> Lowest(f)
      BY DEF Lowest
    <3>6. \A f \in Firms : OpenedWell(tender[j.ref], jobs[j].index[f], f)'
      BY <2>4, <3>1, <3>3 DEF OpenedWell
    <3> QED
      BY <2>3, <2>4, <3>1, <3>3, <3>4, <3>5, <3>6 DEF CompleteStands
  <2> QED
    BY <2>1, <2>3, <2>4, FirmsTransact
<1>4. CASE ~accepted
  BY <1>4, DyingKeeps DEF SubmitIdentityProof, Transact
<1> QED
  BY <1>3, <1>4

-----------------------------------------------------------------------------
(* The steps that write a file.                                            *)

\* A step of one terminal that leaves the chain alone.
LEMMA FileMoveKeeps ==
    ASSUME ScriptsInv, NEW j \in terminals, Alone(j), JobsTypeOK', FilesTypeOK',
           UNCHANGED <<tender, currentRoot>>, Created(j)' => Created(j),
           PublishStands(j)', DealStands(j)', CompleteStands(j)',
           \A i \in terminals \ {j} :
             /\ dealingFile[i.ref] # Unwritten => dealingFile'[i.ref] # Unwritten
             /\ i.script = "deal" => publicFile'[i.ref] = publicFile[i.ref]
                                       /\ shareFile'[i.ref] = shareFile[i.ref],
           DealingsUsable', ReceiptsTrue'
    PROVE  ScriptsInv'
<1>1. ScriptsTypeOK /\ ScriptsTypeOK'
  BY DEF ScriptsInv, ScriptsTypeOK, ChainTypeOK, Alone
<1>2. TendersAdvance
  BY TendersStand
<1>3. OneCreator'
  BY <1>2, CreatorStill
<1>4. ASSUME NEW i \in terminals \ {j}
      PROVE  PublishStands(i)' /\ DealStands(i)' /\ CompleteStands(i)'
  <2>1. jobs'[i] = jobs[i] /\ i.ref \in Refs
    BY <1>1, TerminalRef DEF Alone
  <2>2. CompleteStands(i)' /\ PublishStands(i)'
    BY <1>1, <1>2, <2>1, CompleteStill, PublishStill DEF ScriptsInv, JobsInStep
  <2>3. DealStands(i)'
    BY <2>1 DEF ScriptsInv, JobsInStep, DealStands
  <2> QED
    BY <2>2, <2>3
<1> QED
  BY <1>1, <1>3, <1>4 DEF ScriptsInv, JobsInStep, Alone

\* Two deal terminals are of two tenders.
LEMMA DealTerminals ==
    ASSUME ScriptsTypeOK, NEW i \in terminals, NEW j \in terminals,
           i.script = j.script, i.ref = j.ref
    PROVE  i = j
<1>1. i \in [script : Scripts, ref : Refs] /\ j \in [script : Scripts, ref : Refs]
  BY ScriptsAssumption DEF ScriptsTypeOK
<1> QED
  BY <1>1

\* The dealing served is the frozen key.
LEMMA WriteDealingKeeps ==
    ASSUME ScriptsInv, NEW j \in terminals, WriteDealing(j) PROVE ScriptsInv'
<1>1. ScriptsTypeOK
  BY DEF ScriptsInv
<1>2. /\ j.ref \in Refs /\ jobs[j] \in Jobs /\ jobs[j] # Stopped
      /\ j.script = "publish" /\ jobs[j].at = 6
  BY <1>1, StagePlaces DEF WriteDealing, Scripts
<1>3. /\ dealingFile' = [dealingFile EXCEPT ![j.ref] = jobs[j].dealing] /\ Onward(j, jobs[j])
      /\ terminals' = terminals /\ UNCHANGED <<tender, currentRoot>>
      /\ UNCHANGED <<dealt, dealingIndex, receiptsFile, shareFile, publicFile>>
  BY DEF WriteDealing, chainVars
<1>4. /\ jobs[j].dealing \in Nat /\ jobs[j].dealing = tender[j.ref].key
      /\ tender[j.ref].state \notin {"NONE", "DRAFT"}
  BY <1>2 DEF ScriptsInv, JobsInStep, PublishStands
<1>5. /\ dealingFile'[j.ref] = jobs[j].dealing
      /\ \A r \in Refs : r # j.ref => dealingFile'[r] = dealingFile[r]
      /\ FilesTypeOK'
  BY <1>1, <1>2, <1>3, <1>4 DEF ScriptsTypeOK, FilesTypeOK
<1>6. dealingFile'[j.ref] # Unwritten
  BY <1>4, <1>5, ScriptsAssumption
<1>7. Alone(j) /\ JobsTypeOK' /\ ComesOn(j, jobs[j])
  BY <1>1, <1>2, <1>3, OnwardMoves
<1>8. jobs'[j].at = 0 \/ (jobs'[j].at = 7 /\ jobs'[j].dealing = jobs[j].dealing)
  BY <1>2, <1>7 DEF ComesOn, Stopped
<1>9. PublishStands(j)' /\ DealStands(j)' /\ CompleteStands(j)'
  BY <1>2, <1>3, <1>4, <1>6, <1>8 DEF PublishStands, DealStands, CompleteStands
<1>10. Created(j)' => Created(j)
  BY <1>2 DEF Created
<1>11. \A i \in terminals : dealingFile[i.ref] # Unwritten => dealingFile'[i.ref] # Unwritten
  BY <1>1, <1>5, <1>6, TerminalRef
<1>12. DealingsUsable'
  <2>1. \A r \in Refs : dealingFile'[r] # Unwritten =>
          tender[r].state \notin {"NONE", "DRAFT"} /\ tender[r].key = dealingFile'[r]
    BY <1>4, <1>5 DEF ScriptsInv, DealingsUsable
  <2>2. dealingIndex # Unwritten => dealingFile'[dealingIndex] # Unwritten
    <3>1. dealingIndex # Unwritten => dealingIndex \in Refs
      BY <1>1 DEF ScriptsTypeOK, FilesTypeOK
    <3> QED
      BY <3>1, <1>5, <1>6 DEF ScriptsInv, DealingsUsable
  <2> QED
    BY <1>3, <2>1, <2>2 DEF ScriptsInv, DealingsUsable
<1>13. ReceiptsTrue'
  BY <1>1, <1>3, TendersStand, ReceiptsStill DEF ScriptsInv
<1> QED
  BY <1>3, <1>5, <1>7, <1>9, <1>10, <1>11, <1>12, <1>13, FileMoveKeeps

\* The index names a dealing that is served.
LEMMA WriteIndexKeeps ==
    ASSUME ScriptsInv, NEW j \in terminals, WriteIndex(j) PROVE ScriptsInv'
<1>1. ScriptsTypeOK
  BY DEF ScriptsInv
<1>2. /\ j.ref \in Refs /\ jobs[j] \in Jobs /\ jobs[j] # Stopped
      /\ j.script = "publish" /\ jobs[j].at = 7 /\ Len(Stages(j.script)) = 7
  BY <1>1, StagePlaces DEF WriteIndex, Scripts
<1>3. /\ dealingIndex' = j.ref /\ Onward(j, jobs[j])
      /\ terminals' = terminals /\ UNCHANGED <<tender, currentRoot>>
      /\ UNCHANGED <<dealt, dealingFile, receiptsFile, shareFile, publicFile>>
  BY DEF WriteIndex, chainVars
<1>4. dealingFile[j.ref] # Unwritten
  BY <1>2 DEF ScriptsInv, JobsInStep, PublishStands
<1>5. Alone(j) /\ JobsTypeOK'
  BY <1>1, <1>2, <1>3, OnwardMoves
<1>6. jobs'[j] = Stopped
  BY <1>1, <1>2, <1>3 DEF Onward, ScriptsTypeOK, JobsTypeOK
<1>7. PublishStands(j)' /\ DealStands(j)' /\ CompleteStands(j)' /\ ~Created(j)'
  BY <1>6 DEF Stopped, PublishStands, DealStands, CompleteStands, Created
<1>8. FilesTypeOK'
  BY <1>1, <1>2, <1>3 DEF ScriptsTypeOK, FilesTypeOK
<1>9. DealingsUsable'
  BY <1>3, <1>4 DEF ScriptsInv, DealingsUsable
<1>10. ReceiptsTrue'
  BY <1>1, <1>3, TendersStand, ReceiptsStill DEF ScriptsInv
<1> QED
  BY <1>3, <1>5, <1>7, <1>8, <1>9, <1>10, FileMoveKeeps

\* The receipts are what complete-tender found on the chain.
LEMMA WriteReceiptsKeeps ==
    ASSUME ScriptsInv, NEW j \in terminals, WriteReceipts(j) PROVE ScriptsInv'
<1>1. ScriptsTypeOK
  BY DEF ScriptsInv
<1>2. /\ j.ref \in Refs /\ jobs[j] \in Jobs /\ jobs[j] # Stopped
      /\ j.script = "complete" /\ jobs[j].at = 10 /\ Len(Stages(j.script)) = 10
  BY <1>1, StagePlaces DEF WriteReceipts, Scripts
<1>3. /\ receiptsFile' = [ref |-> j.ref, index |-> jobs[j].index] /\ Onward(j, jobs[j])
      /\ terminals' = terminals /\ UNCHANGED <<tender, currentRoot>>
      /\ UNCHANGED <<dealt, dealingFile, dealingIndex, shareFile, publicFile>>
  BY DEF WriteReceipts, chainVars
<1> DEFINE t == tender[j.ref]
           index == jobs[j].index
<1>4. /\ t.state = "AWARDED" /\ t.named /\ Len(t.bids) = Len(FirmAmounts)
      /\ \A f \in Firms : OpenedWell(t, index[f], f) /\ index[f] \in t.proven
      /\ \E f \in Firms : Lowest(f) /\ t.award = index[f]
  BY <1>2 DEF ScriptsInv, JobsInStep, CompleteStands
<1>5. Alone(j) /\ JobsTypeOK'
  BY <1>1, <1>2, <1>3, OnwardMoves
<1>6. jobs'[j] = Stopped
  BY <1>1, <1>2, <1>3 DEF Onward, ScriptsTypeOK, JobsTypeOK
<1>7. PublishStands(j)' /\ DealStands(j)' /\ CompleteStands(j)' /\ ~Created(j)'
  BY <1>6 DEF Stopped, PublishStands, DealStands, CompleteStands, Created
<1>8. FilesTypeOK'
  <2>1. receiptsFile' \in [ref : Refs, index : [Firms -> Int \cup {NoIndex}]]
    BY <1>2, <1>3 DEF Jobs
  <2> QED
    BY <1>1, <1>3, <2>1 DEF ScriptsTypeOK, FilesTypeOK
<1>9. DealingsUsable'
  BY <1>1, <1>3, TendersStand, DealingsStill DEF ScriptsInv
<1>10. ReceiptsTrue'
  <2>1. \A f \in Firms : t.bids[index[f] + 1] = f /\ index[f] \in t.opened \cap t.proven
    BY <1>4 DEF OpenedWell
  <2>2. \A f \in Firms : FirmAmounts[t.bids[t.award + 1]] <= FirmAmounts[f]
    <3>1. PICK k \in Firms : Lowest(k) /\ t.award = index[k]
      BY <1>4
    <3>2. t.bids[t.award + 1] = k
      BY <2>1, <3>1
    <3>3. \A f \in Firms : FirmAmounts[k] <= FirmAmounts[f]
      BY <3>1, FirmsNumbered DEF Lowest
    <3> QED
      BY <3>2, <3>3
  <2>3. receiptsFile'.ref = j.ref /\ receiptsFile'.index = index /\ tender' = tender
    BY <1>3
  <2> QED
    BY <1>4, <2>1, <2>2, <2>3 DEF ReceiptsTrue
<1> QED
  BY <1>3, <1>5, <1>7, <1>8, <1>9, <1>10, FileMoveKeeps

\* A dealing is drawn only where no public arguments are.
LEMMA RefuseKeeps ==
    ASSUME ScriptsInv, NEW j \in terminals, RefuseSecondDealing(j) PROVE ScriptsInv'
<1>1. ScriptsTypeOK
  BY DEF ScriptsInv
<1>2. /\ j.ref \in Refs /\ jobs[j] \in Jobs /\ jobs[j] # Stopped
      /\ j.script = "deal" /\ jobs[j].at = 1
  BY <1>1, StagePlaces DEF RefuseSecondDealing, Scripts
<1>3. CASE publicFile[j.ref] = Unwritten
  <2> DEFINE job == [jobs[j] EXCEPT !.dealing = dealt']
  <2>1. /\ dealt' = dealt + 1 /\ Onward(j, job) /\ terminals' = terminals
        /\ UNCHANGED <<tender, currentRoot>>
        /\ UNCHANGED <<dealingFile, dealingIndex, receiptsFile, shareFile, publicFile>>
    BY <1>3 DEF RefuseSecondDealing, chainVars
  <2>2. dealt' \in Nat
    BY <1>1, <2>1 DEF ScriptsTypeOK, FilesTypeOK
  <2>3. job \in Jobs /\ job.at = 1 /\ job.dealing = dealt'
    BY <1>2, <2>2 DEF Jobs
  <2> HIDE DEF job
  <2>4. Alone(j) /\ JobsTypeOK' /\ ComesOn(j, job)
    BY <1>1, <1>2, <2>1, <2>3, OnwardMoves
  <2>5. jobs'[j].at = 0 \/ (jobs'[j].at = 2 /\ jobs'[j].k = 1 /\ jobs'[j].dealing = dealt')
    BY <2>3, <2>4 DEF ComesOn, Stopped
  <2>6. DealStands(j)'
    BY <1>3, <2>1, <2>2, <2>5 DEF DealStands
  <2>7. PublishStands(j)' /\ CompleteStands(j)' /\ ~Created(j)'
    BY <1>2 DEF PublishStands, CompleteStands, Created
  <2>8. FilesTypeOK'
    BY <1>1, <2>1, <2>2 DEF ScriptsTypeOK, FilesTypeOK
  <2>9. DealingsUsable' /\ ReceiptsTrue'
    BY <1>1, <2>1, TendersStand, DealingsStill, ReceiptsStill DEF ScriptsInv
  <2> QED
    BY <2>1, <2>4, <2>6, <2>7, <2>8, <2>9, FileMoveKeeps
<1>4. CASE publicFile[j.ref] # Unwritten
  BY <1>4, DyingKeeps DEF RefuseSecondDealing, chainVars, fileVars
<1> QED
  BY <1>3, <1>4

\* One more share file of the same dealing.
LEMMA WriteShareKeeps ==
    ASSUME ScriptsInv, NEW j \in terminals, WriteShare(j) PROVE ScriptsInv'
<1>1. ScriptsTypeOK
  BY DEF ScriptsInv
<1>2. /\ j.ref \in Refs /\ jobs[j] \in Jobs /\ jobs[j] # Stopped
      /\ j.script = "deal" /\ jobs[j].at = 2 /\ Turns(j.script) = CommitteeFiles
      /\ jobs[j].k \in 1 .. CommitteeFiles
  BY <1>1, StagePlaces DEF WriteShare, Scripts, Turns
<1> DEFINE k == jobs[j].k
           d == jobs[j].dealing
<1>3. /\ shareFile' = [shareFile EXCEPT ![j.ref][k] = d] /\ InTurn(j, jobs[j], CommitteeFiles)
      /\ terminals' = terminals /\ UNCHANGED <<tender, currentRoot>>
      /\ UNCHANGED <<dealt, dealingFile, dealingIndex, receiptsFile, publicFile>>
  BY DEF WriteShare, chainVars
<1>4. /\ d \in Nat /\ publicFile[j.ref] = Unwritten
      /\ \A i \in 1 .. CommitteeFiles : i < k => shareFile[j.ref][i] = d
  BY <1>2 DEF ScriptsInv, JobsInStep, DealStands
<1>5. /\ FilesTypeOK'
      /\ shareFile'[j.ref] = [shareFile[j.ref] EXCEPT ![k] = d]
      /\ \A r \in Refs : r # j.ref => shareFile'[r] = shareFile[r]
  <2>1. shareFile \in [Refs -> [1 .. CommitteeFiles -> Nat \cup {Unwritten}]]
    BY <1>1 DEF ScriptsTypeOK, FilesTypeOK
  <2>2. /\ shareFile' \in [Refs -> [1 .. CommitteeFiles -> Nat \cup {Unwritten}]]
        /\ shareFile'[j.ref] = [shareFile[j.ref] EXCEPT ![k] = d]
        /\ \A r \in Refs : r # j.ref => shareFile'[r] = shareFile[r]
    BY <1>2, <1>3, <1>4, <2>1
  <2> QED
    BY <1>1, <1>3, <2>2 DEF ScriptsTypeOK, FilesTypeOK
<1>6. \A i \in 1 .. CommitteeFiles : i <= k => shareFile'[j.ref][i] = d
  <2>1. shareFile[j.ref] \in [1 .. CommitteeFiles -> Nat \cup {Unwritten}]
    BY <1>1, <1>2 DEF ScriptsTypeOK, FilesTypeOK
  <2>2. shareFile'[j.ref][k] = d
    BY <1>2, <1>5, <2>1
  <2>3. \A i \in 1 .. CommitteeFiles : i # k => shareFile'[j.ref][i] = shareFile[j.ref][i]
    BY <1>5, <2>1
  <2>4. \A i \in 1 .. CommitteeFiles : i <= k => i < k \/ i = k
    BY <1>2
  <2> HIDE DEF d, k
  <2> QED
    BY <1>4, <2>2, <2>3, <2>4
<1>7. /\ Alone(j) /\ JobsTypeOK'
      /\ \/ k = CommitteeFiles /\ ComesOn(j, jobs[j])
         \/ /\ k < CommitteeFiles /\ jobs'[j].at = 2 /\ jobs'[j].k = k + 1
            /\ jobs'[j].dealing = d
  <2>1. k <= CommitteeFiles
    BY <1>2
  <2> QED
    BY <1>1, <1>2, <1>3, <2>1, InTurnMoves
<1>8. DealStands(j)'
  <2>1. CASE jobs'[j].at = 0
    BY <2>1 DEF DealStands
  <2>2. CASE k = CommitteeFiles /\ jobs'[j].at = 3 /\ jobs'[j].dealing = d
    BY <1>2, <1>3, <1>4, <1>6, <2>2 DEF DealStands
  <2>3. CASE k < CommitteeFiles /\ jobs'[j].at = 2 /\ jobs'[j].k = k + 1 /\ jobs'[j].dealing = d
    BY <1>2, <1>3, <1>4, <1>6, <2>3 DEF DealStands
  <2> QED
    BY <1>2, <1>7, <2>1, <2>2, <2>3 DEF ComesOn, Stopped
<1>9. PublishStands(j)' /\ CompleteStands(j)' /\ ~Created(j)'
  BY <1>2 DEF PublishStands, CompleteStands, Created
<1>10. \A i \in terminals \ {j} : i.script = "deal" => shareFile'[i.ref] = shareFile[i.ref]
  BY <1>1, <1>2, <1>5, DealTerminals, TerminalRef
<1>11. DealingsUsable'
  BY <1>3, <1>4, <1>5 DEF ScriptsInv, DealingsUsable
<1>12. ReceiptsTrue'
  BY <1>1, <1>3, TendersStand, ReceiptsStill DEF ScriptsInv
<1> QED
  BY <1>3, <1>5, <1>7, <1>8, <1>9, <1>10, <1>11, <1>12, FileMoveKeeps

\* The public arguments are of the dealing that all the share files are of.
LEMMA WritePublicKeeps ==
    ASSUME ScriptsInv, NEW j \in terminals, WritePublic(j) PROVE ScriptsInv'
<1>1. ScriptsTypeOK
  BY DEF ScriptsInv
<1>2. /\ j.ref \in Refs /\ jobs[j] \in Jobs /\ jobs[j] # Stopped
      /\ j.script = "deal" /\ jobs[j].at = 3 /\ Len(Stages(j.script)) = 3
  BY <1>1, StagePlaces DEF WritePublic, Scripts
<1>3. /\ publicFile' = [publicFile EXCEPT ![j.ref] = jobs[j].dealing] /\ Onward(j, jobs[j])
      /\ terminals' = terminals /\ UNCHANGED <<tender, currentRoot>>
      /\ UNCHANGED <<dealt, dealingFile, dealingIndex, receiptsFile, shareFile>>
  BY DEF WritePublic, chainVars
<1>4. /\ jobs[j].dealing \in Nat
      /\ \A i \in 1 .. CommitteeFiles : shareFile[j.ref][i] = jobs[j].dealing
  BY <1>2 DEF ScriptsInv, JobsInStep, DealStands
<1>5. /\ FilesTypeOK' /\ publicFile'[j.ref] = jobs[j].dealing
      /\ \A r \in Refs : r # j.ref => publicFile'[r] = publicFile[r]
  BY <1>1, <1>2, <1>3, <1>4 DEF ScriptsTypeOK, FilesTypeOK
<1>6. Alone(j) /\ JobsTypeOK'
  BY <1>1, <1>2, <1>3, OnwardMoves
<1>7. jobs'[j] = Stopped
  BY <1>1, <1>2, <1>3 DEF Onward, ScriptsTypeOK, JobsTypeOK
<1>8. PublishStands(j)' /\ DealStands(j)' /\ CompleteStands(j)' /\ ~Created(j)'
  BY <1>7 DEF Stopped, PublishStands, DealStands, CompleteStands, Created
<1>9. \A i \in terminals \ {j} : i.script = "deal" => publicFile'[i.ref] = publicFile[i.ref]
  BY <1>1, <1>2, <1>5, DealTerminals, TerminalRef
<1>10. DealingsUsable'
  BY <1>3, <1>4, <1>5 DEF ScriptsInv, DealingsUsable
<1>11. ReceiptsTrue'
  BY <1>1, <1>3, TendersStand, ReceiptsStill DEF ScriptsInv
<1> QED
  BY <1>3, <1>5, <1>6, <1>8, <1>9, <1>10, <1>11, FileMoveKeeps

-----------------------------------------------------------------------------
(* Everybody else, and all together.                                       *)

\* A step of nobody's terminal.
LEMMA EnvironmentKeeps ==
    ASSUME ScriptsInv, UNCHANGED <<terminals, jobs, fileVars>>, ChainTypeOK',
           TendersAdvance, KeysStand
    PROVE  ScriptsInv'
<1>1. ScriptsTypeOK /\ ScriptsTypeOK'
  BY DEF ScriptsInv, ScriptsTypeOK, JobsTypeOK, FilesTypeOK, fileVars
<1>2. OneCreator'
  BY <1>1, TerminalRef DEF ScriptsInv, OneCreator, Created, TendersAdvance, Advances
<1>3. ASSUME NEW i \in terminals
      PROVE  PublishStands(i)' /\ DealStands(i)' /\ CompleteStands(i)'
  <2>1. i.ref \in Refs
    BY <1>1, TerminalRef
  <2>2. PublishStands(i)' /\ CompleteStands(i)'
    BY <1>1, <2>1, PublishStill, CompleteStill DEF ScriptsInv, JobsInStep, KeysStand, fileVars
  <2>3. DealStands(i)'
    BY DEF ScriptsInv, JobsInStep, DealStands, fileVars
  <2> QED
    BY <2>2, <2>3
<1>4. DealingsUsable' /\ ReceiptsTrue'
  BY <1>1, DealingsStill, ReceiptsStill DEF ScriptsInv, fileVars
<1> QED
  BY <1>1, <1>2, <1>3, <1>4 DEF ScriptsInv, JobsInStep

\* The clock, other bidders, other closers and the council.
LEMMA OthersKeep ==
    ASSUME ScriptsInv,
           (\E r \in Refs : Clock(r) \/ OutsiderBids(r) \/ OutsiderCloses(r)) \/ CouncilRevokes
    PROVE  ScriptsInv'
<1>1. ScriptsTypeOK /\ currentRoot \in Roots
  BY DEF ScriptsInv, ScriptsTypeOK, ChainTypeOK
<1>2. CASE CouncilRevokes
  <2>1. ChainTypeOK'
    BY <1>1, <1>2 DEF CouncilRevokes, ScriptsTypeOK, ChainTypeOK, Roots
  <2> QED
    BY <1>2, <2>1, TendersStand, EnvironmentKeeps DEF CouncilRevokes
<1>3. ASSUME NEW r \in Refs, NEW t \in TenderRecords, Advances(tender[r], t),
             t.key = tender[r].key, tender' = [tender EXCEPT ![r] = t],
             UNCHANGED <<terminals, jobs, currentRoot, fileVars>>
      PROVE  ScriptsInv'
  BY <1>1, <1>3, TenderSet, EnvironmentKeeps
<1>4. ASSUME NEW r \in Refs, Clock(r) PROVE ScriptsInv'
  <2>1. tender[r] \in TenderRecords
    BY <1>1 DEF ScriptsTypeOK, ChainTypeOK
  <2>2. PICK clock \in {"bidding", "over"} : tender' = [tender EXCEPT ![r].clock = clock]
    BY <1>4 DEF Clock
  <2> DEFINE t == [tender[r] EXCEPT !.clock = clock]
  <2>3. t \in TenderRecords /\ Advances(tender[r], t) /\ t.key = tender[r].key
    BY <2>1 DEF TenderRecords, Advances
  <2>4. tender' = [tender EXCEPT ![r] = t]
    BY <2>2, <1>1 DEF ScriptsTypeOK, ChainTypeOK
  <2> HIDE DEF t
  <2> QED
    BY <1>3, <1>4, <2>3, <2>4 DEF Clock
<1>5. ASSUME NEW r \in Refs, OutsiderBids(r) PROVE ScriptsInv'
  <2>1. tender[r] \in TenderRecords /\ tender[r].state = "ACTIVE"
    BY <1>1, <1>5 DEF ScriptsTypeOK, ChainTypeOK, OutsiderBids, IsBiddingOpen
  <2> DEFINE t == [tender[r] EXCEPT !.bids = Append(@, Outsider)]
  <2>2. Append(tender[r].bids, Outsider) \in Seq(Firms \cup {Outsider})
    <3>1. tender[r].bids \in Seq(Firms \cup {Outsider})
      BY <2>1 DEF TenderRecords
    <3> QED
      BY <3>1, AppendProperties
  <2>3. t \in TenderRecords /\ Advances(tender[r], t) /\ t.key = tender[r].key
    BY <2>1, <2>2 DEF TenderRecords, Advances
  <2>4. tender' = [tender EXCEPT ![r] = t]
    BY <1>5, <1>1 DEF OutsiderBids, ScriptsTypeOK, ChainTypeOK
  <2> HIDE DEF t
  <2> QED
    BY <1>3, <1>5, <2>3, <2>4 DEF OutsiderBids
<1>6. ASSUME NEW r \in Refs, OutsiderCloses(r) PROVE ScriptsInv'
  <2>1. tender[r] \in TenderRecords /\ tender[r].state = "ACTIVE"
    BY <1>1, <1>6 DEF ScriptsTypeOK, ChainTypeOK, OutsiderCloses, Closable
  <2> DEFINE t == Closed(tender[r])
  <2>2. t \in TenderRecords /\ Advances(tender[r], t) /\ t.key = tender[r].key
    BY <1>1, <2>1 DEF TenderRecords, Advances, Closed
  <2>3. tender' = [tender EXCEPT ![r] = t]
    BY <1>6 DEF OutsiderCloses
  <2> HIDE DEF t
  <2> QED
    BY <1>3, <1>6, <2>2, <2>3 DEF OutsiderCloses
<1> QED
  BY <1>2, <1>4, <1>5, <1>6

\* Every step of the tender scripts keeps the invariant.
LEMMA ScriptsStep == ASSUME ScriptsInv, ScriptsNext PROVE ScriptsInv'
<1>1. ASSUME NEW j \in terminals,
             \/ StartScript(j) \/ InterruptScript(j)
             \/ EnsureRoot(j) \/ CreateTender(j) \/ StoreRules(j) \/ DealKey(j) \/ ActivateTender(j)
             \/ WriteDealing(j) \/ WriteIndex(j)
             \/ ReadTender(j) \/ WaitForBidding(j) \/ SubmitBid(j) \/ ReadIndex(j)
             \/ RevokeThirdFirm(j) \/ CloseTender(j) \/ OpenBid(j) \/ CheckDeadlineRoot(j)
             \/ SubmitStatusProof(j) \/ RecordAward(j) \/ SubmitIdentityProof(j) \/ WriteReceipts(j)
             \/ RefuseSecondDealing(j) \/ WriteShare(j) \/ WritePublic(j)
      PROVE  ScriptsInv'
  BY <1>1, StartScriptKeeps, PassingStagesKeep, CreateTenderKeeps, StoreRulesKeeps, DealKeyKeeps,
     ActivateTenderKeeps, WriteDealingKeeps, WriteIndexKeeps, SubmitBidKeeps, ReadIndexKeeps,
     CloseTenderKeeps, OpenBidKeeps, StatusKeeps, AwardKeeps, IdentityKeeps, WriteReceiptsKeeps,
     RefuseKeeps, WriteShareKeeps, WritePublicKeeps
<1> QED
  BY <1>1, OthersKeep DEF ScriptsNext

\* A step of the tender scripts leaves the ceremony alone.
LEMMA CeremonyStill == CeremonyInv /\ UNCHANGED ceremonyVars => CeremonyInv'
<1> SUFFICES ASSUME CeremonyInv, UNCHANGED ceremonyVars PROVE CeremonyInv'
  OBVIOUS
<1>1. Chains' = Chains
  BY DEF ceremonyVars, files, Chains, ZkeyChains, RecordedChains
<1> QED
  BY <1>1, CopiedInPlace
     DEF ceremonyVars, files, CeremonyInv, CeremonyTypeOK, CommandInStep, BeaconApplied,
         ParametersInTurn, FinalizedFiles, Finalized

\* A step of the ceremony leaves the tender scripts alone.
LEMMA ScriptsStill == ScriptsInv /\ UNCHANGED scriptVars => ScriptsInv'
<1> SUFFICES ASSUME ScriptsInv, UNCHANGED scriptVars PROVE ScriptsInv'
  OBVIOUS
<1>1. ChainTypeOK'
  BY DEF scriptVars, chainVars, ScriptsInv, ScriptsTypeOK, ChainTypeOK
<1> QED
  BY <1>1, TendersStand, EnvironmentKeeps DEF scriptVars, chainVars

\* The invariant of the ceremony holds in every reachable state.
THEOREM CeremonyInvariant == OperatorSpec => []CeremonyInv
<1>1. OperatorInit => CeremonyInv
  BY CeremonyStarts DEF OperatorInit
<1>2. CeremonyInv /\ [OperatorNext]_operatorVars => CeremonyInv'
  BY CeremonyStep, CeremonyStill DEF OperatorNext, operatorVars
<1> QED
  BY <1>1, <1>2, PTL DEF OperatorSpec

\* The invariant of the tender scripts holds in every reachable state.
THEOREM ScriptsInvariant == OperatorSpec => []ScriptsInv
<1>1. OperatorInit => ScriptsInv
  BY ScriptsStart DEF OperatorInit
<1>2. ScriptsInv /\ [OperatorNext]_operatorVars => ScriptsInv'
  BY ScriptsStep, ScriptsStill DEF OperatorNext, operatorVars
<1> QED
  BY <1>1, <1>2, PTL DEF OperatorSpec

\* ceremony-verify accepts exactly the transcript that is the history of the parameters
\* in use, whatever was interrupted, run again, recompiled or started over.
THEOREM TranscriptsAreHistory == OperatorSpec => []TranscriptIsHistory
<1> QED
  BY CeremonyInvariant, CeremonyInvSuffices, PTL

\* What the scripts leave for the committee is usable, whatever was interrupted and
\* whoever else published.
THEOREM DealingsAreUsable == OperatorSpec => []DealingsUsable
<1>1. ScriptsInv => DealingsUsable
  BY DEF ScriptsInv
<1> QED
  BY <1>1, ScriptsInvariant, PTL

\* The receipts that complete-tender leaves are true, whoever else bid, opened or closed.
THEOREM ReceiptsAreTrue == OperatorSpec => []ReceiptsTrue
<1>1. ScriptsInv => ReceiptsTrue
  BY DEF ScriptsInv
<1> QED
  BY <1>1, ScriptsInvariant, PTL

================================================================================
