------------------------------ MODULE Control ------------------------------
(***************************************************************************)
(* What the tender contracts see of the outside: block time, the pause     *)
(* switch of Governance.sol, and the write-once table of verifier versions *)
(* of EligibilityVerifier.sol.  Every other contract reads these three and *)
(* none of them writes them.                                               *)
(*                                                                         *)
(* This is the abstract specification of the council's control plane:      *)
(* Governance.tla says how proposals drive it and is checked (and proved)  *)
(* to implement ControlSpec.                                               *)
(***************************************************************************)
EXTENDS Naturals

CONSTANTS
    Council,      \* the addresses isCouncilMember answers true for
    Versions,     \* circuit versions a tender can pin
    Impls,        \* addresses that can be registered as a verifier
    NoImpl,       \* the zero address: no verifier registered
    MaxTime       \* bound: the last block time of a behaviour

ASSUME ControlAssumption ==
    /\ NoImpl \notin Impls
    /\ MaxTime \in Nat \ {0}

VARIABLES
    now,          \* block.timestamp
    paused,       \* Governance.paused
    verifier      \* EligibilityVerifier._versions[v].impl

controlVars == <<now, paused, verifier>>

ControlTypeOK ==
    /\ now \in 1 .. MaxTime
    /\ paused \in BOOLEAN
    /\ verifier \in [Versions -> Impls \cup {NoImpl}]

ControlInit ==
    /\ now = 1
    /\ paused = FALSE
    /\ verifier = [v \in Versions |-> NoImpl]

-----------------------------------------------------------------------------

\* onlyCouncil: any one of the members.
IsCouncilMember(m) == m \in Council

\* isVersionRegistered(v).
VersionRegistered(v) == verifier[v] # NoImpl

\* The timestamp of the next block is later than this one's.
Tick ==
    /\ now < MaxTime
    /\ now' = now + 1
    /\ UNCHANGED <<paused, verifier>>

\* The council throws the pause switch one way or the other.
TogglePause ==
    /\ paused' = ~paused
    /\ UNCHANGED <<now, verifier>>

\* A version gets its verifier, once.
ActivateVersion(v, impl) ==
    /\ ~VersionRegistered(v)
    /\ verifier' = [verifier EXCEPT ![v] = impl]
    /\ UNCHANGED <<now, paused>>

ControlNext ==
    \/ Tick
    \/ TogglePause
    \/ \E v \in Versions, impl \in Impls : ActivateVersion(v, impl)

ControlSpec == ControlInit /\ [][ControlNext]_controlVars

=============================================================================
