-------------------------- MODULE BindingRegister --------------------------
(***************************************************************************)
(* What the canonical repository promises its callers: a register that     *)
(* names at most one repository, moves one version at a time, and takes    *)
(* each logical operation at most once (docs/canonical-development-        *)
(* repository.md, "Invariants").                                           *)
(***************************************************************************)
EXTENDS Integers

CONSTANTS
    Targets,     \* repositories the register may name
    Operations,  \* operationIds callers may use
    NoTarget     \* the register before the first promotion

VARIABLES
    target,   \* the repository development goes to
    version,  \* how many times it has been moved
    applied   \* the operations that moved it

vars == <<target, version, applied>>

Init ==
    /\ target = NoTarget
    /\ version = 0
    /\ applied = {}

Move(op, repository) ==
    /\ op \notin applied
    /\ target' = repository
    /\ version' = version + 1
    /\ applied' = applied \cup {op}

Next == \E op \in Operations, repository \in Targets : Move(op, repository)

Spec == Init /\ [][Next]_vars
=============================================================================
