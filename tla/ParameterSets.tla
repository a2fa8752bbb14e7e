---------------------------- MODULE ParameterSets ----------------------------
(***************************************************************************)
(* The registry of named governance parameter sets: versioned, updatable   *)
(* and retirable, with the reserved identifier "default".                  *)
(*                                                                         *)
(* A stage's quorum, approval threshold and grade floor are one rule;      *)
(* SoundRules are the rules within the limits the contract asserts (quorum *)
(* positive, threshold in (0, 1]).  Labels are left out.                   *)
(***************************************************************************)
EXTENDS KeyValueStore

CONSTANTS
  SetIds,      \* well-formed parameter set identifiers
  Default,     \* DEFAULT_PARAMETER_SET_ID
  Rules,
  SoundRules,
  Inputs,      \* the parameters the owner may submit
  MaxVersion   \* u32::MAX

Stage == [days : Nat, rule : Rules]

Standard == [variant : {"Standard"}, check : Stage, proposal : Stage]

MajorityJudgment ==
  [variant : {"MajorityJudgment"}, check : Stage, election : Stage, rerun : Stage,
   reserveDays : Nat]

Parameters == Standard \cup MajorityJudgment

ASSUME RegistryAssumption ==
  /\ Default \in SetIds
  /\ SoundRules \subseteq Rules
  /\ Inputs \subseteq Parameters
  /\ MaxVersion \in Nat \ {0}

ParameterSet == [version : 1..MaxVersion, retired : BOOLEAN, parameters : Parameters]

ASSUME NoneIsNoSet == None \notin ParameterSet

VARIABLE registry

RegistryType == registry \in [SetIds -> ParameterSet \cup {None}]

-----------------------------------------------------------------------------
IsStandard(p) == p.variant = "Standard"

SoundStage(s) == s.days > 0 /\ s.rule \in SoundRules

\* A rerun lasts as long as its own parameter says, under the rules of round 1.
ValidParameters(p) ==
  /\ SoundStage(p.check)
  /\ IF IsStandard(p)
     THEN SoundStage(p.proposal)
     ELSE /\ SoundStage(p.election)
          /\ SoundStage(p.rerun)
          /\ p.rerun.rule = p.election.rule
          /\ p.reserveDays > 0

NewSet(p) == [version |-> 1, retired |-> FALSE, parameters |-> p]

RegistryInit ==
  \E p \in Inputs :
    /\ ValidParameters(p) /\ IsStandard(p)
    /\ registry = [id \in SetIds |-> IF id = Default THEN NewSet(p) ELSE None]

\* resolve_parameter_set: what a new consultation is held under.
Selectable(id) == registry[id] # None /\ ~registry[id].retired

Resolved(id) ==
  [id |-> id, version |-> registry[id].version, parameters |-> registry[id].parameters]

AddSet(id, p) ==
  /\ ValidParameters(p)
  /\ registry[id] = None
  /\ registry' = [registry EXCEPT ![id] = NewSet(p)]

UpdatedKeepingVersion(s, p) == [s EXCEPT !.parameters = p]  \* mutant: no new version

Updated(s, p) == [version |-> s.version + 1, retired |-> s.retired, parameters |-> p]

UpdateSet(id, p) ==
  /\ ValidParameters(p)
  /\ Selectable(id)
  /\ registry[id].parameters.variant = p.variant
  /\ id = Default => IsStandard(p)
  /\ registry[id].version < MaxVersion
  /\ registry' = [registry EXCEPT ![id] = Updated(@, p)]

RetireSetAny(id) ==  \* mutant: the default may be retired
  /\ Selectable(id)
  /\ registry' = [registry EXCEPT ![id].retired = TRUE]

RetireSet(id) ==
  /\ id # Default
  /\ Selectable(id)
  /\ registry' = [registry EXCEPT ![id].retired = TRUE]
=============================================================================
