------------------------ MODULE TemperatureCheckForm ------------------------
(***************************************************************************)
(* The form that creates a temperature check.  What it leads to, a         *)
(* proposal or an election, follows the parameter set that is chosen; what *)
(* a single choice offers depends on the badge of the connected account.   *)
(* The form is validated once when it is submitted and once more when the  *)
(* manifest is built, by two schemas.  Texts are taken to be valid.        *)
(***************************************************************************)
EXTENDS Unread, Naturals, FiniteSets

CONSTANTS
  Profiles,      \* the parameter sets: [process, retired at first], by identifier
  DefaultProfile,
  MaxOptions,    \* the options of a proposal, Abstain included
  MaxPick,       \* the most a voter may select
  MaxCandidates,
  MaxChanges     \* bound: changes of the form

Processes == {"Standard", "MajorityJudgment"}

ASSUME FormAssumption ==
  /\ DefaultProfile \in DOMAIN Profiles
  /\ \A p \in DOMAIN Profiles : Profiles[p] \in Processes
  /\ {MaxOptions, MaxPick, MaxCandidates} \subseteq Nat
  /\ MaxOptions > 2 /\ MaxPick > 1

VARIABLES
  retired,       \* the parameter sets that are retired
  listed,        \* the ones the page lists as active, or None
  operator,      \* does the connected account hold the badge?
  isAdmin,       \* what the page knows of that
  entry,         \* the form: [profile, process, options, pick, abstain, candidates]
  asked,         \* per process, the creation under way, or None
  created,       \* what the ledger has created
  reported,      \* has the page been left for a creation?
  unbuilt,       \* the inputs that were validated and could not be built
  changes

newFormVars == <<retired, listed, operator, isAdmin, entry, asked, created, reported, unbuilt,
                 changes>>

FormInit ==
  /\ retired = {} /\ listed = None
  /\ operator \in BOOLEAN /\ isAdmin = FALSE
  /\ entry = [profile |-> DefaultProfile, process |-> "Standard", options |-> 2, pick |-> 1,
              abstain |-> TRUE, candidates |-> 2]
  /\ asked = [p \in Processes |-> None]
  /\ created = {} /\ reported = FALSE /\ unbuilt = {}
  /\ changes = 0

PageOpen == ~reported

-----------------------------------------------------------------------------
(* What happens around the form *)

\* The process follows the chosen profile for as long as it is listed.
ProcessOf(profile, sets) ==
  IF sets # None /\ profile \in sets THEN Profiles[profile] ELSE "Standard"

ListProfiles ==
  /\ PageOpen
  /\ \E sets \in {DOMAIN Profiles \ retired, None} :
       /\ listed' = sets
       /\ entry' = [entry EXCEPT !.process = ProcessOf(entry.profile, sets)]
  /\ listed' # listed
  /\ UNCHANGED <<retired, operator, isAdmin, asked, created, reported, unbuilt, changes>>

\* Until the badge of the account is found it counts as an ordinary one.
LookUpBadge ==
  /\ PageOpen
  /\ isAdmin # operator /\ isAdmin' = operator
  /\ UNCHANGED <<retired, listed, operator, entry, asked, created, reported, unbuilt, changes>>

SwitchToOther ==
  /\ changes < MaxChanges /\ changes' = changes + 1
  /\ operator' = ~operator /\ isAdmin' = FALSE
  /\ UNCHANGED <<retired, listed, entry, asked, created, reported, unbuilt>>

RetireProfile ==
  /\ \E p \in DOMAIN Profiles \ (retired \cup {DefaultProfile}) : retired' = retired \cup {p}
  /\ UNCHANGED <<listed, operator, isAdmin, entry, asked, created, reported, unbuilt, changes>>

-----------------------------------------------------------------------------
(* The fields *)

Changed(next) ==
  /\ PageOpen
  /\ changes < MaxChanges /\ changes' = changes + 1
  /\ entry' = next /\ entry' # entry
  /\ UNCHANGED <<retired, listed, operator, isAdmin, asked, created, reported, unbuilt>>

SelectProfile ==
  /\ listed # None
  /\ \E p \in listed :
       Changed([entry EXCEPT !.profile = p, !.process = ProcessOf(p, listed)])

\* Abstain takes the last place of a single choice.
WithAbstain(e, admin) == e.pick = 1 /\ (e.abstain \/ ~admin)

AddOption ==
  /\ entry.process = "Standard"
  /\ entry.options + (IF WithAbstain(entry, isAdmin) THEN 1 ELSE 0) < MaxOptions
  /\ Changed([entry EXCEPT !.options = @ + 1])

\* No more can be selected than there are options.
RemoveOption ==
  /\ entry.process = "Standard"
  /\ entry.options > 2
  /\ Changed([entry EXCEPT !.options = @ - 1,
                           !.pick = IF @ > entry.options - 1 THEN entry.options - 1 ELSE @])

\* A number above MaxPick is marked as wrong, and kept.
ChoosePick ==
  /\ entry.process = "Standard"
  /\ \E n \in 1 .. MaxOptions :
       Changed([entry EXCEPT !.pick = IF n > entry.options THEN entry.options ELSE n])

TickAbstain ==
  /\ entry.process = "Standard"
  /\ entry.pick = 1 /\ isAdmin
  /\ Changed([entry EXCEPT !.abstain = ~@])

ChangeCandidates ==
  /\ entry.process = "MajorityJudgment"
  /\ \/ entry.candidates < MaxCandidates /\ Changed([entry EXCEPT !.candidates = @ + 1])
     \/ entry.candidates > 1 /\ Changed([entry EXCEPT !.candidates = @ - 1])

-----------------------------------------------------------------------------
(* Submission *)

\* TemperatureCheckFormSchema, of the form as it will be used: only an operator can do
\* without Abstain.
\* Mutant: the form is validated as it was entered.
ValidAsEntered(e, admin) ==
  IF e.process = "Standard"
  THEN /\ e.options \in 2 .. MaxOptions
       /\ e.options + (IF e.pick = 1 /\ e.abstain THEN 1 ELSE 0) <= MaxOptions
  ELSE e.candidates \in 1 .. MaxCandidates

Valid(e, admin) ==
  IF e.process = "Standard"
  THEN /\ e.options \in 2 .. MaxOptions
       /\ e.options + (IF WithAbstain(e, admin) THEN 1 ELSE 0) <= MaxOptions
  ELSE e.candidates \in 1 .. MaxCandidates

\* Mutant: Abstain goes by the box alone.
FollowUpByBox(e, admin) ==
  IF e.process = "Standard"
  THEN [profile |-> e.profile, process |-> "Standard", pick |-> e.pick,
        options |-> e.options + (IF e.pick = 1 /\ e.abstain THEN 1 ELSE 0),
        abstain |-> e.pick = 1 /\ e.abstain]
  ELSE [profile |-> e.profile, process |-> "MajorityJudgment", candidates |-> e.candidates]

FollowUp(e, admin) ==
  IF e.process = "Standard"
  THEN [profile |-> e.profile, process |-> "Standard", pick |-> e.pick,
        options |-> e.options + (IF WithAbstain(e, admin) THEN 1 ELSE 0),
        abstain |-> WithAbstain(e, admin)]
  ELSE [profile |-> e.profile, process |-> "MajorityJudgment", candidates |-> e.candidates]

\* What the manifest's own schema lets through.
Buildable(input) ==
  \/ input.process = "Standard" /\ input.options \in 2 .. MaxOptions /\ input.pick \in 1 .. MaxPick
  \/ input.process = "MajorityJudgment" /\ input.candidates \in 1 .. MaxCandidates

\* The button waits for the creation of its own process only.
SubmitForm ==
  /\ PageOpen
  /\ listed # None /\ listed # {}
  /\ asked[entry.process] = None
  /\ entry.process = "MajorityJudgment" => isAdmin
  /\ Valid(entry, isAdmin)
  /\ LET input == FollowUp(entry, isAdmin) IN
     IF Buildable(input)
     THEN /\ asked' = [asked EXCEPT ![entry.process] = [input |-> input, operator |-> operator]]
          /\ UNCHANGED unbuilt
     ELSE unbuilt' = unbuilt \cup {input} /\ UNCHANGED asked
  /\ UNCHANGED <<retired, listed, operator, isAdmin, entry, created, reported, changes>>

\* The contract creates the check; the page goes there unless it shows the other process.
\* The event may not be found, which the form reports as a failure to create.
Create(p) ==
  /\ asked[p] # None
  /\ asked[p].input.profile \notin retired
  /\ Profiles[asked[p].input.profile] = p
  /\ p = "MajorityJudgment" => asked[p].operator
  /\ created' = created \cup {asked[p]}
  /\ \/ reported' = (reported \/ entry.process = p)
     \/ UNCHANGED reported
  /\ asked' = [asked EXCEPT ![p] = None]
  /\ UNCHANGED <<retired, listed, operator, isAdmin, entry, unbuilt, changes>>

NotCreated(p) ==
  /\ asked[p] # None
  /\ asked' = [asked EXCEPT ![p] = None]
  /\ UNCHANGED <<retired, listed, operator, isAdmin, entry, created, reported, unbuilt, changes>>

NewFormNext ==
  \/ ListProfiles \/ LookUpBadge \/ SwitchToOther \/ RetireProfile
  \/ SelectProfile \/ AddOption \/ RemoveOption \/ ChoosePick \/ TickAbstain \/ ChangeCandidates
  \/ SubmitForm
  \/ \E p \in Processes : Create(p) \/ NotCreated(p)

NewFormSpec == FormInit /\ [][NewFormNext]_newFormVars

-----------------------------------------------------------------------------
(* Properties *)

\* A form that was validated can be built: the two schemas disagree about nothing but a
\* number of selections above MaxPick, whatever was ticked, added, removed and switched
\* before.
ValidFormsAreBuilt == \A input \in unbuilt : input.process = "Standard" /\ input.pick > MaxPick

\* A single choice that an account without the badge has created offers Abstain ("Only an
\* owner-badge account can remove it"), even when an operator had unticked it in the same
\* form before the account was switched.
AbstainUnlessOperator ==
  \A c \in created :
    c.input.process = "Standard" /\ c.input.pick = 1 /\ ~c.operator => c.input.abstain

\* What is created is what the form promised, and what the form accepts can be created.
FormsAreHonoured == ValidFormsAreBuilt /\ AbstainUnlessOperator
=============================================================================
