-------------------------- MODULE ParameterEditor --------------------------
(***************************************************************************)
(* The admin panel: a form for each active parameter set and one to add a  *)
(* set, filled from a copy of the registry.  Several operators edit at a   *)
(* time; a save writes the whole set.  The registry itself is modelled in  *)
(* ParameterSets; a stage's days, quorum and threshold are one value here. *)
(***************************************************************************)
EXTENDS Unread, Naturals

CONSTANTS
  Admins, Sets, DefaultSet,
  Values,        \* what the fields of a stage may say
  Badges,        \* the badge each operator's account holds at first
  BlankValue,    \* what the empty form says
  MaxVersions,   \* bound: versions of a set
  MaxHandovers,  \* bound: transfers of a badge
  MaxEdits,      \* bound: entries typed
  MaxRequests    \* bound: transactions asked for

VARIABLES
  sets,      \* the registry: [process, version, retired, check, vote, rerun], or None
  badge,     \* the badge an operator's account holds: "NonFungible", "Fungible" or None
  copy,      \* per operator, the registry as read, or None
  editor,    \* per operator and set: [base, form, touched], or None
  adding,    \* per operator, the form that adds a set: [id, form]
  sent,      \* per operator, the transactions under way
  handovers,
  edits, requests

editorVars == <<sets, badge, copy, editor, adding, sent, handovers, edits, requests>>

Fields == {"check", "proposal", "election"}
ProcessTypes == {"Standard", "MajorityJudgment"}
FormValues == [process : ProcessTypes, check : Values, proposal : Values, election : Values]
RegisteredSet == [process : ProcessTypes, check : Values, vote : Values,
                  rerun : Values \cup {None}, version : Nat, retired : BOOLEAN]
SetEditor == [base : Nat, form : FormValues, touched : SUBSET Fields]

ASSUME EditorAssumption ==
  /\ DefaultSet \in Sets /\ BlankValue \in Values
  /\ None \notin RegisteredSet /\ None \notin SetEditor

EmptyForm == [process |-> "Standard", check |-> BlankValue, proposal |-> BlankValue,
              election |-> BlankValue]

\* The field of the form that holds the rules of the second stage.
Second(process) == IF process = "Standard" THEN "proposal" ELSE "election"

\* Mutant: the second stage of an election is forgotten.
ToFormValuesPartly(s) ==
  [EmptyForm EXCEPT !.process = s.process, !.check = s.check,
                    !.proposal = IF s.process = "Standard" THEN s.vote ELSE @]

ToFormValues(s) ==
  [EmptyForm EXCEPT !.process = s.process, !.check = s.check, ![Second(s.process)] = s.vote]

\* The rerun has no fields of its own.
ToInput(f) ==
  [process |-> f.process, check |-> f.check, vote |-> f[Second(f.process)],
   rerun |-> IF f.process = "Standard" THEN None ELSE f.election]

Active(registered, s) == registered[s] # None /\ ~registered[s].retired

NewEditor(r) == [base |-> r.version, form |-> ToFormValues(r), touched |-> {}]

NewVersion(input, n) ==
  [process |-> input.process, check |-> input.check, vote |-> input.vote,
   rerun |-> input.rerun, version |-> n, retired |-> FALSE]

FirstVersion(input) == NewVersion(input, 1)

NoEditors == [s \in Sets |-> None]

EditorInit ==
  /\ \E v \in Values, others \in {"None", "MajorityJudgment"} :
       sets = [s \in Sets |->
                 IF s = DefaultSet THEN FirstVersion([process |-> "Standard", check |-> v,
                                                      vote |-> v, rerun |-> None])
                 ELSE IF others = "None" THEN None
                 ELSE FirstVersion([process |-> others, check |-> v, vote |-> v, rerun |-> v])]
  /\ badge = Badges
  /\ copy = [a \in Admins |-> None]
  /\ editor = [a \in Admins |-> NoEditors]
  /\ adding = [a \in Admins |-> [id |-> None, form |-> EmptyForm]]
  /\ sent = [a \in Admins |-> {}]
  /\ handovers = 0 /\ edits = 0 /\ requests = 0

-----------------------------------------------------------------------------
\* An editor stays for as long as its set's version does.
\* Mutant: the editors are made anew with every copy.
EditorsAfterAnew(a, registered) ==
  [s \in Sets |-> IF Active(registered, s) THEN NewEditor(registered[s]) ELSE None]

EditorsAfter(a, registered) ==
  [s \in Sets |->
     IF ~Active(registered, s) THEN None
     ELSE IF editor[a][s] # None /\ editor[a][s].base = registered[s].version
     THEN editor[a][s] ELSE NewEditor(registered[s])]

Reread(a, registered) ==
  /\ copy' = [copy EXCEPT ![a] = registered]
  /\ editor' = [editor EXCEPT ![a] = EditorsAfter(a, registered)]

\* The panel opens, or is read again, for an account that holds the badge.
OpenPanel(a) ==
  /\ badge[a] # None
  /\ copy[a] # sets
  /\ Reread(a, sets)
  /\ UNCHANGED <<sets, badge, adding, sent, handovers, edits, requests>>

\* A read that fails closes every editor, and the form of a new set with them.
PanelFails(a) ==
  /\ copy[a] # None
  /\ copy' = [copy EXCEPT ![a] = None]
  /\ editor' = [editor EXCEPT ![a] = NoEditors]
  /\ adding' = [adding EXCEPT ![a] = [id |-> None, form |-> EmptyForm]]
  /\ UNCHANGED <<sets, badge, sent, handovers, edits, requests>>

\* The process type of a set that exists is locked.
Edit(a, s) ==
  /\ editor[a][s] # None
  /\ \E f \in {"check", Second(editor[a][s].form.process)}, v \in Values :
       editor' = [editor EXCEPT ![a][s].form[f] = v, ![a][s].touched = @ \cup {f}]
  /\ editor' # editor
  /\ edits < MaxEdits /\ edits' = edits + 1
  /\ UNCHANGED <<sets, badge, copy, adding, sent, handovers, requests>>

EditNew(a) ==
  /\ copy[a] # None
  /\ \E id \in Sets, process \in ProcessTypes :
       adding' = [adding EXCEPT ![a] = [id |-> id, form |-> [@.form EXCEPT !.process = process]]]
  /\ adding' # adding
  /\ edits < MaxEdits /\ edits' = edits + 1
  /\ UNCHANGED <<sets, badge, copy, editor, sent, handovers, requests>>

-----------------------------------------------------------------------------
\* The proof in the transaction is of the badge the account is found to hold.
AskFor(a, request) ==
  /\ copy[a] # None
  /\ badge[a] # None
  /\ ~ \E r \in sent[a] : r.method = request.method /\ r.id = request.id
  /\ sent' = [sent EXCEPT ![a] = @ \cup {request}]
  /\ requests < MaxRequests /\ requests' = requests + 1
  /\ UNCHANGED <<sets, badge, copy, editor, adding, handovers, edits>>

Save(a, s) ==
  /\ editor[a][s] # None
  /\ AskFor(a, [method |-> "update", id |-> s, input |-> ToInput(editor[a][s].form),
             proof |-> badge[a], base |-> editor[a][s].base,
             touched |-> editor[a][s].touched])

Retire(a, s) ==
  /\ editor[a][s] # None
  /\ s # DefaultSet
  /\ AskFor(a, [method |-> "retire", id |-> s, proof |-> badge[a]])

Add(a) ==
  /\ adding[a].id # None
  /\ ~ \E r \in sent[a] : r.method = "add"
  /\ AskFor(a, [method |-> "add", id |-> adding[a].id, input |-> ToInput(adding[a].form),
             proof |-> badge[a]])

\* What the contract accepts, and what it makes of the set.
Admitted(a, r) ==
  /\ r.proof = badge[a]
  /\ CASE r.method = "add"    -> sets[r.id] = None
       [] r.method = "retire" -> Active(sets, r.id) /\ r.id # DefaultSet
       [] r.method = "update" -> /\ Active(sets, r.id)
                                 /\ sets[r.id].process = r.input.process
                                 /\ sets[r.id].version < MaxVersions

Written(r) ==
  CASE r.method = "add"    -> FirstVersion(r.input)
    [] r.method = "retire" -> [sets[r.id] EXCEPT !.retired = TRUE]
    [] r.method = "update" -> NewVersion(r.input, sets[r.id].version + 1)

\* A success reads the registry again; a set that was added clears the form.
Commit(a) ==
  \E r \in sent[a] :
    /\ Admitted(a, r)
    /\ sets' = [sets EXCEPT ![r.id] = Written(r)]
    /\ Reread(a, [sets EXCEPT ![r.id] = Written(r)])
    /\ adding' = IF r.method = "add"
                 THEN [adding EXCEPT ![a] = [id |-> None, form |-> EmptyForm]] ELSE adding
    /\ sent' = [sent EXCEPT ![a] = @ \ {r}]
    /\ UNCHANGED <<badge, handovers, edits, requests>>

\* The contract, or the wallet, refuses.
Refuse(a) ==
  /\ \E r \in sent[a] : sent' = [sent EXCEPT ![a] = @ \ {r}]
  /\ UNCHANGED <<sets, badge, copy, editor, adding, handovers, edits, requests>>

HandOver(a, b) ==
  /\ handovers < MaxHandovers
  /\ a # b /\ badge[a] # None
  /\ badge' = [badge EXCEPT ![a] = None, ![b] = badge[a]]
  /\ handovers' = handovers + 1
  /\ UNCHANGED <<sets, copy, editor, adding, sent, edits, requests>>

EditorNext ==
  \E a \in Admins :
    \/ OpenPanel(a) \/ PanelFails(a) \/ EditNew(a) \/ Add(a)
    \/ \E s \in Sets : Edit(a, s) \/ Save(a, s) \/ Retire(a, s)
    \/ Commit(a) \/ Refuse(a)
    \/ \E b \in Admins : HandOver(a, b)

EditorSpec == EditorInit /\ [][EditorNext]_editorVars

-----------------------------------------------------------------------------
(* Properties *)

\* A save from the newest version changes only what its operator edited: what the form
\* does not show is neither lost nor reset to a default on the way through it, and the
\* rerun keeps the rules of the first round.
SaveChangesOnlyEdits ==
  [][\A a \in Admins : \A r \in sent[a] \ sent'[a] :
       r.method = "update" /\ sets'[r.id] # sets[r.id] /\ r.base = sets[r.id].version =>
         /\ "check" \in r.touched \/ sets'[r.id].check = sets[r.id].check
         /\ Second(sets[r.id].process) \in r.touched
              \/ /\ sets'[r.id].vote = sets[r.id].vote
                 /\ sets'[r.id].rerun = sets[r.id].rerun
    ]_editorVars

\* What an operator has typed into a set's form is discarded only when a newer version
\* of that set is read, it is retired, or the panel cannot be read: never because another
\* set was saved, added or retired.
DraftsAreKept ==
  [][\A a \in Admins, s \in Sets :
       editor[a][s] # None /\ copy'[a] # None /\ Active(copy'[a], s)
         /\ copy'[a][s].version = editor[a][s].base =>
         editor'[a][s] # None /\ editor[a][s].touched \subseteq editor'[a][s].touched
    ]_editorVars

\* An operator's edits arrive as they were typed, all of them and nothing else.
EditsAreRespected == SaveChangesOnlyEdits /\ DraftsAreKept
=============================================================================
