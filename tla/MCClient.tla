------------------------------ MODULE MCClient ------------------------------
\* Small instances of the web client's pages for TLC.  `scene` says which page the
\* behaviour is about: the variables of the others stay as they are.  The pages share no
\* state but the ledger's, of which each of their modules has its own part.
EXTENDS VotingSection, ElectionPage, OperatorConsole, ParameterEditor, TemperatureCheckForm,
        EntityLists, TLC

VARIABLE scene

Scenes == {"section", "election", "console", "editor", "form", "lists"}

-----------------------------------------------------------------------------
(* Values of the constants *)

OptionSets == (SUBSET Options) \ {{}}

Low == [round |-> 1, grades |-> [c \in Candidates |-> 0]]
Split == [round |-> 1, grades |-> [c \in Candidates |-> IF c = 1 THEN 1 ELSE 0]]

\* Two accounts with different ballots; in the rerun neither has one.
EarlierGrades == {<<Low, Split>>}

\* A check that passes with one vote and fails with the second.
PassesThenFails == <<FALSE, TRUE, FALSE>>
TwoTied == <<1, 2>>

BothKinds == 1 :> "NonFungible" @@ 2 :> "Fungible"
TwoProfiles == 1 :> "Standard" @@ 2 :> "MajorityJudgment"

-----------------------------------------------------------------------------
(* The pages that a behaviour is not about *)

NoWallet == WalletInit({[a \in Accounts |-> NoBallot]})

NoElection ==
  /\ round = 1 /\ former = [a \in Accounts |-> NoBallot] /\ published = None
  /\ shown = None /\ late = FALSE /\ attempts = 0
  /\ draft = <<>> /\ picked = {} /\ all = FALSE

NoSection == selection = {} /\ editing = FALSE /\ voteAll = FALSE
NoConsole == ConsoleInit /\ kind = "Proposal"
NoEditor == EditorInit /\ sets = [s \in Sets |-> IF s = DefaultSet THEN sets[s] ELSE None]
                       /\ sets[DefaultSet].check = BlankValue
NoForm == FormInit /\ ~operator

MCInit ==
  /\ scene \in Scenes
  /\ CASE scene = "section"  -> SectionInit /\ NoElection
       [] scene = "election" -> PageInit /\ NoSection
       [] OTHER              -> NoWallet /\ NoElection /\ NoSection
  /\ IF scene = "console" THEN ConsoleInit ELSE NoConsole
  /\ IF scene = "editor" THEN EditorInit ELSE NoEditor
  /\ IF scene = "form" THEN FormInit ELSE NoForm
  /\ ListInit

electionPageVars == <<electionVars, copyVars, formVars>>
votingVars == <<walletVars, choiceVars, electionPageVars>>

MCNext ==
  /\ UNCHANGED scene
  /\ \/ /\ scene = "section" /\ SectionNext
        /\ UNCHANGED <<electionPageVars, consoleVars, editorVars, newFormVars, listVars>>
     \/ /\ scene = "election" /\ PageNext
        /\ UNCHANGED <<choiceVars, consoleVars, editorVars, newFormVars, listVars>>
     \/ /\ scene = "console" /\ ConsoleNext
        /\ UNCHANGED <<votingVars, editorVars, newFormVars, listVars>>
     \/ /\ scene = "editor" /\ EditorNext
        /\ UNCHANGED <<votingVars, consoleVars, newFormVars, listVars>>
     \/ /\ scene = "form" /\ NewFormNext
        /\ UNCHANGED <<votingVars, consoleVars, editorVars, listVars>>
     \/ /\ scene = "lists" /\ ListNext
        /\ UNCHANGED <<votingVars, consoleVars, editorVars, newFormVars>>

Spec == MCInit /\ [][MCNext]_<<votingVars, consoleVars, editorVars, newFormVars, listVars, scene>>

\* Once nothing is under way, the voting section knows the ballots of the accounts
\* (QuietPageIsCurrent) and its closed form shows the current one's (ClosedFormIsRecorded);
\* the election's page learns of a rerun, whose votes are other ones, only from the collector.
SectionIsCurrent == scene = "section" => QuietPageIsCurrent /\ ClosedFormIsRecorded
=============================================================================
