---------------------------- MODULE MCCalculations ----------------------------
\* Small instances of the calculations for TLC: elections, and the weighing of their
\* voters.  `scene` says which of the two the behaviour is about.
EXTENDS MajorityJudgment, VotePower

CONSTANTS v1, v2, v3

VARIABLE scene

-----------------------------------------------------------------------------
\* Three voters, one of whom outweighs the others together, and four candidates, so that
\* ties straddle the last seat; a round that needs a median of 2 and more than half of the
\* power, and a rerun that needs less.
SmallPower == v1 :> 1 @@ v2 :> 1 @@ v3 :> 3
AllRules == {[seats |-> 1, quorum |-> 3, minimum |-> 2, round |-> "RoundOne"],
             [seats |-> 2, quorum |-> 2, minimum |-> 1, round |-> "Rerun"]}

-----------------------------------------------------------------------------
Prices == 1 :> 4 @@ 2 :> 6 @@ 3 :> 9

Everything == [sources |-> {"xrd", "lsu", "lsulp"}, pools |-> {"units", "precision", "shape"}]
XrdOnly == [sources |-> {"xrd"}, pools |-> {}]
StakeAndShapes == [sources |-> {"lsu"}, pools |-> {"shape"}]
SomeConfigs == {Everything, XrdOnly, StakeAndShapes}

Holding(xrd, lsu, lsulp, units) ==
  [xrd |-> xrd, lsu |-> "s1" :> lsu, lsulp |-> lsulp, units |-> units]

Claim(id, owner, burned, claims) ==
  [id |-> id, owner |-> owner, burned |-> burned, claims |-> claims]

Position(id, owner, burned, liquidity, left, right) ==
  [id |-> id, owner |-> owner, burned |-> burned,
   liquidity |-> liquidity, left |-> left, right |-> right]

\* Two accounts with a share of everything; the first has renewed its receipt.
Early ==
  [known |-> {1, 2},
   held |-> 1 :> Holding(3, 7, 2, 2) @@ 2 :> Holding(0, 2, 5, 1) @@ 3 :> Holding(0, 0, 0, 0),
   redemption |-> "s1" :> 5,
   lsulp |-> [valuation |-> 8, supply |-> 7],
   simple |-> [supply |-> 3, holds |-> "xrd" :> 5 @@ "s1" :> 4 @@ "other" :> 9],
   precision |-> [price |-> 5, x |-> "xrd", y |-> "s1", grainX |-> 1, grainY |-> 2],
   shape |-> [current |-> 1, x |-> "lsulp", y |-> "xrd",
              activeX |-> 7, activeY |-> 5, activeTotal |-> 6,
              bins |-> 0 :> [amount |-> 10, total |-> 7] @@ 2 :> [amount |-> 9, total |-> 7]],
   receipts |-> [positions |-> {Position(1, 1, FALSE, 8, 1, 3), Position(2, 2, FALSE, 5, 2, 3)},
                 claims |-> {Claim(1, 1, TRUE, 0 :> 4 @@ 2 :> 7),
                             Claim(2, 1, FALSE, 0 :> 4 @@ 1 :> 3 @@ 2 :> 7),
                             Claim(3, 2, FALSE, 0 :> 3 @@ 1 :> 3)}]]

\* Stakes have changed hands and grown in value, prices have risen, a validator has
\* registered and an account has been opened.
Later ==
  [Early EXCEPT
     !.known = {1, 2, 3},
     !.held = 1 :> Holding(1, 0, 2, 3) @@ 2 :> Holding(2, 2, 5, 0) @@ 3 :> Holding(4, 7, 0, 0),
     !.redemption = "s1" :> 6 @@ "s2" :> 4,
     !.precision.price = 9,
     !.shape.current = 2, !.shape.activeX = 9, !.shape.activeY = 1, !.shape.activeTotal = 7,
     !.shape.bins = 0 :> [amount |-> 10, total |-> 7] @@ 1 :> [amount |-> 6, total |-> 6]]

\* The price has left every range, the shape pool has lost its current tick, and the XRD of
\* the first account are as many as a sort key has room for: its stake is too much.
Beyond == [Later EXCEPT !.precision.price = 12, !.shape.current = None, !.held[1].xrd = 63]

\* Before the pools and LSULP were there; nobody has put anything into the simple pool.
First ==
  [Early EXCEPT !.lsulp = None, !.precision = None, !.shape = None,
                !.simple = [supply |-> 0, holds |-> <<>>],
                !.held = [a \in 1 .. 3 |-> Holding(a, 1, 0, 0)],
                !.receipts = [positions |-> {}, claims |-> {}]]

AllWorlds == {First, Early, Later, Beyond}

\* Accounts, validators and pools stay.
After(before, after) ==
  /\ before.known \subseteq after.known
  /\ DOMAIN before.redemption \subseteq DOMAIN after.redemption
  /\ before.shape # None => after.shape # None

-----------------------------------------------------------------------------
NoElection ==
  /\ ballots = [v \in Voters |-> None]
  /\ rules = CHOOSE r \in Rules : TRUE
  /\ verdict = Calculate(ballots, rules)

NoPower ==
  /\ mainnet = FALSE /\ ledger = <<First>> /\ epochs = <<>> /\ job = None
  /\ power = [a \in Accounts |-> None] /\ company = [a \in Accounts |-> {}]

MCInit ==
  \/ scene = "election" /\ Init /\ NoPower
  \/ scene = "power" /\ NoElection /\ PowerInit

MCNext ==
  /\ UNCHANGED scene
  /\ \/ scene = "election" /\ Next /\ UNCHANGED powerVars
     \/ scene = "power" /\ PowerNext /\ UNCHANGED vars

MCSpec == MCInit /\ [][MCNext]_<<vars, powerVars, scene>>
=============================================================================
