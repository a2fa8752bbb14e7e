------------------------------ MODULE VotePower ------------------------------
\* The weighing of first-time voters (votePowerSnapshot.ts): at the state version of the
\* start of a check, proposal or round, in batches as the polls find their votes, while the
\* ledger moves on and the configuration of what counts is deployed anew.  The ledger is
\* the sequence of its states; `world` is what the reads of the snapshot look at.
EXTENDS PoolPositions

CONSTANTS
  Accounts,      \* that vote
  Worlds,        \* states of the ledger
  Follows(_, _), \* a state the ledger may come to from another
  Configs,       \* what counts: [sources, pools]
  MaxVersions, MaxDeploys

\* A validator that has registered stays on the ledger.
ASSUME ValidatorsStay ==
  \A s, t \in Worlds : Follows(s, t) => DOMAIN s.redemption \subseteq DOMAIN t.redemption

\* The price of a precision pool is positive and a position has a range of prices.
ASSUME PrecisionAssumption ==
  \A s \in Worlds : s.precision # None =>
    /\ {s.precision.price, s.precision.grainX, s.precision.grainY} \subseteq Nat \ {0}
    /\ \A p \in s.receipts.positions :
         /\ p.liquidity \in Nat
         /\ {p.left, p.right} \subseteq DOMAIN PriceSqrt
         /\ p.left < p.right

\* The divisibility of a token is given once and for all.
ASSUME GrainsStay ==
  \A s, t \in Worlds : Follows(s, t) /\ s.precision # None /\ t.precision # None =>
    s.precision.grainX = t.precision.grainX /\ s.precision.grainY = t.precision.grainY

\* The claims that the receipts not burned have on a tick.
ClaimedAt(tick, receipts) ==
  MapThenSumSet(LAMBDA r : r.claims[tick],
                {r \in receipts : ~r.burned /\ tick \in DOMAIN r.claims})

\* What the shape pool's own contract keeps: the claims on a tick are part of its total.
ShapeAddsUp(pool, receipts) ==
  pool # None /\ pool.current # None =>
    /\ {pool.current, pool.activeX, pool.activeY, pool.activeTotal} \subseteq Nat
    /\ IsFiniteSet(DOMAIN pool.bins) /\ DOMAIN pool.bins \subseteq Nat
    /\ \A t \in DOMAIN pool.bins : {pool.bins[t].amount, pool.bins[t].total} \subseteq Nat
    /\ IsFiniteSet(receipts)
    /\ \A r \in receipts : ~r.burned =>
         /\ IsFiniteSet(DOMAIN r.claims) /\ DOMAIN r.claims \subseteq Nat
         /\ \A t \in DOMAIN r.claims : r.claims[t] \in Nat
    /\ ClaimedAt(pool.current, receipts) <= pool.activeTotal
    /\ \A t \in DOMAIN pool.bins \ {pool.current} :
         ClaimedAt(t, receipts) <= pool.bins[t].total

\* What the token of a pool unit keeps: the accounts hold no more of it than there is.
UnitsAddUp(pool, held) ==
  /\ pool.supply \in Nat
  /\ IsFiniteSet(DOMAIN pool.holds) /\ \A t \in DOMAIN pool.holds : pool.holds[t] \in Nat
  /\ \A a \in Accounts : held[a].units \in Nat
  /\ MapThenSumSet(LAMBDA a : held[a].units, Accounts) <= pool.supply

\* In every state of the ledger they do; and rates are natural numbers.
ASSUME PoolsAssumption ==
  /\ IsFiniteSet(Accounts)
  /\ \A s \in Worlds :
       /\ ShapeAddsUp(s.shape, s.receipts.claims)
       /\ UnitsAddUp(s.simple, s.held)
       /\ s.lsulp # None => {s.lsulp.valuation, s.lsulp.supply} \subseteq Nat
       /\ \A v \in DOMAIN s.redemption : s.redemption[v] \in Nat

VARIABLES
  mainnet,  \* is it the network whose pool addresses are hard-coded?
  ledger,   \* the states of the ledger, by version
  epochs,   \* VOTE_POWER_EPOCHS: [from, sources, pools], the newest first
  job,      \* the snapshot in progress: what has been read for it
  power,    \* of the accounts weighed
  company   \* the batch that each of them was weighed in

powerVars == <<mainnet, ledger, epochs, job, power, company>>

\* Voting starts at the first version; what happened before it is in that state.
Start == 1
world == ledger[Start]
head == ledger[Len(ledger)]

-----------------------------------------------------------------------------
(* The configuration *)

\* Mutant: the newest epoch, also for what started earlier.
FindEpochNewest(list, start) == list[1]

\* findEpoch: the first in the list that had begun, or else the oldest.
FindEpoch(list, start) ==
  LET begun == {i \in DOMAIN list : list[i].from <= start}
  IN  list[IF begun = {} THEN Len(list) ELSE Min(begun)]

NeedsLsulpRate(config) == mainnet /\ ("lsulp" \in config.sources \/ config.pools # {})
NeedsLsuMap(config) == "lsu" \in config.sources \/ config.pools # {}
NeedsPositions(config) == mainnet /\ config.pools # {}

\* An epoch is prepended that takes effect later ("old epochs remain intact").
Deploy(config) ==
  /\ Len(epochs) <= MaxDeploys
  /\ epochs' = <<[from |-> Len(ledger) + 1, sources |-> config.sources,
                  pools |-> config.pools]>> \o epochs
  /\ UNCHANGED <<mainnet, ledger, job, power, company>>

-----------------------------------------------------------------------------
(* What is read, and what it comes to *)

\* LsulpValue; zero where its component is not yet on the ledger.
LsulpRate(state) ==
  IF state.lsulp = None THEN 0 ELSE DividedBy(state.lsulp.valuation, state.lsulp.supply)

\* buildLsuConverterMap, for the validators that the Gateway has values for.
LsuMap(validators, state) ==
  [v \in validators \cap DOMAIN state.redemption |-> state.redemption[v]]

ReceiptsOf(account, receipts) == {r \in receipts : r.owner = account}

\* computeXrd, computeLsu (to a cent for each validator) and computeLsulp.
XrdOf(held) == held.xrd * Unit * Unit

LsuOf(held, validators, lsu) ==
  MapThenSumSet(LAMBDA v : ToCents(held.lsu[v] * lsu[v] * Unit),
                validators \cap DOMAIN held.lsu \cap DOMAIN lsu)

LsulpOf(held, rate) == IF mainnet THEN held.lsulp * rate * Unit ELSE 0

\* The power of an account: the sum of what its holdings come to, of the sources that count.
WeighedPower(account, held, receipts, config, ctx) ==
  LET Counted(source, value) == IF source \in config.sources THEN value ELSE 0
      Placed(pool, value) == IF NeedsPositions(config) /\ pool \in config.pools THEN value ELSE 0
  IN  Counted("xrd", XrdOf(held))
      + Counted("lsu", LsuOf(held, DOMAIN ctx.lsu, ctx.lsu))
      + Counted("lsulp", LsulpOf(held, ctx.lsulp))
      + Placed("units", PoolUnitXrd(held.units, world.simple, ctx))
      + Placed("precision", PrecisionXrd(ReceiptsOf(account, receipts.positions),
                                         world.precision, ctx) * Unit)
      + Placed("shape", ShapeXrd(ReceiptsOf(account, receipts.claims),
                                 world.shape, ctx) * Unit)

-----------------------------------------------------------------------------
(* One snapshot *)

Unweighed == {a \in Accounts : power[a] = None}

\* A poll has found the first votes of some accounts.
Begin(batch) ==
  /\ job = None
  /\ job' = [at |-> "rate", batch |-> batch, config |-> FindEpoch(epochs, Start),
             rate |-> None, held |-> None, validators |-> None, lsu |-> None]
  /\ UNCHANGED <<mainnet, ledger, epochs, power, company>>

Reading(what) == job # None /\ job.at = what

ReadRate ==
  /\ Reading("rate")
  /\ job' = [job EXCEPT !.at = "balances",
                        !.rate = IF NeedsLsulpRate(job.config) THEN LsulpRate(world) ELSE 0]
  /\ UNCHANGED <<mainnet, ledger, epochs, power, company>>

\* makeFungibleTokenBalanceState.
ReadBalances ==
  /\ Reading("balances")
  /\ job' = [job EXCEPT !.at = "validators", !.held = [a \in job.batch |-> world.held[a]]]
  /\ UNCHANGED <<mainnet, ledger, epochs, power, company>>

\* makeValidatorsState asks for the validators of now.
ReadValidators ==
  /\ Reading("validators")
  /\ job' = [job EXCEPT !.at = "lsu", !.validators = DOMAIN head.redemption]
  /\ UNCHANGED <<mainnet, ledger, epochs, power, company>>

ReadLsuMap ==
  /\ Reading("lsu")
  /\ job' = [job EXCEPT !.at = "receipts",
                        !.lsu = IF NeedsLsuMap(job.config) THEN LsuMap(job.validators, world)
                                ELSE <<>>]
  /\ UNCHANGED <<mainnet, ledger, epochs, power, company>>

\* The Gateway may refuse to tell the stake units of a validator younger than the start:
\* the snapshot fails, again at each retry, and so does the poll.
LsuMapFails ==
  /\ Reading("lsu") /\ NeedsLsuMap(job.config)
  /\ ~(job.validators \subseteq DOMAIN world.redemption)
  /\ job' = None
  /\ UNCHANGED <<mainnet, ledger, epochs, power, company>>

Nothing == [positions |-> {}, claims |-> {}]

\* Where an account of the batch is younger than the start, the Gateway may find none: the
\* batch is weighed as if nobody in it had a receipt.
Receipts ==
  IF job.batch \subseteq world.known THEN {world.receipts} ELSE {world.receipts, Nothing}

\* The powers of the batch.
Weighed(receipts) ==
  LET ctx == [lsulp |-> job.rate, lsu |-> job.lsu]
  IN  [a \in job.batch |-> WeighedPower(a, job.held[a], receipts, job.config, ctx)]

\* They are stored, with the batch of votes, under their sort keys.
Weigh(receipts) ==
  /\ Reading("receipts")
  /\ \A a \in job.batch : IsExactDecimal(Weighed(receipts)[a])
  /\ power' = [a \in Accounts |->
                 IF a \in job.batch THEN Weighed(receipts)[a] ELSE power[a]]
  /\ company' = [a \in Accounts |-> IF a \in job.batch THEN job.batch ELSE company[a]]
  /\ job' = None
  /\ UNCHANGED <<mainnet, ledger, epochs>>

\* One power that has no sort key, and nothing of the batch is stored: the poll fails.
StoringFails(receipts) ==
  /\ Reading("receipts")
  /\ \E a \in job.batch : ~IsExactDecimal(Weighed(receipts)[a])
  /\ job' = None
  /\ UNCHANGED <<mainnet, ledger, epochs, power, company>>

-----------------------------------------------------------------------------
MoveOn(state) ==
  /\ Len(ledger) < MaxVersions
  /\ Follows(head, state)
  /\ ledger' = Append(ledger, state)
  /\ UNCHANGED <<mainnet, epochs, job, power, company>>

PowerInit ==
  /\ mainnet \in BOOLEAN
  /\ ledger \in {<<state>> : state \in Worlds}
  /\ epochs \in {<<[from |-> 0, sources |-> c.sources, pools |-> c.pools]>> : c \in Configs}
  /\ job = None
  /\ power = [a \in Accounts |-> None]
  /\ company = [a \in Accounts |-> {}]

PowerNext ==
  \/ \E batch \in (SUBSET Unweighed) \ {{}} : Begin(batch)
  \/ ReadRate \/ ReadBalances \/ ReadValidators \/ ReadLsuMap \/ LsuMapFails
  \/ Reading("receipts") /\ \E receipts \in Receipts : Weigh(receipts) \/ StoringFails(receipts)
  \/ \E config \in Configs : Deploy(config)
  \/ \E state \in Worlds : MoveOn(state)

PowerSpec == PowerInit /\ [][PowerNext]_powerVars

-----------------------------------------------------------------------------
(* Properties *)

\* The recount of scripts/tally.ts, which weighs all voters at once, whenever it is run.
Recount(a) ==
  WeighedPower(a, world.held[a], world.receipts, FindEpoch(epochs, Start),
          [lsulp |-> IF NeedsLsulpRate(FindEpoch(epochs, Start)) THEN LsulpRate(world) ELSE 0,
           lsu |-> IF NeedsLsuMap(FindEpoch(epochs, Start))
                   THEN LsuMap(DOMAIN head.redemption, world) ELSE <<>>])

\* Whenever a voter is weighed, and with whom, the power is what a recount of today comes
\* to, though the ledger has moved, validators have registered and the configuration has
\* changed since the start; except that an account younger than the start, weighed
\* together with the voter, may cost it its receipts.
WeighedAsRecounted ==
  \A a \in Accounts :
    power[a] # None /\ company[a] \subseteq world.known => power[a] = Recount(a)

\* What has been read for the snapshot in progress is what a recount reads, but for the
\* validators that have registered since the start, which a recount leaves out as well.
JobAsRecounted ==
  job # None =>
    LET config == FindEpoch(epochs, Start)
        past == CASE job.at = "rate" -> {} [] job.at = "balances" -> {"rate"}
                  [] job.at = "validators" -> {"rate", "held"}
                  [] job.at = "lsu" -> {"rate", "held", "validators"}
                  [] job.at = "receipts" -> {"rate", "held", "validators", "lsu"}
    IN  /\ DOMAIN job = {"at", "batch", "config", "rate", "held", "validators", "lsu"}
        /\ job.at \in {"rate", "balances", "validators", "lsu", "receipts"}
        /\ job.config = config
        /\ "rate" \in past =>
             job.rate = IF NeedsLsulpRate(config) THEN LsulpRate(world) ELSE 0
        /\ "held" \in past => job.held = [a \in job.batch |-> world.held[a]]
        /\ "validators" \in past => DOMAIN world.redemption \subseteq job.validators
        /\ "lsu" \in past =>
             job.lsu = IF NeedsLsuMap(config) THEN LsuMap(DOMAIN world.redemption, world)
                       ELSE <<>>

\* Only what begins later is added to the history of the ledger and of what counts.
HistoryStays ==
  /\ ledger \in Seq(Worlds) /\ ledger # <<>>
  /\ DOMAIN world.redemption \subseteq DOMAIN head.redemption
  /\ epochs # <<>> /\ epochs \in Seq([from : Nat, sources : {c.sources : c \in Configs},
                                      pools : {c.pools : c \in Configs}])

\* What is stored has a sort key.
PowersAreExact == \A a \in Accounts : power[a] # None => IsExactDecimal(power[a])

\* The inductive invariant of the weighing.
PowerInv == HistoryStays /\ JobAsRecounted /\ WeighedAsRecounted /\ PowersAreExact

\* The liquidity of a shape pool is counted once, however it is spread over receipts,
\* holders and bins: the voters together get no more than the pool holds (i192.ts truncates
\* as the pool does), and of the other pools' units no more than half of the last place
\* for each unit and token above what it holds.
PoolsAreCountedOnce ==
  \A i \in DOMAIN ledger :
    LET state == ledger[i]
        ctx == [lsulp |-> LsulpRate(state), lsu |-> LsuMap(DOMAIN state.redemption, state)]
        Total(Value(_)) == MapThenSumSet(Value, Accounts)
        shape == state.shape
        simple == state.simple
        Held(ticks) == MapThenSumSet(LAMBDA t : shape.bins[t].amount, ticks)
    IN  /\ shape # None /\ shape.current # None =>
             Total(LAMBDA a : ShapeXrd(ReceiptsOf(a, state.receipts.claims), shape, ctx))
               <= ConvertToXrd(shape.x, shape.activeX +
                               Held({t \in DOMAIN shape.bins : t > shape.current}), ctx)
                  + ConvertToXrd(shape.y, shape.activeY +
                               Held({t \in DOMAIN shape.bins : t < shape.current}), ctx)
        /\ 2 * Total(LAMBDA a : PoolUnitXrd(state.held[a].units, simple, ctx))
             <= MapThenSumSet(LAMBDA t : (2 * simple.holds[t] * Unit + simple.supply)
                                           * Rate(t, ctx), DOMAIN simple.holds)

\* A trade that moves the price of a precision pool up never gives a position more of the
\* first token nor less of the second, and nothing new once the price has left its range.
AmountsFollowThePrice ==
  [][ledger' # ledger /\ head'.precision # None /\ head.precision # None =>
       \A p \in head'.receipts.positions :
         head'.precision.price >= head.precision.price =>
           LET before == RemovableAmounts(p, head.precision)
               after == RemovableAmounts(p, head'.precision)
           IN  /\ after.x <= before.x /\ after.y >= before.y
               /\ head.precision.price >= PriceSqrt[p.right] => after = before]_powerVars

\* The texts by which the database sorts the votes of an account list are in the order of
\* the powers they stand for.
KeysSortByPower ==
  \A a, b \in Accounts :
    power[a] # None /\ power[b] # None /\ power[a] < power[b] =>
      Precedes(SortKey(power[a]), SortKey(power[b]))
=============================================================================
