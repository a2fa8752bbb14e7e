---------------------------- MODULE PoolPositions ----------------------------
\* What a position in a pool of an exchange is worth in XRD (dex/ under vote-calculation):
\* fungible shares of a pool (poolUnit.ts), receipts for bins of liquidity (shapePool.ts)
\* and for liquidity over a range of prices (precisionPool.ts).  Tokens are "xrd", "lsulp",
\* a validator, whose stake units they are, or another, which counts for nothing.
EXTENDS ExactAmounts, Unread

CONSTANT PriceSqrt   \* [ticks -> square root of the price, in units], increasing

ASSUME PriceSqrtAssumption ==
  /\ \A t \in DOMAIN PriceSqrt : PriceSqrt[t] \in Nat \ {0}
  /\ \A s, t \in DOMAIN PriceSqrt : s < t => PriceSqrt[s] < PriceSqrt[t]

\* convertToXrd; ctx holds the rates of LSULP and of the validators known.
Rate(token, ctx) ==
  IF token = "xrd" THEN Unit
  ELSE IF token = "lsulp" THEN ctx.lsulp
  ELSE IF token \in DOMAIN ctx.lsu THEN ctx.lsu[token] ELSE 0

ConvertToXrd(token, amount, ctx) == amount * Rate(token, ctx)

-----------------------------------------------------------------------------
(* Pool units *)

\* fetchPoolUnitData: what a unit of the pool's token stands for.
PoolUnitValue(pool) ==
  [token \in DOMAIN pool.holds |-> DividedBy(pool.holds[token], pool.supply)]

\* computeAccountPositions, for one pool.
PoolUnitXrd(units, pool, ctx) ==
  LET value == PoolUnitValue(pool)
  IN  MapThenSumSet(LAMBDA token : ConvertToXrd(token, units * value[token], ctx),
                    DOMAIN value)

-----------------------------------------------------------------------------
(* Shape pools: bins of liquidity by ticks *)

Share(claim, total, amount) == Multiply(Divide(claim, total), amount)

\* Bins below the current tick hold the second token, those above the first, and the
\* current one holds both.
ClaimX(tick, claim, pool) ==
  IF tick = pool.current THEN Share(claim, pool.activeTotal, pool.activeX)
  ELSE IF tick > pool.current /\ tick \in DOMAIN pool.bins
  THEN Share(claim, pool.bins[tick].total, pool.bins[tick].amount) ELSE 0

ClaimY(tick, claim, pool) ==
  IF tick = pool.current THEN Share(claim, pool.activeTotal, pool.activeY)
  ELSE IF tick < pool.current /\ tick \in DOMAIN pool.bins
  THEN Share(claim, pool.bins[tick].total, pool.bins[tick].amount) ELSE 0

\* computeClaimsXrd; a pool without a current tick has been left by everybody.
ClaimsXrd(claims, pool, ctx) ==
  IF pool.current = None THEN 0
  ELSE LET Over(Claim(_, _, _)) ==
             MapThenSumSet(LAMBDA t : Claim(t, claims[t], pool), DOMAIN claims)
       IN  ConvertToXrd(pool.x, Over(ClaimX), ctx) + ConvertToXrd(pool.y, Over(ClaimY), ctx)

\* Mutant: burned receipts count.
LiveWithBurned(receipts) == receipts

\* Receipts are looked at only if they are not burned.
Live(receipts) == {r \in receipts : ~r.burned}

\* A pool not yet on the ledger gives nobody anything.
ShapeXrd(receipts, pool, ctx) ==
  IF pool = None THEN 0
  ELSE MapThenSumSet(LAMBDA r : ClaimsXrd(r.claims, pool, ctx), Live(receipts))

-----------------------------------------------------------------------------
(* Precision pools: liquidity between two prices *)

\* floorToDecimals, to the smallest amount of a token.
FloorTo(amount, divisor, grain) == (amount \div (divisor * grain)) * grain

\* Mutant: above the range the second token is what it is at the current price.
RemovableAmountsUnbounded(position, pool) ==
  LET price == pool.price
      left == PriceSqrt[position.left]
      right == PriceSqrt[position.right]
      from == IF price <= left THEN left ELSE price
  IN  [x |-> IF price >= right THEN 0
             ELSE FloorTo(position.liquidity * Unit * (right - from), from * right, pool.grainX),
       y |-> IF price <= left THEN 0
             ELSE FloorTo(position.liquidity * (price - left), Unit, pool.grainY)]

\* removableAmounts: below its range a position is all of the first token, above it all
\* of the second, as much as it would be at the bound.
RemovableAmounts(position, pool) ==
  LET price == pool.price
      left == PriceSqrt[position.left]
      right == PriceSqrt[position.right]
      from == IF price <= left THEN left ELSE price
      upto == IF price >= right THEN right ELSE price
  IN  [x |-> IF price >= right THEN 0
             ELSE FloorTo(position.liquidity * Unit * (right - from), from * right, pool.grainX),
       y |-> IF price <= left THEN 0
             ELSE FloorTo(position.liquidity * (upto - left), Unit, pool.grainY)]

PositionXrd(position, pool, ctx) ==
  LET removable == RemovableAmounts(position, pool)
  IN  ConvertToXrd(pool.x, removable.x, ctx) + ConvertToXrd(pool.y, removable.y, ctx)

PrecisionXrd(positions, pool, ctx) ==
  IF pool = None THEN 0
  ELSE MapThenSumSet(LAMBDA p : PositionXrd(p, pool, ctx), Live(positions))
=============================================================================
