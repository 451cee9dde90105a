----------------------------- MODULE RiskPolicy -----------------------------
(***************************************************************************)
(* The risk engine (packages/risk/engine.py) and what propose() makes of   *)
(* its verdict (packages/risk/proposal.py).                                *)
(*                                                                         *)
(* Weights, fractions, prices and quantities are integers of one small     *)
(* unit; the tolerances of the floating-point comparisons are left out.    *)
(* `Unknown` stands for an optional number that is None.                   *)
(***************************************************************************)
EXTENDS Integers, Sequences, FiniteSetsExt

Unknown == -1

(* get_price_limit: the daily price band in percent.  Whether a share is   *)
(* of a growth board is told by its symbol, never by ctx.board.            *)
PriceLimit(ctx) ==
  CASE ctx.market = "US"    -> Unknown
    [] ctx.market # "US" /\ ctx.venue = "BSE" -> 30
    [] ctx.market # "US" /\ ctx.venue # "BSE" /\ ctx.asset = "ETF" -> 10
    [] ctx.market # "US" /\ ctx.venue # "BSE" /\ ctx.asset = "EQUITY" ->
         IF ctx.st THEN 5 ELSE IF ctx.growth THEN 20 ELSE 10
    [] OTHER -> Unknown

(* What a layer says: the first check that holds, rejections first.        *)
Says(layer, rejections, reviews) ==
  LET Hits(checks) == {k \in DOMAIN checks : checks[k][1]}
      Verdict(verdict, code) == [layer |-> layer, verdict |-> verdict, code |-> code]
  IN  IF Hits(rejections) # {} THEN Verdict("reject", rejections[Min(Hits(rejections))][2])
      ELSE IF Hits(reviews) # {} THEN Verdict("review", reviews[Min(Hits(reviews))][2])
      ELSE Verdict("accept", "OK")

Permission(ctx) == Says("permission", <<<<~ctx.permitted, "PERM_DENIED">>>>, <<>>)

Regulatory(ctx) ==
  Says("regulatory",
       <<<<ctx.side < 0 /\ ctx.market = "CN" /\ ~ctx.allowShort, "NO_SHORT_CN">>>>, <<>>)

MarketState(ctx) ==
  Says("market_state", <<<<ctx.delisted, "DELISTED">>, <<ctx.halted, "HALTED">>,
                         <<~ctx.open, "MARKET_CLOSED">>>>, <<>>)

PriceLimitAndLiquidity(ctx) ==
  LET pct == PriceLimit(ctx)
      banded == ctx.market = "CN" /\ ctx.prevClose # Unknown /\ pct # Unknown
  IN  Says("price_limit_and_liquidity",
           <<<<banded /\ ctx.side > 0 /\ 100 * ctx.price >= ctx.prevClose * (100 + pct),
               "AT_UPPER_LIMIT">>,
             <<banded /\ ctx.side < 0 /\ 100 * ctx.price <= ctx.prevClose * (100 - pct),
               "AT_LOWER_LIMIT">>>>,
           <<<<ctx.volume # Unknown /\ 10 * ctx.quantity > ctx.volume, "LIQUIDITY_THIN">>>>)

ExposureLimits(ctx) ==
  Says("exposure_limits", <<<<ctx.name > ctx.nameLimit, "NAME_LIMIT">>,
                            <<ctx.gross > ctx.grossLimit, "GROSS_LIMIT">>,
                            <<ctx.ccy > ctx.ccyLimit, "CCY_LIMIT">>>>, <<>>)

StressDelta(ctx) == Says("stress_delta", <<<<ctx.shock > ctx.shockLimit, "STRESS_LIMIT">>>>, <<>>)

Operational(ctx) ==
  Says("operational", <<<<ctx.killSwitch, "KILL_SWITCH">>, <<ctx.duplicate, "DUP_INTENT">>>>, <<>>)

ExecutionFeasibility(ctx) ==
  Says("execution_feasibility",
       <<<<ctx.lot > 0 /\ ctx.quantity % (IF ctx.lot > 0 THEN ctx.lot ELSE 1) # 0, "MIN_LOT">>>>,
       <<<<ctx.tick > 0 /\ ctx.price % (IF ctx.tick > 0 THEN ctx.tick ELSE 1) # 0, "TICK_ROUND">>>>)

Layers(ctx) ==
  <<Permission(ctx), Regulatory(ctx), MarketState(ctx), PriceLimitAndLiquidity(ctx),
    ExposureLimits(ctx), StressDelta(ctx), Operational(ctx), ExecutionFeasibility(ctx)>>

Verdicts(trace) == {trace[k].verdict : k \in DOMAIN trace}

(* RiskEngine.evaluate: the layers up to the first rejection.              *)
Trace(ctx) ==
  LET layers == Layers(ctx)
      rejecting == {k \in DOMAIN layers : layers[k].verdict = "reject"}
  IN  IF rejecting = {} THEN layers ELSE SubSeq(layers, 1, Min(rejecting))

FinalVerdict(trace) ==
  CASE "reject" \in Verdicts(trace) -> "reject"
    [] "reject" \notin Verdicts(trace) /\ "review" \in Verdicts(trace) -> "review"
    [] OTHER -> "accept"

Passes(ctx) == FinalVerdict(Trace(ctx)) = "accept"

-----------------------------------------------------------------------------
(* propose().                                                              *)

MaxAdjustIters == 6

\* Mutant of Narrowed: every weight tried is a candidate, accepted or not.
Narrowed_AnyTried(st, mid, passes) ==
  IF passes THEN [st EXCEPT !.low = mid, !.best = mid] ELSE [st EXCEPT !.high = mid, !.best = mid]

(* One step of the bisection: up from an accepted weight, down otherwise.  *)
Narrowed(st, mid, passes) ==
  IF passes THEN [st EXCEPT !.low = mid, !.best = mid] ELSE [st EXCEPT !.high = mid]

(* The bisection for a smaller weight: the last one accepted, or 0.        *)
Trimmed(weight, build) ==
  LET after[k \in 0..MaxAdjustIters] ==
        IF k = 0 THEN [low |-> 0, high |-> weight, best |-> 0]
        ELSE LET st == after[k - 1]
                 mid == (st.low + st.high) \div 2
             IN  Narrowed(st, mid, Passes(build[mid]))
  IN  after[MaxAdjustIters].best

Answer(status, weight, trace) == [status |-> status, weight |-> weight, trace |-> trace]

\* A caller that passes no build_ctx.
NoBuilder == <<>>

(* propose; build_ctx gives the context of any smaller weight.             *)
Propose(ctx, weight, safeMode, build) ==
  LET trace == Trace(ctx)
      soft == trace[Len(trace)].layer \in {"exposure_limits", "stress_delta"}
      trimmed == IF DOMAIN build # {} /\ soft /\ weight > 0 THEN Trimmed(weight, build) ELSE 0
  IN  IF weight < 0 THEN Answer("ValueError", 0, <<>>)
      ELSE IF safeMode THEN Answer("REJECTED", 0, trace)
      ELSE CASE FinalVerdict(trace) = "accept" -> Answer("APPROVED", weight, trace)
             [] FinalVerdict(trace) = "review" -> Answer("ADJUSTED", weight \div 2, trace)
             [] FinalVerdict(trace) = "reject" ->
                  IF trimmed > 0 THEN Answer("ADJUSTED", trimmed, Trace(build[trimmed]))
                                 ELSE Answer("REJECTED", 0, trace)

IsTradeable(answer) == answer.status \in {"APPROVED", "ADJUSTED"} /\ answer.weight > 0
=============================================================================
