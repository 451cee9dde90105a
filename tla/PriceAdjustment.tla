-------------------------- MODULE PriceAdjustment ---------------------------
(***************************************************************************)
(* Corporate actions and the prices adjusted for them                      *)
(* (packages/corporate_actions/adjust.py, apply_adjustment).               *)
(*                                                                         *)
(* Bars are [day, close], sorted by day; open, high and low are scaled     *)
(* like the close.  A factor is an exact fraction <<n, d>>: the rounding   *)
(* to four decimals is left out.  An action is [kind, day, ratio], its     *)
(* ratio a fraction, or NoRatio.                                           *)
(***************************************************************************)
EXTENDS Integers, Sequences, FiniteSetsExt

One == <<1, 1>>
NoRatio == <<0, 1>>

Times(a, b) == <<a[1] * b[1], a[2] * b[2]>>
Inverted(a) == <<a[2], a[1]>>

(* _factor_for_action: what the prices before the ex-date are multiplied   *)
(* by.  A dividend of the whole price or more gives 0 or less; a spin-off  *)
(* of that size is ignored.                                                *)
FactorOf(action, closeBefore) ==
  LET ratio == action.ratio
      cut == <<closeBefore * ratio[2] - ratio[1], closeBefore * ratio[2]>>
  IN  CASE action.kind \in {"SPLIT", "MERGER"} -> IF ratio[1] <= 0 THEN One ELSE Inverted(ratio)
        [] action.kind = "RIGHTS"   -> IF ratio[1] <= 0 THEN One ELSE ratio
        [] action.kind = "DIVIDEND" -> IF closeBefore <= 0 THEN One ELSE cut
        [] action.kind = "SPINOFF"  -> IF closeBefore <= 0 \/ cut[1] <= 0 THEN One ELSE cut
        [] OTHER -> One

CloseBefore(bars, day) ==
  LET earlier == {k \in DOMAIN bars : bars[k].day < day}
  IN  IF earlier = {} THEN 0 ELSE bars[Max(earlier)].close

(* factors_at_ex: the product of the factors of an ex-date's actions, One  *)
(* on every other date.                                                    *)
FactorAt(bars, actions, day) ==
  LET Effect(k) == IF actions[k].day = day THEN FactorOf(actions[k], CloseBefore(bars, day)) ELSE One
      product[k \in 0..Len(actions)] == IF k = 0 THEN One ELSE Times(product[k - 1], Effect(k))
  IN  product[Len(actions)]

\* Mutant of Future: the factor of a bar's own ex-date is applied to it too.
Future_Inclusive(bars, actions) ==
  LET cum[k \in DOMAIN bars] ==
        Times(IF k = Len(bars) THEN One ELSE cum[k + 1], FactorAt(bars, actions, bars[k].day))
  IN  cum

(* cum_future: per bar the product of the factors of later bars' dates, by *)
(* a walk from the newest bar.                                             *)
Future(bars, actions) ==
  LET cum[k \in DOMAIN bars] ==
        IF k = Len(bars) THEN One ELSE Times(cum[k + 1], FactorAt(bars, actions, bars[k + 1].day))
  IN  cum

(* cum_past: the inverse of the factors up to and including a bar's date.  *)
Past(bars, actions) ==
  LET cum[k \in DOMAIN bars] ==
        Times(IF k = 1 THEN One ELSE cum[k - 1], Inverted(FactorAt(bars, actions, bars[k].day)))
  IN  cum

(* apply_adjustment: the adjusted closes.                                  *)
Adjusted(bars, actions, mode) ==
  LET factor == CASE mode = "NONE"     -> [k \in DOMAIN bars |-> One]
                  [] mode = "BACKWARD" -> Future(bars, actions)
                  [] mode = "FORWARD"  -> Past(bars, actions)
  IN  [k \in DOMAIN bars |-> Times(<<bars[k].close, 1>>, factor[k])]
=============================================================================
