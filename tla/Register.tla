------------------------------ MODULE Register ------------------------------
(***************************************************************************)
(* warrant.py, score(): a register of predictions against an answer key.   *)
(* A prediction is [p, base], a probability and its baseline in percent;   *)
(* the key gives each "true", "false" or anything else, which is open.     *)
(* Sums are scaled to integers: the three terms of the decomposition and   *)
(* the Brier score by 10000 * n^2 * n! where n forecasts are resolved.     *)
(***************************************************************************)
EXTENDS Integers, FiniteSets, Functions

Clip == 1
Bins == 5

Resolved(key) == {i \in DOMAIN key : key[i] \in {"true", "false"}}
Happened(key, i) == IF key[i] = "true" THEN 1 ELSE 0

\* Clipped, for the scores and for the decomposition.
Forecast(preds, i) ==
  IF preds[i].p < Clip THEN Clip
  ELSE IF preds[i].p > 100 - Clip THEN 100 - Clip ELSE preds[i].p

\* The log score is positive when the forecast of what happened beats its baseline.
BeatsIgnorance(preds, key, i) ==
  LET p == Forecast(preds, i)
  IN  IF key[i] = "true" THEN p > preds[i].base ELSE 100 - p > 100 - preds[i].base

Brier(preds, key, i) == LET p == Forecast(preds, i)
                        IN  (p - 100 * Happened(key, i)) * (p - 100 * Happened(key, i))

Factorial[n \in Nat] == IF n = 0 THEN 1 ELSE n * Factorial[n - 1]

\* Mutant: forecasts are grouped by the interval they fall in, as in the table.
GroupOfInterval(preds, i) == (Forecast(preds, i) * Bins) \div 100

\* Forecasts are grouped by their value, not by the interval they fall in.
GroupOf(preds, i) == Forecast(preds, i)

Groups(preds, key) ==
  {{j \in Resolved(key) : GroupOf(preds, j) = GroupOf(preds, i)} : i \in Resolved(key)}

Hits(key, g) == Cardinality({i \in g : key[i] = "true"})

Murphy(preds, key) ==
  LET n == Cardinality(Resolved(key))
      k == Hits(key, Resolved(key))
      square(x) == x * x
      forecast(g) == Forecast(preds, CHOOSE i \in g : TRUE)
      share(g) == Factorial[n] \div Cardinality(g)
      off(g) == Cardinality(g) * forecast(g) - 100 * Hits(key, g)
      apart(g) == Hits(key, g) * n - k * Cardinality(g)
  IN  [reliability |-> n * n * SumFunction([g \in Groups(preds, key) |->
                                              share(g) * square(off(g))]),
       resolution  |-> 10000 * SumFunction([g \in Groups(preds, key) |->
                                              share(g) * square(apart(g))]),
       uncertainty |-> 10000 * Factorial[n] * n * k * (n - k)]

\* The table's intervals are half-open, the last one is closed.
InBin(preds, i, b) == LET p == Forecast(preds, i) * Bins
                      IN  100 * b <= p /\ (p < 100 * (b + 1) \/ (b = Bins - 1 /\ p = 100 * Bins))

\* The table leaves an empty interval out.
Table(preds, key) ==
  LET row(b) == {i \in Resolved(key) : InBin(preds, i, b)}
  IN  [b \in {b \in 0..(Bins - 1) : row(b) # {}} |-> Cardinality(row(b))]

score(preds, key) ==
  LET done == Resolved(key)
      n == Cardinality(done)
  IN  [predictions |-> Cardinality(DOMAIN preds), resolved |-> n,
       beat |-> Cardinality({i \in done : BeatsIgnorance(preds, key, i)}),
       brier |-> n * n * Factorial[n] * SumFunction([i \in done |-> Brier(preds, key, i)]),
       murphy |-> Murphy(preds, key),
       table |-> Table(preds, key)]
=============================================================================
