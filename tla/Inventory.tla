----------------------------- MODULE Inventory -----------------------------
(***************************************************************************)
(* The inventory tracker (src/crates/bb-core/src/helpers/inventory.rs)     *)
(* that every strategy keeps per venue: net position, average entry price  *)
(* and realized profit.  A buy has a positive quantity, a sell a negative  *)
(* one.                                                                    *)
(*                                                                         *)
(* Prices are decimals in the code; an average of integer prices is not an *)
(* integer, so the module keeps every money amount as a multiple of 1/Unit *)
(* and the checks use a Unit that divides evenly.                          *)
(***************************************************************************)
EXTENDS Integers, Sequences, SequencesExt

CONSTANT Unit   \* a positive number: money amounts are in 1/Unit

Magnitude(n) == IF n < 0 THEN -n ELSE n
Lesser(a, b) == IF a < b THEN a ELSE b

NewTracker == [net |-> 0, avg |-> 0, realized |-> 0]

Open(t, price, qty) == [t EXCEPT !.net = qty, !.avg = price]

Add(t, price, qty) ==
  [t EXCEPT !.net = @ + qty,
            !.avg = (@ * Magnitude(t.net) + price * Magnitude(qty))
                      \div (Magnitude(t.net) + Magnitude(qty))]

\* The entry price of what is left after a fill against the position.  Faulty
\* variant: a position that flips keeps the old entry price.
AvgKept(t, price, qty) == IF t.net + qty = 0 THEN 0 ELSE t.avg
AvgAfter(t, price, qty) ==
  IF t.net + qty = 0 THEN 0
  ELSE IF Magnitude(qty) > Magnitude(t.net) THEN price ELSE t.avg

Close(t, price, qty) ==
  LET closed == Lesser(Magnitude(t.net), Magnitude(qty))
      gain == IF t.net > 0 THEN price - t.avg ELSE t.avg - price
  IN  [net |-> t.net + qty, avg |-> AvgAfter(t, price, qty),
       realized |-> t.realized + gain * closed]

RecordFill(t, price, qty) ==
  IF t.net = 0 THEN Open(t, price, qty)
  ELSE IF (t.net > 0) = (qty > 0) THEN Add(t, price, qty)
  ELSE Close(t, price, qty)

\* position is the venue's, with its own entry price.
SeedFromPosition(t, position, entry) ==
  [t EXCEPT !.net = position, !.avg = IF position = 0 THEN 0 ELSE entry]

-----------------------------------------------------------------------------
(* What the tracker promises, over sequences of fills <<price, qty>>.      *)

AfterFills(t, fills) == FoldLeft(LAMBDA u, f : RecordFill(u, f[1], f[2]), t, fills)

\* What the fills have paid in and out.
CashFlow(fills) == FoldLeft(LAMBDA c, f : c - f[1] * f[2], 0, fills)

\* Whatever the open position is worth at the end, realized profit and the gain
\* on the average entry price add up to the money that has changed hands, and
\* a flat tracker has no entry price.
ProfitAddsUp(t, fills) ==
  LET u == AfterFills(t, fills)
  IN  /\ u.realized - t.realized = CashFlow(fills) + u.avg * u.net - t.avg * t.net
      /\ u.net = 0 => u.avg = 0
=============================================================================
