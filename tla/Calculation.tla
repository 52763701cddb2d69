---------------------------- MODULE Calculation ----------------------------
(***************************************************************************)
(* The figures: the money arithmetic (packages/core money.ts), the         *)
(* calculation connector that works with it and the synthetic ERP of the   *)
(* development wiring (packages/connectors adapters/calc.ts, stub-erp.ts). *)
(* An amount is a number of minor units in a unit, that is a currency and  *)
(* its scale; a rate is a decimal string, its digits and how many of them  *)
(* follow the point.  Inexact stands for every number that may not be the  *)
(* integer it should be: a fraction, one rounded past the safe integers,   *)
(* none at all.  What throws has the answer Thrown.                        *)
(***************************************************************************)
EXTENDS Integers, FiniteSets, Sequences, SequencesExt

CONSTANTS MaxSafe,      \* MAX_SAFE_INTEGER
          Inexact,
          Values,       \* the amounts a caller hands over: [minor, unit], a unit [currency, scale]
          Rates,        \* [digits, exponent]
          Splits,       \* numbers of shares
          Lists,        \* sequences of [key, amount], to be added up or reconciled
          Tolerances,   \* numbers, or NoTolerance
          NoTolerance,
          Postings,     \* calls of the ERP: [live, posts, lines]
          Accounts,     \* of the ERP's ledger
          Opening,      \* what they hold at first
          MaxPostings,  \* bound: entries of the ERP's journal
          MaxResets,    \* bound: resets of the ERP
          MaxCalcs      \* bound: calls of the connector

\* Digits are integers, the parts of an allocation at least one (it throws on
\* fewer), amounts any numbers.  That a power of ten is positive is plain
\* arithmetic, but nothing the prover knows of exponentiation.
Numbers == Int \union {Inexact}
ASSUME CalcConstants ==
  /\ {MaxSafe, MaxPostings, MaxResets, MaxCalcs} \subseteq Nat /\ Splits \subseteq Nat \ {0}
  /\ Inexact \notin Int /\ \A v \in Values : v.minor \in Numbers
  /\ \A rate \in Rates : rate.digits \in Int /\ rate.exponent \in Nat /\ 10 ^ rate.exponent > 0
  /\ \A list \in Lists : /\ list \in Seq(Range(list))
                          /\ \A item \in Range(list) : item.amount.minor \in Numbers
  /\ \A call \in Postings : call.lines \in Seq([account : Accounts, amount : Numbers])
  /\ Opening \in [Accounts -> Int]

VARIABLES balances,     \* of the ERP's accounts
          entries,      \* what the ERP was asked to do
          opening,      \* history: the balances when the journal was last cleared
          resets,
          calc,         \* the last call of the connector and its answer
          calcs

erpVars == <<balances, entries, opening, resets>>
calcVars == <<erpVars, calc, calcs>>

Thrown == [thrown |-> TRUE]
Magnitude(n) == IF n < 0 THEN -n ELSE n
Signed(negative, n) == IF negative THEN -n ELSE n

\* money, toMoney: safe integers only.
Safe(n) == n # Inexact /\ Magnitude(n) <= MaxSafe
Made(minor, unit) ==
  IF Safe(minor) THEN [thrown |-> FALSE, minor |-> minor, unit |-> unit] ELSE Thrown
Given(v) == Made(v.minor, v.unit)

\* divideRounded, on the magnitudes.
Further(quotient, twice, d, mode) ==
  \/ mode = "up" /\ twice > 0
  \/ mode = "half_up" /\ twice >= d
  \/ mode = "half_even" /\ (twice > d \/ (twice = d /\ quotient % 2 = 1))
Bug_RoundSigned(n, d, mode) ==
  LET quotient == n \div d
  IN  IF Further(quotient, 2 * (n % d), d, mode) THEN quotient + 1 ELSE quotient
DivideRounded(n, d, mode) ==
  LET quotient == Magnitude(n) \div d
      away == Further(quotient, 2 * (Magnitude(n) % d), d, mode)
  IN  Signed(n < 0, IF away THEN quotient + 1 ELSE quotient)
MultiplyByRate(v, rate, mode) ==
  IF Given(v).thrown THEN Thrown
  ELSE Made(DivideRounded(v.minor * rate.digits, 10 ^ rate.exponent, mode), v.unit)

\* add, subtract and sum, which throw on a second currency or scale.
Combined(a, b, sign) ==
  IF a.thrown \/ b.thrown THEN Thrown
  ELSE IF a.unit # b.unit THEN Thrown
  ELSE Made(a.minor + sign * b.minor, a.unit)
Sum(values, unit) ==
  FoldLeft(LAMBDA total, v : Combined(total, Given(v), 1), Made(0, unit), values)

\* allocate: the remainder one unit at a time, from the first share.
Shares(v, parts) ==
  LET base == Signed(v.minor < 0, Magnitude(v.minor) \div parts)
      extra == Magnitude(v.minor) % parts
  IN  [k \in 1..parts |-> IF k <= extra THEN base + Signed(v.minor < 0, 1) ELSE base]

\* TL-CALC-03: of the right-hand items with one key the map keeps the last, and
\* the first left-hand item with the key takes it.  One pair that cannot be
\* subtracted and there is no answer; a tolerance is a number of either unit.
Kept(right) == {k \in DOMAIN right : \A j \in DOMAIN right :
                                        right[j].key = right[k].key => j <= k}
Taker(left, k) == \A j \in 1..(k - 1) : left[j].key # left[k].key
Pairs(left, right) ==
  {p \in (DOMAIN left) \X Kept(right) : left[p[1]].key = right[p[2]].key /\ Taker(left, p[1])}
Within(difference, tolerance) ==
  IF tolerance = NoTolerance THEN difference = 0 ELSE Magnitude(difference) <= Magnitude(tolerance)
Reconciled(left, right, tolerance) ==
  LET pairs == Pairs(left, right)
      difference(p) == Combined(Given(left[p[1]].amount), Given(right[p[2]].amount), -1)
      even == {p \in pairs : difference(p).minor = 0}
  IN  IF \E p \in pairs : difference(p).thrown THEN Thrown
      ELSE [thrown |-> FALSE, matched |-> even,
            variances |-> {[left |-> p[1], right |-> p[2], difference |-> difference(p),
                            within |-> Within(difference(p).minor, tolerance)] : p \in pairs \ even},
            unmatchedLeft |-> {k \in DOMAIN left : \A p \in pairs : p[1] # k},
            unmatchedRight |-> {k \in Kept(right) : \A p \in pairs : p[2] # k}]

\* TL-CALC-05: the stated total against the sum of the components; where they
\* disagree the difference is handed back too.
Verified(components, stated) ==
  LET difference == Combined(Given(stated), Sum(components, stated.unit), -1)
  IN  IF difference.thrown THEN Thrown ELSE [thrown |-> FALSE, agrees |-> difference.minor = 0]

NoCalc == [tool |-> "none"]
CalcInit ==
  /\ balances = Opening /\ opening = Opening
  /\ entries = <<>> /\ resets = 0
  /\ calc = NoCalc /\ calcs = 0

Computes(call) ==
  /\ calcs < MaxCalcs
  /\ calcs' = calcs + 1 /\ calc' = call
  /\ UNCHANGED erpVars

Currencies == {v.unit.currency : v \in Values}
Figures(list) == [k \in DOMAIN list |-> list[k].amount]

ApplyRate ==
  \E v \in Values, rate \in Rates, mode \in {"half_up", "half_even", "up", "down"} :
    Computes([tool |-> "rate", of |-> v, rate |-> rate, mode |-> mode,
              answer |-> MultiplyByRate(v, rate, mode)])
Allocate ==
  \E v \in Values, parts \in Splits :
    /\ ~Given(v).thrown
    /\ Computes([tool |-> "shares", of |-> v, answer |-> Shares(v, parts)])
\* TL-CALC-04: converted, then named in the other currency.
Translate ==
  \E v \in Values, rate \in Rates, currency \in Currencies :
    Computes([tool |-> "translate", of |-> v, rate |-> rate, mode |-> "half_up",
              answer |-> LET converted == MultiplyByRate(v, rate, "half_up")
                         IN  IF converted.thrown THEN Thrown
                             ELSE Made(converted.minor, [currency |-> currency, scale |-> v.unit.scale])])
\* In the currency asked for, at the scale of the first amount.
AddUp ==
  \E list \in Lists, currency \in Currencies :
    LET unit == [currency |-> currency,
                 scale |-> IF list = <<>> THEN 2 ELSE list[1].amount.unit.scale]
    IN  Computes([tool |-> "sum", of |-> Figures(list), unit |-> unit,
                  answer |-> Sum(Figures(list), unit)])
Subtract ==
  \E v, w \in Values :
    Computes([tool |-> "subtract", of |-> v, by |-> w, answer |-> Combined(Given(v), Given(w), -1)])
Reconcile ==
  \E left, right \in Lists, tolerance \in Tolerances :
    Computes([tool |-> "reconcile", left |-> left, right |-> right, tolerance |-> tolerance,
              answer |-> Reconciled(left, right, tolerance)])
VerifyTotal ==
  \E list \in Lists, stated \in Values :
    Computes([tool |-> "verify", of |-> Figures(list), unit |-> stated.unit, stated |-> stated,
              answer |-> Verified(Figures(list), stated)])

\* The ERP enters every call; a live journal or invoice moves its accounts,
\* line by line, as numbers nobody checks.
Plus(x, y) == IF Inexact \in {x, y} THEN Inexact ELSE IF Safe(x + y) THEN x + y ELSE Inexact
Moved(held, lines) ==
  FoldLeft(LAMBDA b, line : [b EXCEPT ![line.account] = Plus(@, line.amount)], held, lines)
Write(call) ==
  /\ Len(entries) < MaxPostings
  /\ entries' = Append(entries, call)
  /\ balances' = IF call.live /\ call.posts THEN Moved(balances, call.lines) ELSE balances
  /\ UNCHANGED <<opening, resets, calc, calcs>>
\* reset: the journal is cleared, and the balances stay.
Reset ==
  /\ resets < MaxResets
  /\ resets' = resets + 1
  /\ entries' = <<>> /\ opening' = balances
  /\ UNCHANGED <<balances, calc, calcs>>

CalcNext ==
  \/ ApplyRate \/ Allocate \/ Translate \/ AddUp \/ Subtract \/ Reconcile \/ VerifyTotal
  \/ \E call \in Postings : Write(call)
  \/ Reset

CalcSpec == CalcInit /\ [][CalcNext]_calcVars

CalcTypeOK ==
  /\ balances \in [Accounts -> Numbers] /\ opening \in [Accounts -> Numbers]
  /\ Len(entries) <= MaxPostings /\ resets \in 0..MaxResets /\ calcs \in 0..MaxCalcs

\* What holds of the figures handed back, by the definition of each.  A rate is
\* applied to within less than a unit, on the side its rounding names.
RateIsApplied(c) ==
  LET d == 10 ^ c.rate.exponent
      exact == c.of.minor * c.rate.digits
      off == Magnitude(c.answer.minor * d - exact)
      past == Magnitude(c.answer.minor) * d - Magnitude(exact)
  IN  /\ off < d
      /\ c.mode \in {"half_up", "half_even"} => 2 * off <= d
      /\ c.mode = "half_up" /\ 2 * off = d => past > 0
      /\ c.mode = "half_even" /\ 2 * off = d => c.answer.minor % 2 = 0
      /\ c.mode = "up" => past >= 0
      /\ c.mode = "down" => past <= 0
RatesAreApplied ==
  calc.tool \in {"rate", "translate"} /\ ~calc.answer.thrown =>
    RateIsApplied(calc) /\ Safe(calc.of.minor) /\ Safe(calc.answer.minor)
\* Shares add up, and none is more than a unit larger than a later one.
SharesAddUp(c) ==
  LET s == c.answer
  IN  /\ SumFunctionOnSet(s, DOMAIN s) = c.of.minor
      /\ \A j, k \in DOMAIN s : j <= k => Magnitude(s[j]) - Magnitude(s[k]) \in 0..1
      /\ \A k \in DOMAIN s : Safe(s[k])
\* A sum is refused when an amount is of another unit or no safe integer, or
\* when it passes the safe integers on the way, and is exact otherwise; and so
\* for a difference, and for the verdict on a stated total.
RunningTotal(values, k) == SumFunctionOnSet([j \in DOMAIN values |-> values[j].minor], 1..k)
AddsUp(values, unit) ==
  \A k \in DOMAIN values :
    Safe(values[k].minor) /\ values[k].unit = unit /\ Safe(RunningTotal(values, k))
SumIsExact(c) ==
  /\ c.answer.thrown <=> ~AddsUp(c.of, c.unit)
  /\ ~c.answer.thrown => c.answer.minor = RunningTotal(c.of, Len(c.of)) /\ c.answer.unit = c.unit
DifferenceIsExact(c) ==
  /\ c.answer.thrown <=>
       ~(Safe(c.of.minor) /\ Safe(c.by.minor) /\ c.of.unit = c.by.unit /\ Safe(c.of.minor - c.by.minor))
  /\ ~c.answer.thrown => c.answer.minor = c.of.minor - c.by.minor /\ c.answer.unit = c.of.unit
VerdictIsRight(c) ==
  /\ c.answer.thrown <=>
       ~(Safe(c.stated.minor) /\ AddsUp(c.of, c.unit) /\ Safe(c.stated.minor - RunningTotal(c.of, Len(c.of))))
  /\ ~c.answer.thrown => (c.answer.agrees <=> c.stated.minor = RunningTotal(c.of, Len(c.of)))
\* A reconciliation is refused only when two items with one key cannot be
\* subtracted.  Otherwise it accounts for each item once (of right-hand items
\* with one key the last; the others are in no list) and, unit by unit, for the
\* whole difference of the two sides; and what it calls within tolerance is.
InUnit(list, unit) ==
  [k \in DOMAIN list |-> IF list[k].amount.unit = unit /\ list[k].amount.minor # Inexact
                         THEN list[k].amount.minor ELSE 0]
RefusedForCause(c) ==
  \E j \in DOMAIN c.left, k \in DOMAIN c.right :
    LET l == c.left[j].amount
        r == c.right[k].amount
    IN  /\ c.left[j].key = c.right[k].key
        /\ ~(Safe(l.minor) /\ Safe(r.minor) /\ l.unit = r.unit /\ Safe(l.minor - r.minor))
AllAccountedFor(c) ==
  LET r == c.answer
      lefts == {p[1] : p \in r.matched} \union {v.left : v \in r.variances}
      rights == {p[2] : p \in r.matched} \union {v.right : v \in r.variances}
      last == {Max({j \in DOMAIN c.right : c.right[j].key = k}) :
                 k \in {item.key : item \in Range(c.right)}}
  IN  /\ Cardinality(r.matched) + Cardinality(r.variances) + Cardinality(r.unmatchedLeft)
            = Len(c.left)
      /\ lefts \union r.unmatchedLeft = DOMAIN c.left /\ rights \union r.unmatchedRight = last
      /\ \A u \in {item.amount.unit : item \in Range(c.left) \union Range(c.right)} :
           SumFunctionOnSet(InUnit(c.left, u), DOMAIN c.left) - SumFunctionOnSet(InUnit(c.right, u), last)
             = SumFunction([v \in r.variances |-> IF v.difference.unit = u THEN v.difference.minor ELSE 0])
               + SumFunctionOnSet(InUnit(c.left, u), r.unmatchedLeft)
               - SumFunctionOnSet(InUnit(c.right, u), r.unmatchedRight)
      /\ \A v \in r.variances :
           /\ Safe(v.difference.minor) /\ v.difference.minor # 0
           /\ v.within <=> c.tolerance # NoTolerance /\ Magnitude(v.difference.minor) <= Magnitude(c.tolerance)
ReconciliationIsComplete(c) == IF c.answer.thrown THEN RefusedForCause(c) ELSE AllAccountedFor(c)
\* An account of the ERP that holds a safe integer held one at the last reset
\* and was never past them since, and holds what the live postings in the
\* journal add to that; of another account nothing is known.
PostedLines(call, a) ==
  IF call.live /\ call.posts THEN {k \in DOMAIN call.lines : call.lines[k].account = a} ELSE {}
Posted(call, a) == SumFunction([k \in PostedLines(call, a) |-> call.lines[k].amount])
LedgerHolds(a) ==
  balances[a] # Inexact =>
    /\ opening[a] # Inexact
    /\ \A j \in DOMAIN entries : \A k \in PostedLines(entries[j], a) : entries[j].lines[k].amount # Inexact
    /\ balances[a] = opening[a] + SumFunction([j \in DOMAIN entries |-> Posted(entries[j], a)])

\* Whatever the calculation tools hand back is exact, and nothing of it past
\* the safe integers (money.ts: "no float ever represents a monetary value");
\* the synthetic ERP, which checks nothing, is exact until it is not.
FiguresAreExact ==
  /\ RatesAreApplied
  /\ calc.tool = "shares" => SharesAddUp(calc)
  /\ calc.tool = "sum" => SumIsExact(calc)
  /\ calc.tool = "subtract" => DifferenceIsExact(calc)
  /\ calc.tool = "verify" => VerdictIsRight(calc)
  /\ calc.tool = "reconcile" => ReconciliationIsComplete(calc)
  /\ \A a \in Accounts : LedgerHolds(a)
=============================================================================
