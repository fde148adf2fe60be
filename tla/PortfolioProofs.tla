--------------------------- MODULE PortfolioProofs --------------------------
(***************************************************************************)
(* What holds of Portfolio for every calendar, every set of signals and    *)
(* prices, and all parameters that parse() accepts: cash stays above the   *)
(* buffer; no trade foresees a bar; nothing is left open; each trade is    *)
(* the one that independent mode simulates; each signal is traded, held,   *)
(* upcoming or counted as skipped; and the books balance, to the quantum   *)
(* that a stored row is rounded to.                                        *)
(***************************************************************************)
EXTENDS Portfolio, FoldTheorems

USE DEF ValidTrading, ValidPortfolio

(***************************************************************************)
(* Arithmetic.                                                             *)
(***************************************************************************)

\* Division by the denominator of the rates rounds towards minus infinity.
LEMMA DivLemma ==
  ASSUME NEW n \in Int
  PROVE  /\ n \div D \in Int
         /\ D * (n \div D) <= n
         /\ n >= 0 => n \div D >= 0
  BY ParametersAssumption

\* A product of naturals is a natural.
LEMMA TimesNat ==
  ASSUME NEW a \in Nat, NEW b \in Nat
  PROVE  a * b \in Nat
  BY SMT

\* Multiplication by a natural is monotone.
LEMMA TimesMonotone ==
  ASSUME NEW n \in Nat, NEW a \in Int, NEW b \in Int, a <= b
  PROVE  n * a <= n * b
<1>1. n * (b - a) >= 0
  BY SMT
<1>2. n * (b - a) = n * b - n * a
  BY SMT
<1> QED
  BY <1>1, <1>2

\* A rate of an amount is a part of it.
LEMMA RateLemma ==
  ASSUME NEW n \in Nat, NEW r \in 0..D
  PROVE  /\ (n * r) \div D \in Nat
         /\ D * ((n * r) \div D) <= n * r
<1>1. r \in Nat /\ n * r \in Nat
  BY TimesNat, ParametersAssumption
<1> QED
  BY <1>1, DivLemma

\* The denominator of the rates can be cancelled.
LEMMA CancelD ==
  ASSUME NEW a \in Int, NEW b \in Int, D * a <= D * b
  PROVE  a <= b
  BY ParametersAssumption

\* The units of money.
LEMMA WholeNat == Whole \in Nat /\ Whole > 0
<1>1. D \in Nat /\ D > 0
  BY ParametersAssumption
<1>2. D * D \in Nat /\ D * D > 0
  BY <1>1
<1>3. D * D * D \in Nat /\ D * D * D > 0
  BY <1>1, <1>2
<1> QED
  BY <1>1, <1>3 DEF Whole

\* A whole amount is an amount of money.
LEMMA MoneyNat == ASSUME NEW a \in Nat PROVE Money(a) \in Nat
  BY WholeNat, TimesNat DEF Money

\* The buffer is part of the capital.
LEMMA BufferLemma ==
  /\ Buffer \in Nat
  /\ Money(InitialCapital) \in Nat
  /\ Buffer <= Money(InitialCapital)
<1> DEFINE m == Money(InitialCapital)
<1>1. m \in Nat
  BY MoneyNat, PortfolioAssumption
<1>2. MinimumCashBufferPct \in 0..D /\ MinimumCashBufferPct \in Nat /\ MinimumCashBufferPct <= D
  BY PortfolioAssumption, ParametersAssumption
<1>3. Buffer \in Nat /\ D * Buffer <= m * MinimumCashBufferPct
  BY <1>1, <1>2, RateLemma DEF Buffer
<1>4. m * MinimumCashBufferPct <= D * m
  <2> HIDE DEF m
  <2> QED BY <1>1, <1>2, ParametersAssumption
<1>5. D * Buffer <= D * m
  <2>1. m * MinimumCashBufferPct \in Nat /\ D * Buffer \in Int /\ D * m \in Int
    <3> HIDE DEF m
    <3> QED BY <1>1, <1>2, <1>3, TimesNat, ParametersAssumption
  <2> QED BY <1>3, <1>4, <2>1
<1> QED
  BY <1>1, <1>3, <1>5, CancelD

\* A sale brings in money unless its costs exceed it.
LEMMA ProceedsLemma ==
  ASSUME NEW n \in Nat, CommissionRate + SellTaxRate <= D
  PROVE  /\ Commission(n) \in Nat /\ SellTax(n) \in Nat
         /\ n - Commission(n) - SellTax(n) >= 0
<1>1. /\ CommissionRate \in 0..D /\ SellTaxRate \in 0..D
      /\ CommissionRate \in Nat /\ SellTaxRate \in Nat /\ D \in Nat
  BY ParametersAssumption
<1>2. /\ Commission(n) \in Nat /\ D * Commission(n) <= n * CommissionRate
      /\ SellTax(n) \in Nat /\ D * SellTax(n) <= n * SellTaxRate
  BY <1>1, RateLemma DEF Commission, SellTax
<1>3. n * CommissionRate + n * SellTaxRate <= D * n
  <2>1. n * CommissionRate + n * SellTaxRate = n * (CommissionRate + SellTaxRate)
    BY <1>1
  <2>2. n * (CommissionRate + SellTaxRate) <= n * D
    BY <1>1, TimesMonotone
  <2> QED BY <1>1, <2>1, <2>2
<1>4. D * (Commission(n) + SellTax(n)) <= D * n
  <2>1. D * (Commission(n) + SellTax(n)) = D * Commission(n) + D * SellTax(n)
    BY <1>1, <1>2
  <2>2. /\ D * Commission(n) \in Int /\ D * SellTax(n) \in Int /\ D * n \in Int
        /\ n * CommissionRate \in Int /\ n * SellTaxRate \in Int
    BY <1>1, <1>2
  <2> QED BY <1>2, <1>3, <2>1, <2>2
<1>5. Commission(n) + SellTax(n) <= n
  <2>1. Commission(n) + SellTax(n) \in Int /\ n \in Int
    BY <1>2
  <2> QED BY <1>4, <2>1, CancelD
<1> QED
  BY <1>2, <1>5

\* What fits does not touch the buffer.
LEMMA RequiredLemma ==
  ASSUME NEW price \in Nat, NEW q \in Nat, NEW spendable \in Int,
         price * q * (D + CommissionRate) <= spendable * D
  PROVE  /\ price * q + Commission(price * q) \in Int
         /\ price * q + Commission(price * q) <= spendable
<1> DEFINE n == price * q
<1>1. n \in Nat
  BY TimesNat
<1>2. CommissionRate \in 0..D /\ CommissionRate \in Nat /\ D \in Nat
  BY ParametersAssumption
<1>3. Commission(n) \in Nat /\ D * Commission(n) <= n * CommissionRate
  BY <1>1, <1>2, RateLemma DEF Commission
<1>4. D * (n + Commission(n)) <= D * spendable
  <2>1. n * (D + CommissionRate) <= spendable * D
    OBVIOUS
  <2> HIDE DEF n
  <2>2. n * (D + CommissionRate) = D * n + n * CommissionRate
    BY <1>1, <1>2
  <2>3. D * (n + Commission(n)) = D * n + D * Commission(n)
    BY <1>1, <1>2, <1>3
  <2>4. /\ D * n \in Int /\ n * CommissionRate \in Int /\ D * Commission(n) \in Int
        /\ D * spendable \in Int /\ spendable * D = D * spendable
    BY <1>1, <1>2, <1>3
  <2> QED BY <1>3, <2>1, <2>2, <2>3, <2>4
<1>5. n + Commission(n) <= spendable
  <2> HIDE DEF n
  <2> QED BY <1>1, <1>3, <1>4, CancelD
<1> QED
  BY <1>1, <1>3, <1>5
(***************************************************************************)
(* The inductive invariant.                                                *)
(***************************************************************************)
PositionRecords ==
  [signal : Signals \cup {NoSignal}, entry_date : 0..LastDay,
   bar : [open : Nat, high : Nat, low : Nat, close : Nat],
   quantity : Nat, last_close : Nat, holding_days : Nat]

\* The types, and that the bars an action reads have been drawn.
Types ==
  /\ cash \in Int
  /\ day \in Days
  /\ phase \in {"plan", "open", "exits", "entries", "done", "failed"}
  /\ present \in [Days -> SUBSET Symbols]
  /\ signals \subseteq Signals
  /\ positions \in [Symbols -> PositionRecords]
  /\ DOMAIN bars = Days
  /\ \A d \in Days : \A s \in DOMAIN bars[d] : bars[d][s] \in Prices

Planned ==
  /\ DOMAIN planned = Days
  /\ \A d \in Days : \A g \in planned[d] : g \in signals /\ g.symbol \in present[d]

Drawn ==
  /\ exits \subseteq Open
  /\ phase # "exits" => exits = {}
  /\ entries \subseteq signals
  /\ phase \in {"exits", "entries"} =>
       /\ \A s \in Open : s \in present[day] => s \in DOMAIN bars[day]
       /\ \A g \in entries : g.symbol \in present[day] /\ g.symbol \in DOMAIN bars[day]
  /\ \A s \in Open : /\ positions[s].entry_date <= day
                     /\ positions[s].entry_date = day => s \in present[day]

BufferInv == Types /\ Planned /\ Drawn /\ BufferIsKept

BarRecords == [open : Nat, high : Nat, low : Nat, close : Nat]

\* The costs of a sale are amounts of money.
LEMMA CostTypes ==
  ASSUME NEW n \in Nat
  PROVE  Commission(n) \in Nat /\ SellTax(n) \in Nat
<1>1. CommissionRate \in 0..D /\ SellTaxRate \in 0..D
  BY ParametersAssumption
<1> QED
  BY <1>1, RateLemma DEF Commission, SellTax

\* Prices with slippage are amounts of money.
LEMMA EntryPriceNat ==
  ASSUME NEW bar \in BarRecords
  PROVE  EntryPrice(bar) \in Nat
<1>1. bar.open \in Nat /\ D \in Nat /\ D + SlippageRate \in Nat
  BY ParametersAssumption DEF BarRecords
<1>2. bar.open * (D + SlippageRate) \in Nat
  BY <1>1, TimesNat
<1>3. bar.open * (D + SlippageRate) * D \in Nat
  BY <1>1, <1>2, TimesNat
<1>4. bar.open * (D + SlippageRate) * D * D \in Nat
  BY <1>1, <1>3, TimesNat
<1>5. bar.open * (D + SlippageRate) * D * D * D \in Nat
  BY <1>1, <1>4, TimesNat
<1> QED
  BY <1>5 DEF EntryPrice

\* So are prices less slippage.
LEMMA ExitPriceNat ==
  ASSUME NEW raw \in Nat
  PROVE  ExitPrice(raw) \in Nat
<1>1. D - SlippageRate \in 0..D
  BY ParametersAssumption
<1> QED
  BY <1>1, RateLemma DEF ExitPrice

\* The price at which the rules close a position is an amount of money.
LEMMA ExitRuleNat ==
  ASSUME NEW entry \in Nat, NEW holding \in Nat, NEW bar \in BarRecords
  PROVE  ExitRule(entry, holding, bar).raw \in Nat
<1>1. D - StopLossPct \in 0..D /\ D + TakeProfitPct \in Nat
  BY ParametersAssumption
<1>2. Stop(entry) \in Nat
  BY <1>1, RateLemma DEF Stop
<1>3. entry * (D + TakeProfitPct) \in Nat
  BY <1>1, TimesNat
<1>4. Target(entry) \in Nat
  BY <1>3, DivLemma DEF Target
<1>5. Money(bar.open) \in Nat /\ Money(bar.close) \in Nat
  BY MoneyNat DEF BarRecords
<1> QED
  BY <1>2, <1>4, <1>5 DEF ExitRule, NoExit

\* The bars that are drawn are bars.
LEMMA BarType ==
  ASSUME Types, NEW s \in DOMAIN bars[day]
  PROVE  bars[day][s] \in BarRecords
  BY PortfolioAssumption DEF Types, BarRecords

\* close_position() never lowers the cash, unless a sale costs more than it
\* brings.
LEMMA CloseLemma ==
  ASSUME Types, NEW s, NEW p, NEW raw \in Nat, NEW reason,
         p.quantity \in Nat, ClosePosition(s, p, raw, reason)
  PROVE  /\ cash' \in Int
         /\ CommissionRate + SellTaxRate <= D => cash' >= cash
<1> DEFINE n == ExitPrice(raw) * p.quantity
<1>1. n \in Nat
  BY ExitPriceNat, TimesNat
<1>2. cash' = cash + (n - Commission(n) - SellTax(n))
  BY DEF ClosePosition
<1>3. Commission(n) \in Nat /\ SellTax(n) \in Nat
  BY <1>1, CostTypes
<1>4. CommissionRate + SellTaxRate <= D => n - Commission(n) - SellTax(n) >= 0
  BY <1>1, ProceedsLemma
<1> HIDE DEF n
<1> QED
  BY <1>1, <1>2, <1>3, <1>4 DEF Types

\* Min takes a member of the set.
LEMMA MinIn ==
  ASSUME NEW T, T \subseteq Nat, T # {}
  PROVE  Min(T) \in T
  BY SmallestNat DEF Min

\* The signal that is entered next is one of those left.
LEMMA NextEntryIn ==
  ASSUME entries # {}, entries \subseteq Signals
  PROVE  NextEntry \in entries
<1> DEFINE dates == {g.date : g \in entries}
<1>1. \A g \in Signals : g.date \in Nat /\ g.symbol \in Nat
  <2>1. Symbols \subseteq Nat /\ SignalDays \subseteq Nat
    BY PortfolioAssumption DEF Days
  <2> QED BY <2>1 DEF Signals
<1>2. PICK d \in dates : \A e \in dates : d <= e
  <2>1. dates \subseteq Nat /\ dates # {}
    BY <1>1
  <2> QED BY <2>1, SmallestNat
<1> DEFINE first == {g \in entries : g.date = d}
<1>3. PICK n \in {g.symbol : g \in first} : \A m \in {g.symbol : g \in first} : n <= m
  <2>1. {g.symbol : g \in first} \subseteq Nat /\ {g.symbol : g \in first} # {}
    BY <1>1, <1>2
  <2> QED BY <2>1, SmallestNat
<1>4. PICK g \in first : g.symbol = n
  BY <1>3
<1>5. ASSUME NEW h \in entries
      PROVE  g.date < h.date \/ (g.date = h.date /\ g.symbol <= h.symbol)
  <2>1. d \in Nat /\ h.date \in Nat /\ d <= h.date /\ g.date = d
    BY <1>1, <1>2, <1>4
  <2>2. h.date = d => g.symbol <= h.symbol
    BY <1>3, <1>4
  <2> QED BY <2>1, <2>2
<1> QED
  BY <1>4, <1>5 DEF NextEntry

(***************************************************************************)
(* The invariant holds initially and every action keeps it.                *)
(***************************************************************************)

\* The state from which a run begins.
LEMMA BufferInit == Init => BufferInv
<1> SUFFICES ASSUME Init PROVE BufferInv
  OBVIOUS
<1>1. Open = {}
  BY DEF Init, Open
<1>2. Flat \in PositionRecords
  BY PortfolioAssumption DEF Flat, PositionRecords
<1>3. Types
  <2>1. cash \in Int
    BY BufferLemma DEF Init
  <2>2. day \in Days
    BY PortfolioAssumption DEF Init, Days
  <2>3. present \in [Days -> SUBSET Symbols]
    BY DEF Init, Signals
  <2>4. \A d \in Days : DOMAIN bars[d] = {}
    BY DEF Init
  <2> QED BY <1>2, <2>1, <2>2, <2>3, <2>4 DEF Init, Types
<1>4. Planned
  BY DEF Init, Planned
<1>5. Drawn
  BY <1>1 DEF Init, Drawn
<1>6. BufferIsKept
  BY BufferLemma DEF Init, BufferIsKept
<1> QED
  BY <1>3, <1>4, <1>5, <1>6 DEF BufferInv

\* Planning puts a signal on a day on which its symbol has a bar.
LEMMA PlanStep == BufferInv /\ PlanEntries => BufferInv'
<1> SUFFICES ASSUME BufferInv, PlanEntries PROVE BufferInv'
  OBVIOUS
<1>1. Types' /\ BufferIsKept'
  BY DEF BufferInv, PlanEntries, Types, BufferIsKept, Buffer, input, account
<1>2. Planned'
  <2>1. ASSUME NEW d \in Days, NEW g \in planned'[d]
        PROVE  g \in signals' /\ g.symbol \in present'[d]
    <3>1. g \in signals /\ EntryDays(g) # {} /\ Min(EntryDays(g)) = d
      BY <2>1 DEF PlanEntries
    <3>2. EntryDays(g) \subseteq Nat
      BY PortfolioAssumption DEF EntryDays, Days
    <3>3. d \in EntryDays(g)
      BY <3>1, <3>2, MinIn
    <3> QED BY <3>1, <3>3 DEF EntryDays, PlanEntries, input
  <2> QED BY <2>1 DEF Planned, PlanEntries
<1>3. Drawn'
  BY DEF BufferInv, PlanEntries, Drawn, Open, input, account
<1> QED
  BY <1>1, <1>2, <1>3 DEF BufferInv

\* Opening a day draws the bars that it will read.
LEMMA OpenStep == BufferInv /\ OpenDay => BufferInv'
<1> SUFFICES ASSUME BufferInv, OpenDay PROVE BufferInv'
  OBVIOUS
<1>1. PICK b \in [Read -> Prices] : bars' = [bars EXCEPT ![day] = b]
  BY DEF OpenDay
<1>2. UNCHANGED <<cash, day, present, signals, positions, planned>>
  BY DEF OpenDay, input, account
<1>3. bars'[day] = b /\ DOMAIN bars' = Days
      /\ \A d \in Days : d # day => bars'[d] = bars[d]
  BY <1>1 DEF BufferInv, Types
<1>4. Types'
  BY <1>1, <1>2, <1>3 DEF BufferInv, OpenDay, Types
<1>5. Planned' /\ BufferIsKept'
  BY <1>2 DEF BufferInv, Planned, BufferIsKept, Buffer
<1>6. Drawn'
  <2>1. Open' = Open
    BY <1>2 DEF Open
  <2>2. \A s \in Open : s \in present[day] => s \in DOMAIN bars'[day]
    BY <1>1, <1>3 DEF Read
  <2>3. \A g \in entries' : /\ g \in signals /\ g.symbol \in present[day]
                            /\ g.symbol \in DOMAIN bars'[day]
    BY <1>1, <1>3 DEF Read, OpenDay, BufferInv, Types, Planned
  <2> QED BY <1>2, <2>1, <2>2, <2>3 DEF BufferInv, Drawn, OpenDay
<1> QED
  BY <1>4, <1>5, <1>6 DEF BufferInv

\* Closing the position of s keeps all of the invariant but the phase.
LEMMA CloseStep ==
  ASSUME BufferInv, NEW s \in Open, NEW p, NEW raw \in Nat, NEW reason,
         p.quantity \in Nat, ClosePosition(s, p, raw, reason),
         UNCHANGED <<input, bars, phase, day, planned>>,
         exits' \subseteq exits \ {s}, entries' \subseteq entries
  PROVE  BufferInv'
<1>1. Flat \in PositionRecords
  BY PortfolioAssumption DEF Flat, PositionRecords
<1>2. positions' = [positions EXCEPT ![s] = Flat]
  BY DEF ClosePosition
<1>3. cash' \in Int /\ (CommissionRate + SellTaxRate <= D => cash' >= cash)
  BY CloseLemma DEF BufferInv
<1>4. Types'
  BY <1>1, <1>2, <1>3 DEF BufferInv, Types, input
<1>5. Planned'
  BY DEF BufferInv, Planned, input
<1>6. BufferIsKept'
  BY <1>3, BufferLemma DEF BufferInv, BufferIsKept, Types, Buffer
<1>7. Open' = Open \ {s}
  BY <1>2 DEF BufferInv, Types, Open
<1>8. \A t \in Open' : positions'[t] = positions[t]
  BY <1>2, <1>7 DEF BufferInv, Types, Open
<1>9. Drawn'
  BY <1>7, <1>8 DEF BufferInv, Drawn, input
<1> QED
  BY <1>4, <1>5, <1>6, <1>9 DEF BufferInv

\* A step that changes neither the account nor the inputs.
LEMMA IdleStep ==
  ASSUME BufferInv, UNCHANGED <<input, bars, day, planned, cash, positions>>,
         exits' \subseteq exits, entries' \subseteq entries,
         phase' \in {"exits", "entries", "failed", phase},
         phase' \in {"exits", "entries"} => phase \in {"exits", "entries"},
         phase' # "exits" => exits' = {}
  PROVE  BufferInv'
<1>1. phase' \in {"plan", "open", "exits", "entries", "done", "failed"}
  BY DEF BufferInv, Types
<1>2. Types' /\ Planned' /\ BufferIsKept'
  BY <1>1 DEF BufferInv, Types, Planned, BufferIsKept, Buffer, input
<1>3. Open' = Open
  BY DEF Open
<1>4. Drawn'
  BY <1>3 DEF BufferInv, Drawn, input
<1> QED
  BY <1>2, <1>4 DEF BufferInv

\* A held position is only counted one day longer.
LEMMA HoldStep == BufferInv /\ Hold => BufferInv'
<1> SUFFICES ASSUME BufferInv, Hold PROVE BufferInv'
  OBVIOUS
<1> DEFINE s == NextExit
<1>1. s \in exits /\ s \in Open /\ s \in Symbols
  BY MinIn, PortfolioAssumption DEF BufferInv, Drawn, Open, Hold, NextExit
<1>2. positions[s] \in PositionRecords
  BY <1>1 DEF BufferInv, Types
<1>3. /\ Held(positions[s]) \in PositionRecords
      /\ Held(positions[s]).entry_date = positions[s].entry_date
  BY <1>2 DEF Held, PositionRecords
<1>4. positions' = [positions EXCEPT ![s] = Held(positions[s])]
  BY <1>1 DEF Hold
<1>5. UNCHANGED <<input, bars, phase, day, planned, cash, entries>>
      /\ exits' = exits \ {s}
  BY DEF Hold
<1> HIDE DEF s
<1>6. Types' /\ Planned' /\ BufferIsKept'
  BY <1>3, <1>4, <1>5 DEF BufferInv, Types, Planned, BufferIsKept, Buffer, input
<1>7. \A t \in Symbols : positions'[t] # Flat /\ t # s => positions[t] # Flat
  BY <1>4 DEF BufferInv, Types
<1>8. Open' \subseteq Open
  BY <1>1, <1>7 DEF Open
<1>9. \A t \in Open : t # s => t \in Open'
  BY <1>4 DEF BufferInv, Types, Open
<1>10. \A t \in Symbols : positions'[t].entry_date = positions[t].entry_date
  BY <1>3, <1>4 DEF BufferInv, Types
<1>11. Drawn'
  BY <1>5, <1>8, <1>9, <1>10 DEF BufferInv, Drawn, Open, input
<1> QED
  BY <1>6, <1>11 DEF BufferInv

\* The position that Exit closes, and the price.
LEMMA ExitTermsNat ==
  ASSUME BufferInv, Exit
  PROVE  /\ NextExit \in exits /\ NextExit \in Open /\ NextExit \in Symbols
         /\ Held(positions[NextExit]) \in PositionRecords
         /\ ExitTerms(NextExit).raw \in Nat
<1> DEFINE s == NextExit
<1>1. s \in exits /\ s \in Open /\ s \in Symbols
  BY MinIn, PortfolioAssumption DEF BufferInv, Drawn, Open, Exit, NextExit
<1>2. positions[s] \in PositionRecords
  BY <1>1 DEF BufferInv, Types
<1>3. /\ Held(positions[s]) \in PositionRecords /\ Held(positions[s]).holding_days \in Nat
  BY <1>2 DEF Held, PositionRecords
<1>4. HasBar(s) => bars[day][s] \in BarRecords
  BY <1>1, BarType DEF BufferInv, Drawn, HasBar, Exit
<1>5. Entry(positions[s]) \in Nat
  BY <1>2, EntryPriceNat DEF Entry, PositionRecords, BarRecords
<1>6. ExitTerms(s).raw \in Nat
  <2>1. CASE Final /\ HasBar(s)
    BY <1>4, <2>1, MoneyNat DEF ExitTerms, BarRecords
  <2>2. CASE Final /\ ~HasBar(s)
    BY <1>2, <2>2 DEF ExitTerms, PositionRecords
  <2>3. CASE ~Final
    <3>1. HasBar(s)
      BY <2>3 DEF Exit
    <3> QED BY <1>3, <1>4, <1>5, <2>3, <3>1, ExitRuleNat DEF ExitTerms
  <2> QED BY <2>1, <2>2, <2>3
<1> QED
  BY <1>1, <1>3, <1>6

\* The position that LiquidateEntry closes, and the price.
LEMMA LiquidationNat ==
  ASSUME BufferInv, LiquidateEntry
  PROVE  /\ Min(EnteredToday) \in Open /\ Min(EnteredToday) \in Symbols
         /\ positions[Min(EnteredToday)] \in PositionRecords
         /\ Money(bars[day][Min(EnteredToday)].close) \in Nat
<1> DEFINE s == Min(EnteredToday)
<1>1. s \in EnteredToday
  BY MinIn, PortfolioAssumption DEF EnteredToday, Open, LiquidateEntry
<1>2. s \in Open /\ s \in Symbols /\ s \in present[day]
  BY <1>1 DEF EnteredToday, Open, BufferInv, Drawn
<1>3. bars[day][s] \in BarRecords
  BY <1>2, BarType DEF BufferInv, Drawn, LiquidateEntry
<1>4. Money(bars[day][s].close) \in Nat
  BY <1>3, MoneyNat DEF BarRecords
<1> QED
  BY <1>2, <1>4 DEF BufferInv, Types

\* A position is closed by the rules or on the last day.
LEMMA ExitStep == BufferInv /\ Exit => BufferInv'
<1> SUFFICES ASSUME BufferInv, Exit PROVE BufferInv'
  OBVIOUS
<1> DEFINE s == NextExit
<1>1. s \in exits /\ s \in Open /\ s \in Symbols /\ ExitTerms(s).raw \in Nat
  BY ExitTermsNat
<1>2. Held(positions[s]).quantity \in Nat
  BY ExitTermsNat DEF PositionRecords
<1>3. ClosePosition(s, Held(positions[s]), ExitTerms(s).raw, ExitTerms(s).reason)
  BY DEF Exit
<1>4. UNCHANGED <<input, bars, phase, day, planned>> /\ exits' = exits \ {s}
      /\ entries' = entries
  BY DEF Exit
<1> QED
  BY <1>1, <1>2, <1>3, <1>4, CloseStep

\* A position entered on the last day is closed.
LEMMA LiquidateStep == BufferInv /\ LiquidateEntry => BufferInv'
<1> SUFFICES ASSUME BufferInv, LiquidateEntry PROVE BufferInv'
  OBVIOUS
<1> DEFINE s == Min(EnteredToday)
<1>1. s \in Open /\ s \in Symbols /\ Money(bars[day][s].close) \in Nat
  BY LiquidationNat
<1>2. positions[s].quantity \in Nat
  BY LiquidationNat DEF PositionRecords
<1>3. ClosePosition(s, positions[s], Money(bars[day][s].close), "end_of_period")
  BY DEF LiquidateEntry
<1>4. UNCHANGED <<input, bars, phase, day, planned>> /\ exits' = {} /\ entries' = entries
  BY DEF BufferInv, Drawn, LiquidateEntry
<1> QED
  BY <1>1, <1>2, <1>3, <1>4, CloseStep

\* What is bought fits in the cash above the buffer.
LEMMA EnterStep == BufferInv /\ Enter => BufferInv'
<1> SUFFICES ASSUME BufferInv, Enter PROVE BufferInv'
  OBVIOUS
<1> DEFINE g == NextEntry
<1>1. g \in entries
  BY NextEntryIn DEF Enter, BufferInv, Drawn, Types
<1>2. g \in Signals /\ g.symbol \in Symbols /\ g.symbol \in present[day]
      /\ g.symbol \in DOMAIN bars[day]
  BY <1>1 DEF Enter, BufferInv, Drawn, Types, Signals
<1>3. bars[day][g.symbol] \in BarRecords
  BY <1>2, BarType DEF BufferInv
<1>4. Price(g) \in Nat
  BY <1>3, EntryPriceNat DEF Price
<1>5. PICK q \in Affordable(g) :
        /\ cash' = cash - Required(g, q)
        /\ positions' = [positions EXCEPT ![g.symbol] =
             [signal |-> g, entry_date |-> day, bar |-> bars[day][g.symbol],
              quantity |-> q, last_close |-> Price(g), holding_days |-> 0]]
  BY DEF Enter
<1>6. UNCHANGED <<input, bars, phase, day, planned, exits>> /\ entries' = entries \ {g}
      /\ phase = "entries"
  BY DEF Enter
<1> HIDE DEF g
<1>7. Spendable \in Int
  BY BufferLemma DEF Spendable, BufferInv, Types
<1>8. q \in Nat /\ Price(g) * q * (D + CommissionRate) <= Spendable * D
  BY <1>5 DEF Affordable, Fits
<1>9. Required(g, q) \in Int /\ Required(g, q) <= Spendable
  BY <1>4, <1>7, <1>8, RequiredLemma DEF Required
<1>10. cash' \in Int /\ cash' >= Buffer
  BY <1>5, <1>9, BufferLemma DEF Spendable, BufferInv, Types
<1>11. [signal |-> g, entry_date |-> day, bar |-> bars[day][g.symbol],
        quantity |-> q, last_close |-> Price(g), holding_days |-> 0] \in PositionRecords
  BY <1>2, <1>3, <1>4, <1>8, PortfolioAssumption
     DEF PositionRecords, BarRecords, BufferInv, Types, Days
<1>12. Types' /\ Planned' /\ BufferIsKept'
  BY <1>5, <1>6, <1>10, <1>11 DEF BufferInv, Types, Planned, BufferIsKept, Buffer, input
<1>13. /\ Open' \subseteq Open \cup {g.symbol}
       /\ \A t \in Symbols : t # g.symbol => positions'[t] = positions[t]
       /\ positions'[g.symbol].entry_date = day
  BY <1>2, <1>5 DEF BufferInv, Types, Open
<1>14. Drawn'
  BY <1>2, <1>6, <1>13 DEF BufferInv, Drawn, Types, Days, Open, input
<1> QED
  BY <1>12, <1>14 DEF BufferInv

\* Closing marks change neither the cash nor which positions are open, and
\* positions entered today are older tomorrow.
LEMMA EndStep == BufferInv /\ EndDay => BufferInv'
<1> SUFFICES ASSUME BufferInv, EndDay PROVE BufferInv'
  OBVIOUS
<1>1. ASSUME NEW s \in Symbols
      PROVE  /\ Marked(s) \in PositionRecords
             /\ Marked(s).entry_date = positions[s].entry_date
             /\ positions[s] = Flat => Marked(s) = Flat
  <2>1. positions[s] \in PositionRecords
    BY DEF BufferInv, Types
  <2>2. s \in Open /\ HasBar(s) => Money(bars[day][s].close) \in Nat
    BY BarType, MoneyNat DEF BufferInv, Drawn, HasBar, EndDay, BarRecords
  <2>3. positions[s] = Flat => s \notin Open
    BY DEF Open
  <2> QED BY <2>1, <2>2, <2>3 DEF Marked, PositionRecords
<1>2. positions' = [s \in Symbols |-> Marked(s)]
  BY DEF EndDay
<1>3. UNCHANGED <<input, bars, planned, cash, exits, entries>> /\ entries = {}
      /\ exits = {}
  BY DEF EndDay, BufferInv, Drawn
<1>4. day' \in Days /\ day' >= day /\ phase' \in {"open", "done"}
      /\ (phase' = "open" => day' = day + 1) /\ (phase' = "done" => day' = day)
  BY PortfolioAssumption DEF EndDay, Final, BufferInv, Types, Days
<1>5. Types' /\ Planned' /\ BufferIsKept'
  BY <1>1, <1>2, <1>3, <1>4 DEF BufferInv, Types, Planned, BufferIsKept, Buffer, input
<1>6. Open' \subseteq Open
  BY <1>1, <1>2 DEF Open
<1>7. \A s \in Symbols : positions'[s].entry_date = positions[s].entry_date
                         /\ positions[s].entry_date \in Nat
  BY <1>1, <1>2 DEF BufferInv, Types, PositionRecords
<1>8. Drawn'
  BY <1>3, <1>4, <1>6, <1>7 DEF BufferInv, Drawn, Types, Days, Open, input
<1> QED
  BY <1>5, <1>8 DEF BufferInv

\* Every step of execute() keeps the invariant.
LEMMA BufferStep == BufferInv /\ [Next]_vars => BufferInv'
<1> SUFFICES ASSUME BufferInv, [Next]_vars PROVE BufferInv'
  OBVIOUS
<1>1. CASE PlanEntries
  BY <1>1, PlanStep
<1>2. CASE PlanFails
  BY <1>2, IdleStep DEF PlanFails, account, BufferInv, Drawn
<1>3. CASE OpenDay
  BY <1>3, OpenStep
<1>4. CASE Carry
  BY <1>4, IdleStep DEF Carry, account
<1>5. CASE Hold
  BY <1>5, HoldStep
<1>6. CASE Exit
  BY <1>6, ExitStep
<1>7. CASE ExitsDone
  BY <1>7, IdleStep DEF ExitsDone, account
<1>8. CASE Skip
  BY <1>8, IdleStep DEF Skip, account, BufferInv, Drawn
<1>9. CASE Enter
  BY <1>9, EnterStep
<1>10. CASE LiquidateEntry
  BY <1>10, LiquidateStep
<1>11. CASE EndDay
  BY <1>11, EndStep
<1>12. CASE Ended \/ UNCHANGED vars
  BY <1>12, IdleStep DEF Ended, vars, account, BufferInv, Drawn
<1> QED
  BY <1>1, <1>2, <1>3, <1>4, <1>5, <1>6, <1>7, <1>8, <1>9, <1>10, <1>11, <1>12 DEF Next

\* Entries never spend the cash buffer, whatever the signals, the bars and the
\* calendar, and for all parameters that parse() accepts whose sale costs do
\* not exceed a sale: affordable_quantity() and close_position() keep cash at
\* or above the buffer.
THEOREM BufferSafety == Spec => []BufferIsKept
<1>1. Init => BufferInv
  BY BufferInit
<1>2. BufferInv /\ [Next]_vars => BufferInv'
  BY BufferStep
<1>3. BufferInv => BufferIsKept
  BY DEF BufferInv
<1> QED
  BY <1>1, <1>2, <1>3, PTL DEF Spec

(***************************************************************************)
(* No look-ahead.                                                          *)
(***************************************************************************)

\* The days on which the loop has seen a close of the open position of s.
Known(s) == {d \in positions[s].entry_date..(day - 1) : s \in DOMAIN bars[d]}

\* The position of s is valued at the last of them, or at its entry price.
Valued(s) ==
  positions[s].last_close = IF Known(s) = {} THEN Entry(positions[s])
                            ELSE Money(bars[Max(Known(s))][s].close)

\* Only symbols that trade on a day have a bar drawn for it.
DrawnArePresent == \A d \in Days : DOMAIN bars[d] \subseteq present[d]

\* On the last day every position is examined and closed, so that what is open
\* afterwards was entered that day; nothing is left in the end.
LastDayCloses ==
  /\ \A s \in Open : positions[s].entry_date \in Days
  /\ Final =>
       /\ phase = "exits" => Open \subseteq exits
       /\ phase = "entries" => Open \subseteq EnteredToday
  /\ phase = "done" => Final /\ Open = {}

LookInv == NoLookAhead /\ DrawnArePresent /\ LastDayCloses

\* A bounded, non-empty set of naturals has a largest member, and Max takes it.
LEMMA MaxIn ==
  ASSUME NEW T, T \subseteq Nat, T # {}, NEW b \in Nat, \A x \in T : x <= b
  PROVE  Max(T) \in T /\ \A y \in T : Max(T) >= y
<1> DEFINE U == {b - x : x \in T}
<1>1. U \subseteq Nat /\ U # {}
  <2>1. \A x \in T : b - x \in Nat
    OBVIOUS
  <2> QED
    BY <2>1
<1>2. PICK u \in U : \A v \in U : u <= v
  BY <1>1, SmallestNat
<1>3. PICK x \in T : u = b - x
  BY <1>2
<1>4. \A y \in T : x >= y
  BY <1>2, <1>3
<1> QED
  BY <1>3, <1>4 DEF Max

\* The property, position by position.
LEMMA LookIsValued ==
  /\ NoLookAhead <=> \A s \in Open : Valued(s)
  /\ NoLookAhead' <=> \A s \in Open' : Valued(s)'
<1>1. NoLookAhead <=> \A s \in Open : Valued(s)
  BY DEF NoLookAhead, Valued, Known
<1>2. NoLookAhead' <=> \A s \in Open' : Valued(s)'
  BY DEF NoLookAhead, Valued, Known
<1> QED
  BY <1>1, <1>2

\* A day known is a day of the calendar before today.
LEMMA KnownDays ==
  ASSUME BufferInv, LastDayCloses, NEW s \in Open
  PROVE  /\ Known(s) \subseteq {d \in Days : d < day}
         /\ Known(s) # {} => Max(Known(s)) \in Known(s)
<1>1. positions[s].entry_date \in Nat /\ positions[s].entry_date >= 1 /\ day \in Days
  BY DEF LastDayCloses, Days, BufferInv, Types
<1>2. Known(s) \subseteq {d \in Days : d < day}
  BY <1>1, PortfolioAssumption DEF Known, Days
<1>3. Known(s) \subseteq Nat /\ day \in Nat /\ \A d \in Known(s) : d <= day
  BY <1>1, <1>2 DEF Days
<1> QED
  BY <1>2, <1>3, MaxIn

\* A position that is not traded keeps its value while the day lasts.
LEMMA ValueStays ==
  ASSUME BufferInv, LastDayCloses, NEW s \in Open, Valued(s), day' = day,
         \A d \in Days : d < day => bars'[d] = bars[d],
         positions'[s].entry_date = positions[s].entry_date,
         positions'[s].bar = positions[s].bar,
         positions'[s].last_close = positions[s].last_close
  PROVE  Valued(s)'
<1>1. \A d \in positions[s].entry_date..(day - 1) : d \in Days /\ d < day
  BY PortfolioAssumption DEF LastDayCloses, Days, BufferInv, Types
<1>2. Known(s)' = Known(s)
  BY <1>1 DEF Known
<1>3. Known(s) # {} => bars'[Max(Known(s))] = bars[Max(Known(s))]
  BY KnownDays
<1>4. Entry(positions[s])' = Entry(positions[s])
  BY DEF Entry
<1> QED
  BY <1>2, <1>3, <1>4 DEF Valued

\* A step that neither reads bars nor trades.
LEMMA LookIdle ==
  ASSUME LookInv, UNCHANGED <<present, bars, day, positions>>,
         phase' \in {"exits", "entries", "done"} /\ phase' = phase => exits' = exits,
         phase' # phase => phase' \in {"open", "failed"}
  PROVE  LookInv'
<1>1. Open' = Open /\ EnteredToday' = EnteredToday /\ Final' = Final
  BY DEF Open, EnteredToday, Final
<1>2. NoLookAhead' /\ DrawnArePresent'
  BY <1>1, LookIsValued DEF LookInv, NoLookAhead, DrawnArePresent, Entry
<1> QED
  BY <1>1, <1>2 DEF LookInv, LastDayCloses

\* Drawing today's bars shows nothing of today yet.
LEMMA LookOpen == BufferInv /\ LookInv /\ OpenDay => LookInv'
<1> SUFFICES ASSUME BufferInv, LookInv, OpenDay PROVE LookInv'
  OBVIOUS
<1>1. PICK b \in [Read -> Prices] : bars' = [bars EXCEPT ![day] = b]
  BY DEF OpenDay
<1>2. /\ UNCHANGED <<present, day, positions>>
      /\ exits' = Open /\ phase' = "exits"
  BY DEF OpenDay, input, account
<1>3. /\ DOMAIN bars'[day] = Read
      /\ \A d \in Days : d # day => bars'[d] = bars[d]
      /\ day \in Days /\ day \in Nat
  BY <1>1 DEF BufferInv, Types, Days
<1>4. Open' = Open
  BY <1>2 DEF Open
<1>5. \A s \in Open : Valued(s)'
  <2> SUFFICES ASSUME NEW s \in Open PROVE Valued(s)'
    OBVIOUS
  <2>1. \A d \in Days : d < day => bars'[d] = bars[d]
    BY <1>3 DEF Days
  <2>2. Valued(s) /\ LastDayCloses
    BY LookIsValued DEF LookInv
  <2> QED
    BY <1>2, <2>1, <2>2, ValueStays
<1>6. NoLookAhead'
  BY <1>4, <1>5, LookIsValued
<1>7. DrawnArePresent'
  BY <1>2, <1>3 DEF LookInv, DrawnArePresent, Read
<1>8. LastDayCloses'
  BY <1>2, <1>4 DEF LookInv, LastDayCloses
<1> QED
  BY <1>6, <1>7, <1>8 DEF LookInv

\* A position that is held or closed: the others keep their values.
LEMMA LookTrade ==
  ASSUME BufferInv, LookInv, NEW s \in Open, UNCHANGED <<present, bars, phase, day>>,
         \/ positions' = [positions EXCEPT ![s] = Flat]
         \/ positions' = [positions EXCEPT ![s] = Held(positions[s])] /\ ~Final,
         exits' \in {exits, exits \ {s}}
  PROVE  LookInv'
<1>t. s \in Symbols /\ positions \in [Symbols -> PositionRecords] /\ day \in Nat
  BY DEF Open, BufferInv, Types, Days
<1>1. \A t \in Symbols : t # s => positions'[t] = positions[t]
  BY <1>t
<1>2. CASE positions' = [positions EXCEPT ![s] = Flat]
  <2>1. Open' = Open \ {s}
    BY <1>t, <1>2 DEF Open
  <2>2. \A t \in Open' : positions'[t] = positions[t]
    BY <1>1, <2>1 DEF Open
  <2>3. ASSUME NEW t \in Open' PROVE Valued(t)'
    <3>1. t \in Open /\ positions'[t] = positions[t]
      BY <2>1, <2>2, <2>3
    <3>2. Valued(t) /\ LastDayCloses
      BY <3>1, LookIsValued DEF LookInv
    <3> QED
      BY <3>1, <3>2, ValueStays
  <2>4. NoLookAhead'
    BY <2>3, LookIsValued
  <2>5. DrawnArePresent'
    BY DEF LookInv, DrawnArePresent
  <2>6. LastDayCloses'
    BY <2>1, <2>2 DEF LookInv, LastDayCloses, Final, EnteredToday
  <2> QED
    BY <2>4, <2>5, <2>6 DEF LookInv
<1>3. CASE positions' = [positions EXCEPT ![s] = Held(positions[s])] /\ ~Final
  <2>1. positions[s] \in PositionRecords
    BY <1>t
  <2>2. /\ positions'[s].entry_date = positions[s].entry_date
        /\ positions'[s].bar = positions[s].bar
        /\ positions'[s].last_close = positions[s].last_close
    BY <1>t, <1>3, <2>1 DEF Held, PositionRecords
  <2>3. Open' \subseteq Open
    BY <1>1 DEF Open
  <2>4. ASSUME NEW t \in Open' PROVE Valued(t)' /\ positions'[t].entry_date = positions[t].entry_date
    <3>1. /\ t \in Open /\ t \in Symbols
          /\ positions'[t].entry_date = positions[t].entry_date
          /\ positions'[t].bar = positions[t].bar
          /\ positions'[t].last_close = positions[t].last_close
      BY <1>1, <2>2, <2>3, <2>4 DEF Open
    <3>2. Valued(t) /\ LastDayCloses
      BY <3>1, LookIsValued DEF LookInv
    <3> QED
      BY <3>1, <3>2, ValueStays
  <2>5. NoLookAhead'
    BY <2>4, LookIsValued
  <2>6. DrawnArePresent'
    BY DEF LookInv, DrawnArePresent
  <2>7. LastDayCloses'
    BY <1>3, <2>3, <2>4 DEF LookInv, LastDayCloses, Final
  <2> QED
    BY <2>5, <2>6, <2>7 DEF LookInv
<1> QED
  BY <1>2, <1>3

\* A position entered today is valued at its entry price.
LEMMA LookEnter == BufferInv /\ LookInv /\ Enter => LookInv'
<1> SUFFICES ASSUME BufferInv, LookInv, Enter PROVE LookInv'
  OBVIOUS
<1> DEFINE g == NextEntry
<1>1. g \in entries
  BY NextEntryIn DEF Enter, BufferInv, Drawn, Types
<1>2. g.symbol \in Symbols
  BY <1>1 DEF BufferInv, Drawn, Types, Signals
<1>3. PICK q \in Affordable(g) :
        positions' = [positions EXCEPT ![g.symbol] =
          [signal |-> g, entry_date |-> day, bar |-> bars[day][g.symbol],
           quantity |-> q, last_close |-> Price(g), holding_days |-> 0]]
  BY DEF Enter
<1>4. UNCHANGED <<present, bars, phase, day, exits>> /\ phase = "entries"
  BY DEF Enter, input
<1> HIDE DEF g
<1>t. positions \in [Symbols -> PositionRecords] /\ day \in Days /\ day \in Nat
  BY DEF BufferInv, Types, Days
<1>5. /\ \A t \in Symbols : t # g.symbol => positions'[t] = positions[t]
      /\ positions'[g.symbol].entry_date = day
      /\ positions'[g.symbol].bar = bars[day][g.symbol]
      /\ positions'[g.symbol].last_close = Price(g)
  BY <1>2, <1>3, <1>t
<1>6. \A t \in Open' : t # g.symbol => t \in Open /\ positions'[t] = positions[t]
  BY <1>5 DEF Open
<1>7. ASSUME NEW t \in Open' PROVE Valued(t)' /\ positions'[t].entry_date \in Days
  <2>1. CASE t = g.symbol
    <3>1. Known(t)' = {}
      BY <1>4, <1>5, <1>t, <2>1 DEF Known
    <3>2. Entry(positions[t])' = Price(g)
      BY <1>5, <2>1 DEF Entry, Price
    <3> QED
      BY <1>5, <1>t, <2>1, <3>1, <3>2 DEF Valued
  <2>2. CASE t # g.symbol
    <3>1. t \in Open /\ positions'[t] = positions[t]
      BY <1>6, <1>7, <2>2
    <3>2. Valued(t) /\ LastDayCloses
      BY <3>1, LookIsValued DEF LookInv
    <3>3. Valued(t)'
      BY <1>4, <3>1, <3>2, ValueStays
    <3> QED
      BY <3>1, <3>2, <3>3 DEF LastDayCloses
  <2> QED
    BY <2>1, <2>2
<1>8. NoLookAhead'
  BY <1>7, LookIsValued
<1>9. DrawnArePresent'
  BY <1>4 DEF LookInv, DrawnArePresent
<1>10. LastDayCloses'
  <2>1. Final => Open' \subseteq EnteredToday'
    BY <1>4, <1>5, <1>6 DEF LookInv, LastDayCloses, EnteredToday, Final
  <2> QED
    BY <1>4, <1>7, <2>1 DEF LastDayCloses, Final
<1> QED
  BY <1>8, <1>9, <1>10 DEF LookInv

\* The closing marks are the closes of a day that is over, and on the last day
\* there is nothing to mark.
LEMMA LookEnd == BufferInv /\ LookInv /\ EndDay => LookInv'
<1> SUFFICES ASSUME BufferInv, LookInv, EndDay PROVE LookInv'
  OBVIOUS
<1>t. positions \in [Symbols -> PositionRecords] /\ day \in Days /\ day \in Nat
  BY DEF BufferInv, Types, Days
<1>1. /\ positions' = [s \in Symbols |-> Marked(s)]
      /\ phase = "entries" /\ ~(Final /\ EnteredToday # {})
      /\ day' = (IF Final THEN day ELSE day + 1)
      /\ phase' = (IF Final THEN "done" ELSE "open")
      /\ UNCHANGED <<present, bars>>
  BY DEF EndDay, input
<1>2. DrawnArePresent'
  BY <1>1 DEF LookInv, DrawnArePresent
<1>3. Open' \subseteq Open
  BY <1>1 DEF Open, Marked
<1>4. CASE Final
  <2>1. Open = {}
    BY <1>1, <1>4 DEF LookInv, LastDayCloses
  <2>2. Open' = {}
    BY <1>3, <2>1
  <2> QED
    BY <1>1, <1>2, <1>4, <2>2 DEF LookInv, NoLookAhead, LastDayCloses, Final
<1>5. CASE ~Final
  <2>1. ASSUME NEW s \in Open'
        PROVE  Valued(s)' /\ positions'[s].entry_date \in Days
    <3>1. s \in Open /\ s \in Symbols /\ positions'[s] = Marked(s)
      BY <1>1, <1>3, <2>1 DEF Open
    <3>2. positions[s] \in PositionRecords
      BY <1>t, <3>1
    <3>3. /\ positions'[s].entry_date = positions[s].entry_date
          /\ positions'[s].bar = positions[s].bar
      BY <3>1, <3>2 DEF Marked, PositionRecords
    <3>4. positions[s].entry_date \in Days /\ positions[s].entry_date <= day
      BY <3>1 DEF LookInv, LastDayCloses, BufferInv, Drawn
    <3>5. Known(s)' = Known(s) \cup (IF s \in DOMAIN bars[day] THEN {day} ELSE {})
      <4>1. day' = day + 1 /\ positions[s].entry_date \in Nat
        BY <1>1, <1>5, <3>4 DEF Days
      <4>2. positions[s].entry_date..((day + 1) - 1) = (positions[s].entry_date..(day - 1)) \cup {day}
        BY <1>t, <3>4, <4>1
      <4> QED
        BY <1>1, <3>3, <4>1, <4>2 DEF Known
    <3>6. Valued(s)
      BY <3>1, LookIsValued DEF LookInv
    <3>7. Entry(positions[s])' = Entry(positions[s])
      BY <3>3 DEF Entry
    <3>8. CASE HasBar(s)
      <4>1. s \in DOMAIN bars[day]
        BY <1>1, <3>1, <3>8 DEF BufferInv, Drawn, HasBar
      <4>2. Known(s) \subseteq {d \in Days : d < day}
        BY <3>1, KnownDays DEF LookInv
      <4>3. day \in Known(s)' /\ Known(s)' \subseteq Nat /\ \A d \in Known(s)' : d <= day
        BY <1>t, <3>5, <4>1, <4>2 DEF Days
      <4>4. Max(Known(s)') = day
        BY <1>t, <4>3, MaxIs
      <4>5. positions'[s].last_close = Money(bars[day][s].close)
        BY <3>1, <3>2, <3>8 DEF Marked, PositionRecords
      <4>6. Known(s)' # {} /\ bars' = bars
        BY <1>1, <4>3
      <4>7. Valued(s)'
        BY <4>4, <4>5, <4>6 DEF Valued
      <4> QED
        BY <3>3, <3>4, <4>7
    <3>9. CASE ~HasBar(s)
      <4>1. s \notin DOMAIN bars[day]
        BY <1>t, <3>9 DEF LookInv, DrawnArePresent, HasBar
      <4>2. positions'[s] = positions[s] /\ Known(s)' = Known(s) /\ bars' = bars
        BY <1>1, <3>1, <3>5, <3>9, <4>1 DEF Marked
      <4>3. Valued(s)'
        BY <3>6, <3>7, <4>2 DEF Valued
      <4> QED
        BY <3>3, <3>4, <4>3
    <3> QED
      BY <3>8, <3>9
  <2>2. NoLookAhead'
    BY <2>1, LookIsValued
  <2>3. LastDayCloses'
    BY <1>1, <1>5, <2>1 DEF LastDayCloses
  <2> QED
    BY <1>2, <2>2, <2>3 DEF LookInv
<1> QED
  BY <1>4, <1>5

\* Every step of execute() keeps the invariant.
LEMMA LookStep == BufferInv /\ LookInv /\ [Next]_vars => LookInv'
<1> SUFFICES ASSUME BufferInv, LookInv, [Next]_vars PROVE LookInv'
  OBVIOUS
<1>1. CASE PlanEntries \/ PlanFails \/ Skip
  BY <1>1, LookIdle DEF PlanEntries, PlanFails, Skip, input, account
<1>2. CASE OpenDay
  BY <1>2, LookOpen
<1>3. CASE Carry
  <2>1. UNCHANGED <<present, bars, day, positions, phase>> /\ ~Final
    BY <1>3 DEF Carry, input, account
  <2>2. Open' = Open /\ ~Final'
    BY <2>1 DEF Open, Final
  <2>3. NoLookAhead' /\ DrawnArePresent'
    BY <2>1, <2>2 DEF LookInv, NoLookAhead, DrawnArePresent, Entry
  <2> QED
    BY <2>1, <2>2, <2>3 DEF LookInv, LastDayCloses
<1>4. CASE Hold \/ Exit
  <2>1. NextExit \in exits /\ NextExit \in Open /\ NextExit \in Symbols
    BY <1>4, MinIn, PortfolioAssumption DEF BufferInv, Drawn, Open, Hold, Exit, NextExit
  <2>2. /\ UNCHANGED <<present, bars, phase, day>> /\ exits' = exits \ {NextExit}
        /\ Hold => positions' = [positions EXCEPT ![NextExit] = Held(positions[NextExit])] /\ ~Final
        /\ Exit => positions' = [positions EXCEPT ![NextExit] = Flat]
    BY <1>4, <2>1 DEF Hold, Exit, ClosePosition, input, BufferInv, Types
  <2> QED
    BY <1>4, <2>1, <2>2, LookTrade
<1>5. CASE ExitsDone
  <2>1. UNCHANGED <<present, bars, day, positions>> /\ phase = "exits" /\ exits = {} /\ phase' = "entries"
    BY <1>5 DEF ExitsDone, input, account
  <2>2. Open' = Open /\ (Final' <=> Final)
    BY <2>1 DEF Open, Final
  <2>3. NoLookAhead' /\ DrawnArePresent'
    BY <2>1, <2>2 DEF LookInv, NoLookAhead, DrawnArePresent, Entry
  <2>4. Final => Open = {}
    BY <2>1 DEF LookInv, LastDayCloses
  <2> QED
    BY <2>1, <2>2, <2>3, <2>4 DEF LookInv, LastDayCloses
<1>6. CASE Enter
  BY <1>6, LookEnter
<1>7. CASE LiquidateEntry
  <2>1. Min(EnteredToday) \in EnteredToday
    BY <1>7, MinIn, PortfolioAssumption DEF EnteredToday, Open, LiquidateEntry
  <2>2. Min(EnteredToday) \in Open
    BY <2>1 DEF EnteredToday
  <2>3. /\ UNCHANGED <<present, bars, phase, day, exits>>
        /\ positions' = [positions EXCEPT ![Min(EnteredToday)] = Flat]
    BY <1>7 DEF LiquidateEntry, ClosePosition, input
  <2> QED
    BY <2>2, <2>3, LookTrade
<1>8. CASE EndDay
  BY <1>8, LookEnd
<1>9. CASE Ended \/ UNCHANGED vars
  BY <1>9, LookIdle DEF Ended, vars, account, input
<1> QED
  BY <1>1, <1>2, <1>3, <1>4, <1>5, <1>6, <1>7, <1>8, <1>9 DEF Next

\* The two invariants hold in every reachable state.
LEMMA LookInvariant == Spec => [](BufferInv /\ LookInv)
<1>1. Init => LookInv
  <2> SUFFICES ASSUME Init PROVE LookInv
    OBVIOUS
  <2>1. Open = {} /\ phase = "plan" /\ \A d \in Days : DOMAIN bars[d] = {}
    BY DEF Init, Open
  <2> QED
    BY <2>1 DEF LookInv, NoLookAhead, DrawnArePresent, LastDayCloses
<1> QED
  BY <1>1, BufferInit, BufferStep, LookStep, PTL DEF Spec

\* execute() marks positions after it has sized the day's entries: whatever
\* bars are missing, an open position is valued at the latest close before
\* today, or at its entry price, and never at a close yet to come.
THEOREM NothingIsForeseen == Spec => []NoLookAhead
<1>1. LookInv => NoLookAhead
  BY DEF LookInv
<1> QED
  BY <1>1, LookInvariant, PTL

\* Every position is liquidated: on the last day whatever is open is closed,
\* also without a bar, and what was entered that day is sold at its close.
THEOREM NothingIsLeftOpen == Spec => [](phase = "done" => Final /\ Open = {})
<1>1. LookInv => (phase = "done" => Final /\ Open = {})
  BY DEF LookInv, LastDayCloses
<1> QED
  BY <1>1, LookInvariant, PTL

(***************************************************************************)
(* Both execution modes trade alike.                                       *)
(***************************************************************************)

\* The days, up to day d, on which the rules see a bar of symbol s after an
\* entry on day e, and what they say on such a day.
HeldDays(s, e, d) == {k \in Days : e < k /\ k <= d /\ s \in DOMAIN bars[k]}
Rule(s, e, d) ==
  ExitRule(EntryPrice(bars[e][s]), Cardinality(HeldDays(s, e, d)), bars[d][s])
Survives(s, e, d) == \A k \in HeldDays(s, e, d) : Rule(s, e, k) = NoExit

\* Day e is the first after the signal g with a bar of its symbol.
FirstBar(g, e) ==
  /\ g \in Signals /\ g.date < e /\ e <= day /\ g.symbol \in DOMAIN bars[e]
  /\ \A d \in Days : g.date < d /\ d < e => g.symbol \notin DOMAIN bars[d]

\* The last day on which the rules have looked at the position of s.
Examined(s) ==
  IF phase \in {"entries", "done"} \/ (phase = "exits" /\ s \notin exits) THEN day
  ELSE day - 1

\* An open position is what simulate_signal() would still hold.
HeldRight(s) ==
  /\ positions[s].entry_date \in Days
  /\ positions[s].entry_date <= Examined(s)
  /\ positions[s].signal.symbol = s
  /\ positions[s].bar = bars[positions[s].entry_date][s]
  /\ FirstBar(positions[s].signal, positions[s].entry_date)
  /\ positions[s].holding_days = Cardinality(HeldDays(s, positions[s].entry_date, Examined(s)))
  /\ Survives(s, positions[s].entry_date, Examined(s))

\* A trade that was entered on day e is closed on the first day x on which
\* the rules say so, as they say.
ClosedRight(t, s, e, x) ==
  /\ FirstBar(t.signal, e) /\ e < x /\ x <= day /\ s \in DOMAIN bars[x]
  /\ Survives(s, e, x - 1) /\ Rule(s, e, x) # NoExit
  /\ t = BacktestTrade(t.signal, e, bars[e][s], t.quantity, x, Rule(s, e, x).raw,
                       Rule(s, e, x).reason, Cardinality(HeldDays(s, e, x)))

TradedRight(t) ==
  t.reason # "end_of_period" => \E e, x \in Days : ClosedRight(t, t.signal.symbol, e, x)

\* No bar of a day to come has been read, and a signal is planned on the first
\* day on which its symbol trades.
FutureUnread ==
  \A d \in Days : d > day \/ (d = day /\ phase \in {"plan", "open"}) => DOMAIN bars[d] = {}

PlannedFirst ==
  /\ \A d \in Days : \A g \in planned[d] :
       /\ g.date < d /\ g.symbol \in present[d]
       /\ \A k \in Days : g.date < k /\ k < d => g.symbol \notin present[k]
  /\ phase \in {"exits", "entries"} => entries \subseteq planned[day]

ModesInv ==
  /\ FutureUnread /\ PlannedFirst
  /\ \A s \in Open : HeldRight(s)
  /\ \A t \in trades : TradedRight(t)

\* The smallest member of a set of naturals is its minimum.
LEMMA MinIs ==
  ASSUME NEW T, T \subseteq Nat, NEW m \in T, \A y \in T : m <= y
  PROVE  Min(T) = m
<1>1. \E x \in T : \A y \in T : x <= y
  OBVIOUS
<1>2. Min(T) \in T /\ \A y \in T : Min(T) <= y
  BY <1>1 DEF Min
<1>3. Min(T) \in Nat /\ m \in Nat /\ Min(T) >= m /\ Min(T) <= m
  BY <1>2
<1> QED
  BY <1>3

\* A trade that ClosedRight describes is the one that simulate_signal() makes.
LEMMA SimulatedAlike ==
  ASSUME day \in Days, NEW t, NEW s, s = t.signal.symbol, NEW e \in Days, NEW x \in Days,
         ClosedRight(t, s, e, x)
  PROVE  t = SimulateSignal(t.signal, BarsOf(s), t.quantity)
<1> DEFINE bs       == BarsOf(s)
           eligible == {d \in DOMAIN bs : d > t.signal.date}
           later    == eligible \ {Min(eligible)}
           hold(d)  == Cardinality({k \in later : k <= d})
           rule(d)  == ExitRule(EntryPrice(bs[Min(eligible)]), hold(d), bs[d])
           hits     == {d \in later : rule(d) # NoExit}
<1>d. Days \subseteq Nat /\ day \in Nat /\ e \in Nat /\ x \in Nat /\ t.signal.date \in Nat
  <2>1. Days \subseteq Nat /\ SignalDays \subseteq Nat
    BY PortfolioAssumption DEF Days
  <2>2. t.signal \in Signals
    BY DEF ClosedRight, FirstBar
  <2>3. t.signal.date \in SignalDays
    BY <2>2 DEF Signals
  <2> QED
    BY <2>1, <2>3
<1>1. /\ DOMAIN bs = {k \in Days : k <= day /\ s \in DOMAIN bars[k]}
      /\ \A k \in Days : k <= day /\ s \in DOMAIN bars[k] => bs[k] = bars[k][s]
  BY PortfolioAssumption DEF BarsOf, Days
<1>2. e \in eligible /\ eligible \subseteq Nat /\ \A k \in eligible : e <= k
  <2>1. \A k \in eligible : k \in Days /\ k > t.signal.date /\ s \in DOMAIN bars[k]
    BY <1>1
  <2>2. \A k \in eligible : ~(k < e)
    BY <2>1 DEF ClosedRight, FirstBar
  <2>3. e \in eligible
    BY <1>1, <1>d DEF ClosedRight, FirstBar
  <2>4. eligible \subseteq Nat
    BY <1>d, <2>1
  <2> HIDE DEF eligible
  <2> QED
    BY <1>d, <2>2, <2>3, <2>4
<1>3. Min(eligible) = e
  BY <1>2, MinIs
<1>4. later = HeldDays(s, e, day)
  <2>1. \A k \in Days : k > e => k > t.signal.date
    BY <1>d DEF ClosedRight, FirstBar
  <2>2. eligible = {k \in Days : k > t.signal.date /\ k <= day /\ s \in DOMAIN bars[k]}
    BY <1>1
  <2>3. \A k \in Days : k # e /\ k > t.signal.date /\ k <= day /\ s \in DOMAIN bars[k] => k > e
    BY <1>2, <1>d, <2>2
  <2>4. \A k \in Days : k > e => k # e
    BY <1>d
  <2>5. later = {k \in eligible : k # e}
    BY <1>3
  <2> HIDE DEF eligible, later
  <2>6. later = {k \in Days : k > e /\ k <= day /\ s \in DOMAIN bars[k]}
    BY <2>1, <2>2, <2>3, <2>4, <2>5
  <2>7. \A k \in Days : k > e <=> e < k
    BY <1>d
  <2> QED
    BY <2>6, <2>7 DEF HeldDays
<1>5. \A d \in later : {k \in later : k <= d} = HeldDays(s, e, d)
  <2>1. \A d \in later : d \in Days /\ d <= day
    BY <1>4 DEF HeldDays
  <2>2. ASSUME NEW d \in later PROVE {k \in later : k <= d} = HeldDays(s, e, d)
    <3>1. d \in Nat /\ d <= day
      BY <1>d, <2>1, <2>2
    <3>2. \A k \in Days : k <= d => k <= day
      BY <1>d, <3>1
    <3> HIDE DEF later
    <3> QED
      BY <1>4, <3>2 DEF HeldDays
  <2> QED
    BY <2>2
<1>6. \A d \in later : hold(d) = Cardinality(HeldDays(s, e, d)) /\ rule(d) = Rule(s, e, d)
  <2>1. bs[e] = bars[e][s]
    BY <1>1 DEF ClosedRight, FirstBar
  <2>2. \A d \in later : bs[d] = bars[d][s]
    BY <1>1, <1>4 DEF HeldDays
  <2> HIDE DEF later, eligible, bs
  <2> QED
    BY <1>3, <1>5, <2>1, <2>2 DEF Rule
<1>7. x \in later
  BY <1>4 DEF ClosedRight, HeldDays
<1>8. \A d \in later : d < x => d \in HeldDays(s, e, x - 1)
  <2>1. \A k \in Days : k < x => k <= x - 1
    BY <1>d
  <2> HIDE DEF later
  <2> QED
    BY <1>4, <2>1 DEF HeldDays
<1>9. x \in hits /\ hits \subseteq Nat /\ \A d \in hits : x <= d
  <2>1. \A d \in later : d < x => rule(d) = NoExit
    BY <1>6, <1>8 DEF ClosedRight, Survives
  <2>2. rule(x) # NoExit
    BY <1>6, <1>7 DEF ClosedRight
  <2>3. later \subseteq Nat
    BY <1>4, <1>d DEF HeldDays
  <2>4. hits = {d \in later : rule(d) # NoExit}
    OBVIOUS
  <2> HIDE DEF later, rule, hits
  <2>5. \A d \in hits : d \in Nat /\ ~(d < x)
    BY <2>1, <2>3, <2>4
  <2>6. x \in hits /\ hits \subseteq Nat
    BY <1>7, <2>2, <2>3, <2>4
  <2>7. \A d \in hits : x <= d
    BY <1>d, <2>5
  <2> QED
    BY <2>6, <2>7
<1>10. Min(hits) = x /\ hits # {}
  BY <1>9, MinIs
<1>11. SimulateSignal(t.signal, bs, t.quantity) =
         LET exitDay == IF hits # {} THEN Min(hits) ELSE Max(eligible)
             terms   == IF hits # {} THEN rule(exitDay)
                        ELSE [reason |-> "end_of_period", raw |-> Money(bs[exitDay].close)]
         IN  BacktestTrade(t.signal, Min(eligible), bs[Min(eligible)], t.quantity, exitDay,
                           terms.raw, terms.reason, hold(exitDay))
  BY DEF SimulateSignal
<1>12. bs[e] = bars[e][s]
  BY <1>1 DEF ClosedRight, FirstBar
<1> HIDE DEF bs, eligible, later, hold, rule, hits
<1>13. SimulateSignal(t.signal, bs, t.quantity) =
         BacktestTrade(t.signal, e, bars[e][s], t.quantity, x, rule(x).raw, rule(x).reason, hold(x))
  BY <1>3, <1>10, <1>11, <1>12
<1>14. rule(x) = Rule(s, e, x) /\ hold(x) = Cardinality(HeldDays(s, e, x))
  BY <1>6, <1>7
<1> QED
  BY <1>13, <1>14 DEF ClosedRight, bs

\* The rules look back only: what they say on a day stands as long as the bars
\* up to that day do.
LEMMA PastStays ==
  ASSUME NEW n \in Int, \A d \in Days : d <= n => bars'[d] = bars[d],
         NEW s, NEW e \in Days, e <= n, NEW x \in Int, x <= n
  PROVE  /\ HeldDays(s, e, x)' = HeldDays(s, e, x)
         /\ x \in Days => Rule(s, e, x)' = Rule(s, e, x)
         /\ Survives(s, e, x)' = Survives(s, e, x)
<1>d. Days \subseteq Int
  BY PortfolioAssumption DEF Days
<1>1. ASSUME NEW y \in Int, y <= n
      PROVE  /\ HeldDays(s, e, y)' = HeldDays(s, e, y)
             /\ y \in Days => Rule(s, e, y)' = Rule(s, e, y)
  <2>1. HeldDays(s, e, y)' = HeldDays(s, e, y)
    <3>1. ASSUME NEW k \in Days, k <= y PROVE bars'[k] = bars[k]
      <4>1. k \in Int /\ k <= n
        BY <1>1, <1>d, <3>1
      <4> QED
        BY <3>1, <4>1
    <3> QED
      BY <3>1 DEF HeldDays
  <2>2. bars'[e] = bars[e] /\ (y \in Days => bars'[y] = bars[y])
    BY <1>1
  <2> QED
    BY <2>1, <2>2 DEF Rule
<1>2. \A k \in HeldDays(s, e, x) : k \in Days /\ k \in Int /\ k <= n
  BY <1>d DEF HeldDays
<1>3. \A k \in HeldDays(s, e, x) : Rule(s, e, k)' = Rule(s, e, k)
  BY <1>1, <1>2
<1>4. Survives(s, e, x)' = Survives(s, e, x)
  BY <1>1, <1>3 DEF Survives
<1> QED
  BY <1>1, <1>4

\* The first bar after a signal stays its first.
LEMMA FirstStays ==
  ASSUME NEW n \in Int, \A d \in Days : d <= n => bars'[d] = bars[d],
         day \in Int, day' \in Int, day <= day',
         NEW g, NEW e \in Days, e <= n, FirstBar(g, e)
  PROVE  FirstBar(g, e)'
<1>d. Days \subseteq Int
  BY PortfolioAssumption DEF Days
<1>1. \A d \in Days : d < e => bars'[d] = bars[d]
  BY <1>d
<1> QED
  BY <1>1, <1>d DEF FirstBar

\* A trade stays right while the bars read so far do.
LEMMA TradeStays ==
  ASSUME NEW n \in Int, \A d \in Days : d <= n => bars'[d] = bars[d],
         \A d \in Days : d <= day /\ DOMAIN bars[d] # {} => d <= n,
         day \in Int, day' \in Int, day <= day',
         NEW t, TradedRight(t)
  PROVE  TradedRight(t)'
<1> SUFFICES ASSUME t.reason # "end_of_period"
             PROVE  (\E e, x \in Days : ClosedRight(t, t.signal.symbol, e, x))'
  BY DEF TradedRight
<1>d. Days \subseteq Int
  BY PortfolioAssumption DEF Days
<1>1. PICK e \in Days, x \in Days : ClosedRight(t, t.signal.symbol, e, x)
  BY DEF TradedRight
<1>2. x <= n /\ e <= n /\ x \in Int /\ e \in Int /\ x - 1 \in Int /\ x - 1 <= n
  BY <1>1, <1>d DEF ClosedRight
<1>3. FirstBar(t.signal, e)'
  BY <1>1, <1>2, FirstStays DEF ClosedRight
<1>4. /\ HeldDays(t.signal.symbol, e, x)' = HeldDays(t.signal.symbol, e, x)
      /\ Rule(t.signal.symbol, e, x)' = Rule(t.signal.symbol, e, x)
  BY <1>2, PastStays
<1>5. Survives(t.signal.symbol, e, x - 1)' = Survives(t.signal.symbol, e, x - 1)
  BY <1>2, PastStays
<1>6. bars'[e] = bars[e] /\ bars'[x] = bars[x]
  BY <1>2
<1>7. ClosedRight(t, t.signal.symbol, e, x)'
  BY <1>1, <1>2, <1>3, <1>4, <1>5, <1>6 DEF ClosedRight
<1> QED
  BY <1>7

\* So does a position that is neither held a day longer nor closed.
LEMMA HeldStays ==
  ASSUME NEW n \in Int, \A d \in Days : d <= n => bars'[d] = bars[d],
         day \in Int, day' \in Int, day <= day',
         NEW s, HeldRight(s), Examined(s) \in Int, Examined(s) <= n,
         Examined(s)' = Examined(s),
         positions'[s].entry_date = positions[s].entry_date,
         positions'[s].signal = positions[s].signal,
         positions'[s].bar = positions[s].bar,
         positions'[s].holding_days = positions[s].holding_days
  PROVE  HeldRight(s)'
<1>d. Days \subseteq Int
  BY PortfolioAssumption DEF Days
<1>1. PICK e \in Days : e = positions[s].entry_date
  BY DEF HeldRight
<1>2. PICK x \in Int : x = Examined(s)
  OBVIOUS
<1>3. PICK g : g = positions[s].signal
  OBVIOUS
<1>4. e <= x /\ x <= n /\ e <= n
  BY <1>1, <1>2, <1>d DEF HeldRight
<1>5. FirstBar(g, e)'
  BY <1>1, <1>3, <1>4, FirstStays DEF HeldRight
<1>6. HeldDays(s, e, x)' = HeldDays(s, e, x) /\ Survives(s, e, x)' = Survives(s, e, x)
  BY <1>4, PastStays
<1>7. bars'[e] = bars[e]
  BY <1>4
<1>8. /\ positions'[s].entry_date = e /\ positions'[s].signal = g /\ Examined(s)' = x
  BY <1>1, <1>2, <1>3
<1> QED
  BY <1>1, <1>2, <1>3, <1>4, <1>5, <1>6, <1>7, <1>8 DEF HeldRight

\* One more day: a bar adds a day to those held, a missing bar does not.
LEMMA AnotherDay ==
  ASSUME NEW x \in Days, NEW s, NEW e \in Days, e < x
  PROVE  /\ s \notin DOMAIN bars[x] => HeldDays(s, e, x) = HeldDays(s, e, x - 1)
         /\ s \in DOMAIN bars[x] =>
              /\ HeldDays(s, e, x) = HeldDays(s, e, x - 1) \cup {x}
              /\ Cardinality(HeldDays(s, e, x)) = Cardinality(HeldDays(s, e, x - 1)) + 1
<1>d. Days \subseteq Int /\ x \in Int /\ e \in Int
  BY PortfolioAssumption DEF Days
<1>0. \A k \in Days : (k <= x <=> k <= x - 1 \/ k = x) /\ ~(x <= x - 1)
  BY <1>d
<1>1. s \notin DOMAIN bars[x] => HeldDays(s, e, x) = HeldDays(s, e, x - 1)
  BY <1>0 DEF HeldDays
<1>2. s \in DOMAIN bars[x] => HeldDays(s, e, x) = HeldDays(s, e, x - 1) \cup {x}
  BY <1>0 DEF HeldDays
<1>3. x \notin HeldDays(s, e, x - 1)
  BY <1>d DEF HeldDays
<1>4. IsFiniteSet(HeldDays(s, e, x - 1))
  <2>1. IsFiniteSet(Days)
    BY FS_Interval, PortfolioAssumption DEF Days
  <2>2. HeldDays(s, e, x - 1) \subseteq Days
    BY DEF HeldDays
  <2> QED
    BY <2>1, <2>2, FS_Subset
<1>5. Cardinality(HeldDays(s, e, x - 1) \cup {x}) = Cardinality(HeldDays(s, e, x - 1)) + 1
  BY <1>3, <1>4, FS_AddElement
<1> QED
  BY <1>1, <1>2, <1>5

\* A step that concerns at most the position of s and the trade it makes.
LEMMA ModesTrade ==
  ASSUME BufferInv, ModesInv, NEW s \in Symbols,
         UNCHANGED <<present, bars, phase, day, planned>>,
         entries' \subseteq entries, exits' \in {exits, exits \ {s}},
         \A u \in Symbols : u # s => positions'[u] = positions[u],
         s \in Open' => HeldRight(s)',
         \A t \in trades' : t \in trades \/ TradedRight(t)'
  PROVE  ModesInv'
<1>1. PICK n \in Int : n = day
  BY DEF BufferInv, Types, Days
<1>2. FutureUnread' /\ PlannedFirst'
  BY DEF ModesInv, FutureUnread, PlannedFirst
<1>3. ASSUME NEW u \in Open' PROVE HeldRight(u)'
  <2>1. CASE u = s
    BY <1>3, <2>1
  <2>2. CASE u # s
    <3>1. u \in Open /\ positions'[u] = positions[u]
      BY <1>3, <2>2 DEF Open
    <3>2. Examined(u)' = Examined(u) /\ Examined(u) \in Int /\ Examined(u) <= n
      BY <1>1, <2>2 DEF Examined
    <3>3. HeldRight(u)
      BY <3>1 DEF ModesInv
    <3> QED
      BY <1>1, <3>1, <3>2, <3>3, HeldStays
  <2> QED
    BY <2>1, <2>2
<1>4. ASSUME NEW t \in trades PROVE TradedRight(t)'
  <2>1. TradedRight(t)
    BY <1>4 DEF ModesInv
  <2> QED
    BY <1>1, <2>1, TradeStays
<1>5. (\A u \in Open : HeldRight(u))' /\ (\A t \in trades : TradedRight(t))'
  BY <1>3, <1>4
<1> QED
  BY <1>2, <1>5 DEF ModesInv

\* A step that concerns no position.
LEMMA ModesIdle ==
  ASSUME BufferInv, ModesInv, UNCHANGED <<present, bars, day, positions, trades, exits>>,
         \A s \in Open : Examined(s)' = Examined(s),
         phase' \in {"plan", "open"} => phase \in {"plan", "open"},
         PlannedFirst'
  PROVE  ModesInv'
<1>1. PICK n \in Int : n = day
  BY DEF BufferInv, Types, Days
<1>2. FutureUnread'
  BY DEF ModesInv, FutureUnread
<1>3. Open' = Open
  BY DEF Open
<1>4. ASSUME NEW s \in Open PROVE HeldRight(s)'
  <2>1. Examined(s) \in Int /\ Examined(s) <= n
    BY <1>1 DEF Examined
  <2>2. HeldRight(s)
    BY <1>4 DEF ModesInv
  <2> QED
    BY <1>1, <1>4, <2>1, <2>2, HeldStays
<1>5. ASSUME NEW t \in trades PROVE TradedRight(t)'
  <2>1. TradedRight(t)
    BY <1>5 DEF ModesInv
  <2> QED
    BY <1>1, <2>1, TradeStays
<1>6. (\A s \in Open : HeldRight(s))' /\ (\A t \in trades : TradedRight(t))'
  BY <1>3, <1>4, <1>5
<1> QED
  BY <1>2, <1>6 DEF ModesInv

\* Planning finds the first bar of every signal.
LEMMA ModesPlan == BufferInv /\ ModesInv /\ PlanEntries => ModesInv'
<1> SUFFICES ASSUME BufferInv, ModesInv, PlanEntries PROVE ModesInv'
  OBVIOUS
<1>1. /\ UNCHANGED <<present, bars, day, positions, trades, exits>>
      /\ phase = "plan" /\ phase' = "open"
      /\ planned' = [d \in Days |-> {g \in signals : EntryDays(g) # {} /\ Min(EntryDays(g)) = d}]
  BY DEF PlanEntries, input, account
<1>2. PlannedFirst'
  <2>1. ASSUME NEW d \in Days, NEW g \in planned'[d]
        PROVE  /\ g.date < d /\ g.symbol \in present[d]
               /\ \A k \in Days : g.date < k /\ k < d => g.symbol \notin present[k]
    <3>1. EntryDays(g) # {} /\ Min(EntryDays(g)) = d
      BY <1>1, <2>1
    <3>2. EntryDays(g) \subseteq Nat
      BY PortfolioAssumption DEF EntryDays, Days
    <3>3. PICK m \in EntryDays(g) : \A k \in EntryDays(g) : m <= k
      BY <3>1, <3>2, SmallestNat
    <3>4. m = d
      BY <3>1, <3>2, <3>3, MinIs
    <3>5. \A k \in Days : k \in Int /\ d \in Int
      BY PortfolioAssumption DEF Days
    <3> QED
      BY <3>3, <3>4, <3>5 DEF EntryDays
  <2> QED
    BY <1>1, <2>1 DEF PlannedFirst
<1>3. \A s \in Open : Examined(s)' = Examined(s)
  BY <1>1 DEF Examined
<1> QED
  BY <1>1, <1>2, <1>3, ModesIdle

\* The bars drawn today are not those of any day examined.
LEMMA ModesOpen == BufferInv /\ ModesInv /\ OpenDay => ModesInv'
<1> SUFFICES ASSUME BufferInv, ModesInv, OpenDay PROVE ModesInv'
  OBVIOUS
<1>1. /\ UNCHANGED <<present, day, positions, trades, planned>>
      /\ phase = "open" /\ phase' = "exits" /\ exits' = Open /\ entries' = planned[day]
  BY DEF OpenDay, input, account
<1>2. \A d \in Days : d # day => bars'[d] = bars[d]
  BY DEF OpenDay, BufferInv, Types
<1>3. day \in Int /\ Days \subseteq Int
  BY PortfolioAssumption DEF BufferInv, Types, Days
<1>4. PICK n \in Int : n = day - 1
  BY <1>3
<1>5. /\ \A d \in Days : d <= n => bars'[d] = bars[d]
      /\ \A d \in Days : d <= day /\ DOMAIN bars[d] # {} => d <= n
  BY <1>1, <1>2, <1>3, <1>4 DEF ModesInv, FutureUnread
<1>6. FutureUnread'
  BY <1>1, <1>2, <1>3 DEF ModesInv, FutureUnread
<1>7. PlannedFirst'
  BY <1>1 DEF ModesInv, PlannedFirst
<1>8. Open' = Open
  BY <1>1 DEF Open
<1>9. ASSUME NEW s \in Open PROVE HeldRight(s)'
  <2>1. Examined(s) = n /\ Examined(s)' = n
    BY <1>1, <1>4, <1>9 DEF Examined
  <2>2. HeldRight(s)
    BY <1>9 DEF ModesInv
  <2>3. positions'[s] = positions[s] /\ day' = day
    BY <1>1
  <2> QED
    BY <1>3, <1>5, <2>1, <2>2, <2>3, HeldStays
<1>10. ASSUME NEW t \in trades PROVE TradedRight(t)'
  <2>1. TradedRight(t)
    BY <1>10 DEF ModesInv
  <2> QED
    BY <1>1, <1>3, <1>5, <2>1, TradeStays
<1>11. (\A s \in Open : HeldRight(s))' /\ (\A t \in trades : TradedRight(t))'
  BY <1>1, <1>8, <1>9, <1>10
<1> QED
  BY <1>6, <1>7, <1>11 DEF ModesInv

\* What is true of the position that is examined next.
LEMMA ExaminedNext ==
  ASSUME BufferInv, ModesInv, phase = "exits", exits # {}
  PROVE  /\ NextExit \in exits /\ NextExit \in Open /\ NextExit \in Symbols
         /\ HeldRight(NextExit) /\ Examined(NextExit) = day - 1
         /\ positions[NextExit] \in PositionRecords
<1>1. exits \subseteq Open /\ Open \subseteq Symbols /\ Symbols \subseteq Nat
  BY PortfolioAssumption DEF BufferInv, Drawn, Open
<1>2. NextExit \in exits
  BY <1>1, MinIn DEF NextExit
<1> QED
  BY <1>1, <1>2 DEF ModesInv, Examined, BufferInv, Types

\* A day without a bar is not held.
LEMMA ModesCarry == BufferInv /\ LookInv /\ ModesInv /\ Carry => ModesInv'
<1> SUFFICES ASSUME BufferInv, LookInv, ModesInv, Carry PROVE ModesInv'
  OBVIOUS
<1>1. PICK s \in Symbols : s = NextExit
  BY ExaminedNext DEF Carry
<1>2. /\ UNCHANGED <<present, bars, phase, day, planned, entries, positions, trades>>
      /\ exits' = exits \ {s} /\ phase = "exits" /\ exits # {} /\ s \notin present[day]
  BY <1>1 DEF Carry, input, account, HasBar
<1>3. HeldRight(s) /\ Examined(s) = day - 1
  BY <1>1, <1>2, ExaminedNext
<1>4. PICK n \in Days : n = day
  BY DEF BufferInv, Types
<1>5. PICK e \in Days : e = positions[s].entry_date
  BY <1>3 DEF HeldRight
<1>d. n \in Int /\ e \in Int /\ e <= n - 1
  BY <1>3, <1>4, <1>5, PortfolioAssumption DEF HeldRight, Days
<1>6. s \notin DOMAIN bars[n]
  BY <1>2, <1>4 DEF LookInv, DrawnArePresent
<1>7. HeldDays(s, e, n) = HeldDays(s, e, n - 1)
  BY <1>d, <1>6, AnotherDay
<1>8. HeldDays(s, e, n)' = HeldDays(s, e, n) /\ Survives(s, e, n)' = Survives(s, e, n)
  <2>1. e <= n /\ n <= n
    BY <1>d
  <2>2. \A d \in Days : d <= n => bars'[d] = bars[d]
    BY <1>2
  <2> QED
    BY <1>d, <2>1, <2>2, PastStays
<1>9. Survives(s, e, n) = Survives(s, e, n - 1)
  BY <1>7 DEF Survives
<1>10. Examined(s)' = n
  BY <1>2, <1>4 DEF Examined
<1>11. FirstBar(positions[s].signal, e)'
  <2>1. PICK g : g = positions[s].signal
    OBVIOUS
  <2>2. FirstBar(g, e)'
    BY <1>2, <1>3, <1>4, <1>5, <1>d, <2>1, FirstStays DEF HeldRight
  <2> QED
    BY <1>2, <2>1, <2>2
<1>12. HeldRight(s)'
  BY <1>2, <1>3, <1>4, <1>5, <1>d, <1>7, <1>8, <1>9, <1>10, <1>11 DEF HeldRight
<1> QED
  BY <1>2, <1>12, ModesTrade

\* A day on which the rules keep the position.
LEMMA ModesHold == BufferInv /\ LookInv /\ ModesInv /\ Hold => ModesInv'
<1> SUFFICES ASSUME BufferInv, LookInv, ModesInv, Hold PROVE ModesInv'
  OBVIOUS
<1>1. PICK s \in Symbols : s = NextExit
  BY ExaminedNext DEF Hold
<1>2. /\ UNCHANGED <<present, bars, phase, day, planned, entries, trades>>
      /\ exits' = exits \ {s} /\ phase = "exits" /\ exits # {} /\ s \in present[day] /\ ~Final
      /\ ExitTerms(s) = NoExit
  BY <1>1 DEF Hold, input, HasBar
<1>3. HeldRight(s) /\ Examined(s) = day - 1 /\ s \in Open /\ positions[s] \in PositionRecords
  BY <1>1, <1>2, ExaminedNext
<1>4. PICK n \in Days : n = day
  BY DEF BufferInv, Types
<1>5. PICK e \in Days : e = positions[s].entry_date
  BY <1>3 DEF HeldRight
<1>d. n \in Int /\ e \in Int /\ e <= n - 1
  BY <1>3, <1>4, <1>5, PortfolioAssumption DEF HeldRight, Days
<1>6. s \in DOMAIN bars[n]
  BY <1>2, <1>3, <1>4 DEF BufferInv, Drawn
<1>7. /\ HeldDays(s, e, n) = HeldDays(s, e, n - 1) \cup {n}
      /\ Cardinality(HeldDays(s, e, n)) = Cardinality(HeldDays(s, e, n - 1)) + 1
  BY <1>d, <1>6, AnotherDay
<1>8. HeldDays(s, e, n)' = HeldDays(s, e, n) /\ Survives(s, e, n)' = Survives(s, e, n)
  <2>1. e <= n /\ n <= n
    BY <1>d
  <2>2. \A d \in Days : d <= n => bars'[d] = bars[d]
    BY <1>2
  <2> QED
    BY <1>d, <2>1, <2>2, PastStays
<1>9. /\ Held(positions[s]).holding_days = positions[s].holding_days + 1
      /\ Held(positions[s]).entry_date = e
      /\ Held(positions[s]).signal = positions[s].signal
      /\ Held(positions[s]).bar = positions[s].bar
  BY <1>3, <1>5 DEF Held, PositionRecords
<1>10. positions' = [positions EXCEPT ![s] = Held(positions[s])]
  BY <1>1 DEF Hold
<1>11. positions'[s] = Held(positions[s]) /\ \A u \in Symbols : u # s => positions'[u] = positions[u]
  BY <1>10 DEF BufferInv, Types
<1>12. Rule(s, e, n) = NoExit
  <2>1. Entry(positions[s]) = EntryPrice(bars[e][s])
    BY <1>3, <1>5 DEF HeldRight, Entry
  <2>2. Held(positions[s]).holding_days = Cardinality(HeldDays(s, e, n))
    BY <1>3, <1>4, <1>5, <1>7, <1>9 DEF HeldRight
  <2> QED
    BY <1>2, <1>4, <2>1, <2>2 DEF Rule, ExitTerms
<1>13. Survives(s, e, n)
  BY <1>3, <1>4, <1>5, <1>7, <1>12 DEF HeldRight, Survives
<1>14. Examined(s)' = n
  BY <1>2, <1>4 DEF Examined
<1>15. FirstBar(positions[s].signal, e)'
  <2>1. PICK g : g = positions[s].signal
    OBVIOUS
  <2>2. FirstBar(g, e)'
    BY <1>2, <1>3, <1>4, <1>5, <1>d, <2>1, FirstStays DEF HeldRight
  <2> QED
    BY <1>9, <1>11, <2>1, <2>2
<1>16. HeldRight(s)'
  <2>1. positions'[s].holding_days = Cardinality(HeldDays(s, e, n)')
    BY <1>3, <1>4, <1>5, <1>7, <1>8, <1>9, <1>11 DEF HeldRight
  <2>2. positions'[s].signal.symbol = s /\ positions'[s].bar = bars'[e][s]
    BY <1>2, <1>3, <1>5, <1>9, <1>11 DEF HeldRight
  <2>3. positions'[s].entry_date = e /\ e <= n
    BY <1>9, <1>11, <1>d
  <2> QED
    BY <1>8, <1>13, <1>14, <1>15, <2>1, <2>2, <2>3 DEF HeldRight
<1> QED
  BY <1>2, <1>11, <1>16, ModesTrade

\* What close_position() records.
LEMMA ClosedTrade ==
  ASSUME NEW s, NEW p, NEW raw, NEW reason, ClosePosition(s, p, raw, reason), NEW t \in trades'
  PROVE  t \in trades \/ t = BacktestTrade(p.signal, p.entry_date, p.bar, p.quantity, day, raw,
                                           reason, p.holding_days)
  BY DEF ClosePosition

\* The fields of a trade that tell how it came about.
LEMMA TradeFields ==
  ASSUME NEW g, NEW e, NEW b, NEW q, NEW x, NEW raw, NEW reason, NEW h
  PROVE  /\ BacktestTrade(g, e, b, q, x, raw, reason, h).signal = g
         /\ BacktestTrade(g, e, b, q, x, raw, reason, h).quantity = q
         /\ BacktestTrade(g, e, b, q, x, raw, reason, h).reason = reason
  BY DEF BacktestTrade

\* A position is closed as the rules say, or at the end of the period.
LEMMA ModesExit == BufferInv /\ LookInv /\ ModesInv /\ Exit => ModesInv'
<1> SUFFICES ASSUME BufferInv, LookInv, ModesInv, Exit PROVE ModesInv'
  OBVIOUS
<1>1. PICK s \in Symbols : s = NextExit
  BY ExaminedNext DEF Exit
<1>2. /\ UNCHANGED <<present, bars, phase, day, planned, entries>>
      /\ exits' = exits \ {s} /\ phase = "exits" /\ exits # {}
      /\ s \in present[day] \/ Final
      /\ ExitTerms(s) # NoExit
      /\ ClosePosition(s, Held(positions[s]), ExitTerms(s).raw, ExitTerms(s).reason)
  BY <1>1 DEF Exit, input, HasBar
<1>3. HeldRight(s) /\ Examined(s) = day - 1 /\ s \in Open /\ positions[s] \in PositionRecords
  BY <1>1, <1>2, ExaminedNext
<1>4. PICK n \in Days : n = day
  BY DEF BufferInv, Types
<1>5. PICK e \in Days : e = positions[s].entry_date
  BY <1>3 DEF HeldRight
<1>d. n \in Int /\ e \in Int /\ e <= n - 1
  BY <1>3, <1>4, <1>5, PortfolioAssumption DEF HeldRight, Days
<1>6. /\ Held(positions[s]).holding_days = positions[s].holding_days + 1
      /\ Held(positions[s]).entry_date = e
      /\ Held(positions[s]).signal = positions[s].signal
      /\ Held(positions[s]).bar = positions[s].bar
      /\ Held(positions[s]).quantity = positions[s].quantity
  BY <1>3, <1>5 DEF Held, PositionRecords
<1>7. positions' = [positions EXCEPT ![s] = Flat]
  BY <1>2 DEF ClosePosition
<1>8. s \notin Open' /\ \A u \in Symbols : u # s => positions'[u] = positions[u]
  BY <1>7 DEF BufferInv, Types, Open
<1>9. ASSUME NEW t \in trades', t \notin trades PROVE TradedRight(t)'
  <2>1. t = BacktestTrade(positions[s].signal, e, positions[s].bar, positions[s].quantity, n,
                          ExitTerms(s).raw, ExitTerms(s).reason, positions[s].holding_days + 1)
    BY <1>2, <1>4, <1>6, <1>9, ClosedTrade
  <2>2. t.reason = ExitTerms(s).reason /\ t.signal = positions[s].signal /\ t.quantity = positions[s].quantity
    BY <2>1, TradeFields
  <2>3. CASE Final
    BY <2>2, <2>3 DEF TradedRight, ExitTerms
  <2>4. CASE ~Final
    <3>1. s \in DOMAIN bars[n]
      BY <1>2, <1>3, <1>4, <2>4 DEF BufferInv, Drawn
    <3>2. Cardinality(HeldDays(s, e, n)) = Cardinality(HeldDays(s, e, n - 1)) + 1
      BY <1>d, <3>1, AnotherDay
    <3>3. positions[s].holding_days + 1 = Cardinality(HeldDays(s, e, n))
      BY <1>3, <1>4, <1>5, <3>2 DEF HeldRight
    <3>4. ExitTerms(s) = Rule(s, e, n)
      <4>1. Entry(positions[s]) = EntryPrice(bars[e][s])
        BY <1>3, <1>5 DEF HeldRight, Entry
      <4> QED
        BY <1>4, <1>6, <2>4, <3>3, <4>1 DEF Rule, ExitTerms
    <3>5. FirstBar(t.signal, e) /\ Survives(s, e, n - 1) /\ positions[s].bar = bars[e][s]
      BY <1>3, <1>4, <1>5, <2>2 DEF HeldRight
    <3>6. t = BacktestTrade(t.signal, e, bars[e][s], t.quantity, n, Rule(s, e, n).raw,
                            Rule(s, e, n).reason, Cardinality(HeldDays(s, e, n)))
      BY <2>1, <2>2, <3>3, <3>4, <3>5
    <3>7. ClosedRight(t, s, e, n)
      BY <1>2, <1>4, <1>d, <3>1, <3>4, <3>5, <3>6 DEF ClosedRight
    <3>8. t.signal.symbol = s
      BY <1>3, <2>2 DEF HeldRight
    <3>9. TradedRight(t)
      BY <3>7, <3>8 DEF TradedRight
    <3>10. /\ \A d \in Days : d <= n => bars'[d] = bars[d]
           /\ \A d \in Days : d <= day /\ DOMAIN bars[d] # {} => d <= n
           /\ day \in Int /\ day' \in Int /\ day <= day'
      BY <1>2, <1>4, <1>d
    <3> QED
      BY <1>d, <3>9, <3>10, TradeStays
  <2> QED
    BY <2>3, <2>4
<1> QED
  BY <1>2, <1>8, <1>9, ModesTrade

\* What is sold on the day it was bought is sold at the end of the period.
LEMMA ModesLiquidate == BufferInv /\ ModesInv /\ LiquidateEntry => ModesInv'
<1> SUFFICES ASSUME BufferInv, ModesInv, LiquidateEntry PROVE ModesInv'
  OBVIOUS
<1>1. Min(EnteredToday) \in EnteredToday
  BY MinIn, PortfolioAssumption DEF EnteredToday, Open, LiquidateEntry
<1>2. PICK s \in Open : s = Min(EnteredToday)
  BY <1>1 DEF EnteredToday
<1>3. /\ UNCHANGED <<present, bars, phase, day, planned, entries, exits>>
      /\ ClosePosition(s, positions[s], Money(bars[day][s].close), "end_of_period")
  BY <1>2 DEF LiquidateEntry, input
<1>4. positions' = [positions EXCEPT ![s] = Flat] /\ s \in Symbols
  BY <1>3 DEF ClosePosition, Open
<1>5. s \notin Open' /\ \A u \in Symbols : u # s => positions'[u] = positions[u]
  BY <1>4 DEF BufferInv, Types, Open
<1>6. ASSUME NEW t \in trades', t \notin trades PROVE TradedRight(t)'
  <2>1. t.reason = "end_of_period"
    BY <1>3, <1>6, ClosedTrade, TradeFields
  <2> QED
    BY <2>1 DEF TradedRight
<1> QED
  BY <1>3, <1>4, <1>5, <1>6, ModesTrade

\* A position is entered on the first bar after its signal, to be held from
\* tomorrow.
LEMMA ModesEnter == BufferInv /\ LookInv /\ ModesInv /\ Enter => ModesInv'
<1> SUFFICES ASSUME BufferInv, LookInv, ModesInv, Enter PROVE ModesInv'
  OBVIOUS
<1>1. PICK g \in entries : g = NextEntry
  BY NextEntryIn DEF Enter, BufferInv, Drawn, Types
<1>2. PICK s \in Symbols : s = g.symbol
  BY DEF BufferInv, Drawn, Types, Signals
<1>3. PICK q \in Affordable(g) :
        positions' = [positions EXCEPT ![s] =
          [signal |-> g, entry_date |-> day, bar |-> bars[day][s],
           quantity |-> q, last_close |-> Price(g), holding_days |-> 0]]
  BY <1>1, <1>2 DEF Enter
<1>4. /\ UNCHANGED <<present, bars, phase, day, exits, planned, trades>> /\ phase = "entries"
      /\ entries' \subseteq entries
  BY DEF Enter, input
<1>5. PICK n \in Days : n = day
  BY DEF BufferInv, Types
<1>d. n \in Int /\ Days \subseteq Int
  BY PortfolioAssumption DEF Days
<1>6. /\ \A u \in Symbols : u # s => positions'[u] = positions[u]
      /\ positions'[s].signal = g /\ positions'[s].entry_date = n
      /\ positions'[s].bar = bars[n][s] /\ positions'[s].holding_days = 0
  BY <1>3, <1>5 DEF BufferInv, Types
<1>7. s \in DOMAIN bars[n]
  BY <1>2, <1>4, <1>5 DEF BufferInv, Drawn
<1>8. FirstBar(g, n)
  <2>1. /\ g.date < n
        /\ \A k \in Days : g.date < k /\ k < n => g.symbol \notin present[k]
    BY <1>4, <1>5 DEF ModesInv, PlannedFirst
  <2>2. \A k \in Days : DOMAIN bars[k] \subseteq present[k]
    BY DEF LookInv, DrawnArePresent
  <2>3. g \in Signals
    BY DEF BufferInv, Drawn, Types
  <2> QED
    BY <1>2, <1>5, <1>7, <1>d, <2>1, <2>2, <2>3 DEF FirstBar
<1>9. FirstBar(g, n)'
  BY <1>4, <1>5, <1>8, <1>d, FirstStays
<1>10. HeldDays(s, n, n)' = {} /\ Survives(s, n, n)'
  <2>1. \A k \in Days : ~(n < k /\ k <= n)
    BY <1>d
  <2>2. HeldDays(s, n, n)' = {}
    BY <2>1 DEF HeldDays
  <2> QED
    BY <2>2 DEF Survives
<1>11. Examined(s)' = n
  BY <1>4, <1>5 DEF Examined
<1>12. Cardinality(HeldDays(s, n, n)') = 0
  BY <1>10, FS_EmptySet
<1>13. HeldRight(s)'
  BY <1>2, <1>4, <1>6, <1>9, <1>10, <1>11, <1>12, <1>d DEF HeldRight
<1> QED
  BY <1>4, <1>6, <1>13, ModesTrade

\* The end of a day changes marks only, and tomorrow today has been examined.
LEMMA ModesEnd == BufferInv /\ LookInv /\ ModesInv /\ EndDay => ModesInv'
<1> SUFFICES ASSUME BufferInv, LookInv, ModesInv, EndDay PROVE ModesInv'
  OBVIOUS
<1>1. /\ positions' = [s \in Symbols |-> Marked(s)]
      /\ phase = "entries"
      /\ day' = (IF Final THEN day ELSE day + 1)
      /\ phase' = (IF Final THEN "done" ELSE "open")
      /\ UNCHANGED <<present, bars, planned, trades, entries>>
  BY DEF EndDay, input
<1>2. PICK n \in Int : n = day
  BY DEF BufferInv, Types, Days
<1>3. day \in Int /\ day' \in Int /\ day <= day'
  BY <1>1, <1>2
<1>4. FutureUnread'
  BY <1>1, <1>2 DEF ModesInv, FutureUnread, Days
<1>5. PlannedFirst'
  BY <1>1 DEF ModesInv, PlannedFirst
<1>6. ASSUME NEW s \in Open' PROVE HeldRight(s)'
  <2>1. s \in Symbols /\ s \in Open /\ positions'[s] = Marked(s) /\ positions[s] \in PositionRecords
    BY <1>1, <1>6 DEF Open, Marked, BufferInv, Types
  <2>2. /\ positions'[s].entry_date = positions[s].entry_date
        /\ positions'[s].signal = positions[s].signal
        /\ positions'[s].bar = positions[s].bar
        /\ positions'[s].holding_days = positions[s].holding_days
    BY <2>1 DEF Marked, PositionRecords
  <2>3. Examined(s) = n /\ Examined(s)' = n
    BY <1>1, <1>2 DEF Examined
  <2>4. HeldRight(s)
    BY <2>1 DEF ModesInv
  <2> QED
    BY <1>1, <1>2, <1>3, <2>2, <2>3, <2>4, HeldStays
<1>7. ASSUME NEW t \in trades PROVE TradedRight(t)'
  <2>1. TradedRight(t)
    BY <1>7 DEF ModesInv
  <2> QED
    BY <1>1, <1>2, <1>3, <2>1, TradeStays
<1>8. (\A s \in Open : HeldRight(s))' /\ (\A t \in trades : TradedRight(t))'
  BY <1>1, <1>6, <1>7
<1> QED
  BY <1>4, <1>5, <1>8 DEF ModesInv

\* Every step of execute() keeps the invariant.
LEMMA ModesStep == BufferInv /\ LookInv /\ ModesInv /\ [Next]_vars => ModesInv'
<1> SUFFICES ASSUME BufferInv, LookInv, ModesInv, [Next]_vars PROVE ModesInv'
  OBVIOUS
<1>1. CASE PlanFails \/ Skip \/ Ended \/ UNCHANGED vars
  <2>1. /\ UNCHANGED <<present, bars, day, positions, trades, exits, planned>>
        /\ entries' \subseteq entries
        /\ phase' = phase \/ (phase = "plan" /\ phase' = "failed")
    BY <1>1 DEF PlanFails, Skip, Ended, vars, input, account
  <2>2. PlannedFirst'
    BY <2>1 DEF ModesInv, PlannedFirst
  <2>3. \A s \in Open : Examined(s)' = Examined(s)
    BY <2>1 DEF Examined
  <2> QED
    BY <2>1, <2>2, <2>3, ModesIdle
<1>2. CASE ExitsDone
  <2>1. /\ UNCHANGED <<present, bars, day, positions, trades, exits, planned, entries>>
        /\ phase = "exits" /\ phase' = "entries" /\ exits = {}
    BY <1>2 DEF ExitsDone, input, account
  <2>2. PlannedFirst'
    BY <2>1 DEF ModesInv, PlannedFirst
  <2>3. \A s \in Open : Examined(s)' = Examined(s)
    BY <2>1 DEF Examined
  <2> QED
    BY <2>1, <2>2, <2>3, ModesIdle
<1> QED
  BY <1>1, <1>2, ModesPlan, ModesOpen, ModesCarry, ModesHold, ModesExit, ModesEnter,
     ModesLiquidate, ModesEnd
  DEF Next

\* The three invariants hold in every reachable state.
LEMMA ModesInvariant == Spec => [](BufferInv /\ LookInv /\ ModesInv)
<1>1. Init => ModesInv
  <2> SUFFICES ASSUME Init PROVE ModesInv
    OBVIOUS
  <2>1. /\ Open = {} /\ trades = {} /\ phase = "plan"
        /\ \A d \in Days : DOMAIN bars[d] = {} /\ planned[d] = {}
    BY DEF Init, Open
  <2> QED
    BY <2>1 DEF ModesInv, FutureUnread, PlannedFirst
<1>2. BufferInv /\ LookInv /\ [Next]_vars => (BufferInv /\ LookInv)'
  BY BufferStep, LookStep
<1> QED
  BY <1>1, ModesStep, LookInvariant, PTL DEF Spec

\* Whatever a portfolio does with its cash, the position it takes for a signal
\* is entered, held and closed as simulate_signal() would: the trade of a
\* position that is closed before the end of the period is the very one of
\* the independent mode.
THEOREM ModesTradeAlike == Spec => []ModesAgree
<1>1. BufferInv /\ ModesInv => ModesAgree
  <2> SUFFICES ASSUME BufferInv, ModesInv, NEW t \in trades, t.reason # "end_of_period"
               PROVE  t = SimulateSignal(t.signal, BarsOf(t.signal.symbol), t.quantity)
    BY DEF ModesAgree
  <2>1. TradedRight(t)
    BY DEF ModesInv
  <2>2. PICK e \in Days, x \in Days : ClosedRight(t, t.signal.symbol, e, x)
    BY <2>1 DEF TradedRight
  <2>3. day \in Days
    BY DEF BufferInv, Types
  <2> QED
    BY <2>2, <2>3, SimulatedAlike
<1> QED
  BY <1>1, ModesInvariant, PTL

(***************************************************************************)
(* Every signal is accounted for.                                          *)
(***************************************************************************)

\* The signals that are still to be entered or skipped, those of the open
\* positions, and those of the trades: what is not yet skipped.
Upcoming ==
  {g \in signals :
     \/ g \in entries
     \/ \E d \in Days : g \in planned[d] /\ (d > day \/ (d = day /\ phase = "open"))}
HeldSignals   == {positions[s].signal : s \in Open}
TradedSignals == {t.signal : t \in trades}
Unskipped     == Upcoming \cup HeldSignals \cup TradedSignals

\* A signal is in one place at a time, and what is missing has been skipped.
Parted ==
  /\ HeldSignals \subseteq signals /\ TradedSignals \subseteq signals
  /\ \A s \in Open : positions[s].signal \notin Upcoming \cup TradedSignals
  /\ Upcoming \cap TradedSignals = {}
  /\ \A t, u \in trades : t.signal = u.signal => t = u

Counted ==
  phase \notin {"plan", "failed"} =>
    Cardinality(Unskipped) + Total(skips, SkipReasons) = Cardinality(signals)

SignalsInv ==
  /\ skips \in [SkipReasons -> Int]
  /\ phase = "plan" => /\ day = 1 /\ trades = {} /\ Open = {}
                       /\ \A r \in SkipReasons : skips[r] = 0
  /\ phase \notin {"exits", "entries"} => entries = {}
  /\ Parted /\ Counted

\* There are finitely many signals.
LEMMA SignalsFinite == IsFiniteSet(Signals)
<1>1. IsFiniteSet(SignalDays)
  <2>1. 1 \in Int /\ LastDay \in Int /\ SignalDays \subseteq 1..LastDay
    BY PortfolioAssumption DEF Days
  <2>2. IsFiniteSet(1..LastDay)
    BY <2>1, FS_Interval
  <2> QED
    BY <2>1, <2>2, FS_Subset
<1>2. IsFiniteSet(Symbols \X SignalDays)
  BY <1>1, FS_Product, PortfolioAssumption
<1> DEFINE f == [g \in Signals |-> <<g.symbol, g.date>>]
<1>3. f \in Injection(Signals, Symbols \X SignalDays)
  <2>1. f \in [Signals -> Symbols \X SignalDays]
    BY DEF Signals
  <2>2. ASSUME NEW g \in Signals, NEW h \in Signals, f[g] = f[h] PROVE g = h
    BY <2>2 DEF Signals
  <2> HIDE DEF f
  <2> QED
    BY <2>1, <2>2 DEF Injection, IsInjective
<1> HIDE DEF f
<1> QED
  BY <1>2, <1>3, FS_Injection

\* So are those that are not skipped.
LEMMA UnskippedFinite ==
  ASSUME BufferInv, Parted
  PROVE  /\ IsFiniteSet(signals) /\ Cardinality(signals) \in Nat
         /\ Unskipped \subseteq signals
         /\ IsFiniteSet(Unskipped) /\ Cardinality(Unskipped) \in Nat
<1>1. IsFiniteSet(signals)
  <2>1. signals \in SUBSET Signals
    BY DEF BufferInv, Types
  <2> QED
    BY <2>1, SignalsFinite, FS_Subset
<1>2. Unskipped \in SUBSET signals
  BY DEF Parted, Unskipped, Upcoming
<1>3. IsFiniteSet(Unskipped)
  BY <1>1, <1>2, FS_Subset
<1> QED
  BY <1>1, <1>2, <1>3, FS_CardinalityType

\* The reasons for a skip are finitely many.
LEMMA ReasonsFinite == IsFiniteSet(SkipReasons)
<1>1. \A T, x : IsFiniteSet(T) => IsFiniteSet(T \cup {x})
  BY FS_AddElement
<1>2. IsFiniteSet((((((({} \cup {"max_open_positions"}) \cup {"duplicate_symbol"})
                   \cup {"insufficient_cash"}) \cup {"minimum_cash_buffer"})
                   \cup {"quantity_zero"}) \cup {"no_entry_bar"}) \cup {"invalid_price"})
  BY <1>1, FS_EmptySet, Zenon
<1> QED
  BY <1>2 DEF SkipReasons

\* A step that moves no signal.
LEMMA SignalsStay ==
  ASSUME SignalsInv, UNCHANGED <<signals, skips, trades>>,
         phase \notin {"plan", "failed"}, phase' # "plan", Upcoming' = Upcoming,
         Open' = Open, \A s \in Open : positions'[s].signal = positions[s].signal,
         phase' \notin {"exits", "entries"} => entries' = {}
  PROVE  SignalsInv'
<1>1. HeldSignals' = HeldSignals
  BY DEF HeldSignals
<1>2. TradedSignals' = TradedSignals
  BY DEF TradedSignals
<1>3. Unskipped' = Unskipped
  BY <1>1, <1>2 DEF Unskipped
<1>4. Parted'
  BY <1>1, <1>2 DEF SignalsInv, Parted
<1>5. Counted'
  <2>1. Cardinality(Unskipped) + Total(skips, SkipReasons) = Cardinality(signals)
    BY DEF SignalsInv, Counted
  <2> QED
    BY <1>3, <2>1 DEF Counted
<1> QED
  BY <1>4, <1>5 DEF SignalsInv

\* Planning skips the signals of symbols without a bar to enter on.
LEMMA SignalsPlan == BufferInv /\ SignalsInv /\ PlanEntries => SignalsInv'
<1> SUFFICES ASSUME BufferInv, SignalsInv, PlanEntries PROVE SignalsInv'
  OBVIOUS
<1> DEFINE none == {g \in signals : EntryDays(g) = {}}
           some == {g \in signals : EntryDays(g) # {}}
<1>1. /\ UNCHANGED <<signals, day, entries, positions, trades>>
      /\ phase = "plan" /\ phase' = "open"
      /\ planned' = [d \in Days |-> {g \in signals : EntryDays(g) # {} /\ Min(EntryDays(g)) = d}]
      /\ skips' = [skips EXCEPT !["no_entry_bar"] = Cardinality(none)]
  BY DEF PlanEntries, input, account
<1>2. /\ day = 1 /\ trades = {} /\ Open = {} /\ entries = {}
      /\ skips \in [SkipReasons -> Int] /\ \A r \in SkipReasons : skips[r] = 0
  BY <1>1 DEF SignalsInv
<1>3. HeldSignals' = {} /\ TradedSignals' = {} /\ Open' = {}
  BY <1>1, <1>2 DEF HeldSignals, TradedSignals, Open
<1>4. Upcoming' = some
  <2>1. ASSUME NEW g \in some PROVE \E d \in Days : g \in planned'[d] /\ (d > day \/ d = day)
    <3>1. EntryDays(g) \subseteq Nat /\ EntryDays(g) \subseteq Days
      BY PortfolioAssumption DEF EntryDays, Days
    <3>2. Min(EntryDays(g)) \in Days
      BY <2>1, <3>1, MinIn
    <3>3. PICK d \in Days : d = Min(EntryDays(g))
      BY <3>2
    <3>4. d \in Int /\ d >= 1
      BY <3>3, PortfolioAssumption DEF Days
    <3> QED
      BY <1>1, <1>2, <2>1, <3>3, <3>4
  <2>2. ASSUME NEW g \in signals, NEW d \in Days, g \in planned'[d] PROVE g \in some
    BY <1>1, <2>2
  <2> HIDE DEF some
  <2>3. some \subseteq signals
    BY DEF some
  <2> QED
    BY <1>1, <1>2, <2>1, <2>2, <2>3 DEF Upcoming
<1>5. Unskipped' = some
  BY <1>3, <1>4 DEF Unskipped
<1>6. IsFiniteSet(signals) /\ Cardinality(signals) \in Nat
  BY UnskippedFinite DEF SignalsInv
<1>7. /\ IsFiniteSet(none) /\ Cardinality(none) \in Nat
      /\ Cardinality(some) \in Nat
      /\ Cardinality(some) + Cardinality(none) = Cardinality(signals)
  <2>1. none \in SUBSET signals /\ some = signals \ none /\ signals \cap none = none
    OBVIOUS
  <2> HIDE DEF none, some
  <2>2. IsFiniteSet(none) /\ Cardinality(none) \in Nat
    BY <1>6, <2>1, FS_Subset, FS_CardinalityType
  <2>3. IsFiniteSet(some) /\ Cardinality(some) = Cardinality(signals) - Cardinality(none)
    BY <1>6, <2>1, FS_Difference
  <2> QED
    BY <1>6, <2>2, <2>3, FS_CardinalityType
<1>8. skips' \in [SkipReasons -> Int] /\ Total(skips', SkipReasons) = Cardinality(none)
  <2> HIDE DEF none
  <2>1. PICK r \in SkipReasons : r = "no_entry_bar"
    BY DEF SkipReasons
  <2>2. PICK f \in [SkipReasons -> Int] : f = skips
    BY <1>2
  <2>7. skips' = [f EXCEPT ![r] = Cardinality(none)]
    BY <1>1, <2>1, <2>2
  <2>3. PICK g \in [SkipReasons -> Int] : g = skips'
    BY <1>7, <2>7
  <2>4. g[r] = Cardinality(none) /\ f[r] = 0 /\ \A x \in SkipReasons : x # r => g[x] = f[x]
    BY <1>1, <1>2, <2>1, <2>2, <2>3
  <2>5. Total(g, SkipReasons) = Total(f, SkipReasons) - f[r] + g[r]
    BY <2>4, ReasonsFinite, TotalChange
  <2>6. Total(f, SkipReasons) = 0
    BY <1>2, <2>2, ReasonsFinite, TotalZero
  <2> QED
    BY <1>7, <2>2, <2>3, <2>4, <2>5, <2>6
<1> HIDE DEF none, some
<1>9. Counted'
  BY <1>1, <1>5, <1>7, <1>8 DEF Counted
<1>10. Parted'
  BY <1>1, <1>2, <1>3 DEF Parted
<1> QED
  BY <1>1, <1>2, <1>8, <1>9, <1>10 DEF SignalsInv

\* The signals of the day are handed to its entries.
LEMMA SignalsOpen == BufferInv /\ SignalsInv /\ OpenDay => SignalsInv'
<1> SUFFICES ASSUME BufferInv, SignalsInv, OpenDay PROVE SignalsInv'
  OBVIOUS
<1>1. /\ UNCHANGED <<signals, skips, trades, day, planned, positions>>
      /\ phase = "open" /\ phase' = "exits" /\ entries' = planned[day]
  BY DEF OpenDay, input, account
<1>2. day \in Days /\ entries = {}
  BY <1>1 DEF BufferInv, Types, SignalsInv
<1>3. Upcoming' = Upcoming
  BY <1>1, <1>2 DEF Upcoming
<1> QED
  BY <1>1, <1>3, SignalsStay DEF Open

\* A position that is closed leaves its signal to the trade.
LEMMA SignalsClose ==
  ASSUME BufferInv, ModesInv, SignalsInv, NEW s \in Open, NEW p, NEW raw, NEW reason,
         p.signal = positions[s].signal, ClosePosition(s, p, raw, reason),
         UNCHANGED <<signals, skips, entries, planned, day, phase>>,
         phase \in {"exits", "entries"}
  PROVE  SignalsInv'
<1> DEFINE g == positions[s].signal
           t == BacktestTrade(p.signal, p.entry_date, p.bar, p.quantity, day, raw, reason,
                              p.holding_days)
<1>1. trades' = trades \cup {t} /\ positions' = [positions EXCEPT ![s] = Flat]
  BY DEF ClosePosition
<1>2. t.signal = g
  BY TradeFields
<1> HIDE DEF t
<1>3. Open' = Open \ {s} /\ \A u \in Open' : positions'[u] = positions[u]
  BY <1>1 DEF BufferInv, Types, Open
<1>4. \A u \in Open : positions[u].signal = g => u = s
  BY DEF ModesInv, HeldRight
<1>5. HeldSignals' = HeldSignals \ {g}
  BY <1>3, <1>4 DEF HeldSignals
<1>6. TradedSignals' = TradedSignals \cup {g}
  BY <1>1, <1>2 DEF TradedSignals
<1>7. Upcoming' = Upcoming
  BY DEF Upcoming
<1>8. g \in HeldSignals /\ g \notin TradedSignals /\ g \notin Upcoming
  BY DEF HeldSignals, SignalsInv, Parted
<1>9. Unskipped' = Unskipped
  BY <1>5, <1>6, <1>7, <1>8 DEF Unskipped
<1>10. \A x \in trades : x.signal # g
  BY <1>8 DEF TradedSignals
<1>11. Parted'
  <2>1. /\ HeldSignals' \subseteq signals' /\ TradedSignals' \subseteq signals'
        /\ Upcoming' \cap TradedSignals' = {}
    BY <1>5, <1>6, <1>7, <1>8 DEF SignalsInv, Parted
  <2>2. \A u \in Open' : positions'[u].signal \notin Upcoming' \cup TradedSignals'
    <3> HIDE DEF g
    <3> QED
      BY <1>3, <1>4, <1>6, <1>7 DEF SignalsInv, Parted
  <2>3. \A x, y \in trades' : x.signal = y.signal => x = y
    BY <1>1, <1>2, <1>10 DEF SignalsInv, Parted
  <2> QED
    BY <2>1, <2>2, <2>3 DEF Parted
<1>12. Counted'
  <2>1. Cardinality(Unskipped) + Total(skips, SkipReasons) = Cardinality(signals)
    BY DEF SignalsInv, Counted
  <2> QED
    BY <1>9, <2>1 DEF Counted
<1> QED
  BY <1>11, <1>12 DEF SignalsInv

\* A signal of today is planned for no later day: once it is dealt with, it is
\* not upcoming.
LEMMA LeavesEntries ==
  ASSUME BufferInv, ModesInv, NEW g \in entries, phase = "entries",
         UNCHANGED <<signals, planned, day, phase>>, entries' = entries \ {g}
  PROVE  g \in Upcoming /\ Upcoming' = Upcoming \ {g}
<1>1. g \in signals
  BY DEF BufferInv, Drawn
<1>2. PICK n \in Days : n = day
  BY DEF BufferInv, Types
<1>3. g.date < n /\ g.symbol \in present[n]
  BY <1>2 DEF ModesInv, PlannedFirst
<1>4. \A d \in Days : d > n => g \notin planned[d]
  BY <1>2, <1>3 DEF ModesInv, PlannedFirst, Days
<1> QED
  BY <1>1, <1>2, <1>4 DEF Upcoming

\* A signal that is skipped is counted once.
LEMMA SignalsSkip == BufferInv /\ ModesInv /\ SignalsInv /\ Skip => SignalsInv'
<1> SUFFICES ASSUME BufferInv, ModesInv, SignalsInv, Skip PROVE SignalsInv'
  OBVIOUS
<1>1. PICK g \in entries : g = NextEntry
  BY NextEntryIn DEF Skip, BufferInv, Drawn, Types
<1>2. PICK r \in SkipReasons : r = SkipReason(g)
  BY <1>1 DEF Skip, SkipReason, SkipReasons
<1>3. /\ UNCHANGED <<signals, planned, day, phase, positions, trades>> /\ phase = "entries"
      /\ skips' = [skips EXCEPT ![r] = @ + 1] /\ entries' = entries \ {g}
  BY <1>1, <1>2 DEF Skip, input, account
<1>4. g \in Upcoming /\ Upcoming' = Upcoming \ {g}
  BY <1>1, <1>3, LeavesEntries
<1>5. HeldSignals' = HeldSignals /\ TradedSignals' = TradedSignals /\ Open' = Open
  BY <1>3 DEF HeldSignals, TradedSignals, Open
<1>6. g \notin HeldSignals /\ g \notin TradedSignals
  BY <1>4 DEF SignalsInv, Parted, HeldSignals
<1>7. Unskipped' = Unskipped \ {g} /\ g \in Unskipped
  BY <1>4, <1>5, <1>6 DEF Unskipped
<1>8. IsFiniteSet(Unskipped) /\ Cardinality(Unskipped) \in Nat /\ Cardinality(signals) \in Nat
  BY UnskippedFinite DEF SignalsInv
<1>9. Cardinality(Unskipped') = Cardinality(Unskipped) - 1
  BY <1>7, <1>8, FS_RemoveElement
<1>10. /\ skips' \in [SkipReasons -> Int]
       /\ Total(skips, SkipReasons) \in Int
       /\ Total(skips', SkipReasons) = Total(skips, SkipReasons) + 1
  <2>1. PICK f \in [SkipReasons -> Int] : f = skips
    BY DEF SignalsInv
  <2>2. PICK h \in [SkipReasons -> Int] : h = skips'
    BY <1>3, <2>1
  <2>3. h[r] = f[r] + 1 /\ \A x \in SkipReasons : x # r => h[x] = f[x]
    BY <1>3, <2>1, <2>2
  <2>4. Total(h, SkipReasons) = Total(f, SkipReasons) - f[r] + h[r]
    BY <2>3, ReasonsFinite, TotalChange
  <2>5. Total(f, SkipReasons) \in Int /\ f[r] \in Int
    BY <2>1, ReasonsFinite, TotalInt
  <2> QED
    BY <2>1, <2>2, <2>3, <2>4, <2>5
<1>11. Counted'
  <2>1. Cardinality(Unskipped) + Total(skips, SkipReasons) = Cardinality(signals)
    BY <1>3 DEF SignalsInv, Counted
  <2> QED
    BY <1>3, <1>8, <1>9, <1>10, <2>1 DEF Counted
<1>12. Parted'
  BY <1>3, <1>4, <1>5 DEF SignalsInv, Parted
<1> QED
  BY <1>3, <1>10, <1>11, <1>12 DEF SignalsInv

\* A signal that is entered is that of the new position.
LEMMA SignalsEnter == BufferInv /\ ModesInv /\ SignalsInv /\ Enter => SignalsInv'
<1> SUFFICES ASSUME BufferInv, ModesInv, SignalsInv, Enter PROVE SignalsInv'
  OBVIOUS
<1>1. PICK g \in entries : g = NextEntry
  BY NextEntryIn DEF Enter, BufferInv, Drawn, Types
<1>2. PICK s \in Symbols : s = g.symbol
  BY DEF BufferInv, Drawn, Types, Signals
<1>3. PICK q \in Affordable(g) :
        positions' = [positions EXCEPT ![s] =
          [signal |-> g, entry_date |-> day, bar |-> bars[day][s],
           quantity |-> q, last_close |-> Price(g), holding_days |-> 0]]
  BY <1>1, <1>2 DEF Enter
<1>4. /\ UNCHANGED <<signals, skips, planned, day, phase, trades>> /\ phase = "entries"
      /\ entries' = entries \ {g}
      /\ SkipReason(g) = "none"
  BY <1>1 DEF Enter, input
<1>5. s \notin Open
  BY <1>2, <1>4 DEF SkipReason
<1>6. /\ Open' = Open \cup {s} /\ positions'[s].signal = g
      /\ \A u \in Open : positions'[u] = positions[u]
  <2>1. positions'[s].signal = g /\ \A u \in Symbols : u # s => positions'[u] = positions[u]
    BY <1>3 DEF BufferInv, Types
  <2>2. positions'[s] # Flat
    <3>1. day \in Days /\ positions'[s].entry_date = day
      BY <1>3 DEF BufferInv, Types
    <3> QED
      BY <3>1, PortfolioAssumption DEF Flat, Days
  <2> QED
    BY <1>5, <2>1, <2>2 DEF Open
<1>7. HeldSignals' = HeldSignals \cup {g}
  BY <1>6 DEF HeldSignals
<1>8. TradedSignals' = TradedSignals
  BY <1>4 DEF TradedSignals
<1>9. g \in Upcoming /\ Upcoming' = Upcoming \ {g}
  BY <1>1, <1>4, LeavesEntries
<1>10. Unskipped' = Unskipped
  BY <1>7, <1>8, <1>9 DEF Unskipped
<1>11. Parted'
  <2>1. /\ HeldSignals' \subseteq signals' /\ TradedSignals' \subseteq signals'
        /\ Upcoming' \cap TradedSignals' = {}
    BY <1>4, <1>7, <1>8, <1>9 DEF SignalsInv, Parted, Upcoming
  <2>2. \A u \in Open' : positions'[u].signal \notin Upcoming' \cup TradedSignals'
    BY <1>6, <1>8, <1>9 DEF SignalsInv, Parted
  <2>3. \A x, y \in trades' : x.signal = y.signal => x = y
    BY <1>4 DEF SignalsInv, Parted
  <2> QED
    BY <2>1, <2>2, <2>3 DEF Parted
<1>12. Counted'
  <2>1. Cardinality(Unskipped) + Total(skips, SkipReasons) = Cardinality(signals)
    BY <1>4 DEF SignalsInv, Counted
  <2> QED
    BY <1>4, <1>10, <2>1 DEF Counted
<1> QED
  BY <1>4, <1>11, <1>12 DEF SignalsInv

\* At the end of a day none of its signals is left.
LEMMA SignalsEnd == BufferInv /\ ModesInv /\ SignalsInv /\ EndDay => SignalsInv'
<1> SUFFICES ASSUME BufferInv, ModesInv, SignalsInv, EndDay PROVE SignalsInv'
  OBVIOUS
<1>1. /\ positions' = [s \in Symbols |-> Marked(s)]
      /\ phase = "entries" /\ entries = {} /\ entries' = {}
      /\ day' = (IF Final THEN day ELSE day + 1)
      /\ phase' = (IF Final THEN "done" ELSE "open")
      /\ UNCHANGED <<signals, skips, trades, planned>>
  BY DEF EndDay, input
<1>2. PICK n \in Days : n = day
  BY DEF BufferInv, Types
<1>3. Days \subseteq Int /\ n \in Int
  BY PortfolioAssumption DEF Days
<1>4. ASSUME NEW d \in Days
      PROVE  (d > day' \/ (d = day' /\ phase' = "open")) <=> (d > day \/ (d = day /\ phase = "open"))
  BY <1>1, <1>2, <1>3 DEF Final, Days
<1>5. Upcoming' = Upcoming
  BY <1>1, <1>4 DEF Upcoming
<1>6. ASSUME NEW s \in Symbols
      PROVE  /\ positions'[s].signal = positions[s].signal
             /\ positions'[s] = Flat <=> positions[s] = Flat
  <2>1. positions[s] \in PositionRecords /\ positions'[s] = Marked(s)
    BY <1>1 DEF BufferInv, Types
  <2>2. CASE s \in Open /\ HasBar(s)
    <3>1. /\ positions[s].entry_date \in Days
          /\ positions'[s].entry_date = positions[s].entry_date
          /\ positions'[s].signal = positions[s].signal
      BY <2>1, <2>2 DEF Marked, PositionRecords, ModesInv, HeldRight
    <3>2. Flat.entry_date = 0 /\ 0 \notin Days
      BY DEF Flat, Days
    <3> QED
      BY <2>2, <3>1, <3>2 DEF Open
  <2>3. CASE ~(s \in Open /\ HasBar(s))
    BY <2>1, <2>3 DEF Marked
  <2> QED
    BY <2>2, <2>3
<1>7. Open' = Open
  BY <1>6 DEF Open
<1> QED
  BY <1>1, <1>5, <1>6, <1>7, SignalsStay DEF Open

\* Every step of execute() keeps the account of the signals.
LEMMA SignalsStep == BufferInv /\ LookInv /\ ModesInv /\ SignalsInv /\ [Next]_vars => SignalsInv'
<1> SUFFICES ASSUME BufferInv, LookInv, ModesInv, SignalsInv, [Next]_vars PROVE SignalsInv'
  OBVIOUS
<1>1. CASE Carry \/ Hold \/ ExitsDone
  <2>1. /\ UNCHANGED <<signals, skips, trades, entries, planned, day>>
        /\ phase = "exits" /\ phase' \in {"exits", "entries"}
    BY <1>1 DEF Carry, Hold, ExitsDone, input, account
  <2>2. Upcoming' = Upcoming
    BY <2>1 DEF Upcoming
  <2>3. Open' = Open /\ \A s \in Open : positions'[s].signal = positions[s].signal
    <3>1. CASE Carry \/ ExitsDone
      BY <3>1 DEF Carry, ExitsDone, Open, account
    <3>2. CASE Hold
      <4>1. PICK s \in Symbols : s = NextExit
        BY <3>2, ExaminedNext DEF Hold, HasBar
      <4>2. s \in Open /\ HeldRight(s) /\ positions[s] \in PositionRecords
        BY <3>2, <4>1, ExaminedNext DEF Hold, HasBar
      <4>3. positions' = [positions EXCEPT ![s] = Held(positions[s])]
        BY <3>2, <4>1 DEF Hold
      <4>4. /\ Held(positions[s]).signal = positions[s].signal
            /\ Held(positions[s]).entry_date = positions[s].entry_date
            /\ positions[s].entry_date \in Days
        BY <4>2 DEF Held, PositionRecords, HeldRight
      <4>5. Flat.entry_date = 0 /\ 0 \notin Days
        BY DEF Flat, Days
      <4>6. positions'[s] = Held(positions[s]) /\ \A u \in Symbols : u # s => positions'[u] = positions[u]
        BY <4>3 DEF BufferInv, Types
      <4> QED
        BY <4>2, <4>4, <4>5, <4>6 DEF Open
    <3> QED
      BY <1>1, <3>1, <3>2
  <2> QED
    BY <2>1, <2>2, <2>3, SignalsStay
<1>2. CASE Exit
  <2>1. PICK s \in Symbols : s = NextExit
    BY <1>2, ExaminedNext DEF Exit
  <2>2. s \in Open /\ positions[s] \in PositionRecords
    BY <1>2, <2>1, ExaminedNext DEF Exit
  <2>3. /\ ClosePosition(s, Held(positions[s]), ExitTerms(s).raw, ExitTerms(s).reason)
        /\ UNCHANGED <<signals, skips, entries, planned, day, phase>> /\ phase = "exits"
    BY <1>2, <2>1 DEF Exit, input
  <2>4. Held(positions[s]).signal = positions[s].signal
    BY <2>2 DEF Held, PositionRecords
  <2> QED
    BY <2>2, <2>3, <2>4, SignalsClose
<1>3. CASE LiquidateEntry
  <2>1. Min(EnteredToday) \in EnteredToday
    BY <1>3, MinIn, PortfolioAssumption DEF EnteredToday, Open, LiquidateEntry
  <2>2. PICK s \in Open : s = Min(EnteredToday)
    BY <2>1 DEF EnteredToday
  <2>3. /\ ClosePosition(s, positions[s], Money(bars[day][s].close), "end_of_period")
        /\ UNCHANGED <<signals, skips, entries, planned, day, phase>> /\ phase = "entries"
    BY <1>3, <2>2 DEF LiquidateEntry, input
  <2> QED
    BY <2>2, <2>3, SignalsClose
<1>4. CASE PlanFails
  <2>1. /\ UNCHANGED <<signals, skips, entries, planned, day, positions, trades>>
        /\ phase = "plan" /\ phase' = "failed"
    BY <1>4 DEF PlanFails, input, account
  <2>2. Open = {} /\ trades = {} /\ entries = {} /\ Open' = Open
    BY <2>1 DEF SignalsInv, Open
  <2>3. Parted' /\ Counted'
    BY <2>1, <2>2 DEF Parted, Counted, HeldSignals, TradedSignals
  <2> QED
    BY <2>1, <2>2, <2>3 DEF SignalsInv
<1>5. CASE Ended \/ UNCHANGED vars
  <2>1. UNCHANGED <<signals, skips, entries, planned, day, phase, positions, trades>>
    BY <1>5 DEF Ended, vars, input, account
  <2> QED
    BY <2>1 DEF SignalsInv, Parted, Counted, Unskipped, Upcoming, HeldSignals, TradedSignals, Open
<1> QED
  BY <1>1, <1>2, <1>3, <1>4, <1>5, SignalsPlan, SignalsOpen, SignalsSkip, SignalsEnter, SignalsEnd
  DEF Next

\* The account of the signals is right in every reachable state.
LEMMA SignalsInvariant == Spec => [](BufferInv /\ LookInv /\ ModesInv /\ SignalsInv)
<1>1. Init => SignalsInv
  <2> SUFFICES ASSUME Init PROVE SignalsInv
    OBVIOUS
  <2>1. /\ Open = {} /\ trades = {} /\ phase = "plan" /\ day = 1 /\ entries = {}
        /\ skips = [r \in SkipReasons |-> 0]
    BY DEF Init, Open
  <2> QED
    BY <2>1 DEF SignalsInv, Parted, Counted, HeldSignals, TradedSignals
<1>2. BufferInv /\ LookInv /\ ModesInv /\ [Next]_vars => (BufferInv /\ LookInv /\ ModesInv)'
  BY BufferStep, LookStep, ModesStep
<1> QED
  BY <1>1, <1>2, SignalsStep, ModesInvariant, PTL DEF Spec

\* When a run is over, every signal that the strategy generated is a trade or a
\* counted skip, never both and never twice.
THEOREM SignalsAccounted == Spec => []SignalsAreAccountedFor
<1>1. BufferInv /\ LookInv /\ SignalsInv => SignalsAreAccountedFor
  <2> SUFFICES ASSUME BufferInv, LookInv, SignalsInv, phase = "done"
               PROVE  /\ Metrics.entered_trades + Metrics.skipped_signals = Metrics.total_signals
                      /\ \A t, u \in trades : t.signal = u.signal => t = u
    BY DEF SignalsAreAccountedFor
  <2>1. Final /\ Open = {} /\ entries = {}
    BY DEF LookInv, LastDayCloses, SignalsInv
  <2>2. \A d \in Days : ~(d > day)
    BY <2>1, PortfolioAssumption DEF Final, Days
  <2>3. Upcoming = {} /\ HeldSignals = {}
    BY <2>1, <2>2 DEF Upcoming, HeldSignals
  <2>4. Unskipped = TradedSignals
    BY <2>3 DEF Unskipped
  <2>5. IsFiniteSet(TradedSignals)
    BY <2>4, UnskippedFinite DEF SignalsInv
  <2>6. Cardinality(trades) = Cardinality(TradedSignals)
    <3> DEFINE f == [t \in trades |-> t.signal]
    <3>1. f \in Bijection(trades, TradedSignals)
      <4>1. f \in [trades -> TradedSignals]
        BY DEF TradedSignals
      <4>2. \A t, u \in trades : f[t] = f[u] => t = u
        BY DEF SignalsInv, Parted
      <4>3. \A g \in TradedSignals : \E t \in trades : f[t] = g
        BY DEF TradedSignals
      <4> HIDE DEF f
      <4> QED
        BY <4>1, <4>2, <4>3 DEF Bijection, Injection, Surjection, IsInjective
    <3> HIDE DEF f
    <3>2. f \in Injection(trades, TradedSignals) /\ f \in Surjection(trades, TradedSignals)
      BY <3>1 DEF Bijection
    <3> QED
      BY <2>5, <3>2, FS_Injection
  <2>7. Cardinality(TradedSignals) + Total(skips, SkipReasons) = Cardinality(signals)
    BY <2>4 DEF SignalsInv, Counted
  <2>8. /\ Metrics.entered_trades = Cardinality(trades)
        /\ Metrics.skipped_signals = Total(skips, SkipReasons)
        /\ Metrics.total_signals = Cardinality(signals)
    BY DEF Metrics, Total
  <2> QED
    BY <2>6, <2>7, <2>8 DEF SignalsInv, Parted
<1> QED
  BY <1>1, SignalsInvariant, PTL

(***************************************************************************)
(* The books balance.                                                      *)
(***************************************************************************)

\* What TypeOK says beyond the types of the invariants above.
LimitsInv ==
  /\ max_open_positions \in MaxOpenChoices
  /\ maximum_open \in 0..max_open_positions
  /\ \A s \in Open : positions[s].quantity # 0
  /\ skips \in [SkipReasons -> Nat]
  /\ phase = "failed" => \A r \in SkipReasons : skips[r] = 0

CashInv == realized_pnl \in Int /\ Conservation

Rows == [trading_date : Days, cash : Int, market : Int, realized : Int, unrealized : Int,
         equity : Int, peak : Int, drawdown : Int, open : Nat]

\* A stored row balances, and its drawdown is the fall from its peak.
RowBalances(n) ==
  /\ Near(n.equity, n.cash + n.market)
  /\ Near(n.equity, Money(InitialCapital) + n.realized + n.unrealized)
  /\ Near(n.drawdown, n.peak - n.equity)

\* The stored equity at the end of day i, and on entering the first day, and
\* that p is the highest up to day k.
StoredEquity(rows, i) == IF i = 0 THEN Money(InitialCapital) ELSE rows[i].equity
PeakOf(rows, p, k) ==
  /\ \E i \in 0..k : p = StoredEquity(rows, i)
  /\ \A i \in 0..k : StoredEquity(rows, i) <= p

RowsInv ==
  /\ running_peak \in Int
  /\ snapshots \in Seq(Rows)
  /\ Len(snapshots) = IF phase = "done" THEN day ELSE day - 1
  /\ \A k \in 1..Len(snapshots) :
       RowBalances(snapshots[k]) /\ PeakOf(snapshots, snapshots[k].peak, k)
  /\ PeakOf(snapshots, Quantize(running_peak), Len(snapshots))
  /\ phase = "done" => snapshots[Len(snapshots)].equity = Quantize(cash)

\* Every number is a multiple of the quantum and a rest.
LEMMA DivideByQuantum ==
  ASSUME NEW x \in Int
  PROVE  /\ x \div Quantum \in Int /\ x % Quantum \in Int
         /\ 0 <= x % Quantum /\ x % Quantum < Quantum
         /\ x = Quantum * (x \div Quantum) + (x % Quantum)
  BY ParametersAssumption

\* Decimal.quantize() is off by at most half a quantum.
LEMMA QuantizeIs ==
  ASSUME NEW x \in Int
  PROVE  \E k \in Int : /\ Quantize(x) = Quantum * k /\ Quantum * k \in Int
                        /\ 2 * (Quantum * k) <= 2 * x + Quantum
                        /\ 2 * x <= 2 * (Quantum * k) + Quantum
<1> DEFINE q == x \div Quantum
           r == x % Quantum
           up == 2 * r > Quantum \/ (2 * r = Quantum /\ q % 2 = 1)
<1>1. /\ q \in Int /\ r \in Int /\ 0 <= r /\ r < Quantum /\ Quantum \in Int
      /\ x = Quantum * q + r
  BY DivideByQuantum, ParametersAssumption
<1>2. Quantize(x) = Quantum * (IF up THEN q + 1 ELSE q)
  BY DEF Quantize
<1>3. up => 2 * r >= Quantum
  <2> HIDE DEF q, r
  <2> QED
    BY <1>1
<1>4. ~up => 2 * r <= Quantum
  <2> HIDE DEF q, r
  <2> QED
    BY <1>1
<1> HIDE DEF q, r, up
<1>5. Quantum * (q + 1) = Quantum * q + Quantum /\ Quantum * q \in Int
  BY <1>1
<1>6. CASE up
  <2>1. q + 1 \in Int /\ Quantize(x) = Quantum * (q + 1)
    BY <1>1, <1>2, <1>6
  <2>2. /\ Quantum * (q + 1) \in Int
        /\ 2 * (Quantum * (q + 1)) <= 2 * x + Quantum
        /\ 2 * x <= 2 * (Quantum * (q + 1)) + Quantum
    <3>1. PICK y \in Int : y = Quantum * q
      BY <1>5
    <3>2. Quantum * (q + 1) = y + Quantum /\ x = y + r
      BY <1>1, <1>5, <3>1
    <3> QED
      BY <1>1, <1>3, <1>6, <3>2
  <2> QED
    BY <2>1, <2>2
<1>7. CASE ~up
  <2>1. Quantize(x) = Quantum * q
    BY <1>2, <1>7
  <2>2. 2 * (Quantum * q) <= 2 * x + Quantum /\ 2 * x <= 2 * (Quantum * q) + Quantum
    <3>1. PICK y \in Int : y = Quantum * q
      BY <1>5
    <3>2. x = y + r
      BY <1>1, <3>1
    <3> QED
      BY <1>1, <1>4, <1>7, <3>1, <3>2
  <2> QED
    BY <1>1, <1>5, <2>1, <2>2
<1> QED
  BY <1>6, <1>7

\* A multiple of the quantum below two quanta is at most one.
LEMMA AtMostOne ==
  ASSUME NEW m \in Int, 2 * (Quantum * m) <= 3 * Quantum
  PROVE  Quantum * m <= Quantum
<1>1. Quantum \in Nat /\ Quantum > 0 /\ Quantum * m \in Int
  BY ParametersAssumption
<1>2. CASE m <= 1
  BY <1>1, <1>2, TimesMonotone
<1>3. CASE m >= 2
  <2>1. Quantum * 2 <= Quantum * m
    BY <1>1, <1>3, TimesMonotone
  <2> QED
    BY <1>1, <2>1
<1> QED
  BY <1>2, <1>3

\* Rounding two numbers and rounding their sum give sums that differ by no more
\* than a quantum, also after a shift by whole quanta.
LEMMA RoundedSum ==
  ASSUME NEW w \in Int, NEW a \in Int, NEW b \in Int
  PROVE  Near(Quantize(Quantum * w + a + b), Quantum * w + Quantize(a) + Quantize(b))
<1>1. Quantum \in Nat /\ Quantum > 0 /\ Quantum * w \in Int
  BY ParametersAssumption
<1>2. PICK c \in Int : c = Quantum * w + a + b
  BY <1>1
<1>3. PICK k \in Int : /\ Quantize(c) = Quantum * k /\ Quantum * k \in Int
                       /\ 2 * (Quantum * k) <= 2 * c + Quantum
                       /\ 2 * c <= 2 * (Quantum * k) + Quantum
  BY QuantizeIs
<1>4. PICK i \in Int : /\ Quantize(a) = Quantum * i /\ Quantum * i \in Int
                       /\ 2 * (Quantum * i) <= 2 * a + Quantum
                       /\ 2 * a <= 2 * (Quantum * i) + Quantum
  BY QuantizeIs
<1>5. PICK j \in Int : /\ Quantize(b) = Quantum * j /\ Quantum * j \in Int
                       /\ 2 * (Quantum * j) <= 2 * b + Quantum
                       /\ 2 * b <= 2 * (Quantum * j) + Quantum
  BY QuantizeIs
<1>6. PICK m \in Int, n \in Int : m = k - w - i - j /\ n = w + i + j - k
  OBVIOUS
<1>7. /\ Quantum * m = Quantum * k - Quantum * w - Quantum * i - Quantum * j
      /\ Quantum * n = Quantum * w + Quantum * i + Quantum * j - Quantum * k
  BY <1>1, <1>6
<1>8. /\ 2 * (Quantum * m) <= 3 * Quantum /\ 2 * (Quantum * n) <= 3 * Quantum
      /\ Quantum * n = 0 - Quantum * m /\ Quantum * m \in Int
  <2>1. PICK qk \in Int, qw \in Int, qi \in Int, qj \in Int :
          qk = Quantum * k /\ qw = Quantum * w /\ qi = Quantum * i /\ qj = Quantum * j
    BY <1>1, <1>3, <1>4, <1>5
  <2>2. Quantum * m = qk - qw - qi - qj /\ Quantum * n = qw + qi + qj - qk /\ c = qw + a + b
    BY <1>2, <1>7, <2>1
  <2>3. /\ 2 * qk <= 2 * c + Quantum /\ 2 * c <= 2 * qk + Quantum
        /\ 2 * qi <= 2 * a + Quantum /\ 2 * a <= 2 * qi + Quantum
        /\ 2 * qj <= 2 * b + Quantum /\ 2 * b <= 2 * qj + Quantum
    BY <1>3, <1>4, <1>5, <2>1
  <2> QED
    BY <1>1, <2>2, <2>3
<1>9. Quantum * m <= Quantum /\ Quantum * n <= Quantum
  BY <1>6, <1>8, AtMostOne
<1>10. Quantize(c) - (Quantum * w + Quantize(a) + Quantize(b)) = Quantum * m
  BY <1>3, <1>4, <1>5, <1>7, <1>1
<1>11. Quantum * m \in (-Quantum)..Quantum
  <2>1. PICK y \in Int : y = Quantum * m
    BY <1>8
  <2> QED
    BY <1>1, <1>8, <1>9, <2>1
<1> QED
  BY <1>2, <1>10, <1>11 DEF Near

\* Rounding keeps the order.
LEMMA QuantizeMonotone ==
  ASSUME NEW x \in Int, NEW y \in Int, x <= y
  PROVE  Quantize(x) \in Int /\ Quantize(y) \in Int /\ Quantize(x) <= Quantize(y)
<1>1. Quantum \in Nat /\ Quantum > 0
  BY ParametersAssumption
<1>2. PICK i \in Int : /\ Quantize(x) = Quantum * i /\ Quantum * i \in Int
                       /\ 2 * (Quantum * i) <= 2 * x + Quantum
                       /\ 2 * x <= 2 * (Quantum * i) + Quantum
  BY QuantizeIs
<1>3. PICK j \in Int : /\ Quantize(y) = Quantum * j /\ Quantum * j \in Int
                       /\ 2 * (Quantum * j) <= 2 * y + Quantum
                       /\ 2 * y <= 2 * (Quantum * j) + Quantum
  BY QuantizeIs
<1>4. CASE i <= j
  BY <1>1, <1>2, <1>3, <1>4, TimesMonotone
<1>5. CASE j + 1 <= i
  <2>1. Quantum * (j + 1) <= Quantum * i /\ Quantum * (j + 1) = Quantum * j + Quantum
    BY <1>1, <1>5, TimesMonotone
  <2>2. PICK qi \in Int, qj \in Int : qi = Quantum * i /\ qj = Quantum * j
    BY <1>2, <1>3
  <2>3. x = y
    BY <1>1, <1>2, <1>3, <2>1, <2>2
  <2> QED
    BY <1>2, <2>3
<1> QED
  BY <1>4, <1>5

\* The capital is stored as it is.
LEMMA CapitalIsWhole ==
  /\ \E w \in Int : Money(InitialCapital) = Quantum * w
  /\ Quantize(Money(InitialCapital)) = Money(InitialCapital)
<1>1. Quantum \in Nat /\ Quantum > 0 /\ Whole \in Int /\ InitialCapital \in Nat
  BY ParametersAssumption, PortfolioAssumption, WholeNat
<1>2. Whole \div Quantum \in Int /\ Whole = Quantum * (Whole \div Quantum)
  BY <1>1, DivideByQuantum, QuantumAssumption
<1>3. PICK v \in Int : Whole = Quantum * v
  BY <1>2
<1>4. PICK w \in Int : w = InitialCapital * v
  BY <1>1
<1>5. Money(InitialCapital) = Quantum * w
  <2>1. InitialCapital * (Quantum * v) = Quantum * (InitialCapital * v)
    BY <1>1
  <2> QED
    BY <1>3, <1>4, <2>1 DEF Money
<1>6. PICK m \in Int : m = Money(InitialCapital)
  BY BufferLemma
<1>7. PICK k \in Int : /\ Quantize(m) = Quantum * k /\ Quantum * k \in Int
                       /\ 2 * (Quantum * k) <= 2 * m + Quantum
                       /\ 2 * m <= 2 * (Quantum * k) + Quantum
  BY QuantizeIs
<1>8. k = w
  <2>1. PICK qk \in Int : qk = Quantum * k
    BY <1>7
  <2>2. m = Quantum * w
    BY <1>5, <1>6
  <2>3. CASE k + 1 <= w
    <3>1. Quantum * (k + 1) <= Quantum * w /\ Quantum * (k + 1) = Quantum * k + Quantum
      BY <1>1, <2>3, TimesMonotone
    <3> QED
      BY <1>1, <1>7, <2>1, <2>2, <3>1
  <2>4. CASE w + 1 <= k
    <3>1. Quantum * (w + 1) <= Quantum * k /\ Quantum * (w + 1) = Quantum * w + Quantum
      BY <1>1, <2>4, TimesMonotone
    <3> QED
      BY <1>1, <1>7, <2>1, <2>2, <3>1
  <2> QED
    BY <2>3, <2>4
<1> QED
  BY <1>5, <1>6, <1>7, <1>8

\* What a position is worth, and what it has cost, are amounts of money.
LEMMA WorthNat ==
  ASSUME NEW p \in PositionRecords
  PROVE  Cost(p) \in Nat /\ p.last_close * p.quantity \in Nat
<1>1. /\ p.bar \in BarRecords /\ p.quantity \in Nat /\ p.last_close \in Nat
  BY DEF PositionRecords, BarRecords
<1>2. Entry(p) \in Nat
  BY <1>1, EntryPriceNat DEF Entry
<1>3. Entry(p) * p.quantity \in Nat /\ p.last_close * p.quantity \in Nat
  BY <1>1, <1>2, TimesNat
<1>4. BuyCommission(p) \in Nat
  BY <1>3, CostTypes DEF BuyCommission
<1> QED
  BY <1>3, <1>4 DEF Cost

\* Nothing costs nothing.
LEMMA FlatIsFree == Flat \in PositionRecords /\ Cost(Flat) = 0 /\ Flat.last_close * Flat.quantity = 0
<1>1. Flat \in PositionRecords
  BY PortfolioAssumption DEF Flat, PositionRecords
<1>2. Entry(Flat) \in Nat /\ Flat.quantity = 0 /\ Flat.last_close = 0
  <2>1. Flat.bar \in BarRecords
    BY DEF Flat, BarRecords
  <2> QED
    BY <2>1, EntryPriceNat DEF Flat, Entry
<1>3. Entry(Flat) * Flat.quantity = 0
  BY <1>2
<1>4. Commission(0) = 0
  BY ParametersAssumption DEF Commission
<1> QED
  BY <1>1, <1>2, <1>3, <1>4 DEF Cost, BuyCommission

Costs(pos)  == [s \in Symbols |-> Cost(pos[s])]
Values(pos) == [s \in Symbols |-> pos[s].last_close * pos[s].quantity]

\* OpenCost() and MarketValue() are the totals of these.
LEMMA OpenCostIs ==
  ASSUME NEW pos \in [Symbols -> PositionRecords]
  PROVE  Costs(pos) \in [Symbols -> Int] /\ OpenCost(pos) = Total(Costs(pos), Symbols)
<1> DEFINE Step(it) == [s \in SUBSET Symbols |->
             IF s = {} THEN 0 ELSE Cost(pos[Pick(s)]) + it[s \ {Pick(s)}]]
           j == CHOOSE it : it = Step(it)
<1>1. IsFiniteSet(Symbols)
  BY PortfolioAssumption
<1>2. Costs(pos) \in [Symbols -> Int]
  BY WorthNat DEF Costs
<1>3. PICK f \in [Symbols -> Int] : f = Costs(pos)
  BY <1>2
<1>4. PICK i : Adds(i, f, Symbols) /\ Total(f, Symbols) = i[Symbols]
  BY <1>1, TotalIs
<1>5. ASSUME NEW it PROVE Step(it) = [s \in SUBSET Symbols |-> NextSum(it, f, s)]
  <2>1. ASSUME NEW s \in SUBSET Symbols
        PROVE  (IF s = {} THEN 0 ELSE Cost(pos[Pick(s)]) + it[s \ {Pick(s)}]) = NextSum(it, f, s)
    <3>1. s # {} => Pick(s) \in s
      BY DEF Pick
    <3>2. s # {} => f[Pick(s)] = Cost(pos[Pick(s)])
      BY <1>3, <2>1, <3>1 DEF Costs
    <3> QED
      BY <3>2 DEF NextSum
  <2> QED
    BY <2>1
<1>6. i = Step(i)
  BY <1>4, <1>5 DEF Adds, Recurs
<1>7. j = Step(j)
  <2>1. \E it : it = Step(it)
    BY <1>6
  <2> HIDE DEF Step
  <2> QED
    BY <2>1
<1>8. OpenCost(pos) = j[Symbols]
  BY DEF OpenCost, MapThenSumSet, MapThenFoldSet, Pick
<1> HIDE DEF j
<1>9. Recurs(j, f, Symbols) /\ Recurs(i, f, Symbols)
  <2>1. Recurs(j, f, Symbols)
    <3>1. Step(j) = [s \in SUBSET Symbols |-> NextSum(j, f, s)]
      BY <1>5
    <3> HIDE DEF Step
    <3> QED
      BY <1>7, <3>1 DEF Recurs
  <2> QED
    BY <1>4, <2>1 DEF Adds
<1>10. Same(j, i, Symbols)
  <2>1. Symbols \in SUBSET Symbols /\ \A x \in Symbols : Same(f, f, x)
    BY DEF Same
  <2> QED
    BY <1>1, <1>9, <2>1, SumsAgree, Zenon
<1> QED
  BY <1>2, <1>3, <1>4, <1>8, <1>10 DEF Same

\* _snapshot() adds up what the open positions are worth.
LEMMA MarketValueIs ==
  ASSUME NEW pos \in [Symbols -> PositionRecords]
  PROVE  Values(pos) \in [Symbols -> Int] /\ MarketValue(pos) = Total(Values(pos), Symbols)
<1> DEFINE Step(it) == [s \in SUBSET Symbols |->
             IF s = {} THEN 0
             ELSE pos[Pick(s)].last_close * pos[Pick(s)].quantity + it[s \ {Pick(s)}]]
           j == CHOOSE it : it = Step(it)
<1>1. IsFiniteSet(Symbols)
  BY PortfolioAssumption
<1>2. Values(pos) \in [Symbols -> Int]
  BY WorthNat DEF Values
<1>3. PICK f \in [Symbols -> Int] : f = Values(pos)
  BY <1>2
<1>4. PICK i : Adds(i, f, Symbols) /\ Total(f, Symbols) = i[Symbols]
  BY <1>1, TotalIs
<1>5. ASSUME NEW it PROVE Step(it) = [s \in SUBSET Symbols |-> NextSum(it, f, s)]
  <2>1. ASSUME NEW s \in SUBSET Symbols
        PROVE  (IF s = {} THEN 0
                ELSE pos[Pick(s)].last_close * pos[Pick(s)].quantity + it[s \ {Pick(s)}])
               = NextSum(it, f, s)
    <3>1. s # {} => Pick(s) \in s
      BY DEF Pick
    <3>2. s # {} => f[Pick(s)] = pos[Pick(s)].last_close * pos[Pick(s)].quantity
      BY <1>3, <2>1, <3>1 DEF Values
    <3> QED
      BY <3>2 DEF NextSum
  <2> QED
    BY <2>1
<1>6. i = Step(i)
  BY <1>4, <1>5 DEF Adds, Recurs
<1>7. j = Step(j)
  <2>1. \E it : it = Step(it)
    BY <1>6
  <2> HIDE DEF Step
  <2> QED
    BY <2>1
<1>8. MarketValue(pos) = j[Symbols]
  BY DEF MarketValue, MapThenSumSet, MapThenFoldSet, Pick
<1> HIDE DEF j
<1>9. Recurs(j, f, Symbols) /\ Recurs(i, f, Symbols)
  <2>1. Recurs(j, f, Symbols)
    <3>1. Step(j) = [s \in SUBSET Symbols |-> NextSum(j, f, s)]
      BY <1>5
    <3> HIDE DEF Step
    <3> QED
      BY <1>7, <3>1 DEF Recurs
  <2> QED
    BY <1>4, <2>1 DEF Adds
<1>10. Same(j, i, Symbols)
  <2>1. Symbols \in SUBSET Symbols /\ \A x \in Symbols : Same(f, f, x)
    BY DEF Same
  <2> QED
    BY <1>1, <1>9, <2>1, SumsAgree, Zenon
<1> QED
  BY <1>2, <1>3, <1>4, <1>8, <1>10 DEF Same

\* Positions are worth nothing when there are none.
LEMMA NothingIsWorthNothing ==
  ASSUME NEW pos \in [Symbols -> PositionRecords], \A s \in Symbols : pos[s] = Flat
  PROVE  OpenCost(pos) = 0 /\ MarketValue(pos) = 0
<1>1. PICK f \in [Symbols -> Int] : f = Costs(pos)
  BY OpenCostIs
<1>2. PICK g \in [Symbols -> Int] : g = Values(pos)
  BY MarketValueIs
<1>3. \A s \in Symbols : f[s] = 0 /\ g[s] = 0
  BY <1>1, <1>2, FlatIsFree DEF Costs, Values
<1>4. Total(f, Symbols) = 0 /\ Total(g, Symbols) = 0
  BY <1>3, TotalZero, PortfolioAssumption
<1> QED
  BY <1>1, <1>2, <1>4, OpenCostIs, MarketValueIs

\* What is open and what it is worth are whole numbers.
LEMMA BooksInt ==
  ASSUME NEW pos \in [Symbols -> PositionRecords]
  PROVE  OpenCost(pos) \in Int /\ MarketValue(pos) \in Int
<1>1. PICK f \in [Symbols -> Int] : f = Costs(pos)
  BY OpenCostIs
<1>2. PICK g \in [Symbols -> Int] : g = Values(pos)
  BY MarketValueIs
<1>3. Total(f, Symbols) \in Int /\ Total(g, Symbols) \in Int
  BY TotalInt, PortfolioAssumption
<1> QED
  BY <1>1, <1>2, <1>3, OpenCostIs, MarketValueIs

\* One position changes.
LEMMA CostChange ==
  ASSUME NEW pos \in [Symbols -> PositionRecords], NEW new \in [Symbols -> PositionRecords],
         NEW s \in Symbols, \A u \in Symbols : u # s => new[u] = pos[u]
  PROVE  OpenCost(new) = OpenCost(pos) - Cost(pos[s]) + Cost(new[s])
<1>1. PICK f \in [Symbols -> Int] : f = Costs(pos)
  BY OpenCostIs
<1>2. PICK g \in [Symbols -> Int] : g = Costs(new)
  BY OpenCostIs
<1>3. /\ \A u \in Symbols : u # s => g[u] = f[u]
      /\ f[s] = Cost(pos[s]) /\ g[s] = Cost(new[s])
  BY <1>1, <1>2 DEF Costs
<1>4. Total(g, Symbols) = Total(f, Symbols) - f[s] + g[s]
  <2>1. IsFiniteSet(Symbols)
    BY PortfolioAssumption
  <2>2. \A u \in Symbols : u # s => g[u] = f[u]
    BY <1>3
  <2> QED
    BY <2>1, <2>2, TotalChange
<1> QED
  BY <1>1, <1>2, <1>3, <1>4, OpenCostIs

\* Marks and days held are no part of the cost.
LEMMA CostStays ==
  ASSUME NEW pos \in [Symbols -> PositionRecords], NEW new \in [Symbols -> PositionRecords],
         \A u \in Symbols : Cost(new[u]) = Cost(pos[u])
  PROVE  OpenCost(new) = OpenCost(pos)
<1>1. Costs(new) = Costs(pos)
  BY DEF Costs
<1> QED
  BY <1>1, OpenCostIs

\* close_position() exchanges what the position has cost for its proceeds, and
\* counts the difference as profit.
LEMMA CashClose ==
  ASSUME BufferInv, BufferInv', CashInv, NEW s \in Open, NEW p \in PositionRecords,
         NEW raw \in Nat, NEW reason,
         p.bar = positions[s].bar, p.quantity = positions[s].quantity,
         ClosePosition(s, p, raw, reason)
  PROVE  CashInv'
<1>1. PICK n \in Nat : n = ExitPrice(raw) * p.quantity
  BY ExitPriceNat, TimesNat DEF PositionRecords
<1>2. PICK c \in Nat, t \in Nat : c = Commission(n) /\ t = SellTax(n)
  BY CostTypes
<1>3. PICK e \in Nat : e = Entry(p) * p.quantity
  <2>1. Entry(p) \in Nat
    BY EntryPriceNat DEF Entry, PositionRecords, BarRecords
  <2> QED
    BY <2>1, TimesNat DEF PositionRecords
<1>4. PICK b \in Nat : b = BuyCommission(p)
  BY <1>3, CostTypes DEF BuyCommission
<1>5. /\ cash' = cash + (n - c - t)
      /\ realized_pnl' = realized_pnl + (n - e) - (b + c + t)
  BY <1>1, <1>2, <1>3, <1>4 DEF ClosePosition
<1>6. Cost(positions[s]) = e + b
  BY <1>3, <1>4 DEF Cost, BuyCommission, Entry
<1>7. OpenCost(positions') = OpenCost(positions) - (e + b)
  <2>1. PICK old \in [Symbols -> PositionRecords], new \in [Symbols -> PositionRecords] :
          old = positions /\ new = positions'
    BY DEF BufferInv, Types
  <2>2. PICK x \in Symbols : x = s
    BY DEF Open
  <2>3. new[x] = Flat /\ \A u \in Symbols : u # x => new[u] = old[u]
    BY <2>1, <2>2 DEF ClosePosition
  <2>4. OpenCost(new) = OpenCost(old) - Cost(old[x]) + Cost(new[x])
    BY <2>3, CostChange
  <2>5. OpenCost(old) \in Int
    BY BooksInt
  <2> QED
    BY <1>6, <2>1, <2>2, <2>3, <2>4, <2>5, FlatIsFree
<1>8. OpenCost(positions) \in Int /\ cash \in Int /\ realized_pnl \in Int
      /\ Money(InitialCapital) \in Int
  BY BooksInt, BufferLemma DEF BufferInv, Types, CashInv
<1>9. cash + OpenCost(positions) = Money(InitialCapital) + realized_pnl
  BY DEF CashInv, Conservation
<1>10. realized_pnl' \in Int
  BY <1>5, <1>8
<1>11. cash' + OpenCost(positions') = Money(InitialCapital) + realized_pnl'
  BY <1>5, <1>7, <1>8, <1>9
<1> QED
  BY <1>10, <1>11 DEF CashInv, Conservation

\* An entry exchanges cash for what the position has cost.
LEMMA CashEnter == BufferInv /\ BufferInv' /\ CashInv /\ Enter => CashInv'
<1> SUFFICES ASSUME BufferInv, BufferInv', CashInv, Enter PROVE CashInv'
  OBVIOUS
<1>1. PICK g \in entries : g = NextEntry
  BY NextEntryIn DEF Enter, BufferInv, Drawn, Types
<1>2. PICK s \in Symbols : s = g.symbol
  BY DEF BufferInv, Drawn, Types, Signals
<1>3. PICK q \in Affordable(g) :
        /\ cash' = cash - Required(g, q)
        /\ positions' = [positions EXCEPT ![s] =
             [signal |-> g, entry_date |-> day, bar |-> bars[day][s],
              quantity |-> q, last_close |-> Price(g), holding_days |-> 0]]
  BY <1>1, <1>2 DEF Enter
<1>4. s \notin Open /\ realized_pnl' = realized_pnl
  BY <1>1, <1>2 DEF Enter, SkipReason
<1>5. PICK old \in [Symbols -> PositionRecords], new \in [Symbols -> PositionRecords] :
        old = positions /\ new = positions'
  BY DEF BufferInv, Types
<1>6. /\ old[s] = Flat
      /\ new[s].bar = bars[day][s] /\ new[s].quantity = q
      /\ \A u \in Symbols : u # s => new[u] = old[u]
  BY <1>3, <1>4, <1>5 DEF Open
<1>7. Cost(new[s]) = Required(g, q)
  BY <1>2, <1>6 DEF Cost, Required, Entry, BuyCommission, Price
<1>8. Cost(new[s]) \in Nat
  BY WorthNat
<1>9. OpenCost(new) = OpenCost(old) - Cost(old[s]) + Cost(new[s])
  BY <1>6, CostChange
<1>10. OpenCost(old) \in Int /\ cash \in Int /\ realized_pnl \in Int
       /\ Money(InitialCapital) \in Int
  BY BooksInt, BufferLemma DEF BufferInv, Types, CashInv
<1>11. cash + OpenCost(old) = Money(InitialCapital) + realized_pnl
  BY <1>5 DEF CashInv, Conservation
<1>12. cash' + OpenCost(new) = Money(InitialCapital) + realized_pnl
  BY <1>3, <1>6, <1>7, <1>8, <1>9, <1>10, <1>11, FlatIsFree
<1> QED
  BY <1>4, <1>5, <1>10, <1>12 DEF CashInv, Conservation

\* Marking and holding keep what the open positions have cost.
LEMMA MarksKeepCost ==
  ASSUME BufferInv, BufferInv', Hold \/ EndDay
  PROVE  OpenCost(positions') = OpenCost(positions)
<1>1. PICK old \in [Symbols -> PositionRecords], new \in [Symbols -> PositionRecords] :
        old = positions /\ new = positions'
  BY DEF BufferInv, Types
<1>2. ASSUME NEW u \in Symbols PROVE new[u].bar = old[u].bar /\ new[u].quantity = old[u].quantity
  <2>1. old[u] \in PositionRecords
    OBVIOUS
  <2>2. CASE Hold
    <3>1. new = [old EXCEPT ![NextExit] = Held(@)]
      BY <1>1, <2>2 DEF Hold
    <3>2. Held(old[u]).bar = old[u].bar /\ Held(old[u]).quantity = old[u].quantity
      BY <2>1 DEF Held, PositionRecords
    <3> QED
      BY <3>1, <3>2
  <2>3. CASE EndDay
    <3>1. new[u] = Marked(u)
      BY <1>1, <2>3 DEF EndDay
    <3> QED
      BY <1>1, <2>1, <3>1 DEF Marked, PositionRecords
  <2> QED
    BY <2>2, <2>3
<1>3. \A u \in Symbols : Cost(new[u]) = Cost(old[u])
  BY <1>2 DEF Cost, Entry, BuyCommission
<1>4. OpenCost(new) = OpenCost(old)
  BY <1>3, CostStays
<1> QED
  BY <1>1, <1>4

\* No step makes or loses money.
LEMMA CashStep == BufferInv /\ CashInv /\ [Next]_vars => CashInv'
<1> SUFFICES ASSUME BufferInv, CashInv, [Next]_vars PROVE CashInv'
  OBVIOUS
<1>1. BufferInv'
  BY BufferStep
<1>2. CASE Exit
  <2>1. PICK s \in Open : s = NextExit
    BY <1>2, ExitTermsNat
  <2>2. PICK p \in PositionRecords : p = Held(positions[s])
    BY <1>2, <2>1, ExitTermsNat
  <2>3. PICK raw \in Nat : raw = ExitTerms(s).raw
    BY <1>2, <2>1, ExitTermsNat
  <2>4. ClosePosition(s, p, raw, ExitTerms(s).reason)
    BY <1>2, <2>1, <2>2, <2>3 DEF Exit
  <2>5. p.bar = positions[s].bar /\ p.quantity = positions[s].quantity
    <3>1. positions[s] \in PositionRecords
      BY DEF BufferInv, Types, Open
    <3> QED
      BY <2>2, <3>1 DEF Held, PositionRecords
  <2> QED
    BY <1>1, <2>1, <2>2, <2>3, <2>4, <2>5, CashClose
<1>3. CASE LiquidateEntry
  <2>1. PICK s \in Open : s = Min(EnteredToday)
    BY <1>3, LiquidationNat
  <2>2. PICK p \in PositionRecords : p = positions[s]
    BY <1>3, <2>1, LiquidationNat
  <2>3. PICK raw \in Nat : raw = Money(bars[day][s].close)
    BY <1>3, <2>1, LiquidationNat
  <2>4. ClosePosition(s, p, raw, "end_of_period")
    BY <1>3, <2>1, <2>2, <2>3 DEF LiquidateEntry
  <2> QED
    BY <1>1, <2>1, <2>2, <2>3, <2>4, CashClose
<1>4. CASE Enter
  BY <1>1, <1>4, CashEnter
<1>5. CASE Hold \/ EndDay
  <2>1. OpenCost(positions') = OpenCost(positions)
    BY <1>1, <1>5, MarksKeepCost
  <2>2. cash' = cash /\ realized_pnl' = realized_pnl
    BY <1>5 DEF Hold, EndDay
  <2> QED
    BY <2>1, <2>2 DEF CashInv, Conservation
<1>6. CASE UNCHANGED account
  BY <1>6 DEF CashInv, Conservation, account
<1>7. \/ Exit \/ LiquidateEntry \/ Enter \/ Hold \/ EndDay \/ UNCHANGED account
  BY DEF Next, PlanEntries, PlanFails, OpenDay, Carry, ExitsDone, Skip, Ended, vars
<1> QED
  BY <1>2, <1>3, <1>4, <1>5, <1>6, <1>7

\* No step breaks a limit.
LEMMA LimitsStep ==
  BufferInv /\ LookInv /\ SignalsInv /\ LimitsInv /\ [Next]_vars => LimitsInv'
<1> SUFFICES ASSUME BufferInv, LookInv, SignalsInv, LimitsInv, [Next]_vars PROVE LimitsInv'
  OBVIOUS
<1>1. max_open_positions' = max_open_positions /\ max_open_positions \in Nat
  <2>1. UNCHANGED input
    BY DEF Next, PlanEntries, PlanFails, OpenDay, Carry, Hold, Exit, ExitsDone, Skip, Enter,
           LiquidateEntry, EndDay, Ended, vars
  <2> QED
    BY <2>1, PortfolioAssumption DEF input, LimitsInv
<1>2. maximum_open' \in 0..max_open_positions
  <2>1. CASE Enter
    <3>1. PICK m \in Nat : m = maximum_open
      BY DEF LimitsInv
    <3>2. IsFiniteSet(Open) /\ Cardinality(Open) \in Nat
      <4>1. Open \in SUBSET Symbols /\ IsFiniteSet(Symbols)
        BY PortfolioAssumption DEF Open
      <4> QED
        BY <4>1, FS_Subset, FS_CardinalityType
    <3>3. PICK n \in Nat : n = Cardinality(Open) + 1
      BY <3>2
    <3>4. ~(Cardinality(Open) >= max_open_positions)
      BY <2>1 DEF Enter, SkipReason
    <3>5. maximum_open' = Max({m, n})
      BY <2>1, <3>1, <3>3 DEF Enter
    <3>6. maximum_open' = IF m >= n THEN m ELSE n
      BY <3>5, MaxOfTwo
    <3> QED
      BY <1>1, <3>1, <3>2, <3>3, <3>4, <3>6 DEF LimitsInv
  <2>2. CASE ~Enter
    <3>1. UNCHANGED maximum_open
      BY <2>2 DEF Next, PlanEntries, PlanFails, OpenDay, Carry, Hold, Exit, ExitsDone, Skip,
             LiquidateEntry, EndDay, Ended, vars, reports
    <3> QED
      BY <3>1 DEF LimitsInv
  <2> QED
    BY <2>1, <2>2
<1>3. \A s \in Open' : positions'[s].quantity # 0
  <2>1. CASE Enter
    <3>1. PICK g \in entries : g = NextEntry
      BY <2>1, NextEntryIn DEF Enter, BufferInv, Drawn, Types
    <3>2. PICK s \in Symbols : s = g.symbol
      BY DEF BufferInv, Drawn, Types, Signals
    <3>3. PICK q \in Affordable(g) :
            positions' = [positions EXCEPT ![s] =
              [signal |-> g, entry_date |-> day, bar |-> bars[day][s],
               quantity |-> q, last_close |-> Price(g), holding_days |-> 0]]
      BY <2>1, <3>1, <3>2 DEF Enter
    <3>4. q # 0
      BY <3>3 DEF Affordable
    <3>5. positions'[s].quantity = q /\ \A u \in Symbols : u # s => positions'[u] = positions[u]
      BY <3>3 DEF BufferInv, Types
    <3> QED
      BY <3>4, <3>5 DEF LimitsInv, Open
  <2>2. CASE Exit \/ LiquidateEntry
    <3>1. \E s \in Symbols : positions' = [positions EXCEPT ![s] = Flat]
      BY <2>2, ExitTermsNat, LiquidationNat DEF Exit, LiquidateEntry, ClosePosition
    <3>2. PICK s \in Symbols : positions' = [positions EXCEPT ![s] = Flat]
      BY <3>1
    <3>3. positions'[s] = Flat /\ \A u \in Symbols : u # s => positions'[u] = positions[u]
      BY <3>2 DEF BufferInv, Types
    <3> QED
      BY <3>3 DEF LimitsInv, Open
  <2>3. CASE Hold
    <3>1. PICK s \in Symbols : s = NextExit /\ s \in Open
      BY <2>3, MinIn, PortfolioAssumption DEF BufferInv, Drawn, Open, Hold, NextExit
    <3>2. positions[s] \in PositionRecords /\ positions' = [positions EXCEPT ![s] = Held(positions[s])]
      BY <2>3, <3>1 DEF Hold, BufferInv, Types
    <3>3. Held(positions[s]).quantity = positions[s].quantity
      BY <3>2 DEF Held, PositionRecords
    <3>4. /\ positions'[s].quantity = positions[s].quantity
          /\ \A u \in Symbols : u # s => positions'[u] = positions[u]
      BY <3>2, <3>3 DEF BufferInv, Types
    <3> QED
      BY <3>1, <3>4 DEF LimitsInv, Open
  <2>4. CASE EndDay
    <3>1. ASSUME NEW s \in Open' PROVE s \in Open /\ positions'[s].quantity = positions[s].quantity
      <4>1. s \in Symbols /\ positions'[s] = Marked(s) /\ positions[s] \in PositionRecords
        BY <2>4, <3>1 DEF Open, EndDay, BufferInv, Types
      <4> QED
        BY <3>1, <4>1 DEF Marked, Open, PositionRecords
    <3> QED
      BY <3>1 DEF LimitsInv
  <2>5. CASE UNCHANGED positions
    BY <2>5 DEF LimitsInv, Open
  <2> QED
    BY <2>1, <2>2, <2>3, <2>4, <2>5
    DEF Next, PlanEntries, PlanFails, OpenDay, Carry, ExitsDone, Skip, Ended, vars, account
<1>4. /\ skips' \in [SkipReasons -> Nat]
      /\ phase' = "failed" => \A r \in SkipReasons : skips'[r] = 0
  <2>1. CASE PlanEntries
    <3> DEFINE none == {g \in signals : EntryDays(g) = {}}
    <3>1. phase' = "open" /\ skips' = [skips EXCEPT !["no_entry_bar"] = Cardinality(none)]
      BY <2>1 DEF PlanEntries
    <3>2. Cardinality(none) \in Nat
      <4>1. none \in SUBSET signals /\ IsFiniteSet(signals)
        BY UnskippedFinite DEF SignalsInv
      <4> HIDE DEF none
      <4> QED
        BY <4>1, FS_Subset, FS_CardinalityType
    <3> HIDE DEF none
    <3> QED
      BY <3>1, <3>2 DEF LimitsInv
  <2>2. CASE Skip
    <3>1. /\ phase = "entries" /\ phase' = phase
          /\ skips' = [skips EXCEPT ![SkipReason(NextEntry)] = @ + 1]
      BY <2>2 DEF Skip
    <3>2. PICK f \in [SkipReasons -> Nat] : f = skips
      BY DEF LimitsInv
    <3>3. PICK k \in SkipReasons : k = SkipReason(NextEntry)
      BY <2>2 DEF Skip, SkipReason, SkipReasons
    <3>4. skips' = [f EXCEPT ![k] = f[k] + 1]
      BY <3>1, <3>2, <3>3
    <3>5. f[k] + 1 \in Nat
      BY <3>2, <3>3
    <3>6. skips' \in [SkipReasons -> Nat]
      BY <3>2, <3>4, <3>5
    <3> QED
      BY <3>1, <3>6
  <2>3. CASE PlanFails
    BY <2>3 DEF PlanFails, LimitsInv, SignalsInv
  <2>4. CASE UNCHANGED skips /\ (phase' = "failed" => phase = "failed")
    BY <2>4 DEF LimitsInv
  <2> QED
    BY <2>1, <2>2, <2>3, <2>4
    DEF Next, OpenDay, Carry, Hold, Exit, ExitsDone, Enter, LiquidateEntry, EndDay, Ended, vars
<1> QED
  BY <1>1, <1>2, <1>3, <1>4 DEF LimitsInv

\* The special cases of RoundedSum that the rows need.
LEMMA RoundedRow ==
  ASSUME NEW a \in Int, NEW b \in Int
  PROVE  /\ Near(Quantize(a + b), Quantize(a) + Quantize(b))
         /\ Near(Quantize(a - b), Quantize(a) - Quantize(b))
         /\ Near(Quantize(Money(InitialCapital) + a + b),
                 Money(InitialCapital) + Quantize(a) + Quantize(b))
         /\ Quantize(a) \in Int
<1>1. \A x \in Int : Quantize(x) \in Int
  BY QuantizeMonotone
<1>2. Quantum \in Nat /\ Quantum * 0 = 0
  BY ParametersAssumption
<1>3. PICK d \in Int : d = a - b
  OBVIOUS
<1>4. Near(Quantize(Quantum * 0 + a + b), Quantum * 0 + Quantize(a) + Quantize(b))
  BY RoundedSum
<1>5. Near(Quantize(Quantum * 0 + d + b), Quantum * 0 + Quantize(d) + Quantize(b))
  BY RoundedSum
<1>6. Near(Quantize(a + b), Quantize(a) + Quantize(b))
  <2>1. Quantum * 0 + a + b = a + b /\ Quantum * 0 + Quantize(a) + Quantize(b) = Quantize(a) + Quantize(b)
    BY <1>1, <1>2
  <2> QED
    BY <1>4, <2>1
<1>7. Near(Quantize(a), Quantize(d) + Quantize(b))
  <2>1. Quantum * 0 + d + b = a /\ Quantum * 0 + Quantize(d) + Quantize(b) = Quantize(d) + Quantize(b)
    BY <1>1, <1>2, <1>3
  <2> QED
    BY <1>5, <2>1
<1>8. Near(Quantize(d), Quantize(a) - Quantize(b))
  <2>1. PICK qa \in Int, qb \in Int, qd \in Int :
          qa = Quantize(a) /\ qb = Quantize(b) /\ qd = Quantize(d)
    BY <1>1
  <2>2. qa - (qd + qb) \in (-Quantum)..Quantum
    BY <1>7, <2>1 DEF Near
  <2>3. qd - (qa - qb) \in (-Quantum)..Quantum
    BY <1>2, <2>2
  <2> QED
    BY <2>1, <2>3 DEF Near
<1>9. PICK w \in Int : Money(InitialCapital) = Quantum * w
  BY CapitalIsWhole
<1>10. Near(Quantize(Quantum * w + a + b), Quantum * w + Quantize(a) + Quantize(b))
  BY RoundedSum
<1> QED
  BY <1>1, <1>3, <1>6, <1>8, <1>9, <1>10

\* The highest equity up to yesterday and that of today give the highest so far.
LEMMA PeakGrows ==
  ASSUME NEW k \in Nat, NEW rows, NEW new, NEW p \in Int, NEW q \in Int, NEW m \in {p, q},
         p <= m, q <= m, PeakOf(rows, p, k),
         \A i \in 0..k : StoredEquity(rows, i) \in Int,
         \A i \in 1..k : new[i] = rows[i], new[k + 1].equity = q
  PROVE  PeakOf(new, m, k + 1)
<1>1. \A i \in 0..k : StoredEquity(new, i) = StoredEquity(rows, i)
  BY DEF StoredEquity
<1>2. StoredEquity(new, k + 1) = q
  BY DEF StoredEquity
<1>3. /\ \A i \in 0..(k + 1) : i \in 0..k \/ i = k + 1
      /\ 0..k \subseteq 0..(k + 1) /\ k + 1 \in 0..(k + 1)
  OBVIOUS
<1>4. \E i \in 0..(k + 1) : m = StoredEquity(new, i)
  BY <1>1, <1>2, <1>3 DEF PeakOf
<1>5. ASSUME NEW i \in 0..k PROVE StoredEquity(new, i) <= m
  <2>1. PICK e \in Int : e = StoredEquity(rows, i)
    BY <1>5
  <2>2. e <= p
    BY <1>5, <2>1 DEF PeakOf
  <2> QED
    BY <1>1, <1>5, <2>1, <2>2
<1> QED
  BY <1>2, <1>3, <1>4, <1>5 DEF PeakOf

\* The peak of earlier rows is not changed by a later one.
LEMMA PeakStays ==
  ASSUME NEW k \in Nat, NEW rows, NEW new, NEW p, PeakOf(rows, p, k),
         \A i \in 1..k : new[i] = rows[i]
  PROVE  PeakOf(new, p, k)
<1>1. \A i \in 0..k : StoredEquity(new, i) = StoredEquity(rows, i)
  BY DEF StoredEquity
<1> QED
  BY <1>1 DEF PeakOf

\* A row's columns are numbers.
LEMMA StoredInt ==
  ASSUME snapshots \in Seq(Rows), NEW i \in 0..Len(snapshots)
  PROVE  StoredEquity(snapshots, i) \in Int
<1>1. CASE i = 0
  BY <1>1, BufferLemma DEF StoredEquity
<1>2. CASE i # 0
  <2>1. snapshots[i] \in Rows
    BY <1>2
  <2> QED
    BY <1>2, <2>1 DEF StoredEquity, Rows
<1> QED
  BY <1>1, <1>2

\* The row of a day balances and its peak is the highest equity so far.
LEMMA RowsEnd ==
  BufferInv /\ BufferInv' /\ LookInv' /\ CashInv /\ RowsInv /\ EndDay => RowsInv'
<1> SUFFICES ASSUME BufferInv, BufferInv', LookInv', CashInv, RowsInv, EndDay PROVE RowsInv'
  OBVIOUS
<1>1. /\ cash' = cash /\ phase = "entries"
      /\ day' = (IF Final THEN day ELSE day + 1)
      /\ phase' = (IF Final THEN "done" ELSE "open")
      /\ running_peak' = Max({running_peak, cash + MarketValue(positions')})
      /\ snapshots' = Append(snapshots, Snapshot(positions', running_peak'))
  BY DEF EndDay
<1>2. PICK m \in Int, o \in Int : m = MarketValue(positions') /\ o = OpenCost(positions')
  BY BooksInt DEF BufferInv, Types
<1>3. PICK c \in Int, r \in Int, p \in Int : c = cash /\ r = realized_pnl /\ p = running_peak
  BY DEF BufferInv, Types, CashInv, RowsInv
<1>4. PICK e \in Int : e = c + m
  OBVIOUS
<1>5. PICK n \in Int : n = running_peak' /\ n = (IF p >= e THEN p ELSE e)
  BY <1>1, <1>2, <1>3, <1>4, MaxOfTwo
<1>6. c + o = Money(InitialCapital) + r /\ Money(InitialCapital) \in Int
  BY <1>2, <1>3, MarksKeepCost, BufferLemma DEF CashInv, Conservation
<1>7. PICK u \in Int : u = m - o
  OBVIOUS
<1>8. e = Money(InitialCapital) + r + u
  BY <1>4, <1>6, <1>7
<1> DEFINE row == Snapshot(positions', running_peak')
<1>9. /\ row.cash = Quantize(c) /\ row.market = Quantize(m) /\ row.realized = Quantize(r)
      /\ row.unrealized = Quantize(u) /\ row.equity = Quantize(e)
      /\ row.peak = Quantize(n) /\ row.drawdown = Quantize(n - e)
  BY <1>2, <1>3, <1>4, <1>5, <1>7 DEF Snapshot
<1>10. row \in Rows
  <2>1. Cardinality({s \in Symbols : positions'[s] # Flat}) \in Nat
    <3>1. {s \in Symbols : positions'[s] # Flat} \in SUBSET Symbols /\ IsFiniteSet(Symbols)
      BY PortfolioAssumption
    <3> QED
      BY <3>1, FS_Subset, FS_CardinalityType
  <2>2. \A x \in Int : Quantize(x) \in Int
    BY RoundedRow
  <2>3. day \in Days
    BY DEF BufferInv, Types
  <2>4. PICK x \in Int : x = n - e
    OBVIOUS
  <2> QED
    BY <1>2, <1>3, <1>4, <1>5, <1>7, <2>1, <2>2, <2>3, <2>4 DEF Snapshot, Rows
<1> HIDE DEF row
<1>11. RowBalances(row)
  <2>1. Near(Quantize(c + m), Quantize(c) + Quantize(m))
    BY RoundedRow
  <2>2. Near(Quantize(Money(InitialCapital) + r + u), Money(InitialCapital) + Quantize(r) + Quantize(u))
    BY RoundedRow
  <2>3. Near(Quantize(n - e), Quantize(n) - Quantize(e))
    BY RoundedRow
  <2> QED
    BY <1>4, <1>8, <1>9, <2>1, <2>2, <2>3 DEF RowBalances
<1>12. PICK k \in Nat : k = Len(snapshots)
  BY DEF RowsInv
<1>13. /\ snapshots' \in Seq(Rows) /\ Len(snapshots') = k + 1
       /\ \A i \in 1..k : snapshots'[i] = snapshots[i]
       /\ snapshots'[k + 1] = row
  <2>1. snapshots \in Seq(Rows) /\ snapshots' = Append(snapshots, row)
    BY <1>1 DEF RowsInv, row
  <2> QED
    BY <1>10, <1>12, <2>1
<1>14. PeakOf(snapshots', Quantize(n), k + 1)
  <2>1. PICK qp \in Int, qe \in Int : qp = Quantize(p) /\ qe = Quantize(e)
    BY RoundedRow
  <2>2. PICK qn \in {qp, qe} : qn = Quantize(n) /\ qp <= qn /\ qe <= qn
    BY <1>5, <2>1, QuantizeMonotone
  <2>3. PeakOf(snapshots, qp, k)
    BY <1>3, <1>12, <2>1 DEF RowsInv
  <2>4. \A i \in 0..k : StoredEquity(snapshots, i) \in Int
    BY <1>12, StoredInt DEF RowsInv
  <2>5. snapshots'[k + 1].equity = qe
    BY <1>9, <1>13, <2>1
  <2>6. PICK new : new = snapshots'
    OBVIOUS
  <2>7. PICK old : old = snapshots
    OBVIOUS
  <2>8. PeakOf(new, qn, k + 1)
    BY <1>13, <2>2, <2>3, <2>4, <2>5, <2>6, <2>7, PeakGrows
  <2> QED
    BY <2>2, <2>6, <2>8
<1>15. ASSUME NEW i \in 1..Len(snapshots')
       PROVE  RowBalances(snapshots'[i]) /\ PeakOf(snapshots', snapshots'[i].peak, i)
  <2>1. CASE i = k + 1
    BY <1>9, <1>11, <1>13, <1>14, <2>1
  <2>2. CASE i # k + 1
    <3>1. i \in 1..k /\ i \in Nat
      BY <1>13, <1>15, <2>2
    <3>2. snapshots'[i] = snapshots[i]
      BY <1>13, <3>1
    <3>3. RowBalances(snapshots[i]) /\ PeakOf(snapshots, snapshots[i].peak, i)
      BY <1>12, <3>1 DEF RowsInv
    <3>4. PICK new : new = snapshots'
      OBVIOUS
    <3>5. \A j \in 1..i : new[j] = snapshots[j]
      BY <1>13, <3>1, <3>4
    <3>6. PeakOf(new, snapshots[i].peak, i)
      BY <3>1, <3>3, <3>5, PeakStays
    <3> QED
      BY <3>2, <3>3, <3>4, <3>6
  <2> QED
    BY <2>1, <2>2
<1>16. Len(snapshots') = IF phase' = "done" THEN day' ELSE day' - 1
  <2>1. day \in Int /\ k = day - 1
    BY <1>1, <1>12 DEF RowsInv, BufferInv, Types, Days
  <2> QED
    BY <1>1, <1>13, <2>1
<1>17. phase' = "done" => snapshots'[Len(snapshots')].equity = Quantize(cash')
  <2>1. ASSUME phase' = "done" PROVE m = 0
    <3>1. Open' = {}
      BY <2>1 DEF LookInv, LastDayCloses
    <3>2. PICK new \in [Symbols -> PositionRecords] : new = positions'
      BY DEF BufferInv, Types
    <3>3. \A s \in Symbols : new[s] = Flat
      BY <3>1, <3>2 DEF Open
    <3> QED
      BY <1>2, <3>2, <3>3, NothingIsWorthNothing
  <2>2. phase' = "done" => e = c
    BY <1>4, <2>1
  <2> QED
    BY <1>1, <1>3, <1>9, <1>13, <2>2
<1>18. PeakOf(snapshots', Quantize(running_peak'), Len(snapshots')) /\ running_peak' \in Int
  BY <1>5, <1>13, <1>14
<1> QED
  BY <1>13, <1>15, <1>16, <1>17, <1>18 DEF RowsInv

\* Rows are only written at the end of a day.
LEMMA RowsStep ==
  BufferInv /\ LookInv /\ CashInv /\ RowsInv /\ [Next]_vars => RowsInv'
<1> SUFFICES ASSUME BufferInv, LookInv, CashInv, RowsInv, [Next]_vars PROVE RowsInv'
  OBVIOUS
<1>1. BufferInv' /\ LookInv'
  BY BufferStep, LookStep
<1>2. CASE EndDay
  BY <1>1, <1>2, RowsEnd
<1>3. CASE ~EndDay
  <2>1. /\ UNCHANGED <<snapshots, running_peak, day>>
        /\ phase' = "done" <=> phase = "done"
        /\ phase = "done" => cash' = cash
    BY <1>3 DEF Next, PlanEntries, PlanFails, OpenDay, Carry, Hold, Exit, ExitsDone, Skip, Enter,
                LiquidateEntry, Ended, vars, reports, account
  <2> QED
    BY <2>1 DEF RowsInv
<1> QED
  BY <1>2, <1>3

\* The account is right in every reachable state.
LEMMA BooksInvariant ==
  Spec => [](/\ BufferInv /\ LookInv /\ ModesInv /\ SignalsInv
             /\ LimitsInv /\ CashInv /\ RowsInv)
<1>1. Init => LimitsInv /\ CashInv /\ RowsInv
  <2> SUFFICES ASSUME Init PROVE LimitsInv /\ CashInv /\ RowsInv
    OBVIOUS
  <2>1. BufferInv
    BY BufferInit
  <2>2. LimitsInv
    <3>1. /\ Open = {} /\ maximum_open = 0 /\ phase = "plan" /\ max_open_positions \in MaxOpenChoices
          /\ skips = [r \in SkipReasons |-> 0]
      BY DEF Init, Open
    <3> QED
      BY <3>1, PortfolioAssumption DEF LimitsInv
  <2>3. CashInv
    <3>1. OpenCost(positions) = 0
      <4>1. PICK pos \in [Symbols -> PositionRecords] : pos = positions
        BY <2>1 DEF BufferInv, Types
      <4>2. \A s \in Symbols : pos[s] = Flat
        BY <4>1 DEF Init
      <4> QED
        BY <4>1, <4>2, NothingIsWorthNothing
    <3>2. cash = Money(InitialCapital) /\ realized_pnl = 0 /\ Money(InitialCapital) \in Int
      BY BufferLemma DEF Init
    <3> QED
      BY <3>1, <3>2 DEF CashInv, Conservation
  <2>4. RowsInv
    <3>1. /\ running_peak = Money(InitialCapital) /\ Money(InitialCapital) \in Int
          /\ snapshots = <<>> /\ phase = "plan" /\ day = 1
      BY BufferLemma DEF Init
    <3>2. Len(snapshots) = 0 /\ snapshots \in Seq(Rows)
      BY <3>1
    <3>3. PeakOf(snapshots, Quantize(running_peak), 0)
      <4>1. 0..0 = {0}
        OBVIOUS
      <4> QED
        BY <3>1, <4>1, CapitalIsWhole DEF PeakOf, StoredEquity
    <3> QED
      BY <3>1, <3>2, <3>3 DEF RowsInv
  <2> QED
    BY <2>2, <2>3, <2>4
<1>2. BufferInv /\ LookInv /\ ModesInv /\ SignalsInv /\ [Next]_vars
        => (BufferInv /\ LookInv /\ ModesInv /\ SignalsInv)'
  BY BufferStep, LookStep, ModesStep, SignalsStep
<1>3. BufferInv /\ LookInv /\ SignalsInv /\ LimitsInv /\ CashInv /\ RowsInv /\ [Next]_vars
        => (LimitsInv /\ CashInv /\ RowsInv)'
  BY LimitsStep, CashStep, RowsStep
<1> QED
  BY <1>1, <1>2, <1>3, SignalsInvariant, PTL DEF Spec

\* No signal is counted as skipped that does not exist.
LEMMA SkipsAreBounded ==
  ASSUME BufferInv, SignalsInv, LimitsInv
  PROVE  skips \in [SkipReasons -> 0..Cardinality(signals)]
<1>1. IsFiniteSet(signals) /\ Cardinality(signals) \in Nat /\ Cardinality(Unskipped) \in Nat
  BY UnskippedFinite DEF SignalsInv
<1>2. PICK f \in [SkipReasons -> Nat] : f = skips
  BY DEF LimitsInv
<1>3. ASSUME NEW r \in SkipReasons PROVE f[r] <= Cardinality(signals)
  <2>1. CASE phase \in {"plan", "failed"}
    BY <1>1, <1>2, <2>1 DEF SignalsInv, LimitsInv
  <2>2. CASE phase \notin {"plan", "failed"}
    <3>1. Total(f, SkipReasons) \in Nat /\ f[r] <= Total(f, SkipReasons)
      BY ReasonsFinite, TotalBounds
    <3>2. Cardinality(Unskipped) + Total(f, SkipReasons) = Cardinality(signals)
      BY <1>2, <2>2 DEF SignalsInv, Counted
    <3>3. f[r] \in Nat
      OBVIOUS
    <3> QED
      BY <1>1, <3>1, <3>2, <3>3
  <2> QED
    BY <2>1, <2>2
<1> QED
  BY <1>1, <1>2, <1>3

\* A function on a finite set has a largest value, and Max takes it.
LEMMA LargestValue ==
  ASSUME NEW S, IsFiniteSet(S), S # {}, NEW f \in [S -> Int]
  PROVE  \E x \in S : Max({f[y] : y \in S}) = f[x] /\ \A y \in S : f[y] <= f[x]
<1> DEFINE top(s) == \E x \in s : \A y \in s : f[y] <= f[x]
           bad    == {n \in Nat : \E s \in SUBSET S : s # {} /\ Cardinality(s) = n /\ ~top(s)}
<1>1. ASSUME NEW n \in bad, \A m \in bad : n <= m PROVE FALSE
  <2>1. PICK s \in SUBSET S : s # {} /\ Cardinality(s) = n /\ ~top(s)
    BY <1>1
  <2>2. PICK c \in s : TRUE
    BY <2>1
  <2>3. /\ s \ {c} \in SUBSET S /\ Cardinality(s \ {c}) \in Nat
        /\ Cardinality(s \ {c}) = Cardinality(s) - 1
    BY <2>1, <2>2, OneLess
  <2>4. n \in Nat
    BY <1>1
  <2>5. Cardinality(s \ {c}) \notin bad
    <3> HIDE DEF bad
    <3> QED
      BY <1>1, <2>1, <2>3, <2>4
  <2>6. s \ {c} # {} => top(s \ {c})
    BY <2>3, <2>5
  <2>7. \A x \in s : f[x] \in Int
    BY <2>1
  <2>8. CASE s \ {c} = {}
    <3>1. \A y \in s : y = c
      BY <2>8
    <3>2. f[c] <= f[c]
      BY <2>2, <2>7
    <3> QED
      BY <2>1, <2>2, <3>1, <3>2
  <2>9. CASE s \ {c} # {}
    <3>1. PICK x \in s \ {c} : \A y \in s \ {c} : f[y] <= f[x]
      BY <2>6, <2>9
    <3>2. CASE f[c] <= f[x]
      <4>1. \A y \in s : f[y] <= f[x]
        BY <3>1, <3>2
      <4> QED
        BY <2>1, <3>1, <4>1
    <3>3. CASE ~(f[c] <= f[x])
      <4>1. ASSUME NEW y \in s PROVE f[y] <= f[c]
        <5>1. f[y] \in Int /\ f[x] \in Int /\ f[c] \in Int
          BY <2>2, <2>7, <3>1, <4>1
        <5>2. y # c => f[y] <= f[x]
          BY <3>1, <4>1
        <5> QED
          BY <3>3, <5>1, <5>2
      <4> QED
        BY <2>1, <2>2, <4>1
    <3> QED
      BY <3>2, <3>3
  <2> QED
    BY <2>8, <2>9
<1>2. bad = {}
  <2>1. bad \subseteq Nat
    OBVIOUS
  <2> HIDE DEF bad
  <2>2. bad # {} => \E n \in bad : \A m \in bad : n <= m
    BY <2>1, SmallestNat
  <2> QED
    BY <1>1, <2>2
<1>3. top(S)
  <2>1. S \in SUBSET S /\ Cardinality(S) \in Nat
    BY FS_CardinalityType
  <2> QED
    BY <1>2, <2>1
<1>4. PICK x \in S : \A y \in S : f[y] <= f[x]
  BY <1>3
<1> DEFINE T == {f[y] : y \in S}
<1>5. f[x] \in T /\ \A t \in T : f[x] >= t /\ t \in Int
  BY <1>4
<1> HIDE DEF T
<1>6. \E t \in T : \A u \in T : t >= u
  BY <1>5
<1>7. Max(T) \in T /\ \A u \in T : Max(T) >= u
  BY <1>6 DEF Max
<1>8. Max(T) = f[x]
  BY <1>5, <1>7
<1> QED
  BY <1>4, <1>8 DEF T

\* A fall e from h is at most the drawdown m, but for the rounding q of d.
LEMMA FallIsCovered ==
  ASSUME NEW d \in Int, NEW p \in Int, NEW e \in Int, NEW h \in Int, NEW m \in Int,
         NEW q \in Int, d - (p - e) >= -q, h <= p, d <= m
  PROVE  h - e <= m + q
<1>1. h - e <= p - e
  OBVIOUS
<1>2. p - e <= d + q
  OBVIOUS
<1> QED
  BY <1>1, <1>2

\* The largest drawdown stored is the largest fall of stored equity, to within a
\* quantum.
LEMMA DrawdownIsLargest ==
  ASSUME BufferInv, LookInv, RowsInv, phase = "done"
  PROVE  Near(Max({snapshots[i].drawdown : i \in DOMAIN snapshots}),
              Max({StoredEquity(snapshots, ij[1]) - StoredEquity(snapshots, ij[2]) :
                     ij \in {ab \in (0..Len(snapshots)) \X (0..Len(snapshots)) : ab[1] <= ab[2]}}))
<1> DEFINE n == Len(snapshots)
           P == {ab \in (0..n) \X (0..n) : ab[1] <= ab[2]}
           E(i) == StoredEquity(snapshots, i)
           f == [i \in 1..n |-> snapshots[i].drawdown]
           g == [ij \in P |-> E(ij[1]) - E(ij[2])]
<1>1. snapshots \in Seq(Rows) /\ n \in Nat /\ n >= 1 /\ DOMAIN snapshots = 1..n
  <2>1. day \in Nat /\ day >= 1
    BY DEF BufferInv, Types, Days
  <2> QED
    BY <2>1 DEF RowsInv
<1>2. \A i \in 0..n : E(i) \in Int
  BY <1>1, StoredInt
<1>3. ASSUME NEW i \in 1..n
      PROVE  /\ snapshots[i].drawdown \in Int /\ snapshots[i].peak \in Int
             /\ snapshots[i].equity \in Int /\ snapshots[i].equity = E(i)
             /\ snapshots[i].drawdown - (snapshots[i].peak - E(i)) \in (-Quantum)..Quantum
             /\ \E j \in 0..i : snapshots[i].peak = E(j)
             /\ \A j \in 0..i : E(j) <= snapshots[i].peak
  <2>1. snapshots[i] \in Rows
    BY <1>1, <1>3
  <2>2. RowBalances(snapshots[i]) /\ PeakOf(snapshots, snapshots[i].peak, i)
    BY <1>3 DEF RowsInv
  <2>3. snapshots[i].equity = E(i)
    BY <1>3 DEF StoredEquity
  <2> QED
    BY <2>1, <2>2, <2>3 DEF Rows, RowBalances, PeakOf, Near
<1>4. f \in [1..n -> Int] /\ IsFiniteSet(1..n) /\ 1..n # {}
  <2>1. f \in [1..n -> Int]
    BY <1>3
  <2>2. 1 \in Int /\ n \in Int /\ 1 \in 1..n
    BY <1>1
  <2>3. IsFiniteSet(1..n)
    BY <2>2, FS_Interval
  <2> QED
    BY <2>1, <2>2, <2>3
<1>5. g \in [P -> Int] /\ IsFiniteSet(P) /\ P # {}
  <2>1. IsFiniteSet(0..n)
    BY <1>1, FS_Interval
  <2>2. IsFiniteSet((0..n) \X (0..n))
    BY <2>1, FS_Product
  <2>3. P \in SUBSET ((0..n) \X (0..n))
    OBVIOUS
  <2>4. <<0, 0>> \in P
    BY <1>1
  <2>5. IsFiniteSet(P)
    BY <2>2, <2>3, FS_Subset
  <2>6. g \in [P -> Int]
    BY <1>2
  <2> QED
    BY <2>4, <2>5, <2>6
<1>6. /\ {snapshots[i].drawdown : i \in DOMAIN snapshots} = {f[i] : i \in 1..n}
      /\ {E(ij[1]) - E(ij[2]) : ij \in P} = {g[ij] : ij \in P}
  BY <1>1
<1>7. ASSUME NEW i \in 1..n PROVE f[i] = snapshots[i].drawdown
  BY <1>7
<1>8. ASSUME NEW ij \in P PROVE g[ij] = E(ij[1]) - E(ij[2])
  BY <1>8
<1>9. ASSUME NEW i \in 0..n, NEW j \in i..n PROVE <<i, j>> \in P /\ g[<<i, j>>] = E(i) - E(j)
  BY <1>1, <1>9
<1>10. ASSUME NEW ij \in P PROVE ij[1] \in 0..n /\ ij[2] \in 0..n /\ ij[1] <= ij[2]
  BY <1>10
<1> HIDE DEF f, g, P
<1>11. PICK a \in 1..n : Max({f[i] : i \in 1..n}) = f[a] /\ \A i \in 1..n : f[i] <= f[a]
  BY <1>4, LargestValue
<1>12. PICK b \in P : Max({g[ij] : ij \in P}) = g[b] /\ \A ij \in P : g[ij] <= g[b]
  BY <1>5, LargestValue
<1>13. Quantum \in Nat /\ f[a] \in Int /\ g[b] \in Int
  BY <1>4, <1>5, ParametersAssumption
<1>14. g[b] <= f[a] + Quantum
  <2>1. PICK i \in 0..n, j \in 0..n : i = b[1] /\ j = b[2] /\ i <= j /\ g[b] = E(i) - E(j)
    BY <1>8, <1>10
  <2>2. CASE j = 0
    <3>1. i = 0 /\ g[b] = 0
      BY <1>2, <2>1, <2>2
    <3>2. 1 \in 1..n
      BY <1>1
    <3>3. PICK k \in 1..n : k = 1
      BY <3>2
    <3>4. /\ snapshots[k].drawdown - (snapshots[k].peak - E(k)) \in (-Quantum)..Quantum
          /\ E(k) <= snapshots[k].peak
          /\ snapshots[k].drawdown \in Int /\ snapshots[k].peak \in Int /\ E(k) \in Int
      BY <1>2, <1>3, <3>3
    <3>5. f[k] = snapshots[k].drawdown /\ f[k] <= f[a]
      BY <1>7, <1>11
    <3>6. snapshots[k].drawdown - (snapshots[k].peak - E(k)) >= -Quantum
      BY <1>13, <3>4
    <3>7. E(k) - E(k) <= f[a] + Quantum
      BY <1>13, <3>4, <3>5, <3>6, FallIsCovered, SMTT(60)
    <3> QED
      BY <1>13, <3>1, <3>4, <3>7
  <2>3. CASE j # 0
    <3>1. j \in 1..n /\ i \in 0..j /\ n \in Nat
      BY <1>1, <2>1, <2>3
    <3>2. /\ snapshots[j].drawdown - (snapshots[j].peak - E(j)) \in (-Quantum)..Quantum
          /\ E(i) <= snapshots[j].peak
          /\ snapshots[j].drawdown \in Int /\ snapshots[j].peak \in Int
          /\ E(j) \in Int /\ E(i) \in Int
      BY <1>2, <1>3, <3>1
    <3>3. f[j] = snapshots[j].drawdown /\ f[j] <= f[a]
      BY <1>7, <1>11, <3>1
    <3>4. snapshots[j].drawdown - (snapshots[j].peak - E(j)) >= -Quantum
      BY <1>13, <3>2
    <3>5. E(i) - E(j) <= f[a] + Quantum
      BY <1>13, <3>2, <3>3, <3>4, FallIsCovered, SMTT(60)
    <3> QED
      BY <2>1, <3>5
  <2> QED
    BY <2>2, <2>3
<1>15. f[a] <= g[b] + Quantum
  <2>1. PICK i \in 0..a : snapshots[a].peak = E(i)
    BY <1>3
  <2>2. i \in 0..n /\ a \in i..n /\ a \in 0..n
    BY <1>1, <2>1
  <2>3. g[<<i, a>>] = E(i) - E(a) /\ g[<<i, a>>] <= g[b]
    BY <1>9, <1>12, <2>2
  <2>4. /\ snapshots[a].drawdown - (snapshots[a].peak - E(a)) \in (-Quantum)..Quantum
        /\ snapshots[a].drawdown \in Int /\ f[a] = snapshots[a].drawdown
    BY <1>3, <1>7
  <2>5. E(i) \in Int /\ E(a) \in Int
    BY <1>2, <2>2
  <2> QED
    BY <1>13, <2>1, <2>3, <2>4, <2>5
<1>16. Near(f[a], g[b])
  BY <1>13, <1>14, <1>15 DEF Near
<1> QED
  BY <1>6, <1>11, <1>12, <1>16 DEF P

\* The books balance: at every step cash and the cost of what is open are the
\* capital and the realized profit; a finished run is all cash; each row that
\* _snapshot() stores balances to within a quantum of Decimal.quantize(), and
\* so does the drawdown that execute() reports; and the counts keep their types.
THEOREM BooksBalance == Spec => []AccountsBalance
<1> DEFINE Inv == /\ BufferInv /\ LookInv /\ ModesInv /\ SignalsInv
                  /\ LimitsInv /\ CashInv /\ RowsInv
<1>1. Inv => TypeOK
  <2> SUFFICES ASSUME Inv PROVE TypeOK
    OBVIOUS
  <2>1. /\ max_open_positions \in MaxOpenChoices /\ maximum_open \in 0..max_open_positions
        /\ signals \subseteq Signals /\ present \in [Days -> SUBSET Symbols]
        /\ phase \in {"plan", "open", "exits", "entries", "done", "failed"} /\ day \in Days
        /\ exits \subseteq Symbols /\ entries \subseteq signals
    BY DEF LimitsInv, BufferInv, Types, Drawn, Open
  <2>2. \A d \in Days : planned[d] \subseteq signals
    BY DEF BufferInv, Planned
  <2>3. {cash, realized_pnl, running_peak} \subseteq Int
    BY DEF BufferInv, Types, CashInv, RowsInv
  <2>4. ASSUME NEW s \in Open
        PROVE  /\ positions[s].quantity \in Nat \ {0}
               /\ positions[s].signal \in signals
               /\ positions[s].entry_date \in 1..day
    <3>1. positions[s].quantity \in Nat \ {0}
      BY <2>4 DEF LimitsInv, BufferInv, Types, Open, PositionRecords
    <3>2. positions[s].signal \in signals
      BY <2>4 DEF SignalsInv, Parted, HeldSignals
    <3>3. positions[s].entry_date \in 1..day
      <4>1. positions[s].entry_date \in Days /\ positions[s].entry_date <= day /\ day \in Days
        BY <2>4 DEF ModesInv, HeldRight, BufferInv, Drawn, Types
      <4> QED
        BY <4>1 DEF Days
    <3> QED
      BY <3>1, <3>2, <3>3
  <2>5. skips \in [SkipReasons -> 0..Cardinality(signals)]
    BY SkipsAreBounded
  <2> QED
    BY <2>1, <2>2, <2>3, <2>4, <2>5 DEF TypeOK
<1>2. Inv => Conservation
  BY DEF CashInv
<1>3. Inv => EverythingIsLiquidated
  <2> SUFFICES ASSUME Inv, phase = "done"
               PROVE  /\ Open = {} /\ Metrics.final_equity = Metrics.final_cash
                      /\ Len(snapshots) = LastDay
    BY DEF EverythingIsLiquidated
  <2>1. Open = {} /\ Len(snapshots) = LastDay
    BY DEF LookInv, LastDayCloses, RowsInv, Final
  <2>2. Metrics.final_equity = snapshots[Len(snapshots)].equity /\ Metrics.final_cash = Quantize(cash)
    BY DEF Metrics
  <2> QED
    BY <2>1, <2>2 DEF RowsInv
<1>4. Inv => SnapshotsBalance
  <2> SUFFICES ASSUME Inv PROVE SnapshotsBalance
    OBVIOUS
  <2>1. DOMAIN snapshots = 1..Len(snapshots)
    BY DEF RowsInv
  <2>2. \A i \in DOMAIN snapshots : RowBalances(snapshots[i])
    BY <2>1 DEF RowsInv
  <2>3. phase = "done" =>
          Near(Max({snapshots[i].drawdown : i \in DOMAIN snapshots}),
               Max({StoredEquity(snapshots, ij[1]) - StoredEquity(snapshots, ij[2]) :
                      ij \in {ab \in (0..Len(snapshots)) \X (0..Len(snapshots)) : ab[1] <= ab[2]}}))
    BY DrawdownIsLargest
  <2>4. Metrics.max_drawdown = Max({snapshots[i].drawdown : i \in DOMAIN snapshots})
    BY DEF Metrics
  <2> QED
    BY <2>2, <2>3, <2>4 DEF SnapshotsBalance, RowBalances, StoredEquity
<1>5. Inv => AccountsBalance
  BY <1>1, <1>2, <1>3, <1>4 DEF AccountsBalance
<1> QED
  BY <1>5, BooksInvariant, PTL
=============================================================================
