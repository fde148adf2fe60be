----------------------------- MODULE Portfolio ------------------------------
(***************************************************************************)
(* One portfolio-mode backtest, PortfolioBacktestExecutor.execute()        *)
(* (backtest/portfolio.py), step by step: signals are planned on their     *)
(* entry days; then, day by day, open positions are examined for exit,     *)
(* signals are entered or skipped, the last day is liquidated, positions   *)
(* are marked at the close and a snapshot is taken.                        *)
(*                                                                         *)
(* Days are the positions of the market-wide calendar.  Which signalled    *)
(* symbols have a bar on which day is fixed at the start; the prices of a  *)
(* bar are drawn when the loop comes to a day on which it reads them.      *)
(* Symbols are numbers, so that they can be sorted.                        *)
(***************************************************************************)
EXTENDS TradeRules, Sequences, Functions

CONSTANTS
  Symbols,               \* numbers
  LastDay,               \* length of the calendar
  SignalDays,            \* days on which the watchlist may name a symbol
  Prices,                \* the bars a symbol may have on a day
  MaxOpenChoices,        \* values of max_open_positions to run with
  InitialCapital, PositionSizePct, MinimumCashBufferPct

Days == 1..LastDay

\* What PortfolioParameters.parse() accepts, and the constraints of daily_bars.
ValidPortfolio ==
  /\ IsFiniteSet(Symbols) /\ Symbols \subseteq Nat
  /\ LastDay \in Nat \ {0} /\ SignalDays \subseteq Days
  /\ \A b \in Prices :
       /\ b \in [open : Nat, high : Nat, low : Nat, close : Nat]
       /\ b.low <= b.open /\ b.low <= b.close
       /\ b.high >= b.open /\ b.high >= b.close
  /\ InitialCapital \in Nat \ {0}
  /\ MaxOpenChoices \subseteq Nat \ {0}
  /\ PositionSizePct \in 1..D
  /\ MinimumCashBufferPct \in 0..(D - 1)

ASSUME PortfolioAssumption == ValidPortfolio

VARIABLES
  max_open_positions,
  signals,    \* what the strategy generated
  present,    \* the symbols with a bar, by day
  bars,       \* the bars read so far, by day
  phase, day,
  exits,      \* open symbols still to be examined today
  entries,    \* signals still to be entered or skipped today
  planned,    \* entry_events: the signals of each day
  cash, realized_pnl, running_peak, positions,
  trades, skips, snapshots, maximum_open

input     == <<max_open_positions, signals, present>>
account   == <<cash, realized_pnl, positions, trades>>
reports   == <<running_peak, snapshots, maximum_open>>
vars      == <<input, bars, phase, day, exits, entries, planned, account, skips,
               reports>>

Signals     == [symbol : Symbols, date : SignalDays]
SkipReasons == {"max_open_positions", "duplicate_symbol", "insufficient_cash",
                "minimum_cash_buffer", "quantity_zero", "no_entry_bar",
                "invalid_price"}
NoSignal    == [symbol |-> 0, date |-> 0]

\* A symbol without an open position.
Flat == [signal |-> NoSignal, entry_date |-> 0,
         bar |-> [open |-> 0, high |-> 0, low |-> 0, close |-> 0],
         quantity |-> 0, last_close |-> 0, holding_days |-> 0]

Open  == {s \in Symbols : positions[s] # Flat}
Final == day = LastDay
HasBar(s) == s \in present[day]

Entry(p) == EntryPrice(p.bar)
BuyCommission(p) == Commission(Entry(p) * p.quantity)
Cost(p)  == Entry(p) * p.quantity + BuyCommission(p)
MarketValue(pos) == MapThenSumSet(LAMBDA s : pos[s].last_close * pos[s].quantity, Symbols)
OpenCost(pos)    == MapThenSumSet(LAMBDA s : Cost(pos[s]), Symbols)
Equity == cash + MarketValue(positions)
Buffer == (Money(InitialCapital) * MinimumCashBufferPct) \div D

TypeOK ==
  /\ max_open_positions \in MaxOpenChoices
  /\ signals \subseteq Signals
  /\ present \in [Days -> SUBSET Symbols]
  /\ phase \in {"plan", "open", "exits", "entries", "done", "failed"}
  /\ day \in Days
  /\ exits \subseteq Symbols /\ entries \subseteq signals
  /\ \A d \in Days : planned[d] \subseteq signals
  /\ {cash, realized_pnl, running_peak} \subseteq Int
  /\ \A s \in Open : /\ positions[s].quantity \in Nat \ {0}
                     /\ positions[s].signal \in signals
                     /\ positions[s].entry_date \in 1..day
  /\ skips \in [SkipReasons -> 0..Cardinality(signals)]
  /\ maximum_open \in 0..max_open_positions

-----------------------------------------------------------------------------
Init ==
  /\ max_open_positions \in MaxOpenChoices
  /\ signals \in SUBSET Signals
  /\ present \in [Days -> SUBSET {g.symbol : g \in signals}]
  /\ bars = [d \in Days |-> <<>>]
  /\ phase = "plan" /\ day = 1
  /\ exits = {} /\ entries = {}
  /\ planned = [d \in Days |-> {}]
  /\ cash = Money(InitialCapital) /\ running_peak = Money(InitialCapital)
  /\ realized_pnl = 0
  /\ positions = [s \in Symbols |-> Flat]
  /\ trades = {} /\ snapshots = <<>> /\ maximum_open = 0
  /\ skips = [r \in SkipReasons |-> 0]

\* The days the generator of execute() looks at for a signal end with the
\* first one that has a bar of its symbol.
EntryDays(g)  == {d \in Days : d > g.date /\ g.symbol \in present[d]}
Scanned(g)    == {d \in Days : d > g.date /\ \A e \in EntryDays(g) : d <= e}

\* by_date has no key for a day on which no signalled symbol has a bar, and
\* by_date[day] is a KeyError.
KeyMissing(g) == \E d \in Scanned(g) : present[d] = {}

\* Mutant: signals without an entry bar are dropped silently.
PlanUncounted ==
  /\ phase = "plan"
  /\ \A g \in signals : ~KeyMissing(g)
  /\ planned' = [d \in Days |-> {g \in signals : EntryDays(g) # {} /\ Min(EntryDays(g)) = d}]
  /\ phase' = "open"
  /\ UNCHANGED <<input, bars, day, exits, entries, account, skips, reports>>

PlanEntries ==
  /\ phase = "plan"
  /\ \A g \in signals : ~KeyMissing(g)
  /\ planned' = [d \in Days |-> {g \in signals : EntryDays(g) # {} /\ Min(EntryDays(g)) = d}]
  /\ skips' = [skips EXCEPT !["no_entry_bar"] =
                 Cardinality({g \in signals : EntryDays(g) = {}})]
  /\ phase' = "open"
  /\ UNCHANGED <<input, bars, day, exits, entries, account, reports>>

PlanFails ==
  /\ phase = "plan"
  /\ \E g \in signals : KeyMissing(g)
  /\ phase' = "failed"
  /\ UNCHANGED <<input, bars, day, exits, entries, planned, account, skips, reports>>

\* The bars that today's exits and entries read.
Read == {s \in present[day] : s \in Open \/ \E g \in planned[day] : g.symbol = s}

OpenDay ==
  /\ phase = "open"
  /\ \E b \in [Read -> Prices] : bars' = [bars EXCEPT ![day] = b]
  /\ exits' = Open /\ entries' = planned[day]
  /\ phase' = "exits"
  /\ UNCHANGED <<input, day, planned, account, skips, reports>>

\* Mutant: the commission paid on entry is not part of the realized profit.
CloseWithoutBuyCommission(s, p, raw, reason) ==
  LET notional == ExitPrice(raw) * p.quantity
      costs    == Commission(notional) + SellTax(notional)
  IN  /\ cash' = cash + notional - costs
      /\ realized_pnl' = realized_pnl + notional - Entry(p) * p.quantity - costs
      /\ trades' = trades \cup
           {BacktestTrade(p.signal, p.entry_date, p.bar, p.quantity, day, raw,
                          reason, p.holding_days)}
      /\ positions' = [positions EXCEPT ![s] = Flat]

\* close_position(): the position is sold and its trade recorded.
ClosePosition(s, p, raw, reason) ==
  LET notional == ExitPrice(raw) * p.quantity
      proceeds == notional - Commission(notional) - SellTax(notional)
      gross    == notional - Entry(p) * p.quantity
      costs    == BuyCommission(p) + Commission(notional) + SellTax(notional)
  IN  /\ cash' = cash + proceeds
      /\ realized_pnl' = realized_pnl + gross - costs
      /\ trades' = trades \cup
           {BacktestTrade(p.signal, p.entry_date, p.bar, p.quantity, day, raw,
                          reason, p.holding_days)}
      /\ positions' = [positions EXCEPT ![s] = Flat]

NextExit == Min(exits)

Held(p) == [p EXCEPT !.holding_days = @ + 1]

\* exit_terms(): forced liquidation on the last day, at the last known close
\* when the symbol has no bar; else the rules on today's bar.
ExitTerms(s) ==
  IF Final
  THEN [reason |-> "end_of_period",
        raw |-> IF HasBar(s) THEN Money(bars[day][s].close)
                ELSE positions[s].last_close]
  ELSE ExitRule(Entry(positions[s]), Held(positions[s]).holding_days, bars[day][s])

\* Mutant: a day without a bar counts as a day held.
CarryCountsDay ==
  /\ phase = "exits" /\ exits # {}
  /\ ~HasBar(NextExit) /\ ~Final
  /\ positions' = [positions EXCEPT ![NextExit] = Held(@)]
  /\ exits' = exits \ {NextExit}
  /\ UNCHANGED <<input, bars, phase, day, entries, planned, cash, realized_pnl,
                 trades, skips, reports>>

\* No bar today, and not the last day: the position is carried as it is.
Carry ==
  /\ phase = "exits" /\ exits # {}
  /\ ~HasBar(NextExit) /\ ~Final
  /\ exits' = exits \ {NextExit}
  /\ UNCHANGED <<input, bars, phase, day, entries, planned, account, skips, reports>>

\* Mutant: a surviving position is marked before entries are sized.
HoldAndMark ==
  /\ phase = "exits" /\ exits # {}
  /\ HasBar(NextExit) /\ ~Final
  /\ ExitTerms(NextExit) = NoExit
  /\ positions' = [positions EXCEPT ![NextExit] =
                     [Held(@) EXCEPT !.last_close = Money(bars[day][NextExit].close)]]
  /\ exits' = exits \ {NextExit}
  /\ UNCHANGED <<input, bars, phase, day, entries, planned, cash, realized_pnl,
                 trades, skips, reports>>

Hold ==
  /\ phase = "exits" /\ exits # {}
  /\ HasBar(NextExit) /\ ~Final
  /\ ExitTerms(NextExit) = NoExit
  /\ positions' = [positions EXCEPT ![NextExit] = Held(@)]
  /\ exits' = exits \ {NextExit}
  /\ UNCHANGED <<input, bars, phase, day, entries, planned, cash, realized_pnl,
                 trades, skips, reports>>

Exit ==
  /\ phase = "exits" /\ exits # {}
  /\ HasBar(NextExit) \/ Final
  /\ ExitTerms(NextExit) # NoExit
  /\ ClosePosition(NextExit, Held(positions[NextExit]), ExitTerms(NextExit).raw,
                   ExitTerms(NextExit).reason)
  /\ exits' = exits \ {NextExit}
  /\ UNCHANGED <<input, bars, phase, day, entries, planned, skips, reports>>

ExitsDone ==
  /\ phase = "exits" /\ exits = {}
  /\ phase' = "entries"
  /\ UNCHANGED <<input, bars, day, exits, entries, planned, account, skips, reports>>

Price(g)  == EntryPrice(bars[day][g.symbol])
Spendable == cash - Buffer

\* Mutant: the commission is left out of the size.
FitsBeforeCommission(g, q) ==
  /\ Price(g) * q <= Spendable
  /\ Price(g) * q * D <= Equity * PositionSizePct

\* q shares and their commission cost neither more than the cash above the
\* buffer nor more than the target fraction of equity.
Fits(g, q) ==
  LET total == Price(g) * q * (D + CommissionRate) IN
  /\ total <= Spendable * D
  /\ total <= Equity * PositionSizePct

\* affordable_quantity(), where it is not zero: the largest number of whole
\* shares that fits.
Affordable(g) == {q \in 1..(Spendable \div Price(g)) : Fits(g, q) /\ ~Fits(g, q + 1)}
Required(g, q) == Price(g) * q + Commission(Price(g) * q)
TargetTooSmall(g) == Spendable < Price(g) \/ Equity * PositionSizePct < Price(g) * D

\* The first reason, in the order of the code, not to enter a signal.
SkipReason(g) ==
  IF g.symbol \in Open THEN "duplicate_symbol"
  ELSE IF Cardinality(Open) >= max_open_positions THEN "max_open_positions"
  ELSE IF Price(g) <= 0 THEN "invalid_price"
  ELSE IF Spendable <= 0 THEN "minimum_cash_buffer"
  ELSE IF ~Fits(g, 1) /\ TargetTooSmall(g) THEN "quantity_zero"
  ELSE IF ~Fits(g, 1) \/ \E q \in Affordable(g) : Required(g, q) > cash
       THEN "insufficient_cash"
  ELSE "none"

\* Signals are taken in the order of their date and symbol.
NextEntry ==
  CHOOSE g \in entries :
    \A h \in entries : g.date < h.date \/ (g.date = h.date /\ g.symbol <= h.symbol)

Skip ==
  /\ phase = "entries" /\ entries # {}
  /\ SkipReason(NextEntry) # "none"
  /\ skips' = [skips EXCEPT ![SkipReason(NextEntry)] = @ + 1]
  /\ entries' = entries \ {NextEntry}
  /\ UNCHANGED <<input, bars, phase, day, exits, planned, account, reports>>

Enter ==
  /\ phase = "entries" /\ entries # {}
  /\ SkipReason(NextEntry) = "none"
  /\ \E q \in Affordable(NextEntry) :
       /\ cash' = cash - Required(NextEntry, q)
       /\ positions' = [positions EXCEPT ![NextEntry.symbol] =
            [signal |-> NextEntry, entry_date |-> day,
             bar |-> bars[day][NextEntry.symbol], quantity |-> q,
             last_close |-> Price(NextEntry), holding_days |-> 0]]
  /\ maximum_open' = Max({maximum_open, Cardinality(Open) + 1})
  /\ entries' = entries \ {NextEntry}
  /\ UNCHANGED <<input, bars, phase, day, exits, planned, realized_pnl, trades,
                 skips, running_peak, snapshots>>

EnteredToday == {s \in Open : positions[s].entry_date = day}

\* A position entered on the last day is sold at that day's close.
LiquidateEntry ==
  /\ phase = "entries" /\ entries = {} /\ Final /\ EnteredToday # {}
  /\ LET s == Min(EnteredToday) IN
       ClosePosition(s, positions[s], Money(bars[day][s].close), "end_of_period")
  /\ UNCHANGED <<input, bars, phase, day, exits, entries, planned, skips, reports>>

\* The end of a day: closing marks, then the snapshot.
Marked(s) ==
  IF s \in Open /\ HasBar(s)
  THEN [positions[s] EXCEPT !.last_close = Money(bars[day][s].close)]
  ELSE positions[s]

Snapshot(pos, peak) ==
  LET market == MarketValue(pos)
  IN  [trading_date |-> day, cash |-> Quantize(cash), market |-> Quantize(market),
       realized |-> Quantize(realized_pnl),
       unrealized |-> Quantize(market - OpenCost(pos)),
       equity |-> Quantize(cash + market), peak |-> Quantize(peak),
       drawdown |-> Quantize(peak - (cash + market)),
       open |-> Cardinality({s \in Symbols : pos[s] # Flat})]

EndDay ==
  /\ phase = "entries" /\ entries = {}
  /\ ~(Final /\ EnteredToday # {})
  /\ positions' = [s \in Symbols |-> Marked(s)]
  /\ running_peak' = Max({running_peak, cash + MarketValue(positions')})
  /\ snapshots' = Append(snapshots, Snapshot(positions', running_peak'))
  /\ day' = IF Final THEN day ELSE day + 1
  /\ phase' = IF Final THEN "done" ELSE "open"
  /\ UNCHANGED <<input, bars, exits, entries, planned, cash, realized_pnl, trades,
                 skips, maximum_open>>

\* The run is over: its rows and metrics are stored, or its failure is.
Ended ==
  /\ phase \in {"done", "failed"}
  /\ UNCHANGED vars

Next ==
  \/ PlanEntries \/ PlanFails \/ OpenDay
  \/ Carry \/ Hold \/ Exit \/ ExitsDone
  \/ Skip \/ Enter \/ LiquidateEntry \/ EndDay
  \/ Ended

Spec == Init /\ [][Next]_vars

\* The metrics of the run.
Metrics ==
  LET last == snapshots[Len(snapshots)] IN
  [final_equity    |-> last.equity,
   final_cash      |-> Quantize(cash),
   net_profit      |-> last.equity - Money(InitialCapital),
   max_drawdown    |-> Max({snapshots[i].drawdown : i \in DOMAIN snapshots}),
   total_signals   |-> Cardinality(signals),
   entered_trades  |-> Cardinality(trades),
   skipped_signals |-> MapThenSumSet(LAMBDA r : skips[r], SkipReasons)]

-----------------------------------------------------------------------------
(***************************************************************************)
(* Properties.                                                             *)
(***************************************************************************)

\* No money is made or lost: what is in cash and what the open positions have
\* cost always amounts to the capital and the realized profit, whatever was
\* bought and sold in between.
Conservation == cash + OpenCost(positions) = Money(InitialCapital) + realized_pnl

\* However many positions are opened on one day, entries never spend the cash
\* buffer: fixed-fraction sizing, the commission and the buffer of
\* affordable_quantity() work together.  (A sale must not cost more than it
\* brings, which parse() does not enforce: commission and tax of 60% each
\* are accepted.)
BufferIsKept == CommissionRate + SellTaxRate <= D => cash >= Buffer

\* A finished run holds nothing: positions opened on the last day, and
\* positions whose symbol has no bar on the last day, are liquidated too, so
\* that the final equity is cash.
EverythingIsLiquidated ==
  phase = "done" =>
    /\ Open = {}
    /\ Metrics.final_equity = Metrics.final_cash
    /\ Len(snapshots) = LastDay

\* Every signal is accounted for exactly once, as a trade or as a skip, and
\* no signal is traded twice (uq_backtest_trade_signal).
SignalsAreAccountedFor ==
  phase = "done" =>
    /\ Metrics.entered_trades + Metrics.skipped_signals = Metrics.total_signals
    /\ \A t, u \in trades : t.signal = u.signal => t = u

BarsOf(s) == [d \in {e \in 1..day : s \in DOMAIN bars[e]} |-> bars[d][s]]

\* Both execution modes trade alike: a position the portfolio closes before
\* the end of the period gives the very trade that simulate_signal() gives
\* for its signal and quantity, on the bars up to that day.
ModesAgree ==
  \A t \in trades :
    t.reason # "end_of_period" =>
      t = SimulateSignal(t.signal, BarsOf(t.signal.symbol), t.quantity)

\* Entries are sized, and missing bars carried, with closes already known: until
\* the end of a day an open position is valued at the latest close before it
\* (at its entry price on its first day), never at today's or a later one.
NoLookAhead ==
  \A s \in Open :
    LET p     == positions[s]
        known == {d \in p.entry_date..(day - 1) : s \in DOMAIN bars[d]}
    IN  p.last_close = IF known = {} THEN Entry(p)
                       ELSE Money(bars[Max(known)][s].close)

Near(x, y) == x - y \in (-Quantum)..Quantum

\* Every stored snapshot balances to within one quantum although each column
\* is rounded by itself, and the reported maximum drawdown is the largest
\* fall of stored equity from an earlier day or from the initial capital.
SnapshotsBalance ==
  LET equity(i) == IF i = 0 THEN Money(InitialCapital) ELSE snapshots[i].equity
      span      == 0..Len(snapshots)
  IN
  /\ \A i \in DOMAIN snapshots :
       LET n == snapshots[i] IN
       /\ Near(n.equity, n.cash + n.market)
       /\ Near(n.equity, Money(InitialCapital) + n.realized + n.unrealized)
  /\ phase = "done" =>
       Near(Metrics.max_drawdown,
            Max({equity(ij[1]) - equity(ij[2]) :
                   ij \in {ab \in span \X span : ab[1] <= ab[2]}}))

\* The books balance at every step, in every stored row, and at the end, when
\* all is cash; the account keeps its type, with no more positions than
\* max_open_positions.
AccountsBalance == TypeOK /\ Conservation /\ EverythingIsLiquidated /\ SnapshotsBalance

\* "Missing bars carry the last close observed after entry": a calendar day
\* without a bar of any signalled symbol does not stop the run.
MissingBarsAreCarried == phase # "failed"
=============================================================================
