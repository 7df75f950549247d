# Verification of Sterling's execution core

Sterling is a trading system for the Indian markets: strategies produce signals, a
Python backend turns them into orders at Zerodha Kite, and a web and a mobile client
show what happens. Most of the repository is signal mathematics, market data, studies and
user interface. This directory is about the part where a mistake costs money: the path
from "a strategy wants an order" to "this is what we hold and what it cost", the way a
holding is sold again, the switches that stop it, and the alerts that tell a person.

Paths below are relative to the repository; `services/` is `backend/app/services/`.

## 1. Inventory

| Component | State | Operations | Talks to |
|---|---|---|---|
| Order journal `services/kite_engine/order_journal.py` | tables `kite_order_intents`, `kite_order_observations` | `reserve`, `claim_submission`, `transition`, `acknowledge`, `submission_uncertain`, `observe_order`, `mark_projected`; reads `unresolved`, `pending_projection`, `find` | called by the execution service and the lifecycle |
| Canonical execution `services/execution_service.py` | none of its own | `submit_order`, `startup_recovery`, `verify_exposure_effect`; uncalled: `modify_order`, `cancel_order`, `place_protection` | journal, gates, control row, Kite client |
| Admission gates `services/live_safety.py`, `services/safety_supervisor.py` | in-memory kill switch, daily-loss configuration | `assert_safe_to_trade`, `authorize`, `set_kill_switch` | reads safe mode, journal, control row |
| Execution control `services/db.py` | table `execution_control`: operator and recovery state, revision, per scope | `set_operator_state`, `set_recovery_state` with optional compare-and-set | execution service, operator |
| Lifecycle `services/kite_engine/execution_lifecycle.py` | a lock per account | `consume_order` (postback or order book), `recover`, `register_pending`, `_protect`, `_place_protection` | journal, registry, fill ledger, lease, Kite |
| Fill ledger `services/kite_engine/fill_ledger.py` | tables of increments, inventory, conflicts | `record`, `apply_fees`, `resolve` | called by lifecycle and exit monitor; read by the daily-loss breaker |
| Exit monitor `services/kite_engine/monitor.py`, `protective_stop.py` | exit claims, exit fields of a row | `on_tick`, `on_order_update`, `_exit_position`, `_attribute_trigger_fill`, `stop_status`, `cancel_stop_result` | Kite client, broker triggers, lease, ledger, registry |
| Position registry `services/kite_engine/positions.py` | rows in memory, saved as a whole | `register`, `mark_filled`, `update_stop`, `close`, `_persist`, `persist_strict`, `_load` | lifecycle, monitor, service |
| Execution lease `services/kite_engine/execution_lease.py` | table `kite_execution_leases` | `acquire`, `release`, `guard` | exit monitor, lifecycle |
| Engine service `services/kite_engine/service.py` | last scans | scan loop: `_reconcile_pending_positions`, `_reconcile_closed_positions`, `_update_open_position_trails` | lifecycle, monitor, registry |
| Safe mode `services/safe_mode.py`, `scripts/sterling-safe-mode`, `api/v1/endpoints/lanes.py` | one JSON file and its staging file | `read`, `engage`, `release`, `initialise` | API service and command line, two processes |
| Operational alerts `services/snapback_alerts.py`, `snapback_alert_outbox.py`, `snapback_alert_telegram.py`, `snapback_ops_scheduler.py` | dispatcher memory; table `operational_alert_outbox` | `dispatch`, `enqueue`, `process`, `deliver` | health, Telegram |
| Order router, circuit breaker `services/execution/` | in-memory idempotency window and breaker | `submit`; nothing outside tests builds one | `live_safety`, exchange adapters |
| Snapback family, strategy engines, simulation, data stores, bus, API, clients, deployment | see `PROJECT.json` | | reach the broker through the execution service only |

What is hard here:

- **Concurrency.** The backend is one event loop, so code between two awaits is atomic,
  but submissions, exits, postbacks, polls, scans, recovery and operators interleave at
  every await, and other processes (the command line, a restart that overlaps) at every
  statement. The broker's triggers are one more actor that nothing here can lock out.
- **Unreliable answers.** A request may be accepted although its caller saw a timeout.
  Postbacks are duplicated, reordered, delayed, lost, and may overtake the reply.
- **Crashes and refusals.** Only SQLite rows and the safety file survive, and most saves
  of the registry swallow their errors.
- **Doubt.** Contradictory evidence must be kept for a person: neither applied nor
  dropped.

What makes each component correct:

- journal: one owner per broker order, one claim per intent, no evidence lost, no fill
  invented, finished rows stay finished, capital never promised twice;
- execution: one broker order per intent at most, whatever times out or dies; no
  conclusion about an intent that is not true; no increase leaves while the outcome
  of another is open; what is known of an order is not unlearned; a stop that was on
  in time stops the order; CLEAN is only written over a state nobody challenged; lost
  replies are found again;
- lifecycle: evidence that counts as projected is booked or flagged; the row ends as the
  orders did; the last evidence is projected in the end;
- exit: one exit order at a time, remembered by memory and store; never together with a
  trigger; never more sold than held; closed only when flat;
- ledger: the books agree with the broker, balance, do not depend on the order in which
  whole orders arrive, charge once, and stay flagged while in doubt;
- safe mode: nothing ends it but a decision, no crash tears it, nobody's trigger is erased;
- alerts: a fault that lasts is recorded, every alert is settled, nobody hears of one
  twice, and what counts as failed has failed.

`PROJECT.json` lists the hazards of this code at their lines with the properties that
watch them.

## 2. Modules

| Module | Models | How state and actions correspond |
|---|---|---|
| `OrderJournal` | `order_journal.py` | `journal[k]` is the row of intent key `k`, "ABSENT" if there is none; each function is one `BEGIN IMMEDIATE` transaction, so one action. A call that raises or finds nothing to do is a stutter. `Next` lets anyone call anything. |
| `CanonicalExecution` | `submit_order`, `startup_recovery`, the gates, the control row, `consume_order` and `recover` towards the journal, the broker, operators, crashes | extends `OrderJournal`; `pc[s]` is the next durable read, write or request of call `s`; `rec[a]` is where the recovery of account `a` is; `wire`, `orders`, `book` and `feed` are the broker (external). |
| `SingleEffect` | the promise of `docs/architecture/EXECUTION_AUTHORITY.md` | five actions on a verdict and a number of orders per intent; `CanonicalExecution` implements it through `Verdict` and `orders`. |
| `OrderProjection` | what `consume_order` does with evidence after the journal has it, for an entry and its exit, and `recover` | `journal`, `booked`, `saved` are the three stores, `row` the memory; `task` is the body of `consume_order` under its lock, one commit per step; `Recover` is the pass of `recover` over one intent. |
| `PositionExit` | `_exit_position`, `on_order_update`, `_protect`, `_place_protection`, the repairs of every scan, `stop_status` and `cancel_stop_result`, the broker's orders and triggers, for one live long holding | `row` and `saved` are the registry row in memory and in the store; `exit.pc` is the await at which the exit is; a record of `tasks` is any other coroutine that awaits the broker; `scan` is what the scan has read; `held`, `entry`, `trig`, `order` are the broker. |
| `FillLedger` | `fill_ledger.py` | `rows` are the increments, `inv` the derived inventory; every write is one transaction, so one action; the replay is a fold in exchange order. |
| `SafeMode` | `safe_mode.py` | `path` and `staging` are names that point to inodes, `disk` their content; a writer reads and decides, opens, fills and replaces in separate steps and may die between any two. |
| `AlertOutbox` | `snapback_alerts.py`, `snapback_alert_outbox.py`, the loop and `send` of `snapback_ops_scheduler.py` | `lastSent` is the dispatcher's memory, `outbox` the table by dedupe key; `worker` is the next call of the loop, with the batch it has claimed. |

`MC*` modules hold the values of constants. `*Proofs` modules hold theorems, and `FoldLemmas`
what they need about folds over finite sets.

`CanonicalExecution` composes journal, gates and broker and ends where evidence is
delivered; `OrderProjection` takes over there with the journal reduced to how far the
evidence of an order is known and whether it is projected; `PositionExit` takes the entry's
projection as one step (what `OrderProjection` shows to be safe to repeat) and adds the
awaits of `_protect`, in which everything else may happen.

Abstractions worth knowing:

- An *account* of the execution models is one (user, account) pair.
- A call's approval, family gate and capital evidence, and the first admission, are one
  step (`Admit`): a call that fails there leaves no trace, and an increase asks
  everything again at the second admission. The second one is read store by store, in
  the order of `assert_safe_to_trade`.
- Daily loss, family halt, external positions and the control scopes above the account
  can only refuse; they are not modelled. Neither property of the gates needs them.
- `OneProcess` says that recovery and submissions share an event loop. The loop that
  expires reservations never awaits, so nothing runs inside it then. Without it
  recovery is another process.
- `Project` of `CanonicalExecution` is the end of `consume_order`; `OrderProjection` is the rest.
- Broker statuses that the journal treats alike are all "OPEN".
- `OrderProjection` leaves out prices, contradictory evidence (`OrderJournal`,
  `FillLedger`), charges, and the version that `mark_projected` compares: the lock lets
  nothing come between. The branch of `consume_order` for a holding without inventory
  cannot be reached by an admitted exit.
- `PositionExit` leaves out money, the account's identity checks, stop levels and the
  tick's reasons to exit (it may exit at any time), and the cache of `_broker_stop_status`. Holdings
  are atomic with the fills that change them; a cancel takes effect when it is answered,
  or its reply is lost. There is one process: `backend/run_backend.sh` starts one worker.
- `slips` (in `PositionExit` and `OrderProjection`) is a history variable: it names the things that the code
  does not keep apart from an exit or settles by overwriting. A configuration says which
  of them may happen (`Slips`), and a property says by name which ones it does not survive.
  The rest of the property's claim is that nothing else breaks it. `PositionExit`:
  `outside` (somebody sells, or deletes a trigger, in the broker's application),
  `attributed` (such a sale taken for the child of our trigger while an exit of ours
  is claimed), `rearm` (a trigger armed for a holding that is being or has been sold),
  `blind` (an exit sent while a placed trigger is unknown), `shrunk` (a scan's or an
  exit's quantity that already counts an own fill), `refill` (the entry fills on after
  a sale), `reopened` (a scan's old quantity, or the second look of an exit, opens a closed row
  again). `OrderProjection`: `skipped`, `overwritten`.
- `AlertOutbox`: the order by `created_at` is any order, waits are flags that time sets,
  the morning's login alerts may come at any time, and what makes a fault is an input.
- The ledger's prices and averages are exact rationals; the code's floats and their
  tolerances are not modelled. Lot size, row version and the day bucket are left out;
  `at` is the exchange's time, or that of arrival where the exchange gave none. A holding is one
  (user, symbol) of one account.
- The notes and timestamps of the safety file are left out. The application engages
  only OPERATOR; the service accepts every trigger, and so does the model. What two
  processes wrote over each other in one inode is not modelled text by text: such an
  inode either holds the last text or is torn. `mixed` remembers that two writes overlapped.

## 3. Runs

| Run | Question | Bounds | Result |
|---|---|---|---|
| `journal` | Do the table's promises hold for every order of calls and evidence? | 2 keys of one account, 2 order ids, quantity 2, 8 pieces of evidence (honest, late, repriced, overfilled, incomplete), at most `MaxObservations` = 3 per row | holds |
| `exec_calls` | Can racing calls send twice, or an increase leave while another is open? Is an honest broker accused? Is CLEAN ever wrong? Does the path implement `SingleEffect`? | 3 calls, 2 keys, both increasing, quantity 1; recovery interleaves with one call at a time (`OneCallMeetsRecovery`); the broker reports of the second order no more than that it is open (`SecondWaits`) | holds |
| `exec_lost` | Are lost replies and outcomes found? Can an order leave under a stop engaged before its claim? Is anything unlearned? | one call, quantity 2 so that orders fill in parts; 3 switches; fairness, no constraint, no symmetry | holds |
| `ledger_books` | Do the books agree, balance, and keep their flags? Do whole orders come out the same in every order of arrival? | 2 holdings, 3 orders, 6 reports with every kind of contradiction and flips both ways, 2 charges, repeated or restated before and after more fills | holds |
| `safe_writers` | Does anything but a decision end safe mode? Is the file whole, and do triggers stand, as long as writers take turns? | 2 processes, 2 triggers, 4 inodes, symmetry | holds |
| `exit` | Is a holding sold once, by one seller, and closed only when flat? | 2 lots, 2 attempts, 2 triggers, 1 foreign order, one other coroutine at a time (`MaxTasks`), saves that may fail, `Slips` = outside, attributed | holds |
| `projection` | Do crashes and refusals between the commits lose a fill? Is everything projected in the end? | 3 lots, 2 faults, `Slips` = skipped, overwritten; fairness | holds |
| `outbox` | Is a fault that lasts recorded, every alert settled, nobody told twice? | 1 fault, 1 login code, 2 sessions, 2 attempts, 2 alerts per claim, 1 crash or refusal; fairness | holds |
| `safe_race` | Do triggers stand when two writes overlap? | 2 processes | **violated** |
| `exit_rearm` | Is the account never short, if a trigger may be armed during an exit? | as `exit`, nothing outside the engine, no failed saves, `Slips` = rearm | **violated** |
| `projection_skipped` | Is what counts as projected always booked or flagged? | 2 lots, no faults, the same slips | **violated** |
| `outbox_unheard` | Has somebody heard what is DELIVERED? | as `outbox`, without crash or refusal | **violated** |

Why the bounds are enough. Conflicts are between two intents, two calls of one intent,
two exits, two triggers or two processes; the third call of `exec_calls` adds the bystander. The journal
compares quantities only with zero, with each other and with the order's, so 0 to 3 of
an order of 2 shows every comparison; the same holds of two or three lots of a holding, which can
be sold in part, in whole, twice, and filled in part. Three observations are a first, a contradicting
and a late one. The ledger's cases are opening, adding, reducing, closing and flipping,
and the three orders of `ledger_books` go through them all, in every order of arrival.
Four inodes are one more than two writers and the file can use. Two attempts of an alert are one that
may be repeated and one that may not; two faults of `projection` are a failure and one
more while it is repaired. One coroutine beside exit, scan and broker (`MaxTasks`) is the bound that
matters most in `exit`: two of them together are not explored, except that a closing or
shrinking row always gets its own. Proofs (below) carry most of the safety properties to all sizes,
and to any number of coroutines.

`exec_calls` and `exec_lost` look at different parts of one model because their product is out of
reach; no property is checked only where a constraint removes what could break it:
recovery never sends, what the broker says about the second order matters only to the
row of the second order, whose counterpart is free, and `CleanEarned` is proved without
either constraint.

`exit` checks no deadlock: when all is sold and dead nothing needs to happen. The other
runs whose properties are invariants keep the check: the systems never stop.

**Fairness.**
- `exec_lost`: `Poll` is strongly fair: the engine service calls `recover` in every cycle
  (`_reconcile_pending_positions`), and a poll can be delayed by the expiry loop of
  recovery but not starved by it; that a broker order book answers eventually, and that
  no intent raises on every cycle, is part of this assumption. The expiry loop is weakly
  fair: it never awaits, so it ends. Nobody is assumed to submit, recover, deliver a
  postback or release anything.
- `projection`: the body of `consume_order` is weakly fair (a task that is not killed runs),
  `Recover(i)` strongly: every cycle asks for each candidate, and the lock, which others
  may hold at times, is free again and again.
- `outbox`: the loop is weakly fair (`run_forever` catches every exception), and time passes
  (`RepeatDue`, `BackoffOver`). No fault is assumed to last, and no send to succeed.

## 4. Disagreements between code and text

1. `safe_race`. The safety file is read, decided on and replaced without a lock. An
   investigated trigger engaged between a release's read and its replace disappears.
2. `exit_rearm`. `_protect` asks whether a trigger is known or of unknown outcome, not whether
   the holding is being sold. An exit that has cancelled the trigger clears `gtt_id` at its
   reply, the next cycle's `recover` (or a repeated entry postback) arms a new one for the
   whole quantity, and when the market falls on, both sell.
3. `projection_skipped`. Evidence of an entry whose row is CLOSED counts as projected at once.
   After a crash between the save of the row and the booking, and a scan that closes the row,
   or for an entry that fills on after everything was sold, the fill is never booked and the
   row not flagged.
4. `outbox_unheard`. `send_via` reports a failed request by returning False; `_deliver` does not
   look, and logs exceptions. The outbox records DELIVERED, so its retries, its bound and
   its DEAD state only ever serve a missing configuration.

Observed while modelling, without a run of their own:

- `startup_recovery` in a second process can cancel an intent that was claimed and sent after
  it was listed (`execution_service.py:805-809`; `transition` is legal from UNKNOWN and SUBMITTED).
- `fill_ledger.resolve` with a note stores the note as the reason, from which the flag is derived:
  the holding stays flagged (`fill_ledger.py:564`, against 551-553).
- A lower cumulative quantity of an order that arrives after a higher one is dropped with its time
  and price, so average cost depends on the order of arrival of partial fills (`fill_ledger.py:390`, against 506-507).
- `on` followed by `off` makes a missing safety file NORMAL without an acknowledgement (`safe_mode.py:222`, against 175-178).
- A scan between a partial fill of our exit and its postback shrinks the row; the postback then takes the same
  lots off again and can close the row over lots still held (`service.py:1379`; slip `shrunk`).
- A scan that has read the holdings before a row is closed writes it back as OPEN with the quantity it read, without
  the trigger that the close cancelled; so does the second look of an exit (`service.py:1379`, `monitor.py:791`;
  slip `reopened`). Two triggers can then be armed for one holding: the proof of `OneTrigger` did not go
  through until the property named this, and TLC reaches it in eleven states.
- The comment at `service.py:1376` says the trigger follows such a shrink; nothing moves it until the next trail update.
- An outside sale that coincides with a cancelled trigger is attributed to it, and replaces the claim of our
  exit (`monitor.py:340`; slip `attributed`).
- The entry's cumulative quantity overwrites what an exit has left (`execution_lifecycle.py:300`; slip `overwritten`).
- A trigger whose cancel fails after the row was closed is forgotten; only a log line names it (`monitor.py:426-433`).
- A strict save that fails at the submit of an exit leaves "submitting" in memory, with a tag no order carries; no exit
  starts again until a restart (`monitor.py:822-832`).
- One intent that raises ends the loop of `recover` for those behind it, in every cycle (`execution_lifecycle.py:336`).
- A crash or a refused write between claim and record leaves an alert DELIVERING for ever, and nothing counts it
  as overdue (`snapback_alert_outbox.py:143-164`).
- `CompositeAlertSink` swallows a failed `enqueue`, so the dispatcher holds the fault back for `repeat_after`
  (`snapback_alert_telegram.py:136-141`), and its promise that a second episode "alerts again" does not
  survive the dedupe key of the session (`snapback_alerts.py:226-227`).

## 5. Proofs

All theorems hold for every value of the constants that satisfies the named
assumptions: any keys, accounts, ids, calls, reports, processes, lots, faults, sessions.

- `FoldLemmas`. Sums over sets are folds, and the community modules define folds by recursion on a
  function that picks the next element. Induction over a finite set is derived here from the library's
  well-foundedness of strict inclusion, with the property given as a set; from it, that such a recursion
  has one solution, that `SumFunctionOnSet` is one, and that sums split, grow and compare as expected.
- `OrderJournalProofs`. The inductive invariant of evidence adds to
  `EvidenceNeverLost` and `FillsAreEvidenced` what the table knows about a row: a RESERVED
  row has seen nothing, a row without fills has no value, terminal rows hold the final
  status they accepted. Each function gets a lemma that says what it does to one row and
  that it leaves the others alone; the action properties follow from these. `CapitalSafe`
  needs the sum: only `reserve` adds an unresolved intent, and it compares the sum of the others with
  the capital of the request; every other step leaves the sum or takes from it (`FiniteAssumption`:
  there are finitely many keys).
- `CanonicalExecutionProofs`. `UsesJournal` shows that every step is a step of the
  journal or leaves it alone, so its theorems hold of the composition.
  `SentOnce` needs an invariant that ties the program counters of all calls of a key to
  the row, the wire and the number of orders: past the claim the row is never RESERVED
  again, at most one call is between claim and send, and an order exists only if the
  request went out. `IncreasesTakeTurns` rests on the order of two steps, each
  call writes its claim before it reads the other's, and on what outlives the call: its
  invariant (`TurnsInv`) counts an increase that has passed the journal's gate or whose request
  is out, and a row stays SUBMITTING or UNKNOWN when its call gives up or dies. `KnowledgeGrows`
  needs what each write of the path knows of the row (`Forward`): the journal would
  allow SUBMITTED to become UNKNOWN, but a timeout writes only over SUBMITTING, a withdrawal and an
  expiry are final words, and evidence without fills is older than a PARTIAL row. `StopsHold` carries, for each gate still
  ahead, what the gates behind have ruled out. `CleanEarned` carries the revision that
  recovery read: whoever flags the account moves it, so the compare-and-set fails.
  `KeepsThePromise` shows initial states and every step to map to `SingleEffect`, with the invariant
  of `SentOnce` extended by what each verdict says about the broker (`Truth`). `HonestTrusted` adds that a row
  which is over while its order is at the broker ended as the order did, and that no report under way says
  more than has happened (`Honest`). The last two need `OneProcess` and are false without it: recovery in another
  process cancels an intent that it listed as RESERVED and that was meanwhile claimed, timed out and
  accepted; the broker's own report then contradicts the journal (TLC: 16 states).
- `PositionExitProofs`. Seven invariants, each resting on those before, for any attempts, triggers,
  foreign orders, lots, slips and number of coroutines:
  - `ExitTypeOK`, the types;
  - `FenceInv`, for `ExitsAreFenced` and `OneExitAtATime`: while an exit order of ours may fill, the row in
    memory and the row in the store both name it, by id or by tag with an unresolved id. It survives failed
    saves because only the strict save starts an exit and every later save of that row, done or
    lost, still names the order; a claim is given up only on evidence that the order is dead or complete;
  - `StopInv`, for `TriggersAreAlone`: both copies of the row know of every trigger that is alive, by id or as
    pending; there is one arming at a time; and while an exit sells, the trigger it found is the one
    the row names until it is gone;
  - `SellerInv`, for `ExitsSellAlone`: where the exit is past the cancel no trigger is alive, and while an
    order of ours works nothing arms one;
  - `BookInv`, which needs no exclusion: no copy of the row says more than the journal has seen or has consumed more
    than an order filled, and nothing of ours is sold before the entry is final;
  - `FlatInv`, for `ClosedRowsAreFlat`: in each copy of the row, once what the claimed order has filled is consumed,
    no more is held than the row says, plus what of the entry the journal has not seen. A stale copy after
    a lost save and a restart is the hard case: it is behind, but by exactly what the claimed order explains;
  - `Marked` and `StockInv`, for `NeverSoldTwice`: whoever may sell next, an order, a trigger or one about to be
    placed, is for no more than is held, and until a trigger fills the row is backed by what is held plus
    what its own exit has filled and not yet taken off.
- `OrderProjectionProofs`. `FillsAreBookedOrFlagged` needs to know, for each step of `consume_order`,
  what the steps behind it have done: at `mark` the booking is done or the flag is in the store.
  `OverIsOver` needs that memory is ahead of the store only by a refused save. `RowsAreRight` needs `RowInv`:
  an exit is covered by what the ledger has booked of its entry, a row that is closed has been sold out,
  and a stored row that nobody flagged mirrors the entry until an exit fills, and the ledger from then on.
- `FillLedgerProofs`. `LadderHolds` needs that the increments of an order are totally
  ordered by quantity and that a new one is above them all. `DoubtsStand` needs that the
  projection keeps a reason unless it is given another. The arithmetic is proved over
  rationals in lowest terms: `RationalEqual` says that a value has one such pair, and
  lemmas about a common denominator (`IsPlus`, `IsScale`, `Finer`) turn an equation between
  rationals into one between integers. `Units` is the double entry of average cost there:
  a fill that opens averages the cost, one that closes realizes the difference for what it
  closes, one that flips does both. `ReplayIsFold` unfolds the replay by its latest
  increment, so `ReplayBalance` (the books balance after any replay) and `ReplayTotals`
  (the restated gains add up) are inductions over sets of increments. The inductive
  invariant `LedgerInv` says that the increments are numbered in order of arrival, that
  those of an order add up to its highest report (`Cumulated`) and to its last charges
  (`ChargedTo`), that the inventory and the restated values are what the replay gives
  (`Derives`), and that what was heard and not quarantined is told by the increments
  (`Told`); `BooksAreBrokers`, `ChargesAreOnce`, `BooksAlwaysBalance` and
  `DayTotalsAlwaysAgree` follow from it. `OrdersCommute` adds `HeardInv`, that every
  increment is of some report and every contradiction contradicts another report, so an
  order that is heard of once has one increment (`AloneIs`), and the replay reads no more
  of increments than their order and what they book (`ReplayAlong`).
- `SafeModeProofs`. `NotLeftByAccident` needs that, until somebody was allowed to
  leave, no inode and no decision in flight says NORMAL, so no replace can install one.
  `WholeFiles` and `TurnsKeepTriggers` are about one writer at a time: the inode it fills is not
  the one the file has, and what it read is still what the file says.
- `AlertOutboxProofs`. `NobodyHearsTwice` needs that what is heard once is claimed, being sent, or
  done: an alert in a batch is DELIVERING and unheard, one being sent is in no batch, and nothing
  claims DELIVERING.

The type invariants of `CanonicalExecution`, `SafeMode`, `PositionExit`, `OrderProjection` and
`AlertOutbox`, and the monotonicity of fills (`FillsGrow`) and of closed rows (`OverIsOver`), are
theorems and are not checked by a run as well.

Only model-checked: liveness (`LostReplyRecovered`, `OutcomeRecorded`, `EventuallyProjected`,
`EventuallySettled`, `FaultRecorded`) and the runs that expect a violation. Every invariant and
action property of the passing runs is a theorem.

## 6. Not modelled, and why

The models cover the components whose steps interleave or survive crashes on the way from an
intent to money. That is a small part of the repository's lines. The rest is, by size:

- strategy engines, indicators, risk models, studies and research: floating-point functions of market data;
- simulation, replay, backtests, the observation warehouse and the evidence collectors: deterministic
  computations and tables over recorded data;
- data stores, providers, the Kite client and ticker: input and output, of which the models keep the outcomes;
- HTTP endpoints, web and mobile clients, deployment: thin layers over the services;
- the Snapback family and the other runners: they reach the broker through the modelled path, or are paper engines;
- the order router and circuit breaker, and `modify_order`, `cancel_order` and `place_protection` of the
  execution service: nothing outside tests calls them.

Of the modelled components these are left out: paper positions and short futures in `monitor.py`, the
family and supervisor checks of admission, scopes of the control table, `emergency_square_off_all`, several
holdings of one account, the lease between two processes, and a strict save that raises for an entry or at the
arming of a trigger (memory then knows of the trigger before the store does, and nothing is placed).
