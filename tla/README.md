# Verification of duna-orders

TLA+ models of the order desk in `src/`: customers write to a WhatsApp number, a
FastAPI webhook turns the conversation into one draft order, operators review,
confirm, prepare and acknowledge it on Streamlit pages, and read the day's figures
there. Storage is Postgres, or Google Sheets for the desk alone (both modelled), or
memory for demonstrations.

Paths below are relative to `src/duna_orders/` in the repository unless they start
with `pages/` or `docs/`.

## 1. The system

### Processes

* **Webhook processes.** `web/app.py` declares an async handler that calls
  synchronous code, so one process serves one request at a time; concurrency comes
  from several processes, and from operators who run a drain or use the pages
  beside them.
* **Operator pages.** Each Streamlit session runs a page from top to bottom per
  click, and keeps a little session state (the open retry prompt) between runs.
* **Postgres.** Every store method is one transaction (`session_scope`) at READ
  COMMITTED. `FOR UPDATE` is used in `storage/conversation_state.py` only.
* **Google Sheets.** Where it is the storage, a write is a call to a service that may
  fail, or be made and reported lost; there are no transactions. Each browser session
  keeps its own cache of tabs for 30 seconds.
* **Outside.** Twilio (delivers, redelivers, accepts or refuses messages) and a
  language model (parses a transcript; no bound on its time).

Processes share nothing but the tables and never call each other.

### Components

| Component | State | Operations | What makes it correct |
| --- | --- | --- | --- |
| Customer claim, `storage/conversation_customer_claims.py` | one lease row per customer | `try_acquire`, `renew`, `release` | at most one live holder; only the holder changes a live row |
| Conversation store, `storage/conversation_state.py`, `conversation_orders.py` | sessions, turns, accumulated drafts, orders by conversation | create, append, expire, save draft, insert order, link, record outcome | one open session per customer, one order per conversation, one turn per message, permanent links |
| Processed ledger, `storage/processed_messages.py` | message ids seen, resulting order | `try_record_message`, `mark_order_created` | a message is processed once |
| Deferred queue, `storage/deferred_inbound.py` | rows pending or processed | defer, list, mark | every accepted message is processed in the end |
| Webhook and drains, `web/app.py` | locals of a call | claim, record, advance, release, drain, replay | nothing accepted is lost; order; no call hangs |
| Advancement, `services/conversation_advancement.py` | locals of a call | route, expire, append, recover, parse, renew, merge, create, link | one order per conversation, made from all the customer said |
| Order lifecycle, `services/orders.py`, `storage/order_lifecycle.py`, `order_confirmation.py` | orders, stock, movements, status log | draft, review, confirm, move on, cancel | prepared implies sold; sold once; stock accounted for |
| Acknowledgement, `services/outbound_acknowledgement.py`, `storage/outbound_messages.py`, `integrations/twilio_outbound.py`, `pages/2_Orders_Today.py` | one row per order; prompts | send, retry, mark | told at most once; the row does not lie |
| Draft merge, `services/accumulated_draft_merge.py` | none (pure) | merge, completeness, readiness, request | nothing said is forgotten or doubled; an order is the last reading |
| Customers and order book, `services/orders.py`, `domain/phone.py` | customers, orders | `create_draft`: refuse, look up, create, total | an order goes to the customer of its phone; sums are right |
| Sheets storage, `storage/sheets.py`, `sheets_cache.py`, `read_context.py` | tabs, one cache per session | cached reads, appends, row updates, retries | a session finds what it wrote |
| Confirmation without transactions, `services/orders.py`, `pages/1_New_Order.py` | script of a session, its draft | form, draft, confirm, repair, reset | sold implies booked; stock never taken unbooked or twice; a retry gets through |
| Dashboard and lists, `services/dashboard.py`, `order_visibility.py` | none (pure) | every figure and list | figures shown side by side agree, money adds up |
| Other read models, page layout, start-up | none | reads | right tenant, right rows |

### How they meet, and what is hard

A delivery takes the customer's **claim**; if it is busy the message goes to the
**queue** and is answered 202. With the claim, the message is written to the
**ledger** (a second delivery stops there), then `advance()` runs: about ten separate
transactions on the **conversation store** around a parser call, and the claim is
renewed once, after that call. The claim is released in a `finally`, and the holder
then replays up to five queued rows. Hard are: leases that run out during the parse;
two processes in every gap between two transactions; redelivery; a crash or a failing
statement between any two writes; idle expiry racing a draft; and wake-ups lost
between a release and a defer. On the operators' side every request reads in one
transaction and writes in another; confirmation checks and writes in one, but without
locks. The acknowledgement adds a remote call whose outcome may stay unknown.

On Sheets a confirmation is a loop of two writes for each product and one for the
status, any of which fails, repeats or outlives the script, decided on rows up to half
a minute old; what the loop does after a failure is found out from the movements that
are there. Upstream, the parser answers each turn with the whole order and may omit or
reword what it had found; downstream, times kept in UTC are counted by local days,
weeks and hours in two places with two settings. The complete list, each at its line,
is `hazards` in `PROJECT.json`.

## 2. The modules

```
Tenancy ── CustomerClaim ───────┐                       LeaseLock   (abstract)
      └─── ConversationStore ───┴── InboundPipeline
OrderLifecycle ── OutboundAck                           AtMostOnce  (abstract)
SheetsStore ── SheetsDesk
DraftMerge ──┐
Dashboard ───┴── OrderBook
```

`MC*` modules give constants their checked values, `*Proofs` hold the theorems.

**CustomerClaim.** `lease` is the table; `leaseEnd[h][c]` is the time up to which
call `h` believes it holds `c`. `TryAcquire` is the upsert with its condition,
`Renew`/`RenewLost` the conditional update with and without a row, `Release` the
delete by holder, `Abandon` a holder that dies. `now` is the database's clock, and a
row is live while it is strictly before the expiry, as in the SQL. **LeaseLock** says
the same without rows or clocks: free or one owner, never handed over directly.

**ConversationStore.** One action per store method with its conditions and the unique
indexes of `storage/postgres_models.py`; the reads are operators. `ConversationSpec`
lets anybody call any method, so what it satisfies needs no cooperation. An order
keeps the messages it was made from (`covers`). Row versions, written but never
compared, are left out.

**InboundPipeline** extends both. A worker runs one call; `pc` names the next
transaction and `call` its local variables (among them those of `advance()`). Every
action is one transaction with the computation up to the next, so all interleavings
of processes are explored, and `Fault`/`Crash` fail the next statement or kill the
process anywhere. A transaction that commits while its answer is lost behaves for the
others as a crash right after it, for the caller as a fault, so it needs no action of
its own. A text is blank or not, parsed or not, ready for an order or not, each a free
choice; a draft is the set of messages merged into it. The parse may last any time.
`SlowWrites` chooses whether statements, too, may outlast a lease.
Two branches of the code are reached by no behaviour of the composition (an append
that finds its message in another conversation, a link to a second order); they stay
in the model because they are in the code.

**OrderLifecycle.** A desk is an operator's session with one request at a time. `Ask`
is the first transaction (read, decide), `Write` the second, which looks at nothing;
`CheckStatus`, `ReadStock` and `CommitSale` are the statements of
`confirm_order_atomically`, whose writes appear together at the commit. Products and
movements are read in one step: other confirmations change both in one commit, and a
movement seen late can only refuse, which `CommitSale`'s key does anyway. Requests that
are refused at the first read change nothing and are left out.

**OutboundAck** extends it with the page. `ShowOrder`/`ShowAcknowledgement` are the
page's reads and what they let the operator press; `asked` holds open retry prompts;
`CheckOrder`, `Claim`, `Lookup`, `Reclaim`, `Send`, `Mark` are the service. `Send`
returns accepted, refused or unknown, and unknown may have been accepted. `provider`
counts what Twilio saw. The limit of attempts in the page is a literal 2, equal to
`MAX_OUTBOUND_ACKNOWLEDGEMENT_ATTEMPTS`; both are `MaxAttempts`. **AtMostOnce** is the
promise without rows, retries or pages.

**SheetsStore** is the backend: four tabs, each session's cache of them, and one
operator per write. `Call(n, ok)` is a write through tenacity: it was made `n` times
and the caller is told it was made, or gets an exception, which may come all the same
after the write. `View` is a read through the cache, with any tab expired or not;
`Invalidated` drops the tabs of the session that writes, before the write. Of an order
row the status is kept, of item rows how many times they are there, of movements their
units. A read that fails is left out: it ends the script and leaves no entry, which
looks the same as one that has expired.

**SheetsDesk** runs the two pages over it. `pc` is where a session's script is. A
script of New order reads the products (`OpenForm`), then either shows the page
(`ShowOrders`, which also is Orders today), drafts (`CreateDraft` appends the items,
`CreateOrderRow` the order), or confirms: `Confirm` decides with what was read, `Sell`
and `Deduct` alternate per product, `WriteStatus` comes last. `Move` is a transition
from Orders today, and `Restart` ends a session at any point. Orders and their items
are cached as one, since `create_order` drops both and nothing else changes items. All
reads but that of the products happen in one step with the decision they are read for;
what could matter in between, items and movements of the page's own draft, only this
session writes.

**DraftMerge** is the merge and what decides that a draft is an order, as functions of
items by key (product and normalised modifications). **Dashboard** holds every figure
of the dashboard service and the list of Orders today as functions of the orders and a
date. **OrderBook** puts `create_draft` between them: `Turn` merges and may begin an
order, `FillForm` and `ReviewParse` are the two forms of New order, `BeginDraft` checks
and looks up the customer, `CreateOrder` writes the order, and before it the customer
where there was none, and `FailToCreate` ends the call with or without that customer.
Between lookup and writing anything may happen, which is where duplicates come from.
Lines of one product and note are one here, as the merge makes them; names are numbers,
so ties by name are ties by number; `Moves` jumps over the stages OrderLifecycle has.

Operators introduced as *Seeded fault* are not part of any specification. Each is a
plausible mistake in the action after it, and substituting it must break the property
named for it in `PROJECT.json`, which shows that the property depends on that line of
the code.

## 3. The runs

| Run | Asks | Bounds |
| --- | --- | --- |
| `tables` | does the lease table exclude, and implement LeaseLock? what do the conversation tables keep with arbitrary callers? | 3 holders, 2 customers, lease 2, clock to 4; 2 conversations, 1 message, 2 order ids |
| `pipeline` | is a conversation handled as if sequentially, although the parser outlasts leases and something fails? | 2 workers, 2 messages of one customer, 2 sessions, clock to 2, 1 failure |
| `pipeline_slow_writes` | what is left when any statement may outlast the lease? | the same, clock to 1 |
| `pipeline_liveness` | does the queue drain and does every call end? | 1 session, one message blank, 1 failure |
| `orders` | what survives stale requests and racing confirmations? is the customer told at most once, and is the row true? | 2 orders sharing a scarce product, 2 operators, 2 attempts, any number of failures |
| `sheets_sales` | what do write order, caches and repair guarantee without transactions? | 2 sessions, 2 orders, 2 products, one of them scarce, 1 fault |
| `order_book` | is the order what was said, for the right customer, and do the figures agree? | 1 conversation of 2 turns, 1 page, 4 snapshots, 3 products in 2 categories, 2 orders, 4 instants |
| `oversold`, `overtaking`, `lost_message`, `orphan_cut_off`, `half_booked` | what the documents say and the code does not keep (section 6) | as above; `half_booked` with one session |

Why these are enough to be interesting: the claim serialises by customer, so one
customer is where everything happens; two workers give every race of a holder and a
competitor, takeover included; two messages give a live one and a deferred one,
redelivery and a transcript that grows; two sessions give expiry and its successor; a
clock of two leases lets one expire and another be taken. One failure separates
every pair of writes. Two operators and two orders are the fewest that can compete for
a product, and a customer is told by at most two attempts. With two failures or three
messages the state space leaves the limit of the runs; the theorems of section 5 do
not have these bounds.

Two runs hold two state machines each, and explore their sum instead of their product
(`CONSTRAINT Scope`), as their checks are safety properties. In `tables` the lease table
and the conversation tables, which share no variable, each move while the other is as
it was in the beginning, and the conversation tables, which only store the clock, at
one moment. In `orders` only the first order has a phone, and its acknowledgement is
followed while the second is not placed: of the acknowledgement nothing reads another
order than its own.

On the sheet, two orders that want the one unit of a product, the first also another
product, give every interleaving of two confirmation loops and a failure between any
two writes of either; one fault is one write that fails, repeats or is reported lost,
or one script that dies (sessions that end between scripts are free). `Moves` is the
cancellation, the only move that competes with a confirmation. In the book, the
snapshots omit, repeat, reword and invent items; the phone is typed in two ways; the
instants are Sunday night, one hour later on Monday by local time, a Monday a week on,
and a Sunday four weeks after the first, so that days, both weeks and the 28 days of the
heatmap have an edge between orders. Two orders are the fewest that share a customer,
make a comparison, or lie on both sides of an edge.

`DrainLimit` is 1 in the runs (5 in the code) so that the limit is met with two
messages. `IdleThreshold` is 0 ticks, so that a session is idle one tick after its last
message; only in the liveness run, whose clock stops at 1, it is 1. `MaxDeliveries` and
`MaxFailures` bound what the environment does; `MaxTime` bounds the clock, and
`MayAbandon` keeps a dead holder's lease inside it, as otherwise the bound itself would
block a customer for ever. `MaxFaults` bounds what goes wrong on the sheet, `MaxTurns`
and `MaxOrders` the book. `CHECK_DEADLOCK FALSE` stands where deliveries or orders run
out and the system may rest. Symmetry is used for ids in the runs without liveness
properties.

### Time, leases and fencing

The lease is 60 seconds and single statements are short, so the property that two
workers never write for one customer (`OneWriterPerCustomer`) is stated under
`~SlowWrites`: only the parser outlasts a lease, and the renewal after it decides. The
code has no fencing of the statements after the renewal. With `SlowWrites`,
`OneWriterPerCustomer` and `OrderCoversTranscript` are violated within the bounds of
that run (both were tried); the run
`pipeline_slow_writes` shows what does not depend on timing.

### Fairness

`Fair` is weak fairness of the clock and of each worker's own steps: the operating
system schedules processes, a parser call returns in the end (an answer, or the HTTP
client's default timeout; the code puts no bound on when), time passes. Deliveries,
drains, faults and crashes are never fair. `SweptSpec` adds that somebody starts the
manual drain again and again. The functions for it are in `web/app.py`, but nothing in
the repository schedules them, so this is an assumption about operations; without it
(`FairSpec` in place of `SweptSpec`) `QueueDrains` is false, see section 6. Weak
fairness suffices since a worker waits for nobody: a busy claim is answered by
deferring.

## 4. Properties

*Claim*: `LeaseExclusion`, `OnlyTheHolderDisturbsALiveClaim`, `ImplementsLeaseLock`.
*Tables*: `OneOpenSession`; proved but in no run, since the
statements themselves enforce them: `OneOrderPerConversation`, `StatusMatchesLink`,
`LinkIsPermanent`.
*Pipeline*: `OneWriterPerCustomer`, `OrderCoversTranscript` (an order is made from all
turns there are), `ClosedIsFinal` (nothing happens to an expired session, and a
drafted one never expires), `OneRoutableSession`, `OrdersBelong`, `AckedIsKept`
(without failures, what was answered 200/202 is a turn or queued), `AckedIsAccounted`
and `RetiredWasRecorded` (with failures), `OrphanIsAdopted` (a
call that got through under its claim leaves no order that its conversation does not
know, whatever crashed before), `UsesStore`,
`UsesClaims` (the composition uses its parts by their own specifications),
`QueueDrains`, `CallsEnd`.
*Lifecycle*: `PreparedIsSold`, `ConfirmedOnce`, `StockCoversSales`.
*Acknowledgement*: `SoleSender`, `CallsAreLimited`, `OnlySoldIsAcknowledged`,
`ImplementsAtMostOnce`.
*Sheets*: `SoldIsBooked` (an order shown as sold has all its movements),
`StockCoversMovements` (stock is never lower than the movements explain; that it may
be too high is section 6), `DraftIsFound` (a page finds its draft with all its items,
from its cache too), `RetryIsNotRefused` (no repair tries to append what is there).
*Book*: `DraftIsWhatWasSaid` (a draft is everything that was read, each item as it was
read last, and an order is the last reading), `DuplicatesAreRaces` (an order has a
customer with its phone, and a phone never has more records than there are
conversations and pages to race; on Postgres, where a lookup sees every commit),
`FiguresAgree` (pulse and strip, trend and weeks, heatmap, breakdown and customer mix
count the same orders, in both modes; the list of Orders today is compared in runtime
mode, since it always is today's), `MoneyAddsUp`.
Each module has one type invariant; those of the pipeline, the lifecycle and the desk
also say that no local is used before it is assigned, and that stock is never negative.

## 5. Proofs

All theorems hold for any sets of customers, workers, messages, orders, desks, any
lease, stock and limits, assuming only the `ASSUME`s of the modules (`MaxTime`, a
model's horizon, is any natural number). Where a theorem has a hypothesis of its own it
is named below.

* **SumProofs.** Sums over finite sets, defined in the community modules by recursion in
  an order that `CHOOSE` leaves open. Facts about them need induction, and the
  library's induction theorems, which take an operator, cannot be instantiated here; so
  induction is done with sets: of the sizes at which a claim fails, if any, there is a
  least (`LeastExists`, from the well-foundedness of `<`), and it would be none. From
  that come: a sum does not depend on the order (`SumWithout`), what one element adds or
  changes (`SumAdded`, `SumChanges`), comparison (`SumAtMost`, `SumAtLeast`), splitting
  and adding (`SumSplit`, `SumPlus`), summing over an image (`SumOfImage`) and summing or
  counting by parts (`SumByParts`, `CountByParts`).
* **TableProofs**, claims: a belief may be stale, so exclusion is not inductive. The
  strengthening `BeliefIsTheRow` says that an unexpired belief *is* the row. With it:
  exclusion, the action property, and the refinement, where `Tick` maps to a drop of
  all customers whose lease ends. Conversations: the four table properties; each is
  inductive with the type invariant.
* **InboundPipelineProofs.** `StepMoves` summarises what any step does to a worker's
  locals, and gives the type invariant. `LostIsDisplaced` (a worker inside its
  `try` block that holds no belief was told so by `renew`, and the row is no longer its
  own) is what shows that every step on the claim table is a step of the protocol: `Spec
  => ClaimSpec` and `Spec => ConversationSpec` (`ClaimsAreUsedProperly`,
  `StoreIsUsedProperly`). So everything proved of the parts holds of the whole
  (`TablesKeepTheirPromises`). `OneWriter` adds `WritersAreLeased`: under `~SlowWrites`
  a writing worker has a live lease. `LedgerInv` follows the reply of a call and of its
  nested replay: a worker about to retire a row, or to answer 200 or 202, has a recorded
  or pending message. It gives `RetiredWasRecorded` and `AckedIsAccounted` under any
  number of failures.
* **InboundSessionProofs** is about what a call knows of its conversation. The first
  part does not depend on timing. `AdvanceInv`: nobody advances a message that another
  call advances or that has its turn, since the ledger lets one call through.
  `BelongInv`: past that point the message has its turn in the call's conversation, and
  the order the call goes on with is one of that conversation; this gives
  `OrdersBelong`. The second part assumes
  `~SlowWrites`, without which the code, having no fencing, does not keep these
  properties. `WritersOwn`: a call inside its claim owns the customer. Hence `ViewInv`:
  nobody changes the conversation under a call, and what it read of it - the open
  session, its turns, that there is no order - is still so when it writes. That gives
  `OneRoutableSession`, `ClosedIsFinal` and `OrderCoversTranscript`. `QuietInv` says
  where a message is that was taken on, at every stage of a call that did not fail, and
  gives `AckedIsKept`. `AdoptionInv` says what a call knows of the order of its
  conversation once it has looked for it (`Knows`): that there is
  none, or the one it is about to link, or that it is linked. It gives
  `OrphanIsAdopted`; that other workers leave all this alone is ownership again.
* **OrderProofs**, lifecycle: `PreparedIsSold` is not inductive, since stale requests
  write what they decided earlier. `LifecycleInv` adds what a request may still write
  (`Backed`: a status after the sale only for a sold order, never "confirmed") and that
  every confirmation in the log has its movements (`LogIsBacked`). `LogGrows` says what
  one step adds. `ConfirmedOnce` then follows: a sale needs free movement keys, and a
  logged sale has taken them. For `StockCoversSales`, `StockInv` adds the same of the
  stock a request has read and will compute from: lost deductions leave it too high,
  and sales made since can only lower what it must cover. Acknowledgement: each step of
  the composition is an order step or leaves the orders alone, so `LifecycleInv` is
  inherited. `AckEffects` reduces nine page steps to *nothing, open, send* or *mark*;
  `RowIsTrue`, `HolderKnows` and `SoleSender` together are inductive and give the limit,
  the single sender and the refinement of AtMostOnce; `ChecksLast` gives
  `OnlySoldIsAcknowledged`.
* **SheetsDeskProofs.** The type invariant already says that stock is never written
  below zero: `Ready` keeps with each script that what it deducts was checked against
  the very read it deducts from. `SoldIsBooked` is not inductive, as stale reads decide
  what is written. `DeskInv` adds what a cache may say (`OrdersSeen`, `MovementsSeen`:
  it may lack what others wrote, but not what was written of the session's own draft,
  and a status after the sale is true of the movements for ever), what a script has
  done so far (`Script`), and that two sessions never write one draft (`Apart`). The
  movements of an order say what it asks for (`MovementsMatch`), so the exact match
  that a repair looks for finds each of them. `Fine` is what each of the nine actions is
  shown to do, and `OthersKept` what that means for the sessions that stand still.
  `StockCoversMovements` needs all stock that may still be written: the sheet's, every
  cache's and every script's (`StockInv`). A product that is booked but not deducted
  covers its deduction already, since the movement, once or repeated, takes at least
  as much. It assumes finitely many orders, without which there is no sum.
* **DashboardProofs.** Facts about the dashboard's functions for any list of orders with
  whole hours and amounts (`Dated`, `Priced`), with no state machine. Each figure cuts
  the same orders into parts by a function of them: by status (`StripAddsUp`,
  `BreakdownAddsUp`), day (`PeriodByDays`, `TrendAddsUp`), week and hour (`WeekLater`,
  `HeatmapAddsUp`), product (`ItemsAddUp`), customer (`CustomersSpend`). A customer is
  new in one week, that of the first order (`NewOnce`, which needs `FirstIsLeast`). The
  pairs of products in an order are its ordered pairs, halved (`OrderedPairs`), and
  counting them by order or by pair is the same (`CountBothWays`, `PairsAddUp`). A list
  cut off at a limit that it does not reach is whole (`TopIsAll`).
* **OrderBookProofs.** `DraftIsWhatWasSaid` with the place of the last saying of each
  item in range is inductive (`BookInv`); the proof is about sequences that grow and the
  largest place at which an item occurs, and of the snapshots it needs their keys only.
  `DataInv` adds that phones are written down in canonical form, that a call has checked
  items and a customer with its phone, and `RacesInv`, which `DuplicatesAreRaces` needs:
  *records of a phone, and calls about to add one*, are together no more than the
  callers. A call that finds no record starts the count at nought, one that ends turns a
  call into a record. It rests on `Canonical` being idempotent, which
  `normalize_customer_phone` is for numbers with no blanks but spaces.
  `FiguresAgree` and `MoneyAddsUp` follow from DashboardProofs once every reachable list
  of orders is known to be one that those facts speak of: no order is dated after the
  clock (`PastInv`, without which orders could lie after the reference date, in no
  week), its total is the sum of its lines and its fee and its lines are finitely many
  (`IsPriced`), its customer is a record. They assume a finite catalogue, forms with
  finitely many lines, fees in whole units, and no hour before day 0, a Monday, from
  which weeks are counted.

*Checked by TLC only:* the liveness properties `QueueDrains` and `CallsEnd`, since
fairness and ENABLED are beyond the prover. Every other property of a passing run is a
theorem. What the recursive functions of the library compute is used only as far as
SumProofs goes; nothing is proved by induction over other data.

## 6. What the documents say and the code does not do

| Run | Document | Behaviour |
| --- | --- | --- |
| `overtaking` | `docs/M9_6D…:410` no message is processed ahead of a pending row | the ahead-of-queue check is not in the code; a live message overtakes |
| `lost_message` | `docs/M9_6D…:69`, `:154`, `CHANGELOG.md:231` never lost, failures always retried | the ledger row is written first, so a failure before the turn makes every retry a duplicate |
| `oversold` | `DECISIONS.md:1192` strict stock check at confirmation | two confirmations read the same stock and one deduction is lost |
| `orphan_cut_off` | `docs/M9_4E…:70` no draft without its session reflecting it; `DECISIONS.md:394` after a crash between the two writes the conversation remains open | an idle session is expired without a look for its order, which stays unlinked for ever (`OrphanIsReachable`) |
| `half_booked` | `DECISIONS.md:1186`, `:1188` failures are safely retryable, retries idempotent | on Sheets a retry takes the movement of the failed attempt for the whole sale of the product, and confirms without ever deducting it (`SoldIsDeducted`). Without the failure one session keeps it (`MaxFaults = 0` passes); with two, overwritten stock alone breaks it |

One more of this kind has no run of its own; changing the run named shows it.

* `CHANGELOG.md:189` closes the gap of messages "accepted as deferred but never
  retried". A row that is inserted after the holder has listed the queue, or beyond
  `AUTO_DRAIN_LIMIT`, waits for the next trigger: with `FairSpec` for `SweptSpec`, the
  run `pipeline_liveness` violates `QueueDrains`.

Seen while modelling, with no property against it:

* A stale `transition_order_status` may revive a cancelled or delivered order, or put a
  sold order back to approved, where confirming it fails for good (`docs/M8_2…` defers
  locking to a later version); an order may leave "confirmed" between the
  acknowledgement's check and the Twilio call; a replayed older message moves
  `last_message_at` backwards.
* On Sheets, two sessions overwrite each other's stock and statuses with what they had
  read up to 30 seconds before; a lost answer of the append of item rows doubles the
  order.
* In a conversation, an item that the customer takes back, that the parser words
  differently, or that the catalogue does not have stays as a conflict or unknown item:
  no later turn makes the conversation an order. A product withdrawn from sale makes
  `create_draft` raise, which the pipeline has as a failing statement.
* "+57…" and the number as typed at the desk are two customers, as
  `normalize_customer_phone` drops spaces and dashes only.
* The list of Orders today is empty of unfinished orders of the evening before; best
  customers and products count cancelled orders, revenue does not. The dashboard's
  time zone is a constant, the list's a setting: they agree as configured. In demo mode
  the dashboard is dated by the latest order and the list still by today
  (`pages/2_Orders_Today.py:282`): they show different days, and no document says that
  they should not.

## 7. Not modelled

* *Other read models* (`storage/conversation_observation.py`,
  `services/tenant_scoped_reads.py`, `customer_context.py`, `diagnostic_reads.py`):
  filters by tenant and projections of rows whose writers are modelled. They decide
  nothing.
* *Other pages, layout, start-up* (`pages/6_Conversations.py`, `ui/`): wording and
  widgets around modelled services.
* *Parsing*: prompts and decoding. The parser is a free choice of snapshot, or of no
  answer.
* *Sheets beyond orders*: the parse log, which nothing reads; bulk operations of the
  seeding scripts, which run alone; the customers tab, whose lookup and creation are
  OrderBook's.
* *Memory storage*: the confirmation loop of SheetsDesk in one process, without its
  failures.
* *Configuration, demo data, scripts, migrations*: no running state; the unique indexes
  are in the models of the tables. Catalogue edits and their races with orders: one
  statement each.
* `mark_processing_started` writes two columns nobody reads. Form values that pydantic
  refuses (the page offers fulfillment and payment options the model does not have) end
  a script before it changes anything.
* Of the Sheets cache: orders and their items are two entries with times of their own,
  so that another session may see an order with fewer items than it has; they are one
  entry here. An exception before the invalidation keeps the cache; a failed `Call`
  always drops it. No property is about either.
* `_recover_orphan_draft` answers for an open session that already has an order
  (`conversation_advancement.py:203-210`), which no statement leaves behind. The
  dashboard skips customers it has not read (`dashboard.py:521`), which `TopCustomers`
  takes as an argument; on Postgres it has read them all. `ProductPairs` breaks ties by
  pair, the code by the joined ids.
* Scalar fields of a draft other than phone and packaging fee are merged alike and are
  left out, as are percentages and labels of figures.

## 8. Plan

Order of work; all of it is done.

1. CustomerClaim with LeaseLock, runs and proofs.
2. ConversationStore, run and proofs.
3. InboundPipeline over both: safety, slow writes, liveness, the documents' claims.
4. Its proofs: use of the parts, one writer, the ledger.
5. OrderLifecycle: run and proofs.
6. OutboundAck with AtMostOnce: run and proofs.
7. SheetsStore and SheetsDesk: run, type theorem, and the safety theorems from
   `DeskInv`.
8. DraftMerge, Dashboard and OrderBook: run, and the theorem about the draft.
9. Proofs of `OrdersBelong`, `ClosedIsFinal`, `OneRoutableSession`,
   `OrderCoversTranscript` and `AckedIsKept` from `WritersAreLeased` and what each stage
   knows of its session, and of `OrphanIsAdopted`.
10. Sums and counts: `StockCoversSales`, `StockCoversMovements`, `DuplicatesAreRaces`.
11. `FiguresAgree` and `MoneyAddsUp`, from `SumByParts` and `CountByParts`.
