# product-db: specifications, model checking and proofs

product-db is a FastAPI back end over one SQLite database, with a Vue front end: a
catalogue of IoT products, solutions (bills of material) and quotations made from them, AI
assistants, and accounts. This directory holds TLA+ modules of the parts whose behaviour
depends on the order of events, the TLC configurations that check them on small
instances, and proofs, checked by TLAPS, of what holds for every instance. Paths below
are relative to `src/backend/app/` unless they say otherwise.

| module | models | extends / instantiates |
|---|---|---|
| `Approval` | the approval queue of agent tool calls | refines `ApprovalContract` |
| `ApprovalContract` | what the queue promises per task | |
| `ApprovalProofs` | theorems about `Approval` | `Approval` |
| `Quotation` | creating quotations, and what races with it | refines `QuotationContract` |
| `QuotationContract` | what a creation promises, seen from the committed database | |
| `QuotationProofs`, `Extremes` | theorems about `Quotation`; bounded sets of numbers have a smallest and a largest, which `Min` and `Max` are | `Quotation` |
| `QuotationEdit` | the lines of a quotation, its BOM page and its total | |
| `SolutionTotals` | items of a solution and its stored total | |
| `TotalsProofs` | theorems about both totals | `MCTotals`, `Extremes` |
| `Bom` | the BOM snapshot of a solution, templates, hidden costs | |
| `AuthSession` | login, logout, passwords and tokens of one account | |
| `AuthSessionProofs` | theorems about `AuthSession` | `AuthSession` |
| `RateLimit` | limits on logins and registrations | |
| `TtlCache` | cached permissions and the assistant's cached catalog | |
| `AgentStream` | a stream of the agent, stop marks and its usage row | |
| `Catalog` | categories, dictionaries, products, import | |
| `FileStore` | uploaded files and the rows that name them | |
| `AiChat` | turns of the product assistant and the replayed history | |
| `Schema` | foreign keys and the migrations that enforce them | |
| `AccessProofs` | theorems about caches, streams and limits | `MCAccess`, `AuthSessionProofs` |
| `StorageProofs` | theorems about files, foreign keys and conversations | `MCData`, `CatalogBomProofs`, `Extremes` |
| `CatalogBomProofs` | theorems about the catalog and the BOM | `Catalog`, `Bom`, `Extremes` |
| `MCApproval`, `MCQuotation`, `MCAuthSession`, `MCSolutionTotals` | instances for TLC | the module of that name |
| `MCTotals` | instance | extends `SolutionTotals`, `QuotationEdit` |
| `MCAccess` | instance | extends `AuthSession`, `TtlCache`, `AgentStream`, `RateLimit` |
| `MCData` | instance | extends `Schema`, `FileStore`, `Catalog`, `Bom`, `AiChat` |

## 1. How the program runs

Two kinds of concurrency matter, and the modules use a different grain for each.

*One event loop* (`services/approval_manager.py`, the `async def` handlers of
`routers/agent.py` and `routers/ai.py`, the reaper of `main.py`). Code between two `await`s is
atomic. A step of `Approval`, of `AgentStream` and of a turn of `AiChat` is such a stretch. A
streaming response is cancelled at an `await` of its generator (`CancelledError`) or
closed between two of its events (`GeneratorExit`); the two are logged differently.

*Threads over one SQLite database* (every other handler, `def` handlers run in a thread
pool with a session of their own from `database.get_db`). What the modules assume about
a session, all of it visible in `database.py` and the defaults of SQLAlchemy and `sqlite3`:

- sessions do not autoflush, and a SELECT before the first INSERT, UPDATE or DELETE of a
  session reads what is committed at that moment;
- the first write takes the database's only write lock and keeps it until commit or
  rollback; others wait for `sqlite3`'s busy timeout and then fail ("database is locked");
- a commit expires the loaded objects, so the next attribute access reads afresh;
- an UPDATE writes the changed columns only, with the literal values computed in Python,
  and is not sent for a value equal to the one loaded;
- foreign keys are enforced (`PRAGMA foreign_keys=ON`), and a new row gets the largest
  row id in use plus one, so ids are reused;
- an UPDATE of a row that is gone raises, a DELETE of one only warns; after a failed flush
  the session accepts nothing before a rollback;
- `get_db` closes the session when the request ends, which rolls back and releases the lock.

## 2. Inventory

**Approvals of agent tool calls** (`services/approval_manager.py`, `routers/agent.py`).
State: the dictionary of `ApprovalTask`s (result, detached, wake, created_at), the stream
that waits on each. Operations: create, wait, decide, list, evict, the reaper. Talks to
the chat stream (callback through an `asyncio.Event`) and to people (HTTP). Hard: a
timer, a decision, a disconnect and an eviction race for one task; a decision may come
before the wait; the process may restart. Correct when a stream acts on exactly what a
person was told was recorded, and no task stays for ever. *Modelled.*

**Quotations** (`services/quotation_service.py`, `routers/quotations.py`). State:
`quotations`, `quotation_items`, `solution_items`. Creation reads the solution, merges missing
products into it, takes the day's next number, inserts. The lines are then edited one by
one, in two commits (line, total), or all at once by the BOM page. Hard: number and items are read
without a lock; everything it read may be deleted before it writes; edits overlap; a page
is old when it is sent. Correct when a creation is all or nothing, numbers are unique, references intact, a
product is merged once, the total is what the lines add up to, and hidden costs survive. *Modelled, except
list, notes, preview, export and the download counter, which change none of that.*

**Solutions and their totals** (`routers/solutions.py`). State: `solution_items`,
`total_price`, `total_cost`. Every item handler commits the item, then recalculates and
commits the totals. Hard: the gap between the commits; lost updates; writers that do not
recalculate. Correct when the totals are the sum of the lines. *Items modelled*; reorder, suggest
and the dependency check are not.

**BOM snapshots and templates** (`routers/bom_templates.py`). State: one snapshot per
solution (cells; column J holds costs), templates. Reading generates and stores a snapshot when
there is none; saving replaces it, keeps the costs of users who cannot see them, and
writes quantities, prices and discounts back to the items, in two transactions. Hard: concurrent
first reads, failure between the transactions, costs taken from a stale snapshot. *Modelled.*

**Sessions, passwords, accounts** (`auth.py`, `routers/auth_routes.py`, `routers/admin_routes.py`).
State: `users` (password_hash, token_version, is_active), issued tokens. Hard: bcrypt
makes the gap between read and write long; `token_version + 1` is a literal. Correct when a
logout or password change kills every token issued so far, for good. *Modelled*, registration
with the rate limits; not modelled: accounts created or deleted by an administrator, `DEV_MODE`.

**Rate limits** (`services/rate_limit.py`, `routers/system_settings.py`): failures counted in
`login_logs`, registrations in memory under a lock, with a time taken before the lock. Hard: check and record are
apart for logins; a restart forgets one of the two. Correct when no window admits more than the limit and the
requests under way, and refusals do not feed themselves. *Modelled.*

**Caches** (`services/field_visibility.py`, `auth._get_admin_ids`, `ai._build_db_context`): answers
kept for 30 s or 300 s. Hard: a reader installs an old answer after an invalidation, or under the
stamp of another. Correct when what is served is bounded in age. *Modelled.*

**Products, categories, dictionaries, suppliers, import** (`routers/products.py`,
`categories.py`, `dictionaries.py`, `suppliers.py`, `product_import.py`). Hard: checks (cycle,
fallback, references, doubles) and commits are apart; foreign keys have the last word. Correct when every category
and product can be found, and deletions and imports do what they say. *Modelled; search, statistics,
comparison and scalar columns are not.*

**Product files and storage** (`routers/product_files.py`, `services/storage.py`, the sweep
in `routers/agent.py`): files on disk against rows. Hard: crashes and the sweep
between the two. Correct when a row's file exists and the sweep takes only what no row names. *Modelled.*

**Agent stream** (`routers/agent.py`, `AgentView.vue`): stop marks, usage log. Hard: a cancelled stream
does not say why. Correct when a stop is booked as a stop and a lost connection as lost. *Modelled;
the translation of Hermes' events is formatting.*

**AI chat** (`routers/ai.py`): conversations and messages, replayed to the model. Hard: the
browser leaves at any event; rows are flushed long before they are committed, with the writer lock held across
an `await`; every fallback writes differently. Correct when the replayed history is one a provider accepts and every turn has
its reply. *Modelled; prompts, scoring and the tools' queries are data.*

**Migrations and foreign keys** (`alembic/versions/`): orphans from the time before
enforcement, two histories of the schema. Correct when what is enforced is satisfied and
clean-up spares what documents must keep. *References modelled; columns, indexes and seeds are not.*

**AI tools and extraction** (`services/ai_*.py`), **specification texts and
spreadsheets** (`services/spec_*.py`, `utils/excel_style.py`), **start-up, settings, schemas**, **import scripts and
reports** (`import_milesight_*.py`, `deploy/hermes/`), **front end and deployment**. *Not
modelled*, section 7.

`PROJECT.json` lists the same components, every hazard at its line and the property
that covers it, or why none does yet.

## 3. The modules

### Approval

| variable | in the code |
|---|---|
| `tasks[t]` | the `ApprovalTask`; `place` says whether `_tasks` holds it, `age` is `time.time() - created_at`, `waited` the time in `wait_for` |
| `stream[t]` | how far `_stream_approval` (`agent.py` 656-680) has got |
| `delivered[t]` | what `wait_for_decision` returned |
| `acked[t]` | the last decision answered `{"ok": True}` |
| `sinceReap` | time `reaper_loop` has slept |

`ChatApproval` and `TestApproval` create, `WaitNotFound`, `WaitDecided` and `WaitBegin` are the
three ways `wait_for_decision` starts, `Wake`, `TimeOut` and `Cancel` the three ways it ends,
`Drop` a client that leaves before the wait, `Decide` the handler with `decide()` in it,
`ReaperPass` and the eviction inside `Create` the two callers of `evict_stale`, `Restart` the
process. `TimeOut` may win over a decision whose wake-up is pending, as `asyncio.wait_for` allows. Time
is kept as ages that saturate just past the largest value the code compares them with, so
no behaviour is cut off.

`ApprovalContract` has two variables, the last answer and the outcome of each task; the
mapping reads a detached task as abandoned and a timed-out or evicted one as lapsed. It
allows an answer after a lapse, because the code gives one (section 5).

Not kept: tool names, summaries, Hermes' reply.

### Quotation

| variable | in the code |
|---|---|
| `catalog`, `alive`, `rows` | `products`, the solution, its `solution_items` (product and who added it) |
| `book[r]` | the quotation request `r` created: number, whether it still has its solution, lines |
| `req[r]` | the handler's locals: what it read, added, numbered, and its answer |
| `lock` | which session holds the write lock between two steps |

A request goes `Post`, `Resolve` (`resolve_items`, unlocked reads), `Merge` (insert and flush the
missing items: takes the lock), `TakeNumber`, `Insert` (quotation, lines, commit). `Busy` is the
busy timeout. `Refuse` is every way to fail, with the status the client gets. `AddItem`,
`DeleteItem`, `DeleteSolution`, `DeleteQuotation` and `DeleteProduct` are the other handlers, each
one commit for what is kept here; the totals they also write are the subject of
`SolutionTotals`. `Restart` kills open requests, SQLite rolls back.

`QuotationContract` sees committed data only: a request issues its quotation together with
the products it adds and a number nobody has, or leaves no trace.

Not kept: quantities, prices, snapshots of products, lines edited later, the change of day in
the number (numbers of another day never collide).

### SolutionTotals

`items` maps row ids to amounts (quantity times price times discount), `total` is
`total_price` (`total_cost` is computed and written by the same statements), `req[r]` holds a
handler's locals, `sums` the history of what the items added up to. A request goes `Check`,
`Change` (first commit), `Refresh` (reload after the commit), `AddUp` (the SELECT of
`_recalc_totals`), `Store` (second commit; no UPDATE is sent when the value did not change).
`SyncSnapshot` and `MergeExtra` are the writers that leave the totals alone. `Restart` may
fall between the commits. The `alone` flag of a request says that nothing else touched the
solution while it ran; it is history, no guard reads it.

### AuthSession

`version`, `password`, `active` are columns of one account; `tokens` is every token issued;
`req[r]` is what a handler read. `Read` is the moment of authentication, `Revoke` the commit
of a logout or password change with the literal `version + 1`, `LoginCommit` and `Issue` the end of
a login: the commit expires the row, so the token carries the version of that moment.
A login with an old hash writes the upgraded hash whatever happened since.

`Spec` is the code. `SerialSpec` restricts it to behaviours in which no two revocations of the account
overlap (logins overlap with anything). It states under which condition the promises of
`auth.py` hold; `auth_lost` shows that the condition is needed.

### QuotationEdit

`lines`, `totalAmount` and `exists` are one quotation; `may` says whether its users see costs; `page` is what
the BOM page last showed, however old; `edit[r]` a handler's locals. A line handler goes
`AddItem`/`UpdateItem`/`DeleteItem` (checks), `ChangeLine` (first commit), `Reload`, `AddLines`, `StoreTotal` (second
commit). `OpenBom`, `SaveBom` and `StoreBom` are the page: the old lines are read in display order (a line that n others come before is the (n+1)-th, `Place`), each row takes the cost of
the first old line of its SKU or else of the line in its place (`Match`), all lines are replaced in one
transaction. `alone` is history, as in `SolutionTotals`. Not kept: names, remarks and
images of a line; amounts are not split into quantity, price and discount.

### Bom

`snap` is the row of `solution_bom_snapshots`, a sheet of lines and costs; `template`, `items`, `cost` the tables it is made from;
`view[b]` the sheet a page shows. A first read goes `Open`, `Generate`, `Insert` (two of them can get that far; the
unique key refuses one, which then reads the other's), `GetAnswer`; a save goes `Save`, `Store` (first commit), `Sync` (the items are read), `CommitItems` (second commit: an UPDATE of the
items whose quantity differs from what was read, which fails if one of them has gone), `PutAnswer`.
`req[b]` is what a page's request has read: the snapshot or generated sheet it builds on (`base`), whether it is the first, whether its
user sees costs. `quiet` (history) says that no other request has written since it looked.
`KeepServerCost` is the rule for column J. The items at the start are any of the same quantity (which product stands in which row is what matters). A template is created or changed with an empty sheet or one that an
administrator sees (`ClientSheets`). Deleting a template cascades to the snapshots made from it.
Not kept: headers, styles, the total row, prices and discounts (written like quantities).

### Catalog

`parent` and `active` are the categories, `product` the products with their own category and their rows of
`product_categories`, `makers` any entry that `assert_dict_not_referenced` guards, `specs` how often one key is
defined per category. Each handler is a check (`CheckParent`, `LookForFallback`, `CheckUnused`, `CheckProduct`,
`ReadSheet`, ...) and a commit; `quiet` (history) says that nothing else was committed in between. A traversal of the tree (`get_category_descendants`, the
recursion of `category_tree`) is the least set that contains its start and the children of what it contains (`Reach`);
categories form a forest when no set of them is a ring, each hanging from another of the set (`Acyclic`). `Carries` types what a request found out
and takes to its commit. An update of a product sends some fields (`Changes`) and its commit writes those that differ from what was read, so others' writes to the
rest survive. An import looks up the makers of its rows with the rows and inserts those it did not find: it fails when one it found has gone, or one it did not find has come.
Not kept: slugs, scalar columns, prices; renaming a specification key, which takes the two steps of creating one.

### FileStore

`disk[f]` is a file's life (unused, fresh, old after seven days, removed), `row[p]` what the rows of a product name,
`pinned` the products that `RESTRICT` holds. Saving or deleting a product removes files first (`SaveImages`, `DeleteProduct`) and
commits later, documents are written first (`UploadDoc`); `Collect` and `Sweep` are the two halves of the clean-up. `Age` lets seven days
pass only while no request runs. `Restart` falls between any two halves.

### AiChat

`convs` holds conversations and their committed messages, `turn[t]` a request: its place, what it flushed (`own`), which calls are
open; `lock` the session that has flushed. `BeginTurn` and `Post` are the handler up to the stream: the conversation is there or created, its history is
read and the message stored, unless the conversation was deleted in between (500). The handler does not await, so only a worker thread's deletion falls
between the two (`OnLoop`). `Refused` is a request that makes the loop wait for its own lock, `NeverStarted` a browser that left before the response asked
the generator for anything: its `finally` clause never runs. `Extract` round 0 with its three outcomes (`Searched`, `Grouped`, `MockAgent`), `Chat`, `CallTools`, `RunTool`, `Final` the agent's rounds, `Finish` a stream
that ended, `Interrupt` and `Close` the `finally` clause of one that did not. `Replayed` is
`get_messages_for_context`. The mock agent types before it saves, everything else saves before it types; `saved` is
false where the code leaves a turn without a reply by its own failure paths. Not kept: text, results of tools.

### RateLimit, TtlCache, AgentStream

`RateLimit`: `log` is `login_logs`, `hits` the table of `rate_limit.py`; a login counts, verifies, records; a registration takes its time,
then the lock (`CheckAndHit`), then is refused for a short name or password, the hit staying (`TooShort`), or looks its name up and inserts. `admitted` and `refused` are history: who was let through since the last start,
and the last refusal. An entry of `hits` is the number of its admission, so that two times in one list may be equal.

`TtlCache`: one module for three caches of the same shape, told apart by `kind`: which comparison is made, whether data and stamp are written in one
statement, whether an update resets the stamp, whether readers interleave. The content is the version of the rows it was read from; `lastAt` says when
a version was last current.

`AgentStream`: `flow[s]` is the server's stream, `tab[s]` its browser, `marks` is `_stop_marks`. `Cancelled` and `Closed` are the
two ways a stream dies, `Log` the usage row, which may be lost. A user is an attribute of
the stream, since the mark carries one: `StopOther` is a user who posts the id of another's stream, which overwrites the mark and
takes its stop from it.

### Schema

A foreign key is a record (table, column, target, rule, nullable), the rule `CASCADE`, `SET_NULL`, `NO_ACTION`, or none where there is no key; `Models` is what the models declare, `Live` and `Explicit` the two
histories. A table holds one row or none, a reference of that row is set or not; this is enough for a reference to dangle, to be
cleared and to forbid a deletion. It is not enough for a table that refers to itself (`parent_id`): the one row could only refer to itself, so `Known` leaves these keys out.
Before enforcement a row of any table that is referred to may vanish. `Converge`, `PurgeOrphans` and `Enforce` are the last three migrations, `LegacyDelete` a deletion before
enforcement, `Delete` one after it with its cascade: the tables from which a path of cascading references leads to the deleted row (`Cascade`). `Enforce` ends in `failed` where the code raises.

### One behaviour, one part

`MCTotals`, `MCAccess` and `MCData` compose modules whose components share no state: `part` is chosen in the initial state and
names the component that moves, the others rest in one initial state. The states
are the sum and not the product of the parts', and one run asks each question once. Coverage reports of these runs show the
actions `OnlyBom`, `OnlyCatalog`, ...; the disjuncts of the parts lie beneath them.

## 4. Runs

| run | bounds | shows |
|---|---|---|
| `approval` | 2 tasks, 2 users (1 administrator), timeout 2, reaper 1, fairness | a stream acts on the last acknowledged decision (`DeliveredIsLastAcked`); the pending list is truthful (`PendingIsUnanswered`); the contract (`KeepsContract`); every wait ends (`WaitEnds`), every task leaves the queue (`QueueDrains`) |
| `quotation` | 2 products, 2 creations, row ids to 2, fairness | references (`NoDanglingReference`), `MergerNeverCollides`, all or nothing and unique numbers (`KeepsContract`), the lock comes free (`LockIsReleased`) |
| `totals` | 2 requests, amounts 1 and 3; solution: row ids to 2; quotation: 3 lines, 2 SKUs, 2 costs | `TotalWasTrueOnce`, `LoneOperationSettlesTotal`, `LoneEditSettlesTotal`, `HiddenBomKeepsCosts` |
| `access`, sessions | 4 requests, 2 passwords, revocations one at a time | `FreshTokenAccepted`, `RevokesAllIssued`, `RevokedStaysRevoked` |
| `access`, caches | 2 readers, lifetime 2, patience 1, 1 update, instants to 8 | `ServedIsRecent` |
| `access`, limits | 2 threads, 1 address, limit 1, window 2, instants to 3 | `AttemptsBounded`, `RefusalIsEarned` |
| `access`, streams | 2 streams, 2 users, marks live 1, instants to 3 | `StopIsBooked` |
| `data`, BOM | 2 pages, 2 products, 2 rows, 2 templates, 2 saves or changes | `HiddenSaveKeepsCosts`, `FirstReadersAgree`, `LoneSaveAlignsItems` |
| `data`, catalog | 2 handlers, 3 categories, 3 products, 2 requests | `ForestShowsAll`, `LoneMoveKeepsForest`, `LoneDeleteSucceeds`, `LoneImportAddsNoDouble` |
| `data`, files | 2 handlers, 1 image, 1 document, 1 product | `NewDocHasFile`, `LoneSweepIsExact` |
| `data`, chat | 2 turns, 2 calls a message, window of 4 messages, 1 conversation id | `UntornReplayIsValid`, `CutTurnIsAnswered` |
| `data`, schema | 16 tables, 3 deletions | `EnforcedIsSound`, `AuditSurvives` |
| `approval_finding`, `quotation_collision`, `quotation_merge`, `totals_stale`, `auth_lost`, `kept_image`, `replay` | smallest that show it | disagreements, section 5 |

Why the bounds are enough. *approval*: tasks share only the clock and the reaper, so two tasks show
every interference; with timeout 2 and reaper 1, a decision falls before, at and after the
timeout, and eviction (after 4 ticks) falls before, during and after a wait. *quotation*: races are
between two requests, or a request and a deletion; two products let one be merged while
the other is present or deleted; `AddItem` stops at row id 2 (`MaxRow`), merges may go beyond.
*totals*: two requests give every overlap of the four steps; amounts 1 and 3 have distinct
sums, so a wrong sum is seen; `MaxItem` caps row ids. *sessions*: four requests are what the
shortest violation of the unrestricted `Spec` takes (two logouts, a login, a password change), so
the same instance shows that `SerialSpec` is free of it; two passwords tell old from new. One account suffices because handlers never relate two.

*quotation lines*: three ids leave room for a
line more than the page has, and two SKUs let a row be matched by SKU, by position or not at all.
*caches*: with patience 1 two readers overlap in every order of their steps, and eight instants hold a whole lifetime after the last
update. *limits*: two threads pass one check together; addresses share nothing but the size of a table no answer depends on.
*streams*: a mark expires after one instant, so it is young, old or taken when the stream ends; a second stream prunes. *BOM*: two pages give every overlap of first reads and
saves; two rows let a deleted item shift the others. *catalog*: three categories are the least with a chain
and a fallback; two requests race, their number is capped by `MaxMoves`. *files*: files interact only through one product's rows.
*chat*: a window of four cuts a turn with two calls in every place, and two turns share the conversation or its reused
id. *schema*: the sixteen tables have references of every rule, chains of two cascades, the two logs whose column the upgrade makes nullable and a parent whose
orphans no clean-up covers (`suppliers`), and three deletions fall before, between and after the migrations in every order.

Deadlock is checked in `approval` and `quotation`, where something can always happen (`Restart`, `Tick`), so
that the check says little; the other instances stop where their bounded number of
requests or instants is used up, and do not check it. Progress is what the liveness properties are for.

Fairness. `approval` assumes that the clock advances, that the reaper runs when its sleep is over, and that
a woken or expired waiter runs: this is the event loop's scheduling. Nobody is assumed to
decide or to stay connected. `quotation` assumes that a request's thread is scheduled and that
waiting for the lock ends at the busy timeout (`Serve` is always enabled for a request that has
been posted and not answered). Nothing is assumed of clients.

Each property of a passing run has a mutant: a plausible mistake in one mapped definition
(operators commented as a mutation, a mutant or a slip in the modules) under which TLC finds the property violated.

## 5. Disagreements between the code and its own text

1. `approval_finding`. A wait that timed out leaves its task in the queue, not detached; until it is
   evicted, a decision on it is answered ok although its stream is over. The comments
   at `approval_manager.py:37` and `agent.py:281` say that such a decision is refused.
2. `quotation_collision`. `except IntegrityError` in `quotations.py:135` names a class the
   module does not import; a collision of numbers ends in a `NameError` and a 500, not the 409 the
   comment describes.
3. `quotation_merge`. `resolve_items` looks for products in the solution before anything is
   locked; a product added meanwhile is added again, which the docstring excludes.
4. `totals_stale`. Saving a BOM and confirming a quotation with extra products change the lines and leave
   the totals; the export then prints a total in words that contradicts the column's sum.
5. `auth_lost`. Overlapping revocations of one account can take the version back, and a
   revoked token is accepted again.
6. `kept_image`. `rewrite_mappings` unlinks the files of all stored images before it writes those of
   the request, which the edit form always sends: a product saved with the images it has loses their files and
   keeps their rows.
7. `replay`. The placeholder of a stream that is cut off between two tool calls is committed together with
   the message that made both and the answer of one. `get_messages_for_context` drops the message, since a call is open, but not
   the answer, and the next request has a tool message without its call, which the docstring excludes.
   `UntornReplayIsValid`, checked in `data` and proved for every instance, shows that this is the only way: cut windows, overlapping turns and deleted
   conversations do no harm.

Without a run of their own, stated in the modules where a property can express them: two moves of categories that overlap close a cycle which the tree does not show, against the
comment in `category_tree` (`TreeShowsAll` of `Catalog`; `ForestShowsAll` is what remains); `created_by` columns added by `d4e5f6a7b8c9` never get the
foreign keys of the models, so the two histories end differently (`HeadMatchesModels` of
`Schema`); a stream of the agent that is closed between two events is logged as a success (`Closed` of
`AgentStream`), against a test; a turn interrupted while its saved answer is typed gets a second reply (`TurnIsPaired` of `AiChat`), against the comment that the placeholder
keeps user and assistant paired, and a turn whose generator never started gets none (`NeverStarted`): the comment at `ai.py:909` counts on the `finally` clause for a message
stored before the generator starts.

Two more behaviours are in the models without a property against them, as no text of the
repository excludes them: a client that leaves during the announcement leaves a task that is
still offered (`Drop`), and the upgrade of a SHA256 hash can overwrite a reset
password (`LoginCommit`).

## 6. Proofs

All theorems hold for every value of the constants that satisfies the modules' named
assumptions, which the TLC runs evaluate: `ApprovalAssumption`, `AuthAssumption`, `QuotationAssumption`,
`TotalsAssumption` in their modules; `CacheAssumption`, `StreamAssumption` and `RateAssumption` in `MCAccess`; `EditAssumption` in `MCTotals`; `StoreAssumption`, `SchemaAssumption`,
`CatalogAssumption`, `BomAssumption` and `ChatAssumption` in `MCData`, which extend the modules. They say that timeouts, amounts, costs, quantities and the window of the replay are numbers,
that `None`, `Null` and `Nothing` are distinct from what they stand beside, that there are finitely many products (`quotation`),
threads (`limits`) and tables (`schema`), that a limit, a lifetime and the numbers of rows are not 0 (of categories and of lines of a quotation, 2 at least), that there is a name, a cost and a quantity, and that images and documents have different
names. The bounds that TLC needs (`Horizon`, `LastInstant`, `LastMoment`, `MaxRow`, `MaxItem`, `MaxLine`, `MaxTemplate`, `Saves`, `Requests`) are constants of the theorems as well: any number will do.

`ApprovalProofs`: `TypeCorrect`, `DeliveredCorrect`, `PendingCorrect`, `ContractKept`. The
properties are not inductive: what is delivered equals what was acknowledged only because
the result recorded in the task does, and because a task somebody took a verdict from cannot be decided
again. `IInv` is, for each task,
the conjunction of `Fresh` (a task that does not exist yet is blank), `ResultIsAck` (the recorded
result is the last acknowledged decision, unless the wait expired), `Open` (a stream
without a verdict has delivered nothing and its task is not detached), `Woken` (a waiter whose event is set
has a result to take) and `Verdict` (what was delivered agrees with the task: a decision is the
acknowledged one and its task has left the queue). Each action keeps it, one lemma per group of
actions, `Untouched` for the other tasks. `ContractKept` maps each
action to a step of `ApprovalContract` or to a stutter.

`AuthSessionProofs`: `TypeCorrect`, `FreshTokenCorrect`, `RevocationCorrect`, `RevokedForGood`, all
of `SerialSpec`. The invariant adds that no token is ahead of the column, that the pending revocation still
holds the column's value and is alone, and that who writes a password has one. Then every step
either leaves the version and issues only current tokens (`Quiet`) or adds exactly one
to it (`Revokes`), from which the action properties follow.

`QuotationProofs`: `TypeCorrect`, `ReferencesHold`, `MergersDoNotCollide`, `ContractKept`. `NoDanglingReference` and
`MergerNeverCollides` are part of `IInv`; what makes them inductive is `HoldsLock` (who has added rows holds the write lock until
it commits or fails, so the number it read under the lock is still above all others), `Prepared` (what was added
is among what will be inserted), `Answers` (an unanswered request has no quotation) and `Bounds` (row ids and numbers have a largest, which
`Extremes` supplies by well-founded induction). Deletions are the long part: each takes the references to what it deletes with it
(`Unlinked`), as the foreign keys do. `ContractKept` maps each step to one of `QuotationContract` or to a stutter.

`TotalsProofs`, solutions: `TotalTypesAlways`, `TotalCorrect`, `LoneOperationCorrect`. Every
number a request carries was a true sum once (`Shape`, `SumsAreNoted`), and whoever is still alone has a sum that is true now (`AloneIsRight`).
A sum is a fold, which the prover knows as a function chosen to satisfy an equation: that there is one, and that its values are natural numbers, is shown by the
smallest part of the rows for which it would fail (`SumsExist`, `SumsAreNatural`, `FoldIsNatural`), in place of an induction over the rows.
*Quotations*: `EditTypesAlways`, `LoneEditSettlesTotalAlways`, `HiddenBomKeepsCostsAlways`. The same again (`AloneSeesAll`): who is alone has read a total and lines that are still so
(`Present`), and what it will write fits (`Sound`). Nobody else's step gets further meanwhile (`LoneMoves`). Costs stay with their SKU because the display order is a bijection from
lines to places (`PlacesDiffer`, `OrderedIsAll`, by counting the lines that come before), so a SKU of one line has one match (`OneMatch`).

`AccessProofs`, caches: `CacheTypesAlways`, `ServedIsRecentAlways`. The data may be older than the stamp beside them, which may be another reader's; the
invariant says by how much: data are at most one patience older than any stamp that is set or that a reader under way can still
set (`CacheIsTimely`), and a reader answers at most one patience after it looked (`AnswersAreTimely`). Together with the lifetime this is the bound.
*Streams*: `StreamTypesAlways`, `StopIsBookedAlways`. A mark that belongs to the stream's own user was posted by him then
(`MarksAreTrue`), and a young one is there until its stream takes it or another user overwrites it (`YoungMarksStay`), since the pruning of other stops spares it.
*Limits*: `RateTypesAlways`, `AttemptsBoundedAlways`, `RefusalIsEarnedAlways`. Failures grow only by threads that verify a password, and a thread verifies
only when it counted fewer than the limit: the failures of the present window and the threads that verify fit together below the bound (`FailuresFit`). For
registrations a window has two lives: while all its admissions are in the list they number at most the limit (`Remembered`); what ends this
is a check with a later time, and then only the other threads that took their time before can add to it (`Forgotten`). A refusal is earned because the list names admissions of its address.

`StorageProofs`, files: `StoreTypesAlways`, `NewDocHasFileAlways`, `LoneSweepIsExactAlways`. Between the two halves of an upload nothing names the file. It is
fresh and no other request's, nor any row's (`Waiting`), and a name in use is never written again (`NamedWritten`). A quiet sweep's list of
references is still what the rows say (`SweepsKnow`), since every commit of a row disturbs it.
*Foreign keys*: `SchemaTypesAlways`, `EnforcedIsSoundAlways`, `AuditSurvivesAlways`. `Enforce` ends in `enforced` only if its own check finds nothing; a deletion keeps that
by the rule of each key that refers to what goes. That user data survive is a matter of the declared keys: the keys that cascade from `users` lead to the
chats only (`Modest`, shown for every key of the models and the explicit DDL, and kept by every migration). What a cascade takes is a recursive function;
`PathsGrow` shows that the ends of the paths of n cascading keys satisfy its definition, and `CascadeStays`, by the smallest step that would leave a set closed
under cascading keys, that it stays in that set.
*Conversations*: `ChatTypesAlways`, `ReplayIsAlwaysValid`, `TurnsAreAnswered`. The replay is a fold. The prover knows it as a function on
index sets chosen to satisfy an equation; that there is one (`FoldExists`, by the smallest length without) and that it takes one message after the other (`FoldSteps`)
turns an induction over messages into one over
positions (`UpTo` of `Extremes`). What holds after each position (`Reads`): what is kept before the last message that is no answer (`LastIs`) is
`Sound`, what is kept after it answers its calls, and the calls without an answer are open. Where answers end, all calls of that message are open or none, unless the window has a message
answered in part (`WholeOrOpen`); `DropOpen` then keeps soundness, and cutting to the first user message makes of it `Valid` (`CutIsValid`).
This needs that in a log every answer directly follows a
row of its own turn (`Follows`), which is why `ChatIInv` speaks of logs and not of histories only: a turn flushes calls and answers into `own` (`Flushed`), and `own` is committed in one piece at the end of the log, whatever other turns
have committed before. A window may begin among answers; these follow nothing and are dropped. `CutTurnIsAnswered` adds `Replied` (the reply is in the
log of the conversation the turn began in, told from a later one of the same id by `born`) and `InRound`: who has flushed rows holds the lock, so its conversation cannot be
deleted before it commits, who calls tools has a round left, and a turn that begins has flushed nothing.

`CatalogBomProofs`, catalog: `CatalogTypesAlways`, `ForestShowsAllAlways`, `LoneMoveKeepsForestAlways`, `LoneDeleteSucceedsAlways`,
`LoneImportAddsNoDoubleAlways`. What a request found out is true as long as it is quiet (`Knowing`): its move closes no cycle, its fallback is there,
its new rows are new. The tree needs no history: what a traversal of a forest misses would hang from what it misses, a ring (`TreeIsWhole`). A move of c under p, with p not reached from c, makes no ring: a ring
with c in it contains p and what p hangs from, and without c it was there before (`MoveIsSafe`). A delete's fallback is never the category itself, so the second half does not
fail on a foreign key. An import is exact because row numbers, which come from `Max`, are new.
*BOM*: `BomTypesAlways`, `HiddenSaveKeepsCostsAlways`, `FirstReadersAgreeAlways`, `LoneSaveAlignsItemsAlways`. What a request took with it (`Carried`) and, while it is quiet, how that
relates to the stored rows (`Aware`): a first save of somebody without costs has the sheet generated from the present template and items as its base, a
later one the snapshot; after the first commit the lines stored are those of the page. One lemma for steps that write nothing, one for a page that writes, one for
writes from elsewhere reduce each action to its own page.

Composition: `MCTotals`, `MCAccess` and `MCData` let one component act while the others rest. Their behaviours are behaviours of each component
(`PartsAreBehaviours` in `TotalsProofs` and `AccessProofs`, `DataIsOfEach` in `StorageProofs`), so every theorem carries over; `TypesAlways` and `DataTypesAlways` say so for the types.

Only model-checked: the liveness properties `WaitEnds` and `QueueDrains` of `Approval` and `LockIsReleased` of
`Quotation`, since liveness under fairness and ENABLED are out of the prover's reach, and the violations of section 5, which
are counterexamples. Every other property of a passing run is a theorem.

## 7. Not modelled

Not modelled, because order, failure and concurrency do not touch it: import scripts and the daily report (run by hand or by a
timer, alone), specification texts and spreadsheets, prompts and the scoring of products, the tools' queries, URL checks, configuration
and seeding, the translation of Hermes' events, the front end apart from its stop button. Of modelled components:
reorder, suggest and dependency check of solutions; list, notes and export of quotations;
search and statistics of products; accounts made or deleted by an administrator.

## 8. Running

    tlc -config MCApproval.cfg MCApproval
    tlc -config MCData.cfg MCData
    tlc -config MCReplay.cfg AiChat
    tlapm ApprovalProofs.tla        (likewise AuthSessionProofs, QuotationProofs, TotalsProofs,
                                     AccessProofs, StorageProofs, CatalogBomProofs, Extremes)
