# Verification of cc.me

TLA+ models of the server of cc.me (`src/main.rs`), its mail delivery agent
(`src/bin/cc-me-mail.rs`) and its Rust client (`client/rust`), checked with TLC on
small instances, and proved with TLAPS for every instance where the provers reach. Paths below
are those of the repository; `PROJECT.json` maps every definition to the lines it
translates.

## 1. The system

cc.me is one Rust process (axum, tokio, sqlx) in front of PostgreSQL. Several
processes ("instances") may run on one database. All durable state is in the
database; an instance keeps only broadcast channels, a statistics queue, the font
index and the handle of a Chromium.

| Component | State | Operations | Interacts with |
|---|---|---|---|
| Encrypted inbox | tables `inbox_messages` (rows, `lease_until`), `inbox_counts` | enqueue to up to 16 recipients, peek, claim, ack, release | notifications, statistics |
| Notifications | broadcast channel per instance, LISTEN connection | `notify_inbox`, listener worker, long polls | PostgreSQL NOTIFY |
| Startup | the whole schema | `migrate` under an advisory lock, recount of `inbox_counts` | every table |
| Library | `library_resources`, `library_leases` | put, get, delete, borrow (waiting), return | its own channel and listener |
| Secrets | `secrets` | create, read once, burn, periodic cleanup | statistics |
| Callback aliases | `aliases` | create or return, redirect | - |
| Email aliases and login | `email_aliases`, magic links | create, update, delete, revoke; a mail delivery agent (`src/bin/cc-me-mail.rs`) reads them and forwards mail | SMTP |
| Screenshots | managed Chromium, CDP socket, `shot_cache` | proof-of-work gate, render, recycle, cache | Chromium |
| Statistics | mpsc queue, `stat_counts`, `stat_uniques` | `record_stat_soon`, batch worker, `load_stats` | every handler |
| Favicons | `favicon_cache` | lookup, fetch, store | HTTP |
| Fonts | index behind an `RwLock<Arc<_>>` | load, refresh worker, search | disk |
| Protocol adapters | none | answer handshakes, then enqueue | inbox |
| Forwarders and clients (JS, Python, Ruby, Rust, Go) | ids in progress | claim, deliver, ack or release | inbox |
| Proof-of-work solvers | none | search a nonce in parallel | screenshots |

What is hard in it: transactions of several requests that overlap (READ
COMMITTED, explicit row locks, `now()` fixed at the start of the transaction),
requests that are dropped between a commit and the notification after it,
notifications that are lost, delayed or delivered twice (locally and through
PostgreSQL), leases that run out while somebody still works with them, retries,
and an instance that starts while others serve. `PROJECT.json` lists these
hazards, each at its line, with the properties aimed at it.

What makes each part correct:

* inbox: a delivery reaches all recipients or none; an inbox never holds more than
  `INBOX_MAX_REQUESTS`, is refused only when full, and its counter never drifts;
  a claimed delivery is nobody else's until its lease ends, and then comes back;
  enqueues and acks never deadlock and are always answered;
* long polls: no request sleeps beside a ready delivery that nothing will tell it
  of; when notifications fail the deadline still finds it;
* peeking: cursors read deliveries in one order, never one twice, and never past
  one that a page cut off;
* library: a slot has one holder, a pool is never over-issued, a sleeping borrower
  is woken, every borrow is answered, lowering a pool withholds new leases;
* secrets: a read-once secret is taken at most once, nothing is returned after it
  was burnt or has expired, nothing disappears before, expired rows are deleted;
* aliases: one id per target, an answered id never changes its target;
* email: an alias changes hands only through its owner, a link that is revoked lets
  nobody in, mail reaches nobody but a holder of the alias, a mail is not lost;
* screenshots: answers reach their own calls, contexts are disposed of, renders and
  contexts stay bounded, a browser is replaced only when spent, and then exits;
* statistics: an event is counted once or dropped, days are the sums of their hours,
  the figures of one answer agree with each other, writers never deadlock;
* favicons: a fetch finds the icon the site has, the first in the order of the page, and a
  miss does not last;
* fonts: an index loaded from a clone that changes lists what was left alone;
* adapters: handshakes are answered and not stored, events are stored for all
  recipients or none, and twice only if an answer, or the database's to a commit, was lost;
* forwarding: what is acked was taken by the target, duplicates need a fault,
  everything is handled at last;
* key file: on unix, all programs that start with one path have one key.

## 2. Modules

| Module | Subject |
|---|---|
| `Inbox` | the transactions of the inbox, statement by statement |
| `InboxStore` | abstract specification: a bounded store with atomic multi-recipient posts |
| `InboxInv` | the inductive invariant of `Inbox` |
| `InboxRefinement` | the mapping from `Inbox` to `InboxStore` |
| `InboxProofs` | theorems about `Inbox` |
| `SlotLockProofs` | theorems about `Library` and `Locks` |
| `ForwarderInv` | the inductive invariant of `Forwarder` |
| `ConsumerProofs` | theorems about `Forwarder` and `LongPoll`, those who take deliveries |
| `MailProofs` | theorems about `EmailAliases` and `MailAgent` |
| `InboxStartup` | `Inbox` composed with the recount of a starting instance |
| `LongPoll` | notifications and long polls over several instances |
| `Library` | one resource of the library: borrow, wait, return, resize |
| `InboxPeek` | cursors and pages of a client that only reads |
| `Locks` | who waits for whom in the inbox tables, and the deadlock detector |
| `Forwarder` | claim, replay, ack or release, over an inbox and a target; implements `InboxStore` |
| `Adapters` | the handlers in front of the inbox, providers that retry |
| `Queries` | parameters of callbacks and challenges |
| `Secrets` | create, read, burn, clean up |
| `Aliases` | aliases of OAuth targets |
| `EmailAliases` | links and e-mail aliases |
| `MailAgent` | extends `EmailAliases` by the mail delivery agent |
| `MailText` | headers and line endings of mails |
| `Cdp` | one Chromium: renders, the actor of its socket, contexts |
| `Shot` | cache, permits, and the managed Chromium |
| `ShotGate` | the checks of a screenshot's token |
| `Stats` | channel, batch workers, rows, and the answer of `/stats` |
| `Favicon` | lookup, fetch, store |
| `Fonts`, `FontText` | the font index and the reader of its metadata |
| `KeyFile` | the key file of the Rust library |
| `MCInbox` | `Inbox` for TLC |
| `MCDeliveries` | polls, peeks, forwarders, adapters, mails and key files for TLC |
| `MCTables` | what meets in rows of the database, for TLC: library, locks, secrets, aliases |
| `MCPages` | what is behind the pages, for TLC: screenshots, fonts, icons, statistics, queries |
| `DeliveriesProofs`, `TablesProofs`, `PagesProofs` | the properties of `MCDeliveries`, `MCTables` and `MCPages`, proved of them; the proofs about `InboxPeek`, `Adapters` and `KeyFile` are in the first, those about `Secrets` and `Aliases` in the second, those about `Cdp`, `Shot`, `ShotGate`, `Fonts`, `FontText`, `Favicon` and `Queries` in the third |
| `StatsProofs` | the invariant of `Stats`, as `MCPages` runs it, and lemmas on loops that `PagesProofs` uses |

### Inbox

A `Sender` is a request in `insert_inbox_messages`, a `Consumer` one in `claim_once`
or `ack_messages` (`release_messages` is a single statement). A step is one SQL
statement, or several that cannot wait and that nobody sees before COMMIT.

| Code | Action |
|---|---|
| `begin()` and the request it serves | `Begin` |
| `INSERT INTO inbox_counts .. DO NOTHING`, per sorted key | `EnsureRow` (waits while another transaction has an uncommitted row: `Dirty`) |
| `SELECT count .. FOR UPDATE`, per sorted key | `LockCount`, or `Refuse` when full |
| `INSERT INTO inbox_messages`, `UPDATE inbox_counts` | `Write` |
| `tx.commit()` | `Commit` |
| any `?`, a dropped request, a crash | `FailEnqueue`, then `Rollback` |
| the `SELECT .. SKIP LOCKED` and `UPDATE` of `claim_once` | `Claim`, `CommitClaim` |
| `DELETE`, `UPDATE inbox_counts`, commit of `ack_messages` | `Ack`, `LowerCount`, `CommitAck` |
| `release_messages` | `Release` |
| a claim or ack that fails or is dropped | `FailConsumer` |
| time | `Tick` |

`rows` is the table, `counts` the counter (or `NoRow`), `countLock` its row locks,
`lease` the time left until `lease_until`. What a transaction has written but not
committed is in `enq` and `con`. A delivery is its position in the order in which
transactions began: that is `created_at`, which defaults to `now()`. Locks of
`inbox_messages` rows are the `held` sets of the claims and acks. Failure and
rollback are separate steps because the locks of a dropped sqlx transaction last
until its connection has rolled it back. `ON CONFLICT (inbox_key, id) DO
NOTHING` never meets a conflict here, as ids are taken to be distinct.

`dest`, `outcome` and `acked` are history: they are only written, and state the
properties.

### InboxStartup

`run_migrations` recounts `inbox_counts` in one `INSERT .. SELECT .. ON CONFLICT DO
UPDATE`. The statement sees the rows committed when it starts (`Recount`), locks the
counters one after the other (`UpsertCount`), and writes what it had counted
(`CommitRecount`). The advisory lock of `migrate` excludes other starting instances
and no handler, so the handlers of `Inbox` run in between.

### LongPoll

Deliveries are counted here; how one is claimed is the subject of `Inbox`. `Store`
is the commit of an enqueue or a release at an instance, after which its handler
owes two announcements: on the broadcast channel of its instance (`NotifyLocal`),
then through PostgreSQL (`NotifyPostgres`), from where the listener of every
instance, the sender's own too, repeats it (`Forward`). A poll is `first`
(`claim_once` of the handler), `empty`, `look` (subscribed, in the loop), `wait`
(`wait_for_inbox_notification`) or `last` (the look after the timeout). A receiver
holds at most `Capacity` keys; when it overflows it loses the oldest and will be
told (`lagged`). Faults: `DropAnnouncement`, `LoseListener`, and `Lapse`, a delivery
that becomes ready without an announcement: a lease that ran out, or a claim that
was rolled back after a poll had skipped its locked rows.

### Library

`try_borrow` is `LockRow`, `Choose`, then `Grant`, or `Full`. `now()` in a transaction is
when it began; `req[p].age` is how long ago that was, and `Expired(p)` are the leases
that are over for it, which is why `left` goes below zero. `Grant` deletes the
expired leases along with its insert. `Full` rolls that deletion back, and sets the
`alarm` to the first expiry the transaction saw, cut to seconds (`Slack`). `owed` is
a handler that has committed but not notified. The unique index
`library_leases_slot_idx` is left out on purpose: `OnePerSlot` shows that it is
never what prevents a double grant.

### InboxPeek

A delivery is stored by a transaction with a `created_at` (its start) and commits
later; other clients lease, release and ack. The client is `Ask`, `Look` (one run of
`peek_messages`), `Deadline` of its poll, `Receive`, or an answer that is lost.
`page_from_rows` is modelled by its budget and its cursor, equal times by ids.

### Locks

The transactions of `Inbox` reduced to the locks they take, one by one, and two
more things: `ack_messages` and `release_messages` lock the rows of their ids in the
order PostgreSQL scans them (`Inbox` takes them in one step), and instances start
(`migrate` with its advisory lock, the recount of `inbox_counts` in any order).
`Abort` is PostgreSQL's detector. `Blocked` says that `DO NOTHING` waits for an
uncommitted row, also for the new version of a counter that an enqueue, an ack or a
recount has written (`Updated`), and not for a row that is only locked. An enqueue
therefore has a stage `update`, between its locks and its commit.

### Forwarder

`client/rust/src/main.rs`: `Step` is what a forwarder does next (claim, replay, ack, or
ack and release after a refusal). A call is in `calls` until the inbox carries it
out (`Serve`), which may be after its caller has given up on it. Faults: crashes,
broken connections, leases that end while their holder is at work. The refinement
maps the inbox and the calls to `InboxStore`, so the abstract store is what both
`Inbox` and `Forwarder` implement.

### Adapters, Queries

A request is a record of what the handlers ask of it (signature, method, type,
size). Each handler is an operator of `Adapters` with the order of its checks;
`Put` and `PutNone` are the transaction of `insert_inbox_messages` as a whole (how
it gets there is `Inbox`). `Trouble` is the database's: the transaction fails, or its commit is
done and the acknowledgement lost, and the handler answers 502 to both. Providers send again
after 502, 409 or no answer; `lost` counts, for each event, the answers they did not hear
and the commits their handlers did not hear of. `Queries` has
the loops over parameters as folds; a step appends a parameter, so that every
query up to the bound is a state.

### Secrets, Aliases

Each statement commits by itself, works at the time and on the rows it began with,
waits for a row that another one is deleting or inserting, and looks again when it
may go on. `insert_alias` is a look, the insert whose conflict depends on what is
committed by then, further attempts with new ids, and the upsert. The tables
`Aliases` starts from are all that the migration's deduplication may leave.

### EmailAliases, MailAgent, MailText

A request has `email_for_key` and the statement it was made for as two steps.
`MailAgent` runs the agent next to it: `Dispatch`, the database statements of
`handle_login` and `handle_alias`, each command of the SMTP dialog with each kind
of answer, and the two statements of `record_forward`. `MailText` has
`Headers::parse` line by line, and `dot_stuffed`.

### Cdp, Shot, ShotGate

`Cdp` is one browser: a render is at one of the awaits of `shot_render` and
`shot_render_in_context`, and may be dropped at each; the actor takes a request, an
answer or an event; the guard's `drop` spawns a call of its own. `Shot` counts
renders and shows how `chrome_client` replaces a browser under its mutex while
renders, and the tasks that dispose of their contexts, keep clones of the old one
(`Held`). `GuardDropped` leaves such a task with every end of a render that has a context,
`Disposed` is the end of one, at the latest after the 30 s of its call. When nobody has a
clone, `Exit` is `cdp_actor` that kills the browser; when the browser dies first, `Die` and
`Close` are the same task, which notices and then closes its channel. Since such tasks have no
bound, neither have the browsers that outlive their replacement. `MaxBrowsers` bounds the
names for them: a start waits for a name that is free. `ShotGate` has bytes of `Width` bits, so that all
digests can be enumerated.

### Stats

A server has a channel, a batch and a transaction that locks rows one after the
other. A member of the unique kind stands for its bit. `Load` runs the queries of
`load_stats` one at a time. Servers stop and transactions fail at any step.

### Favicon, Fonts, FontText

`Favicon`: the site is what its page names, in order, and what three resources answer (two
that links lead to, and `/favicon.ico`); a request looks at the cache, then fetches in the
order of `fetch_favicon`, one await per step, and stores. An inline image ends the search as
soon as the page is read, also where links come before it; of the other candidates the first
that is accepted does. `Fonts`: `FontIndex::load` reads directory by directory while
`Pull` changes the clone; a client's search and file request are separate steps.
`FontText`: every text up to the bound, a line a step.

### KeyFile

Programs start with one path: `Read`, `Create` (`create_new`), two writes, failures and kills
at any step. This is `cfg(unix)`. In other builds (`client/rust/src/lib.rs:156-160`, `:170-173`)
the file is written by `fs::write`, which writes over one that another program has just
created, and `secure_key_file` does nothing: neither `OneKey` nor `KeyIsPrivate` is claimed for
them. The mutant `CreateOver` of the run is what the first of the two leads to.

### The unions

`MCDeliveries`, `MCTables` and `MCPages` each instantiate several components and run them
in one search. A behaviour chooses its `part` at the start, takes the steps of that
component only, and leaves the variables of the others at `None`: the states of the
union are those of its parts side by side, not their product, and a property of the
union is the conjunction of its parts' properties under `part = ...`. The bounds of a
part are constants that the `.cfg` gives, or stand in its `INSTANCE .. WITH`; the theorems
about a union hold for every value of the former. `PartsAssumption` states the assumptions of all components for the
values they are instantiated with. Users, clients and servers that a part treats alike
are the model values `ann` and `bob`, targets, links, acks and families `cat` and `dan`;
the safety runs permute them. `pages_safe` has `cat` as a third client of screenshots and permutes
the three: a permutation that takes one state to another keeps the domains of its functions, so
in the other parts it swaps `ann` and `bob` at most. A part that treats them differently uses strings.

## 3. Runs

| Run | Checks | Bounds |
|---|---|---|
| `inbox_safe` | `TypeOK`, `AllOrNothing`, `NoWaitCycle`, `CountExact`, `WithinCapacity`, `RefusedOnlyWhenFull`, `LeaseNotStolen` | 2 inboxes of 2 places, 2 senders, 2 consumers, 3 deliveries, leases of a tick |
| `inbox_progress` | `ImplementsStore`, `EnqueueAnswered`, `ClaimRecovered` | 2 inboxes of 2 places, 2 senders, 2 consumers, 2 deliveries, leases of a tick |
| `deliveries_safe` | the safety of the parts of `MCDeliveries` | below |
| `deliveries_live` | `DeliveriesArrive` | below |
| `tables_safe` | the safety of the parts of `MCTables` | below |
| `tables_live` | `RequestsEnd` | below |
| `pages_safe` | the safety of the parts of `MCPages` | below |
| `pages_live` | `GateHolds`, `QueriesAgree`, `PagesSettle` | below |
| `startup_over_limit` | `HoldsAtMostLimit` (violated) | 1 inbox, 3 deliveries |
| `library_lowered` | `LoweringWithholds` (violated) | 2 slots |
| `cdp_orphan` | `ContextsDisposed` (violated) | 1 render |
| `icon_declared` | `RealImageWins` (violated) | 2 requests, 1 site |

The parts of the safety runs (of `pages_live` for `GateHolds` and `QueriesAgree`), and what of
their components each property says:

| Property | Part and component | Says | Bounds |
|---|---|---|---|
| `PollsWake`, `EmptyAnswerIsFresh` | `poll`: `LongPoll` | `NoLostWakeup`; `EmptyAnswerIsFresh` | 2 instances, 2 inboxes, 2 pollers, receivers of 1, 2 deliveries, 1 fault |
| `PeekInOrder` | `peek`: `InboxPeek` | `ReadInOrder`, `CutIsAhead` | 3 deliveries, the second as large as two, pages of 2, a lease, a lost answer |
| `ForwardsOnce`, `ForwardersKeepStore` | `forward`: `Forwarder` | `AckedWasTaken`, `OncePerFault`; a step of `InboxStore` or none | 2 forwarders, 3 deliveries, batches of 2, a refusal, a fault |
| `EventsStoredOnce` | `adapters`: `Adapters` | `RightWay`, `AllOrNone`, `CopiesNeedLosses` | every kind of request beside a plain one, 2 inboxes of 2 places, 2 faults |
| `MailReachesHolder`, `BounceIsLate` | `mail`: `MailAgent` | `SuccessIsDelivery`, `OnlyToHolder`, `EchoAnswersPeople`, `ForwardsCounted`; `BounceIsLate` | a mail beside a request, 2 addresses, 2 links, an alias |
| `MailTextArrives` | `text`: `MailText` | `AutomaticIsSeen`, `ArrivesWhole` | all mails of up to 4 lines |
| `OnePrivateKey` | `key`: `KeyFile` | `OneKey`, `KeyIsPrivate` (unix) | 3 programs, 4 starts |
| `OneLeasePerSlot`, `GrantsFreeSlot` | `slots`: `Library` | `OnePerSlot`, `NeverOverIssued`; `GrantsFreeSlot` | 2 borrowers, up to 2 slots, transactions open for 1 tick |
| `BorrowersWake` | `alarms`: `Library` | `NoLostWakeup` | 1 slot, leases of 1 to 3 ticks, clocks off by 1 |
| `CirclesAreKnown` | `serving`: `Locks` | `CirclesAreKnown` | an enqueue, a claim, 2 acks, 2 deliveries in one of 2 inboxes |
| | `starting`: `Locks` | `CirclesAreKnown` | 2 enqueues, an ack, a starting instance, 2 inboxes |
| `SecretsKept`, `OverIsOver` | `secrets`: `Secrets` | `TakenOnce`, `KeptUntilOver`; `OverIsOver` | 2 clients, a read-once and a reusable secret, one id, a fault |
| `AliasesStand` | `aliases`: `Aliases` | `SameAlias`, `AnswerStands` | 3 clients, 2 targets, 3 ids, 2 attempts, a fault |
| `OwnersStand` | `email`: `EmailAliases` | `NoTakeover`, `LockedStaysOut` | 2 addresses, 2 links, an alias, 2 requests |
| `AnswersReachCalls` | `renders`: `Cdp` | `AnswersMatch`, `LoadNotMissed` | 2 renders on a browser |
| `BrowsersBounded`, `ReplacedOnlyWhenSpent` | `shots`: `Shot` | `RendersBounded`, `SparesAreSpent`, `ContextsBounded`, `NoRedundantRender`; `ReplacedOnlyWhenSpent` | 3 requests, 2 permits, 2 renders per browser, names for 2 browsers |
| `GateHolds` | `gate`: `ShotGate` | `LevelExact`, `LookupIsPaid`, `ImageInRange` | digests of 2 bytes of 2 bits, sides up to 2 |
| `FontsFound`, `ListedIsServed` | `fonts`: `Fonts` | `UntouchedIsListed`; `ListedIsServed` | 2 families, 2 directories, 2 files, 2 pulls |
| | `metadata`: `FontText` | `FindsAll`, `OwnName` | all texts of up to 5 lines |
| `FetchFindsIcon` | `icons`: `Favicon` | `FetchFindsIcon` | 2 requests, 5 kinds of sites with up to 4 links, a site that changes twice, a fault |
| `StatsAddUp` | `workers`: `Stats` | `CountedOnce`, `PeriodsAgree`, `NoLockCycle` | 2 servers, 4 events, 2 ticks, windows of 2 hours and 2 days |
| | `figures`: `Stats` | `SeriesCoversTotal`, `WindowsNest` | 2 servers, 2 events, 2 ticks, one answer |
| `QueriesAgree` | `query`: `Queries` | `TargetGetsAll`, `AliasAgrees`, `OrderIsFree`, `ChallengeStands` | up to 4 of 17 parameters |

The live runs of the unions have one property of the form `\A n : Waits(n) ~> ~Waits(n)`. Its parts:

| Property | Part | What waits does not wait for ever | Bounds |
|---|---|---|---|
| `DeliveriesArrive` | `prompt` | a ready delivery of a polled inbox, woken by notifications alone | as `poll`, no fault, no timer |
| | `faulty` | the same when notifications and connections fail and timers fire | an inbox polled on both instances, 1 delivery, 2 faults |
| | `peek` | a ready delivery ahead of the cursor | 2 deliveries, pages of 1 |
| | `forward` | a delivery in the inbox of a forwarder | 2 forwarders, 2 deliveries, a refusal, a fault |
| | `adapters` | an event that a provider has sent | Discord's handler beside a plain one, a fault |
| `RequestsEnd` | `borrow` | a borrow, also when its notification is lost | 1 slot |
| | `starting` | a transaction of an enqueue or of a start beside it | an enqueue and a starting instance |
| | `serving` | an ack of deliveries that another one is acking | 2 acks of 2 deliveries |
| | `secrets` | a secret that is over and still in its row | 1 client, a fault |
| | `aliases` | a request for an alias | 2 clients, 2 targets, 2 ids |
| `PagesSettle` | `renders` | a render, and a context with a guard | 1 render, Chromium answers or dies |
| | `recycled` | a browser that nobody uses and that was replaced | 1 render, Chromium may hang |
| | `shots` | a request for a screenshot; a browser that runs and that nobody will use again | 2 requests, 1 permit, 2 browsers |
| | `fonts` | an index that differs from the clone | a panic of the load |
| | `icons` | a 404 for a site that has an icon | 2 requests, a site that changes once, a fault |
| | `workers` | a channel that is not empty | 2 servers, 3 events |

Why the bounds are enough: two senders with overlapping sets of two keys in
either order produce every conflict of sorted locking, three deliveries let one
transaction finish and free the locks two others wait for, and with two places per
inbox the third is refused unless one before it was acked. Two deliveries in an inbox,
two consumers and steps of time between a claim and its ack let claims of several rows
overlap, lapse, be claimed again and be acked by the first, slow consumer; these are also
the cases in which `inbox_progress` checks the store, where no delivery is refused. A receiver of one key lags at the second
notification, of which each delivery causes two. Two slots and two borrowers are
the smallest pool where a slot above a lowered count can be in use. What is larger
than that in production (16 recipients, 100 places, 4096 keys) only repeats these
cases; for the inbox the proofs remove the bound.

In the other modules two actors are enough for each race, since every hazard listed
is between two statements, calls or writes of different actors, and a third one is
added where a queue or a conflict of two others matters (three requests for two
permits, three clients of aliases, three programs and four starts of a key file).
Faults are bounded by one or two: each property that speaks of faults counts them
(`OncePerFault`, `CopiesNeedLosses`), so more would repeat the argument. Two circles of
waiting need two rows of one inbox, or two inboxes with rows, hence the two parts of
`Locks`. A browser with room for two renders and three requests is replaced while
used. Times are ticks with the shortest lives that differ (a hit lives longer than a
miss, an hour is shorter than a day). Mails of four lines hold a folded header, a
repeated one and the empty line; texts of five lines a block within a block.

Deadlock is checked in the runs of the inbox. The other configurations turn it off, since
the components stop where a bound is reached or their input is complete: a browser that
exited, a token that was checked, a text or a query at its bound, requests that are over.
That nothing stops too early is what the live runs check there.

Counters that are bounded only to keep the model finite: `MaxEnqueues`, `MaxPosts`,
`MaxFaults`, `MaxAge` (ticks a transaction stays open) and `MaxLeases` (names for
leases, reused when free).

`MaxEvents`, `MaxClock`, `MaxTime`, `MaxChanges`, `MaxPulls`, `MaxPanics`, `MaxFails`, `MaxStarts`,
`MaxBrowsers`, `MaxLines` and `MaxLen` bound the runs of the other modules; each is named
as a bound where it is declared.

### Violated properties

Four statements of the documentation are refuted by a run of the code's model:

* `LoweringWithholds`: `try_borrow` looks for a free position below `count` and does
  not count the live leases above it. With 2 slots lent, lower the pool to 1 and
  return slot 0: the next borrow gets slot 0 while slot 1 is still live. The
  documentation (`docs/lib.html:98`, `:116`) promises that new leases are withheld
  until enough are free. What does hold is `NeverOverIssued` (against the largest
  count) and `GrantsFreeSlot`.
* `HoldsAtMostLimit`: the recount of a starting instance writes counts that deliveries
  and acks of the other instances have made stale. Too low, the inbox exceeds its limit
  (`docs/http.html:93`); too high, POST answers 409 "inbox is full" though it is not.
* `ContextsDisposed`: a render dropped while its context is being created leaves it
  open (`docs/shot.html:36`). `PagesSettle` (part `renders`) holds for all contexts that
  have a guard.
* `RealImageWins`: `fetch_image` believes what is declared as `image/*` and looks at the bytes
  of other responses only, so that such a response wins over a real image behind it
  (`docs/icon.html:63`, and the comment on `fetch_favicon`). `FetchFindsIcon` therefore speaks of
  the first response that is accepted.

Others were met while modelling. The models have these behaviours, and the properties
are stated so that they stay true beside them; no run of its own refutes the sentence:

* `created_at` is the start of a transaction. A delivery that starts before and commits
  after one that was read lies behind the cursor, and a client that passes cursors back
  never sees it (`docs/http.html:104`); `PeekInOrder` speaks of what was there to read.
* The Rust forwarder takes a 3xx that is not followed for success
  (`client/rust/src/main.rs:111`, against `docs/http.html:223`); "taken" in `AckedWasTaken`
  means an answer below 400.
* The miss of a slow fetch overwrites a hit that is fresh (`docs/icon.html:71`).
* A mail that is not UTF-8 bounces before anybody looks at its recipient
  (`src/bin/cc-me-mail.rs:4`), and a forwarded mail ends with one empty line more
  (`src/bin/cc-me-mail.rs:299`); `ArrivesWhole` counts what follows the last newline as
  a line, an empty one.
* A program that is killed while it creates the key file leaves one that no program
  starts with (`client/PROTOCOL.md:18`).

## 4. Fairness

Each component states its own fairness; the `FairSpec` of a union repeats it for the parts
that its live run has, with one strong fairness per session or client that serves all
of them.

* `Inbox!FairSpec`: a statement that can run is run. Strong fairness per session,
  because a lock that a session waits for is taken and freed by others again and
  again; PostgreSQL queues the waiters of a row, so none is passed over for ever.
  Time passes. Beginning a request, claiming, acking, releasing and failing are not
  assumed.
* `LongPoll!PromptSpec`: tasks of the runtime run (weak fairness of announcing,
  forwarding and polling), and the listener worker reconnects, which it does in an
  endless loop. `TimedSpec` adds that timers fire.
* `Library!FairSpec`: as for `Inbox`, and a handler that owes a notification sends
  or loses it; deadlines and clocks go on.
* `InboxPeek!FairSpec`: the client asks on, handlers run, deadlines come (strong
  fairness: they are renewed by each poll), and answers arrive at last.
* `Locks!FairSpec`: as for `Inbox`, and PostgreSQL's detector runs. Beginning and
  failing are not assumed.
* `Forwarder!FairSpec`: something starts forwarders again, as the documentation of the
  service expects, calls are carried out or lost, leases end. That the target takes
  what it is given at last is an assumption, in the bound `MaxFails`.
* `Adapters!FairSpec`: providers try again, owners drain their inboxes. The code
  assumes neither; `DeliveriesArrive` says what follows if they do.
* `Cdp`: `TasksRun` is the runtime; `TimedSpec` (part `recycled`) adds timers, with a Chromium that may hang;
  `LiveSpec` (part `renders`) a Chromium that works off its calls or dies, and of the timers only the one
  for the page load. `Shot!FairSpec`: the semaphore and the mutex of tokio are queues, and the tasks that dispose
  of contexts and run browsers come to their ends (`Task`): the call of the former has a timeout,
  `child.kill()` and the removal of the profile are assumed to return.
* `Stats!FairSpec`, `Secrets!FairSpec`, `Aliases!FairSpec`, `Fonts!FairSpec`, `Favicon!FairSpec`:
  tasks run, the workers loop for ever, statements come back with a result or an
  error, clocks go on.

## 5. Proofs

Eight modules hold theorems: four are about components and extend their modules, three are
about the unions that the runs check, and `StatsProofs` has the part of `PagesProofs` about
statistics. `SlotLockProofs` extends `Library` and has an instance of `Locks` beside it. Each
has one lemma for each action, or for a group of actions that do the same to the state.

| Module | Theorems | Property |
|---|---|---|
| `InboxProofs` | `TypeCorrect`, `CountsAreExact`, `CapacityHolds`, `DeliveryIsAtomic` | `TypeOK`, `CountExact`, `WithinCapacity`, `AllOrNothing` |
| | `LeasesExclude`, `RefusalsAreJustified` | `LeaseNotStolen`, `RefusedOnlyWhenFull` (action properties) |
| | `EnqueuesNeverDeadlock` | `NoWaitCycle` |
| | `Refinement` | `ImplementsStore` |
| `SlotLockProofs` | `SlotsAreLentOnce`, `PoolIsNotOverdrawn` | `OnePerSlot`, `NeverOverIssued` |
| | `GrantsAreOfFreeSlots`, `NoBorrowerIsForgotten` | `Library!GrantsFreeSlot`, `Library!NoLostWakeup` |
| | `OnlyKnownCircles` | `Locks!CirclesAreKnown` |
| `ConsumerProofs` | `AcksFollowAnswers`, `FaultsPayForCopies`, `ForwardersAreStore` | `AckedWasTaken`, `OncePerFault`, a step of `InboxStore` or none |
| | `NoPollIsForgotten`, `EmptyAnswersAreFresh` | `LongPoll!NoLostWakeup`, `LongPoll!EmptyAnswerIsFresh` |
| `MailProofs` | `MailInvariance` | the invariants from which `MailReachesHolder` and `BounceIsLate` follow |
| `DeliveriesProofs` | `PollsAreWoken`, `EmptyAnswersFollowLooks` | `PollsWake`, `EmptyAnswerIsFresh` |
| | `CursorsGoOn` | `PeekInOrder` |
| | `ForwardersForwardOnce`, `ForwardersUseStore` | `ForwardsOnce`, `ForwardersKeepStore` |
| | `AdaptersStoreOnce` | `EventsStoredOnce` |
| | `MailReachesNobodyElse`, `MailBouncesEarly` | `MailReachesHolder`, `BounceIsLate` |
| | `OneKeyIsUsed` | `OnePrivateKey` |
| | `MailIsReadAndSent` | `MailTextArrives` |
| `TablesProofs` | `SlotsAreLentOnce`, `SlotsAreFreeWhenGranted`, `BorrowersAreWoken` | `OneLeasePerSlot`, `GrantsFreeSlot`, `BorrowersWake` |
| | `NoOtherCircles` | `CirclesAreKnown` |
| | `SecretsAreKept`, `SecretsEnd` | `SecretsKept`, `OverIsOver` |
| | `AliasesStay` | `AliasesStand` |
| | `OwnersKeepAliases` | `OwnersStand` |
| `PagesProofs` | `AnswersReachTheirCalls` | `AnswersReachCalls` |
| | `BrowsersStayBounded`, `SpentBrowsersAreReplaced` | `BrowsersBounded`, `ReplacedOnlyWhenSpent` |
| | `GateIsExact` | `GateHolds` |
| | `FontsAreFound`, `ListedFontsAreServed` | `FontsFound`, `ListedIsServed` |
| | `FetchesFindIcons` | `FetchFindsIcon` |
| | `StatisticsAddUp` | `StatsAddUp` |
| | `QueriesAreReadAlike` | `QueriesAgree` |

A theorem about a component holds for every value of its constants: any borrowers, any
mails, any number of faults. A theorem about a union states the very property a run checks.
It maps each part to an instance of its component's proof module (`SlotFacts`,
`MailFacts`, ...), or has an invariant of the component as the part instantiates it: what the
part starts from and does is what that instance starts from and does,
and every other part leaves its variables alone. Parts whose bounds are constants of the
`.cfg` are thereby proved for every value of them.

**Assumptions.** The theorems about `Inbox` assume `KeysAssumption`, `ActorsAssumption` and
`BoundsAssumption`: keys are finitely many and ordered (they are strings), senders and
consumers are different requests, and limits are the positive numbers
`Config::from_env` clamps them to. The other components have the assumption of their module
as a hypothesis (`LibraryAssumption`, `LocksAssumption`, `SecretsAssumption`, ...; `KeyFile` needs
none), which mostly says that actors are different from each other and that `None` is
nobody. Beyond that:
`EmailAssumption` keeps `None` apart from addresses and links; `ForwarderAssumption` keeps the
forwarders apart from "nobody"; `LocksAssumption` says that the requests are finitely many;
`CdpAssumption` and `ShotAssumption` say that renders and clients are finitely many, and the
latter that there is a page to ask for; `MailAssumption` says that mails are finitely many, and that no alias is one of the reserved
names, which `is_reserved_email_alias` refuses. The theorems about the unions rest on
`PartsAssumption`, which says all this of the values in use, so that TLC has evaluated each of
them.

**Inbox.** `CountExact` and `WithinCapacity` are not inductive: that the room a sender saw
is still there when it commits rests on the locks it took in an earlier pass, and that
an uncommitted counter row counts zero rests on no other transaction having written
one. `IInv` (module `InboxInv`) adds what an open transaction relies on:

* `FreshLocked`: counter rows that a sender has inserted are locked by it and
  visible to nobody;
* `PassDone`: in each pass the visited keys have a row, are locked, and had room;
* `DeliveriesOK`: open deliveries are distinct and unanswered;
* `RowsHeld`: claims hold ready rows, acks stored ones, no row is held twice, and an
  ack that has lowered the counter holds its lock;
* `LeasesOnRows`: only stored deliveries have a lease.

`SenderKept` and `SendersKeptByConsumer` say once what a step of somebody else must
leave alone.

**No circle of waiting senders.** `WaitInv` is added: a pass visits its keys
in order, in the first pass a sender holds only the rows it inserted itself, in the
second the keys it has visited, and an ack holds the one counter it lowers. So who waits in
the second pass waits for somebody in his second pass who waits at a later key, and a circle of
first-pass waiters likewise ascends; a finite set of keys has a last one.

**Refinement.** Every step is one operation of `InboxStore` or invisible to it: `Commit`
is `Accept`, `Refuse` is `Refuse`, `CommitClaim` is `Reserve`, `CommitAck` is `Settle`,
`Release` is `Free`, `Tick` is `Expire`.

**Long polls.** `IInv` is `NoLostWakeup` with `Connected` (listeners are lost by faults
only) and the types. The lemma `BroadcastReaches` carries it: a key that was in a
receiver is still there or the receiver has lagged, which wakes the poll as well. The
capacity of the channel therefore does not matter, and neither does the order of the
two statements of `notify_inbox`.

**Peeks.** `PageGoesOn` says of a page on its way that it is in order, that it goes on from the
client's cursor to its own, and that what it cuts lies behind its own; `ReadBehind` and `OwedAhead` say
the same of what the client took. Keys do not move, since a `created_at` is fixed when its transaction
starts (`WalkStays`). That the query has a sorted result at all (`SortedExists`) is proved for every
finite set with an order: a smallest subset without one would have a last element, and the rest of
it a sorted sequence.

**Library.** Between the choice of a slot and the INSERT only the lock of the row protects
it: `LockHeld` says who has the lock, `ChoiceFree` that the chosen slot is below
the count and free of every lease the transaction sees. `PeakCovers` bounds the slots;
`PoolIsNotOverdrawn` is then an injection of leases into slots. `NoBorrowerIsForgotten` needs
`Sleepers` besides: who sleeps with no notification owed or received sleeps no longer, but for
the rounding of its clock, than any of the leases that fill the pool. A step that takes a running
lease away, or adds a slot, owes a notification (`SleepersStay`); that none was lost is a hypothesis of
the property.

**Circles of locks.** A transaction that waits has its next lock in `todo`, and has of the
others' what `Fits` says: an enqueue only counters of its inboxes, in its second statement
none beyond the next one that are committed (`EnqueueFits`), and when it updates counters it has the locks of all of them, so it waits for none; an ack or a release only rows of its
one inbox, until it waits for nothing any more (`ScanFits`). In a finite circle each waits for another
(`Blocker` is injective on it), so a part of a circle that waits only for itself is all of it
(`CircleIsWhole`). Those who wait for counters or to start are such a part; so are scans of
one inbox, and enqueues in their second statement. Enqueues alone wait at ever later keys, and
one of finitely many waits at the last.

**Forwarding.** `Agreed` is what a forwarder, its call and the answer to it agree on: where it is in its
batch (`InBatch`), that a call is the one its forwarder waits for (`Asked`), that what it passed over in
the batch was taken, and that an ack that was answered has been carried out (`Passed`), also when
nobody waits for it any more (`AcksTaken`). `AckedWasTaken` follows, and the refinement: a call that is
carried out is `Reserve`, `Settle` or `Free` of the store. `OncePerFault` counts ways to the target: a
delivery has one when the inbox may give it out (`Loose`), one by each forwarder that has yet to
replay it or to give it back (`Owes`), and one by each release that nobody waits for. `FewWays` says
that the ways of a delivery and the times it was taken are at most one more than the faults. A step
that adds a way (a broken connection, a lease that ends while its holder is at work, a forwarder that
dies) is a fault and pays for it.

**Adapters.** `GateAnswers` goes through the handlers and says that each request is a handshake, an
event that is stored, or refused, and no two of them. `CopiesFit` relates what was stored to what
was answered: every recipient of an event has a copy for each time it was stored, whether the provider and
its handler heard of that or not (`lost`), and nobody else has any; `AnswerFits` says which answers a
request can have, and that each such loss has the price of a fault.

**E-mail.** `NoTakeover` and `LockedStaysOut` hold by the statements alone, given the types and that every row
has an owner: each compares the owner with the user of a link that was valid when `email_for_key` read
it. For the agent `Fits` says what a mail has behind it at each place: until the server has taken it
nobody has it; who is written to was entitled when the alias was read; mail that nobody wrote gets no
echo. `Counts` relates the counters to the deliveries: by the hour at most those delivered and not
about to be counted, and by the day, with those about to be, at most those by the hour.

**Secrets.** `LocksFit`: a client that is about to commit a deletion holds the row, and the row is
still the one it saw; the worker holds only rows whose hour has come. `SecretRowsFit`: a secret is in one
row, and not in any once it was taken. `SecretsTaken`: what was answered or burnt was taken from its row.
A second taker would have to find the secret in a row after it was taken.
`SecretsEnd` needs `OverInv` besides: all that a request knew to be over when it asked was
taken, or its hour had come, by the request's own time, and stays so (`OverStays`); and a row ends
when its link says (`RowsLinked`). What a read finds in a row in time can then not be over.

**Aliases.** `OneRow` is the unique index on the target. `CommitsFit`: an uncommitted row
collides with no committed row and with no other uncommitted one, in id or target.

**Key file.** `WritersOwn` and `KeyIsWhole`: the file being written is its writer's and
private, `create_new` gives it one writer, and a key in use is that of a file with a whole key.

**One Chromium.** `IdsFit`: every id in use is below the next one, and an id in the actor's map, in a
call Chromium has and in an answer on the wire is the same call; so an answer goes to the render that
made it. `WaitsFit` carries `LoadNotMissed`: a waiter is noted, or stands in the queue before the
`Page.navigate` whose load event it waits for, so that no load event leaves Chromium without a waiter.
The queue is first in, first out, which is why `wait_event` may send its message and go on.

**Screenshots.** `RendersBounded` is not inductive: a render counts itself long after `chrome_client` has read
the counter. `SharesKept` adds those who have a browser and are still to be counted (`Coming`); a request
gets a browser with room left, and at most one less than the permits are ahead of it. `StartsFit`: who
starts a browser has the mutex and found the managed one spent, so nobody else replaced it meanwhile.
`SparesFit`: a browser that lives and is not managed has rendered its share, or it has rendered nothing
and is at most with the request that starts it; from that `SparesAreSpent` follows. `ContextsFit` counts the
renders that have a context and the tasks that will dispose of one: a context passes from the former to
the latter (`GuardKeeps`), and each has raised the counter.
`CacheUsed` counts, for each cached page, those who looked before it was stored: all have permits, and
the one who stored it is not among them.

**Fonts.** `LoadsAll` says how far a load has got: a family that no pull changed since the load began is
found if its directory was read, and is still to be read otherwise. A swap makes it `IndexFits`, and what a
client took from the index is there until a pull (`WantFits`).

**Favicons.** `SearchFits`: while the site stands still, no candidate that a fetch has left behind was accepted
(`Searched`). It takes the one of the least place, so one that is accepted is the first of the page that
is (`IsIcon`); and if none is left, the site has no icon.

**Induction.** What a loop computes for inputs of any length needs induction and recursive functions.
`LeastNumber` (a set of numbers that is not empty has a least one) gives `Induction` over a set of
numbers, and that gives `Recursion`: every step function has a function that follows it from a start.
The `CHOOSE` behind a recursive definition therefore stands for such a function, and two functions
that follow the same steps agree (`Alike`). No operator is a parameter of these lemmas: sets and
functions stand for the predicates.

**Mails as text.** `HeadersFit`: while the scan runs, the headers found are, in their order, the fields among
the lines it has read, each with the words of the lines that continue it (`IsHeader`). What `Get` returns at the
end is that of the last such field. `WireFits`: what was sent is the mail with its dots stuffed, so that the first
line that is only a dot is the one behind it.

**The gate of a screenshot.** `CountFits`: the bytes that `pow_trailing_zero_bits` has looked at were zeros and are
counted, or the loop is over and `bits` is the exponent of the largest power of two that divides the
digest (`Exact`), for digests of any number of bytes of any width. `PathFits` says what a request has behind it at
each check of the handler: only a good token that was paid for comes to the spec.

**Queries.** Each loop over the parameters is a step function on what it has read (`TargetStep`,
`WebSubStep`, `MetaStep`), and `TargetFits`, `MetaFits` and the others say by `Values` and `Others` what it has at the
end, for a query that grows by a parameter. `OrderFits`, that neighbours of different kinds may change
places, is an induction over what stands behind them.

**Metadata of a font.** `TextReads`: the depth that the scan counts is the nesting of the lines it has read, and an
open block is a message that began and has not ended, with the last field of each name. `TextLists`: what was listed
is, in their order, the messages that have ended; a line ends at most one, and ends no other.

**Statistics.** Four invariants (`StatIInv`, module `StatsProofs`). `Transactions`: what a worker has executed and what it has left are
the statements of its batch for one reading of the clock, and those are in one order of rows
(`StatementsOrderly`), which is why nobody waits in a circle: of those who wait, the one whose next row is last
in that order waits for none of the others. `Balance`: an event that happened is in an hour's row, or due (in
a batch, in a channel, or lost). It moves only with a commit, which writes what the batch has
(`BatchIsRecorded`, an induction over its statements). `DaysAgree`: a day has what its hours have. `Readings`: an
answer holds at most what its rows hold now, and what it holds is ordered as the queries were asked. A later
query for more sees rows that only grew. Sums over buckets come from `Recursion` (`SumIsPartial`).
`WindowsNest` needs that the hours that are listed begin on a day that is listed
(`(Hours - 1) * HourLen <= (Days - 1) * DayLen`), and that a day is a number of hours; the bound
`Hours * HourLen <= Days * DayLen`, on which the model relied before, is weaker: a window of hours may then begin
within the day before the first one listed. With 48 hours and 30 days both hold. Two counted
kinds stand for the eight of the code.

Only model-checked: the liveness properties, as the prover does not handle fairness;
and `InboxStartup`, whose one property is violated.

## 6. Not modelled, and the plan

Left to model, if it is wanted: the forwarders in JS, Python, Ruby and Go, whose loop
is that of the Rust one but whose details were not translated; the paging and the
filters of the font search; the CREATE statements of the migrations, which are
idempotent and run under the advisory lock.

Left out for good:

* cryptography (signatures, sealed boxes, hashing) and the proof-of-work solvers: a
  loop around a hash; HTML pages, parsing of JSON and XML payloads, configuration:
  pure or plain I/O. No interaction of several actors depends on them beyond what the
  models take as nondeterministic;
* the estimate of unique visitors: a logarithm. `Stats` has the bitmaps it is made from;
* one pool of connections: `migrate` holds one and needs another, so that a server with
  `DATABASE_MAX_CONNECTIONS=1` waits for itself at its start; no handler holds two.

Hazards that no property covers have a note in `PROJECT.json` that says why.
