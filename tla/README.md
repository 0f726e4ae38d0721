# Verification of Energy Manager

Energy Manager is a monitoring platform for energy plants. The same Python
package (`apps/api/energy_manager`) runs as an **Edge** next to the plant
(SQLite) or as a **Control Room** for a fleet of Edges (PostgreSQL). The Edge
polls Modbus devices, keeps their samples, raises alarms, serves a web client,
and sends every sample to the Control Room, which keeps it for a while and
keeps a summary per minute for years.

This directory holds TLA+ modules of that program, the TLC configurations that
check them on small instances, and TLAPS proofs of the main results for every
size. `PROJECT.json` lists components, runs, mutants, the map from definitions
to source lines, findings, hazards and theorems.

## Inventory

| component | state | operations | what makes it correct |
|---|---|---|---|
| synchronisation, Edge side (`sync.py`) | `sync_outbox` rows; runs of `sync_once` in progress | select, reject, post, record sent or failed; `sync_loop` every 10 s and `POST /api/sync/run` | no undelivered row is dropped, the outbox drains, sent means accepted |
| ingest (`main.py` `ingest_batch`, `rollups.py`, `contracts.py`) | `ingested_batches`, `ingested_events`, `telemetry_samples`, `telemetry_rollups`, `remote_devices`, `edges` | `POST /api/ingest/batches` | each row stored and counted once, rollups exact, the inventory is the Edge's |
| retention, backup, restore (`maintenance.py`, `restore-edge.sh`) | the same tables, backup files | hourly retention, daily backup, manual restore | nothing pending is deleted, markers outlive what they protect |
| polling (`polling.py`, `decoder.py`) | pooled sessions, locks, device status, cycle counters | `polling_loop` every 5 s, manual poll | a removed device stays removed, one session per endpoint, the loop survives |
| alarms (`alarms.py`, `main.py`) | rules, events | evaluation in every poll; acknowledge, close, deactivate from the UI | one active event per rule and device, closed on recovery only |
| plant configuration (`main.py`) | connections, devices, assets, bindings | CRUD handlers in a thread pool | no duplicate address, the asset tree is a tree, one primary position |
| catalogue, commissioning, seed | profiles, versions | import, activate, seed on start | an imported version is not overwritten |
| KPI, tariffs | definitions, prices | pure computations | equal to their definitions |
| digital twin lab, simulator | runs; scenario and faults of each simulator | commands fanned out to simulators | all simulators agree, each run ends |
| Control Room administration (`control_room.py`, `main.py`) | tenants, sites, edges, users | CRUD, activation | an administrator remains, scopes hold |
| authentication, rate limiter | tokens, buckets | login, limits | the limit holds under concurrency |
| system status, host inventory, VPN | a cache with a lock | reads, invalidation | no stale status after a change |
| energy reports (`energy_reporting.py`, `kpi.py`) | none of its own: readings, tree and bindings | usage of a period, breakdown by meter | no energy is invented or counted twice |
| web client: shell (`main.tsx`, `energy-context-rail.tsx`) | token and identity in memory and `localStorage`, page, loaded data, live tree | login, `/me`, logout, navigation, timer every 5 s | what is shown is the session's own and allowed to its role; waiting ends; the tree catches up |
| web client: views (`Plant` in `main.tsx`, `device-removal.tsx`, `device-provisioning-wizard.tsx`, `modbus-discovery.tsx`, `plant-tree-editor.tsx`, `communications-center.tsx`, `monitoring-studio.tsx`, `system-center.tsx`) | lists loaded last, forms, dialogs, requests in flight | load, edit, save, remove, install, move | a save means what the form shows, what is reported has happened, the tree is a tree |
| web client: other studios | lists and forms | load, save | not modelled (below) |

How they interact. One process runs an event loop. `async def` handlers
(ingest, manual poll, manual sync, digital twin) and the three loops
(`polling_loop`, `sync_loop`, `maintenance_loop`) interleave only where they
await; `def` handlers run in a thread pool and interleave with everything at
the level of database transactions. Edge and Control Room talk through one HTTP
request per batch. What is hard: requests that are lost, answered too late or
repeated; two runs of `sync_once` at once; the end of the process between two
commits; a restored backup; and retention that deletes what deduplication
needs. In the browser one thread runs handlers up to their `await`, nothing is
cancelled, and hardly any button is disabled meanwhile: answers come back in any
order to forms that show something else by then. `PROJECT.json` lists these
hazards at their lines.

## Modules

| module | what it models |
|---|---|
| `Telemetry` | the rows that travel and the clock (days) |
| `EdgeOutbox` | the outbox, `sync_once` and its two callers, outbox retention, backup, restore, crash; may be run on its own against a Control Room that answers or fails |
| `ControlRoomIngest` | `ingest_batch`, the rollups, the fleet record, retention in the Control Room; may be run on its own against an Edge that delivers any batch |
| `SyncPipeline` | both joined by requests, with requests nobody waits for any more |
| `TelemetryLedger` | the abstract promise: a row is delivered at most once, counted then until the count of its minute is retired, and acknowledged only after |
| `Alarms` | alarm rules and events: the evaluation in a poll, and acknowledge, close, activate from the web client; on its own it allows polls of any outcome at any time |
| `DeviceMonitoring` | extends `Alarms` by the polls that cause the evaluations: cycles, manual polls, the lock of each channel, device rows and their handlers, restarts |
| `PollSessions` | what happens inside one exchange: the pool of Modbus clients, reconnection and the second attempt of a read |
| `WebSession` | login, token, identity, page and the data of generic pages |
| `EnergyRail` | the live tree beside the page, with its timer |
| `WebShell` | both: `App` |
| `PlantView` | the plant page: devices, the form of one, removal, the wizard's end |
| `ProvisioningWizard` | the guided installation and the server's handler for it |
| `DiscoveryDialog` | search and installation of Modbus devices |
| `TreeEditor` | the energy tree: open editors and the server's handlers, check and write apart |
| `CommunicationsCenter` | channels and their form, the server's handlers for channels |
| `EnergySettings` | the two editors of the energy settings and the handler that stores them |
| `EnergyReport` | the server's report: increments of counters, energy of a period, breakdown by the meters of the tree |
| `WebClient` | the client as a whole: the shell, one view, or the report, each on its own |
| `EdgeOutboxProofs`, `ControlRoomIngestProofs`, `SyncPipelineProofs` | theorems about the synchronisation, part by part and composed |
| `DeviceMonitoringProofs`, `PollSessionsProofs` | theorems about the alarms and the monitoring; about the sessions |
| `EnergyTreeProofs`, `WebViewProofs` | theorems about the tree and the report; about the session, the other views and the client as a whole |
| `FiniteSums` | lemmas on finite sets for these proofs: sums, smallest and largest values, repeated steps, induction |
| `MC...` | payloads, rules, conditions, accounts and protocols for TLC |

### Correspondence with the code: synchronisation

* **Rows.** A row is one `SyncOutbox` record; its UUID is the `event_id`. Rows
  are numbered in `created_at` order. `outbox[r]` is where the record is,
  `nextAttempt[r]` what `next_attempt_at` allows: now, after a backoff (up to
  300 s), or after the 24 hours a refused row is put off. The counter
  `attempts` only sets the length of the backoff and is left out.
* **sync_once** does not await between its first select and the post, so
  `Collect` is one step: select the first `BatchLimit` (200) due rows, put off
  those `SyncEvent` refuses (`PoisonRow`), build the report, post. The Control
  Room's handler and the network are `Serve`, `CallFailed`; `RecordSent` and
  `RecordFailed` are what follows the await. `db.get` finds only rows that
  still exist (`Found`). Both callers use the same steps; only the loop is fair.
* **Exceptions.** Outside the `try` around the request an exception leaves
  `sync_once`: it ends an HTTP handler, but also `sync_loop` (`CollectRaises`,
  `RecordRaises`, phase `dead`). Only a restart brings the loop back.
* **Strays.** A request whose caller timed out, crashed or was stopped may still
  be processed, after any later request. It does not outlive the day.
* **ingest_batch** awaits nothing between the body and the commit, so it is one
  step: the batch marker answers a repeated batch, event markers skip repeated
  events, the others are stored, marked and rolled up. The batch id is a hash
  of the row ids in order; it is represented by their set. (Two rows of one
  `created_at` could be hashed in either order; the events are deduplicated
  all the same, so this only turns an `IngestDuplicate` into an `IngestNew`
  without new events.) Requests refused with 401, 413 or 422 change nothing and
  are failed requests for the Edge.
* **Rollups.** The average is kept as the total it stands for. Units are left
  out.
* **Retention.** `Expired` is the comparison of every window. The step is one
  transaction. The two-minute limit for a silent Edge is `GoSilent`.
* **Backup and restore.** A backup is a copy of outbox and devices; `Restore`
  loses the rows created since. Which backups `prune_backups` keeps is
  abstracted to "at most `KeptBackups`, the newest among them".
* **History variables.** `accepted` and `acceptedAt` exist only in the model.

### Correspondence with the code: alarms and monitoring

* **Events.** `events[d][source][s]` is the status of the event in slot `s` of a
  device and a source (a rule, or one of the two health alarms). A slot is
  reused once its event is closed: closed events are history, and no code reads
  them again except an acknowledgement in progress, which keeps its slot.
* **Evaluation.** `Evaluate` is `evaluate_alarm_rules` followed by
  `evaluate_device_health` in the transaction of one poll. `Located` is
  their select of the active event: any one of them (`.limit(1)` without an
  order).
* **Acknowledge** checks that the event is open and writes `acknowledged` by
  its id later. A poll that closes the event in between is overwritten, so the
  handler is two steps. `RemoveRules` and `ForgetAcks` are what the removal of a
  device and the end of the process do to the alarms; `DeviceMonitoring` takes
  them with `WriteDevice` and `Restart`. Close and rule changes read and write in an order that
  only their last write shows, and are one step. A deleted, archived and
  inactive rule behave alike towards evaluation.
* **poll_device** is three steps: it reads the row and queues at the lock; it
  exchanges; it reads the row again and stores the outcome. It stores nothing if an
  exception leaves it, outside its `try` or in its commit (`PollRaises`). The early
  return for other kinds of channels is not reached: `validate_connection_config`
  refuses to store one (`commissioning.py:19`). Nothing is awaited
  between the exchange and the commit, and another connection to SQLite cannot
  write while a transaction does, so `FinishPoll` is one step. What happens in
  the exchange is `PollSessions`. Its outcome depends on the condition of the
  device (`field`), which may change at any time; a fault shorter than one
  exchange is a condition that changes twice.
* **Handlers** read a row and write it back in two steps (`ReadDevice`,
  `WriteDevice`), and the write takes only the columns that differ from what
  was read (`Flushed`), because that is what SQLAlchemy emits. An update may
  move a device to another channel: polls that have begun stay at the lock of the
  old one.
* **Counters.** `consecutive_errors` is cut at `AlarmAfter`: only the comparison
  with 3 reads it. `_device_cycles` wraps at `CycleLength`, a common multiple
  of the periods, because only the remainders are read.
* A row is created with fresh identity for every new device; a model with a
  finite `Device` creates each once.

### Correspondence with the code: sessions

* **Keys.** `_client_key` gives a direct TCP device a key of its own and the
  devices of a bus or gateway one key for their connection; all that use a key
  use one endpoint, so `config` maps keys to endpoints, and `Configure` respects
  `_assert_device_address_available`.
* **A poll** captures key and endpoint before it waits for the lock, and uses
  them after. `NewClient`, `ReuseClient` are `_pooled_client`; `ReadRaises` to
  `RereadRaises` are the recovery in `_read_with_session_recovery`; `Fail` is the
  handler around the exchange. `lock[k]` is the queue of the lock of a key; its
  head is the holder. A read is one step: no other step depends on its middle.
* **Clients** are objects that can be made again once nothing refers to them
  (`Fresh`). `target` is the signature a client was made for, `open` whether its
  socket is. The automatic reconnection of pymodbus is not modelled: the code
  connects by itself when `connected` is false.
* `abandoned` is a history variable: the open sessions a failed recovery left
  behind.

### Correspondence with the code: web client

* **Requests.** A handler up to its first `await` is one action, which puts a
  request in the set of its component (`calls`, `requests`, `orders`, `asked`,
  ...); its answer is another, taken in any order, whatever is shown by then. A
  request may be refused or lost, before or after the server acted. An answer
  for a component that is gone does nothing (`Unmounted`).
* **Components** are records of their `useState` values; effects run in the step
  that changes what they depend on. Every button is an action, whose guard is
  that the button is shown and enabled (`Free`, `FormAt`, `AtPage`, ...). Of a
  text only what the properties tell apart is kept: whether it is empty, a
  number or a path.
* **Session.** A token stands for the user it was issued to. `stored` is
  `localStorage`, `token` and `me` the state of `App`. `Reload` starts again from
  what is stored. Roles and pages follow `pageRoles`.
* **Live tree.** A version of the measurements stands for an answer of
  `/operations/tree`; requests in flight are named by the version the server
  answers with, so two polls may come back in either order.
* **Plant.** `plant.shown` is the list loaded last, `site` the server's table,
  which other clients change (`ForeignChange`). `Blank` is the page that React
  takes away because a form names a channel that is gone (`main.tsx:1657`,
  without an error boundary).
* **Wizard.** `sent` is the installation in flight as it was when the button was
  pressed; the parent's `channels` and `assets` may change under the wizard.
  The first poll has two outcomes that need not agree: whether the device answered
  it (`good`), and whether the request was answered (`answered`), which alone decides
  about the warning. `manual_poll` answers a failed exchange like a good one.
* **Search.** `Order` keeps the marks of the render in which "install" was
  pressed, because the handler closes over them.
* **Tree.** `Check` and `Write` are the two halves of a handler, which runs in a
  thread of its own. `drawn[c]` is the tree a client shows, `late[c]` the trees it
  asked for and gets only later, perhaps after a newer one. `Gone` marks a node that
  does not exist. `overtaken` exists only in the model: another handler wrote since
  this one checked.
* **Channels.** Of a channel the kind and the sort of its port are kept: `edit()`
  fills both port fields of the form with one value.
* **Settings.** One optional limit stands for the contracted power and the two
  budgets, as the server and each editor represent "not set" differently
  (`null`, an empty text, zero). `base` and `touched` say what the draft was
  loaded with and whether it was typed in since; they exist only in the model.
  `SaveFailed` stores the limit or not: the answer may be lost, and the
  preferences are saved by two requests of which one may fail.
* **Report.** Time is counted in polls: between two polls a unit of energy flows
  to one node, and every meter at or above it counts it. Readings may be missed
  and counters reset. `Increments`, `Usage`, `Rows` and `Unattributed` are
  `counter_samples`, `counter_usage` and the breakdown of `build_energy_report`;
  a meter is bound to one node, and meters are numbered as their bindings were
  created (`_primary_source` takes the first).
* **Composition.** The views share no state in the browser: `App` mounts one
  page, which loads what it shows. `WebClient` therefore explores each in turn
  (`Only`) while the others wait in an initial state; `WebShell` composes the two
  that are mounted together.

### Assumptions on the environment

Both installations read the same clock. Rows of one minute belong to one day.
A row whose acceptance the Edge does not know of is delivered again at most
`MaxRetryLag` days later (guards of `DayEnds`, `RestoreStep` and `Deliver`):
retries come every few minutes as long as the service runs, so a longer delay
takes an Edge that stays off or disconnected, or a backup that old.
There is one process per database, as in the deployment files.

## Runs

| run | question | bounds |
|---|---|---|
| `outbox` | is an undelivered row ever dropped, and does the outbox drain past a refused row at its head, past backoffs and beside a second run, as long as the loop lives? | 3 rows (one refused), batches of 1, 1 device, two runs, 2 days, 1 mishap, 1 exception |
| `ingest` | are rollups exact and do they agree with the raw samples for any sequence of batches, is `DedupInv` an invariant, and is a silent Edge shown offline? | 3 rows in 2 minutes (one not good, one without value), 3 days, windows of 1 day |
| `pipeline_crash_restore` | do Edge and Control Room, with two concurrent runs of `sync_once`, together count every row once and mark it sent only then? Do they implement the ledger, also when rollups expire? Is `IInv` an invariant? | 2 rows, 3 days, rollups of 1 day, 1 mishap, two runs |
| `monitoring` | can a device be shown online while it has a health alarm, whatever handlers, manual polls and restarts come between? Is a removal final once what it overtook has ended? | 1 device with 2 groups (one read every second cycle), 2 channels between which it is moved, 1 handler in progress, 1 restart, a loop that may die, polls that may raise, alarms after 2 errors, no late acknowledgement |
| `health_liveness` | do lasting failures end up reported and recoveries end the alarms; does the loop go on polling; may a source have two open events? | 1 device on 1 channel, alarms after 3 errors, 1 late acknowledgement, 2 slots, 1 handler in progress; no exception of the database, which could end the loop or undo a poll for ever |
| `sessions` | are sessions mixed up, lost or used again after a failed recovery, and does every poll end? | 1 key, 2 endpoints, 2 polls, 3 clients, up to 2 blocks, 1 abandoned session |
| `web_client` | is what the client shows, sends and reports right, whatever comes late, is lost or is changed meanwhile; does waiting end; does the live tree catch up; is the energy report right; is the tree of assets lost to races only? | 2 accounts of different roles, 2 devices, 2 channels, 2 models; 1 request of the user in flight in the plant page and the channels, 2 in the energy settings; 1 change by others; 2 nodes of the tree, one editor with one request (two for a reordering) and one late answer, 2 handlers; for the report every forest of 3 nodes and every place of 3 meters, 2 polls after the first, 1 fault |
| `tree_cycle` | (violated) is the tree a tree if two handlers run at once? | 2 nodes, 2 editors, 2 handlers |
| `late_retry` | (violated) are rows counted once if a retry may come later than the markers live? | 1 row, retries up to 2 days late, markers of 1 day |
| `sync_loop_dies` | (violated) does the outbox drain after one exception? | 2 rows, 1 exception |
| `slow_failure` | (violated) is a group that fails every time reported? | 1 device, groups read every cycle and every 6th |
| `removed_device_returns` | (violated) does a removed device stay removed? | 1 device, 1 handler |

Why the bounds suffice. Two rows give batches that overlap without being equal;
three add a row without a value and a second minute. Three days let a window of
one day be open, at its last day, and over. A mishap is a lost answer, a crash or
a restored backup, after which rows are delivered again beside the other run;
`DeliveryIsSafe` has no bound on mishaps. Rollups that live for one day expire in
the run of the pipeline, where the ledger retires their minutes. One device is enough
for alarms and monitoring because devices share only the queue of their bus;
what competes for that queue are scheduled and manual polls of the same device.
A second channel lets it be moved while its polls wait at the first.
Three errors are the code's limit where liveness depends on the count, and two
where only the order of steps matters. In the sessions one key is enough
because a client never leaves its key (`ClientsApart` in `PollSessionsProofs`);
its two polls, with an endpoint that changes, give the old and the new
configuration at one lock; three clients are what a recovery needs (the failed
one and its replacement) beside an abandoned one. In the web client one request
of the user in flight leaves the loads that follow it, which is what its answer
races with; two accounts of different roles are what a late identity can confuse.
In the tree of `web_client` one editor decides on trees of any age; two handlers
run at once for the two writes of a reordering, which cannot make a cycle by
themselves. The race of two moves is in `tree_cycle`, and the theorem
`OnlyRacesLoseTheTree` covers any number of editors and requests. In the report
three meters are the authoritative one, one below it and one below
that; three polls have a reading before a period, one in it, and one after a
fault. The safety theorems below hold without these bounds. `MaxRow`, `MaxDay`,
`MaxMishaps`, `MaxRaises`, `MaxAcks`, `MaxRequests`, `MaxRestarts`, `MaxBlocks`,
`MaxAbandoned`, `MaxVersion`, `MaxCalls`, `MaxCommCalls`, `MaxStudioCalls`,
`MaxForeign`, `MaxLate`, `MaxHandlers`, `LastPoll` and `MaxFaults` bound the runs.
`CHECK_DEADLOCK FALSE` is set for the synchronisation runs because they end when
rows, days and mishaps are used up, and for `web_client` because a report ends
with its last poll; in the others no state is a deadlock.

`MaxAcks = 0` in `monitoring` is a limit of the property, not of the model: with a late
acknowledgement two events of one source can be active, a recovery then closes
one per poll, and a device is shown online for a few polls while an alarm is
still there. `OnlyLateAcknowledgementsHide` proves, for any `MaxAcks`, that nothing
else leads there, and `RecoveryIsReported` (with `MaxAcks = 1`) shows that it does end.

Fairness. `OutboxFairness` asks for `Collect` by the loop, the end of every
request (httpx has a timeout of 10 s), the steps after it, and the end of
backoffs; not for manual runs, backups or restarts. `IngestFairness` asks for
retention only, which `maintenance_loop` repeats for ever because it catches
every exception of a cycle. `Fairness` of `DeviceMonitoring` asks for the
cycles of the loop (every 5 s), the start of each scheduled poll and the end of each
exchange (pymodbus has a timeout, `asyncio.Lock` serves waiters in order); not
for handlers, manual polls or the field. `FairSessionsSpec` asks for the steps
of each poll. `ClientSpec` asks, view by view, that requests which the client
waits for are answered or fail (the API and the browser give each an end), and
that the timer of the live tree fires; for `TreeCatchesUp` that a load repeated
for ever is answered, not failed, now and then (strong fairness of
`TreeAnswers`). It asks nothing of users and other clients. The pipeline, the
tree, the channels and the report are checked for safety only.

Each property of a passing run has a mutant: a definition marked "Mutant" that
changes the code's behaviour the way a plausible bug would and violates the
property in that run.

## Findings

1. **A late retry is counted twice** (`late_retry`). Idempotency markers live
   `control_raw_retention_days` (30, at least 1), rollups 3650 days. A row
   delivered again after its marker expired is added to its rollup a second
   time. Raw samples are safe (`RawSamplesAreUnique`): a sample expires no
   later than its marker.
2. **An exception ends the synchronisation** (`sync_loop_dies`). `sync_loop`
   does not guard `sync_once`, whose selects, commits and snapshot validation
   are outside its own `try`. `polling_loop` has the same shape.
3. **A failing slow group is never reported** (`slow_failure`). Cycles that read
   only the fast group succeed and reset `consecutive_errors`; a group read
   every 6th or 60th cycle never fails three times in a row.
4. **A removed device returns** (`removed_device_returns`). A poll in progress
   writes the status over `removed`. `RemovalSettles` shows the limit of it: once the
   polls and handlers begun before the removal have ended, it is final.
5. **Two moves make a cycle** (`tree_cycle`). `update_asset` checks for cycles and
   then writes; two handlers in parallel threads each pass the check. The loop of
   `isDescendant` in the client and that of `update_asset` then do not end.
   Nothing else loses the tree (`OnlyRacesLoseTheTree`).

### Disagreements

Other places where code and documents differ, seen while modelling, that have
no run of their own:

* The wizard says "Primo ciclo di acquisizione completato" (first acquisition cycle
  completed, `device-provisioning-wizard.tsx:565`) after a first poll that failed. It
  warns that no value has arrived (`:210`) only if the request fails (`:204`), but
  `poll_device` keeps a failed exchange to itself (`polling.py:261`), sets the device
  offline, and `manual_poll` (`main.py:1332`) answers 200 with a count that the
  wizard ignores. `Polled` has all four cases; `LastPageIsReal`, that the last page
  follows an installation, is what remains true.
* Events of inactive or archived rules and of removed devices are not evaluated any
  more (`alarms.py:36`) and stay open until closed by hand; neither the code nor its
  documents say what should become of them.
* Removed devices stay in the inventory of the Control Room: the report leaves
  them out and the ingest (`main.py:1812`) neither deletes nor marks any, while
  `docs/control-room.md:7` speaks of the Edge's inventory.
* After a late acknowledgement (`main.py:1676`) a source can have two active
  events, where the docstring of
  `evaluate_alarm_rules` (`alarms.py:34`) promises one. `OneOpenEvent` is
  what remains true.
* A communication error (`polling.py:290`) closes an active data quality alarm,
  although the data has not become good (`alarms.py:74`).
* After a failed recovery the handler closes the client it knows
  (`polling.py:136`, `polling.py:266`); the replacement leaves the pool without
  being closed, beside the comment "Never retain a session after a failed
  recovery" (`polling.py:263`). `OpenSessionsAreKnown` shows that this is the
  only way to lose one.
* The session of a removed or moved device stays open in the pool
  (`main.py:1317`), and a new device at the same endpoint (`main.py:1142`)
  opens a second one, while `docs/edge-provisioning.md:17` wants one session
  per device.
* A save in "Consumi e performance" is refused as long as one of the three limits
  is not set and was not typed in: `Number(null)` is zero
  (`monitoring-studio.tsx:204`), and the server wants a positive number or null
  (`main.py:216`). Typing a value and removing it again sends null, and so does
  the system center (`system-center.tsx:101`). What is stored is never wrong
  (`UntouchedIsKept`).
* The report shown may be of another period than the tab chosen, and a load that
  ends late replaces a draft that is being edited (`monitoring-studio.tsx:159`).
* If the first load of the system center fails, the page shows that it loads, and
  neither the error nor a button (`system-center.tsx:118`).
* A channel of the kind RTU may keep "502" as its serial port: the form's serial
  field takes the number of a TCP channel (`communications-center.tsx:130`), and
  the server accepts any text. `ChannelsAreKept` shows that the opposite, a path
  as a TCP port, is refused.

## Proofs

Every invariant of a passing run is the conclusion of a theorem, and so are the
action properties `PendingIsKept`, `RemovalSettles` and `TreeLostToRacesOnly` and
the refinement `ImplementsLedger`. The theorems
hold for every value of the constants that satisfies the named assumptions
(`BoundsAssumption`, `PayloadAssumption`, `OutboxAssumption`, `IngestAssumption`,
`SameDevices`, `AlarmAssumption`, `MonitoringAssumption`, `SessionAssumption`,
`RailAssumption`, `WizardAssumption`, `NoChoiceIsNoRecord`, `PlantAssumption`,
`DiscoveryAssumption`, `TreeAssumption`, `CommAssumption`, `SettingsAssumption`,
`UnloadedIsNoValue`, `ReportAssumption`), which TLC evaluates in the runs of the
modules that state them. Further hypotheses, where a theorem has one, are
`RetriesWithinWindow` (finding 1 shows why) and `MaxAcks = 0`; for each of them a
theorem says what holds without it.

**Induction.** The induction theorems of the library take a predicate, which the
provers cannot instantiate. `FiniteSums` collects the sets that have the property
in a set instead: a family of subsets of a finite set has a smallest member
(`SmallestMember`, from the well-founded order of subsets), so a family that holds
the empty set and grows by elements holds the whole set (`GrowByElements`,
`CountUp`). With it follow what the folds behind `SumSet`, `Max` and `Min` yield when
elements are added, and that a set to which parents are added as often as there are
nodes is closed (`ClosedAfterAll`).

* `OutboxTypeCorrect`, `IngestTypeCorrect`, `TypeCorrect`,
  `MonitoringTypeCorrect`, `SessionsTypeCorrect`: the type invariants (the run of
  the pipeline checks that of the ingest, as a part of `TypeOK`). The lemmas on single steps are
  stated for the parts and reused for the compositions.
* `PendingIsNeverDropped`: `OutboxSpec => PendingIsKept`. Of all steps only
  `RecordSent`, `PurgeSent` and `Restore` change a row's place; `PurgeSent`
  takes sent rows only.
* `IngestDedups`: `IngestSpec => []DedupInv` under `RetriesWithinWindow`. The
  core is `MarkersLast`: an accepted row has a marker or was accepted more than
  `RetentionDays` ago; a row delivered again within the window is then
  recognised.
* `RawSamplesAreUnique`: without `RetriesWithinWindow`, hence for retries
  however late. Its invariant says that a stored sample has a marker no older
  than the sample; as both are deleted by the same window in one step, the
  sample goes first.
* `DeliveryInvariant` and `DeliveryIsSafe`: `Spec => []IInv` and `Spec => [](AtMostOnce /\ SentWasAccepted /\
  BatchMarkerCovers)` under `RetriesWithinWindow`. `IInv` adds to `DedupInv`
  that everything which may still be delivered (pending rows, rows of runs in
  progress, strays) is `Retriable` now, that an answered run and the sent rows
  of a backup carry accepted rows only, and that rows travel only once sampled.
  Without these the answer of a run would not imply the acceptance of its rows,
  and a restore could bring back a false "sent".
* `SentRowsWereAccepted`: `Spec => []SentWasAccepted` without
  `RetriesWithinWindow`. `DeliveryIsSafe` needs it for "at most once"; that no row is
  marked sent which the Control Room does not have must not depend on how late a
  retry comes. `SentInv` keeps from `IInv` what is needed for that alone: markers,
  batch markers, answers and backups tell of accepted rows only, and acceptance is
  never undone, so a marker that expires takes nothing away.
* `RollupsAreExact`, `PipelineRollupsAreExact`: `RollupIsExact` of the ingest and of
  the pipeline, for any number of rows and any values, under `RetriesWithinWindow`.
  `RollupInv` adds that a minute in which nothing was counted has no minimum yet.
  One step adds the new events of a batch to the rollups of their minutes; that
  counts, total, minimum, maximum and last value are then those of the larger set
  is arithmetic of folds (`FiniteSums`), and that the rows were not counted before
  is `DedupInv`.
* `RawAndRollupsAgree`: from `RollupInv` and `RawKeptInv`: within its window the
  sample of an accepted row is stored.
* `PipelineImplementsLedger`: `Spec => ImplementsLedger` under `RetriesWithinWindow`.
  Each step is mapped to the ledger's: `SampleStep` records, an `IngestNew` delivers the
  rows not accepted before and counts them, also when nobody waits for the answer,
  `RecordSent` acknowledges, a restore forgets, the end of a day retires the minutes
  whose rollups expire; all others stutter. `IInv` gives the guards of
  the ledger's actions, `RollupInv` that what is counted is what was delivered.
* `AlarmsAreSafe`: one open event per device and source, for any rules, values
  and number of acknowledgements in progress. The argument: a poll raises an event
  only when it finds none active, and an acknowledgement never opens one.
* `MonitoringImplementsAlarms`: `Spec => AlarmsSpec`. What `poll_device` reports of a
  device, its counter included, is a report that the alarms on their own allow
  (`ReportsAreConsistent`); a removal turns off the rules of the device and a restart
  forgets acknowledgements. `MonitoringRaisesOnce`, one open event with polls,
  handlers and restarts, is then a corollary.
* `Hysteresis`: no value both raises and clears a rule, for any rule
  `create_alarm_rule` accepts, even one whose deadband exceeds its interval.
* `OnlyLateAcknowledgementsHide`: for any number of acknowledgements, a step that
  gives a source a second active event, or a device shown online a health alarm, is
  an acknowledgement of an event that was closed since it was read.
* `RemovalsSettle`: `Spec => RemovalSettles`. A removed device that is inactive and
  has neither a poll nor a handler in progress (`Settled`) stays so: a scheduled poll
  reads its row again before it begins, a manual poll wants an active device, and
  handlers refuse a removed one. That it may still be selected (`due`) does no harm.
* `HealthAlarmsEnd`: `Spec => []HealthInv` if `MaxAcks = 0`, from the same lemma. To "an online
  device has no health alarm" the invariant adds that a source has one active
  event at most, so that the one that a poll closes is the last.
* `SessionsAreOwn`, `SessionsAreKnown`, `FailuresAreNotReused`, from
  `SessionsInvariant`: `ReadsItsOwnSession`, `OpenSessionsAreKnown` and
  `FailedSessionsAreNotReused` for any number of keys, endpoints, polls and
  clients. The invariant `SessionsInv` says that the queue of a lock holds the
  polls of its key, each once, that the exchanging poll is its head, that this
  poll's client is the one pooled under its key and no key shares it, and that
  the client of a poll in recovery is closed and out of the pool. A poll that
  holds the lock of a key therefore disturbs no poll of another key
  (`OthersKept`), and all its steps have one shape (`StepOf`, `StepSafe`).
* `IdentityIsSafe`, `PagesAreSafe`, `ReloadIsSafe`: `IdentityIsCurrent`,
  `PageIsAllowed` and `ReloadKeepsSession` for any users, roles and pages. The
  code takes over an answer of `/me` without looking at the token. That this is
  safe follows from `SessionInv`: a `/me` in flight is the current token's,
  while one is there is no identity yet and so neither a page nor a logout
  button, and nobody signs in during a session. Loads in flight are of pages
  that the role allows.
* `InstallationsAreComplete` and `LastPageFollowsInstallation`: `InstallsAreComplete`
  and `LastPageIsReal` for any drivers and channels. `StepComplete` looks at one step
  only; that the installation is complete although steps are revisited follows
  from `WizardInv`: a later step is shown only while the earlier ones are
  complete (the fields of a step are offered on that step only, and a change of
  the model resets the channel), and the wizard is busy exactly while an
  installation is in flight.
* `SavesAreOwn`: `SavesAreConsistent` for any plant. With the types it is
  inductive as it stands: whatever fills, changes or resets the form does it for
  the device and its values in one step, and an answer that arrives late
  resets both.
* `InstalledUnitsAreKnown`: `OffersOnlyNew` for any units. The marks written by
  an answer are those of an older render; that none is lost follows from
  `DiscoveryInv`: one installation is in flight at a time, and while it is the
  marks do not change.
* `FormsAndChannelsAreKept`: `ChannelsAreKept` for any channels, from the types
  alone.
* `UntouchedLimitsAreKept`: `UntouchedIsKept` for any periods. `SettingsInv` adds
  that a draft nobody touched is the limit as it was read, and that zero is
  neither stored nor read. So `Number(null)`, which is zero, can only be refused.
* `OnlyRacesLoseTheTree`: `TreeSpec => TreeLostToRacesOnly` for any nodes, any number
  of editors with trees of any age, and any number of handlers at once. `TreeInv`
  adds that what a handler has checked is still so when it writes, unless another
  one wrote in between (`ChecksLast`). That a valid move keeps the tree
  (`ValidWriteKeepsATree`) needs new ranks: the check walked from the new parent to
  the root without meeting the node, so the new parent and what is above it keep their ranks
  and all others are lifted beyond them; `RanksAreSmall` brings ranks back into range.
  Finding 5 is therefore the only way to lose the tree.
* `ReportsAreConsumed`: `ReportSpec => []ReportedWasConsumed` for any tree, any meters
  and any readings missed or counters reset. `ReportInv` says that two readings of a
  meter differ by what flowed between them, unless the counter was reset, and then
  the later one shows no more than that. What `Increments` adds up telescopes.
* `RestsAreReal`: `ReportSpec => []UnattributedIsReal`. With the hierarchy right the
  rows' sets of units are disjoint subsets of what the authoritative meter counted,
  so the rest is what they leave (`Upwards`, the nodes above a node, is shown closed
  by `ClosedAfterAll`).
* `ClientTypesAreKept`, `ClientIsSafe` and `ClientLosesTheTreeToRaces`: of
  `ClientSpec`, the type invariant of all views; the nine properties of session and
  views above and the two of the report; and `TreeLostToRacesOnly`. Every step of the
  client is a step or a stutter of each view, and `OpenLive`, the one step of the shell
  that is not the session's own, is a `Navigate` to a page of every role.

Only model-checked: liveness (`OutboxDrainsWhileLoopRuns`, `SilentEdgeGoesOffline`,
`PersistentFailureIsReported`, `RecoveryIsReported`, `EveryActiveDeviceIsPolled`,
`EveryPollEnds`, `WaitingEnds`, `TreeCatchesUp`). It needs fairness and ENABLED, which
the prover does not treat.

## Not modelled

* **Web client**: the studios `control-room-studio`, `energy-studio`,
  `energy-planning`, `operations`, `commissioning`, `user-admin`, `kpi-studio`,
  `history-studio`, `compliance` and `digital-twin-lab`, the dashboards, and the
  status tab of the system center beyond its loads. They are lists with forms of
  the shape that `PlantView` and `EnergySettings` show. Handlers of `Plant` that
  no tab or button reaches any more (`main.tsx:902`, `main.tsx:1012`) are left
  out, and so is the drawing of every view.
* **Plant configuration on the server**: addresses, uniqueness of primary
  bindings, deletion of connections. They are checks followed by an insert, with
  the hazard that `TreeEditor` shows for moves.
* **Energy**: calendar of the periods, tariffs, power, photovoltaics, budgets and
  KPI definitions: arithmetic on real numbers and dates, which TLC cannot
  evaluate, and sums for which a reference definition would be the code again.
* **Polling**: `build_read_blocks` and decoding, plausibility of single values;
  retention of the Edge's own samples.
* **Digital Twin Lab and simulator, driver catalogue, commissioning and seed,
  Control Room administration, rate limiter, status cache**: could be modelled
  like `DeviceMonitoring`; their hazards are commands that reach some simulators
  only, an activated version that the seed reverts, and a limit checked before
  it is counted.
* **Out of reach**: Modbus framing, HTTP, JSON and HMAC (pure data), password
  hashing, VPN and host commands (external), the network part of the search for
  devices, migrations and deployment files.
