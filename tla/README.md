# evsys in TLA+

evsys is a central system for electric vehicle charging: charge points connect
to it over WebSockets and speak OCPP 1.6, it keeps their state in MongoDB and
in memory, starts and closes charging transactions, limits the power of a
location and reports to operators. This directory holds a specification of its
core in TLA+: modules translated from the Go source, TLC configurations that
check them on small instances, and TLAPS proofs of the theorems that hold for
every size.

Paths such as `server/server.go` are relative to the root of the repository.
`PROJECT.json` maps every definition to the lines it models, and lists the
runs, the hazards they are aimed at and the theorems.

## 1. Inventory

### How the parts fit together

    charge point <-> WebSocket (readPump, writePump) <-> Pool goroutine
                          |                                  ^
                          v                                  | pool.send
                    CentralSystem.handleIncoming...          |
                          |                                  |
                          v                                  |
                    SystemHandler (h.mux) ---- SendRequest --+
                     |       |       |                       |
                 MongoDB  Trigger  LoadBalancer -- SendRequestWithResponse
                     |             (lb.mutex)
                  Billing
                     |
                 notifyEventListeners --> Telegram bot, OCPI client

The read pump of a connection handles its messages one at a time, in its own
goroutine. The handlers of OCPP 1.6 (except `OnMeterValues`) hold `h.mux` from
start to end and write the database several times meanwhile. Everything else
is a goroutine of its own: the ticker that closes abandoned transactions,
sweeps started by status notifications, reconciliations started by boot
notifications, power checks, capability reads, verdicts on charging profiles,
and the reports that a charge point went online or offline. None of them shares
a lock with the database, and a database call can fail by itself: each opens
its own connection, and most callers log the error and go on. Every event has
a goroutine too: it hands the event to the Telegram bot over a channel and then
posts it to the OCPI partner. An authorization may wait for that partner, with
`h.mux` held.

### Components

| Component | State | Operations | What makes it correct |
|---|---|---|---|
| Transaction lifecycle, `server/system_handler.go` | connectors and registered ids in memory; transactions, connectors, meter values in MongoDB; the next id | Start/StopTransaction, MeterValues, Status- and BootNotification, sweep, reconciliation, OnStart | ids are unique over restarts, a connector is released only after its transaction is finished, nothing abandoned stays open, meter values survive until they are used |
| Pending calls, `server/server.go` | `pending`, `fireAndForget`, `pool.send` | SendRequest, SendRequestWithResponse, ResolveResponse, deadlines | an answer finds its caller, no entry leaks, no pump blocks, every call returns |
| Connection pool, `server/server.go` | `pool.clients`, the channels of pool and sockets, `is_online` | upgrade, replace, register per message, removal by id, online reports | a reconnecting charge point ends up registered and online, a dead socket is never a client, a loss is noticed |
| Load balancer, `power/` | limits on connector and transaction documents, capability cache | CheckPowerLimit, discovery, verdicts, retries | every session is limited, slots are not shared, refusals are learned from, limits of idle connectors go away |
| Trigger, `server/trigger.go` | the connectors polled for meter values | Register, Unregister, poll | each running transaction is polled, no finished one is |
| Migrations, `internal/migrations.go` | schema version | RunMigrations | applied in order, safe to run again after a crash |
| Routing, `server/central_system.go`, `server/message.go` | protocol version per charge point | parse, dispatch | a message reaches the handler of the protocol of its connection |
| Billing, `billing/`, `server/system_handler.go` | the plan, figures and amount of a transaction, its meter values, the last reading and the power gauge, the cached default plan | choice of a plan, OnMeterValue, OnTransactionFinished, MeterValues, stop, sweep | the amount is that of the figures stored, a user gets a plan, a sweep bills what the last reading showed, the gauge falls to zero |
| Admission, `server/system_handler.go` | documents and states of charge points, tags | getChargePoint, addChargePoint, Authorize, OnOnlineStatusChanged | a revoked tag is refused, nobody but the operator enables one, a handler never hangs, online is what the connection is |
| Notifications, `telegram/`, `ocpi/` | subscriptions in memory and database, `b.event`, `b.send`, posts under way | subscribe, unsubscribe, event, post with retries | what the bot says of a subscription is so, subscribers and partner are told |
| HTTP API, `api/`, `server/central_system.go` | none | which command a request becomes | a command fits the protocol of the charge point |
| Meter configuration on boot, `server/system_handler.go` | configuration keys of a charge point | merge of measurands | nothing configured is lost, nothing is written twice |
| Metrics, logger, configuration, OCPP types | none that charging reads | formatting and I/O | - |

### What is hard

Handlers next to sweeps that hold stale copies; the process dying between two
writes; single database calls failing; requests repeated after a lost answer
and stops delivered late; answers that race their deadline; channels and sets at
their capacity; an old connection being closed while its successor is set up;
goroutines that report in an order nobody fixed; a balancer that works through
a snapshot while sessions start and stop; readings, sweeps and stops that work
out the figures of one session from copies of different age; lookups of the
same charge point without the lock; a lock held while a partner is asked.
`PROJECT.json` lists these hazards at
the line where each bites, with the properties that cover it.

## 2. Modules

| Module | Models |
|---|---|
| `Transactions` | the transaction lifecycle of `SystemHandler` and its collections |
| `TransactionLog` | the abstract promise of the transactions collection |
| `MCTransactions`, `TransactionsProofs` | instances, proofs |
| `PendingCalls`, `PendingCallsProofs` | calls to charge points and their answers |
| `Connections`, `ConnectionsProofs` | the pool, the sockets of one charge point and its online status |
| `PowerLimits`, `MCPowerLimits`, `PowerLimitsProofs` | the load balancer |
| `MeterPolling`, `MeterPollingProofs` | which connectors are asked for meter values |
| `Migrations`, `MigrationsProofs` | the schema migrations and their rollback |
| `Protocols` | the versions of OCPP: negotiation, types and routes, and whose handlers took a message |
| `Routing`, `MCRouting` | from the subprotocol of a connection to the handler of a message, and from an API command to the request sent |
| `Admission`, `MCAdmission` | which charge points and tags are let in, and the online status |
| `Subscriptions` | the users of the bot and what each was told |
| `Notifications`, `MCNotifications` | from an event to the subscribers of the bot and to the OCPI partner |
| `Billing`, `MCBilling`, `BillingProofs` | plans, prices, power rates and the figures of a session |
| `ConnectionsProofs`, `AnswersProofs` | hold two modules' proofs each: `Connections` and `Routing`, `Admission` and `Notifications` |

Definitions named `X_Something` are variants of `X` with a plausible bug, for
the mutants listed in `PROJECT.json`; no specification uses them.

### Transactions

`ptr`, `registered` and `nextId` are the memory of the process; `tx`, `dbPtr`
and `samples` are the collections `transactions`, `connectors` and
`meter_values`. `job` is the program counter of the one handler that holds
`h.mux`, `sweep` those of the goroutines in `checkAndFinishTransactions` or
`reconcileChargePointTransactions`. A handler that calls the database once is
one action (`OnStatusNotification`); `OnStartTransaction` and
`OnStopTransaction` are cut at every write, so that `Crash` and the sweeps come
in between: enter and decide, `AddTransaction`, `LinkConnector`, and enter,
`StopWrite`, `StopPurge`, `StopRelease`. Every early return of the two handlers
is a disjunct of its own (`StartBlocked`, `StartRepeated`, `StartRefused`,
`StartOverFinished`, `StartFresh`; `StopUnreadable`, `StopRepeated`,
`StopTaken`). A sweep is `Query`, `PickTransaction`, `ReadSamples`,
`WriteFinished`, `ReleaseConnector`, `PurgeSamples` and `SweepDone`, of which
only `ReleaseConnector` takes the mutex. `OnStart` runs before the server
accepts connections and is one step.

A database call named in `FaultKinds` may fail, up to `MaxFaults` times, with
the consequence that its caller gives the error. `Crash` loses memory, and all
goroutines with it.

The charge points are the environment: `session` is what the outlet believes,
`stopQ` the stops not yet seen answered. Any answer may be lost, and the
request comes again. Times are ages, capped at `StaleAge`, because the code only
compares them with the two thresholds `transactionReleaseGrace` (`GraceAge`)
and `transactionStaleAfter` (`StaleAge`). Energy is a small register; a reading
of 0 is never recorded, so 0 stands for "no meter value". A meter value without
a transaction id is recorded under the transaction its connector holds, whether
or not the outlet is in a session, and one with an id under that id. Readings
that a charge point kept and sends with the id of an earlier transaction are left
out.

A document inserted under an id that is stored already stays hidden behind the
older one, as `FindOne` returns that; the module does not follow it further,
and the properties that speak of documents are only checked in instances where
this cannot happen (or where the point of the run is that it does).

`TransactionLog` is the abstract specification: sessions are entered under
growing ids, have one owner, and finish once. `ImplementsLog` says
`Transactions` implements it, with the status and connector of each document as
the mapping.

### PendingCalls

`caller` is where the goroutine of each call stands, `pump` what each read pump
does with an answer: read, look the channel up under `pendingMutex`, and send
on it after the mutex is gone. `SendRequestWithResponse` registers before it
queues; `Timeout` may fire while a pump is between look-up and send. The charge
point answers between 0 and `MaxAnswers` times; a CALLERROR resolves nothing
and counts as 0.

### Connections

All connections of one charge point. `stage` is the program counter of the
goroutine of each socket (upgrade, read pump, close), `client` the entry in
`pool.clients`. Registration follows every message and leaves an existing entry
alone; `Close` removes the entry by charge point id, whichever socket it
holds. `reports` counts the goroutines on their way to
`OnOnlineStatusChanged`. `Deliver` sends to `ws.send` or, when that is full,
removes the client and closes its channel; a later registration of the same
socket followed by a message to it is the send on a closed channel, modelled
as `Panic`, which ends the process. The loop of `writePump` leaves only its
`select`, so it never closes the connection itself, and the model does not
either.

### PowerLimits

`check` are the goroutines in `CheckPowerLimit` and in the boot handler, `pass`
is the holder of `lb.mutex` with the connectors it has read; `ClearLimit` and
`AssignLimit` treat one connector per step, so the handlers of `SystemHandler`
come in between and write the same documents with the limit of memory, 0.
Sessions start and stop at any moment, during a pass too. A start and a stop that
were answered begin a check. `ReleaseConnector`, the release by a sweep or a
reconciliation, begins none, and neither does a request whose socket is found
closed; no handler can see that today, since only the read pump sets `isClosed`,
after its last handler, but the early return is in the code and in the model. A
check whose read of the location fails gives up (`LocationUnreadable`). `missed`
is a history variable: the connectors whose last change had no check, whose check
may have been the one that failed, or that got the limit of the session before.
`calls` are profiles sent and not settled. `Verdict` lowers the ceiling of the
capability cache on a refusal and `Retry` sends again. `last_profile`, which
no code reads, is left out; the two writes that store a limit do not fail. The
model begins where `OnSystemStart` has left the location: no limit assigned.

### MeterPolling

`watched` is the map of the trigger, by transaction. The channels `Register`
and `Unregister` have no buffer, so a send is a step of its own that waits
until `listen` is back in its `select` (`SendRegister`, `SendUnregister`), and
what `listen` does with it is another (`ListenRegister`, `ListenUnregister`):
it reads the transaction of the connector then, not when it was sent. `mux` is
the handler that holds `h.mux` with the connectors it has still to send; a
sweep and the clean-up of `OnMeterValues` send without it. `Ticker` and
`TriggerMeterValues` are the poll, which iterates the map without a lock; when
`listen` writes meanwhile, the Go runtime may end the process (`MapRace`), and
`OnStart` begins with nobody online and nobody watched. The charge point
answers a poll with a meter value that has a transaction only if it believes
it is in one. The database does not fail in this module, so one pointer stands
for memory and document.

### Migrations

`run` is the program counter of `RunMigrations`: the version at work and its
next step, with the lists that migration 3 reads before it works through them.
Every document of an `UpdateMany` is a step, because MongoDB does not make it
atomic; so are the close of a transaction, the release of its connector and
the stored version. `Die` comes anywhere and stands for a failed call as well,
since `RunMigrations` returns its error and the process ends. Between two starts a
day may pass, the operator may turn the flag of a charge point off and may run a
rollback script. `Init` is any database an older release could leave, pointers
at missing transactions included. Figures of a closed transaction are kept as
the reason that tells them apart.

### Routing

The connections of one charge point again, seen from the protocol: `agreed` is
`ws.protocol`, `connections` the one version that `CentralSystem` keeps for the
charge point. Every message stores the version of its connection and is then
parsed (`ParseRequestVersionAware`) and routed by it; the sets of features are
those of the registry and of the switches (`Protocols`, which `Routing`
extends). Commands of the API go by the version in the command, the stored one
or the default. Which of them become a request is decided by the feature and the
shape of the payload (`CoreCommands` and `ProfileCommands` for 1.6,
`Commands201` for 2.0.1), and the request is delivered to whatever connection is
registered then.

### Admission

One charge point that may be unknown at first. `points` are its documents, in
the order they were inserted, as `FindOne` and `UpdateOne` take the first;
`states` are the `ChargePointState`s made for it and `current` the one in
`h.chargePoints`. `task` is where each handler stands: `FindChargePoint`,
`AddChargePoint`, `InsertChargePoint` and `InitializeChargePointState` are the
steps of `getChargePoint`, which the handlers of commands and lookups take
without `h.mux`; the others enter with `GetChargePoint`, which takes it.
`GetUserTag`, `AuthorizeIdTag`, `AddUserTag` and `OnAuthorize` are the steps of
an authorization. With roaming on, the holder of the mutex waits for
`OcpiAnswers` or `OcpiTimeout`, and a verdict of the partner is written to the
tag as it was read before (`UpdateTag`). Expiry dates, groups and parent tags
are left out: no code here decides by them.

### Notifications

`caller` is the goroutine of each event: it sends on `b.event`, whose capacity
makes it wait, and then posts to the partner, up to three times (`DoRequest`).
`pump` is `eventPump` with the subscribers it has still to write to, `command`
the update that `updatesPump` works on, `send` the length of `b.send`. The two
pumps share `subscriptions` without a lock; `saved` are the documents. `promise`
records the last reply a user got, for `RepliesAreTrue`; these three are
declared in `Subscriptions`, which `Notifications` extends. `Stop` and `Restart`
end the pumps; events not handed over by then are "lost".

### Billing

Each session has a connector of its own, so that only what belongs to one
session interleaves. `docs` and `samples` are its document and its meter
values, `lastMeter` and `gauge` the memory of the readings, `cached` the default
plan of `Affleck`. `OnMeterValues` reads the document, `Process` works the reading
out, `AddTransactionMeterValue` stores it, and none of them takes a lock.
`OnStopTransaction` reads the meter values and then, in `StopRead`, the document;
it works on that copy until `StopWrite`. A sweep works on the copy of its query
(`Query`, `ReadLast`, `ReadCurve`, `SweepWrite`, `SweepRelease`, `SweepPurge`).
Prices are computed as in the code, in integers: `PaidMinutes`, `Price`,
`PowerRate` (with the constant `3600/1000`, which is 3). `IsCurrentTimeRange`
has ranges over midnight and half-open ones. The `transactionData` of a stop
replaces the start and the end of the session by the last sampled value with the
context Transaction.Begin or Transaction.End, if there is one, whatever its
measurand: `Sampled` is the energy register or one of `OtherValues`.

Time is in ticks of `TickSeconds`. The charger is the environment: it may be in
contact, offline and come back any number of times, be lost, also after it came
back, or end its session and repeat the stop. A charger sends its stop when its
reading before has been handled, as one read pump does both; readings on a second
connection that overlap a stop are left out.

## 3. Runs

Run one with `tlc -workers 2 -config <cfg> <MC module>`; `PendingCalls`,
`Connections`, `MeterPolling` and `Migrations` need no MC module and are run
themselves.

| Run | What is checked |
|---|---|
| `tx_crash` | `TypeOK`, `HeldTransactionExists`, `LiveSessionHoldsConnector`, `MemoryMatchesDatabase`, `ReleasedOnlyOnceFinished`, `SamplesOutliveOpen`, `ImplementsLog` with a crash and a failing read or delete anywhere |
| `tx_liveness` | `AbandonedIsClosed`, `DeadPointerReleased` under `FairSpec`, with a crash and one failing call |
| `calls` | `PendingAreListening`, `PumpNotWedged`, `CallReturns` |
| `reconnect` | `ClientIsServed`, `ReconnectSettles` |
| `power_limits` | `TypeOK`, `CeilingNeverRises`, `SessionGetsLimit`, `IdleIsCleared` with restarts during a pass, releases without a check and a failing read of the location |
| `polling` | `ChargingIsPolled`, `StopEndsPolling` with a sweep and a death of the process |
| `leftovers` | `LeftoversAreForgotten` under `FairSpec` |
| `migrations` | `VersionMeansDone`, `BacklogIsGone`, `SafeToRepeat`, `LiveSessionsUntouched`, `MigrationsComplete` with two deaths and a rollback |
| `routing` | `HandledByOwnProtocol`, `VersionSettles` |
| `admission` | `RevokedIsRefused`, `OnlyOperatorEnables`, `EveryRequestReturns`, `OnlineSettles` with a failing call and an edit of a tag, in an open network and in a closed one with roaming |
| `notifications` | `RepliesAreTrue`, `SubscribersAreTold`, `PartnerIsTold` with full channels, a failing call and a restart |
| `billing` | `FiguresAgree`, `SomePlanIsFound`, `ShownIsBilled`, `GaugeSettles`, `SessionIsBilled` with any one of eight calls failing, an edit of the tariff, a death of the process and a charger that is lost, comes back and is lost again |

All of them hold. What they do not say:

- `AbandonedIsClosed` is about transactions for which no more meter values
  arrive, not about sessions that are over: see `LostStopIsClosed` below.
- `ReleasedOnlyOnceFinished` is checked without late stops, `SamplesOutliveOpen`
  without a failing `UpdateTransaction`; the configurations below have them.
- `SessionGetsLimit` and `IdleIsCleared` exclude a connector in `missed`. A limit
  that a pass stores after a release by a sweep stays on the idle connector until
  some other check of the location runs.
- `RevokedIsRefused` exempts, where unknown tags are accepted, everything from
  the first failed call on: a failed read of the tag passes for an unknown tag,
  which is then accepted. `OnlyOperatorEnables` does not speak of writes that
  disable a tag; the theorem `EnabledKept` does.
- `RepliesAreTrue` is checked without failing `GetSubscription` and
  `DeleteSubscription`.
- `FiguresAgree` compares the stored amount with `Price` of the stored figures:
  it finds figures of different copies mixed up, not an error in `Price`.
- `SomePlanIsFound` assumes that a default plan exists, and does not mind that
  the cached default may be an old one.
- `GaugeSettles` is about a session that is open when its charger is lost, or
  whose stop is on its way and finds the document. `SessionIsBilled` counts from
  a state in which the last failure is past.

Every module has a `TypeOK`, which holds in its instances as
well; the runs list it only for `Transactions` and `PowerLimits`; section 4 proves
more of them.

More configurations document what the properties above have to exclude, and
where the code does something else than it says. TLC answers each with a
counterexample:

| Configuration | Property | Shows |
|---|---|---|
| `Transactions_overwritten_stop.cfg` | `RealStopStands` | a sweep works on the copies of its query; if the stop of the charge point is handled between that query and `UpdateTransaction`, the figures of the sweep replace those of the charge point, the reverse of what `server/stop_transaction_test.go:156` asks for |
| `Transactions_late_stop.cfg` | `ReleasedOnlyOnceFinished` | a stop that a charge point kept while offline is handled after the next start and frees the connector of the newer session: `releaseConnector` of `OnStopTransaction` does not look at what the connector holds, the sweep does ("released only once the transaction is durably finished", `server/system_handler.go:821`) |
| `Transactions_reused_id.cfg` | `NoDuplicateDocument` | `OnStart` takes any error of `GetLastTransaction` for an empty collection (`server/system_handler.go:284`), although `internal/mongo.go:720` asks callers to tell the two apart |
| `Transactions_lost_samples.cfg` | `SamplesOutliveOpen` | a sweep whose `UpdateTransaction` fails deletes the meter values all the same |
| `Transactions_idle_readings.cfg` | `LostStopIsClosed` | after a lost stop the meter values of the idle outlet, which carry no transaction id, are recorded under the transaction its connector still holds (`server/system_handler.go:942`), so that no sweep ever finds it idle |
| `Transactions_boot_live.cfg` | `BootSparesLiveSessions` | a boot notification closes a session that has just started and has no meter value yet |
| `PendingCalls_duplicate.cfg` | `PumpNotWedged` | a second answer to one call blocks a read pump before a full channel |
| `Connections_offline.cfg` | `OfflineIsNoticed` | the online report of the registration and the offline report of the close are goroutines without an order (`server/server.go:377`), so a lost charge point may stay online for good |
| `PowerLimits_shared_slot.cfg` | `OneConnectorPerSlot` | one pass picks one free slot and gives it to every active connector without a limit; "one connector per slot" (`power/load_balancer.go:38`) |
| `PowerLimits_late_retry.cfg` | `RetryOnlyWhileHeld` | a profile is tried again for a session that has stopped: the check compares the transaction with the connector copy it came from |
| `MeterPolling_two_pumps.cfg` | `ChargingIsPolled` | with two connections of one charge point, the clean-up that the pump of the older one began removes the entry of a session that has started since |
| `Routing_stale.cfg` | `CommandMatchesConnection` | the stored version outlives its connection (`RemoveConnection` has no caller): a command that reaches a charge point after it came back with another protocol and before its first message is built for the old one, while `docs/API.md:73` promises "the protocol version from the active connection" |
| `Routing_v201.cfg` | `AgreedProtocolIsServed` | `ocpp2.0.1` is offered (`server/central_system.go:582`) and only the features of 1.6 are registered (`server/central_system.go:437`), so a charge point that agrees on 2.0.1 has every message refused and gets no answer; `docs/API.md:171` says "Core features implemented" |
| `Admission_lost_tag.cfg` | `EnabledIsKept` | an answer ALLOWED, EXPIRED or BLOCKED of the partner writes back the whole tag as it was read before the partner was asked: a tag the operator has enabled meanwhile is disabled again, and one whose read had failed is overwritten by a new, disabled one, although the comment at `server/system_handler.go:1912` reserves this path for a user "not listed in local database or not enabled locally" |
| `Admission_offline.cfg` | `OfflineSettles` | two first lookups of a charge point, one of them without `h.mux`, both make a state; the online report goes to the state that is then replaced, so the offline report finds nothing changed and the document stays online, however often the close is reported |
| `Notifications_start_stop.cfg` | `StartBeforeStop` | the post of a start is tried again while that of the stop succeeds: the partner hears of the end of a session first |
| `Notifications_silent_telegram.cfg` | `PartnerIsTold` | a request to Telegram has no time limit; when one never ends, `b.event` fills up and no event reaches the partner any more |
| `Billing_lost_curve.cfg` | `CurveIsKept` | a sweep writes its older copy over a stop, or a late stop replaces the curve a sweep has saved by the readings since |
| `Billing_failed_read.cfg` | `FailuresAreRepaired` | a failed `ReadTransactionMeterValue` is taken for a session without readings, which is closed without energy or amount and its readings deleted |

More facts are visible in the same modules. `EverySessionGetsLimit`, put into
`PowerLimits_limits.cfg`, fails: a connector that stops and starts again while
one pass is under way gets the limit of its old session, is taken for limited,
and its new session gets no profile. `GaugeFollowsCharger`, put into
`Billing_prices.cfg`, fails: a charger that comes back after a sweep has closed
its transaction sets the gauge with its next reading
(`server/system_handler.go:1040`), and if it is then lost, nothing zeroes it, as
sweeps pass over finished transactions. `Panic` of `Connections` can be reached.
With `"DeleteSubscription"` among the
`FaultKinds` of `Notifications`, `RepliesAreTrue` fails: a removal whose delete
failed is confirmed and undone by the next restart. With `"GetSubscription"` it
fails too: a start whose read failed inserts a second document, and a removal
takes only one of them. A user without a Telegram
name (not in `Named`) is subscribed in memory only.

Noted in the code on the way, and beyond what these modules check:

- `UpdateChargePoint` does not write `local_auth_version`, so
  `GetActiveUserTags` (`internal/mongo.go:693`) never saves the version it says
  "has to be saved", and the next list has the same number after a restart; its
  filter asks for `is_active` (`internal/mongo.go:679`), a field user tags do not
  have (`is_enabled`).
- `PowerRate` multiplies by `3600/1000`, a quotient of integer constants, which
  is 3 (`server/system_handler.go:1001`).
- "duration must be positive" (`server/system_handler.go:1385`) is not asked of
  a payload that is a bare number.
- `is_enabled` of a charge point is read once and then kept until a restart, and
  so is the default payment plan.
- The entry of `lastMeter` of a transaction that a sweep has closed is never
  removed.
- Of the handlers of OCPP 2.0.1: `TransactionEventToEntity` sets no id, so an
  Updated or Ended event looks transaction 0 up, and `newTransactionId` is
  advanced without `h.mux` (`server/v201_handlers.go:273`).

### Bounds, and why they are enough

- Transactions: one charge point. Two ids are needed for a finished and a
  following session of a connector. One goroutine next to the ticker gives two
  concurrent sweeps.
  `GraceAge = StaleAge = 1` makes all ages "fresh" or "old"; the liveness run
  keeps them apart (1 and 2), because there the two ways into the query matter.
  A register of 0 or 1 tells "no energy" from "some". One crash and one fault
  at every possible place.
- PendingCalls: three calls, so that with limits of one (`MaxForget`,
  `SendCap`) the third meets a full set and a full queue; two pumps, so that
  two answers are handed over at once.
- Connections: two sockets, so that the old one is closed while the new one is
  set up; capacities of one and two, so that both channels fill; at most two
  unfinished reports of each kind.
- PowerLimits: one connector and two transactions, so that a session follows
  another during one pass; two connectors for the slots. With two connectors the
  liveness run has more than 14 million states, and what the properties relate is
  the state of one connector: another one only adds passes, which the second
  goroutine and repeated requests add already; levels 0 and 1 with reports of -1 and 1, one retry,
  so that the ceiling, the clamp and the end of the retries are all reached; two
  goroutines, one of which loses the claim for the discovery.
- MeterPolling: one connector, one read pump and one sweep, with two
  transactions, so that a late registration or a clean-up of the first meets the
  second; one death. Two pumps are the configuration above. The liveness run has
  one transaction: a leftover needs no second one.
- Migrations: two transactions on one connector, one of which may be stuck while
  the connector holds the other; every age, bill and meter value of both, every
  stored version; two deaths, so that a repeated attempt is interrupted again,
  and one rollback.
- Routing: two connections with four offers (none, 1.6, 2.0.1 first, an unknown
  one first); features of one protocol, of both, registered but not routed;
  every command and every shape of payload; a queue of one message, as its order
  is not the question.
- Admission: one charge point that is known, unknown or disabled, one tag that is
  stored or not, two handlers, so that two lookups, or a lookup and a holder of
  the mutex, meet; any one of six calls fails and the operator changes the tag
  once, at any point.
- Notifications: channels of one place, so that a second event and a second
  reply meet them full; an event for the bot alone and one for both listeners;
  two commands, so that a subscription is followed by a removal or the reverse.
  The failures are those after which the bot still tells the truth.
- Billing: one session and one sweep, as sessions share nothing but the cached
  plan. A tick of 3900 s is longer than the free hour, so that minutes are paid
  from the first tick on; two ticks make a session stale, one is the grace. The
  user's plan runs over midnight and the session starts inside or outside it. One
  energy step tells a reading from the next, and one value of another measurand
  stands for all that are not the register. One fault, one edit of the plan (before
  the start, later ones are not read) and one death, all at any point.

No run contains a state constraint. The bounds are guards of the actions:
`MaxTx`, `MaxMeter`, `MaxFaults`, `MaxCrashes`, `MaxReports`, `MaxRaces`,
`MaxDeaths`, `MaxRollbacks`, `MaxQueue`, `MaxEdits`, `MaxCommands`,
`MaxRestarts`, `MaxSteps`, `LastStart`, `LastReport`, `LastTick` and the sets of
goroutines. `CHECK_DEADLOCK FALSE` is used in `Connections` and `Routing`, where
the charge point may run out of connections and everything rests, in
`Migrations`, which is done once the server serves, in `Notifications`, where
every event is raised once, and in `Billing`, where time ends.

### Fairness, and why the code justifies it

- Transactions: weak fairness of `Tick` (time), of the steps of the handler that
  has the mutex, of `OnStart` (a supervisor restarts the process) and of the
  ticker; strong fairness of a sweep, which waits for `h.mux`: a Go mutex hands
  itself to a waiter that starves. Charge points promise nothing: they may fall
  silent in the middle of a session, which is what `AbandonedIsClosed` is about.
- PendingCalls: goroutines run on and deadlines pass (weak); the send on
  `pool.send` is strong, as a Go channel serves blocked senders in turn. Charge
  points need not answer.
- Connections: weak fairness of the pool, the write pumps and the reports; of
  `Send`, because a connected charge point sends heartbeats; strong fairness of
  a socket, whose steps are disabled only by the bound `MaxReports` and by the
  competition for `pool.send`. The read of a dead connection ends through TCP
  keep-alive.
- PowerLimits: weak fairness of reads (they have a timeout) and of the pass,
  strong of waiting for `lb.mutex`. Status notifications, answers and new
  sessions are not fair.
- MeterPolling: weak fairness of `listen`, of the ticker, of the poll and of the
  restart by a supervisor; strong fairness of everything that waits to send on
  the channels, which Go serves in turn; and of `OnMeterValues`, because a
  connected charge point answers a TriggerMessage and its read pump takes the
  answer. Handlers, sweeps and reports need not come.
- Migrations: weak fairness of `Step`: the process runs on and is started again.
  Deaths and rollbacks are bounded, days are not.
- Routing: weak fairness of the pool, strong of a read pump, because a connected
  charge point sends heartbeats.
- Admission: weak fairness of a handler, strong of its wait for `h.mux`; the wait
  for the partner ends by its timeout, not by its answer. A connected charge point
  sends heartbeats, so the online report comes again: strong fairness.
- Notifications: weak fairness of the pumps and of the posts, which have a limit
  of 5 s; strong fairness of the send on `b.event`. That a request to Telegram
  ends is an assumption about Telegram, as `http.Client` has no limit there;
  `SilentTelegramSpec` is the specification without it.
- Billing: weak fairness of time, of the handlers under way, of the sweep, whose
  ticker fires again and again, and of the stop, which a charger repeats until it
  is answered. Chargers promise nothing else: they may fall silent for good.

## 4. Proofs

`tlapm <module>Proofs.tla` checks them; those of `Routing` are in
`ConnectionsProofs`, those of `Admission` and `Notifications` in
`AnswersProofs`. All are over arbitrary constants under
the named assumptions of the modules.

| Theorem | Statement | Condition |
|---|---|---|
| `TypeCorrect` | `Transactions`: `Spec => []TypeOK` | - |
| `NoIdReused` | `Spec => []NoDuplicateDocument` | `GetLastTransaction` does not fail |
| `CollectionIsLog` | `Spec => ImplementsLog` | the same |
| `SamplesAreKept` | `Spec => SamplesOutliveOpen` | `UpdateTransaction` does not fail |
| `HeldExists` | `Spec => []HeldTransactionExists` | `AddTransaction`, `GetLastTransaction` do not fail |
| `ReleasedWhenFinished` | `Spec => ReleasedOnlyOnceFinished` | no late stops; `AddTransaction`, `GetLastTransaction`, `UpdateTransaction` do not fail |
| `MemoryAgrees` | `Spec => []MemoryMatchesDatabase` | `ConnectorsAreSaved`: no late stops; `AddTransaction`, `GetLastTransaction`, `UpdateConnector` do not fail |
| `DriverKeepsConnector` | `Spec => []LiveSessionHoldsConnector` | the same, and `UpdateTransaction` does not fail (`FinishesAreSaved`) |
| `ListenersAreFound` | `PendingCalls`: `Spec => []PendingAreListening` | - |
| `NoPumpWedged` | `Spec => []PumpNotWedged` | at most one answer per call |
| `ForgetIsBounded` | `Spec => []ForgetBounded` | - |
| `ConnectionsTyped` | `Connections`: `Spec => []TypeOK` | - |
| `PoolServesItsClient` | `Spec => []ClientIsServed` | - |
| `BalancerTyped` | `PowerLimits`: `Spec => [](TypeOK /\ RetryIsLeft)` | - |
| `OneReadAtATime` | `Spec => []OneDiscovery` | - |
| `LearnedCeilingStays` | `Spec => CeilingNeverRises` | - |
| `VersionsAreApplied` | `Migrations`: `Spec => []VersionMeansDone` | - |
| `BacklogCloses` | `Spec => BacklogIsGone` | - |
| `RepeatsAreSafe` | `Spec => SafeToRepeat` | - |
| `LiveSessionsStay` | `Spec => LiveSessionsUntouched` | - |
| `StoppedIsSilent` | `MeterPolling`: `Spec => []StopEndsPolling` | - |
| `ChargingStaysPolled` | `Spec => []ChargingIsPolled` | `OnePump`: one read pump at a time |
| `OwnHandlers` | `Routing`: `Spec => []HandledByOwnProtocol` | - |
| `CommandsAreSpoken` | `Spec => []CommandIsSpoken` | - |
| `Served` | `Spec => []AgreedProtocolIsServed` | `Speaks16`: every offer comes to 1.6; messages are well formed |
| `AdmissionTyped` | `Admission`: `Spec => []TypeOK` | - |
| `RevokedRefused` | `Spec => []RevokedIsRefused` | - |
| `OperatorEnables` | `Spec => OnlyOperatorEnables` | - |
| `OneHandlerAtATime` | `Spec => [](MutexIsHeld /\ StateAtHand)` | - |
| `EnabledKept` | `Spec => [][`an enabled tag is disabled only after an edit of the operator or a failed call`]_vars` | - |
| `BotTyped` | `Notifications`: `Spec => []TypeOK` | - |
| `RepliesTrue` | `Spec => []RepliesAreTrue` | `GetSubscription`, `DeleteSubscription` do not fail |
| `BillingTyped` | `Billing`: `Spec => []TypeOK` | - |
| `BillsAgree` | `Spec => []FiguresAgree` | - |
| `PlanIsFound` | `Spec => []SomePlanIsFound` | - |
| `ShownIsPaid` | `Spec => []ShownIsBilled` | - |

The conditions are necessary. `Transactions_reused_id.cfg`,
`Transactions_lost_samples.cfg`, `Transactions_late_stop.cfg`,
`PendingCalls_duplicate.cfg`, `MeterPolling_two_pumps.cfg` and
`Routing_v201.cfg` are counterexamples without them (and `Admission_lost_tag.cfg`
shows that `EnabledKept` has to except edits and failures); so are the runs of `notifications` with either of the two calls of
`RepliesTrue` among its `FaultKinds`, and a message that is not well formed is
refused, as it should be, which `AgreedProtocolIsServed` does not excuse. For the
theorems of `Transactions`, TLC finds one in the instance of
`tx_crash` as soon as the call in question is added to `FaultKinds`: an insert
that fails leaves the connector linked to nothing (`HeldTransactionExists`, and
from there the other three); an update of a transaction that fails lets the
connector go while the document stays open (`ReleasedOnlyOnceFinished`,
`LiveSessionHoldsConnector`); a connector that is not saved differs from memory
and is lost by a restart (`LiveSessionHoldsConnector`,
`MemoryMatchesDatabase`); and with two connectors an id given twice makes one
connector hold the transaction of the other.

The arguments:

- `TypeOK` of `Transactions` is not inductive: a step of a sweep or of a stop
  writes through the connector of a document, so the document has to be there.
  `TypeInv` adds `References`: what a sweep has in hand, what waits in a list
  and what a stop is about are stored documents with a connector.
- `NoIdReused` needs `IdsInv`: while the process runs, `nextId` is above every
  stored id, and the id in the hand of a start that has not inserted yet is
  above all stored ones and below `nextId`. Documents never disappear
  (`DocumentsStay`), and `OnStart` restores the first part from the collection.
- `CollectionIsLog` shows that every step is a step of the log or a stutter.
  Only `AddTransaction` inserts, and `IdsInv` makes it the next id; only
  `StopWrite` and `WriteFinished` rewrite, and both write "finished" to a stored
  document with its own connector.
- `SamplesAreKept` needs `SavedInv`: whoever is about to delete meter values has
  the transaction finished before. That holds for a sweep only if its write
  cannot fail, hence the condition.
- `HeldExists` needs `HeldInv`, for memory as well as for the document: what a
  connector holds is stored with that connector, except the id that a start has
  claimed and not inserted yet. By `IdsInv` nobody else can insert that id, so
  when the link is written the transaction is there, and a process that dies
  before leaves a document without a link, never the reverse.
- `ReleasedWhenFinished` has to say why `OnStopTransaction` may free a connector
  without looking whose it is. `OutletInv` is about the charge point: an outlet
  with a session has no stop unanswered, a session belongs to a document of its
  connector, and a stop in progress is one that still waits for its answer.
  `ReleaseInv` adds that whoever is about to release has saved the transaction
  as finished, and that a connector in use for one transaction holds that one,
  nothing, or another that is finished. The last case is there because `UpdateConnector` may fail: the
  document then keeps an old, finished transaction, and releasing that is allowed.
- `DriverKeepsConnector` and `MemoryAgrees` share `Agreement`: the invariants above
  except `ReleaseInv`, with the stronger `AgreeInv` in its place. The two pointers
  of a connector differ only while a start has claimed it and not linked it; a
  connector in use by a session or an unanswered stop holds that transaction or
  nothing; what is registered is held; and, if updates of transactions do not
  fail, an open session is in the document too, from where `OnStart` takes it
  back. A crash is harmless since the invariant says of memory only what holds
  while the process is up.
- `ListenersAreFound` is inductive once the types are known. `NoPumpWedged`
  needs `OneAnswer`: of every call at most one answer exists, still to be sent,
  in the hand of a pump or in the channel.
- `ForgetIsBounded` (the set of fire-and-forget ids is finite and within
  `MaxForget`) is inductive; the lemma `BoundedChange` does the counting.
- `ClientIsServed` is inductive by itself: the pool registers a socket only on
  behalf of its read pump.
- `BalancerTyped` carries `RetryIsLeft` (what waits for its retry has one left);
  `OneReadAtATime` carries `ReaderClaimed` (who reads has put its claim on the
  charge point, or the limits are known by now, so nobody else begins).
- `VersionsAreApplied` and `BacklogCloses` share `Inv`: `TypeOK`, the property
  and `Progress`, which says at every step of a migration what its earlier steps
  have done: the collections behind it are complete, every abandoned transaction
  is among the candidates still to visit, and every connector pinned by a
  finished transaction is among those still to release. An interrupted attempt
  falsifies nothing of it, because `Progress` is empty while the process is
  down.
- `RepeatsAreSafe` and `LiveSessionsStay` need `Untouched`: an open transaction has
  no reason of a close yet, the candidates that are still to be closed are open
  and old, because they were read so and time does not run back, and the
  transaction whose connector is about to be released is finished. Only the
  rollback opens a transaction again, and it takes the reason away with it.
- `StoppedIsSilent` needs `Books` (an entry of the map has the connector of its
  transaction, a connector holds only transactions of its own that are not
  stopped, and what handlers, sweeps and `listen` have in hand exists) and
  `StopInv`: once the handler of a stop has sent its `Unregister`, the transaction
  is out of the map or `listen` is about to take it out (`Gone`), no registration
  is being carried out that could still find it on the connector, and that stays so
  for good. A registration that is late reads the connector when it is carried out
  and finds another transaction or none.
- `ChargingStaysPolled` carries `PollInv`: whoever holds a transaction and
  should be polled is in the map, or its `Register` is sent or still to be sent
  by the handler that holds `h.mux`, or its transaction is being stopped or swept
  (`Polled`); and no clean-up of an idle connector is under way for a connector
  that holds a transaction (`CleanUps`, `Checks`). The last part is where one pump
  is needed: the pump that cleans up is the one that would deliver the next start.
- `BillingTyped` rests on lemmas about the arithmetic (`PriceNat`,
  `PowerRateNat`: no price and no rate is negative) and on `LatestExists`, which
  gives the reading that `OnStart` chooses. `BillsAgree` needs `Books`: a document
  that is open has no amount and no stop register, one without a plan has no
  amount, and a finished one agrees with its figures; a stop that is about to
  write carries such a document; the copies a sweep has listed were open, so that
  one it aborts, stopped when it started, costs nothing (`NothingIsFree`), and
  one it stops at a reading is billed on that copy before it is written.
- `PlanIsFound` needs `PlanInv`: every copy of a document, stored, in the hand of a
  reading or a stop, or in the list of a sweep, has a user without a plan only after
  a failed call. The choice of a plan falls through to the default
  (`ChoiceExcused`), and no step that writes a copy back changes its terms.
- `ShownIsPaid` compares a price worked out when a reading came with one worked
  out by a sweep, on another copy of the document. `TermsInv` says that a session
  has one set of terms (plan, time and register of the start): every copy that a
  sweep has listed, every document in the hand of a reading and every document a
  stop has not rewritten is on them, and the price of every reading, stored or in a curve, is
  the one they give (`SessionTerms`). Only a stop may change the terms, by its
  `transactionData`, and what it writes bears the reason of the charger for good
  or is replaced by a sweep's older copy (`StopMarked`, `SweepMarked`).
- `OwnHandlers` needs that a connection has handled nothing before it has agreed
  on a protocol, so that the choice never comes after the handler.

- `CommandsAreSpoken` says how far the stale version of `Routing_stale.cfg` can be
  off: a command that leaves its version to the system is built for 2.0.1 only if
  the charge point has agreed on 2.0.1 on some connection. `SpokenInv`: before
  such an agreement the stored version, every command in `pool.send` and every one
  delivered is `Quiet`, that is, none has taken up 2.0.1 by itself, and what a
  connection agreed on is written once.
- `Served` says where the divergence of `Routing_v201.cfg` ends. `Inv16`: nobody
  has agreed on anything but 1.6. `Served16` adds
  that a message that was parsed is taken if its action is routed, because
  everything that is routed is registered.
- `RevokedRefused` and `OperatorEnables` share `AllJustified`: at every stage of an
  Authorize, what it has in hand is justified by what the database held at some
  moment of the request. A tag about to be added is enabled only where unknown
  tags are accepted, and then the tag was unknown or a read has failed; a tag
  that waits for the OCPI service is disabled. From that, `OnlyEdits`: no step but
  the operator's makes any tag acceptable, since `AddUserTag` writes behind the
  document that counts and `UpdateTag` stores a disabled copy. So no handler takes
  away what another relies on (`Undisturbed`), and a change of the operator is
  seen by every request on its way.
- `OneHandlerAtATime` carries `Held`, the property for each handler, with the kinds
  of those that wait for the lock. That `states` grows and never shrinks is what
  keeps `task.at` valid (`TasksGrow`).
- `EnabledKept` allows any answer of the OCPI service. `NoRace`: as long as no call
  failed and the operator changed nothing, the copy that a handler has in hand
  while it waits for the service is current (`CopyIsCurrent`), because it found
  the tag disabled or has put a disabled one there itself, and by `OnlyEdits` no
  handler enables a tag in between. So `UpdateTag` writes a disabled copy over a
  disabled document.
- `BotTyped` needs that the event in hand was raised and that the attempts of an
  event are counted from 0 (`BotInv`). `RepliesTrue` needs `ReplyInv`: a command
  in work has withdrawn what its user was told, one about to reply has done to
  the documents what it will say, and a user has one document at most, so that
  the one delete leaves none. A read that fails breaks the last part: the start
  inserts a second document, and the stop that follows removes one of the two.

`ConnectionsProofs` and `AnswersProofs` each hold the proofs of two modules. The
first of them is extended; the second (`Routing`, `Notifications`) is an instance,
`Router` and `Bot`, with constants and variables of its own where the names
differ in meaning. `OwnHandlers` and `RepliesTrue` are stated with the property of
the module both share with the runs, `Protocols` and `Subscriptions`. An instance does not bring the `ASSUME` of its module along, so
the theorems about the bot name it (`Bot!NotificationsAssumption`).

`NoDuplicateDocument`, `OneDiscovery`, `ForgetBounded`, `MutexIsHeld` and
`StateAtHand` are stated by theorems alone, no run lists them; nor does a run
list the properties of `CommandsAreSpoken`, `Served` (which holds under its
conditions only) and `EnabledKept`.

Only model-checked: liveness (`AbandonedIsClosed`, `DeadPointerReleased`,
`CallReturns`, `ReconnectSettles`, `SessionGetsLimit`, `IdleIsCleared`,
`LeftoversAreForgotten`, `MigrationsComplete`, `VersionSettles`,
`EveryRequestReturns`, `OnlineSettles`, `SubscribersAreTold`, `PartnerIsTold`,
`GaugeSettles`, `SessionIsBilled`), which is out of the prover's reach. Every
safety property of a run is a theorem as well.

## 5. Not modelled

- The handlers of OCPP 2.0.1 behind the routing and the adapter between the
  protocols: no incoming message reaches them (`Routing_v201.cfg`), so no state
  of the program comes from them. The commands to such charge points are in
  `Routing`.
- The meter configuration on boot: it reads a list of names from the charge
  point, merges and writes it; nothing else reads the result.
- Local authorization lists, firmware, diagnostics and logs: plain reads and
  writes, on which no decision here depends.
- Rollback scripts that are interrupted: a script writes the data first and
  `schema_version` after, and is one step that runs to its end. Indexes, whose
  creation may fail without consequence.
- Data races on Go maps: `OnMeterValues` uses the maps of `SystemHandler`
  without `h.mux`, the two pumps of the bot share its subscriptions, and
  `recipientAvailable` reads `pool.clients` without a lock. The models read the
  value of the moment; that Go may end the process for such a race is an action in
  `MeterPolling` and is among the restarts of `Notifications` and `Billing`.
- `Pool.Stop`, the orderly shutdown; the HTTP server, the texts of the bot, the
  OCPP structures, metrics, logger and configuration, which are formatting and
  I/O.
- Other measurands than energy and active power, which are stored and not
  decided by.

## 6. Plan

In this order; all parts exist.

1. `Transactions` with `TransactionLog`: the most important behaviour.
2. `PendingCalls`.
3. `Connections`.
4. `PowerLimits`.
5. `MeterPolling`.
6. `Migrations`.
7. `Routing`, with the commands of the API.
8. `Admission`.
9. `Notifications`.
10. `Billing`.

What is left: should the features of OCPP 2.0.1 be registered one day, a module of
its transaction events next to the handlers of 1.6 whose connectors they share.
