# BeleevoWhatsapp: a formal model of the messaging platform

The platform sends WhatsApp messages for shops. A shop's orders arrive from
Converty by webhook, its parcels are watched at the carrier (Mes Colis), and
*automations* turn an order or delivery status into a template message sent
through Meta. Customers' replies land in an inbox, where an operator answers.
Everything is one Go program (`cmd/app`, with the background worker in-process
or standalone as `cmd/worker`) over one Postgres database; several instances may
run on the same database. This directory holds TLA+ models of its concurrent
core and of the pure rules that core relies on, the TLC configurations that
check them, and TLAPS proofs of the most important properties.

Paths below are relative to `src/`; `queue.go` stands for
`internal/queue/queue.go` and so on.

## 1. The system

| Component | State | Operations | Talks to |
|---|---|---|---|
| Job queue (`queue/queue.go`, migration 0024) | rows of `job_queue`: kind, dedupe key, `run_at`, `attempts`, `lease_until` | `Enqueue`, `Runner.Drain`/`claim`, `runOne`, `complete`, `drop`, `retry` | handlers of the three job kinds |
| Template sends (`automations/processor.go`, `suppressions.go`, `whatsapp/send.go`, `send_job.go`, `worker.go` gate) | `messages`, `automation_suppressions`, `whatsapp_consent`, `automations.enabled` | event handling, scheduling, pause gate, send gate, reservation, call, verdict, retry of held-back events | queue, Meta, delivery, intake |
| Message status (`whatsapp/webhook.go`, `chat.go`) | `messages.status`, `chat_messages.status`, Meta ids | the status part of Meta's webhook | Meta, the senders |
| Inbox and greeting (`whatsapp/chat.go`, `autoreply.go`) | `conversations`, `chat_messages`, `shop_autoreplies` | inbound webhook, mark read, greeting job, operator replies | Meta, queue |
| Delivery tracking (`delivery/tracked.go`, `service.go`, `socket.go`) | `delivery_orders`: last status, courier, miss count | poll sweep, socket event, `recordTransition`, watch list | carrier, automations |
| Socket supervisor (`delivery/socket.go`) | `socketConns`, one goroutine per connection | sweep, dial, drop, shutdown | carrier, integrations |
| Templates and purge (`whatsapp/templates.go`, `purge.go`, `server/templates_handlers.go`) | `templates`: approval, marketing flag, `negative_at`, `purge_scheduled_at`; Meta's own list | submit, edit, sync, delete, purge after the grace window | Meta, queue, automation rules |
| Converty intake (`converty/events.go`, `server/converty_handlers.go`) | `order_events` by payload hash | attribute to a shop, capture, deduplicate, learn the customer, hand on | automations, connections |
| Converty connections (`converty/service.go`, `repo.go`, `server/converty_handlers.go`, `shops/shops.go`) | `converty_integrations`: token pair and expiry, webhook ids, active; `shops` | connect, callback, refresh, test, pause, delete, clean-up of an abandoned connect | Converty, intake, the shared number |
| Shared WhatsApp number (`server/whatsapp_handlers.go`, `shops_handlers.go`) | the one row of `whatsapp_integrations` and the shop it hangs on | connect, disconnect, choice of the owner | every send |
| Message text and variables (`whatsapp/variables.go`, `send.go`, `templates.go`) | none: functions of a template and an event | tokenise, number, show for edit, fill, render | templates, sends |
| Send quota (`whatsapp/ratelimit.go`) | `send_rate_windows` | `Allow`, prune | every send |
| Automation rules (`automations/automations.go`, `processor.go`) | `automations`, unique per trigger; the send rule's columns | create, update, pause, delete, parse schedule, compute the send instant | sends, templates |
| Worker process (`worker/worker.go`) | the goroutines and the pool | start, loops, shutdown | all of the above |
| Authentication, dashboard, configuration, encryption, i18n, views, commands | single rows, sessions, files | single statements and rendering | - |

What is hard in it: several instances and goroutines work on the same rows with
one SQL statement at a time and few transactions; the network calls (Meta,
carrier) sit between two statements, so a process may die on either side of
them; Meta and Converty deliver webhooks repeatedly, concurrently and out of
order; a job may run again; an observer compares with a status it read before
it asked the carrier; a synchronisation writes a list fetched before; a refresh
token is good for one use, whoever uses it. What makes each component correct:

- queue: a job is in one pair of hands at a time, is retried boundedly and with
  spacing, is given up only when its attempts are spent, and is not stranded;
- sends: one message per idempotency key whatever happens, an honest ledger,
  pauses and opt-outs respected, held-back events not forgotten;
- status: the row moves forward only (unless two requests race, as the code
  stands) and ends at the furthest status;
- inbox: each message stored once, a customer greeted once, threads and messages
  agree;
- delivery: every transition handed on once, the watch list of every shop keeps
  up, a parcel is settled only when it is really gone;
- supervisor: one live connection per connected shop with its current token;
- templates: a template under a negative review has a clock, only the merchant
  restarts it, nothing is purged before its window is over, and nothing is
  deleted from under an automation;
- intake and connections: an event is handed on once, to the shop it is stored
  under; the stored refresh token is the one Converty accepts; a clean-up
  removes nothing that is in use;
- quota: no budget overrun, and no budget spent on what was not sent;
- text and schedule: the customer reads what the author wrote, with the values of
  the event, at the first moment the merchant allowed.

`PROJECT.json` lists the places in the code where each of these can go wrong.

## 2. The modules

`JobSlots` is the abstract queue: one slot per keyed piece of work, `empty`,
`waiting`, `held` or `stranded`. `JobQueue` is the real one and
`JobQueueRefinement` maps it onto the slots. `SendPipeline`, `Inbox` and
`TemplateLifecycle` see the queue through an `INSTANCE` of `JobSlots`, so what
they assume of it is what `JobQueue` is shown to implement. The other modules
compose like this:

    MessageStatus + SendQuota            -> OperatorReplies
    TemplateLifecycle + AutomationRules  -> Catalogue
    ConvertyConnection                   -> EventIntake, SharedNumber
    FireSchedule + MessageText           -> MCPureRules (inputs and rules)

**JobQueue.** `row`, `present` are the table; `run[r][j]` is what instance `r`
has in memory about job `j`. Each SQL statement is an action: `Enqueue`,
`Claim` (a batch, via `Drain`), `HandlerReturns`, `Remove`, `DropOrphan`,
`Retry`. `BookkeepingFails` is a lost delete or update, `Crash` the death of an
instance. Time is relative: a row carries the ticks left to `run_at` and
`lease_until`. Deleting a shop, which cascades to its rows, is left out.

**SendPipeline.** A *sender* is a goroutine on one idempotency key: a queue
worker behind the pause gate, an event handler, or the retry of held-back
events. Its `pc` walks through the statements of `send` and
`SendTemplateMessage`: `Gate`, `Match`, `Exists`, `Grant`, `Compose`, `Lookup`,
`Rules`, `Reserve`, `CallMeta`, `Mark`, `FinishJob`/`FinishInline`, `Clear`.
`Die` ends a sender between any two of them, and `Mark` may lose its write.
`CallMeta` covers acceptance, refusal, and an outage after which Meta may or
may not have accepted. The reasons to refuse a send are one nondeterministic
refusal, the opt-in excepted. Keys are those of one automation and customer.

**DeliveryTracking.** An *observer* is one parcel's share of a poll sweep or of
a socket event; both read the row first and end in `RecordTransition`, which
compares with what was read. The carrier moves a barcode, attaches couriers,
stops and starts to list it, and pushes events that may be late or lost.
A parcel is a row: a shop and a barcode, and two shops may watch the same
barcode. Connections are saved and deleted; `PolledWith` is `pickConnection` (a
shop's own connection, or the one saved first), and without any nothing is
polled. `Poll` takes one row per connection and barcode, because
`pollConnection` keeps the rows in a map by barcode (`service.go:314`); which of
them is left to the database's order. A socket event is likewise recorded in one
row of its barcode.

**MessageStatus.** Rows of either ledger, from the reservation on: an upload
where there is one, the call, the statement that stores the Meta id or the
failure. A webhook request is a read (`ReadStatus`) and a write
(`WriteStatus`), and several requests are handled at once; `Rank` is what
`webhookStatusRank` computes. The history `raced` holds the messages two requests
were about to write at the same time.

**SendQuota.** `Allow` in three steps: the window is computed (`Ask`), one
statement counts the shop's and the platform's row (`Count`, or `CountFails`,
whose answer is lost whether or not it was committed), old rows may be pruned
(`Return`). `counted` are the rows, `admitted` is a history of what was let
through.

**OperatorReplies.** Replies of an operator and templates of an automation ask
the same budget (`Request`, `Counting`), get a row if it lets them
(`Admitted`), and go through `MessageStatus`. A reply has the service window,
read when it asks, and the conversation's preview, written last (`Announce`).

**Inbox.** A webhook request is a lookup, a transaction and the scheduling of
the greeting; the greeting job is load, claim, window, call, finish. `From` maps
a message to its conversation.

**SocketSupervisor.** Each critical section of `socketMu` is a step, and so are
the deferred delete of an ending goroutine and a change of an integration.

**TemplateLifecycle.** A request is an operator's (create, edit, delete,
refresh), a visit of the templates page, or a purge job. Each statement and each
call to Meta is a step: `Submit`/`Insert`, `EditRead`/`EditCall`/`EditWrite`,
`ListTemplates`/`SyncRow`, `SelectUnscheduled`/`EnqueuePurge`/`MarkScheduled`,
`SelectExpired`, `TakePurge`/`JobRead`, `Erase`/`Bury`. Meta reviews at any
time; the row hears of it by synchronisation. `Never` is a NULL timestamp.

**AutomationRules** is the table of automations with its unique trigger, and
**Catalogue** the two together with the handlers: deletion checks which
automations use a template, forms choose among the templates of the shop, and
two history variables say since when a rule has used a template (`kept`) and
which windows have been over since a purge began (`ripe`).

**ConvertyConnection.** One number per connect, in the order they were made,
stands for the shop the connect creates and for its row. Requests are the
callback (exchange, store details, completion, rename, subscription, or the
clean-up of row and shop), refresh, test with its retry on 401, delete.
Converty's side is `grant`, the refresh token it accepts next, `rejected` and
`hook`. **EventIntake** adds the order webhook; **SharedNumber** adds the number
and the cascade that removes it with its shop.

**FireSchedule** and **MessageText** are pure: the form of a send rule, its
columns and back, and the send instant, against the reference `Asked` (the first
moment the form allows); the text of a template as chips and slots, its numbered
body, what the edit form shows, the values, the gate, the parameters and the
copy in the history. A text is a sequence of pieces; wording is abstracted away.

The mutated forms beside some definitions (`ConflictUnclaimed`,
`ReserveUpsert`, ...) say what a slip in the code would look like; each property
of a passing run is broken by one of them, which is how we know it looks at the
code.

## 3. The runs

| Run | Configuration | Shows |
|---|---|---|
| `queue` | 2 instances, 2 ids, a keyed pair, an orphaned pair and unkeyed work, batch 2, 3 attempts, 2 faults | `ExclusiveWork`, `PacedRetries`, `NoEarlyGiveUp`, the inductive invariant, the refinement of `JobSlots`, and `EveryJobSettles` |
| `queue_lease_expires` | 1 fault | violated: `ExpiredLeaseReleased` |
| `send_safety` | 1 key, 1 worker, 2 callers, 1 fault | `AtMostOneAccepted`, `LedgerHonest`, `PauseStopsQueuedSends`, `HeldBackNotForgotten`, the inductive invariant |
| `send_resolved` | 1 worker, 1 caller, 1 fault | `ReservedIsResolved` |
| `delivery` | 2 shops that watch one barcode, 1 sweep and 1 socket event at a time, 2 statuses; up to 2 saves, 2 carrier moves and 1 fault, 3 of these together | `ReportOwed`, `CourierKept`, `FollowsCarrier` |
| `replies` | a voice note, a template and another send, 3 shops, budgets of 1 and 2, 3 windows, 2 webhook requests at a time, 1 fault | `QuotaHolds`, `PlatformCountsSends`, `RegressesOnlyInARace`, `FurthestStatusShown`, `FurthestStatusStamped` |
| `inbox` | 2 messages, 2 requests, 2 workers, 1 fault | `GreetedAtMostOnce`, `FirstContactOnce`, `ThreadsMatchMessages` |
| `socket` | 1 shop, 2 tokens, 3 changes, 4 goroutines | `EntriesAreLive`, `ConnectedInTheEnd`, `ShutdownEndsAll` |
| `catalogue` | 1 template, 1 automation, 2 requests, 3 instants, 1 fault | `NegativeHasClock`, `WindowKept`, `PurgeAfterWindow`, `AttachedIsKept` |
| `converty` | 1 store, 2 connections, 2 requests, 2 deliveries of 1 event, 2 rotations, 1 fault | `TokenChainKept`, `HandedOnceAsStored`, `AttributedIsHanded` |
| `shared_number` | 1 store, 2 connections, 1 request | violated: `SharedNumberKept` |
| `pure` | every form, every minute of 10 days; every text of up to 6 pieces | `FiresWhenAsked`, `EditRoundTrip`, `MessageShowsChips` |

`TypeOK` is checked in the two largest compositions (`catalogue`, `converty`),
where it found something while modelling, and as a conjunct of `IInv` in the
queue and the pipeline; each component's is proved.

**Bounds.** They are constants with `Max` in their names, plus the sizes of the
sets. Two instances (or requests, or callers) are where every race between two
statements appears; one key, conversation, barcode or template suffices because
rows of different keys share nothing but the bounds. Two job ids let keyed work
be enqueued again after its row has gone; three attempts let it fail, be given
back and be dropped. Two faults in the queue let a crash hit a job and lost
bookkeeping hit another. `MaxMoves = 2` is a change of status and one of
listing, or two changes of status. `MaxUpsets = 3` bounds what happens to
`delivery` from outside: both shops connect (either one first, or one twice) and
the carrier moves once or a call fails, or one connects and the carrier moves
twice, or moves once and a call fails. Four goroutines are enough for three
changes of one shop's integration, each of which may orphan one. `Upto2` and the
like saturate counters which the properties compare with 1.

In `replies`, three calls of `Allow` over budgets of one and two reach both
refusals, three windows let a row be pruned, and two sends (`MaxSends`) may be
at Meta together. The webhook shares nothing with the budget, so it is explored
where `Allow` has been asked once (`MaxAsked`) and its first report ends the
part about the budget (`Reported`, `Settled`); two requests are where a read and
a write of one row are torn apart. In `catalogue`, `Grace = 1` and three
instants let a window end and another episode begin; `MaxAttempts = 1` gives a
purge job one run, since a second is another `JobRead` of the same state (the
proofs cover every number of attempts, templates and requests). In `converty`,
two connections are a connect and a reconnect of one store, each with a first
token and one rotation, five inputs are two requests with what happens around
them, and `MaxBusy = 2` says that two goroutines race at a time. In `pure`, an
hour has two minutes and a day two hours; zones before and after UTC move an
event to another day, and the weekdays cross the end of the week. A text piece
stands for the words Meta wants per placeholder, so three placeholders come with
three of them, and six pieces are the shortest text in which a chip is repeated
before another one.

**Deadlock** is checked in the queue, the send, the delivery, the inbox, the
catalogue and the pure runs. The others really may stop (every message is
settled and its reports are in; the worker has shut down; the merchant does
nothing more), so `OperatorReplies`, `MessageStatusRace`, `SocketSupervisor`,
`Converty` and `SharedNumber` say `CHECK_DEADLOCK FALSE`.

**Fairness.** Only of what the program itself drives, and weak except for the
poll of a barcode with a connection: `Runner.loop` claims on every tick of
`DefaultInterval`; handlers run under `handlerTimeout` and are followed by their
bookkeeping; a goroutine that has started goes on, since HTTP clients and
statements have timeouts; the poller sweeps every `reconcileInterval`, the
supervisor every `socketWatchInterval`; the clock advances. The poll is strongly
fair per connection and barcode: each sweep asks every connection about all its
barcodes, and the tick comes whatever other sweeps are under way, while in the
model one poller serves all of them. Which row of a barcode a poll records is
not fair, and a connection that is gone is not polled: `FollowsCarrier` excepts
a parcel whose place another shop's row takes (`Shadowed`) and the time nobody
is connected. Nothing is assumed of customers, merchants, Meta or the carrier,
no event is assumed to arrive, and no fault to happen.

### Where comments and code disagree

Two runs end in a violation; `PROJECT.json` quotes the comments they refute:

- `queue_lease_expires`: an expired lease is not claimable (`queue.go:320`), so a
  crash strands a row which the comment says it releases, and so does a lost delete
  ("it will run again", `queue.go:348`) or a lost retry (`queue.go:374`);
- `shared_number`: the clean-up of an abandoned authorization
  (`converty_handlers.go:240`) deletes its placeholder shop even when the shared
  number was connected in the meantime and hangs on that shop, as the oldest; the
  number's row is deleted by the cascade.

The modules state more promises that TLC refutes, which no run of the list
repeats. To see one, add it to the configuration named (as an INVARIANT or a
PROPERTY, according to its form), with `SPECIFICATION FairSpec` where it is a
leads-to:

| Property | Module, configuration | What happens |
|---|---|---|
| `OutageIsRetried` | SendPipeline, `SendPipelineOutage.cfg` as it is | a Meta outage is a `SendRejection` (`send.go:590`), for which the job completes; `send_job.go:60` says it bubbles up and is retried |
| `RedeliveriesIgnored` | Inbox, `InboxTwice.cfg` as it is | the lookup of an inbound Meta id and its insert are not atomic and the index on it is not unique (`chat.go:87`, `0030_chat.sql:43`) |
| `OneConnectionPerShop` | SocketSupervisor, `SocketSupervisorTwice.cfg` as it is | the deferred delete of a replaced connection removes its successor's entry (`socket.go:140`), and the next sweep dials a second one |
| `ClearedMeansDelivered` | SendPipeline, `SendPipelineOutage.cfg` | a held-back event is cleared because a *failed* row of the key answers the retry (`send.go:384`, `processor.go:441`) |
| `OptOutIsRespected` | SendPipeline, `SendPipelineOutage.cfg` | an automation records a new opt-in over the recorded opt-out (`processor.go:385`, `web/views/legal/privacy.templ:83`) |
| `NeverRegresses` | MessageStatus, `MessageStatusRace.cfg` (module MCMessageStatus) as it is | the update of a status does not look at it again (`webhook.go:284`), so of two requests that both read first the later write wins, and a read message goes back to delivered; `meta_webhook_handlers.go:36` says it only moves forward |
| `EveryParcelPolled` | DeliveryTracking, `DeliveryPassedOver.cfg` as it is | of two shops' rows with one barcode and one connection only one is recorded (`service.go:314`); `service.go:178` says every connected shop's parcels are polled |
| `SnapshotIsMessage` | MCPureRules, `MessageSnapshot.cfg` as it is | a chip used twice becomes two parameters (`send.go:351`), so with a new chip behind the repeated one the copy in the history, filled by number, is not what Meta shows; `send.go:285` says it is exactly that. That slot *n* shows parameter *n* is Meta's part and external; Meta may refuse the count instead, and then nothing arrives |
| `TransitionsReported` | DeliveryTracking, `DeliveryTracking.cfg` | the status is stored before it is handed on, and the hand-over is not repeated (`socket.go:290`) |
| `TerminalReportedOnce` | DeliveryTracking, `DeliveryTracking.cfg` | two observers that read the same old status both report (`socket.go:254`) |
| `SettledByConsecutiveMisses` | DeliveryTracking, `DeliveryTracking.cfg` | a sighting that only attaches a courier leaves the miss count (`tracked.go:185`) |
| `UnknownIdIsNotOurs` | MessageStatus, `OperatorReplies.cfg` | a notice overtakes `markMessageSent` and is dropped |
| `AcceptedInsideWindow` | OperatorReplies, `OperatorReplies.cfg` | the window is read before the upload and the call (`chat.go:364`) |
| `QuotaAlwaysHolds` | SendQuota, `OperatorReplies.cfg` | a call held up for two windows finds its row pruned and starts a new one |
| `ShopCountsSends` | SendQuota, `OperatorReplies.cfg` | a send the platform refuses has been counted for its shop (`ratelimit.go:83`) |
| `RetriedGreetingIsSent` | Inbox, `InboxTwice.cfg` with `MaxFaults = 1`, one handler | the greeting is claimed before the call, so the retry finds it taken |
| `WindowFollowsLastMessage` | Inbox, `Inbox.cfg` | an older message stored later moves the window back (`chat.go:175`) |
| `OutdatedAreDropped` | SocketSupervisor, `SocketSupervisor.cfg` | an orphaned connection outlives its integration |
| `DeletedStaysDeleted` | Catalogue, `Catalogue.cfg` | a synchronisation writes a list fetched before the deletion over the deleted row (`templates.go:395`), which can then be sent again |
| `NoRuleBroken` | Catalogue, `Catalogue.cfg` | an automation is attached between the check and the deletion (`templates_handlers.go:44`), and the purge does not check at all |
| `EditCancelsPurge` | Catalogue, `Catalogue.cfg` | the purge has read `negative_at` when the edit is accepted (`purge.go:132`) |
| `PausedIsExcluded` | EventIntake, `Converty.cfg` | a paused connection's events go to its automations: nothing reads `active` there (`converty/repo.go:310`) |
| `OnlyOrphansRemoved` | ConvertyConnection, `Converty.cfg` | a second callback deletes the row of a completed connection, and its shop while it still has the placeholder's name (`converty_handlers.go:232`) |
| `GateCovers` | MCPureRules, `PureRules.cfg` | the gate compares the number of values with the number of placeholders, not with their numbers (`send.go:155`) |

Met while reading, not stated as properties: an operator who is shown an error
after the reply went out may send it again, since replies have no idempotency
key; a fixed window allows twice the budget around its boundary; a second connect
overwrites the browser session's pending one, and the shop sweep that
`converty_handlers.go:215` relies on does not exist; `RevokeConsent` only
inserts; removing an old connection unsubscribes the hook a newer one of the same
store shares; a delete that races a refresh leaves its hook behind; a lost
answer to a rotation disconnects a store for good; an event whose shop could not
be looked up is stored unattributed for ever.

## 4. What is proved

Eight modules of proofs, each for every value of the constants under the named
assumptions (`QueueAssumption`, `PipelineAssumption`, `QuotaAssumption`,
`StatusAssumption`, `TrackingAssumption`, `LifecycleAssumption`,
`ScheduleAssumption`, `TextAssumption`, `InboxAssumption`,
`SupervisorAssumption`, `ConvertyAssumption` and those of the composed modules),
which TLC evaluates in the runs. They ask little: that the sets an idle request
or handler picks a member of are not empty, that bounds are numbers, that a zone
is within a day of UTC, that the dash and "no chip" are no chips.

- **JobQueueProofs**: `TypeOK`, `ExclusiveWork`, `HeldIsLeased`,
  `AttemptsBounded`, the action properties `PacedRetries` and `NoEarlyGiveUp`, and the refinement `ImplementsSlots`. `ExclusiveWork`
  alone is not inductive. `IInv` adds that a row has one holder (`OneHolder`),
  that a keyed pair has one row (`OneRowPerWork`), that a held row is present and
  leased (`HeldIsLeased`): a claim takes only unleased rows, so it takes none
  that is held; an enqueue takes a free key, so it adds no second row.
  `BackoffOwed` relates the ticks a failed job has rested and the ticks left to its backoff.
  For the refinement, `RowsShowSlots` says that the slot of a pair is what its
  one row shows; then an enqueue, a removal, a retry, lost bookkeeping moves the
  slot of one pair and leaves the others (`SlotsRest`), while a claim of a batch
  and a crash move one slot per row they touch. The other modules use the queue
  through these slots, for any number of instances.
- **SendPipelineProofs**: `TypeOK`, `AtMostOneAccepted`, `LedgerHonest`,
  `PauseStopsQueuedSends`, `HeldBackNotForgotten`. `IInv` adds `OneOwner`,
  `OwnedIsQueued` and `AcceptedByItsOwner`: the unique index lets one sender
  reserve a key, the row stays `queued` until that sender records a verdict, and
  nothing is accepted before its call; since a row is never deleted, nobody
  reserves the key again. `ClearsTheKnown` follows the result of a send to the
  statement that clears a held-back event: a retry that found the send done, or
  scheduled it, is about a row or a job that stays (`Remembers`).
- **RepliesProofs**, about the budget, the status webhook and the sends that use
  both. `RepliesTypeOK`. `QuotaHolds` and `PlatformCountsSends`: `QuotaInv` says that every row is
  within its ceiling, that an unpruned row counts at least what was admitted, and
  that the platform's row counts at most that and the lost answers.
  `RepliesShareTheBudget` shows that the composition implements `SendQuota`, so
  that both hold for it. About the status, for any number of requests at once:
  `RegressesOnlyInARace`, because what a request decided on is still ahead of what
  is stored when it writes, unless another one raced with it (nobody but requests
  writes a row that can already be found by its Meta id, and two that write the
  same row are recorded in `raced`); `FurthestStatusShown` outside such races and
  `FurthestStatusStamped` even then, because no report is forgotten: the row, or
  its stamps, have reached it, or it is on its way, or it came before the row had
  its id. That a status always moves forward is not a theorem: `MessageStatusRace.cfg`
  shows the race.
- **DeliveryTrackingProofs**: `TypeOK`, `ReportOwed` and `CourierKept`. What
  makes them inductive is `UnwatchedHasNoRow` (a parcel watched again starts
  without status and courier) and that an observer with an answer has one of the
  carrier's statuses. An observer stays silent only when the row it read showed
  the status already, and who stored it there reports it; a write of a status
  keeps the courier (`COALESCE`).
- **CatalogueProofs**, about what a shop sets up. The rows: `TypeOK`,
  `NegativeHasClock`, `WindowKept`, `AttachedIsKept`, `PurgeAfterWindow`, for any
  number of templates, requests, rules, attempts and faults. The first two rest on
  the rows alone: every statement that writes a state writes the clock that goes
  with it. The last two rest on `RemovalInv`, which says of every request on its
  way to a deletion what it has seen (no rule has used the template since, the
  window has been over since) and carries it over the steps others take in
  between. The schedule: `FiresWhenAsked` for any length of the hour and the
  day and any zones, from `SentAsAsked`, which is about every form the handler
  accepts and every event from the second day on. It takes a form through its
  columns and back (`FixedSurvives`, `DelaySurvives`), shows that the search over
  days finds the first allowed window (`FixedFireIsFirst`), and that this is the
  first moment the form asks for. The texts: `EditRoundTrip` and
  `MessageShowsChips`, for texts of any length. What `tokenize` and
  `placeholderNumbers` collect while they walk a text is a recursive function of
  the place; `TokensAreTheChips` and `NumbersAreTheSlots` say by induction on the
  place (`UpTo`) that it is each chip, or number, found so far. A placeholder that
  repeats an earlier one adds a parameter and no chip, so parameter *n* is chip
  *n* exactly up to the first repetition (`RepetitionsAreCounted`).
- **InboxProofs**: `TypeOK`, `GreetedAtMostOnce`, `FirstContactOnce`,
  `ThreadsMatchMessages`. `ClaimIsExclusive` says that whoever has claimed a
  conversation and not called Meta yet is alone and has sent nothing; a flag
  that is set stays set, so a retry, or the next job of the conversation, finds
  it taken. `WorkIsOnThreads` says that requests, slots and jobs are about
  conversations that exist, `NewOnce` that these were called new exactly once.
- **SocketSupervisorProofs**: `TypeOK`, `EntriesAreLive`. `EntriesAreKept` is stronger than
  the property (an entry's goroutine has not been cancelled either): a goroutine
  serves one shop for life, so the deferred delete and the cancellation of one
  shop's entry cannot leave a dead entry for another.
- **ConvertyProofs**, about the connections with the event intake beside them:
  `TypeOK`, `TokenChainKept`, `HandedOnceAsStored`, `AttributedIsHanded`.
  `OneCarrier` is the core of the second: a request that carries a token to the
  row carries the one Converty accepts next, is alone with it, and neither the
  row nor a request about to rotate has it. Hence nobody can rotate a token before
  it is stored, and storing it always moves the row forward. Every other step is
  `Quiet`: it takes tokens from the row or keeps the one it has. `GrantsAreEarned`
  covers connections that do not exist yet. For the events, `ClaimsHold` says that
  a delivery that has stored a body is alone with it and has not handed it over
  while the shop lives, and `HandedOrClaimed` that a body on record was handed
  over or is claimed; the unique hash makes the one who stores it the only one,
  and a shop that is removed takes its records with it and never comes back.

Each proof is the usual one: an invariant holds initially, every action
preserves it (one step per action), it implies the property. TLC checks the
`IInv`s of the queue and the pipeline as invariants of the runs.

Every invariant a run checks has a theorem, and so has every action property.
Only model-checked is what the proof system does not cover, liveness under
fairness: `EveryJobSettles`, `ReservedIsResolved`, `FollowsCarrier`,
`ConnectedInTheEnd`, `ShutdownEndsAll`; and what the code violates, for which TLC
shows a behaviour.

## 5. What is not modelled, and the plan

Of the program's lines, 13 000 are generated from `.templ` files and 2 000 are
dictionaries of the interface; another large part decodes forms, scans rows and
builds pages. None of it keeps state or decides anything another step depends
on, so the share of lines behind the models stays far below the share of
behaviour. In detail, not modelled for good: rendering, i18n, configuration,
encryption, the conversion of recordings, dashboard queries, the scripts,
sessions and the operator's account, the receipts of webhooks (a log), nights on
which a clock changes, clocks of instances that differ.

Left to do:

1. `SendPipeline`: the operator's own sends (API and test), whose keys no event
   shares; the template's state among the reasons to refuse.
2. `Inbox`: the download of inbound media before the upsert, and its purge.
3. The order of `Server.Shutdown` against handlers under way.
4. Proofs: that a shared number connected while a shop with a name of its own is
   the oldest survives every clean-up, the part of `SharedNumberKept` that holds.
