# PoracleNG: a TLA+ verification project

PoracleNG turns webhooks of a Pokémon Go scanner into chat messages for the
people whose rules they match. This directory holds TLA+ specifications of the
Go program under `processor/`, TLC configurations that check them on small
instances, and proofs, checked by TLAPS, about the delivery lanes and the
mailboxes they implement, the gates, the message tracker, the limiter, the
senders of Discord and Telegram, the matchers and the pokemon index, the alerts
of raids, gyms, pokestops and pokemon, the weather, role reconciliation, the
shutdown, the reload, the edits of rules, a human's profiles and their schedules,
and the quest summaries. `PROJECT.json`
lists components, runs, mutants, findings, hazards and theorems, and maps every
definition to the lines it stands for.

## 1. The system

### Flow of an event

    webhook (HTTP) -> receiver -> handler goroutine (worker pool)
       -> duplicate cache -> matching against the state snapshot
       -> filters: blocked, validation hook, mutes -> enrichment
       -> renderCh -> render workers -> templates -> Dispatcher.Dispatch
       -> one lane per destination -> processJob's gates -> platform sender
       -> message tracker (edits, replies, clean-deletes)

Beside this flow run the schedulers (profiles, quest summaries), the weather
consumer, the reload of the state snapshot, the limiter's and trackers'
cleanups, the HTTP API and the Discord and Telegram bots, which change rules in
the database and trigger a reload. `Close` (main.go) ends it all in a fixed
order.

### Components

| component | state it keeps | operations | how it interacts |
|---|---|---|---|
| delivery queue `delivery/queue.go` | map target -> lane, each lane's buffer, pending count, `stopped` | `enqueue`, `runLane`, `Stop` | called by render workers, schedulers, hooks, tracker callbacks, and by its own drainers (shame channel) |
| gates `processJob` | failure records, pause switch, limiter's counters | edit, pause, age, limiter, send, failure, disable | asks tracker and limiter; calls senders, disable and breach hooks |
| message tracker `delivery/tracker.go` | TTL cache of sent messages, reply index, saved file | `Track`, lookups, eviction callback, `Save`, `Load`, `Stop` | callbacks enqueue clean-deletes on the lanes |
| Discord sender `delivery/discord.go`, `delivery/ratelimit.go` | token bucket, per-route and global blocks, slots per bot and webhook, opened DM channels | wait, send, edit, delete with retries | called by the drainers, told of limits by Discord |
| Telegram sender `delivery/telegram.go` | none but its slots | send in parts, edit, delete with retries | called by the drainers; its sent ID is kept by the tracker |
| rate limiter `ratelimit/ratelimit.go` | counters per destination and bucket, violations | `IsBlocked`, `Check`, `CheckSummary`, `cleanup`, `Reset` | pre-filter in handlers, gate in processJob, bans through a hook |
| matching `matching/*.go` | none (reads the snapshot) | one matcher per event type, `ValidateHumans*` | called by handlers |
| pokemon index `db/monsters.go` | indexes of the pokemon rules | `BuildMonsterIndex`, lookups | built at load, read by the pokemon matcher |
| raid handler `cmd/processor/raid.go` | raid cache, mutes, reply index | `ProcessRaid`, `CheckRaid`, `filterMuted`, `partitionRaidUsers` | several handlers at once over one cache |
| pokemon handler `cmd/processor/pokemon.go`, `tracker/encounter.go` | duplicate set, tracked encounters, reply index | `ProcessPokemon`, `Track`, eviction | several handlers at once over one encounter |
| stop handlers (lure, invasion, showcase, quest), nests, max battles | the expiring set | route, gate, check-and-add, match, alert | one webhook feeds several of them |
| gym handler `cmd/processor/gym.go`, `tracker/gymstate.go` | last state of each gym, cache file | update, match, sweep, save, load | saved by `Close` |
| weather `tracker/weather.go`, `cmd/processor/weather.go` | weather per cell and hour, votes, a channel of 100 changes | webhook, vote of a pokemon, forecast, sweep | fed by weather and pokemon webhooks; changes go through the channel to its consumer, or are dropped when it is full |
| intake, render pool, shutdown `main.go`, `webhook/receiver.go`, `render.go` | worker semaphore, wait group, `renderCh` | accept, handle, render, `Close` | the stages between HTTP and the lanes |
| state `state/*.go`, `triggerReload` | pointer to the snapshot, debounce timer | `Load`, `LoadWithGeofences`, `Set` | triggered by edits, a ticker and the API |
| rule edits `store/tracking.go`, `db/diff.go`, `api/tracking*.go`, `api/v2_tracking.go`, `!restore` | the tracking tables | create, replace, remove, restore, as SQL statements | each ends in a reload trigger |
| human store `store/human_sql.go` | a human's row, profiles, rules per profile | place, switch, add, delete and copy profiles | called by commands, API and the profile scheduler |
| profile scheduler `cmd/processor/profiles.go` | none of its own | a check at each mark of the hour | reads the snapshot, writes the database, triggers a reload |
| quest summaries `summary_buffer.go`, `quest_summary_dispatch.go` | buckets of quests, snapshot file | `Append`, `List`, `Clear`, sweep, `Save`, `Load`, dispatch | filled by the quest handler, emptied by scheduler, command or API |
| role reconciliation `discordbot/reconciliation.go`, `telegrambot/reconciliation.go`, `!poracle` | none of its own | periodic sync, check of one user, registration, removal, pruning of area overrides | reads guilds and chats, writes humans and rules beside operators, bans and commands |
| bots' dialogue, templates, tiles, geocoding, geofences, enrichment, game data, configuration | mostly none, or caches | I/O, text, geometry | change rules, or shape what is sent |

`PROJECT.json` has the complete list with the reason for each part that is not
modelled.

### What is hard in it

* Lanes are created, reaped and closed while callers that have already looked
  one up are about to send into it; a drainer is itself a caller.
* The tracker's cache evicts in one goroutine and calls back in another, while
  the drainer tracks a new message under the same key; what was due while the
  process was down is handled at start-up.
* The limiter is asked at two times (when an event matches, when its message is
  sent) with two different comparisons.
* Senders wait without holding the lock they computed the wait under; an answer
  may be lost after the message has arrived; an alert of several parts may stop
  half-way.
* Handlers of the same raid or pokemon run concurrently over caches that are
  asked and written in two calls; what they send depends on what was delivered
  so far.
* Webhooks are snapshots that repeat what is over, and several kinds of event
  share one.
* Gym states and weather are swept, restored and filled from several sources,
  and decide whether a webhook is news.
* Loads of the snapshot overlap and read the tables one after the other; edits
  are several SQL statements without a transaction and may stop half-way.
* Schedulers act at marks of the hour, on snapshots that may be stale.
* A user's row is read, guilds are asked one after the other, and the row is
  written by what was read; events, commands and operators write it meanwhile.
* A digest is listed, rendered and cleared while quests are still arriving.
* Shutdown stops one stage after the other while side goroutines still feed them.

The section "hazards" of `PROJECT.json` has each of them at its line, with the
properties that are about it.

## 2. Plan and order

1. *Delivery* (done): `DeliveryQueue` with its abstract specification
   `Mailbox`, `ProcessJob`, `RateLimiter`, `MessageTracker`, and the platform
   ends `DiscordSender` and `TelegramSender`.
2. *Who is alerted* (done): `Matching` (rules and human filters as operators),
   `PokemonMatch` (the pokemon rules' index and filters, operators too),
   `AlertMatch` over both for every event type, `RaidAlerts`, which composes
   matching with the raid cache, mutes and the reply index, `PokemonAlerts`,
   `StopAlerts`, `GymAlerts` and `WeatherTracker`.
3. *Around it* (done): `Pipeline` (intake, render pool, side goroutines and
   shutdown), `StateReload`, `TrackingEdits`, `HumanStore`, `Schedule` and
   `ProfileScheduler`, `QuestSummary`, `RoleReconciliation`.
4. *Next*: the reconciliation of channels and webhooks; the snapshot store's
   sweep; tile gates; the circuit breaker; lifting of mutes.
5. *Proofs* (done: every safety property that a passing run checks, see section
   5). *Next*: the same for the components under 4 as they are modelled.

Dependencies: five modules put components that share no state beside each other,
each under names of its own: `Delivery` (ProcessJob and MessageTracker),
`DeliveryLimits` (RateLimiter, DiscordSender, TelegramSender), `AlertsAndRaids`
(AlertMatch, RaidAlerts), `WebhookHandlers` (GymAlerts, StopAlerts,
PokemonAlerts, WeatherTracker) and `Stores` (StateReload, TrackingEdits,
HumanStore, ProfileScheduler, QuestSummary). The run of such a group and its
proofs extend the same module, so that they speak of the same properties. `MC*`
modules only give constants values and say which component of a group takes a
step. `DeliveryQueue` instantiates `Mailbox` under a refinement mapping;
`PokemonMatch` extends `Matching`, `AlertMatch` extends `PokemonMatch`,
`RaidAlerts` extends `Matching`; `ProfileScheduler` extends `Schedule`. The
modules about one destination (`ProcessJob`, `MessageTracker`, `RateLimiter`,
the senders) each look nearer at what `DeliveryQueue` has as one step. This is
sound because lanes are independent: what crosses them is the post to the shame
channel, which `DeliveryQueue` has, and Discord's limits, for which
`DiscordSender` has one drainer per destination.

## 3. The modules

**DeliveryQueue.** One action is one critical section under `lanesMu` or one
operation on a channel. A caller goes `idle -> due -> reserved (-> full) ->
idle`; `pending` is raised before the lock is released (`Reserve`), and the send
happens outside it. The drainer goes `select -> process (-> failed) -> settle`,
or `select -> reap`. Senders block on a full lane, clean-deletes give up and
return their reservation (`Undo`). `Disable` is the drainer's own blocking
enqueue to the shame channel. `StopBegin` closes the mapped lanes under the
lock; a send on a closed lane panics, is recovered and leaves its reservation.
A lane object may be used again once nothing refers to it.

**Mailbox.** The promise to callers: one mailbox per destination, jobs of a
destination handled one at a time, in order, exactly once. `MailboxSafety` says
that the lanes implement its safety part, the mailbox being the job in hand
followed by the buffer of the mapped lane.

**ProcessJob.** processJob's gates in order, for one destination: edit in
place, clean-delete, pause, failure block, limiter, send, record of failures,
disabling, the breach hook on a goroutine of its own that posts back into the
lane. Ages of the failure block are counted in ticks.

**DiscordSender.** One drainer per destination over the shared token bucket,
route and global blocks and the slots of the bot or the webhook. `Take` is the
wait, with its sleep computed in one step and ended in another; `Call` is one
request of a post, an edit or a delete and `Answer` what doWithRetry makes of
its outcome: success, a refusal, a limit (of the route or global, told or not),
a 5xx, a lost request or a lost answer. `Open` is ensureDMChannel. Discord's own
counters are the external part (`Outcomes`, `GlobalBlock`).

**TelegramSender.** An alert is sent part by part in its order; each request may
be retried or fail after it arrived. A configured order may have a step twice
(parseSendOrder); the sent ID names the parts by step, the later of two. `lost`
records why a message will not be deleted, so that `CleanDeletesEverything` can
say that there is no other reason.

**RateLimiter.** Both buckets, the pre-filter and the gate as separate steps
with messages under way between them, violations and bans, cleanup, reset.
Time is kept as ages up to a horizon after which nothing distinguishes them.

**MessageTracker.** One destination; a message's TTL is an event (`Expire`).
`Track` is two steps (cache, index), eviction and its callback are two more,
`Save` and `Load` go through the file in the cache's unspecified order. `lost`
has the same role as above, for `NoOrphan`.

**Matching, PokemonMatch, AlertMatch.** Rules and events have the fields that
decide; `Wild` stands for "any". The rule's own filters (`...Wants`) and the
human's (`...Allows`: enabled, blocked, area, distance, restriction) are kept
apart, as in the code. PokemonMatch has the index (`BuildMonsterIndex`), the
buckets a webhook is looked up in (`FindMonsters`), PVP ranks and evolutions.
AlertMatch takes a table of rules, two humans and a webhook and runs the
matcher of its type: gym, max battle, quest, invasion, lure, nest and fort in
one step, pokemon in three (load, match, the renderer's deduplication). Where
the database or a map fixes no order, every order is taken. `Describes` says
what a pokemon rule means without index or buckets and is what
`IndexedMatchIsExact` compares with.

**RaidAlerts.** One gym's window from egg to boss, a goroutine per webhook.
`Get` and `FirstSight`/`Changed`/`Duplicate` are the two calls of CheckRaid.
Deliveries happen or are lost at any later time, the reply index follows them.
Mutes are added and never lifted.

**PokemonAlerts.** One encounter, a goroutine per webhook: duplicate check,
match, `Look` (Has), `Track`, dispatch to those who match it now (`monster`) and
to those with a message of an earlier sighting (`monsterChanged`). Eviction of
the encounter, mutes and leaving users interleave; `gap` records that a handler
ran into one of the gaps named at the property.

**StopAlerts.** One place; a webhook maps the slices it carries to their ends.
`Routes` is routePokestop with its fallback: an invasion told by
incident_expire_timestamp and grunt_type only, which the handler reads as well
(the slice "legacy"), is dispatched only when nothing else was there. What such
a webhook promises, `Readable`, leaves it out beside a lure or a showcase, and
section 4 names the difference. `Active` the gate on what has ended, `Duplicate` and
`Accept` are CheckAndAdd. The pool keeps events waiting for any time.

**GymAlerts.** One gym: the tracker's atomic update with the cool-down, what is
matched from the old copy, the sweep, save, load and crash. `last` is what the
webhooks said, whatever the tracker remembers.

**WeatherTracker.** One cell, hours as the clock. Webhooks may be an hour late,
pokemon vote, forecasts are pushed and may be wrong, the sweep forgets. A change
is put into the channel to the consumer or, when it is full, dropped
(`Announce`); changes of other cells fill it, too, so that it may always be.
`Receive` is the consumer; `belief` is what it takes the weather for, `Follower`
what it will when it has received what waits, and `missed` says that the last
change was dropped.

**Pipeline.** A request is one webhook; worker pool, wait group, render channel
and workers, summary scheduler and weather consumer, and `Close` as a sequence
of stages. The ten seconds of the HTTP server's shutdown may run out.

**StateReload.** Content of the database is the number of its last edit; a load
reads humans, then rules, then fences, then publishes. `HalfEdit` is a handler
that stops between its statements without asking for a reload.

**TrackingEdits.** One human's rules in one table: a rule is a family, two
updatable fields and a regular one. A request reads, decides (`Decider` is the
first row that is equal or one updatable field away) and runs its statements
between those of others. What is inserted and what updates a row is given by
positions in the request (`At`, `Ascending`); updates come from the last rule to
the first, as the loop of DiffAndClassify finds them.

**HumanStore.** One human: the place is kept in the human's row and in the
active profile's. Operations are lists of statements, with the reads of
DeleteProfile as steps of their own; the scheduler writes from the snapshot.

**Schedule, ProfileScheduler.** A week of `Days` days of `Hours` hours in
minutes; marks, windows and fires are the code's. The human's zone is an offset
chosen at the start and kept, so changes of it, and of daylight saving time,
are left out.

**QuestSummary.** One human's bucket; quests are buffer keys. A digest's
messages are one step. The sweep's age limit (`BufferMaxAgeSecs`) is left out:
by default a quest leaves at the end of its day.

**RoleReconciliation.** One user, a role per community. A worker is the periodic
sync, a check of one user, or a command; it looks at the guilds one by one
(`Look`, `LookFails`), decides from the row it listed or reads now (`Decide`),
and runs its statements between those of others. `config` is chosen at the start:
platform, area security or not, role_check_mode, remove_invalid_users,
register_new_users. A disabled row has a date or not (`dated`): checks take one
with a date for a lost role and undo it (`ComesBack`). `barred` records that
somebody has blocked the user without a date while no check was under way.

## 4. The runs

A run may hold several modules that share no variable. Its MC module then has a
variable `focus`: a behaviour runs one of them and leaves the others as they
started, so that TLC explores the sum of their states and not the product. The
properties of the ones that stand still hold trivially there, those of the one
that runs are checked as in a run of its own.

Runs that pass:

| run | asks | bounds, and why they are enough |
|---|---|---|
| `lanes` | reaping, loss at Stop, refinement of Mailbox | two destinations, one the shame channel, two lanes, a sender and a cleaner with two jobs each, buffers of two, one post per drainer: a lane is reaped and re-created under a caller, filled, and closed under a blocked one |
| `delivery` | charging, disabling, the breach notice; orphans, replies, deletion times, due messages are deleted | gates: threshold 2, limit 1, lane of two, six jobs, one pause, one window: two streaks, a lapse, a breach with a full lane. Tracker: one edit key, one reply key, three messages of three kinds, one stop or crash: replacement, eviction during tracking, reload of due entries |
| `alerts` | one alert for any rule, exactness of the pokemon index; card after full, justified duplicates, changes are told | every table of two rules (three for pokemon) from small sets that differ in owner, area, distance, entity, kind, league, form and mega, every pair of humans, every webhook; three concurrent raid handlers, egg and boss, changing RSVPs, all RSVP modes, a mute, a refusal, expiry, loss |
| `live` | nothing is lost before the lanes, every caller leaves enqueue, every shutdown ends | lanes: buffers of one, three jobs, so that lanes fill and drainers block on each other's lane. Stages: two requests for one worker, one render worker, a channel of one, a weather change, ticks: everything is full when the signal comes |
| `limits` | bursts, cleanup; told blocks are respected, copies are explained; a clean delete takes every part | limiter: window 2, day 5 ticks, two violations to a ban: several windows in a day, two days. Discord: a channel and a user, one slot, one retry, a route limit of one in two ticks: every outcome meets every other's wait. Telegram: one retry, five messages, two orders, one with a step twice: parts, copies, an edit that fails |
| `handlers` | changes are told, their cards show them; stop events are told once and, where the router can tell them, all matched; gym alerts are news; no weather change is swallowed that did not find the channel full | seven sightings that differ in species, form, verification, weather, IVs, up to three handlers; four webhooks of a stop, with an invasion in its legacy spelling alone and beside a contest, and four ticks past every key's life; two teams and slots, eight ticks over a day of four and a cool-down of two; two weathers, four hours, a channel of one change, which the consumer empties at any time; the first hour has the first weather, since the two are alike, and with forecasts, of which the property says nothing, every hour has |
| `stores` | quiet means fresh, fences are not put back, edits arrive; what is confirmed is there; the active profile applies; fires are answered on time, the profile is a scheduled one; one digest each, nothing lost between dispatches | two loads (one the periodic), two edits, one failure, one request; two editors, three rules each a change from the next, three rows; two profiles, two places; a week of two days of three hours, in the server's zone and in one 105 minutes ahead; two quests twice, two dispatches, a restart and a crash |
| `roles` | a block without a date outlives checks; the registration comes in line with the roles | two guilds, two communities of which one opens an area and one is asked for by command_security; the periodic sync and one check or command beside it; three changes by users, operators or guilds and one failure, under six settings: a sync over a row that was blocked, deleted, registered or changed since it was listed, and a guild that fails to answer |

The numbers of hours, windows and rows are small because the code compares
them only with the constants that are small here; each case above was seen to
happen by its mutant being caught, and by every action firing.

Four runs check a statement of the code's own comments or documents that does
not hold, and TLC shows how; `PROJECT.json` has the quotations:

* `raids_race`: two copies of a raid webhook, handled concurrently, both find
  the raid absent from the cache (get and set are two calls) and are both its
  first notification. Every other event type checks and adds in one call.
* `shutdown_weather`: the weather consumer is not in the wait group; what it has
  under way is sent on the closed render channel, and the process panics before
  the gym states and the summary buffer are saved. `NothingIsLost` is therefore
  stated without the consumer.
* `known_lost`: with two rules one change apart in the table, submitting the
  second again takes it for an update of the first.
* `summary_late`: a quest appended while a digest is rendered is cleared with
  the bucket, without having been in any digest.

More such differences were met while modelling. The models have the behaviour
(no property demands the opposite), but they are not runs. Five are stated as
operators beside the properties: `PokemonAlerts.MutedIsSilent` (a mute that
comes between a handler's filter and its dispatch is not looked at for the
monsterChanged card), `HumanStore.LocationIsTheActiveProfiles`
(`v2_humans.go:424`: the location of a named profile is written over the
human's), `HumanStore.CopyIsWhole` (`human_sql.go:471`: a profile copied to
itself is cleared), `WeatherTracker.ForecastsSwallowNothing` (a forecast for
the hour that has begun hides the change), and
`WeatherTracker.FullChannelSwallowsNothing` (below). The others:

* `tracker/weather.go:327` and `531`: a change is sent to the consumer without
  blocking, and dropped when the channel of 100 is full, as it is when changes of
  many cells come at once and the consumer lags; the hour is stored as known, so
  nothing announces it again. `NothingSwallowed` therefore excludes the hours
  after a drop (`missed`), until the next change gets through.
* `webhook/receiver.go:172`: an invasion is dispatched by incident_expiration or
  incident_grunt_type. One told only by incident_expire_timestamp and grunt_type,
  which `invasion.go:52-55` and `81-84` accept, is tried only when nothing else was
  dispatched (176-182): beside the fields of a lure or a showcase, even one that
  has ended, it reaches no handler ("so each is dispatched
  independently", 146-148). `EverySliceIsMatched` therefore owes it only alone.
* `telegram.go:747`: an order is taken as it is configured, and a step may come
  twice; the reader of the sent ID keeps one part per step (326-334), so that a
  clean delete leaves the other. `CleanDeletesEverything` counts it as lost.

* `discordbot/reconciliation.go:371` (and 293, and Telegram's): `!disable` and
  the ban of a user who passed the limits too often date the block
  (`human_sql.go:174`), which a check takes for a lost role; the next sync, event
  or `!poracle` lifts it. `config/config.example.toml:549` says of disable_on_stop
  that it "requires admin to restart". `BlockOutlivesChecks` therefore speaks of
  blocks without a date only.
* `delivery/queue.go:276`: the lane of a direct message waits under the user's
  id, Discord's answers are noted under the channel's: what was told holds nobody
  back. `BlocksRespected` is therefore stated for channels and webhooks, and for
  global blocks.
* `delivery/ratelimit.go:190`: an answer to a request that met an earlier global
  block, read after the answer of a later block, ends the wait too early: the
  last one read counts. `BlocksRespected` speaks of a block from the time on at
  which the last answer named all that was left of it.
* `discordbot/reconciliation.go:433`: area overrides are pruned when a check finds
  the membership changed, and not when it reactivates a user, on Telegram, or
  again after a failure.
* `store/human_sql.go:120`: a human is created without the blocked alerts that the
  check has computed (`reconciliation.go:281`); a later check writes them.
* `ratelimit.go:125`: the pre-filter blocks at `count >= limit`, the breach is
  told at `limit+1`. A destination that stops exactly at its limit is silenced
  without the notice that `helpers.go:312-314` describes.
* `tracker.go:152`: the eviction callback of an entry that was tracked anew
  under the same edit key removes the new entry's reply pointer; the comment at
  144-147 says newer entries are left alone.
* `tracker.go:384`: a restart rebuilds reply pointers in file order, not in the
  order of tracking ("the latest message", 230-231).
* `tracker.go:195`: after a failed edit the new message replaces the entry of the
  old clean message, which is then never deleted (`lost` = "replaced").
* `tracker.go:362`: due clean messages that find the lane full at start-up are
  dropped (`lost` = "not re-cleaned"); `dispatcher.go:134-135` says they are
  re-cleaned on next load.
* `queue.go:317`: tracked messages are edited while delivery is paused;
  `docs/admin-commands/DESIGN.md:220` says edits are dropped as well.
* `telegram.go:263`: the parts sent before one that fails are in no sent ID.
* `matching/generic.go:95`: a pinned max battle rule has its distance checked;
  the comment at 41 says that check is bypassed.
* `matching/human.go:210`: the first rule of a user stands for all before RSVP
  modes are applied, so that a "first only" rule may hide an "every change" one
  (`raid.go:158`). `ChangesAreNotified` therefore speaks of users all of whose
  matching rules ask for changes.
* `helpers.go:201`: muting the one rule that stands for a user silences the
  user's other rules for that event (`mute.go:33`: "mutes a single tracking
  rule").
* `pokemon.go:101`: a webhook that is found known, and whose encounter is
  evicted before it is tracked, is a first sighting for the tracker and no
  change (the third of the gaps that `ToldOfChanges` names).
* `maxbattle.go:45`: a max battle that has ended is told again a minute later
  if its webhook is repeated; the other events have a gate.
* `state/loader.go:90`: a plain load that overlaps one with geofences publishes
  the older geofences over the newer ones (67-68: "preserving the existing
  geofence data"). `FencesArePreserved` is stated while loads do not overlap.
* `profiles.go:59`: of two profiles scheduled at once any may be taken; the
  comment at 53-54 says they are collected and sorted.

Notes. `FiresOnTime` says that no fire is missed and none answered late, the
latter for zones whole or half hours off the server's. In a zone off by a
quarter of an hour a mark falls on local minutes 5 and 55, a fire in the last
nine minutes of an hour is answered by both marks about it, and
`ScheduledProfileIsCurrent` allows fifteen minutes there instead of ten. In a
zone off by anything else, of which there is none today, it would be nineteen:
the last nine minutes of an hour and the first ten of the next. No run has such
a zone; the theorem is about all of them.
Deadlock is not checked where the system may simply have nothing more to do
within the bounds (stopped lanes, spent jobs, handled webhooks); `limits` never
stops and is checked for it, and so is `roles`.

Symmetry is used for lane objects, handlers and workers, in runs without
liveness only.

Every property of a passing run has a mutant: an operator `Bug...` beside the
definition it replaces, with the mistake its comment names, under which TLC
finds the property violated.

### Fairness

* `DeliveryQueue`: goroutines run (weak fairness); a parked sender is served in
  turn and `select` chooses at random (strong fairness of `Send` and of the
  receive). No caller has to call, no timer to fire, nobody to call Stop.
* `MessageTracker`: the drainer, the callbacks and a Load or Stop that has
  begun go on; nobody has to send, restart or crash.
* `ProcessJob`: drainer and hook goroutines run.
* `Pipeline`: goroutines run; the scheduler, asked again and again at its select
  to stop, stops (strong fairness of `LoopEnds`, since select chooses at
  random); main goes on once it was signalled. Requests need not come, nor the
  signal.
* `RoleReconciliation`: the ticker starts a sync again and again (a new one when
  the last has ended), and a check or command that has begun goes on; no event,
  command or role change has to come.
* `StateReload`: an author of an edit calls triggerReload, loads go on, the
  periodic reload's ticker does not stop. The debounce timer need not fire, and
  an edit that stopped half-way calls nothing: the ticker alone brings it in.

## 5. What is proved

The theorems hold for every value of the constants that satisfies the ASSUMEs of
the modules concerned, and rest on nothing else. Each is stated with the name of
the property that a run checks. Where a module is instantiated under other names
its assumption is a definition, `ConstantsOK`, which the composing module or the
theorem assumes and TLC evaluates. These ask for types of the constants (natural
numbers for times and bounds, sequences of rules for requests, hours of the week
for schedules, sets disjoint from the values that stand for "none"), and for
what the code fixes: at least one render worker, a Discord route that allows at
least one request, a weather tracker that keeps a cell and its history for two
hours at least (its channel may have any capacity, none included), and a week of a day or more, of two hours or more.

Every proof has the same plan: an invariant that is shown to hold initially and
to be preserved by each action, one lemma per action, and to imply the property.
What follows says what the invariant had to add to the property, and why.

### Delivery

`DeliveryQueueProofs`, for every set of destinations, callers and lanes, every
buffer size and number of jobs.

* `TypeTheorem`, `ReapSafeTheorem`, `PendingTheorem`, `OneDrainerTheorem`. Reap
  deletes the map's entry when `pending` is zero; that this harms nobody needs
  the exact meaning of `pending`, which needs to know that a caller holds a lane
  exactly between its reservation and its return (`CallersOK`), that the number
  of holders is finite so that it can be counted (`FewHolders`, with lemmas on
  how one step changes it), that a drainer has a job in hand (`DrainersOK`), that
  the map and the lanes agree on who serves whom (`Routed`), and that only Stop
  closes lanes (`ClosedByStop`). OneDrainerPerTarget follows from ReapSafe: two
  drained lanes of one target would both be the map's.
* `StopInvariantTheorem`, `StopDrainsTheorem`: when Stop has returned nothing is
  buffered. Every mapped lane is closed once `stopped` is set (`StopCloses`), a
  mapped lane has a drainer until the closed channel ends it (`MappedServed`),
  and a drainer ends with nothing buffered (`DeadEmpty`).
* `MailboxTheorem`: Spec => MailboxSafety, the refinement. Initial states map to
  initial states, and each action maps to an accepted job, a handled job, the
  closing of the queue or a stutter (`MailStep`, one lemma per action). It needs
  that the lane a caller has reserved is the one of its job's destination
  (`Addressed`), and from ReapSafe that it is still the map's.
* `CallerOrderTheorem`: the jobs of one caller for one destination are handled in
  the order of its calls. `OrderInv` says so of the trail of a destination, what
  was handled followed by what waits, and that all of a caller's jobs there came
  before the one it is enqueueing.

`DeliveryProofs`, the gates and the tracker.

* `RecordTheorem`, `DisabledTheorem`, `ChargeTheorem`, `TypeTheorem`. The record
  could pass the threshold if a send failed for a destination that is blocked
  already; `NotBlockedAtSend` says that the gate a job has passed still holds
  when its send returns, since only the drainer writes the record and the clock
  only lets blocks lapse.
* `TrackerInvariant`, `NoOrphanTheorem`, `ReplyTheorem`, `DueTheorem`, for any
  keys, jobs, lane and number of restarts. The invariant follows a message from
  the job that is to send it to its deletion: not yet sent, it waits in one place
  and no callback or deletion is about it (`FreshInv`); an entry is of a message
  that was sent, shows until it is due and is clean if it has to go
  (`EntryInv`); only what is due is on its way to be deleted (`DueInv`); a clean
  message that shows is in an entry, an eviction, a callback, a job, the file or
  the part of it that is still to load, or was lost in a named way (`HeldInv`).
  `FileInv` is what makes a restart safe: the file has each key once and loading
  the rest of it overwrites nothing, because nothing is sent until it is loaded
  (`PhaseInv`).

`LimitsProofs`, the limiter and the senders.

* `NoticeTheorem`, `CleanupTheorem`, `TypeTheorem`. OneNotice is inductive with
  types: a hit moves the count by one and notices exactly at the step past the
  limit (`HitInvariant`), time only ends windows, and a reset or a cleanup leaves
  no live window without its notices.
* `SlidingBurstTheorem`: no interval as long as a window has two limits' worth of
  messages. The windows are not sliding; `Placed` says where each message of the
  last interval comes from: the latest window, and then it is no older than that
  window, or the one before it, and then it is not the first of it, since the
  first is as old as its window. At most `limit` of the one and `limit - 1` of
  the other remain (`BurstBound`).
* `CleanTheorem`: between Telegram's jobs nothing is under way; to get there the
  invariant also says, of a send under way, that what shows is lost, named by the
  old sent ID or among the parts sent so far (`Accounted`), and of a deletion,
  that what it has gone through is deleted or lost. Orders are any sequences of
  steps: an earlier part of a step that comes again is among what is lost.
* `DiscordInvariant`, `BlocksTheorem`, `CopiesTheorem`. The limiter never knows
  less than Discord holds: an exhausted route has a window that ends
  (`WindowsEnd`), and as long as its headers were all seen, the answer on the
  wire or the limiter's entry says it is exhausted for at least as long
  (`Known`). What a lane sleeps at the gate is no shorter than that (`Sleeps`),
  so the route of who passed the gate is open (`Through`), as the lane is the
  only one that uses the route. Of a block, the bucket is empty and refills no
  earlier than its end (`BlockHolds`). A message that was posted and whose answer
  had a status is on the wire, and the answer that ends its job is read there
  (`PostedOnWire`). Looking for this invariant showed that `BlocksRespected` has
  an exception, named in section 4, which a block of two ticks was too short to
  reach.

`PipelineProofs`: `NothingLostTheorem`. The order of the stages is the argument:
while the wait group counts every worker that runs (`Counted`), nobody sends
after it is empty; while the channel is closed only then, nothing is sent on it
closed; while the render workers are waited for, and the scheduler after them,
nobody dispatches to the stopped dispatcher (`Rendering`, `Scheduling`). All of
it holds while the requests were served in time and no consumer runs (`Good`).

### Alerts

`AlertsProofs`, for any rules, humans and webhooks.

* `IndexTheorem`: the buckets are a partition of the table (`IndexPartition`),
  and those a pokemon is looked up in hold every rule that describes it and let
  no other pass.
* `OneAlertTheorem`: in any order of the rules a human is kept exactly if one of
  theirs earns it. The rule that stands for a human is the first of theirs that
  passes; that there is a first one is well-founded induction on positions,
  stated as a lemma about the least element.
* `DroppedTheorem`, `RsvpTheorem`, `ChangesTheorem`, for any number of raid
  handlers: what the cache holds was said by a handler that has written it
  (`SaidInv`), the reply index points only to messages that follow a full card
  (`ShownInv`), and a rule for every change is kept through the filters unless it
  is refused or muted (`KeptInv`).

`HandlersProofs`, the other handlers.

* `GymInvariant`, `NewsTheorem`. What the tracker holds, and what the file does
  while no crash made it stale, agrees with the last webhook (`Agrees`), or the
  gym has been silent for as long as the sweep takes.
* `ToldOnceTheorem`, `SliceTheorem`. A key in the set outlives its event
  (`KeyLasts`), so that an event that was accepted is either in the set or over,
  and the gate drops what is over. For the converse, that everything which came
  in time is matched, a key is in the set only if a worker is on the event or it
  has been matched (`SliceInv`), and what is owed of a webhook is among what is
  routed (`ReadableRouted`).
* `WeatherInvariant`, `SwallowedTheorem`. Under the conditions the property
  names (`Good`) the cell is true, for hours that have begun (`Right`), what was
  inferred in this hour is in it (`Voted`), and the sweep has not taken a cell
  that counts (`Kept`). What the consumer will believe when it has received what
  waits (`Believed`, unless the last change was dropped) depends on the age of the
  last webhook, and is stated for each (`BeliefAtNow`,
  `BeliefAfterOne`, `BeliefAfterTwo`).
* `PokemonInvariant`, `ToldTheorem`, `CardTheorem`, for any sightings, rules,
  users and handlers of an encounter. `UpToDate` is the argument for the first:
  outside the gaps, and while at most one handler has tracked and not dispatched
  (`Alone`), whoever's last alert is out of date is owed one by that handler, and
  the alert will be up to date. That a message is up to date (`Current`) says
  more than the property: one that shows IVs shows those of the state, and one
  that shows none stays right when they are revealed, so that a reveal owes
  nobody anything. While there is no encounter nobody has an alert (`Untold`).
  For the cards, the stored webhook shows the species and form of the state, and
  its IVs once they are known (`Sticks`), so that a change found between states
  is one between the webhooks a card compares (`ChangesDiffer`).

### State, stores and roles

`StoresProofs`.

* `QuietTheorem`, `FencesTheorem`, `TypeTheorem`. The invariant behind the first
  is `EditsPending`: an edit that is missing in the snapshot has a trigger owed,
  the timer running, or a load that began after it and has read nothing older
  (`WillHoldAll`); `OneLoad` is needed so that what such a load publishes is the
  last word. TypeOK needs `ReadInOrder`: a load that fails publishes nothing, so
  that no snapshot has an unread table.
* `EditsInvariant`, `ConfirmedTheorem`, for any clients, rows, rules and requests
  of any length. What has to be kept is a promise about statements that have not
  run yet: each rule of the request has a row that none of them hits, or is
  inserted by one of them, or is written by one into a row that is there and that
  no other hits (`Sure`). A statement of the request itself moves a rule from the
  last two to the first (`After`); one of another request either leaves all rows
  the promise is about, or marks the request as disturbed. That the promise holds
  when a request begins (`ReplacingPromises`, `InPlacePromises`) is where
  `unrelated` is needed: of two rules that are no change away from one row, the
  deciding rows differ, so that no update is about the row of another rule. The
  lemmas on `Ascending` say that the positions of a request can be gone through
  in their order, by least counterexample on their number; a new row is hit by
  nobody, since no statement names a uid that was not given yet.
* `HumansInvariant`, `ActiveTheorem`. In the middle of an operation the row and
  the profile differ, so the invariant speaks of what is left to do: the
  statements that remain of the operation under way lead to a human with the
  place of their active profile (`Leads`, with a clause for each shape that such
  a rest can have), and what a read put into them is still true.
* `ScheduleInvariant`, `FiresTheorem`, `ScheduledTheorem`, for any number of days
  and of hours (two at least), any schedules and any zone. A minute of the week
  is read as a day, an hour and a minute in one way only (`Read`, `ReadBack`), by
  lemmas on remainders and quotients that leave the prover linear steps; with
  them the three cases of the window are about distances in time: what is at most
  nine minutes ago is answered, over the end of an hour, a day and the week
  (`Answered`), and what is answered is at most nine minutes ago, or, in the
  first ten minutes of an hour, nine more than these (`AnswerIsRecent`). The next
  mark comes five or ten minutes after a mark (`NextMarkIs`), and where zones are
  half hours apart a mark in the first ten minutes of a local hour is its first
  minute (`LocalMinute`).
* `SummaryInvariant`, `DigestTheorem`, `BufferedTheorem`. A quest that waits has
  a webhook that no digest has answered (`WebhooksLeft`), and a dispatch under
  way owes the bucket nothing it has not listed, but what came late
  (`NothingOwed`).

`RolesProofs`: `RolesInvariant`, `BlockTheorem`. What workers have left to do is
decided before a block may come. While a block stands that began when nobody was
at work, all of it is part of a deletion (`BarredInv`, `Harmless`): whatever
began later has read the blocked row, or reads it when it decides; only a worker
that has decided has statements left (`Acting`).

### Only model-checked

* Liveness (`EditsArrive`, `NobodyWaitsForEver`, `StopCompletes`, `BreachIsTold`,
  `DueIsCleaned`, `RolesWin`): ENABLED and fairness are beyond the prover.

Types are theorems or follow from the listed invariants and are checked with the
modules while they are written; they are not repeated as invariants of the runs.

## 6. What is not modelled

Text, layout and pictures are left out, as are geometry (areas of a point are
given), PVP arithmetic (ranks are given), parsing of requests and commands, the
dialogue of the bots, and start-up: these files are most of the lines of the
repository. The tile gate bounds a wait and changes wording. The pokemon that
a weather change affects are left out (the consumer's alerts of one change are
one). Of the stores, named locations and summary schedules are single
statements. Of reconciliation, channels and webhooks, subscription roles,
greetings and goodbyes are left out. The parts under "Next" in section 2 have state
worth modelling and are listed as such among the components.
