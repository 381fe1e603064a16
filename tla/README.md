# InfoMatrix in TLA+

InfoMatrix is a local-first feed reader: a Rust core (`src/core/crates`) over
SQLite, a server (`app_server`) and a C bridge (`ffi_bridge`) on top of it, and
shells in Swift and Flutter.  This directory models the parts of it whose
correctness depends on time, order, concurrency or failure, checks them with TLC
and proves the central ones with TLAPS.  Paths below are relative to the
repository; `storage` is `core/crates/storage/src/lib.rs`.

## The system

| Component | State it keeps | Operations | Hard behaviour | What makes it correct |
|---|---|---|---|---|
| refresh scheduling (`storage`) | `feeds` row: `last_fetch_at`, `failure_count`, `health_state`, `next_scheduled_fetch_at`; settings per feed, group, global | `upsert_feed`, `delete_feed`, `record_fetch_result`, settings and group operations, `list_due_feeds` | numeric backoff; every settings change must reach every schedule it affects | a feed is due neither early nor late by the policy in force, and silent when disabled |
| refresh loops (`services/refresh.rs`, `ffi_bridge`) | the batch in hand; `refresh_jobs`, `refresh_attempts` | background task, `refresh_due`, `refresh_feed` | state read before an `await` and written after it; one failure in a batch; kills; two refreshers | no feed starves; counts are right; the two tables agree |
| refresh content (`feed_snapshot.rs`, `fetcher`) | `entries`, `entry_sources`, `etag`, `last_modified` | conditional fetch, store items, upsert feed, record, subscribe, delete | several writes without a transaction, in two orders | a validator never hides content; deletion is final |
| sync journal and replay (`storage`) | `sync_events` | `append_sync_event`, `list_pending_sync_events`, `acknowledge_sync_events`, `apply_sync_events` | replay in another order, twice, or half-way | replay does what the operations did |
| CloudKit coordinator (`CloudKitSyncManager.swift`) | watermark in memory and in `UserDefaults` | `syncNow` with three attempts | overlapping calls, partial and unknown outcomes, restarts | everything is uploaded, nothing is passed over |
| notification policy (`notifications`, `services/notifications.rs`) | `notification_signatures`, `notification_events`, `notification_digests` | `process_refresh_notifications` | check and record apart; kills; two feeds with one article | nothing twice, nothing without a decision |
| notification delivery (`NotificationDeliveryCoordinator.swift`) | permission flag, the events in hand | `syncPendingNotifications` | overlapping polls, refusals, restarts | shown before acknowledged, and in the end |
| retry schedule (`notifications::scheduler`, `fetcher`) | none | `compute_next_refresh_at`, `compute_next_scheduled_fetch` | numeric | monotone, bounded |
| entry store (`storage`, `handlers/items.rs`, `ffi_bridge/entries.rs`) | `entries`, `entry_sources`, `entry_contents`, `entry_states`, `entry_search`, the old `items` tables | upsert of articles and notes, `patch_item_state`, full text, replay, deletion, lists and counts, `backfill_entry_tables` | read-modify-write; an event after its write; a migration statement by statement beside everything else; articles that two feeds share | no flag, text or article is lost; the index finds what is shown; peers are told |
| feed parser (`parser`) | none | `parse_feed`, `normalize_item` | guids that are blank, missing or edited | an item keeps its id and shares it with no other |
| discovery (`discovery`, `services/discovery.rs`) | `discovery_cache` | `discover_site` on the server, `discover` in the bridge | probes come back in any order; two hints lead to one feed | the ranking does not depend on the order |
| subscription, OPML (`handlers/subscriptions.rs`, `ffi_bridge/subscriptions.rs`, `opml`, `app_core`) | `feeds`, `feed_groups` | add, subscribe, import, export, rename, group, delete | SELECT and INSERT apart; imports that end half-way; calls of server and app at once | imports are complete, articles come at once, groups are distinct |
| icons (`icon`, `services/icon.rs`) | `icons`, files | `extract_icon_candidates`, the icon job | ranking; the job outlives its feed | the best image that loads |
| server handlers, FFI wrappers, `app_core` | none | delegate to `storage` | | |
| shells (`AppState.swift`, Flutter) | selection, lists | user actions with `await` in the middle | stale selection | what is shown belongs to what is selected |
| npm installer | files | download, unpack | I/O only | |

Components talk through SQLite: each request, background task and bridge call
opens a connection of its own, so every statement outside a transaction may be
followed by one of another connection.  Shells call the core through the bridge
or HTTP; devices meet only in CloudKit.

## Modules

**RefreshPolicy, FeedSchedule.**  `RefreshPolicy` has the pure backoff:
`ComputeNextScheduledFetch` is `compute_next_scheduled_fetch`, in units of time
instead of seconds, with the day as constant `DayCap`.  (The saturating
operations of the code cannot saturate below the cap of a day: an interval is 32
bits, the product 64.)  `FeedSchedule` keeps the rows.  `dueIn[f]` is
`next_scheduled_fetch_at` as the time left, `sinceFetch[f]` the age of
`last_fetch_at`; an absolute clock would make the state space infinite.  One
action per operation of `storage`; a settings change recomputes the schedules it
reaches in the same action, as the code does.  `ReadForRecord` and
`WriteFetchResult` are the two halves of `record_fetch_result`.

**RefreshLoop** composes `FeedSchedule` with refreshers of two kinds.  `Server`
runs `refresh_feed_by_id`, which records a failure and then leaves the batch
through `?`; `Ffi` runs `refresh_feed_with_runtime`, which records none.  The steps
are: list the due feeds (or take the requested one), fetch, read, write, record
the attempt; users change settings and refreshers are killed between any two.
**RefreshJobs** adds `refresh_jobs`, which `record_refresh_attempt` writes after the
result.

**RefreshContent** has one feed URL and one article.  It keeps what the scheduling
modules leave out: the validator sent with the fetch, the version that came back,
the feed id in hand.  The server stores items, upserts the row and records; the
bridge and every subscription by URL (`persist_parsed_feed_snapshot`) upsert,
store and record.  `delete_feed` is two steps, as it is two statements.

**SyncJournal** has the replicated tables of each device, the local operations with
the event each appends, and `apply_sync_events` (`Apply`, `Decodable`).  Time is
the number of the event: `created_at` grows over all devices.  **SyncCoordinator**
is `syncNow`: list, upload, acknowledge, fetch, apply one event at a time, move the
watermark; each await may fail, before or after the cloud did its part.
`Second` is the resolution in which the watermark is saved.

**NotificationPolicy** is the pure part of the crate `notifications`: by what an item is
recognised (`CanonicalIdentityKey`, `ContentFingerprint`) and the decision about it
(`EvaluateCandidate`: keywords, interval, quiet hours).  **NotificationPipeline** is
`process_refresh_notifications` with one step per call of `storage`, and the shell's
poll; a content is the pair of key and fingerprint.  **NotificationQueue** is the abstract queue: an event is pending, then
shown, then delivered.  `ImplementsQueue` is the refinement, with `QueueState` as
mapping; it includes the queue's fairness, so it is also the liveness property.

**FeedItems** is what the parser makes of the items of a document: which of guid, URL
and hash becomes the id, and what counts as absent in each format.  **EntryStore**
has the entry tables, and one step per transaction or bare statement of `storage`:
refreshes, notes, patches of states (read, write, event), full text (read, fetch,
write, event), replay of entry events, `delete_feed` in two steps, and the migration
of an old database table by table.  Clients are connections; each has one call in
hand, and may be killed.  Ghost variables record what callers asked for (`wanted`),
what events told (`told`), and which entries had two calls at once (`raced`).

**Discovery** is a discovery on the server (all probes at once) and in the bridge (one
by one, paths only if nothing was found).  The web is a constant: what a GET of each
URL may bring.  Hints, probes, merging and scores are those of the code, titles and
URLs are values of which the score knows the words.  **Subscriptions** extends it with
every call that changes `feeds` and `feed_groups`: adding a URL (server, bridge,
`app_core`), subscribing to input, OPML import and export, renaming, grouping,
deletion, and the icon job.  `upsert_feed` and `create_group` are a SELECT and a write.
An OPML document is the sequence of its feeds, each with the folders around it: what an
import sees of the tree.  `Alphabet` is the order in which an export lists its folders, and
`NoRow` stands for the feed that has no row.

**Icons** (candidates of a page, their ranking, the choice) and **RetrySchedule** (the
schedule of `refresh_jobs` and the copy in `fetcher`) are pure.

`MCFeedSchedule` and `MCSyncExchange` only define symmetry sets; `MCNotification`,
`MCEntryStore` and `MCSubscriptions` define the items, documents, policies and the web
of their instances.  Definitions headed "Mutant" are wrong variants of the definition
that follows them; no specification uses them.  They are there to show that each
property can fail.

## Runs

Passing:

| Run | Question | Bounds |
|---|---|---|
| `feed_schedule` | does every sequence of operations keep the schedule within the policy? | one feed (rows are independent but for settings), two groups to move between, two intervals, cap of 8, so that the cap cuts the third failure |
| `refresh_server` | can a failing feed starve another? is the failure count right? do `refresh_jobs` and `feeds` agree? | two feeds and batches of one, so that one feed is always left out; settings change at any time |
| `refresh_race` | what may break the policy when settings change during a fetch? | one feed, a server and an app, two intervals, cap of 3, one kill |
| `refresh_content` | can a validator hide an article? does what is published arrive? | three versions, three rows, two kills: enough to delete, subscribe again and refresh with what was read before |
| `sync_follow` | does the replay reproduce feeds, groups, memberships, settings and notes? the same after a restart with the saved watermark? can a kill or a lost answer lose an event? | two events of any kind by one writer, so that the second may undo or change the first; the devices start empty or with a feed and a group that both have; two values of settings; batches of one, one restart, three units to the second |
| `sync_exchange` | can overlapping calls acknowledge or pass over an event? | two writers, two calls per device, batches of one |
| `sync_operations` | does every operation, journaled or not, stay within its types? is everything uploaded in the end? | one writer, two events |
| `notify_policy` | at most once; no silent drop; minimum interval | two feeds that carry the same story, one of them with a guid, and an item without a URL; off, priority, quiet hours, digests with keywords; one change of settings |
| `notify_delivery` | does the shell implement the queue? | two polls at a time, two events, one restart |
| `entry_store` | what do overlapping calls, kills and the migration leave of flags, texts, index, articles and events? | two connections, four calls, one kill; two feeds, five documents with an edited article, one that both feeds carry, blank guids; one note, one old article |
| `subscriptions` | what do overlapping subscriptions, imports, groups and deletions leave? is the ranking the same in any order? | a server and an app, three calls, one kill; a site, its feed and a page that is none; OPML documents with nested folders, a URL that is there twice with two titles, and an invalid URL; two groups that differ by case |

Where deadlock checking is off the system may stop: the bounds on events, crashes
or versions are used up, or there is nothing to do.

`sync_operations` has the only notes that are deleted and group settings that are
written, because those leave no event and `CaughtUpDevicesAgree` cannot hold with
them.

The module of `subscriptions` also holds the assumption `IconsAreRanked`: TLC compares
`ExtractIconCandidates` and `SiteIcon` with their definition on every page of up to two
links and two images.

Symmetry is used in safety runs only, and in `feed_schedule` with an action property:
none of the permuted values is told from another by a definition or a property.

One run finds a violation.  It checks a statement of the repository's documents, and
TLC shows the code doing otherwise:

| Run | What happens |
|---|---|
| `sync_tombstone` | tombstones of feeds and settings lack fields their decoder requires; the batch stops there at every sync (`docs/sync.md:9`) |

## Known deviations

The passing runs hold under conditions, and say how far each deviation reaches.  To
see one, change the constant named in the run named.

| What the code does | Where | Seen with |
|---|---|---|
| the bridge's `refresh_due` returns on a fetch error before it records anything: the feed stays due, stays first, and the feeds behind it are never fetched (`docs/architecture.md:157`: failures "back off") | `ffi_bridge/refresh.rs:63` | `NoFeedStarves`, with `RefreshLoop`, two feeds, `Server = {}`, `Ffi = {app}` |
| of two failures recorded at a time one is not counted, though `failure_count` is documented as consecutive | `storage:2509` | `CountIsConsecutive`, `refresh_server` with `Server = {srv, req}`, `OnDemand = {req}` |
| a failed attempt overwrites `last_success_at` of the job, "last successful refresh timestamp", with NULL | `storage:1950` | `RecordRefreshAttempt` itself; `JobAgreesWithFeed` says that it tells of the last attempt |
| a feed deleted during its fetch leaves its articles, under an id no `delete_feed` reaches | `services/refresh.rs:146` | the states of `RefreshContent` with all refreshers idle and `article.source # row` |
| an event uploaded after a later one was fetched is below the watermark and never comes | `CloudKitSyncManager.swift:147` | `OnlyLateEventsAreMissed` without its last disjunct |
| devices that both write one entity swap their values: replay compares no times | `storage:2666` | `CaughtUpDevicesAgree`, `sync_follow` with `Writers = {a, b}` |
| overlapping `syncNow` of one device apply an older batch over a newer one | `CloudKitSyncManager.swift:112` | `CaughtUpDevicesAgree`, `sync_follow` with notes only (`Feeds = {}`, `Groups = {}`, `Synced = {}`), `Calls = {c1, c2}`, `MaxCrashes = 0` |
| `delete_group`, `upsert_group_refresh_settings` and `delete_entry` leave no event, though "all key writes map to local events" (`docs/architecture.md:144`) | `storage:1134`, `1306`, `969` | `CaughtUpDevicesAgree`, `sync_follow` with `Unjournaled = TRUE` |
| a record CloudKit refused is acknowledged with the others | `CloudKitSyncManager.swift:265` | `ProcessedIsUploaded`, `sync_exchange` with `RecordsMayFail = TRUE` |
| two refreshers both find a signature new and both notify; one drops as a duplicate what the other has not decided; each reads the last notification before the other's | `services/notifications.rs:45`, `35` | `NotifiedAtMostOnce`, `DuplicatesWereDecided`, `IntervalIsKept`, each in `notify_policy` with two `Refreshers` |
| killed between signature and event, the item is a duplicate of nothing | `services/notifications.rs:47` | `DuplicatesWereDecided`, `notify_policy` with `MaxCrashes = 1` |
| refreshes of one feed that overlap store the older article after the newer validator | `services/refresh.rs:146` | `ValidatorMatchesContent`, `refresh_content` with `Overlap = TRUE` |
| overlapping patches of one entry lose a flag, or the last event tells of the wrong state | `storage:2589` | `FlagsAreWanted`, `PeersAreTold` without `raced` |
| killed between the write of an entry and its event, peers never learn of it unless it is written again | `storage:2646` | `PeersAreTold` without `cut` |
| a refresh that comes before the migration copies the states of old articles gives them fresh ones, and the old flags are lost | `storage:508` | the old articles that `UpsertItems` adds to `raced` |
| a refresh or a migration that overlaps `delete_feed` leaves articles nothing deletes, or an entry without a source, for which every list is an error | `storage:957` | `OrphansAreLate` without `late` |
| two migrations at once and a deletion between them leave an index entry of the older text | `storage:546` | `IndexIsCurrent` without `twice` |
| an article that two feeds carry belongs to the one that was refreshed first and goes with it, though the other is still subscribed to | `storage:947` | the last disjunct of `ArticlesLeaveWithTheirFeed` |
| a killed `delete_feed` leaves the feed without its articles, which a 304 keeps away | `storage:957` | `ArticlesLeaveWithTheirFeed` without `cut` |
| all items of an RSS feed whose guid is blank are one entry (Atom and JSON take the URL) | `parser:152` | `item.external = Blank` in `ArticlesLeaveWithTheirFeed` |
| the UNIQUE error of a feed that another connection subscribes to meanwhile ends an import; the rows before it stay | `storage:748` | `op.at = "failed"` in `ImportsAreComplete` |
| two groups that differ by case, when two connections create them at once | `storage:1111` | `GroupsAreDistinct` without `twins` |
| a title the user gave is overwritten by the next refresh, import or subscription; an import resets the type of a feed to unknown; a subscription puts the plain URL in place of a cached icon until the job ends | `storage:760` | `UpdateRow` |
| a feed subscribed to through discovery in the bridge has no articles or icon until its first refresh (`docs/discovery.md:31`) | `ffi_bridge/subscriptions.rs:260` | `ArticlesAtOnce` promises it for the other ways only |
| bridge: a content type alone makes a candidate valid (the docs: hints "alone must not be trusted"), and a site whose page cannot be fetched has no candidates, though its paths would answer | `discovery:191`, `114` | `ValidateCandidate`, `BridgePageFails` |
| of equal scores the list shows the first URL first and the server subscribes to the last | `handlers/subscriptions.rs:197` | `ServerChoice`, `BridgeChoice` |
| a candidate of higher score without a title drops the title that came first, so titles depend on the order of the answers | `discovery:217` | `UpsertScoredCandidate` |
| `discovery_cache` is written and never read or purged (`docs/discovery.md:19`, `42`; `docs/data-model.md:137`) | `storage:1512` | `ReturnDiscovered` |
| a candidate icon that cannot be reached ends the search, where one that is unfit does not (`docs/architecture.md:163`) | `services/icon.rs:32` | `SiteIcon` |
| the parser's hash has the URL with its fragment in it, so dropping the fragment from the canonical key changes nothing: an item with a changed fragment is notified again | `notifications/audit.rs:7` | `ContentFingerprint` |
| `refresh_jobs.next_attempt_at` does not know the interval the user chose, and nothing reads it | `notifications/scheduler.rs:62` | `ComputeNextRefreshAt` |

In the other direction: `OnlyRacesBreakPolicy` says a schedule leaves the policy only
through a result computed from settings that changed before it was written, and
`OnlyLateEventsAreMissed` that the watermark passes an event only if it was uploaded
late.

## Fairness

- `RefreshLoop`, `RefreshJobs`: a refresher goes on with its batch, and time passes.  Nothing is
  assumed of users or publishers: fetches may fail for ever.
- `RefreshContent`: refreshes start (the loop's ticker), a refresh goes on, a
  deletion that began ends, and a fetch that is tried again and again is answered
  at some time (strong fairness, as it may fail in between).
- `SyncCoordinator`: `syncNow` is called again (the shell does at launch and on
  the user's request), a call goes on, and CloudKit does not fail for ever.
- `NotificationPipeline`: the shell polls again (every 60 s) and the notification
  centre does not refuse one event for ever.  If it did, the events behind it would
  never be shown: `deliver` throws out of the whole batch.

## Proofs

Eight modules hold the theorems, for every set of feeds, devices, clients, documents and
so on, and every value of the bounds.  Beyond the named assumptions of the modules on their
constants (types, and that NULL is none of the values it stands beside) a theorem has a
hypothesis only where the code deviates without it, and then it is the condition of the
run (see "Known deviations") or a weaker one.

| Module | Theorem | Property | Hypothesis |
|---|---|---|---|
| `FeedSchedule_proofs` | `TypeCorrect`, `WaitsWithinPolicy`, `BackoffHonoured`, `DisabledStaysQuiet` | `TypeOK`, `WaitWithinPolicy`, `NeverDueEarly`, `QuietWhenDisabled` | |
| | `BackoffGrows` | the action property `BackoffNeverShrinks` | |
| `RefreshJobs_proofs` (and `RefreshLoop`) | `LoopTypeCorrect`, `JobTypeCorrect` | `LoopTypeOK`, `JobTypeOK` | |
| | `FailuresAreConsecutive` | `CountIsConsecutive` | `OneRefresher` |
| | `JobsAgree` | `JobAgreesWithFeed` | `OneRefresher`, `Ffi = {}`: the bridge writes no jobs |
| | `OnlyStaleWritesBreakPolicy` | the action property `OnlyRacesBreakPolicy` | |
| `RefreshContent_proofs` | `TypeCorrect`, `ValidatorNeverAhead` | `TypeOK`, `ValidatorMatchesContent` | `~Overlap` for the second |
| `SyncCoordinator_proofs` | `TypeCorrect`, `WatermarkPassesOnlyLateEvents` | `TypeOK`, `OnlyLateEventsAreMissed` | |
| | `AcknowledgedIsUploaded` | `ProcessedIsUploaded` | `~RecordsMayFail` |
| | `FollowersConverge` | `CaughtUpDevicesAgree` | `~Unjournaled`, `OneCall`, one writer: the instance of `sync_follow` |
| | `DevicesConverge` | `Undisputed => CaughtUpDevicesAgree`: any number of writers, as long as no cell was written on two devices | `~Unjournaled`, `OneCall` |
| | `LastWriteSurvives` | `LastWriteHolds`: what a device that is caught up holds | `~Unjournaled`, `OneCall` |
| | `FeedsConverge` | `CaughtUpFeedsAgree`: the part of it about feeds and groups, for any writers and overlapping calls | `~Unjournaled` |
| | `ReplayHasEffect`, `OperationTells` | of the operations and their replay | `~Unjournaled` for the second |
| `NotificationPipeline_proofs` | `TypeCorrect`, `ContentNotifiedOnce` | `TypeOK`, `NotifiedAtMostOnce` | `OneRefresher` for the second |
| | `NothingLostAsDuplicate`, `NotificationsKeepInterval` | `DuplicatesWereDecided`, `IntervalIsKept` | `OneRefresher`, `MaxCrashes = 0` |
| | `QueueIsRefined` | `Queue!Safety`: every step of the pipeline is one of the queue or none | |
| | `QuietHoursWrap`, `QuietHoursSplitTheDay`, `PriorityLiftsTwoReasons` | of the policy, for every minute of the day | |
| `EntryStore_proofs` | `TypeCorrect`, `SearchFindsWhatIsShown`, `FlagsKept`, `PeersHearTheLast`, `OnlyLateArticlesAreLeft`, `ArticlesStay`, `ArticlesAreDistinct`, `CountsMatchLists` | the eight invariants of `entry_store` | the named assumption `IdentityAssumption` |
| `Subscriptions_proofs` (and `Discovery`) | `SubscriptionsAreTyped`, `GroupsStayDistinct`, `SubscriptionsHaveArticles`, `ImportsStayComplete`, `ExportsAreReadBack` | `TypeOK`, `GroupsAreDistinct`, `ArticlesAtOnce`, `ImportsAreComplete`, `RoundTrip` | |
| | `DiscoveredRankingIsDeterministic`; `RankingAlwaysDeterministic` of `DiscoverySpec` alone | `RankingIsDeterministic` | |
| `RefreshPolicy_proofs` | `RetryIsBounded`, `RetryBacksOff`, `CopiesAgree` | of the retry schedules | |

**FeedSchedule.**  None of the three safety invariants is inductive.  A settings change
recomputes a schedule from `health_state` and `failure_count`, so it keeps
`WaitWithinPolicy` only if the two agree (`HealthFollowsFailures`), and it keeps
`NeverDueEarly` only because the new schedule counts from the present, which is after the
last fetch.  `ScheduleInv` is the conjunction of the four, and `AbsentFeedsBlank` says that
rows of feeds that do not exist hold nothing, so that a feed subscribed to again starts
clean.  The proof rewrites `ScheduleInv` as one predicate per row (`Good`), shows once each
that a row is good after being rescheduled, after a fetch result and after a tick, and then
takes the actions one by one.  `RefreshPolicy_proofs` has the lemmas about the backoff: its
type, its bound by `DayCap`, and that it grows with the failures; the leaves about the
retry schedules keep products opaque and reason from their bounds.

**RefreshLoop, RefreshJobs.**  What `record_fetch_result` writes was read a step before, so
`CountInv` says of a refresher between the two that the count it read is still that of its
feed: with one refresher nothing else writes it.  `JobInv` adds that a refresher about to
record its attempt has just written the feed's result, so that a feed and its job may
differ only then.  For `OnlyStaleWritesBreakPolicy` there is no such condition: with the
schedule lemmas of `FeedSchedule_proofs`, each step of any refresher or user is shown to
keep a schedule on the policy, or to be a stale write; and one that is off it to be put
back by any other write.

**RefreshContent.**  `ContentInv` has four parts beside the property: ids of rows are fresh,
refreshes come one at a time (`~Overlap`), versions held were published and are no older
than the row's, and what a refresh will write to its row is in the store as long as the
row is there (`RecordsWhatIsStored`).  The last is what an overlapping refresh breaks.

**SyncCoordinator.**  `UploadInv`: a call about to acknowledge its batch has all of it in the
cloud (`~RecordsMayFail`), whatever its other attempts and the calls beside it did.
`WatermarkInv`: a call that has fetched holds, together with what its device has applied,
all that the cloud has of other devices but for what came late; so when it moves the
watermark it passes nothing; and the saved watermark is not ahead of the one in memory.

Convergence needs no induction over the journal: an invariant says how far each device has
come.  Tables are *cells* (a membership, a setting, a note), which a write replaces, and the
sets of feeds and groups, which grow.  `Effect(e, before, after)` is what an event does to
both; `OperationTells` shows it of every operation that is journaled and `ReplayHasEffect`
of its replay, so the rest of the proof knows no entity types.  Of the steps it needs to
know five kinds (`StepKinds`): a write, a fetch, a replay, a call that ends, and the quiet
ones, in which nothing happens, a call gives up or a watermark falls back.  The invariants:

- `DatesInv`: dates tell events apart and every cell written has a latest event.
  `DeliveryInv`: what is applied or fetched comes from another device through the cloud and
  could be decoded.  So two devices that are both caught up mean that there is no tombstone
  (`NoTombstonesApplied`).
- `AddedInv`: the feeds and groups of a device are those it started with and those added by
  what it journaled or applied.  The order does not matter, hence no `OneCall`.
- `OrderInv`: what a call has left to apply is beyond the watermark, and later than what the
  device has applied beyond it that the call will not apply again.
- `CellsInv`: a device that wrote all there is of a cell holds its latest value; one that
  wrote none of it does, once it has applied the latest event, unless that is due to be
  applied again: by the call that has it, or because it is beyond the watermark and the next
  call fetches it.  A batch that is cut off between an older event and a newer one that was
  applied before leaves the older value, but then the newer is due again; this is what a
  watermark that moves only at the end, or falls back with a restart, is good for.

Their counterexamples without the hypotheses are three rows of "Known deviations": `OneCall`
(an older batch is applied over a newer one after the watermark has moved), `Undisputed`
(two devices swap their values), `~Unjournaled`.  TLC found no violation of any of these
invariants with two writers, records that are refused and a restart, either.

**NotificationPipeline.**  `NotifyInv` says that content of events and drafts is signed, that
no draft holds what an event has, and that an item found new is in neither until its
decision.  `DecidedInv` says that signed content was decided on or is being decided on now.
`IntervalInv` says that what a refresher believes of the time since the last notification
accounts for what was sent, by itself or before, and that content of a feed was signed for
that feed.  `ShownInv` (what a poll has listed and no longer has to show was shown)
carries the refinement.

**EntryStore.**  `TypeInv` has what each client holds between its steps.  `IndexInv`: past the
statement of a migration that copies the texts, every old article has one, so the index
that the last statement fills agrees.  `StateInv` is one predicate per entry (`RowInv`): of
an entry outside `raced` at most one client has it in hand, and what that client is about
to write is its patch applied to what is stored now; what it is about to tell is what is
stored; so each step is either none of the entry's business (`SameRow`, `RowFrame`) or one
of the few that the lemmas take one by one.  `OrphanInv` says that a deletion between its
two statements has left nothing of its feed but what came late, and that old rows belong to
feeds that are there.  `CarriedInv` strengthens `ArticlesLeaveWithTheirFeed` by the feed an
article belongs to, which carried it: else the deletion of a third feed could take it.
`IdentityInv`: the id of an article is its guid, or its URL, or neither is there.
`IdentityAssumption` says of the feeds that a guid that is not blank stands for one
publication; without it two publications overwrite each other.  That a non-empty finite set
of positions has a greatest (`ItemRows` takes the last of two items with one id) is shown by
a minimal upper bound, which `NatLessThanWellFounded` and `WFMin` give without an induction
that the provers cannot instantiate.

**Discovery, Subscriptions.**  `DiscoveryIInv` adds to `RankingIsDeterministic` that scores
are integers and candidates are records, without which the merge that only takes a title
over (`EXCEPT !.title`) could not be shown to keep the score; the lemma `UpsertKeepsBest` is
the heart of it.  `IInv` of subscriptions has four parts more:

- `TypeInv`: the shape of every row and of every call at every step, with what an OPML row
  or a hint may hold.  `WebAssumption` (every URL that is tried or that an answer names is
  one of the web, and pages are finite), `DocumentsAssumption` (folders have names of
  groups, blank ones or none) and `NullAssumption` are what it rests on.
- `GroupsInv`: a call that is about to insert a group saw no group of that name, and if there
  is one now its name is among `twins`.
- `ArticlesInv`: what was promised is in `articles`, or a call that deletes it is between its
  two statements, or was killed there; a call about to finish its row has stored the articles
  of that row, unless the row has been deleted since; and the feed being deleted is the one
  that has the id in hand.
- `ImportInv`: each row a call has done is kept (`RowKept`), and what the next statement will
  rely on holds (`StepReady`: the row it saw is there, or another call touched it).  A step
  of another call adds what it writes to `moved`, so it breaks neither.

The attempt showed an earlier form of `ImportsAreComplete` to be false: of two rows for one
feed the second may have written its title before it is done, so the first may be
overwritten by the row in progress.  `MCSubscriptions` now has a document with two titles
for one feed.  `RoundTrip` needs no more than the types: the lemmas on `InOrder` show that
counting how many elements come no later numbers a finite set in a total order, so each
feed has one place in `ListFeeds` and one in the export, whatever group it is in.

Model-checked only:

- liveness (`NoFeedStarves`, `NewContentArrives`, `PendingReachCloud`, and of
  `ImplementsQueue` that what is queued is delivered) and `ENABLED`: no backend;
- `TombstonesAreReplayed`, which does not hold (the theorems on convergence say nothing of
  devices that a tombstone keeps from catching up);
- what the folds of `Icons` compute, against its definition.

## What is not modelled

- The syntax of XML, JSON, HTML and OPML, URL joining, HTTP and redirects inside a
  probe, the extraction of full text, files.  Their outcomes are constants of the
  models or nondeterministic.
- Clocks that differ between devices; several articles per feed in `RefreshContent`
  (`EntryStore` has several, without validators).
- A crash between a write and its `append_sync_event` for feeds, groups and settings
  (`EntryStore` has it for entries and states); replay of notification settings.
- Item state is journaled and replayed, but left out of `CaughtUpDevicesAgree`: its
  event is skipped when it comes before the article.
- Wording, and the rows of digests (`insert_notification_digest`), whose `max_items` and
  interval the code does not use.
- `create_entry` takes kind and source from its caller; the model has notes of the
  user.  `delete_entry` and `delete_group` are only called by the replay of events that
  nothing emits.
- In `Icons`, sizes beyond 24 bits are rounded by the code before they are compared.
- Everything listed as `not_modelled` in `PROJECT.json`, with the reason: the shells
  keep UI state, the wrappers none.

## Plan

The runs stay few: a run answers a question of its own, and runs of one module that
can share an instance are merged.

1. `SyncJournal` with the write and its event as separate steps for feeds and groups.
2. `ReaderState`: `AppState.swift` and the Flutter shell, results that come after the
   selection changed.
