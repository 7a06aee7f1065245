# Rocksky: TLA+ models, checks and proofs

Rocksky is a scrobbler on the AT Protocol. What a user plays reaches it from
players that hold a WebSocket open (`src/remote-ws`), from Navidrome clients,
Last.fm and ListenBrainz API calls, Spotify polling and mirrors of other
services. It shows the current track on the user's public profile, lets the
user's web and mobile pages control a player, and writes every listen as a
record to the user's PDS. The records come back through the Jetstream firehose
into Postgres.

This directory models the parts in which processes, callbacks and messages meet
in shared state. Section 1 is the inventory, section 2 the modules and how they
correspond to the code, section 3 the runs, section 4 the proofs, section 5 where
the code departs from its comments and docs, section 6 what is left out, section 7
the plan.

To check a run: `tlc -config Status.cfg MCActorStatus.tla`. To check the proofs of
a module: `tlapm RemoteWsProofs.tla`.

## 1. Inventory

The repository holds about 4000 files. Much of it is user interface, generated
lexicon code, SDK bindings and request handlers without state of their own. The
components with a protocol inside are these.

| Component | State | Operations | Meets others through |
|---|---|---|---|
| stop debouncer (`remote-ws/.../stop_debouncer.ex`) | one map of pending timers, its mailbox | schedule, cancel, has_pending?, fire | casts and calls from connection processes; NATS `song.stopped`; Redis |
| profile and primary device (`now_playing.ex`) | Redis `primary_device`, `np`, `lastsong`, `ws_lastsong`, `stopped` | track, status, queue, set_primary, on_disconnect, resume | the debouncer; every connection of the user runs the same code over the same keys; NATS |
| device registry and relay (`devices.ex`, `ws/handler.ex`, `ws/connection.ex`) | Registry entries, one process per socket | register and snapshot, broadcast, command, terminate | mailboxes of the user's connections |
| web miniplayer and controller SDK (`StickyPlayerWithData.tsx`, `remote-controller.ts`) | device list, active device, socket state | apply frames, select, command, reconnect | frames of remote-ws |
| status publisher (`apps/api/.../status.ts`) | `lastPushedStatus`, rate limit, expiry timers; the record on the PDS | onSongChanged, onSongStopped | NATS events of all sources; Redis `ws_lastsong`; the PDS |
| scrobble publishing (`nowplaying.service.ts`, `scrobbleGuard.ts`, `subscribers/scrobble.ts`) | Redis window, block and locks; the PDS; Postgres | scrobbleTrack, publishScrobble, onNewScrobble | concurrent calls from every source; rows written by the ingest |
| history import (`import/app.ts`) | job row, cache of puts | runImport | calls scrobbleTrack, three at a time |
| Jetstream ingest (`crates/jetstream`) | watermark, channel, dedup cache, permits; Postgres; webhook queue | connect and read, consume, one task per commit, post a batch | several Jetstream servers; NATS `rocksky.scrobble.new` and its deletions |
| mirror supervisor (`crates/mirror`, `putMirrorSource.ts`) | rows of `mirror_sources`; map of pollers, their watermarks | put, reconcile, poll, cancel, respawn | Postgres; NATS `rocksky.mirror.user`; createScrobble over HTTP, which answers before its scrobbleTrack runs |
| idle timers (`crates/scrobbler`, `crates/webscrobbler`) | map of timers per user | announce a song, schedule its stop, abort, fire | NATS events that the status publisher reads |
| Rockbox router (`apps/rockbox-router`) | table of machines, calls in flight per process | resolve, provision, sweep, admin requests | Fly API; Postgres |
| Spotify poller (`crates/spotify`) | a thread and a progress tracker per user; Redis keys | poll, restart, scrobble | NATS; Redis; scrobbleTrack over HTTP |
| shared track list (`crates/tracklist`) | one Redis list per user | add, insert, remove, move, shuffle | concurrent HTTP requests |

The remaining ones (Navidrome server, XRPC handlers, tap, storage connectors,
playlists, feeds, proxies, SDKs, CLI, legacy relay) are in `PROJECT.json` with
the reason they are not modelled: they read and write rows for one request, or
move data in a sequential batch, or are superseded.

### What makes them correct

* **Stop debouncer.** A pause ends the profile once, later; a resume cancels that;
  an entry of the map never outlives its timer, since `has_pending?` would then
  answer true for ever.
* **Profile.** At most one device drives the profile; a paused or departed device's
  profile is ended; what deduplication remembers is what the public sees; a user
  with a connected player has a connected primary.
* **Registry and mirrors.** Every controller ends up with the user's players and
  their tracks, and with the primary as its active device, whatever order
  snapshots and broadcasts are read in.
* **Status publisher.** The record shows what the sources said last, the map agrees
  with the record, an entry expires.
* **Scrobble publishing.** One record per listen and no listen lost; a bot is
  stopped in time; songs, artists and albums that listeners bring at once end up
  linked to each other; no call waits for ever.
* **Jetstream ingest.** Every commit of a user reaches a handler, the creation of a
  record before its deletion, whatever servers lag and connections drop; the rows
  end up as the records are; each record is announced once; the tasks and the
  webhook worker do not wait for each other for ever.
* **Mirrors.** What a listener plays elsewhere while the mirror is on is scrobbled,
  and scrobbled once; a mirror that is switched off stops, one that is on runs.
* **Idle timers.** The song a scrobbler announced last ends when nothing follows it;
  a listener has one timer, and a timer stops a song once.
* **Rockbox router.** A machine that runs, and costs, is known to the table or to
  a call; a row whose machine is gone is repaired; callers get their answer.

### What is hard about it

Every handler of remote-ws is a sequence of Redis commands with those of other
connections in between, and no transaction. Casts, timers and calls are ordered
by a mailbox. Broadcasts are per recipient. The status publisher's two loops
share a map across awaits. scrobbleTrack decides by rows that its own records
become only seconds later in another process. The ingest's servers
lag by different amounts and share a watermark; its tasks overtake each other. A
mirror's poller is replaced before it has ended, and an idle timer is spawned outside
the lock under which its predecessor is aborted. The router's processes coalesce
calls each for itself, and a sweep destroys what it selected some awaits earlier.
Processes restart, sockets drop, puts fail. `PROJECT.json` lists the hazards line by line.

## 2. The modules

| Module | Models | Lines of code it stands for |
|---|---|---|
| `StopTokens` | abstract: what the debouncer promises | - |
| `StopDebouncer` | the GenServer, its mailbox, timers, restart | `stop_debouncer.ex` |
| `RemoteWs` (EXTENDS StopDebouncer) | every handler that touches the profile, a Redis command per step | `now_playing.ex` |
| `DeviceMirror` | registration, broadcasts, snapshots, controllers | `handler.ex`, `devices.ex`, `connection.ex`, the miniplayer, the SDK |
| `IdleTimers` | the idle timers of the scrobble APIs | `events.rs` of the scrobbler and the webscrobbler, their callers |
| `ActorStatus` (EXTENDS IdleTimers) | the status publisher, a step per await | `status.ts` |
| `ScrobblePut` | one listener's concurrent calls: guards, lock, put, row | `nowplaying.service.ts`, `scrobbleGuard.ts`, `import/app.ts`, `repo.rs` |
| `ScrobbleCatalog` | several listeners' calls for one song, the ingest's tasks, the subscriber | `nowplaying.service.ts`, `repo.rs`, `subscriber.rs`, `subscribers/scrobble.ts` |
| `CommitFeed` | abstract: what the handlers of the ingest are given | - |
| `JetstreamSources` (EXTENDS CommitFeed) | connections, watermark, channel, dedup cache, consumer | `subscriber.rs` |
| `CommitTasks` (EXTENDS CommitFeed) | the handlers behind their permits, rows, announcements, the webhook queue | `subscriber.rs`, `repo.rs`, `webhook_worker.rs` |
| `MirrorSources` | a listener's Last.fm mirror: row, supervisor, pollers, the calls of createScrobble that outlive their requests | `putMirrorSource.ts`, `crates/mirror`, `createScrobble.ts`, of scrobbleTrack the window and the lock |
| `RockboxRouter` | one user's machines: calls, sweeps, several router processes | `apps/rockbox-router/src` |
| `*Proofs` | the theorems about the module they are named after; those of the debouncer are in `RemoteWsProofs`, of the idle timers in `ActorStatusProofs`, of `JetstreamSources` and `CommitTasks` in `IngestProofs` | - |
| `MC*` | symmetry sets for the runs | - |

They fit together as the code does. `RemoteWs` contains the debouncer as it is (its
handlers are the debouncer's clients), and `DeviceMirror` takes the same protocol
from the other side: what the frames do to the controllers. `ActorStatus` reads the
events that `RemoteWs` publishes and takes the debouncer's promise
(`StopTokens`) as its environment: `WebsocketPauses` and `WebsocketStops`. In the
other direction `RemoteWs!NavidromeTakesOver` is what `ActorStatus` does to Redis.
`ScrobblePut` and `ScrobbleCatalog` divide one function between them: what is per
listener and per listen (guards, lock, record) is in the former, where the
catalog is a pause of any length (`SeeToCatalog`); what listeners share (rows,
links, waits) is in the latter, which begins past the guards.

The ingest is cut in two at the point where the consumer hands an event to a
handler. `CommitFeed` says what passes that point: every commit emitted after the
last subscription without a cursor, creations before deletions, and no creation
again without its deletion after it. `JetstreamSources` is shown to implement it, and
`CommitTasks` takes it for what its consumer reads. The rows of songs, artists
and albums, which a creation writes in one step of `CommitTasks`, are those of
`ScrobbleCatalog`. A mirror's poller is one of the callers of `ScrobblePut`; `MirrorSources`
has of such a call what lies between two pollers that offer the same play, each a step of
its own: the duplicate window, the lock with the put, and the ingest of the record. `ActorStatus` composes the idle timers with
the publisher that reads their events: a submission publishes `song.changed` and
spawns a timer, and a timer that fires is a `song.stopped`. `StopTokens` is the
abstract specification of those timers too.

### Correspondence

`PROJECT.json` maps every definition to its lines. How state is represented:

* **StopDebouncer.** `mailbox` is the GenServer's mailbox, `pending` the entry of
  `state.timers` for the one user, `armed` the timers running in the BEAM, `firing`
  a fire between its Redis DEL and its publish, `stops` the timers whose
  `song.stopped` was published. A timer reference is a number, given when the
  schedule is cast so that a stop can be followed from its request; that naming
  stands for the identity `Process.send_after` would give it. The DID is left out:
  every key of the map is one user's, and users share only the order of the
  mailbox.
* **RemoteWs.** `pc[d]` is the next Redis command, cast, call or publish of the
  handler that the connection of device `d` runs; a handler's local variables are
  `song`, `target` and `saved`. `conn` is the Registry entry and the process:
  `"closing"` while `terminate` runs. A restart (`Crash`) takes every connection
  and the debouncer's timers, and leaves Redis. When a node shuts down in order
  the Redis connection is gone before the sockets' `terminate` run, and a Redis
  command then answers nil or false (`redis/redix.ex`), so that `on_disconnect`
  finds no primary: the same as no `terminate` at all. Three variables are history:
  `revived`, that a `song.changed` put a song back on a profile that a pause had ended;
  `stray`, that when the primary was last set, or a song published, the primary was not
  connected; `mixed`, that when `lastsong` was last set, another handler was between its
  own SET of it and its publish.
* **DeviceMirror.** `todo[d]` holds the rest of a connection's handler, so that a
  broadcast is a registry lookup (`List`) followed by one `SendTo` per
  recipient in any order; `inbox` is a process mailbox and socket together. Of
  frames only kind, device and track matter. `crossed` and `omitted` are history that only
  `ClientsConverge` reads: whether the last SET of the primary found another connection announcing
  one, or an announcement was cut short since by the end of its connection; and the
  controllers whose snapshot, read since that SET, left the primary out.
* **ActorStatus.** `chg` and `stp` are the two loops with the await each is at.
  A record is its status and a CID; `Put` checks `swapRecord` as a PDS does. A song is
  its status and whether it came with a duration, which sources in `Untimed` may leave out:
  without one there is no expiry timer. `expires` (the entry in the map had a duration), `outrun` (an event of
  the other subscription was in flight when the last was published) and `crossed` (the last
  event that was not skipped was at the PDS while the other loop was) are history.
* **ScrobblePut.** A call is also the name of the record and row it makes. `rate`,
  `block`, `lock` are the Redis keys `scrobble:rate`, `scrobble:block`,
  `scrobble-put`; expiry is `Lapse`. `lost`, `accepted` and `late` are history
  variables that only properties read. The bot flag is a block that nobody lifts.
* **ScrobbleCatalog.** One song, one artist, one album, and the album of another artist that has the same title
  (`Namesake`), of which only its UPDATE of the tracks by title matters: `uri[k]` is the row of kind
  `k` (`None`: absent; `Bare`: made by a scrobble, no uri yet), `link` the columns
  `artist_uri` and `album_uri`, `owners[k]` the user rows. A task of the ingest is
  a transaction that reads at its start and writes at its end. Handlers that read
  several rows in a row may fill in any subset of the links whose rows exist, which
  is what reading them at different times amounts to; a uri never changes once it
  is set, so that a late write of what was read writes the same value. `lost` is history: the
  artist and album records whose INSERT failed because a scrobble had made the row, bare,
  while their task ran.
* **IdleTimers.** A timer's number is its place in the order of the spawns. `announced`
  counts the submissions between their `song.changed` and their spawn, `inHand` holds
  the timers whose submission has not had the lock of the map yet, `installed` is the
  AbortHandle in the map. `Due` is a timing assumption: a timer sleeps for the rest of its song
  and thirty seconds, longer than any submission waits for the lock, so that it does
  not fire while its own call is still on the way to the map.
* **JetstreamSources.** `log` is what the repositories emitted, in that order, and its
  length is the clock: `relayed[s]` holds the `time_us` a server gave each event, which
  is at most `MaxLag` after it was emitted. `conn` is the worker of a server with its place in
  the server's replay; `dedup` is the LRU cache, least recent first; `received` and
  `again` (records whose creation was handed over more than once) are history. `start` counts the events before the last connection that had no cursor,
  of which the subscriber promises nothing.
* **CommitTasks.** `held` is the commit the consumer has while it awaits a permit,
  `task[p]` the handler that owns permit `p`. `rows` maps a listen (user, track, time) to
  the record its row has. `news` and `dead` count the messages published, `queue` is the
  Redis list, `worker` the loop that holds the queue's lock while it pops and posts.
  `excused` collects the records that section 5 is about.
* **MirrorSources.** Plays are numbered in the order they were played; a watermark is
  the number of the last one seen. `hidden` are the plays that the provider has yet to learn of. `home` is the
  row a poller was spawned with, to which a panic takes it back; `page` is what it has before it in a poll, `upto`
  where the watermark will be. `offers` counts a play's calls of scrobbleTrack that nobody
  waits for, `passed` those that found no row in the duplicate window, `locks` is `scrobble-put` of Redis,
  `commits` what the ingest has yet to handle. A poller's own check may miss a row, as it does when an
  enrichment gave the play another title. `unsaid`, `cut` and `lapsed` are history: a message nobody got; plays left to nobody
  (older than the backfill or the page, learned of too late, or with a call, a put or an ingest that failed); plays
  whose lock expired before there was a row, or with a call past the window.
* **RockboxRouter.** `row` is the row of `rockbox_machines`, `alive` the user's
  machines at Fly (a stopped one counts: Fly starts it on demand), `inflight[r]` the
  entry of the map in `ensure.ts` of process `r`, `call` and `sweep` the await each is
  at with the machine it has in hand. Creating a machine may be refused, for a mishap or
  because the name is in use; Fly's rule is not in the repository, so both outcomes are allowed.

## 3. The runs

Every run finishes within three minutes on two workers (most in seconds). Bounds
are named constants of the module they belong to. All runs turn deadlock
checking off because their counters run out and the system then rightly stops; the
liveness properties, and the "nothing under way" of `StopNotLost` and `AllSettled`,
are what says that it does not stop too early. The type invariants of the modules
whose proofs have them as a theorem are not repeated in the runs.

| Run | Module, configuration | Bounds | Shows |
|---|---|---|---|
| `remote_ws` | RemoteWs | 2 devices, 1 track, 1 selection, 2 pauses, 2 timers | `StopNotLost`, `GoneIsSilent` |
| `remote_ws_solo` | RemoteWsSolo | 1 device, 2 tracks, 2 selections, 2 pauses, 1 restart | `HandlersReturn`; of the debouncer `PendingIsLive`, `AtMostOneStopPerSchedule` (refinement of `StopTokens`), `EveryStopSettles` |
| `remote_ws_settles` | RemoteWsSettles | 2 devices, 2 tracks, 1 selection, no pauses | `DedupAgreesWithProfile`, `PrimarySettles` |
| `mirror` | Mirror | 1 player, 1 controller, 2 tracks, 2 joins | `TypeOK`, `PlayersAppear` |
| `mirror_pair` | MirrorPair | 2 players, 1 controller, 1 expiry | `ViewsCatchUp`, `ClientsConverge` |
| `status` | Status | 4 sources, 1 track, 3 events and failed requests together, 2 in flight, 3 submissions | `TypeOK`, `LastEventWins`, `LastPushedIsRecord`, `DedupExpires`; of the idle timers `OneTimerLeft`, `IdleSongsEnd`, `OneStopPerCall` (refinement of `StopTokens`) |
| `scrobble_put` | Scrobble | 3 calls, 2 songs, 3 times, 1 fault, 1 expiry, window of 2 with room for 2 | `OneRecordPerListen`, `AcceptedAreFew`, `ListenKept` |
| `scrobble_catalog` | Catalog | 2 listeners, 3 permits, 1 trouble, 1 album of the same title | `SongLinksAgree`, `AllSettled` |
| `jetstream_sources` | JetstreamSources | 2 servers, 1 record, slack 1, lag 2, channel of 1, cache of 1, 3 events, 1 drop | `NothingSkipped`, `ReplayEndsUpToDate`, `FeedsInOrder` (refinement of `CommitFeed`), `EveryEventReceived` |
| `commit_tasks` | CommitTasks | 2 records of one listen, 3 events, 2 permits, 2 embeds, 1 replay, 1 fault | `TypeOK`, `RowsFollowRecords`, `AnnouncedOnce`, `ComesToRest` |
| `mirror_sources` | MirrorSources | 2 pollers at once, page of 1, backfill of 1, 2 plays, 2 puts, 1 fault (a failure, panic or restart, a late play, or a lock that expires early) | `NothingPassedOver`, `MirroredOnce`, `FollowsRow`, `PlaysMirrored` |
| `rockbox_router` | Rockbox | 2 processes, 2 calls on one and 1 call and a sweep on the other, 2 machines, 1 fault | `TypeOK`, `NoOrphans`, `CallsReturn`, `StaleRowsRepaired` |

### Why the bounds are enough

* *Debouncer*: its one client in `remote_ws_solo` is the handler of a device. Two
  timers are a schedule and its reschedule, with the fire of the first in a mailbox of two
  when the second arrives. A second user would be a second, independent instance,
  and more timers or clients are covered by the proofs.
* *RemoteWs*: a race of this code is between one handler and another one, so two
  devices show each pair of handlers in every interleaving, and the second pause
  finds what the first left behind. A third device adds nothing to a pair, but can
  leave more behind; `StopNotLost`, `GoneIsSilent` and `DedupAgreesWithProfile` are proved for any number
  of devices, and what a third one adds to the first is one more way to its condition `Overtaken` (section 5).
  Both excuses, `stray` and `mixed`, come about in the runs: without them the properties are violated there (section 5).
  `remote_ws_settles` has two tracks, without which deduplication could not believe in the wrong one, and no
  pauses, which it does not look at. The solo run has a restart and is about the debouncer.
* *DeviceMirror*: an inbox of two lets a broadcast overtake a snapshot and the other
  way round, the only two kinds of frame that write the same entry of the view.
  The liveness run needs one player; the pair of players is for broadcasts
  of one against another's departure, and of two changes of the primary against each other: with two players and an
  expiry both conditions of `ClientsConverge` come about, `crossed` and `omitted`. More players, controllers, joins
  and expiries are covered by the proofs of `ViewsCatchUp` and `ClientsConverge`.
* *ActorStatus*: three events are a status, the one that replaces it and the one
  that returns to it, from any of four kinds of source (websocket, navidrome, a
  scrobbler with idle timers, one that publishes its own stops). The code compares whole
  statuses, the source among them, so that four sources with one track are four
  statuses; a second track would multiply those. Two events in flight put both loops to work at once, and one
  event behind another on the same subscription or on the other one. A failed request takes the place of an event.
  `LastEventWins` and `LastPushedIsRecord` are proved for any sources, tracks, events and any number in flight.
* *IdleTimers*: of three submissions two may be between spawn and lock in either order while
  the third's timer sleeps. More are covered by the proofs of `OneTimerLeft` and `OneStopPerCall`.
* *ScrobblePut*: three calls give a holder of the lock, one that it turns away and one
  that finds the row; listen times 0, 1, 2 with a duplicate window of 1 give equal,
  near and far; a window with room for two overflows with the third. What a fourth
  call could add is covered by the proofs of `OneRecordPerListen`, `AcceptedAreFew` and
  `ListenKept`.
* *ScrobbleCatalog*: two listeners' tasks with three permits give every collision and every
  order of the three kinds of task, and the artist records of both may lose to the bare row
  of one scrobble, which is the exception of `AllSettled`. More of either are covered by the
  proofs of `SongLinksAgree` and `AllSettled`. Of a second artist's
  catalog the one row that can reach this song is modelled: an album of the same title, whose record may be ingested at
  any moment. A second song of the same artist would have links of its own, which are set by the same statements.
* *JetstreamSources*: two servers are the faster, which sets the watermark, and the slower,
  which must not be left behind by it. A slack of one and a lag of two is the smallest
  slack that the module's assumption admits for that lag (a cursor plays the events of its own instant too), so that a worker that
  comes back does begin past events it has read, with one more that it has not. A cache of one key forgets a creation when the deletion
  comes, the only way for a replay to reach the handlers. Longer logs, more servers and
  records are covered by the proofs of `FeedsInOrder`, `NothingSkipped` and
  `ReplayEndsUpToDate`. The exception of the last needs more than this run has and is not
  reached in it: the property holds here for every record (section 5 has the bounds at which it
  does not).
* *CommitTasks*: two records of one listen share a row, two permits let a deletion run
  beside a creation, and two embeds fill the worker's batch, whose lock the tasks want.
* *MirrorSources*: a poller that was cancelled and its successor are two; two puts are an
  enabling and what changes it. With a page and a backfill of one play, the second play
  is the first one that either cuts off, and the one that is played before a late one. Which free slot a new
  poller takes makes no difference, and is fixed. `NothingPassedOver`, `MirroredOnce` and `FollowsRow` are
  proved for all bounds.
* *RockboxRouter*: two calls of one process coalesce, the third races with them from the
  other process, as does the sweep. A second machine is what a repaired row gets.
  `NoOrphans` is proved for any number of each.

Symmetry is used for interchangeable devices, players, calls and songs, in runs that check
no liveness property.

### Fairness

* Weak fairness of handlers, mailbox and timers (`Proceed`, `Serve`/`Debounce`,
  `Expire`): BEAM processes are scheduled, a GenServer takes its messages, and timers fire.
* Weak fairness of a connected player's pushes: the CLI pushes its track every four
  seconds while it plays (`apps/cli`); a track push is enabled whenever no handler of the
  connection runs, and is what `PrimarySettles` and `PlayersAppear` live on.
* Weak fairness of delivery to a connected controller and of the SDK's reconnect (its
  backoff ends), up to `MaxJoins`.
* Weak fairness of the API's event loop as a whole (`ApiRuns`): as long as one of its two loops, a timer or
  the end of a backoff has something to do, it does one of them. Node's event loop, and requests that are answered or fail.
* Weak fairness of the scrobbler's tasks as a whole (`ScrobblerRuns`): submissions between their awaits
  (`Submits`, `Submitted`), timers and their publication (`ScrobblerStops`). Tokio runs
  its tasks, and the lock of the map is held for no await.
* Weak fairness of each Jetstream server's relay, of its worker (it reconnects without
  end) and of the consumer.
* Weak fairness of the consumer of `CommitTasks`, of each handler and of the webhook worker;
  strong fairness of a handler's push, for the lock of the queue is taken again and again
  by the worker, and tokio's mutex is first come, first served.
* Weak fairness of the supervisor, of each poller (its sleep ends, its requests are
  answered or fail), and of the calls of scrobbleTrack and the ingest as a whole: promises are settled, and a record comes back
  or its task fails. None for the provider to learn of a play, nor for a lock to expire.
* Weak fairness of the router's calls, whose requests are answered or fail, and of
  a player that asks for its next segment (`Ask`), which is what repairs a stale row.
* None for sources, listeners, users, expiries, sweeps, faults or restarts.

`ScrobblePut` and `ScrobbleCatalog` have no fairness. In the latter every step goes
forward (a put, a row, a link, a message, a wait that ends), so a behaviour whose
processes run reaches `AtRest`, where only giving up is left to do, and the liveness
question becomes the invariant `AllSettled`.

## 4. The proofs

All for any constants that meet the named assumptions of the module; no step is
left unproved.

**RemoteWsProofs**, on the debouncer. `DebTypeCorrect`, `PendingNeverStuck` (`[]PendingIsLive`) and
`DebImplementsTokens` (`DebSafety => Tokens!Spec`). The inductive invariant is
`DebInv`: types; `PendingIsLive`; `TokensApart`, that a timer is in one place only
(the mailbox as a schedule, armed, the mailbox as a fire, firing, published); and
`OnlyIssued`, that only issued timers are anywhere. `PendingIsLive` alone is not
inductive, for a fire removes the entry of another timer only if fires are apart.
Each handler step is then a step of the abstract specification or a stutter: a
schedule issues a token, a cancel drops some, publishing spends one.

**RemoteWsProofs**, on the profile. `RemoteTypeCorrect` needs `InHand`, that a handler on the way to the
profile carries a track and one on the way to select carries a device, from which
the types of the events and Redis keys follow. `RemoteUsesDebouncer` shows that
every step of every handler of any number of connections is a debouncer step or
leaves its variables alone, so that `RemotePendingNeverStuck` and `RemoteStopsOnce`
follow from the debouncer's theorems.

`RemoteStopNotLost` (`[]StopNotLost`) is the theorem about all handlers at once. The property
says nothing while a handler is at work, so `StopInv` says who minds the stop then: it
is `Due` (in the mailbox with no cancel behind it, running with no cancel before it, or
expired), or its fire is being published, or a handler is `Tended` (it is past the point from
which it schedules, or clears the mark), or `Ending` (it will publish the end itself). Two
more parts say what the handlers know that began before the mark was set (`Late`,
`Restoring`). They are where the exception comes from: a handler that read `stopped` as false
publishes a `song.changed` after the stop of a pause that came in between. With two
devices nobody is left who could bring `ws_lastsong` back (`NobodyLate`).

`RemoteGoneIsSilent` (`[]GoneIsSilent`) and `RemoteDedupAgrees` (`[]DedupAgreesWithProfile`) are for any number of
devices, tracks and any bounds, by `ShownInv`. `Attended`: a profile that shows a song has a connected
primary, or a disconnect past its check that will end it, unless the primary had left when
the song was published or the primary set (`stray`). `Believed`: as long as no handler set `lastsong` while another was
between its SET and its publish (`mixed`), at most one is there, and what deduplication believes is on the
profile or on its way there with that one.

**ActorStatusProofs.** Of the idle timers, `IdleOneTimerLeft` (`[]OneTimerLeft`) and `IdleImplementsTokens`
(`IdleSpec => OneStopPerCall`), by `IdleInv`: a timer that runs is the one of the map, or its call is
about to put it there. `StatusUsesIdleTimers` carries both over to the publisher
(`StatusOneTimerLeft`, `StatusOneStopPerCall`), each of whose steps is one of the timers' or
leaves them alone. `StatusTypeCorrect` (`[]TypeOK`), by `StatusInv`: the CIDs do not run out, for
each is spent on an event, and events are bounded. `StatusLastEventWins` and
`StatusLastPushedIsRecord` are for any sources, tracks, events and any number of them in flight, by `ShowInv`. Unless
a write and a deletion met at the PDS (`crossed`), they were there `InTurns`: a write that is under way finds the CID
that it read, and the map says what the record is whenever neither is there. Unless the last event found one of
the other subscription before it (`outrun`), events are `InOrder`: if it is a stop no song is under way, and if
it is a song, no stop is, and it comes last. With both, the record shows the last event once that is
`Handled`. The two conditions are where the code gives no order (section 5).

**ScrobblePutProofs.** `ScrobbleTypeCorrect`. `OneRecord` (`[]OneRecordPerListen`), by
`LockHeld`: while no key has expired, whoever is about to put or has put has its
listen in the lock set, and of two such calls with the same listen there is one.
`NoListenLost` (`[]ListenKept`), by `KeptInv`: while nothing failed, every lock's
listen is in the hands of a call about to put it, a commit or a row; only then do
the refusals that rest on a lock, and those that rest on a row near by, lose nothing.
`GuardHolds` (`[]AcceptedAreFew`), by `GuardInv`: while no key has expired and no listen
was counted late, each call the guard accepted is still counted in its window, unless its
listen lies a whole window before one that is counted. The calls accepted in any one
window are therefore all in the set whose size the guard compared with its maximum.

**ScrobbleCatalogProofs.** `CatalogTypeCorrect`: the bound on the ingest's tasks needs that
they are finitely many, and the links need that a task's rows are still there
(`TypeInv`). `SongLinksHold` (`[]SongLinksAgree`), by `LinkInv`: while nothing failed,
the song's row is there before any commit of another kind (`SongFirst`), so that the
task that gives the artist or the album its uri sees the song and links it in the same
transaction; the song's links are then exactly the uris they lead to (`LinksFollow`), but for an
album link that the namesake took before (`Misled`, section 5),
and whoever fills in missing links finds none of the song's that it could fill.
`CatalogSettles` (`[]AllSettled`), by `SettleInv`: while nothing failed, what a call put is a commit, a
row, or `lost`; a scrobble is put only once the song is linked, so that the rows it makes bare
come last and the song is never one of them (`BareLast`); whoever finds a bare row
puts the record that mends it. At rest no commit is left, hence each call's
wait has found what it waits for.

**IngestProofs**, on the sources. `JetstreamTypeCorrect`. `JetstreamNothingSkipped` (`[]NothingSkipped`) and
`JetstreamImplementsFeed` (`SourcesSpec => FeedsInOrder`), by `OrderInv` and `HandInv`. That all workers
reconnect at one watermark, which the fastest server drives, is sound because of a
chain: an event's stamp is at most `MaxLag` after its place in the log (`Stamped`,
`InTime`, `ChannelStamped`); the frames in the channel follow what was received without a gap
(`ChannelInOrder`); hence what lies more than the slack before the watermark was received
(`WatermarkBehind`), and so was what lies before the cursor of a connection being made
(`CursorsBehind`) and before the place of an open one (`PlacesInOrder`). It is where
the assumption `MaxLag <= Slack + 1` is used. From the order of the places, and from `HandedOver`
(the cache holds only what was handed over), every step of the subscriber is a step of `CommitFeed`
or a stutter. `JetstreamEndsUpToDate` (`[]ReplayEndsUpToDate`), by `WordInv`: a record is created once
(`CreatedOnce`), and the last that the handlers were given of it is its deletion if that was
received, and its creation if only that was (`LastWord`), unless the creation came
again.

**IngestProofs**, on the handlers. `CommitReadsFeed` (`Spec => FeedSpec`): their input is the feed that the
sources implement. `CommitTypeCorrect`. `CommitAnnouncedOnce` (`[]AnnouncedOnce`), by `OnceInv`: as long as no record
of a listen was deleted, the task about to announce a record is the only one and its record
has the row. `CommitRowsFollow` (`[]RowsFollowRecords`), by `RowsInv`: a deletion that was handed over is
on its way or has left nothing that could bring the row back (`Deletions`), a
creation is on its way or its listen has a row (`Creations`), and a row was announced or is about to
be (`Announced`). At rest nothing is on its way.

**MirrorProofs.** `MirrorTypeCorrect`. `MirrorNothingPassedOver` (`[]NothingPassedOver`), by `BehindInv`, which
follows every place a watermark is copied to: the row, the row being loaded, the row
a poller was spawned with, its own mark and, in a poll, its end with the plays it has yet to offer. That what was
seen stays so needs `LocksHeld`: a call that finds the lock taken gives up, and whoever took it put the record or failed. `MirrorMirroredOnce`
(`[]MirroredOnce`), by `OneRecord`: what keeps overlapping pollers and repeated polls from a second record is
first the lock and then the duplicate window, and the invariant is the hand-over between them: a
play with a record has its lock, or it has a row and no call that passed the window before. A lock that expires in between is the
property's exception (`lapsed`). `MirrorFollowsRow`
(`[]FollowsRow`), by `FollowInv`: a poller that is not cancelled is the one in the map, and a loaded row
differs from the row only while a message about it is on its way.

**RockboxProofs.** `RouterTypeCorrect` needs that a machine to be saved was made
(`SavesMade`), and has in it that of the calls at one process only the one in its map
resolves. `RouterNoOrphans` (`[]NoOrphans`), by `OrphanInv`: `NoOrphans` alone is not inductive, for a call or a sweep that
gives the row up must know that the row's machine is gone, or is an excused one. `CallsKnow` and
`SweepsKnow` say so of each await: between the lookup and its answer the row is still
the one that was read or is `Harmless`, and after the answer it is harmless.

**DeviceMirrorProofs.** `MirrorTypeCorrect` (`[]TypeOK`). `MirrorViewsCatchUp` (`[]ViewsCatchUp`), by `ToldInv`. The property
says nothing while a frame is on its way, so the invariant follows a player's last track
on all the ways that it may take to a controller: it is `Announcing`, in the list of
the player's handler; or `Arriving`, the last track of that player in the controller's inbox; or
`Settled`, which is in the snapshot that is being read or will be (`fetch.from`, `seen`), in the snapshot at the
head of the inbox, or in the view. Four facts make this inductive. A connection tells of its own
device only, and of the track it pushed last (`Honest`), so that no other broadcast can be mistaken for it. The
registry entry is there before the snapshot is read, so that a push which the snapshot
misses is broadcast to the controller (`Announcing` needs no more than `conn`). The snapshot is before all that waits
(`InOrder`), so that it never overwrites what is newer. An `unregistered` is of a player that is
gone or in its `terminate`. The first three are the order of `register`, of `terminate` and of the
socket's pushes in the code.

`MirrorClientsConverge` (`[]ClientsConverge`), by `NewsInv` on top of `ToldInv`, follows the news of the last SET in
the same way. A connected controller is `Choosing` (it has picked another device, and its SET
is to come), or `Heralded` (it is among those to whom the primary is being announced), or the news is
`Coming` (the last `primary_changed` in its inbox names the primary), or it is `Known`: no `primary_changed` is on its
way, and the controller will read the primary with its snapshot, has it with the list in the
snapshot at the head of its inbox, or has it active, or is one of `omitted`. Only an `unregistered` of the primary itself can take it away
again, and who sent that is gone and is not listed again (`Bygone`), so that the property's
condition fails for good. What makes it inductive: a handler sets and announces before it
lists and never once it leaves (`InTurn`), which is the order of `ensure_primary` in `device_message`; no
player is listed behind its own `unregistered` in an inbox (`LastWords`); and unless the SETs crossed, one
connection announces at a time and announces the primary (`OneVoice`). The last is where the code gives no
guarantee: nothing orders two SETs with their broadcasts, and `crossed` says exactly when that matters.

**Model-checked only**: the liveness properties, since fairness is out of the provers' reach. Every safety property of
the runs is a theorem.

## 5. Where the code departs from its docs and comments

None of these is a run, for a run shows what holds. Each of the first fourteen is a definition in its module, or a
property without the condition it has there, that fails under the bounds given, with a
configuration of its own. Those of the scrobbles, the ingest, the mirrors and the router say why
the property has the condition or the history variable it has.

**Remote control and status**

1. A headless player never shows (`HeadlessScrobbles`; RemoteWs with 1 device, 1 pause). `maybe_emit_song_changed`
   publishes only while `ws_lastsong` exists, which only a publication writes, or a
   selection. PROTOCOL.md:45-46 and now_playing.ex:188-190 say that a lone player
   scrobbles with no UI.
2. The profile outlives the last device (`GoneIsSilent` without `~stray`; 2 devices, 1 selection). A `set_primary` that names
   a device that left, or a push that passed the primary check, publishes after
   `on_disconnect`. now_playing.ex:152-153 says that the profile stops.
3. A pending stop deletes a navidrome status (`NavidromeKeepsStatus`; ActorStatus with
   websocket and navidrome, 2 events, no idle timers). Deleting
   `ws_lastsong` does not stop a timer the debouncer already holds; status.ts:310-311 says
   that it cannot fire.
4. `CancelledStaysSilent` (StopDebouncer; 2 timers, mailbox 2): a fire already in the
   mailbox when its cancel is handled still publishes. stop_debouncer.ex:4-6 against :63.
5. `RunningTimerIsPending` (same bounds): the fire of an old timer deletes the entry of
   a newer one. stop_debouncer.ex:25 against :54.
6. `ProfileFollowsPrimary` (RemoteWs; 2 devices, 1 of each bound, mailbox 2): a device
   that has just lost the primary still publishes. now_playing.ex:17 against :43.
7. `NoGhosts` (DeviceMirror; 1 player, 1 controller, 1 track, 1 join): the snapshot is
   read while the player leaves and arrives after the departure. devices.ts:32-34 against
   handler.ex:81.
8. `ClientsConverge` without `~crossed`. With two players that adopt themselves at once (2 players, 1 controller, 1
   track, 1 join), the last `primary_changed` is not that of the last SET. now_playing.ex:122-123 against :196. With 1 player, 2
   controllers and 1 pick, the connection that picked ends between its SET and its broadcast. And `ClientsConverge`
   for the controllers in `omitted`, too. With 1 player, 1 controller and 1 expiry: the snapshot leaves out a device
   whose now-playing has expired (handler.ex:83) but names it as the primary; the controller does not adopt what it does not
   list, the next track lists it, and no `primary_changed` follows. With 2 controllers, 1 pick and
   no expiry, a player that has pushed a queue and no track does the same.
9. `CommandsOnTarget` (2 players, 1 join, 1 pick): a command for a device that has left
   is broadcast. PROTOCOL.md:185 against handler.ex:118.
10. `EveryDedupExpires` (ActorStatus; websocket and navidrome, `MaxEvents` 2, no idle timers): a navidrome
    entry gets no timer when the Redis call before it rejects. status.ts:319-321 against :316.
11. `LastPushedIsRecord` and `LastEventWins` without `~crossed` (ActorStatus; bounds of `status`): a write and a deletion
    complete in one order at the PDS and in the other in the map. status.ts:201 against :308 and :391. `LastEventWins`
    without `~outrun`, too: the two subscriptions are not ordered, so that a stop may be handled before the song that was published
    first, and the record keeps showing a song that has ended (status.ts:359-361).
12. `StopNotLost` without `~Overtaken` (RemoteWs; 2 devices, bounds of `remote_ws`): `publish_song_changed`
    deletes `stopped` and then publishes (now_playing.ex:304-324). A pause in between sets the mark again, and
    when its stop has fired first, the song that was on its way stays on the profile of a paused player. With two devices
    `ws_lastsong` is then gone, with three (1 track,
    1 selection, 1 pause, 1 timer, a mailbox of 2; 37 steps) it need not be: `on_disconnect` deletes `stopped` before it
    casts its cancel (:155-172), so that the cancel takes the stop of a pause in between, and the stop it
    publishes itself is undone by the third device's late `song.changed`. :151-153 says that the
    profile stops cleanly.
13. `DedupAgreesWithProfile` without `~mixed` (RemoteWs; bounds of `remote_ws_settles`): of two handlers that publish at
    once (now_playing.ex:304-324), a push and a selection, one sets `lastsong` last and the other publishes last. The next push of
    the song that is believed but not shown is then taken for a repetition (:297).
14. A song without a duration gets no expiry timer (status.ts:322), nor does its record get an `expiresAt`. When its
    source says no more, not even a stop, the entry stays in the map, and the same song of the same source
    is deduplicated against it however much later it is played. The comment :319-321 is about records that expire; `DedupExpires` is
    about entries with a duration (`expires`).

**Idle timers**

15. A `playing_now` without a duration schedules nothing and aborts nothing: the timer of the
    song before it runs on and ends the new song. crates/scrobbler/src/listenbrainz/handlers.rs:130-131
    says that it relies on the next submission, or never fires. `IdleSongsEnd` and `OneStopPerCall`
    are about submissions that have one. The two processes keep separate maps, so that a listener
    who uses both has two timers, of which the older one may end the newer song.

**scrobbleTrack**

16. Listens of one song a few seconds apart from two sources are put twice when
    they arrive together: the duplicate window (sixty seconds) looks at rows that are not there
    yet, and the lock's key has the exact second. `OneRecordPerListen` is therefore about
    equal listens, and a run with listens one apart in its stead is violated.
    (nowplaying.service.ts:1143-1145 claims no more.)
17. The lock stays for 120 seconds after a put that failed, so that a second source with the same
    listen is refused and the listen is lost. `ListenKept` is about behaviours
    without failures; without that condition it is violated.
18. The rate window is pruned by the time of the listen that arrives. Listens that
    arrive out of order remove each other, and the guard accepts more than its
    maximum; `AcceptedAreFew` has `~late` for that, and without it is violated with 4 calls of one
    song, times 0 and 2, and a window of 2 with room for 2. (scrobbleGuard.ts:136-145.)
19. The last wait (nowplaying.service.ts:1165) is for the row, not for its links: a row found
    with a link missing ends the loop, after the log line that it is tried again, and the call
    publishes nothing. The subscriber may already have tried, and thrown, because
    the album's record was not ingested yet (`publishScrobble` inserts user rows with
    a null uri). That scrobble is on `rocksky.scrobble` only when the same user's
    next one makes the subscriber take the latest five again. `AllSettled` therefore
    says nothing about the message.
20. `publishScrobble` asks whether anybody has a row in user_albums, user_artists
    and user_tracks, not whether the listener has (nowplaying.service.ts:332, 338, 344).
21. The album's artist (`albums.artist_uri`) may disagree with `artists.uri` when two listeners'
    artist records race with the first album record; `SongLinksAgree` holds of the song's links
    because a call waits for the song's row before it puts the artist and the album.
22. An artist or album may be left without its uri although its record exists. A call goes on once its song has either
    link (nowplaying.service.ts:1024); its scrobble's task then makes the row of the other kind without a
    uri (repo.rs:499-511, 550-559), and the INSERT of that kind's record, whose task had looked before, fails
    (:702, :797). The next listener who finds the bare row puts a record that mends it. `lost` collects these records, and
    `AllSettled` excuses exactly them; without that (`AllLinked`) it is violated by one listener with two permits, and
    by two with three.
23. An album's record links every track that has its title and no album link yet, whoever the artist is
    (repo.rs:1130-1139; its neighbour, the artist's UPDATE at :1066-1070, goes by the artist's name). A song whose own album's record comes later
    than that of another artist's album of the same title (a self-titled one, "Greatest Hits") leads to the wrong album for good, for
    its own album's task finds the link set. The last wait (nowplaying.service.ts:1219) asks only that there is a link, so that
    `publishScrobble` may run while the song's own album has no uri, and throw. `SongLinksAgree` and `AllSettled` excuse exactly this record (`Namesake`).

**Jetstream ingest**

24. The watermark lives in memory. After a restart the first connection has no cursor
    (subscriber.rs:124 reads 0), so that commits made while the process was down are not fetched;
    the same holds of a connection made before the first event. `start` in `CommitFeed` is
    this: what lies before it is not promised.
25. A deletion's task may write before the task of the creation it follows (repo.rs:250): the deletion finds no
    row, and the creation's row stays. The record is excused from `RowsFollowRecords`.
26. Two records of one listen share a row, that of the first to be ingested. Deleting that
    record removes the row though the other record still exists; deleting the other one removes
    nothing. `scrobble.new` of a row may be published after the deletion of its record was.
27. A handler that fails is not repeated: its key is in the dedup cache before it runs
    (subscriber.rs:147), unless a reconnection replays the event after the cache forgot it.
28. A batch whose post fails is dropped, and RPUSH with BRPOP makes a stack of the queue:
    under load the newest embed is posted first (webhook_worker.rs:110).
29. subscriber.rs:41-43 says that a commit is only processed once. The cache behind it (:147) is
    bounded, and a reconnection may hand over a creation again that it has forgotten, and not the deletion after it: the
    connection drops before it gets there and the next one begins past it, or the cache still has the deletion's key. The
    row of the deleted record is then back. `again` collects these records; without it `ReplayEndsUpToDate` is violated
    with 1 record, 4 events, 1 drop, slack 1, lag 0 and a cache of 1, and with 2 records, 3 events, slack 1,
    lag 1 and a cache of 2.

**Mirrors**

30. supervisor.rs:1-4 says that there is one task for each enabled row, and that messages trigger its
    reconciliation. A change between `load_enabled` and the subscription is not seen, until the next message for the same source; nor is one
    whose row could not be loaded (supervisor.rs:89). `unsaid` is the condition this puts on `FollowsRow` and
    `PlaysMirrored`.
31. Plays are lost for good. A backfill of more plays than one page (`RECENT_LIMIT`, 50) is cut to the newest page,
    and the watermark then passes the older ones. A play whose request failed is passed too (lastfm.rs:224-227), as is one that the provider
    learns of when a later one was mirrored (:159 takes nothing before the watermark). And createScrobble answers 200
    before its scrobbleTrack has run (createScrobble.ts:88-114): no agent, a guard that trips or a put that fails is logged at the
    API, after the poller has counted the play as mirrored. `cut` collects all of those; supervisor.rs and lastfm.rs do not mention them.
32. A poller that was cancelled in the middle of a request still writes its watermark, over the one
    that the next enabling has just seeded. `NothingPassedOver` holds all the same: what it
    writes is behind what it saw. A new account name on an enabled source keeps the old
    account's mark, which the model leaves out.
33. rocksky.rs:6-8 says that a duplicate that slips past the mirror's own check is safe, for the API drops it. For equal plays
    that holds as long as the lock's 120 seconds do: `MirroredOnce` without `lapsed` is violated (bounds of `mirror_sources`) by a
    call that is past the duplicate window when the lock of the one before it expires, and by an ingest that takes longer than
    that. A listen of another source, with a time some seconds apart, is put twice (divergence 16).
34. enrich.rs:208-214 gives a play Spotify's title and artist after the mirror's own check, which went by the provider's, so that they match the
    user's Spotify rows. The mirror's check of the next poll then misses the row (`Check` may miss any). If Spotify answers in
    one poll and not in another, the play goes to the API under two titles, which have different locks and rows, and gets two records. The model
    has one title for each play: `MirroredOnce` is about plays whose title is the same in every offer.

**Rockbox router**

35. apps/rockbox-router/README.md:3 promises one machine for each DID. A sweep that selected an idle row
    destroys its machine; a call that had looked the row up finds the machine gone,
    forgets the row and creates another; the sweep then deletes by DID (gc.ts:25) and takes the new
    row. One process and no failure suffice. Two processes that provision at once, a crash between the creation
    and the save (ensure.ts:18), and an admin deletion that names no machine leave one too. `excused` is
    exactly these. If Fly refuses a name that is in use, the orphan also blocks the
    user's next machine.
36. A sweep destroys a machine that was used since the sweep's SELECT (gc.ts:18-25).

**Not modelled yet, found by reading**

* `crates/tracklist`: insert, remove, move and shuffle read the list, then write in a MULTI without a WATCH.
  The assertion of `test_concurrent_operations` (queue.rs:629-645) can fail: insert reads
  the empty list, add pushes, insert writes its own, remove takes it. Replacing the queue by an empty one
  is an error that leaves the old queue; shuffling fewer than two different tracks does not
  end; removing at an index takes the first copy of a track that occurs twice.
* `crates/spotify` (lib.rs:998): a restart cancels a poller that looks at the flag only at the top of its
  loop, so that two run for a while and both may scrobble; a retry spawns a second progress tracker; whether the user was
  playing is forgotten, and with it the stop; a Redis or rate-limit failure publishes a stop that the
  same song does not take back; a key that expires just before the scrobble drops it.

## 6. What is not modelled, and why

* In the modelled parts: JWT verification, enrichment of tracks, metadata lookups,
  the contents of queues, the teal.fm record, the import's cache of puts and its progress
  rows, display caches that expire after seconds. They read or write nothing that a property
  is about.
* Time. Timers and expiries may happen at any moment; what depends on fifteen
  seconds being longer than a round trip is not claimed. The 24-hour expiry of profile keys is left
  out: an expired primary is the state before any adoption.
* A Redis that fails while the node runs. `redix.ex` then answers nil or false and the handlers go on as
  if a key were absent; except in `on_disconnect`, which then ends nothing, each such
  branch is reached by other means too.
* A `GenServer.call` that gives up after five seconds, which ends the connection
  in the middle of a handler: only a debouncer that hangs in Redis gets there.
* A second `register` on one connection, which no client of the repository sends.
* Postgres deadlocks and serialisation beyond unique keys: a transaction that fails is
  `TaskFails`, whatever made it fail.
* Of the ingest: feed generators, follows and other collections, which have one handler and one row each;
  the token bucket of the webhook worker, which only delays a post; the day after which Redis
  drops the queue; the restart of the process, after which `start` would be larger.
* Of the mirrors: Teal.fm, which has a shared subscriber and no poller; two `putMirrorSource` for one source at
  once, which the model takes one after the other; credentials; of the enrichment, that it may name a play differently
  from poll to poll (section 5); of a call of createScrobble, the guards and the catalog, which are in `ScrobblePut`
  and `ScrobbleCatalog` and here may only fail.
* Of the router: authorisation, regions, the replay header, and the difference of a stopped
  machine from a running one.
* The Spotify poller and the shared track list: planned below. For the track list one would state
  that what was added and not removed is there, that nothing else is, and that requests
  finish; reading the code shows that each fails (section 5).
* The rest of the repository (user interfaces, SDKs and lexicons, XRPC handlers, connectors, batch jobs,
  caches, which are most of its lines) has no protocol state of its own; `PROJECT.json` has a reason for each part.

## 7. Plan

Done, in this order: the debouncer and its abstract specification; the profile
composed with it; the mirrors of the device list; the status publisher; scrobble publishing
with its ingest; the Jetstream sources and the commit tasks on the two sides of `CommitFeed`; the
mirrors of other services; the idle timers, composed with the status publisher; the Rockbox
router.

Next modules:

1. `SpotifyPoller`: the thread and its progress tracker, restarts by NATS, keys that expire; a
   play is scrobbled at most once, and what started is stopped. It takes the place of the source
   of `ActorStatus` that publishes its own stops.
2. `Tracklist`: requests of an LRANGE and a MULTI each, refining an abstract list.
