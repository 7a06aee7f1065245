----------------------------- MODULE ActorStatus -----------------------------
(***************************************************************************)
(* The status publisher of the API (apps/api/src/subscribers/status.ts):   *)
(* it turns the song.changed and song.stopped events of a user's sources   *)
(* into the record app.rocksky.actor.status/self of the user's PDS.  One   *)
(* user: every map and record of the code is keyed by the DID.             *)
(*                                                                         *)
(* Two subscriptions, each with its own loop, share lastPushedStatus and   *)
(* the rate limit.  A loop handles one event at a time and gives way at    *)
(* every await, where the other loop, a timer or the PDS may step in.      *)
(*                                                                         *)
(* The stops of a scrobble API come from its timers, module IdleTimers.    *)
(*                                                                         *)
(* Left out: what a record says beyond its track and source; the lookups   *)
(* of resolveTrackInfo, which only take time.                              *)
(***************************************************************************)
EXTENDS Naturals, Sequences, IdleTimers

CONSTANTS
    Tracks,
    Sources,               \* the sources the user plays from
    Websocket, Navidrome,  \* two sources that coordinate through Redis
    Scrobbler,             \* the source whose stops IdleTimers publishes; the
                           \* others publish stops whenever they will
    Untimed,               \* the sources whose songs may lack a duration
    NoRecord,
    MaxEvents,    \* bound: song.changed events, hence records written, and
                  \* requests that fail, together
    MaxInFlight   \* bound: events the two loops have before them

ASSUME StatusAssumption ==
    /\ MaxEvents \in Nat /\ MaxInFlight \in Nat
    /\ Websocket # Navidrome /\ Scrobbler \notin {Websocket, Navidrome}
    /\ NoRecord \notin Tracks

VARIABLES
    changedQ,  \* the song.changed subscription
    stoppedQ,  \* the song.stopped subscription, a number of events
    chg,       \* the loop of onSongChanged
    stp,       \* the loop of onSongStopped
    last,      \* lastPushedStatus.get(did): undefined, null or what was pushed
    limited,   \* rateLimitedUntil lies in the future
    expires,   \* history: the song of that entry came with a duration
    timers,    \* the running setTimeouts that expire an entry of `last'
    record,    \* the PDS: the status record, NoRecord or its status and CID
    cids,      \* number of records written so far
    wsLast,    \* Redis ws_lastsong:<did> exists
    wsStop,    \* a song.stopped of the websocket source is pending (StopTokens)
    latest,    \* the status the last published event asks for
    timed,     \* that event is a song and came with its duration
    outrun,    \* history: an event of the other subscription was in flight then
    crossed,   \* history: the last event that was not skipped met the other loop
               \* at the PDS
    events, faults

queues  == <<changedQ, stoppedQ>>
map     == <<last, expires>>
redis   == <<wsLast, wsStop>>
sources == <<redis, idle>>
said    == <<latest, timed, outrun>>
bounds  == <<events, faults>>
vars    == <<queues, chg, stp, map, limited, timers, record, cids, sources, said, crossed, bounds>>

Others   == Sources \ {Websocket, Navidrome, Scrobbler}
Statuses == [track : Tracks, source : Sources]
Songs    == [status : Statuses, timed : BOOLEAN]
CIDs     == 1 .. MaxEvents
NoCID    == 0

Undefined == [track |-> NoRecord, source |-> "undefined"]
Null      == [track |-> NoRecord, source |-> "null"]

\* What onSongChanged awaits: "resolve" stands for createAgent and the lookups of
\* resolveTrackInfo, "put" for putRecord, "wrote" for its answer, "redis" for del.
IdleLoop == [at |-> "idle"]
Loops ==
    {IdleLoop}
        \cup [at : {"resolve", "wrote", "redis"}, song : Songs]
        \cup [at : {"put"}, song : Songs, swap : {NoCID} \cup CIDs]

TypeOK ==
    /\ changedQ \in Seq(Songs)
    /\ stoppedQ \in Nat
    /\ chg \in Loops
    /\ stp \in {"idle", "agent", "deleted"}
    /\ last \in {Undefined, Null} \cup Statuses
    /\ limited \in BOOLEAN
    /\ expires \in BOOLEAN
    /\ timers \subseteq [cid : CIDs, status : Statuses]
    /\ record \in {Null} \cup [cid : CIDs, status : Statuses]
    /\ cids \in 0 .. MaxEvents
    /\ wsLast \in BOOLEAN /\ wsStop \in BOOLEAN
    /\ latest \in {Null} \cup Statuses
    /\ timed \in BOOLEAN /\ outrun \in BOOLEAN /\ crossed \in BOOLEAN
    /\ IdleTypeOK
    /\ events \in Nat /\ faults \in Nat /\ events + faults <= MaxEvents

Init ==
    /\ changedQ = <<>> /\ stoppedQ = 0
    /\ chg = IdleLoop /\ stp = "idle"
    /\ last = Undefined /\ expires = FALSE
    /\ limited = FALSE
    /\ timers = {}
    /\ record = Null /\ cids = 0
    /\ wsLast = FALSE /\ wsStop = FALSE
    /\ latest = Null /\ timed = FALSE
    /\ outrun = FALSE /\ crossed = FALSE
    /\ IdleInit
    /\ events = 0 /\ faults = 0

-----------------------------------------------------------------------------
(* The sources.                                                            *)

InFlight ==
    Len(changedQ) + stoppedQ + (IF chg = IdleLoop THEN 0 ELSE 1)
                             + (IF stp = "idle" THEN 0 ELSE 1)

\* A source publishes song.changed, with the duration or without.  That of
\* remote-ws sets ws_lastsong and cancels its own pending stop
\* (NowPlaying.publish_song_changed).
SongChanged(t, s, d) ==
    LET status == [track |-> t, source |-> s] IN
    /\ events + faults < MaxEvents /\ InFlight < MaxInFlight
    /\ d \/ s \in Untimed
    /\ events' = events + 1
    /\ changedQ' = Append(changedQ, [status |-> status, timed |-> d])
    /\ latest' = status /\ timed' = d
    /\ outrun' = (stoppedQ > 0 \/ stp # "idle")
    /\ IF s = Websocket THEN wsLast' = TRUE /\ wsStop' = FALSE ELSE UNCHANGED redis
    /\ IF s = Scrobbler /\ d THEN Announce ELSE UNCHANGED idle
    /\ UNCHANGED <<stoppedQ, chg, stp, map, limited, timers, record, cids, crossed, faults>>

\* NowPlaying.profile_status: a pause counts while ws_lastsong exists ...
WebsocketPauses ==
    /\ wsLast
    /\ wsStop' = TRUE
    /\ UNCHANGED <<queues, chg, stp, map, limited, timers, record, cids, wsLast, idle, said, crossed, bounds>>

PublishStopped ==
    /\ InFlight < MaxInFlight
    /\ stoppedQ' = stoppedQ + 1
    /\ latest' = Null /\ timed' = FALSE
    /\ outrun' = (changedQ # <<>> \/ chg # IdleLoop)

\* ... and StopDebouncer fires 15 seconds later.
WebsocketStops ==
    /\ wsStop
    /\ PublishStopped
    /\ wsStop' = FALSE /\ wsLast' = FALSE
    /\ UNCHANGED <<changedQ, chg, stp, map, limited, timers, record, cids, idle, crossed, bounds>>

\* A submission's call spawns its timer, and has the lock of the map of timers.
Submits ==
    /\ Schedule
    /\ UNCHANGED <<queues, chg, stp, map, limited, timers, record, cids, redis, said, crossed, bounds>>

Submitted(t) ==
    /\ Install(t)
    /\ UNCHANGED <<queues, chg, stp, map, limited, timers, record, cids, redis, said, crossed, bounds>>

\* The song of a submission is over.
ScrobblerStops(t) ==
    /\ Fire(t)
    /\ PublishStopped
    /\ UNCHANGED <<changedQ, chg, stp, map, limited, timers, record, cids, redis, crossed, bounds>>

\* Another source stops by itself (the Spotify poller).
OtherStops ==
    /\ Others # {}
    /\ latest # Null
    /\ PublishStopped
    /\ UNCHANGED <<changedQ, chg, stp, map, limited, timers, record, cids, sources, crossed, bounds>>

-----------------------------------------------------------------------------
(* onSongChanged.                                                          *)

ChangedAt(step) == chg.at = step
ChangedIdle     == chg' = IdleLoop

\* Mutant of ReceiveChanged: the same track of another source is skipped too.
ReceiveChangedByTrack ==
    /\ chg = IdleLoop /\ changedQ # <<>>
    /\ changedQ' = Tail(changedQ)
    /\ chg' = IF limited \/ last.track = Head(changedQ).status.track THEN IdleLoop
              ELSE [at |-> "resolve", song |-> Head(changedQ)]
    /\ UNCHANGED <<stoppedQ, stp, map, limited, timers, record, cids, sources, said, crossed, bounds>>

\* The next event, skipped under a rate limit or when last pushed already.
ReceiveChanged ==
    /\ chg = IdleLoop /\ changedQ # <<>>
    /\ changedQ' = Tail(changedQ)
    /\ chg' = IF limited \/ last = Head(changedQ).status THEN IdleLoop
              ELSE [at |-> "resolve", song |-> Head(changedQ)]
    /\ UNCHANGED <<stoppedQ, stp, map, limited, timers, record, cids, sources, said, crossed, bounds>>

\* getSwapCid: the CID of the record, none if there is no record.
SwapCid == IF record = Null THEN NoCID ELSE record.cid

\* createAgent and resolveTrackInfo are over; getSwapCid reads the record.
ReadSwap ==
    /\ ChangedAt("resolve")
    /\ chg' = [at |-> "put", song |-> chg.song, swap |-> SwapCid]
    /\ crossed' = (stp # "idle")
    /\ UNCHANGED <<queues, stp, map, limited, timers, record, cids, sources, said, bounds>>

\* putRecord at the PDS: a swapRecord that does not match is refused, and the
\* handler's catch drops the event; none at all matches anything.
Matches(swap) == swap = NoCID \/ (record # Null /\ record.cid = swap)

Put ==
    /\ ChangedAt("put")
    /\ IF Matches(chg.swap)
         THEN /\ cids' = cids + 1
              /\ record' = [cid |-> cids + 1, status |-> chg.song.status]
              /\ chg' = [at |-> "wrote", song |-> chg.song]
         ELSE ChangedIdle /\ UNCHANGED <<cids, record>>
    /\ UNCHANGED <<queues, stp, map, limited, timers, sources, said, crossed, bounds>>

\* The timer that is to expire an entry: only a song with a duration gets one.
SetTimer(song) ==
    timers' = timers \cup
                  IF song.timed THEN {[cid |-> cids, status |-> song.status]} ELSE {}

\* Mutant of Wrote: the track is remembered without its source.
WroteTrack ==
    /\ ChangedAt("wrote")
    /\ last' = [track |-> chg.song.status.track] /\ expires' = chg.song.timed
    /\ IF chg.song.status.source = Navidrome
         THEN chg' = [at |-> "redis", song |-> chg.song] /\ UNCHANGED timers
         ELSE ChangedIdle /\ SetTimer(chg.song)
    /\ UNCHANGED <<queues, stp, limited, record, cids, sources, said, crossed, bounds>>

\* The PDS answered.  A navidrome status awaits Redis before its timer is set.
Wrote ==
    /\ ChangedAt("wrote")
    /\ last' = chg.song.status /\ expires' = chg.song.timed
    /\ IF chg.song.status.source = Navidrome
         THEN chg' = [at |-> "redis", song |-> chg.song] /\ UNCHANGED timers
         ELSE ChangedIdle /\ SetTimer(chg.song)
    /\ UNCHANGED <<queues, stp, limited, record, cids, sources, said, crossed, bounds>>

ClearWebsocket ==
    /\ ChangedAt("redis")
    /\ wsLast' = FALSE
    /\ SetTimer(chg.song)
    /\ ChangedIdle
    /\ UNCHANGED <<queues, stp, map, limited, record, cids, wsStop, idle, said, crossed, bounds>>

\* The entry has changed since, or not.
Expire(same) ==
    /\ last' = IF same THEN Undefined ELSE last
    /\ expires' = (expires /\ ~same)

\* Mutant of TimerFires: the entry is left alone, too, when the record is gone.
TimerFiresWhenShown(t) ==
    /\ t \in timers
    /\ timers' = timers \ {t}
    /\ Expire(last = t.status /\ record # Null)
    /\ UNCHANGED <<queues, chg, stp, limited, record, cids, sources, said, crossed, bounds>>

\* The track's duration and ten seconds are over.
TimerFires(t) ==
    /\ t \in timers
    /\ timers' = timers \ {t}
    /\ Expire(last = t.status)
    /\ UNCHANGED <<queues, chg, stp, limited, record, cids, sources, said, crossed, bounds>>

-----------------------------------------------------------------------------
(* onSongStopped.                                                          *)

\* A stop that is not skipped goes on to delete, beside a write at the PDS or not.
ReceiveStopped ==
    /\ stp = "idle" /\ stoppedQ > 0
    /\ stoppedQ' = stoppedQ - 1
    /\ IF limited \/ last = Null
         THEN UNCHANGED <<stp, crossed>>
         ELSE stp' = "agent" /\ crossed' = (chg.at \in {"put", "wrote"})
    /\ UNCHANGED <<changedQ, chg, map, limited, timers, record, cids, sources, said, bounds>>

\* deleteRecord at the PDS, whatever record there is.
Delete ==
    /\ stp = "agent"
    /\ stp' = "deleted"
    /\ record' = Null
    /\ UNCHANGED <<queues, chg, map, limited, timers, cids, sources, said, crossed, bounds>>

\* Mutant of Deleted: the entry is left alone.
DeletedKeepsLast ==
    /\ stp = "deleted"
    /\ stp' = "idle"
    /\ UNCHANGED <<queues, chg, map, limited, timers, record, cids, sources, said, crossed, bounds>>

Deleted ==
    /\ stp = "deleted"
    /\ stp' = "idle"
    /\ last' = Null /\ expires' = FALSE
    /\ UNCHANGED <<queues, chg, limited, timers, record, cids, sources, said, crossed, bounds>>

-----------------------------------------------------------------------------
(* Requests that fail.                                                     *)

\* The catch of either loop: the event is dropped; a 429 starts a backoff.
Backoff == limited' \in {limited, TRUE}

ChangedFails ==
    /\ chg # IdleLoop
    /\ events + faults < MaxEvents
    /\ faults' = faults + 1
    /\ ChangedIdle
    /\ IF ChangedAt("redis") THEN UNCHANGED limited ELSE Backoff
    /\ UNCHANGED <<queues, stp, map, timers, record, cids, sources, said, crossed, events>>

StoppedFails ==
    /\ stp # "idle"
    /\ events + faults < MaxEvents
    /\ faults' = faults + 1
    /\ stp' = "idle"
    /\ Backoff
    /\ UNCHANGED <<queues, chg, map, timers, record, cids, sources, said, crossed, events>>

\* isRateLimited, once the time has passed.
LimitEnds ==
    /\ limited
    /\ limited' = FALSE
    /\ UNCHANGED <<queues, chg, stp, map, timers, record, cids, sources, said, crossed, bounds>>

-----------------------------------------------------------------------------
ChangedLoop == ReceiveChanged \/ ReadSwap \/ Put \/ Wrote \/ ClearWebsocket
StoppedLoop == ReceiveStopped \/ Delete \/ Deleted

Next ==
    \/ \E t \in Tracks, s \in Sources, d \in BOOLEAN : SongChanged(t, s, d)
    \/ WebsocketPauses \/ WebsocketStops \/ OtherStops \/ Submits
    \/ \E t \in Timers : Submitted(t) \/ ScrobblerStops(t)
    \/ ChangedLoop \/ StoppedLoop
    \/ \E t \in timers : TimerFires(t)
    \/ ChangedFails \/ StoppedFails \/ LimitEnds

Safety == Init /\ [][Next]_vars

\* The event loop of the API goes on while anything is to be done: requests are
\* answered, timers fire, backoffs end.  So do the tasks of the scrobble APIs.
ApiRuns ==
    ChangedLoop \/ StoppedLoop \/ LimitEnds \/ \E t \in timers : TimerFires(t)

ScrobblerRuns == Submits \/ \E t \in Timers : Submitted(t) \/ ScrobblerStops(t)

Fairness == WF_vars(ApiRuns) /\ WF_vars(ScrobblerRuns)

Spec == Safety /\ Fairness
-----------------------------------------------------------------------------
(* Properties.                                                             *)

Quiet == InFlight = 0

Shown == IF record = Null THEN Null ELSE record.status

\* The public status is what the sources said last: with every event handled,
\* the record shows the last song.changed, or nothing after a song.stopped.  An
\* order there is within a subscription only: not if an event of the other one
\* was in flight when the last was published (outrun), nor if the loops met at the
\* PDS (crossed).
LastEventWins == Quiet /\ faults = 0 /\ ~outrun /\ ~crossed => Shown = latest

\* status.ts:201: lastPushedStatus is the last status successfully written to
\* the PDS, which is what both loops take it for when they skip an event.  So it
\* is whenever both are between two events, whatever they did in turns, unless the
\* last deletion and write at the PDS overlapped.
LastPushedIsRecord ==
    chg = IdleLoop /\ stp = "idle" /\ faults = 0 /\ ~crossed /\ last # Undefined
        => last = Shown

\* status.ts:319-321: once the songs cease, an entry of lastPushedStatus expires
\* with the record it stands for, so that no song is deduplicated for good against
\* a record that has expired.  Holds for a status that awaits nothing between its
\* entry and its timer.  A record without a duration never expires, nor does its entry.
Lasting == expires /\ last.source # Navidrome

DedupExpires == Lasting ~> ~Lasting

\* The same of every status, as the comment has it.
EveryDedupExpires == expires ~> ~expires

\* status.ts:310-311: once a navidrome status is written, no stale pause of the
\* websocket player deletes it.  Navidrome publishes no stops, so that with no
\* other source its record is never deleted.
NavidromeKeepsStatus ==
    [][Shown.source = Navidrome => record' # Null]_vars

\* A song that a scrobble API announced with its duration does not stay: it gives
\* way to another event, or to a stop that its timer, or one that took its place,
\* publishes, whatever order concurrent submissions enter the map in.
Announced == latest.source = Scrobbler /\ timed

IdleSongsEnd == Announced ~> ~Announced
=============================================================================
