------------------------------ MODULE RemoteWs -------------------------------
(***************************************************************************)
(* The profile side of the remote-control service (remote-ws): which of a  *)
(* user's connected devices is the primary one, and what the public        *)
(* profile is told to show.  One user; every Redis key, registry entry and *)
(* event of the code carries the user's DID.                               *)
(*                                                                         *)
(* Each connection is a process that handles one frame at a time.  A       *)
(* handler is a sequence of Redis commands and messages, each atomic, with *)
(* the steps of other connections and of the stop debouncer in between:    *)
(* pc[d] is the next command of d's handler.                               *)
(*                                                                         *)
(* Left out: nowplaying:<did> and its status twin, display caches of three *)
(* seconds that remote-ws writes and never reads; the day after which the  *)
(* other keys expire when nothing renews them; the queue cache; the        *)
(* enrichment of a track, which reads the library and changes no state the *)
(* profile depends on; the frames relayed to the user's clients, which     *)
(* DeviceMirror models.                                                    *)
(***************************************************************************)
EXTENDS StopDebouncer, FiniteSets

CONSTANTS
    Devices,     \* device ids, one per connection; a reconnect is a new one
    Tracks,      \* track identities (the sha256 of the code)
    NoTrack, NoDevice,
    MaxSelects,  \* bound: set_primary frames of a behaviour
    MaxPauses,   \* bound: status 0 frames of a behaviour
    MaxCrashes   \* bound: restarts of the node

ASSUME RemoteAssumption ==
    /\ Clients = Devices
    /\ MaxSelects \in Nat /\ MaxPauses \in Nat /\ MaxCrashes \in Nat
    /\ MaxPauses <= MaxTimers
    /\ NoTrack \notin Tracks /\ NoDevice \notin Devices

VARIABLES
    conn,      \* per device: "away", "up", "closing" (terminate runs), "gone"
    primary,   \* Redis primary_device:<did>
    np,        \* Redis np:<did>:<device>, the cached track of each device
    lastsong,  \* Redis lastsong:<did>
    wsLast,    \* Redis ws_lastsong:<did>
    stopped,   \* Redis stopped:<did> exists
    profile,   \* the last event published on NATS: song.changed or song.stopped
    pc,        \* per device: the next step of the handler it runs
    song,      \* per device: the track its handler works on
    target,    \* per device: the device a set_primary names
    saved,     \* per device: the lastsong handle_resume read
    selects, pauses, crashes,
    revived,   \* history: the last song.changed was published by a handler that a
               \* pause, and the stop that followed it, had overtaken
    stray,     \* history: when the primary was last set, or a song.changed published,
               \* the primary was none of the connected devices
    mixed      \* history: when lastsong was last set, another handler had set it and
               \* not published yet

redis      == <<primary, np, lastsong, wsLast, stopped>>
locals     == <<song, target, saved>>
history    == <<revived, stray, mixed>>
aux        == <<selects, pauses, crashes, history>>
remoteVars == <<conn, redis, profile, pc, locals, aux>>
vars       == <<remoteVars, debVars>>

Stopped == [event |-> "stopped"]
Changed == [event : {"changed"}, track : Tracks, device : Devices]

Steps ==
    {"idle", "ensure", "lookup", "adopt", "check", "gateLast", "gateWs",
     "emitCancel", "emitLast", "emitWs", "emitResumed", "emitPublish",
     "statusExists", "setStopped", "schedule",
     "ask", "awaitAnswer", "resumeCancel", "resumeClear",
     "readStopped", "readLast", "clearStopped", "clearLast", "restoreWs",
     "selClear", "selRead",
     "leaveCheck", "leavePrimary", "leaveLast", "leaveWs", "leaveStopped",
     "leaveCancel", "leavePublish"}

TypeOK ==
    /\ conn \in [Devices -> {"away", "up", "closing", "gone"}]
    /\ primary \in Devices \cup {NoDevice}
    /\ np \in [Devices -> Tracks \cup {NoTrack}]
    /\ lastsong \in Tracks \cup {NoTrack}
    /\ wsLast \in Tracks \cup {NoTrack}
    /\ stopped \in BOOLEAN
    /\ profile \in {Stopped} \cup Changed
    /\ pc \in [Devices -> Steps]
    /\ song \in [Devices -> Tracks \cup {NoTrack}]
    /\ target \in [Devices -> Devices \cup {NoDevice}]
    /\ saved \in [Devices -> Tracks \cup {NoTrack}]
    /\ selects \in 0 .. MaxSelects
    /\ pauses \in 0 .. MaxPauses
    /\ crashes \in 0 .. MaxCrashes
    /\ revived \in BOOLEAN /\ stray \in BOOLEAN /\ mixed \in BOOLEAN

Init ==
    /\ DebInit
    /\ conn = [d \in Devices |-> "away"]
    /\ primary = NoDevice
    /\ np = [d \in Devices |-> NoTrack]
    /\ lastsong = NoTrack
    /\ wsLast = NoTrack
    /\ stopped = FALSE
    /\ profile = Stopped
    /\ pc = [d \in Devices |-> "idle"]
    /\ song = [d \in Devices |-> NoTrack]
    /\ target = [d \in Devices |-> NoDevice]
    /\ saved = [d \in Devices |-> NoTrack]
    /\ selects = 0 /\ pauses = 0 /\ crashes = 0
    /\ revived = FALSE /\ stray = FALSE /\ mixed = FALSE

Connected == {d \in Devices : conn[d] \in {"up", "closing"}}

\* The primary, as it is after this step, is known to be connected or not.
Stray == stray' = (primary' \notin Connected)

-----------------------------------------------------------------------------
(* Handler steps.                                                          *)

At(d, step)   == pc[d] = step
Goto(d, step) == pc' = [pc EXCEPT ![d] = step]

\* The handler returns; the process forgets its locals.
Return(d) ==
    /\ Goto(d, "idle")
    /\ song' = [song EXCEPT ![d] = NoTrack]
    /\ target' = [target EXCEPT ![d] = NoDevice]
    /\ saved' = [saved EXCEPT ![d] = NoTrack]

Continue(d, step) == Goto(d, step) /\ UNCHANGED locals

Idle(d) == conn[d] = "up" /\ At(d, "idle")

\* register: a new connection gets a fresh device id.
Register(d) ==
    /\ conn[d] = "away"
    /\ conn' = [conn EXCEPT ![d] = "up"]
    /\ UNCHANGED <<redis, profile, pc, locals, aux, debVars>>

\* enrich and cache_device_np: of all the data of a track, its identity.
CacheTrack(d, t) == np' = [np EXCEPT ![d] = t]

\* A track frame: handle_track caches it, then ensures there is a primary.
PushTrack(d, t) ==
    /\ Idle(d)
    /\ CacheTrack(d, t)
    /\ song' = [song EXCEPT ![d] = t]
    /\ Goto(d, "ensure")
    /\ UNCHANGED <<conn, primary, lastsong, wsLast, stopped, profile, target,
                   saved, aux, debVars>>

\* ensure_primary, the read: no primary at all?
EnsureRead(d) ==
    /\ At(d, "ensure")
    /\ IF primary = NoDevice
         THEN Continue(d, "adopt")
         ELSE /\ Goto(d, "lookup")
              /\ target' = [target EXCEPT ![d] = primary]
              /\ UNCHANGED <<song, saved>>
    /\ UNCHANGED <<conn, redis, profile, aux, debVars>>

\* Mutant of EnsureLookup: any primary will do, connected or not.
EnsureLookupTrusts(d) ==
    /\ At(d, "lookup")
    /\ Goto(d, "check")
    /\ target' = [target EXCEPT ![d] = NoDevice]
    /\ UNCHANGED <<conn, redis, profile, aux, song, saved, debVars>>

\* ensure_primary, the registry lookup of the primary read before.
EnsureLookup(d) ==
    /\ At(d, "lookup")
    /\ Goto(d, IF target[d] \in Connected THEN "check" ELSE "adopt")
    /\ target' = [target EXCEPT ![d] = NoDevice]
    /\ UNCHANGED <<conn, redis, profile, song, saved, aux, debVars>>

Adopt(d) ==
    /\ At(d, "adopt")
    /\ primary' = d
    /\ Continue(d, "check")
    /\ Stray
    /\ UNCHANGED <<conn, np, lastsong, wsLast, stopped, profile, selects, pauses,
                   crashes, revived, mixed, debVars>>

\* handle_track: only the primary drives the profile.
CheckPrimary(d) ==
    /\ At(d, "check")
    /\ IF primary = d THEN Continue(d, "gateLast") ELSE Return(d)
    /\ UNCHANGED <<conn, redis, profile, aux, debVars>>

\* maybe_emit_song_changed: a track that changed ...
GateLast(d) ==
    /\ At(d, "gateLast")
    /\ IF lastsong # song[d] THEN Continue(d, "gateWs") ELSE Return(d)
    /\ UNCHANGED <<conn, redis, profile, aux, debVars>>

\* ... while the websocket source is active.
GateWs(d) ==
    /\ At(d, "gateWs")
    /\ IF wsLast # NoTrack THEN Continue(d, "emitCancel") ELSE Return(d)
    /\ UNCHANGED <<conn, redis, profile, aux, debVars>>

-----------------------------------------------------------------------------
(* publish_song_changed, for a track push and for a selection.             *)

EmitCancel(d) ==
    /\ At(d, "emitCancel")
    /\ CastCancel
    /\ Continue(d, "emitLast")
    /\ UNCHANGED <<conn, redis, profile, aux>>

\* lastsong is set, and not published yet.
Settling == {"emitWs", "emitResumed", "emitPublish"}

\* Mutant of EmitLast: the first track stays.
EmitLastOnce(d) ==
    /\ At(d, "emitLast")
    /\ lastsong' = IF lastsong = NoTrack THEN song[d] ELSE lastsong
    /\ mixed' = \E e \in Devices \ {d} : pc[e] \in Settling
    /\ Continue(d, "emitWs")
    /\ UNCHANGED <<conn, primary, np, wsLast, stopped, profile, selects, pauses,
                   crashes, revived, stray, debVars>>

EmitLast(d) ==
    /\ At(d, "emitLast")
    /\ lastsong' = song[d]
    /\ mixed' = \E e \in Devices \ {d} : pc[e] \in Settling
    /\ Continue(d, "emitWs")
    /\ UNCHANGED <<conn, primary, np, wsLast, stopped, profile, selects, pauses,
                   crashes, revived, stray, debVars>>

EmitWs(d) ==
    /\ At(d, "emitWs")
    /\ wsLast' = song[d]
    /\ Continue(d, "emitResumed")
    /\ UNCHANGED <<conn, primary, np, lastsong, stopped, profile, aux, debVars>>

EmitResumed(d) ==
    /\ At(d, "emitResumed")
    /\ stopped' = FALSE
    /\ Continue(d, "emitPublish")
    /\ UNCHANGED <<conn, primary, np, lastsong, wsLast, profile, aux, debVars>>

\* The device whose track is published: the one selected, or the pusher.
Source(d) == IF target[d] = NoDevice THEN d ELSE target[d]

EmitPublish(d) ==
    /\ At(d, "emitPublish")
    /\ profile' = [event |-> "changed", track |-> song[d], device |-> Source(d)]
    /\ revived' = (stopped /\ (profile = Stopped \/ revived))
    /\ UNCHANGED redis /\ Stray
    /\ Return(d)
    /\ UNCHANGED <<conn, selects, pauses, crashes, mixed, debVars>>

-----------------------------------------------------------------------------
(* A status frame: handle_status, profile_status, handle_resume.           *)

\* Status 0, stopped: the primary's stop is remembered and debounced.
PushStopped(d) ==
    /\ Idle(d)
    /\ pauses < MaxPauses
    /\ pauses' = pauses + 1
    /\ primary = d
    /\ Continue(d, "statusExists")
    /\ UNCHANGED <<conn, redis, profile, selects, crashes, history, debVars>>

StatusExists(d) ==
    /\ At(d, "statusExists")
    /\ IF wsLast # NoTrack THEN Continue(d, "setStopped") ELSE Return(d)
    /\ UNCHANGED <<conn, redis, profile, aux, debVars>>

SetStopped(d) ==
    /\ At(d, "setStopped")
    /\ stopped' = TRUE
    /\ Continue(d, "schedule")
    /\ UNCHANGED <<conn, primary, np, lastsong, wsLast, profile, aux, debVars>>

ScheduleStop(d) ==
    /\ At(d, "schedule")
    /\ CastSchedule
    /\ Return(d)
    /\ UNCHANGED <<conn, redis, profile, aux>>

\* Status 1, playing: handle_resume asks the debouncer first.
PushPlaying(d) ==
    /\ Idle(d)
    /\ primary = d
    /\ Continue(d, "ask")
    /\ UNCHANGED <<conn, redis, profile, aux, debVars>>

ResumeAsk(d) ==
    /\ At(d, "ask")
    /\ CallHasPending(d)
    /\ Continue(d, "awaitAnswer")
    /\ UNCHANGED <<conn, redis, profile, aux>>

ResumeAnswered(d) ==
    /\ At(d, "awaitAnswer")
    /\ TakeAnswer(d)
    /\ Continue(d, IF answer[d] = "yes" THEN "resumeCancel" ELSE "readStopped")
    /\ UNCHANGED <<conn, redis, profile, aux>>

\* Resumed within the window.
ResumeCancel(d) ==
    /\ At(d, "resumeCancel")
    /\ CastCancel
    /\ Continue(d, "resumeClear")
    /\ UNCHANGED <<conn, redis, profile, aux>>

\* Mutant of ResumeClear: the stop is cancelled, the mark of it stays.
ResumeKeepsMark(d) ==
    /\ At(d, "resumeClear")
    /\ Return(d)
    /\ UNCHANGED <<conn, redis, profile, aux, debVars>>

ResumeClear(d) ==
    /\ At(d, "resumeClear")
    /\ stopped' = FALSE
    /\ Return(d)
    /\ UNCHANGED <<conn, primary, np, lastsong, wsLast, profile, aux, debVars>>

\* Resumed after it: the track is forgotten, so that the next push publishes
\* it again, and the websocket source is made active again.
ReadStopped(d) ==
    /\ At(d, "readStopped")
    /\ IF stopped THEN Continue(d, "readLast") ELSE Return(d)
    /\ UNCHANGED <<conn, redis, profile, aux, debVars>>

ReadLast(d) ==
    /\ At(d, "readLast")
    /\ saved' = [saved EXCEPT ![d] = lastsong]
    /\ Goto(d, "clearStopped")
    /\ UNCHANGED <<conn, redis, profile, song, target, aux, debVars>>

ClearStopped(d) ==
    /\ At(d, "clearStopped")
    /\ stopped' = FALSE
    /\ Continue(d, "clearLast")
    /\ UNCHANGED <<conn, primary, np, lastsong, wsLast, profile, aux, debVars>>

ClearLast(d) ==
    /\ At(d, "clearLast")
    /\ lastsong' = NoTrack
    /\ IF saved[d] # NoTrack THEN Continue(d, "restoreWs") ELSE Return(d)
    /\ UNCHANGED <<conn, primary, np, wsLast, stopped, profile, aux, debVars>>

RestoreWs(d) ==
    /\ At(d, "restoreWs")
    /\ wsLast' = saved[d]
    /\ Return(d)
    /\ UNCHANGED <<conn, primary, np, lastsong, stopped, profile, aux, debVars>>

-----------------------------------------------------------------------------
(* A set_primary frame.  The client names any device it has heard of; the  *)
(* server does not ask whether that device is still connected.             *)

Select(d, x) ==
    /\ Idle(d)
    /\ conn[x] # "away"
    /\ selects < MaxSelects
    /\ selects' = selects + 1
    /\ primary' = x
    /\ target' = [target EXCEPT ![d] = x]
    /\ Goto(d, "selClear")
    /\ Stray
    /\ UNCHANGED <<conn, np, lastsong, wsLast, stopped, profile, song, saved,
                   pauses, crashes, revived, mixed, debVars>>

SelectClear(d) ==
    /\ At(d, "selClear")
    /\ lastsong' = NoTrack
    /\ Continue(d, "selRead")
    /\ UNCHANGED <<conn, primary, np, wsLast, stopped, profile, aux, debVars>>

SelectRead(d) ==
    /\ At(d, "selRead")
    /\ IF np[target[d]] = NoTrack
         THEN Return(d)
         ELSE /\ song' = [song EXCEPT ![d] = np[target[d]]]
              /\ Goto(d, "emitCancel")
              /\ UNCHANGED <<target, saved>>
    /\ UNCHANGED <<conn, redis, profile, aux, debVars>>

-----------------------------------------------------------------------------
(* A connection closes: terminate runs on_disconnect, and the registry     *)
(* entry goes when the process does.                                       *)

Gone(d) == conn' = [conn EXCEPT ![d] = "gone"]

Disconnect(d) ==
    /\ Idle(d)
    /\ conn' = [conn EXCEPT ![d] = "closing"]
    /\ np' = [np EXCEPT ![d] = NoTrack]
    /\ Continue(d, "leaveCheck")
    /\ UNCHANGED <<primary, lastsong, wsLast, stopped, profile, aux, debVars>>

LeaveCheck(d) ==
    /\ At(d, "leaveCheck")
    /\ IF primary = d
         THEN Continue(d, "leavePrimary") /\ UNCHANGED conn
         ELSE Return(d) /\ Gone(d)
    /\ UNCHANGED <<redis, profile, aux, debVars>>

LeavePrimary(d) ==
    /\ At(d, "leavePrimary")
    /\ primary' = NoDevice
    /\ Continue(d, "leaveLast")
    /\ UNCHANGED <<conn, np, lastsong, wsLast, stopped, profile, aux, debVars>>

LeaveLast(d) ==
    /\ At(d, "leaveLast")
    /\ lastsong' = NoTrack
    /\ Continue(d, "leaveWs")
    /\ UNCHANGED <<conn, primary, np, wsLast, stopped, profile, aux, debVars>>

LeaveWs(d) ==
    /\ At(d, "leaveWs")
    /\ wsLast' = NoTrack
    /\ Continue(d, "leaveStopped")
    /\ UNCHANGED <<conn, primary, np, lastsong, stopped, profile, aux, debVars>>

LeaveStopped(d) ==
    /\ At(d, "leaveStopped")
    /\ stopped' = FALSE
    /\ Continue(d, "leaveCancel")
    /\ UNCHANGED <<conn, primary, np, lastsong, wsLast, profile, aux, debVars>>

LeaveCancel(d) ==
    /\ At(d, "leaveCancel")
    /\ CastCancel
    /\ Continue(d, "leavePublish")
    /\ UNCHANGED <<conn, redis, profile, aux>>

\* Mutant of LeavePublish: the stop is left to the debouncer, just cancelled.
LeaveQuietly(d) ==
    /\ At(d, "leavePublish")
    /\ Return(d) /\ Gone(d)
    /\ UNCHANGED <<redis, profile, aux, debVars>>

LeavePublish(d) ==
    /\ At(d, "leavePublish")
    /\ profile' = Stopped
    /\ Return(d) /\ Gone(d)
    /\ UNCHANGED <<redis, aux, debVars>>

-----------------------------------------------------------------------------
(* The rest of the system.                                                 *)

\* np:<did>:<device> outlives 30 seconds without a push by nothing.
CacheExpires(d) ==
    /\ np[d] # NoTrack
    /\ np' = [np EXCEPT ![d] = NoTrack]
    /\ UNCHANGED <<conn, primary, lastsong, wsLast, stopped, profile, pc, locals,
                   aux, debVars>>

\* The API writes a navidrome status and deletes ws_lastsong (ActorStatus).
NavidromeTakesOver ==
    /\ wsLast # NoTrack
    /\ wsLast' = NoTrack
    /\ UNCHANGED <<conn, primary, np, lastsong, stopped, profile, pc, locals,
                   aux, debVars>>

\* The debouncer at work: a fire deletes ws_lastsong, then publishes.
Debounce ==
    /\ \/ /\ HandleSchedule \/ HandleCancel \/ HandleHasPending
          /\ UNCHANGED <<wsLast, profile>>
       \/ HandleFire /\ wsLast' = NoTrack /\ UNCHANGED profile
       \/ PublishStop /\ profile' = Stopped /\ UNCHANGED wsLast
    /\ UNCHANGED <<conn, primary, np, lastsong, stopped, pc, locals, aux>>

TimerExpires ==
    /\ \E r \in Refs : Expire(r)
    /\ UNCHANGED remoteVars

\* The node goes down: no connection runs its terminate, Redis keeps its keys.
Crash ==
    /\ crashes < MaxCrashes
    /\ crashes' = crashes + 1
    /\ Restart
    /\ conn' = [d \in Devices |-> IF conn[d] = "away" THEN "away" ELSE "gone"]
    /\ pc' = [d \in Devices |-> "idle"]
    /\ song' = [d \in Devices |-> NoTrack]
    /\ target' = [d \in Devices |-> NoDevice]
    /\ saved' = [d \in Devices |-> NoTrack]
    /\ UNCHANGED <<redis, profile, selects, pauses, history>>

\* The steps by which a handler that has begun goes on.
Proceed(d) ==
    \/ EnsureRead(d) \/ EnsureLookup(d) \/ Adopt(d)
    \/ CheckPrimary(d) \/ GateLast(d) \/ GateWs(d)
    \/ EmitCancel(d) \/ EmitLast(d) \/ EmitWs(d) \/ EmitResumed(d) \/ EmitPublish(d)
    \/ StatusExists(d) \/ SetStopped(d) \/ ScheduleStop(d)
    \/ ResumeAsk(d) \/ ResumeAnswered(d) \/ ResumeCancel(d) \/ ResumeClear(d)
    \/ ReadStopped(d) \/ ReadLast(d) \/ ClearStopped(d) \/ ClearLast(d) \/ RestoreWs(d)
    \/ SelectClear(d) \/ SelectRead(d)
    \/ LeaveCheck(d) \/ LeavePrimary(d) \/ LeaveLast(d) \/ LeaveWs(d)
    \/ LeaveStopped(d) \/ LeaveCancel(d) \/ LeavePublish(d)

Frame(d) ==
    \/ \E t \in Tracks : PushTrack(d, t)
    \/ PushStopped(d)
    \/ PushPlaying(d)
    \/ \E x \in Devices : Select(d, x)

Next ==
    \/ \E d \in Devices : Register(d) \/ Frame(d) \/ Proceed(d) \/ Disconnect(d) \/ CacheExpires(d)
    \/ Debounce
    \/ TimerExpires
    \/ NavidromeTakesOver
    \/ Crash

Safety == Init /\ [][Next]_vars

\* Processes run, timers expire, and a connected player pushes its track every
\* few seconds (apps/cli every four, unless it is stopped).
Fairness ==
    /\ \A d \in Devices :
          /\ WF_vars(Proceed(d))
          /\ WF_vars(\E t \in Tracks : PushTrack(d, t))
    /\ WF_vars(Debounce)
    /\ WF_vars(TimerExpires)

Spec == Safety /\ Fairness
-----------------------------------------------------------------------------
(* Properties.                                                             *)

AllIdle == \A d \in Devices : At(d, "idle")

\* A handler whose song.changed comes after the stop of a later pause: it puts
\* the song back on the profile.  Two devices cannot do worse than that, for the
\* stop has deleted ws_lastsong; a third one can bring ws_lastsong back.
ThreeDevices == \E a, b, c \in Devices : a # b /\ b # c /\ a # c

Overtaken == revived /\ (wsLast = NoTrack \/ ThreeDevices)

\* A paused profile is ended: while stopped:<did> stands and the profile shows a
\* song, the stop is on its way, or a handler that clears or schedules it is at
\* work.  Holds across any interleaving of the track, status and selection
\* handlers of any number of devices and of their disconnects, but for a
\* song.changed that is Overtaken; and a restart of the node loses the stop, for
\* the timers live in memory only.
StopNotLost ==
    (/\ stopped /\ profile # Stopped
     /\ AllIdle /\ crashes = 0 /\ ~Overtaken)
    => Live # {}

\* The handlers use the debouncer as its own specification says, so that what
\* is proved of it holds here: every step is a debouncer step or leaves it be.
\* (A step of the proofs in RemoteWsProofs, not a property of the runs.)
UsesDebouncer == DebSafety

\* A connected player is enough for the user to get a connected primary, and
\* to keep one once devices stop coming, going and selecting.
PrimarySettles ==
    \A d \in Devices : <>[](conn[d] = "up") => <>[](primary \in Connected)

\* No handler hangs: every frame and every close is worked off.
HandlersReturn == \A d \in Devices : ~At(d, "idle") ~> At(d, "idle")

\* now_playing.ex:151-153: when the primary's connection ends, so does the
\* profile.  With every connection gone and nothing under way, the public profile
\* shows nothing, whoever pushed, selected and left meanwhile, unless the song was
\* published, or the primary named, when the primary had left (stray).
GoneIsSilent ==
    (/\ \A d \in Devices : conn[d] \in {"away", "gone"}
     /\ AllIdle /\ Live = {} /\ crashes = 0 /\ ~stray)
    => profile = Stopped

\* now_playing.ex:16-18: only the primary drives the profile; a player that is
\* not the primary never touches it.
ProfileFollowsPrimary ==
    [][profile' # profile /\ profile' # Stopped => profile'.device = primary]_vars

\* PROTOCOL.md:45-46: a lone headless player is adopted and scrobbles with no
\* UI: one that stays connected and keeps pushing is shown on the profile.
HeadlessScrobbles ==
    \A d \in Devices : <>[](conn[d] = "up") => <>(profile # Stopped)

\* What deduplication believes is what the public sees: with no handler at work,
\* the profile shows lastsong or nothing, whatever pushes, selections, resumes and
\* departures came before, unless two of them published at once (mixed).
DedupAgreesWithProfile ==
    (AllIdle /\ lastsong # NoTrack /\ crashes = 0 /\ profile # Stopped /\ ~mixed)
        => profile.track = lastsong
=============================================================================
