---------------------------- MODULE ScrobblePut ----------------------------
(***************************************************************************)
(* One listener's concurrent calls of scrobbleTrack (apps/api): live ones  *)
(* from several players and services, and those of an import.  A call      *)
(* passes the bot guard and the duplicate window, sees to the catalog      *)
(* records of its song (modelled in ScrobbleCatalog, here a pause of any   *)
(* length), takes a lock on its listen and puts a scrobble record on the   *)
(* PDS.  The row that the duplicate window looks at is not its own write:  *)
(* it comes back later through the Jetstream ingest (crates/jetstream).    *)
(***************************************************************************)
EXTENDS Integers, FiniteSets

CONSTANTS
  Calls,         \* calls of scrobbleTrack; a call also names its record and row
  Songs,         \* songs, told apart by title and artist
  Times,         \* the listen times a call may carry
  DupWindow,     \* sixty seconds, in the unit of Times
  RateWindow,    \* SCROBBLE_ABUSE_WINDOW, in the unit of Times
  MaxInWindow,   \* SCROBBLE_ABUSE_MAX (its value 0 turns the guard off)
  MaxFaults,     \* bound: failed puts, failed ingest tasks, crashes of the API
  MaxLapses      \* bound: expiries of a lock, of the block or of the window

ASSUME ScrobbleAssumption ==
  /\ Times \subseteq Nat
  /\ DupWindow \in Nat
  /\ RateWindow \in Nat \ {0} /\ MaxInWindow \in Nat \ {0}
  /\ MaxFaults \in Nat /\ MaxLapses \in Nat

VARIABLES
  pc,            \* where each call is, or how it ended
  listen,        \* the song and the time each call carries, chosen at the start
  rate, block,   \* Redis: the calls counted in the window; the block
  lock,          \* Redis: the listens whose put is taken
  records,       \* the PDS: the calls whose scrobble record was written
  commits,       \* scrobble records the ingest has yet to handle
  rows,          \* Postgres: the calls whose scrobble row exists
  lost,          \* history: calls whose put, ingest or process failed
  accepted,      \* history: the live calls the guard let through
  late,          \* history: a listen was counted after a later one
  faults, lapses \* the bounded counters

redis == <<rate, block, lock>>
history == <<lost, accepted, late, faults, lapses>>
vars == <<pc, listen, redis, records, commits, rows, history>>

Listens == [song : Songs, at : Times]
Ended == {"ok", "duplicate", "filtered", "skipped", "blocked", "dead"}
Running == {"find_duplicate", "guard", "block", "catalog", "lock",
            "put_scrobble", "await_row"}
Steps == {"idle"} \union Running \union Ended

Near(l, m) == /\ l.song = m.song
              /\ l.at - m.at <= DupWindow
              /\ m.at - l.at <= DupWindow

Goto(c, step) == pc' = [pc EXCEPT ![c] = step]

-----------------------------------------------------------------------------
\* A live call: a blocked user (the temporary block, or the bot flag, a block
\* that no code lifts) is turned away.
Receive(c) ==
  /\ pc[c] = "idle"
  /\ Goto(c, IF block THEN "blocked" ELSE "find_duplicate")
  /\ UNCHANGED <<listen, redis, records, commits, rows, history>>

\* A call of an import skips the guard and the duplicate window: runImport has
\* dropped what has a row of the very same second, of whatever song.
ReceiveImport(c) ==
  /\ pc[c] = "idle"
  /\ Goto(c, IF \E r \in rows : listen[r].at = listen[c].at
               THEN "filtered" ELSE "catalog")
  /\ UNCHANGED <<listen, redis, records, commits, rows, history>>

FindDuplicate(c) ==
  /\ pc[c] = "find_duplicate"
  /\ Goto(c, IF \E r \in rows : Near(listen[r], listen[c])
               THEN "duplicate" ELSE "guard")
  /\ UNCHANGED <<listen, redis, records, commits, rows, history>>

\* Mutant of Counted: the call counts those before it and not itself.
CountedBefore(c) ==
  {r \in rate : listen[r].at > listen[c].at - RateWindow}

\* zAdd, zRemRangeByScore and zCard run in one MULTI.
Counted(c) ==
  {r \in rate \union {c} : listen[r].at > listen[c].at - RateWindow}

RecordAndGuard(c) ==
  /\ pc[c] = "guard"
  /\ rate' = Counted(c)
  /\ IF Cardinality(Counted(c)) > MaxInWindow
       THEN Goto(c, "block") /\ UNCHANGED accepted
       ELSE Goto(c, "catalog") /\ accepted' = accepted \union {c}
  /\ late' = (late \/ \E r \in rate : listen[r].at > listen[c].at)
  /\ UNCHANGED <<listen, block, lock, records, commits, rows, lost, faults,
                 lapses>>

\* The call that found the window full places the block, and throws.
SetBlock(c) ==
  /\ pc[c] = "block"
  /\ block' = TRUE
  /\ Goto(c, "blocked")
  /\ UNCHANGED <<listen, rate, lock, records, commits, rows, history>>

\* The song, artist and album records, and two waits for the ingest that end
\* after thirty tries at the latest: a call always comes through.
SeeToCatalog(c) ==
  /\ pc[c] = "catalog"
  /\ Goto(c, "lock")
  /\ UNCHANGED <<listen, redis, records, commits, rows, history>>

\* Mutant of Lock: GET and SET without NX, so that everybody has the lock.
LockWithoutNX(c) ==
  /\ pc[c] = "lock"
  /\ lock' = lock \union {listen[c]}
  /\ Goto(c, "put_scrobble")
  /\ UNCHANGED <<listen, rate, block, records, commits, rows, history>>

\* Mutant of Lock: the key has the song and not the time.
LockOfSong(c) ==
  /\ pc[c] = "lock"
  /\ lock' = lock \union {listen[c]}
  /\ Goto(c, IF \E l \in lock : l.song = listen[c].song
               THEN "skipped" ELSE "put_scrobble")
  /\ UNCHANGED <<listen, rate, block, records, commits, rows, history>>

\* SET scrobble-put:<did>:<song>:<time> NX EX 120; nothing ever releases it.
Lock(c) ==
  /\ pc[c] = "lock"
  /\ lock' = lock \union {listen[c]}
  /\ Goto(c, IF listen[c] \in lock THEN "skipped" ELSE "put_scrobble")
  /\ UNCHANGED <<listen, rate, block, records, commits, rows, history>>

\* A put that fails is logged, and the call goes on to wait for a null uri.
PutScrobble(c) ==
  /\ pc[c] = "put_scrobble"
  /\ \/ /\ records' = records \union {c}
        /\ commits' = commits \union {c}
        /\ UNCHANGED <<faults, lost>>
     \/ /\ faults < MaxFaults
        /\ faults' = faults + 1
        /\ lost' = lost \union {c}
        /\ UNCHANGED <<records, commits>>
  /\ Goto(c, "await_row")
  /\ UNCHANGED <<listen, redis, rows, accepted, late, lapses>>

\* The wait for the row ends with the row or after thirty tries, and either way
\* the call returns.
AwaitRow(c) ==
  /\ pc[c] = "await_row"
  /\ Goto(c, "ok")
  /\ UNCHANGED <<listen, redis, records, commits, rows, history>>

\* save_scrobble: ON CONFLICT (user, track, timestamp) DO NOTHING.
Ingest(c) ==
  /\ c \in commits
  /\ commits' = commits \ {c}
  /\ rows' = IF \E r \in rows : listen[r] = listen[c]
               THEN rows ELSE rows \union {c}
  /\ UNCHANGED <<pc, listen, redis, records, history>>

\* A task that fails or panics is logged, and its commit is gone.
IngestFails(c) ==
  /\ c \in commits
  /\ faults < MaxFaults
  /\ faults' = faults + 1
  /\ commits' = commits \ {c}
  /\ lost' = lost \union {c}
  /\ UNCHANGED <<pc, listen, redis, records, rows, accepted, late,
                 lapses>>

\* The API process dies; what its calls have in Redis and on the PDS stays.
Crash ==
  /\ \E c \in Calls : pc[c] \in Running
  /\ faults < MaxFaults
  /\ faults' = faults + 1
  /\ lost' = lost \union {c \in Calls : pc[c] = "put_scrobble"}
  /\ pc' = [c \in Calls |-> IF pc[c] \in Running THEN "dead" ELSE pc[c]]
  /\ UNCHANGED <<listen, redis, records, commits, rows, accepted, late,
                 lapses>>

\* A Redis key expires: a lock, the block, or the window of an idle user.
Lapse ==
  /\ lapses < MaxLapses
  /\ lapses' = lapses + 1
  /\ \/ \E l \in lock : lock' = lock \ {l} /\ UNCHANGED <<rate, block>>
     \/ block /\ block' = FALSE /\ UNCHANGED <<rate, lock>>
     \/ rate # {} /\ rate' = {} /\ UNCHANGED <<block, lock>>
  /\ UNCHANGED <<pc, listen, records, commits, rows, lost, accepted, late, faults>>

-----------------------------------------------------------------------------
Init ==
  /\ pc = [c \in Calls |-> "idle"]
  /\ listen \in [Calls -> Listens]
  /\ rate = {} /\ block = FALSE /\ lock = {}
  /\ records = {} /\ commits = {} /\ rows = {}
  /\ lost = {} /\ accepted = {} /\ late = FALSE
  /\ faults = 0 /\ lapses = 0

Proceed(c) ==
  \/ FindDuplicate(c) \/ RecordAndGuard(c) \/ SetBlock(c) \/ SeeToCatalog(c)
  \/ Lock(c) \/ PutScrobble(c) \/ AwaitRow(c)

Next ==
  \/ \E c \in Calls : Receive(c) \/ ReceiveImport(c) \/ Proceed(c)
  \/ \E c \in Calls : Ingest(c) \/ IngestFails(c)
  \/ Crash
  \/ Lapse

Spec == Init /\ [][Next]_vars

-----------------------------------------------------------------------------
(* Properties.                                                             *)

\* Every variable stays in its set; commits and rows come from records, and a
\* record from a call that took its lock.
TypeOK ==
  /\ pc \in [Calls -> Steps] /\ listen \in [Calls -> Listens]
  /\ rate \subseteq Calls /\ accepted \subseteq Calls
  /\ block \in BOOLEAN /\ lock \subseteq Listens
  /\ records \subseteq {c \in Calls : pc[c] \in {"await_row", "ok", "dead"}}
  /\ commits \subseteq records /\ rows \subseteq records
  /\ lost \subseteq Calls /\ late \in BOOLEAN
  /\ faults \in 0 .. MaxFaults /\ lapses \in 0 .. MaxLapses

\* Concurrent calls for the same listen, live or imported, before and after a
\* crash, leave one record on the PDS: only the first to take the lock puts it,
\* as long as no key has expired.
OneRecordPerListen ==
  lapses = 0 => \A c, d \in records : listen[c] = listen[d] => c = d

\* The guard accepts no more than MaxInWindow live listens of any window,
\* however many calls passed the check for a block before it was set: each
\* counts itself before it is accepted.  This presumes that listens are counted
\* in the order of their times, since a later one prunes what an earlier one
\* needs.
AcceptedAreFew ==
  (lapses = 0 /\ ~late) =>
    \A t \in Times :
      Cardinality({c \in accepted : /\ listen[c].at <= t
                                    /\ listen[c].at > t - RateWindow})
        <= MaxInWindow

\* A listen that a call took, or refused because another call or a row had it,
\* is in somebody's hands: within the window there is a call about to put it,
\* a commit or a row, unless some put, ingest or process failed.  No lock,
\* duplicate check, conflict or expiry loses a listen.
InHand(d) == pc[d] = "put_scrobble" \/ d \in commits \/ d \in rows
ListenKept ==
  lost = {} =>
    \A c \in Calls :
      pc[c] \in {"await_row", "ok", "skipped", "duplicate"} =>
        \E d \in Calls : InHand(d) /\ Near(listen[d], listen[c])
=============================================================================
