----------------------------- MODULE CommitTasks -----------------------------
(***************************************************************************)
(* The handlers of crates/jetstream: each commit that CommitFeed hands     *)
(* over gets a task, once there is a permit for it; the task writes or     *)
(* deletes the scrobble's row and announces it, on NATS and to the Redis   *)
(* queue of the Discord webhook worker, whose lock they share.             *)
(*                                                                         *)
(* The row writes of a creation are one step here: ScrobbleCatalog has     *)
(* their detail.  Left out: the token bucket of the webhook worker, which  *)
(* only delays a batch, and collections other than the scrobbles'.         *)
(***************************************************************************)
EXTENDS CommitFeed, SequencesExt

CONSTANTS
    ListenOf,       \* the (user, track, timestamp) of a record
    MaxInflight, MaxEmbeds,
    MaxReplays,     \* bound: commits handed over again
    MaxFaults       \* bound: handlers that fail

ASSUME TasksAssumption ==
    /\ DOMAIN ListenOf = Records
    /\ MaxInflight \in Nat \ {0} /\ MaxEmbeds \in Nat \ {0}
    /\ MaxReplays \in Nat /\ MaxFaults \in Nat

VARIABLES
    held,       \* the commit the consumer awaits a permit for, or 0
    task,       \* the handler that has each permit
    rows,       \* the scrobble row of each listen: its record, or NoRecord
    news,       \* how often a record's row was published as new
    dead,       \* the records published as deleted
    queue,      \* the Redis list of the webhook
    worker,     \* the webhook worker
    excused,    \* records whose handler failed or whose deletion overtook them
    replays, faults

taskVars == <<held, task>>
rowVars  == <<rows, news, dead, excused>>
vars == <<feedVars, taskVars, rowVars, queue, worker, replays, faults>>

Listens == {ListenOf[r] : r \in Records}
Permits == 1 .. MaxInflight
Free    == [at |-> "free"]

\* A creation writes its row, publishes it and pushes its embed; a deletion deletes its
\* row and publishes that.
Tasks == {Free} \cup [at : {"write", "publish", "push"}, ev : Index]

TypeOK ==
    /\ FeedTypeOK
    /\ held \in {0} \cup Index
    /\ task \in [Permits -> Tasks]
    /\ rows \in [Listens -> Records \cup {NoRecord}]
    /\ news \in [Records -> Nat]
    /\ dead \subseteq Records
    /\ queue \in Seq(Records)
    /\ worker \in [at : {"idle", "brpop", "post"}, embeds : Seq(Records)]
    /\ Len(worker.embeds) <= MaxEmbeds
    /\ excused \subseteq Records
    /\ replays \in 0 .. MaxReplays /\ faults \in 0 .. MaxFaults

Init ==
    /\ FeedInit
    /\ held = 0
    /\ task = [p \in Permits |-> Free]
    /\ rows = [l \in Listens |-> NoRecord]
    /\ news = [r \in Records |-> 0]
    /\ dead = {}
    /\ queue = << >>
    /\ worker = [at |-> "idle", embeds |-> << >>]
    /\ excused = {}
    /\ replays = 0 /\ faults = 0

----------------------------------------------------------------------------
(* The feed: CommitFeed, with a bound on the replays.                      *)

\* The commit is new, or the second half of a replay.
Due(i) ==
    /\ i \in DOMAIN log
    /\ \/ log[i].op = "create" /\ last[log[i].rec] = "none"
       \/ log[i].op = "delete" /\ last[log[i].rec] # "delete"

\* Frames that are no commits matter to the watermark alone.
EmitCommit(e) ==
    /\ e.op # "account"
    /\ Emit(e)
    /\ UNCHANGED <<taskVars, rowVars, queue, worker, replays, faults>>

\* The consumer takes a commit up when it has none in hand.
Take(i) ==
    /\ held = 0
    /\ Hand(i)
    /\ Due(i) \/ replays < MaxReplays
    /\ held' = i
    /\ replays' = IF Due(i) THEN replays ELSE replays + 1
    /\ UNCHANGED <<task, rowVars, queue, worker, faults>>

TailFrom(n) ==
    /\ LiveTail(n)
    /\ UNCHANGED <<taskVars, rowVars, queue, worker, replays, faults>>

----------------------------------------------------------------------------
(* spawn_handler, and save_scrobble in the task of permit p                *)

\* The permits are alike: the first free one is taken.
Spawn ==
    /\ held # 0
    /\ \E p \in Permits :
        /\ task[p] = Free
        /\ \A q \in Permits : q < p => task[q] # Free
        /\ task' = [task EXCEPT ![p] = [at |-> "write", ev |-> held]]
    /\ held' = 0
    /\ UNCHANGED <<feedVars, rowVars, queue, worker, replays, faults>>

RecordOf(p) == log[task[p].ev].rec
IsTask(p, op, at) == task[p] # Free /\ task[p].at = at /\ log[task[p].ev].op = op

\* Mutant of Inserts: the uri alone is unique.
InsertsByUri(r) == rows[ListenOf[r]] # r

\* INSERT ... ON CONFLICT (user_id, track_id, timestamp) DO NOTHING RETURNING.
Inserts(r) == rows[ListenOf[r]] = NoRecord

\* The transaction; without a new row there is nothing to announce.
Insert(p) ==
    /\ IsTask(p, "create", "write")
    /\ IF Inserts(RecordOf(p))
       THEN /\ rows' = [rows EXCEPT ![ListenOf[RecordOf(p)]] = RecordOf(p)]
            /\ task' = [task EXCEPT ![p].at = "publish"]
       ELSE /\ task' = [task EXCEPT ![p] = Free]
            /\ UNCHANGED rows
    /\ UNCHANGED <<feedVars, held, news, dead, excused, queue, worker, replays, faults>>

\* rocksky.scrobble.new and publish_user.
Publish(p) ==
    /\ IsTask(p, "create", "publish")
    /\ news' = [news EXCEPT ![RecordOf(p)] = @ + 1]
    /\ task' = [task EXCEPT ![p].at = "push"]
    /\ UNCHANGED <<feedVars, held, rows, dead, excused, queue, worker, replays, faults>>

\* push_to_queue waits for the lock that brpop_once keeps until Redis answers.
Push(p) ==
    /\ IsTask(p, "create", "push")
    /\ worker.at # "brpop"
    /\ queue' = Append(queue, RecordOf(p))
    /\ task' = [task EXCEPT ![p] = Free]
    /\ UNCHANGED <<feedVars, held, rowVars, worker, replays, faults>>

\* A creation of r is in a task that has not written yet.
Overtaken(r) ==
    \E p \in Permits : IsTask(p, "create", "write") /\ RecordOf(p) = r

\* Mutant of Delete: a row that was not announced yet is left alone.
DeleteAnnounced(p) ==
    /\ IsTask(p, "delete", "write")
    /\ LET r == RecordOf(p)
       IN  /\ rows' = [rows EXCEPT ![ListenOf[r]] = IF @ = r /\ news[r] > 0 THEN NoRecord ELSE @]
           /\ excused' = IF Overtaken(r) THEN excused \cup {r} ELSE excused
    /\ task' = [task EXCEPT ![p].at = "publish"]
    /\ UNCHANGED <<feedVars, held, news, dead, queue, worker, replays, faults>>

\* delete_scrobble looks for the uri, hence for the record.
Delete(p) ==
    /\ IsTask(p, "delete", "write")
    /\ LET r == RecordOf(p)
       IN  /\ rows' = [rows EXCEPT ![ListenOf[r]] = IF @ = r THEN NoRecord ELSE @]
           /\ excused' = IF Overtaken(r) THEN excused \cup {r} ELSE excused
    /\ task' = [task EXCEPT ![p].at = "publish"]
    /\ UNCHANGED <<feedVars, held, news, dead, queue, worker, replays, faults>>

\* rocksky.delete.scrobble, whether there was a row or not.
PublishDelete(p) ==
    /\ IsTask(p, "delete", "publish")
    /\ dead' = dead \cup {RecordOf(p)}
    /\ task' = [task EXCEPT ![p] = Free]
    /\ UNCHANGED <<feedVars, held, rows, news, excused, queue, worker, replays, faults>>

\* An error or a panic anywhere in a handler: it is logged, and the permit is free.
Fail(p) ==
    /\ faults < MaxFaults
    /\ task[p] # Free
    /\ task' = [task EXCEPT ![p] = Free]
    /\ excused' = excused \cup {RecordOf(p)}
    /\ faults' = faults + 1
    /\ UNCHANGED <<feedVars, held, rows, news, dead, queue, worker, replays>>

----------------------------------------------------------------------------
(* run_worker of webhook_worker.rs                                         *)

\* Mutant of Popped: a batch without limit.
PoppedAnyway ==
    /\ worker.at = "idle"
    /\ queue # << >>
    /\ worker' = [worker EXCEPT !.embeds = Append(@, Last(queue))]
    /\ queue' = Front(queue)
    /\ UNCHANGED <<feedVars, taskVars, rowVars, replays, faults>>

\* brpop_once with something in the queue, which the lock keeps for it.  RPUSH and
\* BRPOP use the same end of the list.
Popped ==
    /\ worker.at = "idle"
    /\ Len(worker.embeds) < MaxEmbeds
    /\ queue # << >>
    /\ worker' = [worker EXCEPT !.embeds = Append(@, Last(queue))]
    /\ queue' = Front(queue)
    /\ UNCHANGED <<feedVars, taskVars, rowVars, replays, faults>>

\* brpop_once with nothing in it: the lock is kept, so that nothing will come.
Brpop ==
    /\ worker.at = "idle"
    /\ Len(worker.embeds) < MaxEmbeds
    /\ queue = << >>
    /\ worker' = [worker EXCEPT !.at = "brpop"]
    /\ UNCHANGED <<feedVars, taskVars, rowVars, queue, replays, faults>>

\* Mutant of PopNothing: BRPOP without a timeout, but for an open batch.
PopNothingOfBatch ==
    /\ worker.at = "brpop"
    /\ worker.embeds # << >>
    /\ worker' = [worker EXCEPT !.at = "post"]
    /\ UNCHANGED <<feedVars, taskVars, rowVars, queue, replays, faults>>

\* BRPOP gives up after a second, and the batch ends.
PopNothing ==
    /\ worker.at = "brpop"
    /\ worker' = [worker EXCEPT !.at = IF worker.embeds = << >> THEN "idle" ELSE "post"]
    /\ UNCHANGED <<feedVars, taskVars, rowVars, queue, replays, faults>>

\* The batch is full, or its window is over.
CloseBatch ==
    /\ worker.at = "idle"
    /\ worker.embeds # << >>
    /\ worker' = [worker EXCEPT !.at = "post"]
    /\ UNCHANGED <<feedVars, taskVars, rowVars, queue, replays, faults>>

\* post_embeds: whether it works or not, the batch is gone.
Post ==
    /\ worker.at = "post"
    /\ worker' = [at |-> "idle", embeds |-> << >>]
    /\ UNCHANGED <<feedVars, taskVars, rowVars, queue, replays, faults>>

----------------------------------------------------------------------------
Handler(p) == Insert(p) \/ Publish(p) \/ Push(p) \/ Delete(p) \/ PublishDelete(p)
Webhook    == Brpop \/ Popped \/ PopNothing \/ CloseBatch \/ Post

Next ==
    \/ \E e \in Events : EmitCommit(e)
    \/ \E i \in Index : Take(i) \/ TailFrom(i)
    \/ Spawn
    \/ \E p \in Permits : Handler(p) \/ Fail(p)
    \/ Webhook

Safety == Init /\ [][Next]_vars

\* The subscriber hands over what is due (JetstreamSources!EveryEventReceived), each
\* task runs on, and tokio's Mutex is given in the order it is asked for.
Fairness ==
    /\ WF_vars(\E i \in Index : Due(i) /\ Take(i))
    /\ WF_vars(Spawn)
    /\ \A p \in Permits :
        /\ WF_vars(Insert(p) \/ Publish(p) \/ Delete(p) \/ PublishDelete(p))
        /\ SF_vars(Push(p))
    /\ WF_vars(Webhook)

Spec == Safety /\ Fairness

----------------------------------------------------------------------------
(* Properties *)

\* Nothing is on its way to the rows.
Quiet == UpToDate /\ held = 0 /\ \A p \in Permits : task[p] = Free

SameListen(r) == {q \in Records : ListenOf[q] = ListenOf[r]}

\* At rest, the rows are what the records say, whatever was replayed and in which
\* order the tasks ran: a record the feed promised has a row if it still exists and
\* none if it was deleted, and both were announced.  Excused are a record whose
\* handler failed, one whose deletion overtook its creation, and one whose listen had
\* another record that was deleted: the two share a row.
RowsFollowRecords ==
    Quiet =>
        /\ \A r \in Records \ excused :
            Promised("create", r) =>
                IF Emitted("delete", r)
                THEN rows[ListenOf[r]] # r /\ r \in dead
                ELSE \/ rows[ListenOf[r]] # NoRecord
                     \/ \E q \in SameListen(r) : Emitted("delete", q)
        /\ \A l \in Listens : rows[l] \in Records \ excused => news[rows[l]] > 0

\* A listen is announced once, though its creation is handed over again and several
\* records tell of it, in tasks that run at once: unless a record of it was deleted,
\* which makes room for the next row.
AnnouncedOnce ==
    \A r \in Records :
        (\A q \in SameListen(r) : ~Emitted("delete", q)) =>
            /\ news[r] <= 1
            /\ \A q \in SameListen(r) \ {r} : news[r] = 0 \/ news[q] = 0

\* Nobody waits for ever: the consumer waits for a permit, the handlers for the lock
\* of the queue, and the webhook worker, with the lock, for Redis; yet every commit
\* is handled, and every embed leaves the queue.
ComesToRest == <>[](Quiet /\ queue = << >> /\ worker.embeds = << >>)

=============================================================================
