-------------------------- MODULE JetstreamSources ---------------------------
(***************************************************************************)
(* The subscriber of crates/jetstream (subscriber.rs): one worker for each *)
(* Jetstream server feeds a bounded channel; its consumer keeps the        *)
(* watermark, drops what it has seen, and gives the rest to the handlers.  *)
(* It implements CommitFeed.                                               *)
(*                                                                         *)
(* The length of `log' is the clock: a server stamps an event with it when *)
(* it relays it.  A cursor plays the events of its own instant too, so     *)
(* that a server may lag one instant more than the slack.  The wait for a  *)
(* permit is in CommitTasks; the pause before a reconnection is left out.  *)
(***************************************************************************)
EXTENDS CommitFeed, SequencesExt

CONSTANTS
    Sources,     \* the Jetstream servers
    Slack,       \* RECONNECT_SLACK_US
    MaxLag,      \* a server relays an event this long after it was emitted, at most
    ChannelCap, DedupCap,
    MaxDrops     \* bound: connections that fail or end

ASSUME SourcesAssumption ==
    /\ Sources # {}
    /\ Slack \in Nat /\ MaxLag \in Nat /\ MaxLag <= Slack + 1
    /\ ChannelCap \in Nat \ {0} /\ DedupCap \in Nat \ {0}
    /\ MaxDrops \in Nat

VARIABLES
    relayed,    \* the time_us each server gave the events it has relayed
    conn,       \* the connection worker of each server
    watermark,  \* the highest time_us received, 0 before the first
    channel,    \* the frames between the workers and the consumer
    dedup,      \* the LRU cache of keys, the least recent first
    received,   \* the events the consumer has taken from the channel
    again,      \* history: the records whose creation was given more than once
    drops

sourcesVars == <<feedVars, relayed, conn, watermark, channel, dedup, received, again, drops>>

Workers ==
    [at : {"down"}] \cup [at : {"connecting"}, live : BOOLEAN, cursor : Nat]
        \cup [at : {"open"}, pos : Nat \ {0}]

SourcesTypeOK ==
    /\ FeedTypeOK
    /\ relayed \in [Sources -> Seq(Index)]
    /\ conn \in [Sources -> Workers]
    /\ watermark \in 0 .. MaxEvents
    /\ channel \in Seq([ev : Index, time : Index]) /\ Len(channel) <= ChannelCap
    /\ dedup \in Seq(Index) /\ Len(dedup) <= DedupCap
    /\ received \subseteq Index
    /\ again \subseteq Records
    /\ drops \in 0 .. MaxDrops

SourcesInit ==
    /\ FeedInit
    /\ relayed = [s \in Sources |-> << >>]
    /\ conn = [s \in Sources |-> [at |-> "down"]]
    /\ watermark = 0
    /\ channel = << >> /\ dedup = << >> /\ received = {} /\ again = {}
    /\ drops = 0

----------------------------------------------------------------------------
(* The repositories and the Jetstream servers, which are external: each    *)
(* server relays every event, in one order.                                *)

EmitInTime(e) ==
    /\ \A s \in Sources : Len(log) - Len(relayed[s]) <= MaxLag
    /\ Emit(e)
    /\ UNCHANGED <<relayed, conn, watermark, channel, dedup, received, again, drops>>

Relay(s) ==
    /\ Len(relayed[s]) < Len(log)
    /\ relayed' = [relayed EXCEPT ![s] = Append(@, Len(log))]
    /\ UNCHANGED <<feedVars, conn, watermark, channel, dedup, received, again, drops>>

----------------------------------------------------------------------------
(* run_connection_worker *)

\* Mutants of Cursor: the watermark itself, and the instant after it.
CursorWithoutSlack(w) == w
CursorAfter(w) == w + 1

\* build_subscribe_url
Cursor(w) == IF w > Slack THEN w - Slack ELSE 0

\* The watermark is read before the connection is made.
Dial(s) ==
    /\ conn[s].at = "down"
    /\ conn' = [conn EXCEPT ![s] = [at |-> "connecting", live |-> watermark = 0,
                                    cursor |-> Cursor(watermark)]]
    /\ UNCHANGED <<feedVars, relayed, watermark, channel, dedup, received, again, drops>>

\* A server plays from the first event at the cursor, or, without one, from now on.
OpenAtCursor(s) ==
    /\ conn[s].at = "connecting"
    /\ ~conn[s].live
    /\ \E first \in 1 .. Len(relayed[s]) + 1 :
        /\ \A i \in DOMAIN relayed[s] : i < first <=> relayed[s][i] < conn[s].cursor
        /\ conn' = [conn EXCEPT ![s] = [at |-> "open", pos |-> first]]
    /\ UNCHANGED <<feedVars, relayed, watermark, channel, dedup, received, again, drops>>

OpenLive(s) ==
    /\ conn[s].at = "connecting"
    /\ conn[s].live
    /\ conn' = [conn EXCEPT ![s] = [at |-> "open", pos |-> Len(relayed[s]) + 1]]
    /\ IF Len(relayed[s]) > start THEN LiveTail(Len(relayed[s])) ELSE UNCHANGED feedVars
    /\ UNCHANGED <<relayed, watermark, channel, dedup, received, again, drops>>

\* tx.send waits while the channel is full.
Read(s) ==
    /\ conn[s].at = "open"
    /\ conn[s].pos \in DOMAIN relayed[s]
    /\ Len(channel) < ChannelCap
    /\ channel' = Append(channel, [ev |-> conn[s].pos, time |-> relayed[s][conn[s].pos]])
    /\ conn' = [conn EXCEPT ![s].pos = @ + 1]
    /\ UNCHANGED <<feedVars, relayed, watermark, dedup, received, again, drops>>

\* connect_async fails, the server closes, or the socket breaks.
Drop(s) ==
    /\ drops < MaxDrops
    /\ conn[s].at # "down"
    /\ conn' = [conn EXCEPT ![s] = [at |-> "down"]]
    /\ drops' = drops + 1
    /\ UNCHANGED <<feedVars, relayed, watermark, channel, dedup, received, again>>

----------------------------------------------------------------------------
(* The consumer of MultiSourceSubscriber.run *)

\* Mutant of Key: without the rev, a record's creation and its deletion are one.
KeyWithoutRev(i) == CHOOSE j \in DOMAIN log : log[j].rec = log[i].rec

\* dedup_key: did, collection, rkey and rev name one commit.
Key(i) == i

\* LruCache.put: the key becomes the most recent, and the oldest makes room.
Put(key) ==
    LET place == CHOOSE n \in DOMAIN dedup : dedup[n] = key
        rest  == IF Contains(dedup, key) THEN RemoveAt(dedup, place)
                 ELSE IF Len(dedup) = DedupCap THEN Tail(dedup) ELSE dedup
    IN  Append(rest, key)

Receive ==
    /\ channel # << >>
    /\ LET msg == Head(channel)
       IN  /\ watermark' = IF msg.time > watermark THEN msg.time ELSE watermark
           /\ received' = received \cup {msg.ev}
           /\ IF log[msg.ev].op = "account"
              THEN UNCHANGED <<feedVars, dedup, again>>
              ELSE /\ dedup' = Put(Key(msg.ev))
                   /\ IF Contains(dedup, Key(msg.ev)) THEN UNCHANGED <<feedVars, again>>
                      ELSE /\ Give(msg.ev)
                           /\ again' = IF log[msg.ev].op = "create" /\ msg.ev \in received
                                       THEN again \cup {log[msg.ev].rec} ELSE again
    /\ channel' = Tail(channel)
    /\ UNCHANGED <<relayed, conn, drops>>

----------------------------------------------------------------------------
SourcesNext ==
    \/ \E e \in Events : EmitInTime(e)
    \/ \E s \in Sources :
        Relay(s) \/ Dial(s) \/ OpenAtCursor(s) \/ OpenLive(s) \/ Read(s) \/ Drop(s)
    \/ Receive

SourcesSafety == SourcesInit /\ [][SourcesNext]_sourcesVars

\* A server relays what it received and answers, and the tasks of the program run on.
SourcesFairness ==
    /\ \A s \in Sources :
        WF_sourcesVars(Relay(s)) /\ WF_sourcesVars(Dial(s) \/ OpenAtCursor(s) \/ OpenLive(s) \/ Read(s))
    /\ WF_sourcesVars(Receive)

SourcesSpec == SourcesSafety /\ SourcesFairness

----------------------------------------------------------------------------
(* Properties *)

InChannel == {channel[n].ev : n \in DOMAIN channel}

\* A worker never plays past an event that no worker has brought, though all of them
\* reconnect behind the fastest server's watermark: what lies before a worker's place
\* has been received, or is in the channel, or is older than the last connection
\* without a cursor.
NothingSkipped ==
    \A s \in Sources : conn[s].at = "open" =>
        start + 1 .. conn[s].pos - 1 \subseteq received \cup InChannel

\* Once every worker has read all there is, the handlers were last given the latest
\* word on every record, however often its deletion was replayed; but for a record
\* whose creation came again after the cache had forgotten it, from a worker that
\* lagged.  That worker may drop and jump over the deletion, or find it in the cache.
ReplayEndsUpToDate ==
    (channel = << >> /\ \A s \in Sources : conn[s].at = "open" /\ conn[s].pos > Len(log))
        => UpToDateOn(Records \ again)

\* The consumer gives the handlers what CommitFeed promises: a record's creation
\* before its deletion, for any interleaving of servers, drops and replays.
FeedsInOrder == FeedSpec

\* The events end up received, but for those a connection without a cursor left behind.
EveryEventReceived == <>[](DOMAIN log \subseteq received \cup 1 .. start)

=============================================================================
