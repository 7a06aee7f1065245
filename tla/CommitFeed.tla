----------------------------- MODULE CommitFeed ------------------------------
(***************************************************************************)
(* What the Jetstream subscriber promises the handlers of                  *)
(* crates/jetstream: the commits of the users' scrobbles, each at least    *)
(* once, and a record's creation before its deletion.  JetstreamSources    *)
(* implements it; CommitTasks relies on it.                                *)
(*                                                                         *)
(* An event is named by its place in `log', the order in which the         *)
(* repositories emit.  The rkey of a record is never used again.           *)
(***************************************************************************)
EXTENDS Naturals, Sequences

CONSTANTS
    Records,     \* scrobble records
    NoRecord,    \* what an event that is no commit is about
    MaxEvents    \* bound: events emitted

ASSUME FeedAssumption == MaxEvents \in Nat /\ NoRecord \notin Records

VARIABLES
    log,    \* what the repositories emitted
    last,   \* what the handlers were last given of each record
    start   \* the events before the last subscription without a cursor: they
            \* may be missed

feedVars == <<log, last, start>>

Index  == 1 .. MaxEvents
Events == [op : {"create", "delete"}, rec : Records] \cup [op : {"account"}, rec : {NoRecord}]

FeedTypeOK ==
    /\ log \in Seq(Events) /\ Len(log) <= MaxEvents
    /\ last \in [Records -> {"none", "create", "delete"}]
    /\ start \in 0 .. MaxEvents

FeedInit ==
    /\ log = << >>
    /\ last = [r \in Records |-> "none"]
    /\ start = 0

Emitted(op, r)    == \E i \in DOMAIN log : log[i] = [op |-> op, rec |-> r]
Promised(op, r)   == \E i \in DOMAIN log : log[i] = [op |-> op, rec |-> r] /\ i > start

\* A record is created once, and deleted at most once; other frames come between.
Emit(e) ==
    /\ Len(log) < MaxEvents
    /\ e.op = "create" => ~Emitted("create", e.rec)
    /\ e.op = "delete" => Emitted("create", e.rec) /\ ~Emitted("delete", e.rec)
    /\ log' = Append(log, e)
    /\ UNCHANGED <<last, start>>

\* The handlers are given the commit of event i.
Give(i) ==
    /\ last' = [last EXCEPT ![log[i].rec] = log[i].op]
    /\ UNCHANGED <<log, start>>

\* They have seen the creation of what they are told was deleted.
Hand(i) ==
    /\ i \in DOMAIN log
    /\ log[i].op # "account"
    /\ log[i].op = "delete" /\ Promised("create", log[i].rec) => last[log[i].rec] # "none"
    /\ Give(i)

\* A subscription without a cursor plays from now on.
LiveTail(n) ==
    /\ n \in start + 1 .. Len(log)
    /\ start' = n
    /\ UNCHANGED <<log, last>>

FeedNext ==
    \/ \E e \in Events : Emit(e)
    \/ \E i \in Index : Hand(i)
    \/ \E n \in Index : LiveTail(n)

FeedSpec == FeedInit /\ [][FeedNext]_feedVars

\* The handlers have the latest word on the records rs, those they were promised.
UpToDateOn(rs) ==
    \A r \in rs : Promised("create", r) =>
        last[r] = IF Emitted("delete", r) THEN "delete" ELSE "create"

UpToDate == UpToDateOn(Records)

=============================================================================
