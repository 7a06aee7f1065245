---------------------------- MODULE MirrorSources ----------------------------
(***************************************************************************)
(* The mirror service (crates/mirror) for one listener's Last.fm source:   *)
(* putMirrorSource of the API writes the source's row and tells the        *)
(* supervisor, which keeps a poller for an enabled row; the poller asks    *)
(* Last.fm for the plays after its watermark and offers each to            *)
(* createScrobble, which answers before its call of scrobbleTrack has run. *)
(*                                                                         *)
(* Plays are numbered in the order they were played, and a watermark is    *)
(* the number of the last play seen; the provider may learn of a play      *)
(* late.  Of a call's steps those between two pollers are modelled: the    *)
(* duplicate window, the lock and the put (ScrobblePut and ScrobbleCatalog *)
(* have the rest).  The poller of ListenBrainz is the same, but runs       *)
(* without a key too.  Left out: Teal.fm, which has no pollers; a change   *)
(* of the account at Last.fm; an enrichment that gives a play another      *)
(* title in one poll than in the next.                                     *)
(***************************************************************************)
EXTENDS Naturals, FiniteSets

CONSTANTS
    Slots,          \* the places of the pollers that run at once
    NoPoller,
    Page,           \* RECENT_LIMIT
    Backfill,       \* BACKFILL_WINDOW_MS, in plays
    MaxPlays,       \* bound: plays
    MaxPuts,        \* bound: calls of putMirrorSource
    MaxFaults       \* bound: requests, calls and tasks that fail, polls cut short,
                    \* panics, restarts, locks that expire too early, late plays

ASSUME MirrorAssumption ==
    /\ NoPoller \notin Slots
    /\ Page \in Nat \ {0} /\ Backfill \in Nat
    /\ MaxPlays \in Nat /\ MaxPuts \in Nat /\ MaxFaults \in Nat

VARIABLES
    row,        \* the mirror_sources row: enabled, key and watermark
    sup,        \* the supervisor, with the row it has loaded
    inbox,      \* the messages on its subscription
    tasks,      \* TaskMap: the poller it would cancel
    pollers,    \* the poller in each slot
    plays,      \* the plays there have been
    hidden,     \* those the provider does not know of yet
    offers,     \* calls of a play that have yet to look at the duplicate window
    passed,     \* those that found no row in it
    locks,      \* Redis: the plays whose put is taken
    records,    \* the PDS: scrobble records of a play
    commits,    \* those the ingest has yet to handle
    rows,       \* plays with a scrobble row, from a record or another source
    unsaid,     \* a message was lost, or its row could not be loaded
    cut,        \* history: plays left to nobody (older than the backfill or the page,
                \* not known to the provider in time, or with a call that failed)
    lapsed,     \* history: plays whose lock expired too early
    puts, faults

mirrorVars == <<sup, inbox, tasks, pollers>>
provider   == <<plays, hidden>>
calls      == <<offers, passed, locks, records, commits, lapsed>>
apiVars    == <<calls, rows>>
vars == <<row, mirrorVars, provider, apiVars, unsaid, cut, puts, faults>>

Plays == 1 .. MaxPlays
Keys  == 0 .. MaxPuts
NoKey == 0
Rows  == [enabled : BOOLEAN, key : Keys, mark : 0 .. MaxPlays]
Dead  == [at |-> "dead"]

\* `home' is the row the poller was spawned with, `mark' its watermark; in a poll it
\* has the plays of `page' before it, and will have seen all up to `upto'.
Pollers ==
    {Dead} \cup [at : {"asleep", "backoff", "check", "offer", "touch"}, cancelled : BOOLEAN,
                 home : Rows, mark : 0 .. MaxPlays, page : SUBSET Plays, upto : 0 .. MaxPlays]

TypeOK ==
    /\ row \in Rows
    /\ sup \in [at : {"boot", "unsubscribed", "ready"}]
                 \cup [at : {"hydrating", "reconciling"}, row : Rows]
    /\ inbox \in 0 .. MaxPuts
    /\ tasks \in Slots \cup {NoPoller}
    /\ pollers \in [Slots -> Pollers]
    /\ plays \in 0 .. MaxPlays
    /\ hidden \subseteq 1 .. plays
    /\ offers \in [Plays -> Nat] /\ passed \in [Plays -> Nat]
    /\ records \in [Plays -> Nat] /\ commits \in [Plays -> Nat]
    /\ locks \subseteq Plays /\ rows \subseteq Plays
    /\ cut \subseteq Plays /\ lapsed \subseteq Plays
    /\ unsaid \in BOOLEAN
    /\ puts \in 0 .. MaxPuts /\ faults \in 0 .. MaxFaults

Init ==
    /\ row = [enabled |-> FALSE, key |-> NoKey, mark |-> 0]
    /\ sup = [at |-> "boot"]
    /\ inbox = 0 /\ tasks = NoPoller
    /\ pollers = [s \in Slots |-> Dead]
    /\ plays = 0 /\ hidden = {}
    /\ offers = [p \in Plays |-> 0] /\ passed = [p \in Plays |-> 0]
    /\ records = [p \in Plays |-> 0] /\ commits = [p \in Plays |-> 0]
    /\ locks = {} /\ rows = {} /\ cut = {} /\ lapsed = {} /\ unsaid = FALSE
    /\ puts = 0 /\ faults = 0

\* A call, a record or a row has the play, or it was left to nobody.
Seen(p) == p \in rows \cup cut \/ offers[p] > 0 \/ passed[p] > 0 \/ records[p] > 0

\* The plays of a range that are left to nobody when they are passed over.
Unseen(first, last) == {p \in first .. last : ~Seen(p)}

Fault == faults < MaxFaults /\ faults' = faults + 1

----------------------------------------------------------------------------
(* The listener and the provider                                           *)

\* Another source may have scrobbled the play, and the provider may not hear of it yet.
Play(elsewhere) ==
    /\ plays < MaxPlays
    /\ plays' = plays + 1
    /\ \/ UNCHANGED <<hidden, faults>>
       \/ Fault /\ hidden' = hidden \cup {plays'}
    /\ rows' = IF elsewhere THEN rows \cup {plays'} ELSE rows
    /\ UNCHANGED <<row, mirrorVars, calls, unsaid, cut, puts>>

Learn(p) ==
    /\ p \in hidden
    /\ hidden' = hidden \ {p}
    /\ UNCHANGED <<row, mirrorVars, plays, apiVars, unsaid, cut, puts, faults>>

----------------------------------------------------------------------------
(* putMirrorSource                                                         *)

Seed == IF plays > Backfill THEN plays - Backfill ELSE 0

Subscribed == sup.at \in {"ready", "reconciling"}

\* The call may keep, replace or clear the key.  The watermark is seeded when the source
\* goes from disabled to enabled.  The message is lost when nobody has subscribed.
PutMirrorSource(enabled, key) ==
    /\ puts < MaxPuts
    /\ puts' = puts + 1
    /\ LET seeds == enabled /\ ~row.enabled
       IN  /\ row' = [enabled |-> enabled, key |-> key, mark |-> IF seeds THEN Seed ELSE row.mark]
           /\ cut' = IF seeds THEN cut \cup Unseen(1, Seed) ELSE cut
    /\ IF Subscribed
       THEN inbox' = inbox + 1 /\ UNCHANGED unsaid
       ELSE unsaid' = TRUE /\ UNCHANGED inbox
    /\ UNCHANGED <<sup, tasks, pollers, provider, apiVars, faults>>

----------------------------------------------------------------------------
(* run and reconcile of supervisor.rs                                      *)

\* load_enabled: from here on the supervisor has the row as it is.
LoadEnabled ==
    /\ sup.at = "boot"
    /\ sup' = [at |-> "hydrating", row |-> row]
    /\ unsaid' = FALSE
    /\ UNCHANGED <<row, inbox, tasks, pollers, provider, apiVars, cut, puts, faults>>

\* spawn_for: a poller without a key returns at once (lastfm::run_user).
Spawned(r) ==
    IF r.key = NoKey THEN Dead
    ELSE [at |-> "asleep", cancelled |-> FALSE, home |-> r, mark |-> r.mark, page |-> {}, upto |-> 0]

\* Mutant of Cancelled: the old task is forgotten, not aborted.
CancelledNever(s) == pollers[s]

\* cancel_task
Cancelled(s) ==
    IF s = tasks /\ pollers[s] # Dead THEN [pollers[s] EXCEPT !.cancelled = TRUE] ELSE pollers[s]

\* The task of the row is cancelled, if there is one, and an enabled row gets another,
\* in any free slot: which one makes no difference.
Free == {s \in Slots : pollers[s] = Dead}
Reconcile(r) ==
    IF r.enabled
    THEN /\ Free # {}
         /\ tasks' = CHOOSE s \in Free : TRUE
         /\ pollers' = [t \in Slots |-> IF t = tasks' THEN Spawned(r) ELSE Cancelled(t)]
    ELSE /\ pollers' = [t \in Slots |-> Cancelled(t)]
         /\ tasks' = NoPoller

Hydrate ==
    /\ sup.at = "hydrating"
    /\ Reconcile(sup.row)
    /\ sup' = [at |-> "unsubscribed"]
    /\ UNCHANGED <<row, inbox, provider, apiVars, unsaid, cut, puts, faults>>

Subscribe ==
    /\ sup.at = "unsubscribed"
    /\ sup' = [at |-> "ready"]
    /\ UNCHANGED <<row, inbox, tasks, pollers, provider, apiVars, unsaid, cut, puts, faults>>

\* load_one comes before the old task is cancelled; when it fails the message is gone.
LoadOne ==
    /\ sup.at = "ready"
    /\ inbox > 0
    /\ inbox' = inbox - 1
    /\ \/ /\ sup' = [at |-> "reconciling", row |-> row]
          /\ UNCHANGED <<unsaid, faults>>
       \/ /\ Fault
          /\ unsaid' = TRUE
          /\ UNCHANGED sup
    /\ UNCHANGED <<row, tasks, pollers, provider, apiVars, cut, puts>>

EndReconcile ==
    /\ sup.at = "reconciling"
    /\ Reconcile(sup.row)
    /\ sup' = [at |-> "ready"]
    /\ UNCHANGED <<row, inbox, provider, apiVars, unsaid, cut, puts, faults>>

\* The process ends and is started again.
Restart ==
    /\ sup.at # "boot"
    /\ Fault
    /\ sup' = [at |-> "boot"]
    /\ inbox' = 0 /\ tasks' = NoPoller
    /\ pollers' = [s \in Slots |-> Dead]
    /\ UNCHANGED <<row, provider, apiVars, unsaid, cut, puts>>

----------------------------------------------------------------------------
(* run_user and poll_once, of the poller in slot s                         *)

At(s, step) == pollers[s] # Dead /\ pollers[s].at = step

\* The newest Page plays after the watermark that the provider knows of; those before
\* them, and those it does not know of, are passed over when this poll is done.
Fetch(s) ==
    /\ At(s, "asleep")
    /\ ~pollers[s].cancelled
    /\ LET mark  == pollers[s].mark
           known == (mark + 1 .. plays) \ hidden
           page  == {p \in known : Cardinality({q \in known : q > p}) < Page}
       IN  \E upto \in page \cup {mark} :
            /\ \A p \in page : p <= upto
            /\ pollers' = [pollers EXCEPT ![s].at = IF page = {} THEN "touch" ELSE "check",
                                          ![s].page = page, ![s].upto = upto]
            /\ cut' = cut \cup (Unseen(mark + 1, upto) \ page)
    /\ UNCHANGED <<row, sup, inbox, tasks, provider, apiVars, unsaid, puts, faults>>

\* The oldest play the poller has before it.
Due(s, p) == p \in pollers[s].page /\ \A q \in pollers[s].page : p <= q

\* To the next play, or to touch_polled after the last.
Onward(s, p) ==
    [pollers EXCEPT ![s].page = @ \ {p},
                    ![s].at = IF pollers[s].page = {p} THEN "touch" ELSE "check"]

\* dedup::already_scrobbled looks for the title the provider has.  A row may have
\* Spotify's, which the enrichment gives a play before it is offered.
Check(s, p) ==
    /\ At(s, "check")
    /\ Due(s, p)
    /\ \/ p \in rows /\ pollers' = Onward(s, p)
       \/ pollers' = [pollers EXCEPT ![s].at = "offer"]
    /\ UNCHANGED <<row, sup, inbox, tasks, provider, apiVars, unsaid, cut, puts, faults>>

\* create_scrobble: a failure is logged, and the poll goes on.
Offer(s, p) ==
    /\ At(s, "offer")
    /\ Due(s, p)
    /\ \/ /\ offers' = [offers EXCEPT ![p] = @ + 1]
          /\ UNCHANGED <<cut, faults>>
       \/ /\ Fault
          /\ cut' = cut \cup {p}
          /\ UNCHANGED offers
    /\ pollers' = Onward(s, p)
    /\ UNCHANGED <<row, sup, inbox, tasks, provider, passed, locks, records, commits, lapsed,
                   rows, unsaid, puts>>

\* The poller before its next poll, or its first after a panic.
Asleep(s, mark) ==
    [pollers EXCEPT ![s].at = "asleep", ![s].mark = mark, ![s].page = {}, ![s].upto = 0]

\* Mutant of Touch: the time of the poll, not that of the last play it saw.
TouchNow(s) ==
    /\ At(s, "touch")
    /\ row' = [row EXCEPT !.mark = plays]
    /\ pollers' = Asleep(s, plays)
    /\ UNCHANGED <<sup, inbox, tasks, provider, apiVars, unsaid, cut, puts, faults>>

\* touch_polled, and the return of poll_once.
Touch(s) ==
    /\ At(s, "touch")
    /\ row' = [row EXCEPT !.mark = pollers[s].upto]
    /\ pollers' = Asleep(s, pollers[s].upto)
    /\ UNCHANGED <<sup, inbox, tasks, provider, apiVars, unsaid, cut, puts, faults>>

\* An error of the poll, or its timeout: the poller keeps its watermark, though the
\* update of touch_polled may have gone through.
Abort(s) ==
    /\ \E step \in {"check", "offer", "touch"} : At(s, step)
    /\ Fault
    /\ pollers' = Asleep(s, pollers[s].mark)
    /\ \/ UNCHANGED row
       \/ At(s, "touch") /\ row' = [row EXCEPT !.mark = pollers[s].upto]
    /\ UNCHANGED <<sup, inbox, tasks, provider, apiVars, unsaid, cut, puts>>

\* Mutant of Panic: nobody starts it over.
PanicEnds(s) ==
    /\ pollers[s] # Dead
    /\ pollers[s].at # "backoff"
    /\ Fault
    /\ pollers' = [pollers EXCEPT ![s] = Dead]
    /\ UNCHANGED <<row, sup, inbox, tasks, provider, apiVars, unsaid, cut, puts>>

\* run_supervised starts it over, with the row it was spawned with.
Panic(s) ==
    /\ pollers[s] # Dead
    /\ pollers[s].at # "backoff"
    /\ Fault
    /\ pollers' = [pollers EXCEPT ![s].at = "backoff", ![s].page = {}, ![s].upto = 0]
    /\ UNCHANGED <<row, sup, inbox, tasks, provider, apiVars, unsaid, cut, puts>>

StartOver(s) ==
    /\ At(s, "backoff")
    /\ ~pollers[s].cancelled
    /\ pollers' = Asleep(s, pollers[s].home.mark)
    /\ UNCHANGED <<row, sup, inbox, tasks, provider, apiVars, unsaid, cut, puts, faults>>

\* A cancelled poller is dropped at an await, whose request may still take effect.
Die(s) ==
    /\ pollers[s] # Dead
    /\ pollers[s].cancelled
    /\ pollers' = [pollers EXCEPT ![s] = Dead]
    /\ UNCHANGED <<row, sup, inbox, tasks, provider, apiVars, unsaid, cut, puts, faults>>

----------------------------------------------------------------------------
(* createScrobble, whose calls of scrobbleTrack nobody waits for, and the  *)
(* ingest of what they put                                                 *)

\* Mutant of FindDuplicate: the poller has looked for a row already.
FindNoDuplicate(p) ==
    /\ offers[p] > 0
    /\ offers' = [offers EXCEPT ![p] = @ - 1]
    /\ passed' = [passed EXCEPT ![p] = @ + 1]
    /\ UNCHANGED <<row, mirrorVars, provider, locks, records, commits, lapsed, rows, unsaid,
                   cut, puts, faults>>

\* The duplicate window, which looks at rows.
FindDuplicate(p) ==
    /\ offers[p] > 0
    /\ offers' = [offers EXCEPT ![p] = @ - 1]
    /\ passed' = IF p \in rows THEN passed ELSE [passed EXCEPT ![p] = @ + 1]
    /\ UNCHANGED <<row, mirrorVars, provider, locks, records, commits, lapsed, rows, unsaid,
                   cut, puts, faults>>

\* SET scrobble-put:<did>:<song>:<time> NX EX 120, and the put of whoever has it: when
\* that fails, or the process dies before it, the key stays.
PutScrobble(p) ==
    /\ passed[p] > 0
    /\ passed' = [passed EXCEPT ![p] = @ - 1]
    /\ locks' = locks \cup {p}
    /\ \/ /\ p \in locks
          /\ UNCHANGED <<records, commits, cut, faults>>
       \/ /\ p \notin locks
          /\ records' = [records EXCEPT ![p] = @ + 1]
          /\ commits' = [commits EXCEPT ![p] = @ + 1]
          /\ UNCHANGED <<cut, faults>>
       \/ /\ p \notin locks
          /\ Fault
          /\ cut' = cut \cup {p}
          /\ UNCHANGED <<records, commits>>
    /\ UNCHANGED <<row, mirrorVars, provider, offers, lapsed, rows, unsaid, puts>>

\* Nothing but its 120 seconds releases the key.  They were too few if there is no row
\* yet for the duplicate window, or a call that is past it.
LockExpires(p) ==
    /\ p \in locks
    /\ locks' = locks \ {p}
    /\ IF p \in rows /\ passed[p] = 0
       THEN UNCHANGED <<lapsed, faults>>
       ELSE Fault /\ lapsed' = lapsed \cup {p}
    /\ UNCHANGED <<row, mirrorVars, provider, offers, passed, records, commits, rows, unsaid,
                   cut, puts>>

\* A call that fails before its put (there is no agent, the guard trips, an error) is
\* logged: the poller has had its answer.
CallFails(p) ==
    /\ Fault
    /\ \/ offers[p] > 0 /\ offers' = [offers EXCEPT ![p] = @ - 1] /\ UNCHANGED passed
       \/ passed[p] > 0 /\ passed' = [passed EXCEPT ![p] = @ - 1] /\ UNCHANGED offers
    /\ cut' = cut \cup {p}
    /\ UNCHANGED <<row, mirrorVars, provider, locks, records, commits, lapsed, rows, unsaid, puts>>

\* save_scrobble
Ingest(p) ==
    /\ commits[p] > 0
    /\ commits' = [commits EXCEPT ![p] = @ - 1]
    /\ rows' = rows \cup {p}
    /\ UNCHANGED <<row, mirrorVars, provider, offers, passed, locks, records, lapsed, unsaid,
                   cut, puts, faults>>

\* A task that fails is logged, and its commit is gone.
IngestFails(p) ==
    /\ commits[p] > 0
    /\ Fault
    /\ commits' = [commits EXCEPT ![p] = @ - 1]
    /\ cut' = cut \cup {p}
    /\ UNCHANGED <<row, mirrorVars, provider, offers, passed, locks, records, lapsed, rows,
                   unsaid, puts>>

----------------------------------------------------------------------------
Supervisor == LoadEnabled \/ Hydrate \/ Subscribe \/ LoadOne \/ EndReconcile
Poller(s)  ==
    \/ Fetch(s) \/ Touch(s) \/ StartOver(s) \/ Die(s)
    \/ \E p \in Plays : Check(s, p) \/ Offer(s, p)
Call(p)    == FindDuplicate(p) \/ PutScrobble(p)

Next ==
    \/ \E elsewhere \in BOOLEAN : Play(elsewhere)
    \/ \E p \in Plays : Learn(p)
    \/ \E enabled \in BOOLEAN, key \in {NoKey, row.key, puts + 1} : PutMirrorSource(enabled, key)
    \/ Supervisor
    \/ Restart
    \/ \E s \in Slots : Poller(s) \/ Abort(s) \/ Panic(s)
    \/ \E p \in Plays : Call(p) \/ CallFails(p) \/ LockExpires(p) \/ Ingest(p) \/ IngestFails(p)

Safety == Init /\ [][Next]_vars

\* The tasks of the processes run on, and what they ask is answered.
Fairness ==
    /\ WF_vars(Supervisor)
    /\ \A s \in Slots : WF_vars(Poller(s))
    /\ WF_vars(\E p \in Plays : Call(p) \/ Ingest(p))

Spec == Safety /\ Fairness

----------------------------------------------------------------------------
(* Properties                                                              *)

\* No watermark passes a play that nobody saw: neither the row's, which a cancelled
\* poller may still write after the next enabling seeded it, nor those of the pollers
\* and of the rows they go back to when they panic, nor the one being loaded.
NothingPassedOver ==
    LET marks == {row.mark}
                    \cup {pollers[s].mark : s \in {t \in Slots : pollers[t] # Dead}}
                    \cup {pollers[s].home.mark : s \in {t \in Slots : pollers[t] # Dead}}
                    \cup (IF sup.at \in {"hydrating", "reconciling"} THEN {sup.row.mark} ELSE {})
    IN  \A m \in marks : \A p \in 1 .. m : Seen(p)

\* However pollers overlap, repeat a poll or go back to an older watermark, and however
\* many of their calls have passed the duplicate window before the play has a row, it
\* gets one record (rocksky.rs:6-8 says that a duplicate is safe): the lock keeps them
\* apart until the window does.  It must last that long, which its 120 seconds may not.
\* Both go by the title, the same in every offer of a play (see above).
MirroredOnce == \A p \in Plays \ lapsed : records[p] <= 1

\* When the supervisor has no message before it and missed none, an enabled row has
\* one poller that is not cancelled, with the row's key, and a disabled one has none.
FollowsRow ==
    sup.at = "ready" /\ inbox = 0 /\ ~unsaid =>
        LET live == {s \in Slots : pollers[s] # Dead /\ ~pollers[s].cancelled}
        IN  IF row.enabled /\ row.key # NoKey
            THEN live = {tasks} /\ pollers[tasks].home.key = row.key
            ELSE live = {}

\* A source that stays enabled, of whose messages none was lost, ends up with every
\* play that the provider knows of scrobbled, but for those that were cut off: older
\* than the backfill or the page, learned of when a poll had gone past them, or with a
\* call, a put or an ingest that failed after the poller had its answer.
PlaysMirrored ==
    <>[](row.enabled /\ row.key # NoKey /\ ~unsaid) =>
        <>[](\A p \in (1 .. plays) \ hidden : p \in rows \cup cut)

=============================================================================
