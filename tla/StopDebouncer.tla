--------------------------- MODULE StopDebouncer ----------------------------
(***************************************************************************)
(* RemoteWs.StopDebouncer (remote-ws/lib/remote_ws/stop_debouncer.ex): the *)
(* GenServer that delays a user's song.stopped.  Every key it keeps is     *)
(* per user, so one user is modelled.  Casts, calls and expired timers all *)
(* land in one mailbox, which the server works off one message at a time.  *)
(*                                                                         *)
(* The timer a schedule starts is named by that schedule, the n-th one     *)
(* being n.  Neither {:schedule, did} nor {:fire, did} carries a name in   *)
(* the code; the `ref' of the model is there for the properties, and no    *)
(* guard reads it.                                                         *)
(***************************************************************************)
EXTENDS Naturals, Sequences

CONSTANTS
    Clients,     \* the connection processes that call the server
    MaxTimers,   \* bound: schedules, hence timers, of a behaviour
    MaxMailbox   \* bound: mailbox length at which senders stop sending

ASSUME BoundsAssumption == MaxTimers \in Nat /\ MaxMailbox \in Nat

VARIABLES
    mailbox,   \* messages the server has not handled yet, oldest first
    pending,   \* state.timers[did], NoTimer when the map has no entry
    armed,     \* references of the timers still running
    issued,    \* number of schedules sent so far
    firing,    \* the timer whose fire is half done: Redis told, NATS not yet
    stops,     \* the timers whose song.stopped has been published
    answer     \* per client: its has_pending? call

debVars == <<mailbox, pending, armed, issued, firing, stops, answer>>

NoTimer == 0
Refs == 1 .. MaxTimers

Messages ==
    [op : {"schedule", "fire"}, ref : Refs]
        \cup [op : {"has_pending"}, from : Clients]
        \cup [op : {"cancel"}]

DebTypeOK ==
    /\ mailbox \in Seq(Messages)
    /\ pending \in {NoTimer} \cup Refs
    /\ armed \subseteq Refs
    /\ issued \in 0 .. MaxTimers
    /\ firing \in {NoTimer} \cup Refs
    /\ stops \subseteq Refs
    /\ answer \in [Clients -> {"none", "waiting", "yes", "no"}]

DebInit ==
    /\ mailbox = <<>>
    /\ pending = NoTimer
    /\ armed = {}
    /\ issued = 0
    /\ firing = NoTimer
    /\ stops = {}
    /\ answer = [c \in Clients |-> "none"]

-----------------------------------------------------------------------------
(* What the connection processes send.                                     *)

HasRoom == Len(mailbox) < MaxMailbox

Send(m) == mailbox' = Append(mailbox, m)

CastSchedule ==
    /\ HasRoom /\ issued < MaxTimers
    /\ issued' = issued + 1
    /\ Send([op |-> "schedule", ref |-> issued + 1])
    /\ UNCHANGED <<pending, armed, firing, stops, answer>>

CastCancel ==
    /\ HasRoom
    /\ Send([op |-> "cancel"])
    /\ UNCHANGED <<pending, armed, issued, firing, stops, answer>>

\* GenServer.call: the client blocks until the server answers.
CallHasPending(c) ==
    /\ answer[c] = "none"
    /\ HasRoom
    /\ Send([op |-> "has_pending", from |-> c])
    /\ answer' = [answer EXCEPT ![c] = "waiting"]
    /\ UNCHANGED <<pending, armed, issued, firing, stops>>

Answered(c) == answer[c] \in {"yes", "no"}

TakeAnswer(c) ==
    /\ Answered(c)
    /\ answer' = [answer EXCEPT ![c] = "none"]
    /\ UNCHANGED <<mailbox, pending, armed, issued, firing, stops>>

-----------------------------------------------------------------------------
(* The server.                                                             *)

Receive(op) ==
    /\ firing = NoTimer
    /\ mailbox # <<>>
    /\ Head(mailbox).op = op
    /\ mailbox' = Tail(mailbox)

\* handle_cast({:schedule, did}): cancel_timer, then a new timer.
HandleSchedule ==
    /\ Receive("schedule")
    /\ pending' = Head(mailbox).ref
    /\ armed' = (armed \ {pending}) \cup {pending'}
    /\ UNCHANGED <<issued, firing, stops, answer>>

\* handle_cast({:cancel, did}).  Process.cancel_timer stops a timer that is
\* still running; the message of one that expired stays in the mailbox.
HandleCancel ==
    /\ Receive("cancel")
    /\ armed' = armed \ {pending}
    /\ pending' = NoTimer
    /\ UNCHANGED <<issued, firing, stops, answer>>

\* Mutant of HandleHasPending: a {:noreply, _} instead of the {:reply, _, _}.
HandleHasPendingNoReply ==
    /\ Receive("has_pending")
    /\ UNCHANGED <<pending, armed, issued, firing, stops, answer>>

\* handle_call({:has_pending?, did}).
HandleHasPending ==
    /\ Receive("has_pending")
    /\ answer' = [answer EXCEPT ![Head(mailbox).from] =
                      IF pending # NoTimer THEN "yes" ELSE "no"]
    /\ UNCHANGED <<pending, armed, issued, firing, stops>>

\* handle_info({:fire, did}), first command: DEL ws_lastsong:<did>.
HandleFire ==
    /\ Receive("fire")
    /\ firing' = Head(mailbox).ref
    /\ UNCHANGED <<pending, armed, issued, stops, answer>>

\* Mutants of PublishStop: no Map.delete, and a server that waits for the map
\* to hold the very timer that fired.
PublishStopKeepsEntry ==
    /\ firing # NoTimer
    /\ stops' = stops \cup {firing}
    /\ firing' = NoTimer
    /\ UNCHANGED <<mailbox, pending, armed, issued, answer>>

PublishStopAwaitsEntry ==
    /\ firing # NoTimer
    /\ pending = firing
    /\ stops' = stops \cup {firing}
    /\ firing' = NoTimer
    /\ pending' = NoTimer
    /\ UNCHANGED <<mailbox, armed, issued, answer>>

\* The rest of it: publish song.stopped, then Map.delete(timers, did),
\* whichever timer the map holds by now.
PublishStop ==
    /\ firing # NoTimer
    /\ stops' = stops \cup {firing}
    /\ firing' = NoTimer
    /\ pending' = NoTimer
    /\ UNCHANGED <<mailbox, armed, issued, answer>>

\* Mutant of Expire: send_interval instead of send_after.
ExpireAndRearm(r) ==
    /\ r \in armed
    /\ HasRoom
    /\ Send([op |-> "fire", ref |-> r])
    /\ UNCHANGED <<pending, armed, issued, firing, stops, answer>>

\* The runtime: a timer's 15 seconds are over.
Expire(r) ==
    /\ r \in armed
    /\ armed' = armed \ {r}
    /\ Send([op |-> "fire", ref |-> r])
    /\ UNCHANGED <<pending, issued, firing, stops, answer>>

\* The node restarts: timers, mailbox and callers are gone.
Restart ==
    /\ mailbox' = <<>>
    /\ pending' = NoTimer
    /\ armed' = {}
    /\ firing' = NoTimer
    /\ answer' = [c \in Clients |-> "none"]
    /\ UNCHANGED <<issued, stops>>

Serve ==
    \/ HandleSchedule
    \/ HandleCancel
    \/ HandleHasPending
    \/ HandleFire
    \/ PublishStop

DebNext ==
    \/ CastSchedule
    \/ CastCancel
    \/ \E c \in Clients : CallHasPending(c) \/ TakeAnswer(c)
    \/ Serve
    \/ \E r \in Refs : Expire(r)
    \/ Restart

DebSafety == DebInit /\ [][DebNext]_debVars
-----------------------------------------------------------------------------
(* Properties.                                                             *)

Queued(op) == {mailbox[i].ref : i \in {j \in DOMAIN mailbox : mailbox[j].op = op}}

\* The stops on their way: started, or not even started yet.
Started == armed \cup Queued("fire") \cup ({firing} \ {NoTimer})
Live    == Started \cup Queued("schedule")

\* An entry of the timers map always stands for a stop that is on its way, so
\* that has_pending? can never answer true for ever: handle_resume would then
\* never take the branch that restores ws_lastsong, and the profile would stay
\* silent after every pause.
PendingIsLive == pending # NoTimer => pending \in Started

\* A scheduled stop is published at most once, and cancelling, rescheduling
\* and expiring only ever make it vanish: the debouncer implements StopTokens.
Tokens == INSTANCE StopTokens WITH live <- Live, spent <- stops, issued <- issued
AtMostOneStopPerSchedule == Tokens!Spec

\* A scheduled stop does not linger: its timer expires and is handled, or it
\* is cancelled, so a paused player's profile is eventually ended.
EveryStopSettles == \A r \in Refs : (r \in Live) ~> (r \notin Live)

\* What the moduledoc says (stop_debouncer.ex:4-6): a status=1 or a track
\* change within the window cancels the stop.  Read on the server: once a
\* cancel has emptied the map, no stop is published until one is scheduled.
CancelledStaysSilent == [][stops' # stops => pending # NoTimer]_debVars

\* What the doc of has_pending? says (stop_debouncer.ex:25): it tells whether
\* a song.stopped is pending, so a running timer has its entry in the map.
RunningTimerIsPending == armed # {} => pending # NoTimer
=============================================================================
