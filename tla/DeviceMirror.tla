---------------------------- MODULE DeviceMirror -----------------------------
(***************************************************************************)
(* The controller side of the remote-control service: what a user's web    *)
(* and mobile miniplayers know of the user's players.  Players push their  *)
(* track and queue; the server (remote-ws) relays each push to the user's  *)
(* registered connections and hands a new controller a snapshot;           *)
(* controllers choose the primary device and send commands.  One user.     *)
(*                                                                         *)
(* A broadcast is not atomic: Devices.broadcast looks the registry up and  *)
(* then sends to one connection after the other, so that the steps of      *)
(* other connections come in between.  Each connection process has its     *)
(* handler's remaining commands in todo[d]; inbox[d] is its mailbox and    *)
(* socket, in order.  Frames a client ignores are not sent to it: players  *)
(* act on commands only, controllers on everything else.                   *)
(*                                                                         *)
(* A player is one connection and gets a new device id when it reconnects; *)
(* a controller keeps its view across the reconnects of its SDK.  Left     *)
(* out: status frames and the contents of queues, which change what an     *)
(* entry of the view shows and never which entries there are; the profile, *)
(* which RemoteWs models.                                                  *)
(***************************************************************************)
EXTENDS Naturals, Sequences, FiniteSets

CONSTANTS
    Players, Controllers,
    Tracks,
    NoTrack, NoDevice,
    MaxInbox,    \* bound: frames on their way to one connection
    MaxJoins,    \* bound: registrations of one controller
    MaxPicks,    \* bound: selections and commands of one controller
    MaxExpiries  \* bound: expiries of a cached now-playing

ASSUME MirrorAssumption ==
    /\ NoTrack \notin Tracks
    /\ Players \cap Controllers = {}
    /\ NoDevice \notin Players \cup Controllers
    /\ MaxInbox \in Nat /\ MaxJoins \in Nat /\ MaxPicks \in Nat /\ MaxExpiries \in Nat

VARIABLES
    conn,      \* per connection: "away", "up" (registered), "gone"
    primary,   \* Redis primary_device:<did>
    np,        \* Redis np:<did>:<device>
    playing,   \* per player: the track it last pushed
    todo,      \* per connection: what its handler still has to do
    inbox,     \* per connection: the frames on their way to its client
    seen,      \* per controller: the snapshot its register has read so far
    view,      \* per controller: devicesAtom, its device list
    active,    \* per controller: activeDeviceIdAtom
    crossed,   \* history: the last SET crossed another one's announcement, or
               \* an announcement was cut short since
    omitted,   \* history: controllers whose snapshot left the primary out, since
               \* the last SET
    joins, picks, expiries

bounds  == <<joins, picks, expiries>>
clients == <<view, active>>
history == <<crossed, omitted>>
vars    == <<conn, primary, np, playing, todo, inbox, seen, clients, history, bounds>>

Peers == Players \cup Controllers

Entry == Tracks \cup {NoTrack}           \* NoTrack: nowPlaying is null
Views == UNION {[S -> Entry] : S \in SUBSET Players}

StateFrames ==
    [kind : {"track"}, device : Players, track : Tracks]
        \cup [kind : {"queue", "unregistered", "primary"}, device : Players]
CommandFrames  == [kind : {"command"}, aim : Players \cup {NoDevice}]
SnapshotFrames == [kind : {"devices"}, primary : Players \cup {NoDevice}, devices : Views]
Frames == StateFrames \cup CommandFrames \cup SnapshotFrames

Commands ==
    [op : {"ensure", "forget", "leave", "clear", "die", "read", "reply"}]
        \cup [op : {"set"}, device : Players]
        \cup [op : {"list"}, frame : StateFrames \cup CommandFrames]
        \cup [op : {"send"}, frame : StateFrames \cup CommandFrames, to : SUBSET Peers]
        \cup [op : {"relay"}, aim : Players \cup {NoDevice}]
        \cup [op : {"fetch"}, from : SUBSET Players]

TypeOK ==
    /\ conn \in [Peers -> {"away", "up", "gone"}]
    /\ primary \in Players \cup {NoDevice}
    /\ np \in [Players -> Entry]
    /\ playing \in [Players -> Entry]
    /\ todo \in [Peers -> Seq(Commands)]
    /\ inbox \in [Peers -> Seq(Frames)]
    /\ seen \in [Controllers -> Views]
    /\ view \in [Controllers -> Views]
    /\ active \in [Controllers -> Players \cup {NoDevice}]
    /\ crossed \in BOOLEAN
    /\ omitted \subseteq Controllers
    /\ joins \in [Controllers -> 0 .. MaxJoins]
    /\ picks \in [Controllers -> 0 .. MaxPicks]
    /\ expiries \in 0 .. MaxExpiries

NoEntries == [p \in {} |-> NoTrack]

Init ==
    /\ conn = [d \in Peers |-> "away"]
    /\ primary = NoDevice
    /\ np = [p \in Players |-> NoTrack]
    /\ playing = [p \in Players |-> NoTrack]
    /\ todo = [d \in Peers |-> <<>>]
    /\ inbox = [d \in Peers |-> <<>>]
    /\ seen = [c \in Controllers |-> NoEntries]
    /\ view = [c \in Controllers |-> NoEntries]
    /\ active = [c \in Controllers |-> NoDevice]
    /\ crossed = FALSE
    /\ omitted = {}
    /\ joins = [c \in Controllers |-> 0]
    /\ picks = [c \in Controllers |-> 0]
    /\ expiries = 0

-----------------------------------------------------------------------------
(* Handlers: a handler begins with its list of commands and works it off.  *)

Idle(d) == conn[d] = "up" /\ todo[d] = <<>>

Begin(d, commands) == todo' = [todo EXCEPT ![d] = commands]

\* The next command of d is an op, and commands take its place.
Run(d, op)            == todo[d] # <<>> /\ Head(todo[d]).op = op
Replace(d, commands)  == todo' = [todo EXCEPT ![d] = commands \o Tail(todo[d])]
Done(d)               == Replace(d, <<>>)

Tell(frame) == <<[op |-> "list", frame |-> frame]>>

PrimaryFrame(p) == [kind |-> "primary", device |-> p]

\* d is about to tell, or is telling, who the primary is.
Announces(d) ==
    \E i \in DOMAIN todo[d] :
        todo[d][i].op \in {"list", "send"} /\ todo[d][i].frame.kind = "primary"

\* Mutant of Audience: a connection is registered once its register returned.
AudienceOfIdle(frame) ==
    {d \in IF frame.kind = "command" THEN Players ELSE Controllers :
        conn[d] = "up" /\ todo[d] = <<>>}

\* The registered connections whose clients act on a frame.
Audience(frame) ==
    {d \in IF frame.kind = "command" THEN Players ELSE Controllers : conn[d] = "up"}

\* Devices.broadcast looks the registry up ...
List(d) ==
    /\ Run(d, "list")
    /\ LET frame == Head(todo[d]).frame
           to    == Audience(frame)
       IN  Replace(d, IF to = {} THEN <<>>
                      ELSE <<[op |-> "send", frame |-> frame, to |-> to]>>)
    /\ UNCHANGED <<conn, primary, np, playing, inbox, seen, clients, history, bounds>>

\* ... and sends to one connection at a time.
SendTo(d, r) ==
    /\ Run(d, "send")
    /\ LET send == Head(todo[d]) IN
       /\ r \in send.to
       /\ Len(inbox[r]) < MaxInbox
       /\ inbox' = [inbox EXCEPT ![r] = Append(@, send.frame)]
       /\ Replace(d, IF send.to = {r} THEN <<>>
                     ELSE <<[send EXCEPT !.to = @ \ {r}]>>)
    /\ UNCHANGED <<conn, primary, np, playing, seen, clients, history, bounds>>

\* A process that ends takes its mailbox along, and what others send it is lost.
Without(commands, d) ==
    [i \in DOMAIN commands |->
        IF commands[i].op = "send" THEN [commands[i] EXCEPT !.to = @ \ {d}] ELSE commands[i]]

SendToNobody(d) ==
    /\ Run(d, "send")
    /\ Head(todo[d]).to = {}
    /\ Done(d)
    /\ UNCHANGED <<conn, primary, np, playing, inbox, seen, clients, history, bounds>>

EndProcess(d, state) ==
    /\ conn' = [conn EXCEPT ![d] = state]
    /\ inbox' = [inbox EXCEPT ![d] = <<>>]
    /\ todo' = [e \in Peers |-> IF e = d THEN <<>> ELSE Without(todo[e], d)]
    /\ crossed' = (crossed \/ Announces(d))
    /\ UNCHANGED omitted

-----------------------------------------------------------------------------
(* Players.                                                                *)

\* A player registers: nobody acts on device_registered or its snapshot.
PlayerRegister(p) ==
    /\ conn[p] = "away"
    /\ conn' = [conn EXCEPT ![p] = "up"]
    /\ UNCHANGED <<primary, np, playing, todo, inbox, seen, clients, history, bounds>>

\* device_message, a track: cache it, ensure a primary, then broadcast.
PushTrack(p, t) ==
    /\ Idle(p)
    /\ playing' = [playing EXCEPT ![p] = t]
    /\ np' = [np EXCEPT ![p] = t]
    /\ Begin(p, <<[op |-> "ensure"]>> \o Tell([kind |-> "track", device |-> p, track |-> t]))
    /\ UNCHANGED <<conn, primary, inbox, seen, clients, history, bounds>>

\* device_message, a queue: cached for snapshots, then broadcast.
PushQueue(p) ==
    /\ Idle(p)
    /\ Begin(p, Tell([kind |-> "queue", device |-> p]))
    /\ UNCHANGED <<conn, primary, np, playing, inbox, seen, clients, history, bounds>>

\* ensure_primary, its two reads taken as one step.
EnsurePrimary(p) ==
    /\ Run(p, "ensure")
    /\ IF primary = NoDevice \/ conn[primary] # "up"
         THEN Replace(p, <<[op |-> "set", device |-> p]>>)
         ELSE Done(p)
    /\ UNCHANGED <<conn, primary, np, playing, inbox, seen, clients, history, bounds>>

\* SET primary_device, then broadcast_primary; of ensure_primary and set_primary.
SetPrimary(d) ==
    /\ Run(d, "set")
    /\ LET p == Head(todo[d]).device IN
       /\ primary' = p
       /\ Replace(d, Tell(PrimaryFrame(p)))
    /\ crossed' = \E e \in Peers \ {d} : Announces(e)
    /\ omitted' = {}
    /\ UNCHANGED <<conn, np, playing, inbox, seen, clients, bounds>>

\* terminate: Handler.on_disconnect, and then the registry entry goes.
PlayerLeave(p) ==
    /\ Idle(p)
    /\ Begin(p, Tell([kind |-> "unregistered", device |-> p])
                  \o <<[op |-> "forget"], [op |-> "leave"], [op |-> "die"]>>)
    /\ UNCHANGED <<conn, primary, np, playing, inbox, seen, clients, history, bounds>>

Forget(p) ==
    /\ Run(p, "forget")
    /\ np' = [np EXCEPT ![p] = NoTrack]
    /\ Done(p)
    /\ UNCHANGED <<conn, primary, playing, inbox, seen, clients, history, bounds>>

\* on_disconnect: the primary, if it is still this device ...
LeavePrimary(p) ==
    /\ Run(p, "leave")
    /\ Replace(p, IF primary = p THEN <<[op |-> "clear"]>> ELSE <<>>)
    /\ UNCHANGED <<conn, primary, np, playing, inbox, seen, clients, history, bounds>>

\* ... is deleted, whichever it is by now.
ClearPrimary(p) ==
    /\ Run(p, "clear")
    /\ primary' = NoDevice
    /\ Done(p)
    /\ UNCHANGED <<conn, np, playing, inbox, seen, clients, history, bounds>>

Die(p) ==
    /\ Run(p, "die")
    /\ EndProcess(p, "gone")
    /\ UNCHANGED <<primary, np, playing, seen, clients, bounds>>

\* A player executes the command it is sent.
Execute(p) ==
    /\ inbox[p] # <<>>
    /\ inbox' = [inbox EXCEPT ![p] = Tail(@)]
    /\ UNCHANGED <<conn, primary, np, playing, todo, seen, clients, history, bounds>>

\* np:<did>:<device> is not pushed again for 30 seconds.
Expire(p) ==
    /\ expiries < MaxExpiries
    /\ np[p] # NoTrack
    /\ expiries' = expiries + 1
    /\ np' = [np EXCEPT ![p] = NoTrack]
    /\ UNCHANGED <<conn, primary, playing, todo, inbox, seen, clients, history, joins, picks>>

-----------------------------------------------------------------------------
(* Controllers: their connection.                                          *)

\* register, first half: the registry entry.  What is broadcast from here on
\* waits in the mailbox until the reply and the snapshot are pushed.
Join(c) ==
    /\ conn[c] = "away"
    /\ joins[c] < MaxJoins
    /\ joins' = [joins EXCEPT ![c] = @ + 1]
    /\ conn' = [conn EXCEPT ![c] = "up"]
    /\ Begin(c, <<[op |-> "read"]>>)
    /\ UNCHANGED <<primary, np, playing, inbox, seen, clients, history, picks, expiries>>

\* devices_snapshot: Devices.metas, then a GET of each device's now-playing ...
ReadMetas(c) ==
    /\ Run(c, "read")
    /\ Replace(c, <<[op |-> "fetch", from |-> {p \in Players : conn[p] = "up"}],
                    [op |-> "reply"]>>)
    /\ seen' = [seen EXCEPT ![c] = NoEntries]
    /\ UNCHANGED <<conn, primary, np, playing, inbox, clients, history, bounds>>

Put(entries, p, t) ==
    [q \in DOMAIN entries \cup {p} |-> IF q = p THEN t ELSE entries[q]]

FetchNowPlaying(c, p) ==
    /\ Run(c, "fetch")
    /\ LET fetch == Head(todo[c]) IN
       /\ p \in fetch.from
       /\ Replace(c, <<[fetch EXCEPT !.from = @ \ {p}]>>)
    /\ seen' = IF np[p] = NoTrack THEN seen
               ELSE [seen EXCEPT ![c] = Put(@, p, np[p])]
    /\ UNCHANGED <<conn, primary, np, playing, inbox, clients, history, bounds>>

\* ... and one of the primary.  The handler returns, and its frames are pushed
\* to the socket before anything that waits in the mailbox.
Reply(c) ==
    /\ todo[c] = <<[op |-> "fetch", from |-> {}], [op |-> "reply"]>>
    /\ inbox' = [inbox EXCEPT ![c] =
                    <<[kind |-> "devices", primary |-> primary, devices |-> seen[c]]>> \o @]
    /\ seen' = [seen EXCEPT ![c] = NoEntries]
    /\ Begin(c, <<>>)
    /\ omitted' = IF primary \in DOMAIN seen[c] THEN omitted \ {c} ELSE omitted \cup {c}
    /\ UNCHANGED <<conn, primary, np, playing, clients, crossed, bounds>>

\* The socket drops, from whichever side; the SDK will open another.
Drop(c) ==
    /\ conn[c] = "up"
    /\ EndProcess(c, "away")
    /\ seen' = [seen EXCEPT ![c] = NoEntries]
    /\ UNCHANGED <<primary, np, playing, clients, bounds>>

-----------------------------------------------------------------------------
(* Controllers: the miniplayer.                                            *)

Receiving(c) == inbox[c] # <<>> /\ todo[c] = <<>>

\* Mutant of TakeSnapshot: the list without its primary.
TakeSnapshotList(c, f) ==
    /\ f.kind = "devices"
    /\ view' = [view EXCEPT ![c] = f.devices]
    /\ UNCHANGED active

\* devices: replace the list; adopt the primary if the list has it.
TakeSnapshot(c, f) ==
    /\ f.kind = "devices"
    /\ view' = [view EXCEPT ![c] = f.devices]
    /\ active' = IF f.primary \in DOMAIN f.devices
                   THEN [active EXCEPT ![c] = f.primary] ELSE active

\* Mutant of TakeTrack: like a status, a track updates known players only.
TakeTrackOfKnown(c, f) ==
    /\ f.kind = "track"
    /\ view' = IF f.device \in DOMAIN view[c]
                 THEN [view EXCEPT ![c] = Put(@, f.device, f.track)] ELSE view
    /\ UNCHANGED active

TakeTrack(c, f) ==
    /\ f.kind = "track"
    /\ view' = [view EXCEPT ![c] = Put(@, f.device, f.track)]
    /\ UNCHANGED active

TakeQueue(c, f) ==
    /\ f.kind = "queue"
    /\ view' = IF f.device \in DOMAIN view[c] THEN view
               ELSE [view EXCEPT ![c] = Put(@, f.device, NoTrack)]
    /\ UNCHANGED active

\* Mutant of TakeUnregistered: the entry is blanked, not deleted.
TakeUnregisteredBlanks(c, f) ==
    /\ f.kind = "unregistered"
    /\ view' = [view EXCEPT ![c] = Put(@, f.device, NoDevice)]
    /\ active' = IF active[c] = f.device THEN [active EXCEPT ![c] = NoDevice] ELSE active

TakeUnregistered(c, f) ==
    /\ f.kind = "unregistered"
    /\ view' = [view EXCEPT ![c] = [p \in DOMAIN @ \ {f.device} |-> @[p]]]
    /\ active' = IF active[c] = f.device THEN [active EXCEPT ![c] = NoDevice] ELSE active

TakePrimary(c, f) ==
    /\ f.kind = "primary"
    /\ active' = [active EXCEPT ![c] = f.device]
    /\ UNCHANGED view

Take(c) ==
    /\ Receiving(c)
    /\ LET f == Head(inbox[c]) IN
         \/ TakeSnapshot(c, f) \/ TakeTrack(c, f) \/ TakeQueue(c, f)
         \/ TakeUnregistered(c, f) \/ TakePrimary(c, f)
    /\ inbox' = [inbox EXCEPT ![c] = Tail(@)]
    /\ UNCHANGED <<conn, primary, np, playing, todo, seen, history, bounds>>

\* selectDevice: active at once, then a set_primary frame; the SDK's send drops
\* the frame when the socket is not open.
Pick(c, p) ==
    /\ picks[c] < MaxPicks
    /\ p \in DOMAIN view[c]
    /\ todo[c] = <<>>
    /\ picks' = [picks EXCEPT ![c] = @ + 1]
    /\ active' = [active EXCEPT ![c] = p]
    /\ IF conn[c] = "up" THEN Begin(c, <<[op |-> "set", device |-> p]>>) ELSE UNCHANGED todo
    /\ UNCHANGED <<conn, primary, np, playing, inbox, seen, view, history, joins, expiries>>

\* A button of the miniplayer: a command for the active device.
Press(c) ==
    /\ picks[c] < MaxPicks
    /\ active[c] # NoDevice
    /\ Idle(c)
    /\ picks' = [picks EXCEPT ![c] = @ + 1]
    /\ Begin(c, <<[op |-> "relay", aim |-> active[c]]>>)
    /\ UNCHANGED <<conn, primary, np, playing, inbox, seen, clients, history, joins, expiries>>

\* command: send_to the target when it is registered, else broadcast.
Relay(c) ==
    /\ Run(c, "relay")
    /\ LET aim   == Head(todo[c]).aim
           frame == [kind |-> "command", aim |-> aim]
       IN  Replace(c, IF aim # NoDevice /\ conn[aim] = "up"
                        THEN <<[op |-> "send", frame |-> frame, to |-> {aim}]>>
                        ELSE Tell(frame))
    /\ UNCHANGED <<conn, primary, np, playing, inbox, seen, clients, history, bounds>>

-----------------------------------------------------------------------------
Proceed(d) ==
    \/ List(d) \/ SendToNobody(d) \/ \E r \in Peers : SendTo(d, r)
    \/ SetPrimary(d)

PlayerStep(p) ==
    \/ PlayerRegister(p) \/ PushQueue(p) \/ PlayerLeave(p) \/ Expire(p)
    \/ \E t \in Tracks : PushTrack(p, t)

PlayerProceed(p) ==
    \/ Proceed(p) \/ EnsurePrimary(p) \/ Forget(p) \/ LeavePrimary(p)
    \/ ClearPrimary(p) \/ Die(p) \/ Execute(p)

ControllerStep(c) ==
    \/ Drop(c) \/ Press(c)
    \/ \E p \in Players : Pick(c, p)

ControllerProceed(c) ==
    \/ Proceed(c) \/ ReadMetas(c) \/ Reply(c) \/ Relay(c)
    \/ \E p \in Players : FetchNowPlaying(c, p)

Next ==
    \/ \E p \in Players : PlayerStep(p) \/ PlayerProceed(p)
    \/ \E c \in Controllers : Join(c) \/ ControllerStep(c) \/ ControllerProceed(c) \/ Take(c)

Safety == Init /\ [][Next]_vars

\* Handlers go on, sockets deliver, the SDK reconnects, and a player that is
\* not stopped pushes its track every few seconds.
Fairness ==
    /\ \A p \in Players :
          WF_vars(PlayerProceed(p)) /\ WF_vars(\E t \in Tracks : PushTrack(p, t))
    /\ \A c \in Controllers :
          WF_vars(ControllerProceed(c)) /\ WF_vars(Take(c)) /\ WF_vars(Join(c))

Spec == Safety /\ Fairness
-----------------------------------------------------------------------------
(* Properties.                                                             *)

Quiet ==
    \A d \in Peers : todo[d] = <<>> /\ inbox[d] = <<>>

\* No push is lost between the snapshot and the broadcasts: once nothing is on
\* its way, a connected controller lists every connected player that pushed a
\* track and has it cached, with the track it pushed last.
ViewsCatchUp ==
    Quiet => \A c \in Controllers, p \in Players :
        conn[c] = "up" /\ conn[p] = "up" /\ np[p] # NoTrack
            => p \in DOMAIN view[c] /\ view[c][p] = playing[p]

\* A player that stays and keeps pushing appears, for good, in the list of a
\* controller that stays.
PlayersAppear ==
    \A c \in Controllers, p \in Players :
        <>[](conn[c] = "up" /\ conn[p] = "up") => <>[](p \in DOMAIN view[c])

\* PROTOCOL.md:43-44 and now_playing.ex:122-123: every one of the user's
\* clients converges on the same active device, the primary: each connected
\* controller that lists it, unless the last SET crossed the announcement of
\* another, was not announced to the end, or came before a snapshot that
\* left its device out.
ClientsConverge ==
    Quiet /\ ~crossed => \A c \in Controllers \ omitted :
        conn[c] = "up" /\ primary \in DOMAIN view[c] => active[c] = primary

\* atoms/devices.ts:32-34: the list holds the connected players.  Once nothing
\* is on its way, a connected controller lists no player that has left.
NoGhosts ==
    Quiet => \A c \in Controllers :
        conn[c] = "up" => \A p \in DOMAIN view[c] : conn[p] = "up"

\* PROTOCOL.md 4.3: a command with a target is sent only to that device.
CommandsOnTarget ==
    \A p \in Players, i \in 1 .. MaxInbox :
        i \in DOMAIN inbox[p] => inbox[p][i].aim \in {p, NoDevice}
=============================================================================
