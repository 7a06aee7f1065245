---------------------------- MODULE RockboxRouter ----------------------------
(***************************************************************************)
(* The Rockbox router (apps/rockbox-router): it gives each user a machine  *)
(* on Fly, made at the first request, and destroys those that are idle.    *)
(* One user: rows, names and coalescing are keyed by the DID, and a sweep  *)
(* takes one row after the other.                                          *)
(*                                                                         *)
(* Router processes share the table rockbox_machines and the Fly API; a    *)
(* process has its own map of calls in flight.  A call is a step for every *)
(* await.  That a stopped machine is started again, by Fly or by the       *)
(* router, changes nothing here: a machine is there or it is not.          *)
(***************************************************************************)
EXTENDS Naturals

CONSTANTS
    Routers,       \* processes of the router
    Calls,         \* requests that are handled at once
    Sweeps,        \* sweeps and admin requests that are handled at once
    Home,          \* the router that handles each of them
    NoCall,
    MaxMachines,   \* bound: machines Fly will make for the user
    MaxFaults      \* bound: crashes, failed requests, machines lost

ASSUME RouterAssumption ==
    /\ MaxMachines \in Nat /\ MaxFaults \in Nat
    /\ NoCall \notin Calls
    /\ Home \in [Calls \cup Sweeps -> Routers]

VARIABLES
    row,        \* rockbox_machines: machine_id, NoMachine without a row
    old,        \* last_used_at lies before the interval of the sweeps
    alive,      \* the user's machines at Fly
    made,       \* number of machines made; they are 1 .. made
    inflight,   \* ensure.ts: the call whose promise the map of a router holds
    call,       \* where each call is, with its machine
    sweep,      \* where each sweep or admin request is
    excused,    \* machines that a mishap took from the table (see NoOrphans)
    faults

vars == <<row, old, alive, made, inflight, call, sweep, excused, faults>>
fly  == <<alive, made>>

NoMachine == 0
Machines  == 1 .. MaxMachines
Idle      == [at |-> "idle", machine |-> NoMachine]

\* "join" waits for the promise of another call; the others are the awaits of resolve.
Resolving == {"lookup", "get", "forget", "create", "save", "wait", "touch"}

TypeOK ==
    /\ row \in {NoMachine} \cup 1 .. made
    /\ old \in BOOLEAN
    /\ alive \subseteq 1 .. made
    /\ made \in 0 .. MaxMachines
    /\ inflight \in [Routers -> Calls \cup {NoCall}]
    /\ call \in [Calls -> [at : {"idle", "join"} \cup Resolving,
                           machine : {NoMachine} \cup 1 .. made]]
    /\ sweep \in [Sweeps -> {Idle} \cup
                    [at : {"destroy", "delete"}, admin : BOOLEAN,
                     machine : {NoMachine} \cup 1 .. made]]
    /\ \A c \in Calls : call[c].at \in Resolving <=> inflight[Home[c]] = c
    /\ excused \subseteq 1 .. made
    /\ faults \in 0 .. MaxFaults

Init ==
    /\ row = NoMachine /\ old = FALSE
    /\ alive = {} /\ made = 0
    /\ inflight = [r \in Routers |-> NoCall]
    /\ call = [c \in Calls |-> Idle]
    /\ sweep = [s \in Sweeps |-> Idle]
    /\ excused = {} /\ faults = 0

-----------------------------------------------------------------------------
(* A request: ensureMachine and resolve.                                   *)

At(c, step)       == call[c].at = step
Goes(c, step)     == call' = [call EXCEPT ![c].at = step]
Takes(c, step, m) == call' = [call EXCEPT ![c].at = step, ![c].machine = m]

\* Mutant of Ask: the promise enters the map after the lookup only.
AskUncoalesced(c) ==
    /\ At(c, "idle")
    /\ Goes(c, "lookup")
    /\ inflight' = [inflight EXCEPT ![Home[c]] = c]
    /\ UNCHANGED <<row, old, fly, sweep, excused, faults>>

\* The first call of a router resolves, those that find it in flight join it.
Ask(c) ==
    /\ At(c, "idle")
    /\ IF inflight[Home[c]] = NoCall
         THEN Goes(c, "lookup") /\ inflight' = [inflight EXCEPT ![Home[c]] = c]
         ELSE Goes(c, "join") /\ UNCHANGED inflight
    /\ UNCHANGED <<row, old, fly, sweep, excused, faults>>

\* Mutant of Settle: the map keeps the promise.
SettleKept(c) ==
    /\ call' = [d \in Calls |->
                  IF d = c \/ (At(d, "join") /\ Home[d] = Home[c]) THEN Idle ELSE call[d]]
    /\ UNCHANGED inflight

\* Mutant of Settle: the promise settles for the call that made it alone.
SettleAlone(c) ==
    /\ call' = [call EXCEPT ![c] = Idle]
    /\ inflight' = [inflight EXCEPT ![Home[c]] = NoCall]

\* The promise settles, with a machine or an error: for c and for whoever joined it.
Settle(c) ==
    /\ call' = [d \in Calls |->
                  IF d = c \/ (At(d, "join") /\ Home[d] = Home[c]) THEN Idle ELSE call[d]]
    /\ inflight' = [inflight EXCEPT ![Home[c]] = NoCall]

Lookup(c) ==
    /\ At(c, "lookup")
    /\ IF row = NoMachine THEN Goes(c, "create") ELSE Takes(c, "get", row)
    /\ UNCHANGED <<row, old, fly, inflight, sweep, excused, faults>>

\* Mutant of GetRemote: the row is trusted.
GetRemoteTrusts(c) ==
    /\ At(c, "get")
    /\ Goes(c, "touch")
    /\ UNCHANGED <<row, old, fly, inflight, sweep, excused, faults>>

\* getMachine: one that is gone makes the row stale.
GetRemote(c) ==
    /\ At(c, "get")
    /\ Goes(c, IF call[c].machine \in alive THEN "touch" ELSE "forget")
    /\ UNCHANGED <<row, old, fly, inflight, sweep, excused, faults>>

Touch(c) ==
    /\ At(c, "touch")
    /\ old' = FALSE
    /\ Settle(c)
    /\ UNCHANGED <<row, fly, sweep, excused, faults>>

ForgetMachine(c) ==
    /\ At(c, "forget")
    /\ row' = NoMachine
    /\ Goes(c, "create")
    /\ UNCHANGED <<old, fly, inflight, sweep, excused, faults>>

\* provision: Fly makes a machine, or will not make another one: at a limit, or for
\* a name, which the DID determines, that a machine it has may not share.
CreateMachine(c) ==
    /\ At(c, "create")
    /\ made < MaxMachines
    /\ made' = made + 1
    /\ alive' = alive \cup {made'}
    /\ Takes(c, "save", made')
    /\ UNCHANGED <<row, old, inflight, sweep, excused, faults>>

CreateRefused(c) ==
    /\ At(c, "create")
    /\ made = MaxMachines \/ alive # {}
    /\ Settle(c)
    /\ UNCHANGED <<row, old, fly, sweep, excused, faults>>

\* A sweep, an admin request or a call of another router is under way.
Contested(c) ==
    \/ \E s \in Sweeps : sweep[s] # Idle
    \/ \E d \in Calls : Home[d] # Home[c] /\ call[d].at \in Resolving

SaveMachine(c) ==
    /\ At(c, "save")
    /\ row' = call[c].machine
    /\ old' = FALSE
    /\ Goes(c, "wait")
    /\ excused' = IF Contested(c) THEN excused \cup {row'} ELSE excused
    /\ UNCHANGED <<fly, inflight, sweep, faults>>

\* waitForStart: until it runs, or it turns out that it never will.
WaitForStart(c) ==
    /\ At(c, "wait")
    /\ Settle(c)
    /\ UNCHANGED <<row, old, fly, sweep, excused, faults>>

-----------------------------------------------------------------------------
(* The sweep of idle machines, and the deletion of a user's machine.       *)

\* A user is away for a day: nothing else takes that long.
DayPasses ==
    /\ \A c \in Calls : At(c, "idle")
    /\ \A s \in Sweeps : sweep[s] = Idle
    /\ row # NoMachine /\ ~old
    /\ old' = TRUE
    /\ UNCHANGED <<row, fly, inflight, call, sweep, excused, faults>>

SelectIdle(s) ==
    /\ sweep[s] = Idle
    /\ row # NoMachine /\ old
    /\ sweep' = [sweep EXCEPT ![s] =
                   [at |-> "destroy", admin |-> FALSE, machine |-> row]]
    /\ UNCHANGED <<row, old, fly, inflight, call, excused, faults>>

\* DELETE /admin/:did, with the machine's id or without.
AdminDelete(s) ==
    /\ sweep[s] = Idle
    /\ \E m \in {row, NoMachine} :
          sweep' = [sweep EXCEPT ![s] =
                      [at |-> IF m = NoMachine THEN "delete" ELSE "destroy",
                       admin |-> TRUE, machine |-> m]]
    /\ UNCHANGED <<row, old, fly, inflight, call, excused, faults>>

Ends(s) == sweep' = [sweep EXCEPT ![s] = Idle]

\* destroyMachine; Fly answers 404 for one that is gone, which is as good.
DestroyMachine(s) ==
    /\ sweep[s].at = "destroy"
    /\ alive' = alive \ {sweep[s].machine}
    /\ sweep' = [sweep EXCEPT ![s].at = "delete"]
    /\ UNCHANGED <<row, old, made, inflight, call, excused, faults>>

\* Another answer: the sweep leaves the row alone, the admin request goes on.
DestroyFails(s) ==
    /\ sweep[s].at = "destroy"
    /\ faults < MaxFaults
    /\ faults' = faults + 1
    /\ IF sweep[s].admin THEN sweep' = [sweep EXCEPT ![s].at = "delete"] ELSE Ends(s)
    /\ UNCHANGED <<row, old, fly, inflight, call, excused>>

\* DELETE FROM rockbox_machines WHERE did, whatever machine the row has by now.
DeleteRow(s) ==
    /\ sweep[s].at = "delete"
    /\ row' = NoMachine
    /\ excused' = IF sweep[s].admin THEN excused \cup ({row} \cap alive) ELSE excused
    /\ Ends(s)
    /\ UNCHANGED <<old, fly, inflight, call, faults>>

-----------------------------------------------------------------------------
(* What fails.                                                             *)

Fault == faults < MaxFaults /\ faults' = faults + 1

\* A machine made and not saved is in no row.
Unsaved(cs) == {call[c].machine : c \in {d \in cs : At(d, "save")}}

\* A request to Fly or Postgres fails: the promise is rejected.
CallFails(c) ==
    /\ Fault
    /\ call[c].at \in Resolving
    /\ excused' = excused \cup Unsaved({c})
    /\ Settle(c)
    /\ UNCHANGED <<row, old, fly, sweep>>

\* A router process ends, and with it its calls and sweeps.
Crash(r) ==
    /\ Fault
    /\ excused' = excused \cup Unsaved({c \in Calls : Home[c] = r})
    /\ inflight' = [inflight EXCEPT ![r] = NoCall]
    /\ call' = [c \in Calls |-> IF Home[c] = r THEN Idle ELSE call[c]]
    /\ sweep' = [s \in Sweeps |-> IF Home[s] = r THEN Idle ELSE sweep[s]]
    /\ UNCHANGED <<row, old, fly>>

\* A machine is destroyed by other hands.
LoseMachine(m) ==
    /\ Fault
    /\ m \in alive
    /\ alive' = alive \ {m}
    /\ UNCHANGED <<row, old, made, inflight, call, sweep, excused>>

-----------------------------------------------------------------------------
Resolve(c) ==
    \/ Lookup(c) \/ GetRemote(c) \/ Touch(c)
    \/ ForgetMachine(c) \/ CreateMachine(c) \/ CreateRefused(c)
    \/ SaveMachine(c) \/ WaitForStart(c)

Next ==
    \/ \E c \in Calls : Ask(c) \/ Resolve(c) \/ CallFails(c)
    \/ \E s \in Sweeps : SelectIdle(s) \/ AdminDelete(s)
    \/ \E s \in Sweeps : DestroyMachine(s) \/ DestroyFails(s) \/ DeleteRow(s)
    \/ DayPasses
    \/ \E r \in Routers : Crash(r)
    \/ \E m \in Machines : LoseMachine(m)

Safety == Init /\ [][Next]_vars

\* Requests are answered or fail, and a player asks for its next segment.
Fairness ==
    /\ \A c \in Calls : WF_vars(Resolve(c))
    /\ \A c \in Calls : WF_vars(Ask(c))

Spec == Safety /\ Fairness
-----------------------------------------------------------------------------
(* Properties.                                                             *)

InHand == {call[c].machine : c \in {d \in Calls : At(d, "save")}}

\* README.md:3, one machine for each DID: no machine runs on, and is paid for,
\* that no row and no call knows of.  Excused are a machine that was not saved
\* because its router failed, one whose row was saved while a sweep or another
\* router was at work, and one that an admin request left; so that within one
\* router, and with idle users, coalescing and the repair of rows lose none.
NoOrphans == alive \subseteq {row} \cup InHand \cup excused

\* ensure.ts:6: who joins a call in flight is answered with it, whatever fails.
CallsReturn == \A c \in Calls : ~At(c, "idle") ~> At(c, "idle")

\* ensure.ts:36-43: a row whose machine is gone is repaired as long as the
\* player asks, whatever sweeps, deletions and crashes were in between.
StaleRowsRepaired ==
    (row # NoMachine /\ row \notin alive) ~> (row = NoMachine \/ row \in alive)
=============================================================================
