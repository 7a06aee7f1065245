---------------------------- MODULE RockboxProofs ----------------------------
(***************************************************************************)
(* Proofs about RockboxRouter, for any number of routers, of calls and     *)
(* sweeps at them, of machines and of faults.                              *)
(***************************************************************************)
EXTENDS RockboxRouter, TLAPS

Steps      == {"idle", "join"} \cup Resolving
Works(n)   == [at : Steps, machine : {NoMachine} \cup 1 .. n]
Chores(n)  == {Idle} \cup [at : {"destroy", "delete"}, admin : BOOLEAN,
                           machine : {NoMachine} \cup 1 .. n]

\* A machine to save is one that Fly has made.
SavesMade == \A c \in Calls : At(c, "save") => call[c].machine \in 1 .. made

\* Of the calls at one router, the one whose promise its map holds resolves.
OneResolves == \A c \in Calls : call[c].at \in Resolving <=> inflight[Home[c]] = c

LEMMA TypeFacts ==
    TypeOK <=> /\ row \in {NoMachine} \cup 1 .. made
               /\ old \in BOOLEAN
               /\ alive \subseteq 1 .. made
               /\ made \in 0 .. MaxMachines
               /\ inflight \in [Routers -> Calls \cup {NoCall}]
               /\ call \in [Calls -> Works(made)]
               /\ sweep \in [Sweeps -> Chores(made)]
               /\ OneResolves
               /\ excused \subseteq 1 .. made
               /\ faults \in 0 .. MaxFaults
BY DEF TypeOK, Works, Chores, Steps, OneResolves

LEMMA TypesNext ==
    ASSUME row' \in {NoMachine} \cup 1 .. made', old' \in BOOLEAN, alive' \subseteq 1 .. made',
           made' \in 0 .. MaxMachines, inflight' \in [Routers -> Calls \cup {NoCall}],
           call' \in [Calls -> Works(made')], sweep' \in [Sweeps -> Chores(made')],
           OneResolves', excused' \subseteq 1 .. made', faults' \in 0 .. MaxFaults
    PROVE  TypeOK'
BY DEF TypeOK, Works, Chores, Steps, OneResolves

-----------------------------------------------------------------------------
(* Calls.                                                                  *)

\* A call that resolves and takes another step still resolves, alone at its router.
LEMMA CallMoves ==
    ASSUME TypeOK, NEW c \in Calls, call[c].at \in Resolving,
           NEW step \in Resolving, NEW m \in {NoMachine} \cup 1 .. made', made' \in Nat, made <= made',
           Takes(c, step, m), UNCHANGED inflight
    PROVE  /\ call' \in [Calls -> Works(made')] /\ OneResolves'
           /\ call'[c].at = step /\ call'[c].machine = m
           /\ \A d \in Calls \ {c} : call'[d] = call[d]
<1>1. call \in [Calls -> Works(made)] /\ OneResolves
  BY TypeFacts
<1>2. Works(made) \subseteq Works(made') /\ made \in Nat
  BY RouterAssumption DEF Works, TypeOK
<1>3. step \in Steps
  BY DEF Steps
<1>4. call[c] \in Works(made')
  BY <1>1, <1>2
<1>5. [call[c] EXCEPT !.at = step, !.machine = m] \in Works(made')
  BY <1>3, <1>4 DEF Works
<1>6. /\ call' = [call EXCEPT ![c] = [call[c] EXCEPT !.at = step, !.machine = m]]
  BY DEF Takes
<1>7. call' \in [Calls -> Works(made')] /\ \A d \in Calls \ {c} : call'[d] = call[d]
  BY <1>1, <1>2, <1>5, <1>6
<1>8. call'[c].at = step /\ call'[c].machine = m
  BY <1>1, <1>4, <1>6 DEF Works
<1>9. OneResolves'
  BY <1>1, <1>7, <1>8 DEF OneResolves
<1> QED
  BY <1>7, <1>8, <1>9

LEMMA CallGoes ==
    ASSUME TypeOK, NEW c \in Calls, NEW step, Goes(c, step)
    PROVE  Takes(c, step, call[c].machine) /\ call[c].machine \in {NoMachine} \cup 1 .. made
<1>1. call \in [Calls -> Works(made)]
  BY TypeFacts
<1>2. call[c] \in Works(made)
  BY <1>1
<1>3. [call[c] EXCEPT !.at = step, !.machine = call[c].machine] = [call[c] EXCEPT !.at = step]
  BY <1>2 DEF Works
<1>4. call' = [call EXCEPT ![c] = [call[c] EXCEPT !.at = step]]
  BY DEF Goes
<1> QED
  BY <1>2, <1>3, <1>4 DEF Takes, Works

LEMMA CallSettles ==
    ASSUME TypeOK, NEW c \in Calls, call[c].at \in Resolving, Settle(c), UNCHANGED made
    PROVE  /\ call' \in [Calls -> Works(made')] /\ OneResolves'
           /\ inflight' \in [Routers -> Calls \cup {NoCall}]
           /\ call'[c] = Idle
           /\ \A d \in Calls : call'[d] = call[d] \/ call'[d] = Idle
           /\ \A d \in Calls \ {c} : call[d].at \in Resolving => call'[d] = call[d]
<1>1. call \in [Calls -> Works(made)] /\ OneResolves /\ inflight \in [Routers -> Calls \cup {NoCall}]
  BY TypeFacts
<1>2. Idle \in Works(made) /\ Idle.at \notin Resolving /\ "join" \notin Resolving
  BY DEF Works, Idle, Steps, Resolving
<1>3. /\ \A d \in Calls : call'[d] = IF d = c \/ (At(d, "join") /\ Home[d] = Home[c]) THEN Idle ELSE call[d]
      /\ call' \in [Calls -> Works(made')]
  BY <1>1, <1>2 DEF Settle
<1>4. Home[c] \in Routers /\ \A d \in Calls : Home[d] \in Routers
  BY RouterAssumption
<1>5. /\ inflight' \in [Routers -> Calls \cup {NoCall}]
      /\ \A r \in Routers : inflight'[r] = IF r = Home[c] THEN NoCall ELSE inflight[r]
  BY <1>1, <1>4 DEF Settle
<1>6. ASSUME NEW d \in Calls PROVE call'[d].at \in Resolving <=> inflight'[Home[d]] = d
  <2>1. CASE Home[d] = Home[c]
    <3>1. inflight'[Home[d]] # d
      BY <1>4, <1>5, <2>1, RouterAssumption
    <3>2. inflight[Home[c]] = c
      BY <1>1 DEF OneResolves
    <3>3. d = c \/ call[d].at \notin Resolving
      BY <1>1, <2>1, <3>2 DEF OneResolves
    <3>4. call'[d].at \notin Resolving
      BY <1>2, <1>3, <3>3
    <3> QED
      BY <3>1, <3>4
  <2>2. CASE Home[d] # Home[c]
    BY <1>1, <1>3, <1>4, <1>5, <2>2 DEF OneResolves
  <2> QED
    BY <2>1, <2>2
<1> QED
  BY <1>2, <1>3, <1>5, <1>6 DEF OneResolves, At

-----------------------------------------------------------------------------
(* Why no machine is orphaned: whoever is about to make, save or destroy   *)
(* one acts on what the row says, or nothing is lost with the row.         *)

\* The row can be deleted, or given to another machine.
Harmless == row \notin alive \ excused

CallsKnow ==
    \A c \in Calls :
        /\ At(c, "get") => row = call[c].machine \/ Harmless
        /\ call[c].at \in {"forget", "create", "save"} => Harmless

SweepsKnow ==
    \A s \in Sweeps : sweep[s] # Idle /\ ~sweep[s].admin =>
        /\ sweep[s].at = "destroy" => row = sweep[s].machine \/ Harmless
        /\ sweep[s].at = "delete" => Harmless

OrphanInv == TypeOK /\ NoOrphans /\ CallsKnow /\ SweepsKnow

-----------------------------------------------------------------------------
(* Types.                                                                  *)

LEMMA InitTypes == Init => TypeOK
<1> SUFFICES ASSUME Init PROVE TypeOK
  OBVIOUS
<1>1. 0 \in 0 .. MaxMachines /\ 0 \in 0 .. MaxFaults
  BY RouterAssumption
<1>2. call \in [Calls -> Works(0)]
  BY DEF Init, Works, Idle, Steps
<1>3. sweep \in [Sweeps -> Chores(0)] /\ inflight \in [Routers -> Calls \cup {NoCall}]
  BY DEF Init, Chores
<1>4. OneResolves
  BY RouterAssumption DEF Init, OneResolves, Idle, Resolving
<1> QED
  BY <1>1, <1>2, <1>3, <1>4, TypeFacts DEF Init

LEMMA AskTypes == ASSUME TypeOK, NEW c \in Calls, Ask(c) PROVE TypeOK'
<1>1. call \in [Calls -> Works(made)] /\ OneResolves /\ inflight \in [Routers -> Calls \cup {NoCall}]
      /\ Home[c] \in Routers
  BY TypeFacts, RouterAssumption
<1>2. PICK step \in {"lookup", "join"} :
        /\ Goes(c, step)
        /\ step = "lookup" => inflight[Home[c]] = NoCall /\ inflight' = [inflight EXCEPT ![Home[c]] = c]
        /\ step = "join" => UNCHANGED inflight
  BY DEF Ask
<1>3. call' = [call EXCEPT ![c] = [call[c] EXCEPT !.at = step]]
  BY <1>2 DEF Goes
<1>4. [call[c] EXCEPT !.at = step] \in Works(made) /\ [call[c] EXCEPT !.at = step].at = step
  BY <1>1 DEF Works, Steps, Resolving
<1>5. /\ call' \in [Calls -> Works(made)] /\ call'[c].at = step
      /\ \A d \in Calls \ {c} : call'[d] = call[d]
  BY <1>1, <1>3, <1>4
<1>6. inflight' \in [Routers -> Calls \cup {NoCall}]
  BY <1>1, <1>2
<1>7. call[c].at \notin Resolving
  BY DEF Ask, At, Resolving
<1>8. OneResolves'
  <2>1. CASE step = "join"
    <3>1. step \notin Resolving /\ UNCHANGED inflight
      BY <1>2, <2>1 DEF Resolving
    <3> QED
      BY <1>1, <1>5, <1>7, <3>1 DEF OneResolves
  <2>2. CASE step = "lookup"
    <3>1. \A r \in Routers : inflight'[r] = IF r = Home[c] THEN c ELSE inflight[r]
      BY <1>1, <1>2, <2>2
    <3>2. \A d \in Calls \ {c} : Home[d] = Home[c] => call[d].at \notin Resolving
      BY <1>1, <1>2, <2>2, RouterAssumption DEF OneResolves
    <3>3. "lookup" \in Resolving
      BY DEF Resolving
    <3>4. \A d \in Calls : Home[d] \in Routers
      BY RouterAssumption
    <3> QED
      BY <1>1, <1>5, <2>2, <3>1, <3>2, <3>3, <3>4 DEF OneResolves
  <2> QED
    BY <2>1, <2>2
<1> QED
  BY <1>5, <1>6, <1>8, TypesNext, TypeFacts DEF Ask, fly

LEMMA ResolveTypes == ASSUME TypeOK, SavesMade, NEW c \in Calls, Resolve(c) \/ CallFails(c) PROVE TypeOK'
<1>0. old \in BOOLEAN /\ faults \in 0 .. MaxFaults /\ (At(c, "save") => call[c].machine \in 1 .. made)
  BY DEF TypeOK, SavesMade
<1>1. /\ row \in {NoMachine} \cup 1 .. made /\ alive \subseteq 1 .. made /\ made \in 0 .. MaxMachines
      /\ excused \subseteq 1 .. made /\ MaxMachines \in Nat /\ MaxFaults \in Nat
      /\ call[c].machine \in {NoMachine} \cup 1 .. made
      /\ sweep \in [Sweeps -> Chores(made)] /\ inflight \in [Routers -> Calls \cup {NoCall}]
  BY TypeFacts, RouterAssumption DEF Works
<1>2. CASE Lookup(c) \/ GetRemote(c) \/ ForgetMachine(c)
  <2>1. PICK step \in Resolving, m \in {NoMachine} \cup 1 .. made : Takes(c, step, m)
    BY <1>0, <1>1, <1>2, CallGoes DEF Lookup, GetRemote, ForgetMachine, Resolving
  <2>2. call[c].at \in Resolving /\ UNCHANGED <<made, inflight>>
    BY <1>2 DEF Lookup, GetRemote, ForgetMachine, Resolving, At, fly
  <2>3. call' \in [Calls -> Works(made')] /\ OneResolves'
    BY <1>1, <2>1, <2>2, CallMoves
  <2> QED
    BY <1>0, <1>1, <1>2, <2>2, <2>3, TypesNext DEF Lookup, GetRemote, ForgetMachine, fly
<1>3. CASE CreateMachine(c)
  <2>1. made' = made + 1 /\ call[c].at \in Resolving /\ "save" \in Resolving
    BY <1>3 DEF CreateMachine, At, Resolving
  <2>2. call' \in [Calls -> Works(made')] /\ OneResolves'
    BY <1>0, <1>1, <1>3, <2>1, CallMoves DEF CreateMachine
  <2>3. sweep' \in [Sweeps -> Chores(made')]
    BY <1>0, <1>1, <1>3, <2>1 DEF CreateMachine, Chores
  <2> QED
    BY <1>0, <1>1, <1>3, <2>1, <2>2, <2>3, TypesNext DEF CreateMachine
<1>4. CASE SaveMachine(c)
  <2>1. call[c].at \in Resolving /\ "wait" \in Resolving /\ UNCHANGED <<made, inflight>>
    BY <1>4 DEF SaveMachine, At, Resolving, fly
  <2>2. call' \in [Calls -> Works(made')] /\ OneResolves'
    BY <1>0, <1>1, <1>4, <2>1, CallMoves, CallGoes DEF SaveMachine
  <2>3. row' \in 1 .. made
    BY <1>0, <1>4 DEF SaveMachine, At
  <2> QED
    BY <1>0, <1>1, <1>4, <2>1, <2>2, <2>3, TypesNext DEF SaveMachine, fly
<1>5. CASE Touch(c) \/ CreateRefused(c) \/ WaitForStart(c) \/ CallFails(c)
  <2>1. call[c].at \in Resolving /\ Settle(c) /\ UNCHANGED made
    BY <1>5 DEF Touch, CreateRefused, WaitForStart, CallFails, At, Resolving, fly
  <2>2. call' \in [Calls -> Works(made')] /\ OneResolves' /\ inflight' \in [Routers -> Calls \cup {NoCall}]
    BY <2>1, CallSettles
  <2>3. UNCHANGED <<row, alive, made, sweep>> /\ old' \in BOOLEAN
    BY <1>0, <1>5 DEF Touch, CreateRefused, WaitForStart, CallFails, fly
  <2>4. excused' \subseteq 1 .. made /\ faults' \in 0 .. MaxFaults
    <3>1. CASE Touch(c) \/ CreateRefused(c) \/ WaitForStart(c)
      BY <1>0, <1>1, <3>1 DEF Touch, CreateRefused, WaitForStart
    <3>2. CASE CallFails(c)
      <4>1. Unsaved({c}) \subseteq 1 .. made
        BY <1>0 DEF Unsaved
      <4>2. faults' \in 0 .. MaxFaults
        BY <1>0, <1>1, <3>2 DEF CallFails, Fault
      <4> QED
        BY <1>1, <3>2, <4>1, <4>2 DEF CallFails
    <3> QED
      BY <1>5, <3>1, <3>2
  <2> QED
    BY <1>1, <2>2, <2>3, <2>4, TypesNext
<1> QED
  BY <1>2, <1>3, <1>4, <1>5 DEF Resolve

\* The other steps leave calls alone, but for a crash.
LEMMA SweepTypes ==
    ASSUME TypeOK, NEW s \in Sweeps,
           SelectIdle(s) \/ AdminDelete(s) \/ DestroyMachine(s) \/ DestroyFails(s) \/ DeleteRow(s)
    PROVE  TypeOK' /\ UNCHANGED <<made, inflight, call>>
<1>0. UNCHANGED <<made, inflight, call>>
  BY DEF SelectIdle, AdminDelete, DestroyMachine, DestroyFails, DeleteRow, fly
<1>1. /\ row \in {NoMachine} \cup 1 .. made /\ old \in BOOLEAN /\ alive \subseteq 1 .. made
      /\ made \in 0 .. MaxMachines /\ excused \subseteq 1 .. made
      /\ faults \in 0 .. MaxFaults /\ MaxFaults \in Nat
      /\ sweep \in [Sweeps -> Chores(made)] /\ inflight \in [Routers -> Calls \cup {NoCall}]
      /\ call \in [Calls -> Works(made)] /\ OneResolves
  BY TypeFacts, RouterAssumption
<1>2. Idle \in Chores(made) /\ Idle.at \notin {"destroy", "delete"}
  BY DEF Chores, Idle
<1>3. sweep' \in [Sweeps -> Chores(made')]
  <2>1. CASE SelectIdle(s)
    <3>1. [at |-> "destroy", admin |-> FALSE, machine |-> row] \in Chores(made)
      BY <1>1 DEF Chores
    <3> QED
      BY <1>0, <1>1, <2>1, <3>1 DEF SelectIdle
  <2>2. CASE AdminDelete(s)
    <3>1. PICK m \in {row, NoMachine} :
            sweep' = [sweep EXCEPT ![s] = [at |-> IF m = NoMachine THEN "delete" ELSE "destroy",
                                           admin |-> TRUE, machine |-> m]]
      BY <2>2 DEF AdminDelete
    <3>2. [at |-> IF m = NoMachine THEN "delete" ELSE "destroy", admin |-> TRUE, machine |-> m] \in Chores(made)
      BY <1>1 DEF Chores
    <3> QED
      BY <1>0, <1>1, <3>1, <3>2
  <2>3. CASE DestroyMachine(s) \/ DestroyFails(s) \/ DeleteRow(s)
    <3>1. sweep[s] \in Chores(made) /\ sweep[s].at \in {"destroy", "delete"}
      BY <1>1, <2>3 DEF DestroyMachine, DestroyFails, DeleteRow
    <3>2. [sweep[s] EXCEPT !.at = "delete"] \in Chores(made)
      BY <1>2, <3>1 DEF Chores
    <3>3. sweep' = [sweep EXCEPT ![s] = [sweep[s] EXCEPT !.at = "delete"]] \/ sweep' = [sweep EXCEPT ![s] = Idle]
      BY <2>3 DEF DestroyMachine, DestroyFails, DeleteRow, Ends
    <3> QED
      BY <1>0, <1>1, <1>2, <3>2, <3>3
  <2> QED
    BY <2>1, <2>2, <2>3
<1>4. OneResolves' /\ call' \in [Calls -> Works(made')]
  BY <1>0, <1>1 DEF OneResolves
<1>5. /\ row' \in {NoMachine} \cup 1 .. made /\ old' \in BOOLEAN /\ alive' \subseteq 1 .. made
      /\ excused' \subseteq 1 .. made
  BY <1>1 DEF SelectIdle, AdminDelete, DestroyMachine, DestroyFails, DeleteRow, fly
<1>6. faults' \in 0 .. MaxFaults
  BY <1>1 DEF SelectIdle, AdminDelete, DestroyMachine, DestroyFails, DeleteRow
<1> QED
  BY <1>0, <1>1, <1>3, <1>4, <1>5, <1>6, TypesNext

LEMMA CrashTypes ==
    ASSUME TypeOK, SavesMade, NEW r \in Routers, Crash(r)
    PROVE  TypeOK' /\ \A c \in Calls : call'[c] = IF Home[c] = r THEN Idle ELSE call[c]
<1>1. /\ call \in [Calls -> Works(made)] /\ OneResolves /\ inflight \in [Routers -> Calls \cup {NoCall}]
      /\ excused \subseteq 1 .. made /\ sweep \in [Sweeps -> Chores(made)]
      /\ faults \in 0 .. MaxFaults /\ MaxFaults \in Nat
      /\ \A c \in Calls : Home[c] \in Routers
  BY TypeFacts, RouterAssumption
<1>2. Idle \in Works(made) /\ Idle \in Chores(made) /\ Idle.at \notin Resolving
  BY DEF Works, Chores, Idle, Steps, Resolving
<1>3. /\ call' \in [Calls -> Works(made)]
      /\ \A c \in Calls : call'[c] = IF Home[c] = r THEN Idle ELSE call[c]
  BY <1>1, <1>2 DEF Crash
<1>4. sweep' \in [Sweeps -> Chores(made)]
  BY <1>1, <1>2 DEF Crash
<1>5. /\ inflight' \in [Routers -> Calls \cup {NoCall}]
      /\ \A q \in Routers : inflight'[q] = IF q = r THEN NoCall ELSE inflight[q]
  BY <1>1 DEF Crash
<1>6. OneResolves'
  BY <1>1, <1>2, <1>3, <1>5, RouterAssumption DEF OneResolves
<1>7. excused' \subseteq 1 .. made /\ faults' \in 0 .. MaxFaults
  <2> DEFINE lost == Unsaved({c \in Calls : Home[c] = r})
  <2>1. lost \subseteq 1 .. made
    BY DEF Unsaved, SavesMade
  <2>2. excused' = excused \cup lost
    BY DEF Crash
  <2>3. faults' \in 0 .. MaxFaults
    BY <1>1 DEF Crash, Fault
  <2> HIDE DEF lost
  <2> QED
    BY <1>1, <2>1, <2>2, <2>3
<1>8. UNCHANGED <<row, old, alive, made>>
  BY DEF Crash, fly
<1>9. row \in {NoMachine} \cup 1 .. made /\ old \in BOOLEAN /\ alive \subseteq 1 .. made
      /\ made \in 0 .. MaxMachines
  BY TypeFacts
<1> QED
  BY <1>3, <1>4, <1>5, <1>6, <1>7, <1>8, <1>9, TypesNext

\* How the call that acts is changed, as far as machines to save are concerned.
LEMMA CallChanges ==
    ASSUME TypeOK, NEW c \in Calls, Ask(c) \/ Resolve(c) \/ CallFails(c)
    PROVE  /\ \A d \in Calls \ {c} : call'[d] = call[d] \/ call'[d] = Idle
           /\ \A d \in Calls \ {c} : call[d].at \in Resolving => call'[d] = call[d]
           /\ At(c, "save")' => /\ call'[c].machine = made' /\ made' \in 1 .. MaxMachines
                                /\ CreateMachine(c)
           /\ made <= made'
<1>0. made \in Nat /\ MaxMachines \in Nat /\ call \in [Calls -> Works(made)]
  BY TypeFacts, RouterAssumption
<1>1. CASE Ask(c)
  <2>1. UNCHANGED made /\ \A d \in Calls \ {c} : call'[d] = call[d]
    BY <1>0, <1>1 DEF Ask, Goes, fly
  <2>2. ~At(c, "save")'
    BY <1>0, <1>1 DEF Ask, Goes, At, Works
  <2> QED
    BY <1>0, <2>1, <2>2
<1>2. CASE Lookup(c) \/ GetRemote(c) \/ ForgetMachine(c) \/ SaveMachine(c)
  <2>1. UNCHANGED made /\ \A d \in Calls \ {c} : call'[d] = call[d]
    BY <1>0, <1>2 DEF Lookup, GetRemote, ForgetMachine, SaveMachine, Goes, Takes, fly
  <2>2. ~At(c, "save")'
    BY <1>0, <1>2 DEF Lookup, GetRemote, ForgetMachine, SaveMachine, Goes, Takes, At, Works
  <2> QED
    BY <1>0, <2>1, <2>2
<1>3. CASE CreateMachine(c)
  <2>1. made' = made + 1 /\ made' \in 1 .. MaxMachines /\ \A d \in Calls \ {c} : call'[d] = call[d]
    BY <1>0, <1>3 DEF CreateMachine, Takes
  <2>2. call'[c].machine = made'
    BY <1>0, <1>3, <2>1 DEF CreateMachine, Takes, Works
  <2> QED
    BY <1>0, <1>3, <2>1, <2>2
<1>4. CASE Touch(c) \/ CreateRefused(c) \/ WaitForStart(c) \/ CallFails(c)
  <2>1. call[c].at \in Resolving /\ Settle(c) /\ UNCHANGED made
    BY <1>4 DEF Touch, CreateRefused, WaitForStart, CallFails, At, Resolving, fly
  <2>2. call'[c] = Idle /\ Idle.at = "idle"
    BY <2>1, CallSettles DEF Idle
  <2> QED
    BY <1>0, <2>1, <2>2, CallSettles DEF At
<1> QED
  BY <1>1, <1>2, <1>3, <1>4 DEF Resolve

LEMMA TypeStep == TypeOK /\ SavesMade /\ [Next]_vars => TypeOK' /\ SavesMade'
<1> SUFFICES ASSUME TypeOK, SavesMade, [Next]_vars PROVE TypeOK' /\ SavesMade'
  OBVIOUS
<1>0. made \in Nat /\ Idle.at = "idle"
  BY RouterAssumption DEF TypeOK, Idle
<1>1. ASSUME NEW c \in Calls, Ask(c) \/ Resolve(c) \/ CallFails(c) PROVE TypeOK' /\ SavesMade'
  <2>1. TypeOK'
    BY <1>1, AskTypes, ResolveTypes
  <2>2. made' \in Nat
    BY <2>1, RouterAssumption DEF TypeOK
  <2>3. SavesMade'
    BY <1>0, <1>1, <2>2, CallChanges DEF SavesMade, At
  <2> QED
    BY <2>1, <2>3
<1>2. ASSUME NEW s \in Sweeps,
             SelectIdle(s) \/ AdminDelete(s) \/ DestroyMachine(s) \/ DestroyFails(s) \/ DeleteRow(s)
      PROVE TypeOK' /\ SavesMade'
  BY <1>2, SweepTypes DEF SavesMade, At
<1>3. ASSUME NEW r \in Routers, Crash(r) PROVE TypeOK' /\ SavesMade'
  <2>1. UNCHANGED made
    BY <1>3 DEF Crash, fly
  <2> QED
    BY <1>0, <1>3, <2>1, CrashTypes DEF SavesMade, At
<1>4. CASE DayPasses \/ (\E m \in Machines : LoseMachine(m)) \/ UNCHANGED vars
  <2>1. UNCHANGED <<row, made, inflight, call, sweep, excused>> /\ alive' \subseteq alive
    BY <1>4 DEF DayPasses, LoseMachine, vars, fly
  <2>2. old' \in BOOLEAN /\ faults' \in 0 .. MaxFaults
    <3>1. old \in BOOLEAN /\ faults \in 0 .. MaxFaults /\ MaxFaults \in Nat
      BY TypeFacts, RouterAssumption
    <3>2. CASE DayPasses
      BY <3>1, <3>2 DEF DayPasses
    <3>3. CASE \E m \in Machines : LoseMachine(m)
      BY <3>1, <3>3 DEF LoseMachine, Fault
    <3>4. CASE UNCHANGED vars
      BY <3>1, <3>4 DEF vars
    <3> QED
      BY <1>4, <3>2, <3>3, <3>4
  <2>3. /\ row \in {NoMachine} \cup 1 .. made /\ alive \subseteq 1 .. made
        /\ made \in 0 .. MaxMachines /\ excused \subseteq 1 .. made
        /\ sweep \in [Sweeps -> Chores(made)] /\ inflight \in [Routers -> Calls \cup {NoCall}]
        /\ call \in [Calls -> Works(made)] /\ OneResolves
    BY TypeFacts
  <2>4. OneResolves'
    BY <2>1, <2>3 DEF OneResolves
  <2> QED
    BY <2>1, <2>2, <2>3, <2>4, TypesNext DEF SavesMade, At
<1> QED
  BY <1>1, <1>2, <1>3, <1>4 DEF Next

\* Type correctness: the rows, the machines and the maps of calls, and in particular that
\* a router's map holds the call that resolves, and no other resolves there (ensure.ts:7, 62).
THEOREM RouterTypeCorrect == Spec => []TypeOK
<1>1. Init => TypeOK /\ SavesMade
  BY InitTypes DEF Init, SavesMade, At, Idle
<1> QED
  BY <1>1, TypeStep, PTL DEF Spec, Safety

-----------------------------------------------------------------------------
(* No machine is orphaned.                                                 *)

LEMMA NoMachineIsHarmless == TypeOK /\ row = NoMachine => Harmless
BY TypeFacts DEF Harmless, NoMachine

LEMMA OrphanCall ==
    ASSUME OrphanInv, SavesMade, NEW c \in Calls, Ask(c) \/ Resolve(c) \/ CallFails(c)
    PROVE  NoOrphans' /\ CallsKnow' /\ SweepsKnow'
<1>0. /\ TypeOK /\ NoOrphans /\ CallsKnow /\ SweepsKnow
      /\ call \in [Calls -> Works(made)] /\ call[c] \in Works(made)
      /\ row \in {NoMachine} \cup 1 .. made /\ alive \subseteq 1 .. made /\ made \in Nat
  BY TypeFacts, RouterAssumption DEF OrphanInv
<1>1. /\ \A d \in Calls \ {c} : call[d].at \in Resolving => call'[d] = call[d]
      /\ \A d \in Calls \ {c} : call'[d].at \in Resolving => call'[d] = call[d]
      /\ UNCHANGED sweep
  <2>1. UNCHANGED sweep
    BY DEF Ask, Resolve, CallFails, Lookup, GetRemote, Touch, ForgetMachine, CreateMachine,
           CreateRefused, SaveMachine, WaitForStart
  <2>2. Idle.at \notin Resolving
    BY DEF Idle, Resolving
  <2> QED
    BY <1>0, <2>1, <2>2, CallChanges
<1>2. {"get", "forget", "create", "save"} \subseteq Resolving
  BY DEF Resolving
<1>3. CASE Ask(c) \/ Lookup(c) \/ GetRemote(c) \/ Touch(c) \/ CreateRefused(c) \/ WaitForStart(c)
  <2>1. UNCHANGED <<row, alive, excused>> /\ ~At(c, "save")
    BY <1>3 DEF Ask, Lookup, GetRemote, Touch, CreateRefused, WaitForStart, At, fly
  <2>2. /\ call'[c].at = "get" => row = call'[c].machine
        /\ call'[c].at \in {"forget", "create", "save"} => Harmless
    <3>1. CASE Ask(c)
      BY <1>0, <3>1 DEF Ask, Goes, Works
    <3>2. CASE Lookup(c)
      BY <1>0, <3>2, NoMachineIsHarmless DEF Lookup, Goes, Takes, Works
    <3>3. CASE GetRemote(c)
      BY <1>0, <3>3 DEF GetRemote, Goes, Works, CallsKnow, Harmless, At
    <3>4. CASE Touch(c) \/ CreateRefused(c) \/ WaitForStart(c)
      <4>1. call[c].at \in Resolving /\ Settle(c) /\ UNCHANGED made
        BY <3>4 DEF Touch, CreateRefused, WaitForStart, At, Resolving, fly
      <4> QED
        BY <1>0, <4>1, CallSettles DEF Idle
    <3> QED
      BY <1>3, <3>1, <3>2, <3>3, <3>4
  <2>3. NoOrphans'
    BY <1>0, <1>1, <1>2, <2>1 DEF NoOrphans, InHand, At
  <2>4. CallsKnow'
    BY <1>0, <1>1, <1>2, <2>1, <2>2 DEF CallsKnow, Harmless, At
  <2>5. SweepsKnow'
    BY <1>0, <1>1, <2>1 DEF SweepsKnow, Harmless
  <2> QED
    BY <2>3, <2>4, <2>5
<1>4. CASE ForgetMachine(c)
  <2>1. /\ row' = NoMachine /\ UNCHANGED <<alive, excused>> /\ Harmless
        /\ call'[c].at = "create" /\ ~At(c, "save")
    BY <1>0, <1>4 DEF ForgetMachine, Goes, Works, CallsKnow, At, fly
  <2>2. Harmless'
    BY <1>0, <2>1 DEF Harmless, NoMachine
  <2>3. NoOrphans'
    BY <1>0, <1>1, <1>2, <2>1 DEF NoOrphans, InHand, At, Harmless
  <2> QED
    BY <2>2, <2>3 DEF CallsKnow, SweepsKnow
<1>5. CASE CreateMachine(c)
  <2>1. /\ UNCHANGED <<row, excused>> /\ Harmless /\ alive' = alive \cup {made'}
        /\ call'[c].at = "save" /\ call'[c].machine = made' /\ ~At(c, "save") /\ made' = made + 1
    BY <1>0, <1>5 DEF CreateMachine, Takes, Works, CallsKnow, At
  <2>2. row # made'
    BY <1>0, <2>1 DEF NoMachine
  <2>3. Harmless'
    BY <2>1, <2>2 DEF Harmless
  <2>4. NoOrphans'
    BY <1>0, <1>1, <1>2, <2>1 DEF NoOrphans, InHand, At
  <2> QED
    BY <2>3, <2>4 DEF CallsKnow, SweepsKnow
<1>6. CASE SaveMachine(c)
  <2>1. /\ row' = call[c].machine /\ UNCHANGED <<alive, sweep>> /\ Harmless
        /\ excused' = (IF Contested(c) THEN excused \cup {row'} ELSE excused)
        /\ call'[c].at = "wait"
    BY <1>0, <1>6 DEF SaveMachine, Goes, Works, CallsKnow, At, fly
  <2>2. NoOrphans'
    BY <1>0, <1>1, <1>2, <2>1 DEF NoOrphans, InHand, At, Harmless
  <2>3. CASE Contested(c)
    <3>1. Harmless'
      BY <2>1, <2>3 DEF Harmless
    <3> QED
      BY <2>2, <3>1 DEF CallsKnow, SweepsKnow
  <2>4. CASE ~Contested(c)
    <3>1. ASSUME NEW d \in Calls \ {c} PROVE call'[d].at \notin Resolving
      <4>1. call[d].at \in Resolving => Home[d] # Home[c]
        <5>1. inflight[Home[c]] = c
          BY <1>0, <1>2, <1>6, TypeFacts DEF OneResolves, SaveMachine, At
        <5> QED
          BY <1>0, <5>1, TypeFacts DEF OneResolves
      <4> QED
        BY <1>1, <2>4, <4>1 DEF Contested
    <3>2. CallsKnow'
      BY <1>2, <2>1, <3>1 DEF CallsKnow, At
    <3>3. SweepsKnow'
      BY <2>1, <2>4 DEF SweepsKnow, Contested
    <3> QED
      BY <2>2, <3>2, <3>3
  <2> QED
    BY <2>3, <2>4
<1>7. CASE CallFails(c)
  <2>1. /\ UNCHANGED <<row, alive>> /\ excused' = excused \cup Unsaved({c})
        /\ call[c].at \in Resolving /\ Settle(c) /\ UNCHANGED made
    BY <1>7 DEF CallFails, fly
  <2>2. call'[c].at = "idle"
    BY <1>0, <2>1, CallSettles DEF Idle
  <2>3. At(c, "save") => call[c].machine \in excused'
    BY <2>1 DEF Unsaved
  <2>4. NoOrphans'
    BY <1>0, <1>1, <1>2, <2>1, <2>3 DEF NoOrphans, InHand, At
  <2>5. Harmless => Harmless'
    BY <2>1 DEF Harmless
  <2>6. CallsKnow'
    BY <1>0, <1>1, <1>2, <2>1, <2>2, <2>5 DEF CallsKnow, At
  <2>7. SweepsKnow'
    BY <1>0, <1>1, <2>1, <2>5 DEF SweepsKnow
  <2> QED
    BY <2>4, <2>6, <2>7
<1> QED
  BY <1>3, <1>4, <1>5, <1>6, <1>7 DEF Resolve

LEMMA OrphanSweep ==
    ASSUME OrphanInv, NEW s \in Sweeps,
           SelectIdle(s) \/ AdminDelete(s) \/ DestroyMachine(s) \/ DestroyFails(s) \/ DeleteRow(s)
    PROVE  NoOrphans' /\ CallsKnow' /\ SweepsKnow'
<1>0. /\ TypeOK /\ NoOrphans /\ CallsKnow /\ SweepsKnow
      /\ sweep \in [Sweeps -> Chores(made)] /\ alive \subseteq 1 .. made
  BY TypeFacts DEF OrphanInv
<1>1. UNCHANGED call
  BY SweepTypes, <1>0
<1>2. \A t \in Sweeps \ {s} : sweep'[t] = sweep[t]
  BY <1>0 DEF SelectIdle, AdminDelete, DestroyMachine, DestroyFails, DeleteRow, Ends
<1>3. CASE SelectIdle(s) \/ AdminDelete(s) \/ DestroyFails(s)
  <2>1. UNCHANGED <<row, alive, excused>>
    BY <1>3 DEF SelectIdle, AdminDelete, DestroyFails, fly
  <2>2. sweep'[s] # Idle /\ ~sweep'[s].admin => sweep'[s].at = "destroy" /\ sweep'[s].machine = row
    <3>1. CASE SelectIdle(s)
      BY <1>0, <3>1 DEF SelectIdle
    <3>2. CASE AdminDelete(s)
      BY <1>0, <3>2 DEF AdminDelete
    <3>3. CASE DestroyFails(s)
      <4>1. sweep[s].admin => sweep'[s].admin
        BY <1>0, <3>3 DEF DestroyFails, Chores, Idle
      <4>2. ~sweep[s].admin => sweep'[s] = Idle
        BY <1>0, <3>3 DEF DestroyFails, Ends
      <4> QED
        BY <4>1, <4>2
    <3> QED
      BY <1>3, <3>1, <3>2, <3>3
  <2> QED
    BY <1>0, <1>1, <1>2, <2>1, <2>2 DEF NoOrphans, InHand, CallsKnow, SweepsKnow, Harmless, At
<1>4. CASE DestroyMachine(s)
  <2>1. /\ alive' = alive \ {sweep[s].machine} /\ UNCHANGED <<row, excused>>
        /\ sweep[s].at = "destroy"
    BY <1>4 DEF DestroyMachine
  <2>2. sweep'[s] = [sweep[s] EXCEPT !.at = "delete"] /\ sweep[s] # Idle
    BY <1>0, <1>4 DEF DestroyMachine, Idle
  <2>3. sweep'[s].admin = sweep[s].admin /\ sweep'[s].at = "delete"
    BY <1>0, <2>1, <2>2 DEF Chores, Idle
  <2>4. Harmless => Harmless'
    BY <2>1 DEF Harmless
  <2>5. ~sweep[s].admin => Harmless'
    BY <1>0, <2>1, <2>2 DEF SweepsKnow, Harmless
  <2>6. NoOrphans' /\ CallsKnow'
    BY <1>0, <1>1, <2>1, <2>4 DEF NoOrphans, InHand, CallsKnow, At
  <2>7. SweepsKnow'
    BY <1>0, <1>2, <2>1, <2>3, <2>4, <2>5 DEF SweepsKnow
  <2> QED
    BY <2>6, <2>7
<1>5. CASE DeleteRow(s)
  <2>1. /\ row' = NoMachine /\ UNCHANGED alive /\ sweep[s].at = "delete"
        /\ excused' = IF sweep[s].admin THEN excused \cup ({row} \cap alive) ELSE excused
    BY <1>5 DEF DeleteRow, fly
  <2>2. Harmless'
    BY <1>0, <2>1 DEF Harmless, NoMachine
  <2>3. row \notin alive \ excused'
    <3>1. sweep[s] # Idle
      BY <2>1 DEF Idle
    <3> QED
      BY <1>0, <2>1, <3>1 DEF SweepsKnow, Harmless
  <2>4. NoOrphans'
    BY <1>0, <1>1, <2>1, <2>3 DEF NoOrphans, InHand, At
  <2> QED
    BY <2>2, <2>4 DEF CallsKnow, SweepsKnow
<1> QED
  BY <1>3, <1>4, <1>5

LEMMA OrphanCrash ==
    ASSUME OrphanInv, SavesMade, NEW r \in Routers, Crash(r)
    PROVE  NoOrphans' /\ CallsKnow' /\ SweepsKnow'
<1> DEFINE lost == Unsaved({c \in Calls : Home[c] = r})
<1>0. /\ TypeOK /\ NoOrphans /\ CallsKnow /\ SweepsKnow
      /\ sweep \in [Sweeps -> Chores(made)]
  BY TypeFacts DEF OrphanInv
<1>1. /\ UNCHANGED <<row, alive>> /\ excused' = excused \cup lost
      /\ \A s \in Sweeps : sweep'[s] = sweep[s] \/ sweep'[s] = Idle
  BY <1>0 DEF Crash, fly
<1>2. \A c \in Calls : call'[c] = IF Home[c] = r THEN Idle ELSE call[c]
  BY <1>0, CrashTypes
<1>3. \A c \in Calls : At(c, "save") => (At(c, "save")' /\ call'[c] = call[c]) \/ call[c].machine \in lost
  BY <1>2 DEF Unsaved, At
<1>4. Idle.at = "idle"
  BY DEF Idle
<1> HIDE DEF lost
<1>5. NoOrphans'
  BY <1>0, <1>1, <1>3 DEF NoOrphans, InHand
<1>6. Harmless => Harmless'
  BY <1>1 DEF Harmless
<1>7. CallsKnow'
  BY <1>0, <1>1, <1>2, <1>4, <1>6 DEF CallsKnow, At
<1>8. SweepsKnow'
  BY <1>0, <1>1, <1>6 DEF SweepsKnow
<1> QED
  BY <1>5, <1>7, <1>8

\* No machine runs on that no row and no call knows of (README.md:3), but for the mishaps
\* named at NoOrphans: coalescing, the repair of rows and the sweep lose none.
THEOREM RouterNoOrphans == Spec => []NoOrphans
<1>1. Init => OrphanInv /\ SavesMade
  BY InitTypes DEF Init, OrphanInv, NoOrphans, CallsKnow, SweepsKnow, SavesMade, At, Idle
<1>2. OrphanInv /\ SavesMade /\ [Next]_vars => OrphanInv' /\ SavesMade'
  <2> SUFFICES ASSUME OrphanInv, SavesMade, [Next]_vars PROVE NoOrphans' /\ CallsKnow' /\ SweepsKnow'
    BY TypeStep DEF OrphanInv
  <2>1. CASE DayPasses \/ (\E m \in Machines : LoseMachine(m)) \/ UNCHANGED vars
    <3>1. UNCHANGED <<row, call, sweep, excused>> /\ alive' \subseteq alive
      BY <2>1 DEF DayPasses, LoseMachine, vars, fly
    <3>2. Harmless => Harmless'
      BY <3>1 DEF Harmless
    <3>3. NoOrphans'
      BY <3>1 DEF OrphanInv, NoOrphans, InHand, At
    <3>4. CallsKnow' /\ SweepsKnow'
      BY <3>1, <3>2 DEF OrphanInv, CallsKnow, SweepsKnow, At
    <3> QED
      BY <3>3, <3>4
  <2> QED
    BY <2>1, OrphanCall, OrphanSweep, OrphanCrash DEF Next
<1> QED
  BY <1>1, <1>2, PTL DEF Spec, Safety, OrphanInv
=============================================================================
