---------------------------- MODULE MirrorProofs -----------------------------
(***************************************************************************)
(* Proofs about MirrorSources, for any number of overlapping pollers, any  *)
(* page and backfill, and any number of changes, plays and faults.         *)
(***************************************************************************)
EXTENDS MirrorSources, TLAPS

Works == [at : {"asleep", "backoff", "check", "offer", "touch"}, cancelled : BOOLEAN,
          home : Rows, mark : 0 .. MaxPlays, page : SUBSET Plays, upto : 0 .. MaxPlays]

\* What a poller does but to die, and what the API and the ingest do about a play.
Moves(s) ==
    \/ Fetch(s) \/ Touch(s) \/ StartOver(s) \/ Abort(s) \/ Panic(s)
    \/ \E p \in Plays : Check(s, p) \/ Offer(s, p)

Serving(p) == Call(p) \/ CallFails(p) \/ LockExpires(p) \/ Ingest(p) \/ IngestFails(p)

TypeInv == TypeOK /\ inbox <= puts

-----------------------------------------------------------------------------
(* Types.                                                                   *)

LEMMA DeadIsNoWork == Dead \notin Works /\ Pollers = {Dead} \cup Works
<1>1. ASSUME NEW w \in Works PROVE w # Dead
  <2>1. w.at # "dead"
    BY DEF Works
  <2> QED
    BY <2>1 DEF Dead
<1> QED
  BY <1>1 DEF Pollers, Works

LEMMA TypeFacts ==
    ASSUME TypeInv
    PROVE  /\ row \in Rows /\ pollers \in [Slots -> Pollers]
           /\ plays \in 0 .. MaxPlays /\ hidden \subseteq 1 .. plays
           /\ offers \in [Plays -> Nat] /\ passed \in [Plays -> Nat]
           /\ records \in [Plays -> Nat] /\ commits \in [Plays -> Nat]
           /\ locks \subseteq Plays /\ rows \subseteq Plays
           /\ cut \subseteq Plays /\ lapsed \subseteq Plays
           /\ puts \in 0 .. MaxPuts /\ inbox \in 0 .. MaxPuts /\ faults \in 0 .. MaxFaults
           /\ \A s \in Slots : pollers[s] # Dead => pollers[s] \in Works
           /\ MaxPlays \in Nat /\ MaxPuts \in Nat /\ MaxFaults \in Nat
           /\ Page \in Nat \ {0} /\ Backfill \in Nat
           /\ \A p \in Plays : p \in Nat \ {0} /\ p <= MaxPlays
<1>1. /\ row \in Rows /\ pollers \in [Slots -> Pollers]
      /\ plays \in 0 .. MaxPlays /\ hidden \subseteq 1 .. plays
      /\ offers \in [Plays -> Nat] /\ passed \in [Plays -> Nat]
      /\ records \in [Plays -> Nat] /\ commits \in [Plays -> Nat]
      /\ locks \subseteq Plays /\ rows \subseteq Plays
      /\ cut \subseteq Plays /\ lapsed \subseteq Plays
      /\ puts \in 0 .. MaxPuts /\ inbox \in 0 .. MaxPuts /\ faults \in 0 .. MaxFaults
  BY DEF TypeInv, TypeOK
<1>2. \A s \in Slots : pollers[s] # Dead => pollers[s] \in Works
  BY <1>1, DeadIsNoWork
<1>3. \A p \in Plays : p \in Nat \ {0} /\ p <= MaxPlays
  BY MirrorAssumption DEF Plays
<1> QED
  BY <1>1, <1>2, <1>3, MirrorAssumption

LEMMA InitTypes == Init => TypeInv
<1> SUFFICES ASSUME Init PROVE TypeInv
  OBVIOUS
<1>1. row \in Rows
  BY MirrorAssumption DEF Init, Rows, Keys, NoKey
<1>2. pollers \in [Slots -> Pollers]
  BY DEF Init, Pollers
<1>3. /\ offers \in [Plays -> Nat] /\ passed \in [Plays -> Nat]
      /\ records \in [Plays -> Nat] /\ commits \in [Plays -> Nat]
  BY DEF Init
<1>4. sup \in [at : {"boot", "unsubscribed", "ready"}]
  BY DEF Init
<1>5. plays \in 0 .. MaxPlays /\ inbox \in 0 .. MaxPuts /\ puts \in 0 .. MaxPuts /\ faults \in 0 .. MaxFaults
      /\ inbox <= puts
  BY MirrorAssumption DEF Init
<1>6. /\ tasks \in Slots \cup {NoPoller} /\ hidden \subseteq 1 .. plays /\ unsaid \in BOOLEAN
      /\ locks \subseteq Plays /\ rows \subseteq Plays /\ cut \subseteq Plays /\ lapsed \subseteq Plays
  BY DEF Init
<1> QED
  BY <1>1, <1>2, <1>3, <1>4, <1>5, <1>6 DEF TypeInv, TypeOK

\* The page of a poll, and the end of it.
LEMMA FetchFacts ==
    ASSUME TypeInv, NEW s \in Slots, Fetch(s)
    PROVE  \E page \in SUBSET Plays, upto \in 0 .. MaxPlays :
             /\ pollers' = [pollers EXCEPT ![s].at = IF page = {} THEN "touch" ELSE "check",
                                           ![s].page = page, ![s].upto = upto]
             /\ cut' = cut \cup (Unseen(pollers[s].mark + 1, upto) \ page)
<1>1. pollers[s].mark \in 0 .. MaxPlays /\ plays \in 0 .. MaxPlays /\ MaxPlays \in Nat
  BY TypeFacts DEF Fetch, At, Works
<1> DEFINE mark  == pollers[s].mark
           known == (mark + 1 .. plays) \ hidden
           page  == {p \in known : Cardinality({q \in known : q > p}) < Page}
<1>2. page \subseteq Plays
  BY <1>1 DEF Plays
<1>3. PICK upto \in page \cup {mark} :
        /\ pollers' = [pollers EXCEPT ![s].at = IF page = {} THEN "touch" ELSE "check",
                                      ![s].page = page, ![s].upto = upto]
        /\ cut' = cut \cup (Unseen(mark + 1, upto) \ page)
  BY DEF Fetch
<1> HIDE DEF page
<1>4. upto \in 0 .. MaxPlays
  <2>1. page \subseteq 0 .. MaxPlays /\ mark \in 0 .. MaxPlays
    BY <1>1, <1>2 DEF Plays
  <2> QED
    BY <2>1
<1> QED
  BY <1>2, <1>3, <1>4

\* The steps of a poller change its own slot alone, and neither what it was spawned with
\* nor whether it was cancelled.
LEMMA PollerFacts ==
    ASSUME TypeInv, NEW s \in Slots, Moves(s)
    PROVE  /\ pollers[s] \in Works /\ pollers'[s] \in Works
           /\ pollers'[s].home = pollers[s].home /\ pollers'[s].cancelled = pollers[s].cancelled
           /\ pollers' \in [Slots -> Pollers]
           /\ \A t \in Slots \ {s} : pollers'[t] = pollers[t]
           /\ UNCHANGED <<sup, inbox, tasks, plays, hidden, passed, locks, records, commits,
                          lapsed, rows, unsaid, puts>>
<1>0. pollers \in [Slots -> Pollers] /\ pollers[s] \in Works /\ MaxPlays \in Nat
  BY TypeFacts DEF At, Moves, Fetch, Check, Offer, Touch, StartOver, Abort, Panic
<1>1. /\ pollers[s].mark \in 0 .. MaxPlays /\ pollers[s].upto \in 0 .. MaxPlays
      /\ pollers[s].page \subseteq Plays /\ 0 \in 0 .. MaxPlays
      /\ pollers[s].home \in Rows /\ pollers[s].home.mark \in 0 .. MaxPlays
  BY <1>0 DEF Works, Rows
<1>2. UNCHANGED <<sup, inbox, tasks, plays, hidden, passed, locks, records, commits, lapsed,
                  rows, unsaid, puts>>
  BY DEF Moves, Fetch, Check, Offer, Touch, StartOver, Abort, Panic, apiVars, calls, provider
<1>3. ASSUME NEW w \in Works, pollers' = [pollers EXCEPT ![s] = w],
             w.home = pollers[s].home, w.cancelled = pollers[s].cancelled
      PROVE  /\ pollers[s] \in Works /\ pollers'[s] \in Works
             /\ pollers'[s].home = pollers[s].home /\ pollers'[s].cancelled = pollers[s].cancelled
             /\ pollers' \in [Slots -> Pollers]
             /\ \A t \in Slots \ {s} : pollers'[t] = pollers[t]
  <2>1. pollers'[s] = w /\ pollers' \in [Slots -> Pollers] /\ \A t \in Slots \ {s} : pollers'[t] = pollers[t]
    BY <1>0, <1>3, DeadIsNoWork
  <2> QED
    BY <1>0, <1>3, <2>1
<1>4. CASE Fetch(s)
  <2>1. PICK page \in SUBSET Plays, upto \in 0 .. MaxPlays :
          pollers' = [pollers EXCEPT ![s].at = IF page = {} THEN "touch" ELSE "check",
                                     ![s].page = page, ![s].upto = upto]
    BY <1>4, FetchFacts
  <2> DEFINE w == [pollers[s] EXCEPT !.at = IF page = {} THEN "touch" ELSE "check",
                                     !.page = page, !.upto = upto]
  <2>2. pollers' = [pollers EXCEPT ![s] = w]
    BY <2>1
  <2>3. w \in Works /\ w.home = pollers[s].home /\ w.cancelled = pollers[s].cancelled
    BY <1>0 DEF Works
  <2> HIDE DEF w
  <2> QED
    BY <1>2, <1>3, <2>2, <2>3
<1>5. ASSUME NEW p \in Plays, Check(s, p) \/ Offer(s, p) PROVE \E w \in Works :
        pollers' = [pollers EXCEPT ![s] = w] /\ w.home = pollers[s].home /\ w.cancelled = pollers[s].cancelled
  <2> DEFINE step == IF pollers[s].page = {p} THEN "touch" ELSE "check"
             w == [pollers[s] EXCEPT !.page = @ \ {p}, !.at = step]
             v == [pollers[s] EXCEPT !.at = "offer"]
  <2>1. pollers' = [pollers EXCEPT ![s] = w] \/ pollers' = [pollers EXCEPT ![s] = v]
    BY <1>5 DEF Check, Offer, Onward
  <2>2. w \in Works /\ w.home = pollers[s].home /\ w.cancelled = pollers[s].cancelled
    BY <1>0, <1>1 DEF Works
  <2>3. v \in Works /\ v.home = pollers[s].home /\ v.cancelled = pollers[s].cancelled
    BY <1>0 DEF Works
  <2> HIDE DEF w, v
  <2> QED
    BY <2>1, <2>2, <2>3
<1>6. CASE Touch(s) \/ StartOver(s) \/ Abort(s) \/ Panic(s)
  <2> DEFINE asleep(m) == [pollers[s] EXCEPT !.at = "asleep", !.mark = m, !.page = {}, !.upto = 0]
             backoff == [pollers[s] EXCEPT !.at = "backoff", !.page = {}, !.upto = 0]
  <2>1. \/ \E m \in 0 .. MaxPlays : pollers' = [pollers EXCEPT ![s] = asleep(m)]
        \/ pollers' = [pollers EXCEPT ![s] = backoff]
    <3>1. Touch(s) => pollers' = [pollers EXCEPT ![s] = asleep(pollers[s].upto)]
      BY DEF Touch, Asleep
    <3>2. StartOver(s) => pollers' = [pollers EXCEPT ![s] = asleep(pollers[s].home.mark)]
      BY DEF StartOver, Asleep
    <3>3. Abort(s) => pollers' = [pollers EXCEPT ![s] = asleep(pollers[s].mark)]
      BY DEF Abort, Asleep
    <3>4. Panic(s) => pollers' = [pollers EXCEPT ![s] = backoff]
      BY DEF Panic
    <3> HIDE DEF asleep, backoff
    <3> QED
      BY <1>1, <1>6, <3>1, <3>2, <3>3, <3>4
  <2>2. ASSUME NEW m \in 0 .. MaxPlays
        PROVE  asleep(m) \in Works /\ asleep(m).home = pollers[s].home
               /\ asleep(m).cancelled = pollers[s].cancelled
    BY <1>0, <1>1 DEF Works
  <2>3. backoff \in Works /\ backoff.home = pollers[s].home /\ backoff.cancelled = pollers[s].cancelled
    BY <1>0, <1>1 DEF Works
  <2> HIDE DEF asleep, backoff
  <2> QED
    BY <1>2, <1>3, <2>1, <2>2, <2>3
<1> QED
  BY <1>2, <1>3, <1>4, <1>5, <1>6 DEF Moves

\* A step of the API or of the ingest is about one play, and nothing that was put, found
\* or left to nobody is taken back.
LEMMA ServingFacts ==
    ASSUME TypeInv, NEW q \in Plays, Serving(q)
    PROVE  /\ offers' \in [Plays -> Nat] /\ passed' \in [Plays -> Nat]
           /\ records' \in [Plays -> Nat] /\ commits' \in [Plays -> Nat]
           /\ locks' \subseteq Plays /\ rows' \subseteq Plays
           /\ cut' \subseteq Plays /\ lapsed' \subseteq Plays
           /\ faults' \in 0 .. MaxFaults
           /\ UNCHANGED <<row, mirrorVars, provider, unsaid, puts>>
           /\ rows \subseteq rows' /\ cut \subseteq cut' /\ lapsed \subseteq lapsed'
           /\ \A p \in Plays : records[p] <= records'[p]
           /\ \A p \in Plays \ {q} :
                /\ offers'[p] = offers[p] /\ passed'[p] = passed[p] /\ records'[p] = records[p]
                /\ p \in locks' <=> p \in locks
<1>0. /\ offers \in [Plays -> Nat] /\ passed \in [Plays -> Nat]
      /\ records \in [Plays -> Nat] /\ commits \in [Plays -> Nat]
      /\ locks \subseteq Plays /\ rows \subseteq Plays /\ cut \subseteq Plays /\ lapsed \subseteq Plays
      /\ faults \in 0 .. MaxFaults /\ MaxFaults \in Nat
  BY TypeFacts
<1>1. ASSUME NEW f \in [Plays -> Nat], NEW g, g \in {f, [f EXCEPT ![q] = @ + 1]} \/ (f[q] > 0 /\ g = [f EXCEPT ![q] = @ - 1])
      PROVE  g \in [Plays -> Nat] /\ \A p \in Plays \ {q} : g[p] = f[p]
  BY <1>1
<1>2. /\ offers' = offers \/ (offers[q] > 0 /\ offers' = [offers EXCEPT ![q] = @ - 1])
      /\ passed' \in {passed, [passed EXCEPT ![q] = @ + 1]}
         \/ (passed[q] > 0 /\ passed' = [passed EXCEPT ![q] = @ - 1])
      /\ records' \in {records, [records EXCEPT ![q] = @ + 1]}
      /\ commits' \in {commits, [commits EXCEPT ![q] = @ + 1]}
         \/ (commits[q] > 0 /\ commits' = [commits EXCEPT ![q] = @ - 1])
  BY DEF Serving, Call, FindDuplicate, PutScrobble, CallFails, LockExpires, Ingest, IngestFails
<1>3. /\ offers' \in [Plays -> Nat] /\ \A p \in Plays \ {q} : offers'[p] = offers[p]
      /\ passed' \in [Plays -> Nat] /\ \A p \in Plays \ {q} : passed'[p] = passed[p]
      /\ records' \in [Plays -> Nat] /\ \A p \in Plays \ {q} : records'[p] = records[p]
      /\ commits' \in [Plays -> Nat]
  BY <1>0, <1>1, <1>2
<1>4. \A p \in Plays : records[p] <= records'[p]
  BY <1>0, <1>2
<1>5. /\ locks' \in {locks, locks \cup {q}, locks \ {q}}
      /\ rows' \in {rows, rows \cup {q}} /\ cut' \in {cut, cut \cup {q}}
      /\ lapsed' \in {lapsed, lapsed \cup {q}}
      /\ faults' = faults \/ Fault
      /\ UNCHANGED <<row, mirrorVars, provider, unsaid, puts>>
  BY DEF Serving, Call, FindDuplicate, PutScrobble, CallFails, LockExpires, Ingest, IngestFails
<1>6. faults' \in 0 .. MaxFaults
  BY <1>0, <1>5 DEF Fault
<1> QED
  BY <1>0, <1>3, <1>4, <1>5, <1>6

LEMMA CancelledFacts ==
    ASSUME TypeInv, NEW s \in Slots
    PROVE  /\ Cancelled(s) \in Pollers
           /\ Cancelled(s) = Dead <=> pollers[s] = Dead
           /\ pollers[s] # Dead =>
                /\ Cancelled(s).at = pollers[s].at /\ Cancelled(s).home = pollers[s].home
                /\ Cancelled(s).mark = pollers[s].mark
                /\ Cancelled(s).page = pollers[s].page /\ Cancelled(s).upto = pollers[s].upto
           /\ s = tasks /\ pollers[s] # Dead => Cancelled(s).cancelled
           /\ s # tasks => Cancelled(s) = pollers[s]
<1>1. pollers[s] \in Pollers /\ (pollers[s] # Dead => pollers[s] \in Works)
  BY TypeFacts
<1>2. CASE s = tasks /\ pollers[s] # Dead
  <2>1. Cancelled(s) = [pollers[s] EXCEPT !.cancelled = TRUE]
    BY <1>2 DEF Cancelled
  <2>2. Cancelled(s) \in Works /\ Cancelled(s).cancelled
    BY <1>1, <1>2, <2>1 DEF Works
  <2>3. /\ Cancelled(s).at = pollers[s].at /\ Cancelled(s).home = pollers[s].home
        /\ Cancelled(s).mark = pollers[s].mark
        /\ Cancelled(s).page = pollers[s].page /\ Cancelled(s).upto = pollers[s].upto
    BY <1>1, <1>2, <2>1 DEF Works
  <2> QED
    BY <1>2, <2>2, <2>3, DeadIsNoWork
<1>3. CASE ~(s = tasks /\ pollers[s] # Dead)
  BY <1>1, <1>3 DEF Cancelled
<1> QED
  BY <1>2, <1>3

LEMMA SpawnedFacts ==
    ASSUME TypeInv, NEW r \in Rows
    PROVE  /\ Spawned(r) \in Pollers
           /\ r.key = NoKey => Spawned(r) = Dead
           /\ r.key # NoKey =>
                /\ Spawned(r) \in Works /\ Spawned(r) # Dead
                /\ Spawned(r).at = "asleep" /\ ~Spawned(r).cancelled
                /\ Spawned(r).home = r /\ Spawned(r).mark = r.mark
<1>1. r.mark \in 0 .. MaxPlays /\ 0 \in 0 .. MaxPlays
  BY TypeFacts DEF Rows
<1>2. CASE r.key = NoKey
  BY <1>2, DeadIsNoWork DEF Spawned
<1>3. CASE r.key # NoKey
  <2>1. Spawned(r) = [at |-> "asleep", cancelled |-> FALSE, home |-> r, mark |-> r.mark, page |-> {}, upto |-> 0]
    BY <1>3 DEF Spawned
  <2>2. Spawned(r) \in Works
    BY <1>1, <2>1 DEF Works
  <2>3. /\ Spawned(r).at = "asleep" /\ ~Spawned(r).cancelled
        /\ Spawned(r).home = r /\ Spawned(r).mark = r.mark
    BY <2>1
  <2> QED
    BY <1>3, <2>2, <2>3, DeadIsNoWork
<1> QED
  BY <1>2, <1>3

\* What a reconciliation with row r leaves in each slot.
LEMMA ReconcileFacts ==
    ASSUME TypeInv, NEW r \in Rows, Reconcile(r)
    PROVE  /\ pollers' \in [Slots -> Pollers] /\ tasks' \in Slots \cup {NoPoller}
           /\ r.enabled => tasks' \in Slots /\ pollers'[tasks'] = Spawned(r)
           /\ ~r.enabled => tasks' = NoPoller
           /\ \A t \in Slots : t # tasks' => pollers'[t] = Cancelled(t)
<1>1. CASE r.enabled
  <2>1. tasks' \in Slots
    BY <1>1 DEF Reconcile, Free
  <2>2. pollers' = [t \in Slots |-> IF t = tasks' THEN Spawned(r) ELSE Cancelled(t)]
    BY <1>1 DEF Reconcile
  <2>3. pollers' \in [Slots -> Pollers]
    BY <2>2, CancelledFacts, SpawnedFacts
  <2> QED
    BY <1>1, <2>1, <2>2, <2>3
<1>2. CASE ~r.enabled
  <2>1. pollers' = [t \in Slots |-> Cancelled(t)] /\ tasks' = NoPoller
    BY <1>2 DEF Reconcile
  <2>2. pollers' \in [Slots -> Pollers]
    BY <2>1, CancelledFacts
  <2> QED
    BY <1>2, <2>1, <2>2
<1> QED
  BY <1>1, <1>2

LEMMA StepTypes ==
    ASSUME TypeInv, [Next]_vars
    PROVE  TypeInv'
<1>0. TypeOK /\ inbox <= puts
  BY DEF TypeInv
<1>1. ASSUME NEW elsewhere \in BOOLEAN, Play(elsewhere) PROVE TypeInv'
  <2>1. plays' \in 0 .. MaxPlays /\ plays' \in Plays
    BY <1>1, TypeFacts DEF Play, Plays
  <2>2. rows' \subseteq Plays
    BY <1>1, <2>1, TypeFacts DEF Play
  <2>3. hidden' \subseteq 1 .. plays' /\ faults' \in 0 .. MaxFaults
    <3>1. plays \in Nat /\ plays' = plays + 1 /\ hidden \subseteq 1 .. plays
          /\ (hidden' = hidden \/ hidden' = hidden \cup {plays'}) /\ (faults' = faults \/ Fault)
      BY <1>1, TypeFacts DEF Play
    <3>2. 1 .. plays \subseteq 1 .. plays' /\ plays' \in 1 .. plays'
      BY <3>1
    <3>3. faults' \in 0 .. MaxFaults
      BY <3>1, TypeFacts DEF Fault
    <3> QED
      BY <3>1, <3>2, <3>3
  <2> QED
    BY <1>0, <1>1, <2>1, <2>2, <2>3 DEF Play, mirrorVars, calls, TypeInv, TypeOK
<1>11. ASSUME NEW p \in Plays, Learn(p) PROVE TypeInv'
  <2>1. hidden' \subseteq 1 .. plays
    BY <1>11, TypeFacts DEF Learn
  <2> QED
    BY <1>0, <1>11, <2>1 DEF Learn, mirrorVars, apiVars, calls, TypeInv, TypeOK
<1>2. ASSUME NEW enabled \in BOOLEAN, NEW key \in {NoKey, row.key, puts + 1}, PutMirrorSource(enabled, key)
      PROVE  TypeInv'
  <2>1. Seed \in 0 .. MaxPlays
    BY TypeFacts DEF Seed
  <2>2. key \in Keys /\ puts' \in 0 .. MaxPuts /\ puts' = puts + 1
    BY <1>2, TypeFacts DEF PutMirrorSource, Keys, NoKey, Rows
  <2>3. row.mark \in 0 .. MaxPlays
    BY TypeFacts DEF Rows
  <2>4. row' \in Rows
    BY <1>2, <2>1, <2>2, <2>3 DEF PutMirrorSource, Rows
  <2>5. cut' \subseteq Plays
    <3>1. 1 .. Seed \subseteq Plays
      BY <2>1, TypeFacts DEF Plays
    <3> QED
      BY <1>2, <3>1, TypeFacts DEF PutMirrorSource, Unseen
  <2>6. (inbox' = inbox \/ inbox' = inbox + 1) /\ unsaid' \in BOOLEAN
    BY <1>0, <1>2 DEF PutMirrorSource, TypeOK
  <2>7. inbox' \in 0 .. MaxPuts /\ inbox' <= puts'
    BY <1>0, <2>2, <2>6, TypeFacts
  <2> QED
    BY <1>0, <1>2, <2>2, <2>4, <2>5, <2>6, <2>7 DEF PutMirrorSource, apiVars, calls, provider, TypeInv, TypeOK
<1>3. ASSUME LoadEnabled \/ Subscribe PROVE TypeInv'
  <2>1. sup' \in [at : {"unsubscribed", "ready"}] \cup [at : {"hydrating"}, row : Rows]
    BY <1>3, TypeFacts DEF LoadEnabled, Subscribe
  <2>2. unsaid' = FALSE \/ unsaid' = unsaid
    BY <1>3 DEF LoadEnabled, Subscribe
  <2>3. unsaid' \in BOOLEAN
    BY <1>0, <2>2 DEF TypeOK
  <2> QED
    BY <1>0, <1>3, <2>1, <2>3 DEF LoadEnabled, Subscribe, apiVars, calls, provider, TypeInv, TypeOK
<1>4. ASSUME Hydrate \/ EndReconcile PROVE TypeInv'
  <2>1. sup.row \in Rows /\ Reconcile(sup.row)
    BY <1>0, <1>4 DEF Hydrate, EndReconcile, TypeOK
  <2>2. sup' \in [at : {"unsubscribed", "ready"}]
    BY <1>4 DEF Hydrate, EndReconcile
  <2>3. pollers' \in [Slots -> Pollers] /\ tasks' \in Slots \cup {NoPoller}
    BY <2>1, ReconcileFacts
  <2> QED
    BY <1>0, <1>4, <2>2, <2>3 DEF Hydrate, EndReconcile, apiVars, calls, provider, TypeInv, TypeOK
<1>5. ASSUME LoadOne PROVE TypeInv'
  <2>1. inbox' \in 0 .. MaxPuts /\ inbox' <= puts /\ puts' = puts
    BY <1>0, <1>5, TypeFacts DEF LoadOne
  <2>2. sup' \in [at : {"reconciling"}, row : Rows] \cup {sup}
    BY <1>5, TypeFacts DEF LoadOne
  <2>4. unsaid' \in BOOLEAN
    <3>1. unsaid' = TRUE \/ unsaid' = unsaid
      BY <1>5 DEF LoadOne
    <3> QED
      BY <1>0, <3>1 DEF TypeOK
  <2>3. faults' \in 0 .. MaxFaults
    BY <1>5, TypeFacts DEF LoadOne, Fault
  <2> QED
    BY <1>0, <1>5, <2>1, <2>2, <2>3, <2>4 DEF LoadOne, apiVars, calls, provider, TypeInv, TypeOK
<1>6. ASSUME Restart PROVE TypeInv'
  <2>1. faults' \in 0 .. MaxFaults /\ inbox' \in 0 .. MaxPuts /\ inbox' <= puts
    BY <1>6, TypeFacts DEF Restart, Fault
  <2>2. pollers' \in [Slots -> Pollers]
    BY <1>6, DeadIsNoWork DEF Restart
  <2>3. sup' \in [at : {"boot"}]
    BY <1>6 DEF Restart
  <2> QED
    BY <1>0, <1>6, <2>1, <2>2, <2>3 DEF Restart, apiVars, calls, provider, TypeInv, TypeOK
<1>7. ASSUME NEW s \in Slots, Moves(s) PROVE TypeInv'
  <2>1. /\ pollers' \in [Slots -> Pollers] /\ pollers[s] \in Works
        /\ UNCHANGED <<sup, inbox, tasks, plays, hidden, passed, locks, records, commits,
                       lapsed, rows, unsaid, puts>>
    BY <1>7, PollerFacts
  <2>2. row' \in Rows
    <3>1. row' = row \/ row' = [row EXCEPT !.mark = pollers[s].upto]
      BY <1>7 DEF Moves, Fetch, Check, Offer, Touch, StartOver, Abort, Panic
    <3>2. pollers[s].upto \in 0 .. MaxPlays /\ row \in Rows
      BY <2>1, TypeFacts DEF Works
    <3> QED
      BY <3>1, <3>2 DEF Rows
  <2>3. faults' \in 0 .. MaxFaults
    <3>1. faults' = faults \/ Fault
      BY <1>7 DEF Moves, Fetch, Check, Offer, Touch, StartOver, Abort, Panic
    <3> QED
      BY <3>1, TypeFacts DEF Fault
  <2>4. cut' \subseteq Plays /\ offers' \in [Plays -> Nat]
    <3>1. CASE Fetch(s)
      <4>1. PICK page \in SUBSET Plays, upto \in 0 .. MaxPlays :
              cut' = cut \cup (Unseen(pollers[s].mark + 1, upto) \ page)
        BY <3>1, FetchFacts
      <4>2. pollers[s].mark \in 0 .. MaxPlays
        BY <2>1 DEF Works
      <4>3. pollers[s].mark + 1 .. upto \subseteq Plays
        BY <4>1, <4>2, TypeFacts DEF Plays
      <4> QED
        BY <3>1, <4>1, <4>3, TypeFacts DEF Fetch, Unseen, apiVars, calls
    <3>2. ASSUME NEW p \in Plays, Offer(s, p) PROVE cut' \subseteq Plays /\ offers' \in [Plays -> Nat]
      <4>1. (cut' = cut \/ cut' = cut \cup {p})
            /\ (offers' = offers \/ offers' = [offers EXCEPT ![p] = @ + 1])
        BY <3>2 DEF Offer
      <4> QED
        BY <4>1, TypeFacts
    <3>3. \/ \E p \in Plays : Check(s, p)
          \/ Touch(s) \/ StartOver(s) \/ Abort(s) \/ Panic(s)
          => UNCHANGED <<cut, offers>>
      BY DEF Check, Touch, StartOver, Abort, Panic, apiVars, calls
    <3> QED
      BY <1>7, <3>1, <3>2, <3>3, TypeFacts DEF Moves
  <2> QED
    BY <1>0, <2>1, <2>2, <2>3, <2>4 DEF TypeInv, TypeOK
<1>8. ASSUME NEW s \in Slots, Die(s) PROVE TypeInv'
  <2>1. pollers' \in [Slots -> Pollers]
    BY <1>8, DeadIsNoWork, TypeFacts DEF Die
  <2> QED
    BY <1>0, <1>8, <2>1 DEF Die, apiVars, calls, provider, TypeInv, TypeOK
<1>9. ASSUME NEW p \in Plays, Serving(p) PROVE TypeInv'
  BY <1>0, <1>9, ServingFacts DEF mirrorVars, provider, TypeInv, TypeOK
<1>10. CASE UNCHANGED vars
  BY <1>0, <1>10 DEF vars, mirrorVars, provider, apiVars, calls, TypeInv, TypeOK
<1> QED
  BY <1>1, <1>2, <1>3, <1>4, <1>5, <1>6, <1>7, <1>8, <1>9, <1>10, <1>11
     DEF Next, Supervisor, Poller, Moves, Serving

\* Type correctness: watermarks stay within the plays there may be, and a poller works
\* on plays that exist.
THEOREM MirrorTypeCorrect == Spec => []TypeOK
<1>1. TypeInv => TypeOK
  BY DEF TypeInv
<1> QED
  BY <1>1, InitTypes, StepTypes, PTL DEF Spec, Safety

-----------------------------------------------------------------------------
(* No play is passed over.  A watermark is the end of a poll, the seed of   *)
(* an enabling, or an older watermark, and behind each of them every play   *)
(* was seen; what was seen stays so.                                        *)

Behind(m) == \A p \in Plays : p <= m => Seen(p)

PollerBehind(s) ==
    pollers[s] # Dead =>
        /\ Behind(pollers[s].mark) /\ Behind(pollers[s].home.mark)
        /\ pollers[s].at \in {"check", "offer", "touch"} =>
             \A p \in Plays : p <= pollers[s].upto => Seen(p) \/ p \in pollers[s].page
        /\ pollers[s].at = "touch" => pollers[s].page = {}

\* Whoever took the key of a play put its record or left the play to nobody, so that the
\* call that finds the key taken may give up.
LocksHeld == \A p \in locks : records[p] > 0 \/ p \in cut

BehindInv ==
    /\ TypeInv /\ LocksHeld
    /\ Behind(row.mark)
    /\ sup.at \in {"hydrating", "reconciling"} => Behind(sup.row.mark)
    /\ \A s \in Slots : PollerBehind(s)

LEMMA StepLocks == ASSUME TypeInv, LocksHeld, [Next]_vars PROVE LocksHeld'
<1>1. UNCHANGED <<locks, records>> /\ cut \subseteq cut' => LocksHeld'
  BY DEF LocksHeld
<1>2. ASSUME NEW p \in Plays, Serving(p) PROVE LocksHeld'
  <2>1. /\ locks \subseteq Plays /\ records \in [Plays -> Nat] /\ locks' \subseteq Plays
        /\ records' \in [Plays -> Nat] /\ cut \subseteq cut'
        /\ \A q \in Plays : records[q] <= records'[q]
        /\ \A q \in Plays \ {p} : q \in locks' <=> q \in locks
    BY <1>2, TypeFacts, ServingFacts
  <2>2. p \in locks' => p \in locks \/ records'[p] > 0 \/ p \in cut'
    <3>1. PutScrobble(p) /\ p \notin locks => records' = [records EXCEPT ![p] = @ + 1] \/ p \in cut'
      BY DEF PutScrobble
    <3>2. records' = [records EXCEPT ![p] = @ + 1] => records'[p] > 0
      BY <2>1
    <3>3. FindDuplicate(p) \/ CallFails(p) \/ LockExpires(p) \/ Ingest(p) \/ IngestFails(p) => locks' \subseteq locks
      BY DEF FindDuplicate, CallFails, LockExpires, Ingest, IngestFails
    <3> QED
      BY <1>2, <3>1, <3>2, <3>3 DEF Serving, Call
  <2>3. ASSUME NEW q \in locks' PROVE records'[q] > 0 \/ q \in cut'
    <3>1. q \in Plays /\ records[q] \in Nat /\ records'[q] \in Nat /\ records[q] <= records'[q]
      BY <2>1, <2>3
    <3>2. q \in locks => records[q] > 0 \/ q \in cut
      BY DEF LocksHeld
    <3>3. q \in locks \/ records'[q] > 0 \/ q \in cut'
      BY <2>1, <2>2, <2>3, <3>1
    <3> QED
      BY <2>1, <3>1, <3>2, <3>3
  <2> QED
    BY <2>3 DEF LocksHeld
<1>3. (\E elsewhere \in BOOLEAN : Play(elsewhere)) \/ (\E p \in Plays : Learn(p)) => LocksHeld'
  BY <1>1 DEF Play, Learn, apiVars, calls
<1>4. ASSUME NEW enabled \in BOOLEAN, NEW key \in {NoKey, row.key, puts + 1}, PutMirrorSource(enabled, key)
      PROVE  LocksHeld'
  BY <1>1, <1>4 DEF PutMirrorSource, apiVars, calls
<1>5. Supervisor \/ Restart => LocksHeld'
  BY <1>1 DEF Supervisor, LoadEnabled, Hydrate, Subscribe, LoadOne, EndReconcile, Restart, apiVars, calls
<1>6. ASSUME NEW s \in Slots, Poller(s) \/ Abort(s) \/ Panic(s) PROVE LocksHeld'
  BY <1>1, <1>6 DEF Poller, Fetch, Check, Offer, Touch, StartOver, Die, Abort, Panic, apiVars, calls
<1>7. UNCHANGED vars => LocksHeld'
  BY <1>1 DEF vars, apiVars, calls
<1> QED
  BY <1>2, <1>3, <1>4, <1>5, <1>6, <1>7 DEF Next, Serving

\* What has been seen stays seen: a call ends with a row, a record or a key that is taken.
LEMMA SeenStays ==
    ASSUME TypeInv, LocksHeld, [Next]_vars, NEW p \in Plays, Seen(p)
    PROVE  Seen(p)'
<1>0. offers[p] \in Nat /\ passed[p] \in Nat /\ records[p] \in Nat /\ p \in Plays
  BY TypeFacts
<1>1. rows \subseteq rows' /\ cut \subseteq cut' /\ UNCHANGED <<offers, passed, records>> => Seen(p)'
  BY DEF Seen
<1>2. (\E elsewhere \in BOOLEAN : Play(elsewhere)) \/ (\E q \in Plays : Learn(q)) => Seen(p)'
  BY <1>1 DEF Play, Learn, apiVars, calls
<1>3. ASSUME NEW enabled \in BOOLEAN, NEW key \in {NoKey, row.key, puts + 1}, PutMirrorSource(enabled, key)
      PROVE  Seen(p)'
  BY <1>1, <1>3 DEF PutMirrorSource, apiVars, calls
<1>4. Supervisor \/ Restart => Seen(p)'
  BY <1>1 DEF Supervisor, LoadEnabled, Hydrate, Subscribe, LoadOne, EndReconcile, Restart, apiVars, calls
<1>5. ASSUME NEW s \in Slots, Poller(s) \/ Abort(s) \/ Panic(s) PROVE Seen(p)'
  <2>1. ASSUME NEW q \in Plays, Offer(s, q) PROVE Seen(p)'
    <3>1. rows' = rows /\ passed' = passed /\ records' = records /\ cut \subseteq cut'
          /\ (offers' = offers \/ offers' = [offers EXCEPT ![q] = @ + 1])
      BY <2>1 DEF Offer
    <3>2. offers'[p] = offers[p] \/ offers'[p] = offers[p] + 1
      BY <3>1, TypeFacts
    <3> QED
      BY <1>0, <3>1, <3>2 DEF Seen
  <2>2. Fetch(s) \/ (\E q \in Plays : Check(s, q)) \/ Touch(s) \/ StartOver(s) \/ Die(s) \/ Abort(s) \/ Panic(s)
        => Seen(p)'
    BY <1>1 DEF Fetch, Check, Touch, StartOver, Die, Abort, Panic, apiVars, calls
  <2> QED
    BY <1>5, <2>1, <2>2 DEF Poller
<1>6. ASSUME NEW q \in Plays, Serving(q) PROVE Seen(p)'
  <2>1. /\ rows \subseteq rows' /\ cut \subseteq cut' /\ records[p] <= records'[p]
        /\ p # q => offers'[p] = offers[p] /\ passed'[p] = passed[p]
        /\ offers'[p] \in Nat /\ passed'[p] \in Nat /\ records'[p] \in Nat
    BY <1>6, ServingFacts
  <2>2. p # q \/ (offers'[p] = offers[p] /\ passed'[p] = passed[p]) => Seen(p)'
    BY <1>0, <2>1 DEF Seen
  <2>3. CASE FindDuplicate(q) /\ p = q
    <3>1. p \in rows \/ passed' = [passed EXCEPT ![p] = @ + 1]
      BY <2>3 DEF FindDuplicate
    <3>2. passed' = [passed EXCEPT ![p] = @ + 1] => passed'[p] > 0
      BY <1>0, TypeFacts
    <3> QED
      BY <2>1, <3>1, <3>2 DEF Seen
  <2>4. CASE PutScrobble(q) /\ p = q
    <3>1. p \in locks \/ records' = [records EXCEPT ![p] = @ + 1] \/ p \in cut'
      BY <2>4 DEF PutScrobble
    <3>2. records' = [records EXCEPT ![p] = @ + 1] => records'[p] > 0
      BY <1>0, TypeFacts
    <3>3. p \in locks => records[p] > 0 \/ p \in cut
      BY DEF LocksHeld
    <3> QED
      BY <1>0, <2>1, <3>1, <3>2, <3>3 DEF Seen
  <2>5. CASE CallFails(q) /\ p = q
    BY <2>5 DEF CallFails, Seen
  <2>6. LockExpires(q) \/ Ingest(q) \/ IngestFails(q) => Seen(p)'
    BY <2>2 DEF LockExpires, Ingest, IngestFails
  <2> QED
    BY <1>6, <2>2, <2>3, <2>4, <2>5, <2>6 DEF Serving, Call
<1>7. UNCHANGED vars => Seen(p)'
  BY <1>1 DEF vars, apiVars, calls
<1> QED
  BY <1>2, <1>3, <1>4, <1>5, <1>6, <1>7 DEF Next, Serving

LEMMA BehindStays ==
    ASSUME TypeInv, LocksHeld, [Next]_vars, NEW m, Behind(m)
    PROVE  \A p \in Plays : p <= m => Seen(p)'
BY SeenStays DEF Behind

LEMMA InitBehind == Init => BehindInv
<1> SUFFICES ASSUME Init PROVE BehindInv
  OBVIOUS
<1>1. TypeInv
  BY InitTypes
<1>2. \A s \in Slots : PollerBehind(s)
  BY DEF Init, PollerBehind
<1>3. Behind(row.mark)
  BY DEF Init, Behind, Plays
<1>4. LocksHeld
  BY DEF Init, LocksHeld
<1> QED
  BY <1>1, <1>2, <1>3, <1>4 DEF Init, BehindInv

\* The poll of a poller: it passes over what it has cut or found, and no more.
LEMMA PollerStepBehind ==
    ASSUME BehindInv, NEW s \in Slots, Moves(s)
    PROVE  PollerBehind(s)'
<1> DEFINE After(m) == \A p \in Plays : p <= m => Seen(p)'
           AllBut(m, page) == \A p \in Plays : p <= m => Seen(p)' \/ p \in page
<1>0. /\ TypeInv /\ LocksHeld /\ PollerBehind(s) /\ pollers[s] \in Works /\ pollers[s] # Dead
      /\ [Next]_vars /\ pollers \in [Slots -> Pollers]
  BY PollerFacts, DeadIsNoWork, TypeFacts DEF BehindInv, Next, Poller, Moves
<1>1. /\ pollers[s].mark \in 0 .. MaxPlays /\ pollers[s].upto \in 0 .. MaxPlays
      /\ pollers[s].page \subseteq Plays /\ pollers'[s].home = pollers[s].home
      /\ \A p \in Plays : p \in Nat \ {0}
      /\ MaxPlays \in Nat
  BY <1>0, PollerFacts, TypeFacts DEF Works
<1>2. ASSUME NEW m, Behind(m) PROVE After(m)
  BY <1>0, <1>2, BehindStays
<1>3. /\ After(pollers[s].mark) /\ After(pollers[s].home.mark)
      /\ pollers[s].at \in {"check", "offer", "touch"} => AllBut(pollers[s].upto, pollers[s].page)
      /\ pollers[s].at = "touch" => pollers[s].page = {}
  BY <1>0, <1>2, SeenStays DEF PollerBehind
<1> HIDE DEF After, AllBut
<1>4. SUFFICES /\ After(pollers'[s].mark)
               /\ pollers'[s].at \in {"check", "offer", "touch"} => AllBut(pollers'[s].upto, pollers'[s].page)
               /\ pollers'[s].at = "touch" => pollers'[s].page = {}
  BY <1>1, <1>3 DEF PollerBehind, Behind, After, AllBut
<1>5. CASE Fetch(s)
  <2>1. PICK page \in SUBSET Plays, upto \in 0 .. MaxPlays :
          /\ pollers' = [pollers EXCEPT ![s].at = IF page = {} THEN "touch" ELSE "check",
                                        ![s].page = page, ![s].upto = upto]
          /\ cut' = cut \cup (Unseen(pollers[s].mark + 1, upto) \ page)
    BY <1>0, <1>5, FetchFacts
  <2>2. /\ pollers'[s].mark = pollers[s].mark /\ pollers'[s].page = page
        /\ pollers'[s].upto = upto /\ pollers'[s].at = (IF page = {} THEN "touch" ELSE "check")
    BY <1>0, <2>1 DEF Works
  <2>3. ASSUME NEW p \in Plays, p <= upto PROVE Seen(p)' \/ p \in page
    <3>1. CASE p <= pollers[s].mark
      BY <1>3, <3>1 DEF After
    <3>2. CASE ~(p <= pollers[s].mark)
      <4>1. p \in pollers[s].mark + 1 .. upto
        BY <1>1, <2>3, <3>2
      <4>2. Seen(p) \/ p \in cut' \/ p \in page
        BY <2>1, <4>1 DEF Unseen
      <4> QED
        BY <1>0, <4>2, SeenStays DEF Seen
    <3> QED
      BY <3>1, <3>2
  <2>4. AllBut(upto, page)
    BY <2>3 DEF AllBut
  <2> QED
    BY <1>3, <2>2, <2>4
<1>6. ASSUME NEW q \in Plays, Check(s, q) \/ Offer(s, q)
      PROVE  /\ After(pollers'[s].mark)
             /\ pollers'[s].at \in {"check", "offer", "touch"} => AllBut(pollers'[s].upto, pollers'[s].page)
             /\ pollers'[s].at = "touch" => pollers'[s].page = {}
  <2>1. pollers[s].at \in {"check", "offer"} /\ q \in pollers[s].page
    BY <1>6 DEF Check, Offer, At, Due
  <2>2. AllBut(pollers[s].upto, pollers[s].page)
    BY <1>3, <2>1
  <2>3. CASE pollers' = [pollers EXCEPT ![s].at = "offer"]
    <3>1. /\ pollers'[s].mark = pollers[s].mark /\ pollers'[s].page = pollers[s].page
          /\ pollers'[s].upto = pollers[s].upto /\ pollers'[s].at = "offer"
      BY <1>0, <2>3 DEF Works
    <3> QED
      BY <1>3, <2>2, <3>1
  <2>4. CASE pollers' = Onward(s, q) /\ Seen(q)'
    <3> DEFINE step == IF pollers[s].page = {q} THEN "touch" ELSE "check"
    <3>1. pollers' = [pollers EXCEPT ![s].page = @ \ {q}, ![s].at = step]
      BY <2>4 DEF Onward
    <3>2. step = "touch" => pollers[s].page \ {q} = {}
      OBVIOUS
    <3> HIDE DEF step
    <3>3. /\ pollers'[s].mark = pollers[s].mark /\ pollers'[s].page = pollers[s].page \ {q}
          /\ pollers'[s].upto = pollers[s].upto /\ pollers'[s].at = step
      BY <1>0, <3>1 DEF Works
    <3>4. AllBut(pollers[s].upto, pollers[s].page \ {q})
      BY <2>2, <2>4 DEF AllBut
    <3> QED
      BY <1>3, <3>2, <3>3, <3>4
  <2>5. CASE Check(s, q)
    <3>1. pollers' = [pollers EXCEPT ![s].at = "offer"] \/ (q \in rows /\ pollers' = Onward(s, q))
      BY <2>5 DEF Check
    <3>2. q \in rows => Seen(q)'
      BY <2>5 DEF Check, Seen, apiVars
    <3> QED
      BY <2>3, <2>4, <3>1, <3>2
  <2>6. CASE Offer(s, q)
    <3>1. CASE offers' = [offers EXCEPT ![q] = @ + 1]
      <4>1. offers'[q] = offers[q] + 1 /\ offers[q] \in Nat
        BY <1>0, <3>1, TypeFacts
      <4>2. offers'[q] > 0
        BY <4>1
      <4> QED
        BY <2>4, <2>6, <4>2 DEF Offer, Seen
    <3>2. CASE cut' = cut \cup {q}
      BY <2>4, <2>6, <3>2 DEF Offer, Seen
    <3> QED
      BY <2>6, <3>1, <3>2 DEF Offer
  <2> QED
    BY <1>6, <2>5, <2>6
<1>7. ASSUME NEW m \in 0 .. MaxPlays, After(m), pollers' = Asleep(s, m)
      PROVE  /\ After(pollers'[s].mark)
             /\ pollers'[s].at \in {"check", "offer", "touch"} => AllBut(pollers'[s].upto, pollers'[s].page)
             /\ pollers'[s].at = "touch" => pollers'[s].page = {}
  <2>1. pollers'[s].mark = m /\ pollers'[s].at = "asleep"
    BY <1>0, <1>7 DEF Asleep, Works
  <2> QED
    BY <1>7, <2>1
<1>8. CASE Touch(s)
  <2>1. pollers[s].at = "touch" /\ pollers' = Asleep(s, pollers[s].upto)
    BY <1>8 DEF Touch, At
  <2>2. After(pollers[s].upto)
    BY <1>3, <2>1 DEF After, AllBut
  <2> QED
    BY <1>1, <1>7, <2>1, <2>2
<1>9. CASE StartOver(s)
  <2>1. pollers' = Asleep(s, pollers[s].home.mark) /\ pollers[s].home.mark \in 0 .. MaxPlays
    BY <1>0, <1>9 DEF StartOver, Works, Rows
  <2> QED
    BY <1>3, <1>7, <2>1
<1>10. CASE Abort(s)
  BY <1>1, <1>3, <1>7, <1>10 DEF Abort
<1>11. CASE Panic(s)
  <2>1. pollers' = [pollers EXCEPT ![s].at = "backoff", ![s].page = {}, ![s].upto = 0]
    BY <1>11 DEF Panic
  <2>2. pollers'[s].mark = pollers[s].mark /\ pollers'[s].at = "backoff"
    BY <1>0, <2>1 DEF Works
  <2> QED
    BY <1>3, <2>2
<1> QED
  BY <1>5, <1>6, <1>8, <1>9, <1>10, <1>11 DEF Moves

\* A reconciliation cancels what was behind, and spawns with a watermark that is.
LEMMA ReconcileBehind ==
    ASSUME BehindInv, [Next]_vars, NEW r \in Rows, Behind(r.mark), Reconcile(r), NEW t \in Slots
    PROVE  PollerBehind(t)'
<1>0. TypeInv /\ LocksHeld /\ PollerBehind(t)
  BY DEF BehindInv
<1>1. ASSUME NEW m, Behind(m) PROVE \A p \in Plays : p <= m => Seen(p)'
  BY <1>0, <1>1, BehindStays
<1>2. CASE r.enabled /\ t = tasks'
  <2>1. pollers'[t] = Spawned(r)
    BY <1>0, <1>2, ReconcileFacts
  <2>2. CASE r.key = NoKey
    BY <1>0, <2>1, <2>2, SpawnedFacts DEF PollerBehind
  <2>3. CASE r.key # NoKey
    <3>1. pollers'[t].mark = r.mark /\ pollers'[t].home = r /\ pollers'[t].at = "asleep"
      BY <1>0, <2>1, <2>3, SpawnedFacts
    <3> QED
      BY <1>1, <3>1 DEF PollerBehind, Behind
  <2> QED
    BY <2>2, <2>3
<1>3. CASE t # tasks'
  <2>1. pollers'[t] = Cancelled(t)
    BY <1>0, <1>3, ReconcileFacts
  <2>2. CASE pollers[t] = Dead
    BY <1>0, <2>1, <2>2, CancelledFacts DEF PollerBehind
  <2>3. CASE pollers[t] # Dead
    <3>1. /\ pollers'[t].at = pollers[t].at /\ pollers'[t].home = pollers[t].home
          /\ pollers'[t].mark = pollers[t].mark
          /\ pollers'[t].page = pollers[t].page /\ pollers'[t].upto = pollers[t].upto
      BY <1>0, <2>1, <2>3, CancelledFacts
    <3>2. \A p \in Plays : Seen(p) => Seen(p)'
      BY <1>0, SeenStays
    <3> QED
      BY <1>0, <1>1, <2>3, <3>1, <3>2 DEF PollerBehind, Behind
  <2> QED
    BY <2>2, <2>3
<1>4. t = tasks' => r.enabled
  BY <1>0, ReconcileFacts, MirrorAssumption
<1> QED
  BY <1>2, <1>3, <1>4

LEMMA StepBehind == ASSUME BehindInv, [Next]_vars PROVE BehindInv'
<1>0. TypeInv /\ LocksHeld /\ Behind(row.mark) /\ TypeInv' /\ LocksHeld'
      /\ (sup.at \in {"hydrating", "reconciling"} => Behind(sup.row.mark))
  BY StepTypes, StepLocks DEF BehindInv
<1>1. ASSUME NEW m, Behind(m) PROVE \A p \in Plays : p <= m => Seen(p)'
  BY <1>0, <1>1, BehindStays
<1>2. ASSUME NEW s \in Slots, UNCHANGED pollers PROVE PollerBehind(s)'
  <2>1. \A p \in Plays : Seen(p) => Seen(p)'
    BY <1>0, SeenStays
  <2> QED
    BY <1>2, <2>1 DEF BehindInv, PollerBehind, Behind
<1>3. UNCHANGED row => Behind(row.mark)'
  BY <1>0, <1>1 DEF Behind
<1>4. UNCHANGED sup => (sup.at \in {"hydrating", "reconciling"} => Behind(sup.row.mark))'
  BY <1>0, <1>1 DEF Behind
<1>5. ASSUME NEW elsewhere \in BOOLEAN, Play(elsewhere) PROVE BehindInv'
  BY <1>0, <1>2, <1>3, <1>4, <1>5 DEF Play, mirrorVars, BehindInv
<1>6. ASSUME NEW enabled \in BOOLEAN, NEW key \in {NoKey, row.key, puts + 1}, PutMirrorSource(enabled, key)
      PROVE  BehindInv'
  <2>1. UNCHANGED <<sup, pollers>>
    BY <1>6 DEF PutMirrorSource
  <2>2. row'.mark = (IF enabled /\ ~row.enabled THEN Seed ELSE row.mark)
        /\ (enabled /\ ~row.enabled => cut' = cut \cup Unseen(1, Seed))
        /\ UNCHANGED <<rows, calls>>
    BY <1>6 DEF PutMirrorSource, apiVars
  <2>3. Behind(row.mark)'
    <3>1. CASE enabled /\ ~row.enabled
      <4>1. Seed \in Nat
        BY <1>0, TypeFacts DEF Seed
      <4>2. PICK seed \in Nat : seed = Seed
        BY <4>1
      <4>3. ASSUME NEW p \in Plays, p <= seed PROVE Seen(p)'
        <5>1. p \in 1 .. seed
          BY <1>0, <4>2, <4>3, TypeFacts
        <5>2. Seen(p) \/ p \in cut'
          BY <2>2, <3>1, <4>2, <5>1 DEF Unseen
        <5> QED
          BY <2>2, <5>2, <3>1 DEF Seen, calls
      <4>4. row'.mark = seed
        BY <2>2, <3>1, <4>2
      <4> QED
        BY <4>3, <4>4 DEF Behind
    <3>2. CASE ~(enabled /\ ~row.enabled)
      BY <1>0, <1>1, <2>2, <3>2 DEF Behind
    <3> QED
      BY <3>1, <3>2
  <2> QED
    BY <1>0, <1>2, <1>4, <2>1, <2>3 DEF BehindInv
<1>7. ASSUME LoadEnabled \/ LoadOne PROVE BehindInv'
  <2>1. UNCHANGED <<row, pollers>> /\ (sup' = sup \/ sup'.row = row)
    BY <1>7 DEF LoadEnabled, LoadOne
  <2>2. CASE sup'.row = row
    BY <1>0, <1>1, <1>2, <1>3, <2>1, <2>2 DEF BehindInv, Behind
  <2>3. CASE sup' = sup
    BY <1>0, <1>2, <1>3, <1>4, <2>1, <2>3 DEF BehindInv
  <2> QED
    BY <2>1, <2>2, <2>3
<1>8. ASSUME Subscribe PROVE BehindInv'
  BY <1>0, <1>2, <1>3, <1>8 DEF Subscribe, BehindInv
<1>9. ASSUME Hydrate \/ EndReconcile PROVE BehindInv'
  <2>1. /\ sup.at \in {"hydrating", "reconciling"} /\ Reconcile(sup.row)
        /\ sup'.at \in {"unsubscribed", "ready"} /\ UNCHANGED row
    BY <1>9 DEF Hydrate, EndReconcile
  <2>2. sup.row \in Rows
    BY <1>0, <2>1 DEF TypeInv, TypeOK
  <2>3. \A t \in Slots : PollerBehind(t)'
    BY <1>0, <2>1, <2>2, ReconcileBehind
  <2> QED
    BY <1>0, <1>3, <2>1, <2>3 DEF BehindInv
<1>10. ASSUME Restart PROVE BehindInv'
  <2>1. /\ sup'.at = "boot" /\ UNCHANGED row /\ \A s \in Slots : pollers'[s] = Dead
    BY <1>10 DEF Restart
  <2> QED
    BY <1>0, <1>3, <2>1 DEF BehindInv, PollerBehind
<1>11. ASSUME NEW s \in Slots, Moves(s) PROVE BehindInv'
  <2>1. PollerBehind(s)' /\ \A t \in Slots \ {s} : pollers'[t] = pollers[t]
    BY <1>0, <1>11, PollerStepBehind, PollerFacts
  <2>2. ASSUME NEW t \in Slots PROVE PollerBehind(t)'
    <3>1. CASE t # s
      <4>1. pollers'[t] = pollers[t] /\ \A p \in Plays : Seen(p) => Seen(p)'
        BY <1>0, <2>1, <3>1, SeenStays
      <4> QED
        BY <4>1 DEF BehindInv, PollerBehind, Behind
    <3> QED
      BY <2>1, <3>1
  <2>3. UNCHANGED sup
    BY <1>0, <1>11, PollerFacts
  <2>4. Behind(row.mark)'
    <3>1. row' = row \/ (At(s, "touch") /\ row' = [row EXCEPT !.mark = pollers[s].upto])
      BY <1>11 DEF Moves, Fetch, Check, Offer, Touch, StartOver, Abort, Panic
    <3>2. CASE At(s, "touch") /\ row' = [row EXCEPT !.mark = pollers[s].upto]
      <4>1. row'.mark = pollers[s].upto
        BY <1>0, <3>2, TypeFacts DEF Rows
      <4>2. Behind(pollers[s].upto)
        BY <3>2 DEF At, BehindInv, PollerBehind, Behind
      <4> QED
        BY <1>1, <4>1, <4>2 DEF Behind
    <3> QED
      BY <1>3, <3>1, <3>2
  <2> QED
    BY <1>0, <1>4, <2>2, <2>3, <2>4 DEF BehindInv
<1>12. ASSUME NEW s \in Slots, Die(s) PROVE BehindInv'
  <2>1. pollers' = [pollers EXCEPT ![s] = Dead] /\ UNCHANGED <<row, sup>>
    BY <1>12 DEF Die
  <2>2. ASSUME NEW t \in Slots PROVE PollerBehind(t)'
    <3>1. pollers'[t] = Dead \/ pollers'[t] = pollers[t]
      BY <1>0, <2>1, TypeFacts
    <3>2. \A p \in Plays : Seen(p) => Seen(p)'
      BY <1>0, SeenStays
    <3> QED
      BY <3>1, <3>2 DEF BehindInv, PollerBehind, Behind
  <2> QED
    BY <1>0, <1>3, <1>4, <2>1, <2>2 DEF BehindInv
<1>13. ASSUME NEW p \in Plays, Serving(p) PROVE BehindInv'
  <2>1. UNCHANGED <<row, mirrorVars>>
    BY <1>0, <1>13, ServingFacts
  <2> QED
    BY <1>0, <1>2, <1>3, <1>4, <2>1 DEF mirrorVars, BehindInv
<1>14. CASE UNCHANGED vars
  BY <1>0, <1>2, <1>3, <1>4, <1>14 DEF vars, mirrorVars, BehindInv
<1>15. ASSUME NEW p \in Plays, Learn(p) PROVE BehindInv'
  BY <1>0, <1>2, <1>3, <1>4, <1>15 DEF Learn, mirrorVars, BehindInv
<1> QED
  BY <1>5, <1>6, <1>7, <1>8, <1>9, <1>10, <1>11, <1>12, <1>13, <1>14, <1>15
     DEF Next, Supervisor, Poller, Moves, Serving

\* No watermark passes a play that nobody saw, however many cancelled pollers still
\* write theirs, and whichever old row a panic or a restart goes back to.
THEOREM MirrorNothingPassedOver == Spec => []NothingPassedOver
<1>1. ASSUME BehindInv PROVE NothingPassedOver
  <2>1. ASSUME NEW m \in 0 .. MaxPlays, Behind(m) PROVE \A p \in 1 .. m : Seen(p)
    BY <2>1, MirrorAssumption DEF Behind, Plays
  <2>2. \A p \in 1 .. row.mark : Seen(p)
    <3>1. row.mark \in 0 .. MaxPlays /\ Behind(row.mark)
      BY <1>1, TypeFacts DEF BehindInv, Rows
    <3> QED
      BY <2>1, <3>1
  <2>3. ASSUME NEW s \in Slots, pollers[s] # Dead
        PROVE  (\A p \in 1 .. pollers[s].mark : Seen(p)) /\ \A p \in 1 .. pollers[s].home.mark : Seen(p)
    <3>1. pollers[s] \in Works /\ Behind(pollers[s].mark) /\ Behind(pollers[s].home.mark)
      BY <1>1, <2>3, TypeFacts DEF BehindInv, PollerBehind
    <3>2. pollers[s].mark \in 0 .. MaxPlays /\ pollers[s].home.mark \in 0 .. MaxPlays
      BY <3>1 DEF Works, Rows
    <3> QED
      BY <2>1, <3>1, <3>2
  <2>4. sup.at \in {"hydrating", "reconciling"} => \A p \in 1 .. sup.row.mark : Seen(p)
    <3> SUFFICES ASSUME sup.at \in {"hydrating", "reconciling"} PROVE \A p \in 1 .. sup.row.mark : Seen(p)
      OBVIOUS
    <3>1. sup.row \in Rows /\ Behind(sup.row.mark)
      BY <1>1 DEF BehindInv, TypeInv, TypeOK
    <3>2. sup.row.mark \in 0 .. MaxPlays
      BY <3>1 DEF Rows
    <3> QED
      BY <2>1, <3>1, <3>2
  <2> QED
    BY <2>2, <2>3, <2>4 DEF NothingPassedOver
<1> QED
  BY <1>1, InitBehind, StepBehind, PTL DEF Spec, Safety

-----------------------------------------------------------------------------
(* A supervisor that has heard of every change keeps the poller of its row. *)

Live(s) == pollers[s] # Dead /\ ~pollers[s].cancelled

Serves(r) ==
    IF r.enabled /\ r.key # NoKey
    THEN tasks \in Slots /\ Live(tasks) /\ pollers[tasks].home.key = r.key
    ELSE \A s \in Slots : ~Live(s)

FollowInv ==
    /\ TypeInv
    /\ \A s \in Slots : Live(s) => s = tasks
    /\ sup.at \in {"boot", "hydrating", "unsubscribed"} => inbox = 0
    /\ sup.at \in {"boot", "hydrating"} => \A s \in Slots : pollers[s] = Dead
    /\ inbox = 0 /\ ~unsaid =>
        /\ sup.at \in {"hydrating", "reconciling"} => sup.row.enabled = row.enabled /\ sup.row.key = row.key
        /\ sup.at \in {"unsubscribed", "ready"} => Serves(row)

LEMMA InitFollow == Init => FollowInv
<1> SUFFICES ASSUME Init PROVE FollowInv
  OBVIOUS
<1>1. TypeInv
  BY InitTypes
<1> QED
  BY <1>1 DEF Init, FollowInv, Live

\* A step that leaves who is live, the supervisor and the row's settings alone.
LEMMA UnmovedFollow ==
    ASSUME FollowInv, TypeInv', UNCHANGED <<sup, inbox, tasks, unsaid>>,
           row'.enabled = row.enabled, row'.key = row.key,
           \A s \in Slots : Live(s)' <=> Live(s),
           \A s \in Slots : Live(s) => pollers'[s].home = pollers[s].home,
           \A s \in Slots : pollers[s] = Dead => pollers'[s] = Dead
    PROVE  FollowInv'
<1>1. tasks \in Slots => (Live(tasks)' <=> Live(tasks))
  OBVIOUS
<1>2. Serves(row) => Serves(row)'
  BY <1>1 DEF Serves
<1>3. TypeInv' /\ \A s \in Slots : Live(s)' => s = tasks'
  BY DEF FollowInv
<1>4. (sup.at \in {"boot", "hydrating", "unsubscribed"} => inbox = 0)'
  BY DEF FollowInv
<1>5. (sup.at \in {"boot", "hydrating"} => \A s \in Slots : pollers[s] = Dead)'
  BY DEF FollowInv
<1>6. (inbox = 0 /\ ~unsaid =>
        /\ sup.at \in {"hydrating", "reconciling"} => sup.row.enabled = row.enabled /\ sup.row.key = row.key
        /\ sup.at \in {"unsubscribed", "ready"} => Serves(row))'
  BY <1>2 DEF FollowInv
<1> QED
  BY <1>3, <1>4, <1>5, <1>6 DEF FollowInv

\* After a reconciliation, the row it had is served, and by one poller.
LEMMA ReconcileFollow ==
    ASSUME FollowInv, NEW r \in Rows, Reconcile(r)
    PROVE  /\ \A s \in Slots : Live(s)' => s = tasks'
           /\ row'.enabled = r.enabled /\ row'.key = r.key => Serves(row)'
<1>0. TypeInv /\ \A s \in Slots : Live(s) => s = tasks
  BY DEF FollowInv
<1>1. ASSUME NEW s \in Slots, s # tasks' PROVE ~Live(s)'
  <2>1. pollers'[s] = Cancelled(s)
    BY <1>0, <1>1, ReconcileFacts
  <2>2. CASE pollers[s] = Dead
    BY <1>0, <2>1, <2>2, CancelledFacts DEF Live
  <2>3. CASE pollers[s] # Dead /\ s = tasks
    BY <1>0, <2>1, <2>3, CancelledFacts DEF Live
  <2>4. CASE pollers[s] # Dead /\ s # tasks
    BY <1>0, <2>1, <2>4, CancelledFacts DEF Live
  <2> QED
    BY <2>2, <2>3, <2>4
<1>2. ASSUME r.enabled, r.key # NoKey PROVE tasks' \in Slots /\ Live(tasks)' /\ pollers'[tasks'].home.key = r.key
  <2>1. tasks' \in Slots /\ pollers'[tasks'] = Spawned(r)
    BY <1>0, <1>2, ReconcileFacts
  <2> QED
    BY <1>0, <1>2, <2>1, SpawnedFacts DEF Live
<1>3. ASSUME ~(r.enabled /\ r.key # NoKey), NEW s \in Slots PROVE ~Live(s)'
  <2>1. CASE r.enabled /\ s = tasks'
    <3>1. pollers'[s] = Dead
      BY <1>0, <1>3, <2>1, ReconcileFacts, SpawnedFacts
    <3> QED
      BY <3>1 DEF Live
  <2>2. CASE ~r.enabled
    <3>1. s # tasks'
      BY <1>0, <2>2, ReconcileFacts, MirrorAssumption
    <3> QED
      BY <1>1, <3>1
  <2> QED
    BY <1>1, <2>1, <2>2
<1> QED
  BY <1>1, <1>2, <1>3 DEF Serves

LEMMA StepFollow == ASSUME FollowInv, [Next]_vars PROVE FollowInv'
<1>0. /\ TypeInv /\ TypeInv' /\ inbox \in Nat
      /\ \A s \in Slots : Live(s) => s = tasks
      /\ sup.at \in {"boot", "hydrating", "unsubscribed"} => inbox = 0
      /\ sup.at \in {"boot", "hydrating"} => \A s \in Slots : pollers[s] = Dead
      /\ inbox = 0 /\ ~unsaid =>
           /\ sup.at \in {"hydrating", "reconciling"} => sup.row.enabled = row.enabled /\ sup.row.key = row.key
           /\ sup.at \in {"unsubscribed", "ready"} => Serves(row)
  BY StepTypes, TypeFacts DEF FollowInv
<1>1. ASSUME NEW elsewhere \in BOOLEAN, Play(elsewhere) PROVE FollowInv'
  BY <1>0, <1>1, UnmovedFollow DEF Play, mirrorVars, Live
<1>2. ASSUME NEW enabled \in BOOLEAN, NEW key \in {NoKey, row.key, puts + 1}, PutMirrorSource(enabled, key)
      PROVE  FollowInv'
  <2>1. UNCHANGED <<sup, tasks, pollers>>
        /\ IF Subscribed THEN inbox' = inbox + 1 ELSE unsaid' /\ UNCHANGED inbox
    BY <1>2 DEF PutMirrorSource
  <2>2. inbox' = 0 => unsaid'
    BY <1>0, <2>1
  <2>3. \A s \in Slots : Live(s)' => s = tasks'
    BY <1>0, <2>1 DEF Live
  <2>4. sup'.at \in {"boot", "hydrating", "unsubscribed"} => inbox' = 0
    BY <1>0, <2>1 DEF Subscribed
  <2> QED
    BY <1>0, <2>1, <2>2, <2>3, <2>4 DEF FollowInv
<1>3. ASSUME LoadEnabled PROVE FollowInv'
  BY <1>0, <1>3 DEF LoadEnabled, FollowInv, Live
<1>4. ASSUME Hydrate \/ EndReconcile PROVE FollowInv'
  <2>1. /\ sup.at \in {"hydrating", "reconciling"} /\ Reconcile(sup.row)
        /\ sup'.at \in {"unsubscribed", "ready"} /\ (sup'.at = "unsubscribed" => sup.at = "hydrating")
        /\ UNCHANGED <<row, inbox, unsaid>>
    BY <1>4 DEF Hydrate, EndReconcile
  <2>2. sup.row \in Rows
    BY <1>0, <2>1 DEF TypeInv, TypeOK
  <2>3. /\ \A s \in Slots : Live(s)' => s = tasks'
        /\ row'.enabled = sup.row.enabled /\ row'.key = sup.row.key => Serves(row)'
    BY <2>1, <2>2, ReconcileFollow
  <2> QED
    BY <1>0, <2>1, <2>3 DEF FollowInv
<1>5. ASSUME Subscribe PROVE FollowInv'
  <2>1. sup.at = "unsubscribed" /\ sup'.at = "ready" /\ UNCHANGED <<row, inbox, tasks, pollers, unsaid>>
    BY <1>5 DEF Subscribe
  <2>2. Serves(row) => Serves(row)'
    BY <2>1 DEF Serves, Live
  <2>3. \A s \in Slots : Live(s)' <=> Live(s)
    BY <2>1 DEF Live
  <2> QED
    BY <1>0, <2>1, <2>2, <2>3 DEF FollowInv
<1>6. ASSUME LoadOne PROVE FollowInv'
  <2>1. sup.at = "ready" /\ UNCHANGED <<row, tasks, pollers>>
    BY <1>6 DEF LoadOne
  <2>2. (sup'.at = "reconciling" /\ sup'.row = row) \/ (sup' = sup /\ unsaid')
    BY <1>6 DEF LoadOne
  <2>3. \A s \in Slots : Live(s)' <=> Live(s)
    BY <2>1 DEF Live
  <2> QED
    BY <1>0, <2>1, <2>2, <2>3 DEF FollowInv
<1>7. ASSUME Restart PROVE FollowInv'
  BY <1>0, <1>7 DEF Restart, FollowInv, Live
<1>8. ASSUME NEW s \in Slots, Moves(s) PROVE FollowInv'
  <2>1. /\ pollers[s] # Dead /\ pollers'[s] # Dead
        /\ pollers'[s].home = pollers[s].home /\ pollers'[s].cancelled = pollers[s].cancelled
        /\ \A t \in Slots \ {s} : pollers'[t] = pollers[t]
        /\ UNCHANGED <<sup, inbox, tasks, unsaid>>
    BY <1>0, <1>8, PollerFacts, DeadIsNoWork
  <2>2. row'.enabled = row.enabled /\ row'.key = row.key
    <3>1. row' = row \/ row' = [row EXCEPT !.mark = pollers[s].upto]
      BY <1>8 DEF Moves, Fetch, Check, Offer, Touch, StartOver, Abort, Panic
    <3> QED
      BY <1>0, <3>1, TypeFacts DEF Rows
  <2>3. ASSUME NEW t \in Slots
        PROVE  /\ Live(t)' <=> Live(t)
               /\ pollers'[t].home = pollers[t].home
               /\ pollers[t] = Dead => pollers'[t] = Dead
    BY <2>1 DEF Live
  <2> QED
    BY <1>0, <2>1, <2>2, <2>3, UnmovedFollow
<1>9. ASSUME NEW s \in Slots, Die(s) PROVE FollowInv'
  <2>1. pollers[s] # Dead /\ pollers[s].cancelled /\ pollers' = [pollers EXCEPT ![s] = Dead]
        /\ UNCHANGED <<row, sup, inbox, tasks, unsaid>>
    BY <1>9 DEF Die
  <2>2. pollers'[s] = Dead /\ \A t \in Slots \ {s} : pollers'[t] = pollers[t]
    BY <1>0, <2>1, TypeFacts
  <2>3. ASSUME NEW t \in Slots
        PROVE  /\ Live(t)' <=> Live(t)
               /\ Live(t) => pollers'[t].home = pollers[t].home
               /\ pollers[t] = Dead => pollers'[t] = Dead
    BY <2>1, <2>2 DEF Live
  <2> QED
    BY <1>0, <2>1, <2>3, UnmovedFollow
<1>10. ASSUME NEW p \in Plays, Learn(p) \/ Serving(p) PROVE FollowInv'
  <2>1. UNCHANGED <<row, mirrorVars, unsaid>>
    BY <1>0, <1>10, ServingFacts DEF Learn
  <2> QED
    BY <1>0, <2>1, UnmovedFollow DEF mirrorVars, Live
<1>11. CASE UNCHANGED vars
  BY <1>0, <1>11, UnmovedFollow DEF vars, mirrorVars, Live
<1> QED
  BY <1>1, <1>2, <1>3, <1>4, <1>5, <1>6, <1>7, <1>8, <1>9, <1>10, <1>11
     DEF Next, Supervisor, Poller, Moves, Serving

\* Whatever order changes, loads and cancellations come in, a supervisor that has heard
\* all and has nothing left to do runs the one poller that the row asks for, or none.
THEOREM MirrorFollowsRow == Spec => []FollowsRow
<1>1. ASSUME FollowInv PROVE FollowsRow
  <2> SUFFICES ASSUME sup.at = "ready", inbox = 0, ~unsaid
               PROVE  LET live == {s \in Slots : pollers[s] # Dead /\ ~pollers[s].cancelled}
                      IN  IF row.enabled /\ row.key # NoKey
                          THEN live = {tasks} /\ pollers[tasks].home.key = row.key
                          ELSE live = {}
    BY DEF FollowsRow
  <2>1. Serves(row) /\ \A s \in Slots : Live(s) => s = tasks
    BY <1>1 DEF FollowInv
  <2> QED
    BY <2>1 DEF Serves, Live
<1> QED
  BY <1>1, InitFollow, StepFollow, PTL DEF Spec, Safety

-----------------------------------------------------------------------------
(* A play gets one record: its key is held from the put until the play has  *)
(* a row and no call is past the duplicate window, which then refuses every *)
(* other; only a key that expired too early lets go of it before.           *)

OneRecord ==
    \A p \in Plays \ lapsed :
        records[p] = 0 \/ (records[p] = 1 /\ (p \in locks \/ (p \in rows /\ passed[p] = 0)))

OnceInv == TypeInv /\ OneRecord

LEMMA StepOneRecord == ASSUME OnceInv, [Next]_vars PROVE OneRecord'
<1>0. TypeInv /\ OneRecord
  BY DEF OnceInv
<1>1. UNCHANGED <<passed, locks, records, lapsed>> /\ rows \subseteq rows' => OneRecord'
  BY <1>0 DEF OneRecord
<1>2. (\E elsewhere \in BOOLEAN : Play(elsewhere)) \/ (\E p \in Plays : Learn(p)) => OneRecord'
  BY <1>1 DEF Play, Learn, apiVars, calls
<1>3. ASSUME NEW enabled \in BOOLEAN, NEW key \in {NoKey, row.key, puts + 1}, PutMirrorSource(enabled, key)
      PROVE  OneRecord'
  BY <1>1, <1>3 DEF PutMirrorSource, apiVars, calls
<1>4. Supervisor \/ Restart => OneRecord'
  BY <1>1 DEF Supervisor, LoadEnabled, Hydrate, Subscribe, LoadOne, EndReconcile, Restart, apiVars, calls
<1>5. ASSUME NEW s \in Slots, Poller(s) \/ Abort(s) \/ Panic(s) PROVE OneRecord'
  BY <1>1, <1>5 DEF Poller, Fetch, Check, Offer, Touch, StartOver, Die, Abort, Panic, apiVars, calls
<1>6. ASSUME NEW q \in Plays, Serving(q) PROVE OneRecord'
  <2> DEFINE Once(n, locked, found, past) == n = 0 \/ (n = 1 /\ (locked \/ (found /\ past = 0)))
  <2>1. /\ rows \subseteq rows' /\ lapsed \subseteq lapsed'
        /\ \A p \in Plays \ {q} : passed'[p] = passed[p] /\ records'[p] = records[p]
                                /\ (p \in locks' <=> p \in locks)
        /\ passed[q] \in Nat /\ records[q] \in Nat
        /\ passed \in [Plays -> Nat] /\ records \in [Plays -> Nat]
    BY <1>0, <1>6, ServingFacts, TypeFacts
  <2>2. ASSUME NEW p \in Plays \ lapsed', p # q
        PROVE  Once(records'[p], p \in locks', p \in rows', passed'[p])
    BY <1>0, <2>1, <2>2 DEF OneRecord
  <2>3. q \notin lapsed' => Once(records[q], q \in locks, q \in rows, passed[q])
    BY <1>0, <2>1 DEF OneRecord
  <2>4. ASSUME q \notin lapsed' PROVE Once(records'[q], q \in locks', q \in rows', passed'[q])
    <3>1. CASE FindDuplicate(q)
      <4>1. UNCHANGED <<records, locks, rows>> /\ (q \in rows => passed' = passed)
        BY <3>1 DEF FindDuplicate
      <4> QED
        BY <2>3, <2>4, <4>1
    <3>2. CASE PutScrobble(q) /\ q \in locks
      <4>1. UNCHANGED <<records, rows>> /\ q \in locks'
        BY <3>2 DEF PutScrobble
      <4> QED
        BY <2>3, <2>4, <4>1
    <3>3. CASE PutScrobble(q) /\ q \notin locks
      <4>1. passed[q] > 0 /\ q \in locks'
            /\ (records' = records \/ records' = [records EXCEPT ![q] = @ + 1])
        BY <3>3 DEF PutScrobble
      <4>2. records[q] = 0
        BY <2>1, <2>3, <2>4, <3>3, <4>1
      <4>3. records'[q] \in {0, 1}
        BY <2>1, <4>1, <4>2
      <4> QED
        BY <4>1, <4>3
    <3>4. CASE LockExpires(q)
      <4>1. UNCHANGED <<records, rows, passed>> /\ ((q \in rows /\ passed[q] = 0) \/ q \in lapsed')
        BY <3>4 DEF LockExpires
      <4> QED
        BY <2>3, <2>4, <4>1
    <3>5. CASE CallFails(q)
      <4>1. UNCHANGED <<records, locks, rows>>
            /\ (passed' = passed \/ (passed[q] > 0 /\ passed' = [passed EXCEPT ![q] = @ - 1]))
        BY <3>5 DEF CallFails
      <4>2. passed[q] = 0 => passed'[q] = 0
        BY <2>1, <4>1
      <4> QED
        BY <2>3, <2>4, <4>1, <4>2
    <3>6. CASE Ingest(q) \/ IngestFails(q)
      <4>1. UNCHANGED <<records, locks, passed>>
        BY <3>6 DEF Ingest, IngestFails
      <4> QED
        BY <2>1, <2>3, <2>4, <4>1
    <3> QED
      BY <1>6, <3>1, <3>2, <3>3, <3>4, <3>5, <3>6 DEF Serving, Call
  <2> QED
    BY <2>2, <2>4 DEF OneRecord
<1>7. UNCHANGED vars => OneRecord'
  BY <1>1 DEF vars, apiVars, calls
<1> QED
  BY <1>2, <1>3, <1>4, <1>5, <1>6, <1>7 DEF Next, Serving

\* However many pollers overlap, repeat a poll or go back to an older watermark, and
\* however many of their calls are past the duplicate window before the play has a row,
\* a play gets one record at most, unless its key expired under them.
THEOREM MirrorMirroredOnce == Spec => []MirroredOnce
<1>1. Init => OnceInv
  BY InitTypes DEF Init, OnceInv, OneRecord
<1>2. ASSUME OnceInv, [Next]_vars PROVE OnceInv'
  BY <1>2, StepTypes, StepOneRecord DEF OnceInv
<1>3. OnceInv => MirroredOnce
  BY DEF OnceInv, OneRecord, MirroredOnce
<1> QED
  BY <1>1, <1>2, <1>3, PTL DEF Spec, Safety

=============================================================================
