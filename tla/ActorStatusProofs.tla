------------------------- MODULE ActorStatusProofs --------------------------
(***************************************************************************)
(* Machine-checked facts about the status publisher and the idle timers of *)
(* the scrobble APIs, for any number of submissions, events, tracks and    *)
(* sources: the types, that at most one timer is left running and a stop   *)
(* is published once, and, however the two subscriptions interleave, what  *)
(* the map and the profile show but for the overlaps that are named.       *)
(***************************************************************************)
EXTENDS ActorStatus, TLAPS

-----------------------------------------------------------------------------
(* The idle timers.                                                        *)

\* A timer that runs is the one of the map, or its call is about to put it there.
IdleInv ==
    /\ IdleTypeOK
    /\ announced + spawned <= MaxCalls
    /\ sleeping \subseteq inHand \cup {installed}

LEMMA IdleStep == IdleInv /\ [IdleNext]_idle => IdleInv'
<1> SUFFICES ASSUME IdleInv, [IdleNext]_idle PROVE IdleInv'
  OBVIOUS
<1> USE IdleAssumption DEF IdleInv, IdleTypeOK, NoTimer
<1>1. CASE Announce
  BY <1>1 DEF Announce
<1>2. CASE Schedule
  BY <1>2 DEF Schedule
<1>3. ASSUME NEW t \in Timers, Install(t) PROVE IdleInv'
  BY <1>3 DEF Install, Timers
<1>4. ASSUME NEW t \in Timers, Fire(t) PROVE IdleInv'
  BY <1>4 DEF Fire, Due, Timers
<1>5. CASE UNCHANGED idle
  BY <1>5 DEF idle
<1> QED
  BY <1>1, <1>2, <1>3, <1>4, <1>5 DEF IdleNext

THEOREM IdleInvariant == IdleSpec => []IdleInv
<1>1. IdleInit => IdleInv
  BY IdleAssumption DEF IdleInit, IdleInv, IdleTypeOK, NoTimer
<1> QED
  BY <1>1, IdleStep, PTL DEF IdleSpec

\* However many submissions of a user are handled at once and in whatever order
\* they get the lock, once they are through one timer at most runs, and it is the
\* one the next call aborts (events.rs:51-54).
THEOREM IdleOneTimerLeft == IdleSpec => []OneTimerLeft
<1>1. IdleInv => OneTimerLeft
  BY DEF IdleInv, OneTimerLeft
<1> QED
  BY <1>1, IdleInvariant, PTL

\* A submission yields one song.stopped at most: each step of the timers is one of
\* StopTokens, or leaves its variables alone.
THEOREM IdleImplementsTokens == IdleSpec => OneStopPerCall
<1>1. IdleInit => Tokens!Init
  BY DEF IdleInit, Tokens!Init
<1>2. [IdleNext]_idle => [Tokens!Next]_<<sleeping, fired, spawned>>
  <2> SUFFICES ASSUME [IdleNext]_idle
               PROVE  \/ Tokens!Issue \/ Tokens!Drop \/ Tokens!Spend
                      \/ UNCHANGED <<sleeping, fired, spawned>>
    BY DEF Tokens!Next
  <2>1. CASE Announce \/ UNCHANGED idle
    BY <2>1 DEF Announce, idle
  <2>2. CASE Schedule
    BY <2>2 DEF Schedule, Tokens!Issue
  <2>3. ASSUME NEW t \in Timers, Install(t) PROVE Tokens!Drop
    BY <2>3 DEF Install, Tokens!Drop
  <2>4. ASSUME NEW t \in Timers, Fire(t) PROVE Tokens!Spend
    BY <2>4 DEF Fire, Due, Tokens!Spend
  <2> QED
    BY <2>1, <2>2, <2>3, <2>4 DEF IdleNext
<1> QED
  BY <1>1, <1>2, PTL DEF IdleSpec, OneStopPerCall, Tokens!Spec

-----------------------------------------------------------------------------
(* The publisher.                                                          *)

\* The sources and the publisher use the timers as specified.
THEOREM StatusUsesIdleTimers == Safety => IdleSpec
<1>1. Init => IdleInit
  BY DEF Init
<1>2. [Next]_vars => [IdleNext]_idle
  <2> SUFFICES ASSUME [Next]_vars PROVE IdleNext \/ UNCHANGED idle
    OBVIOUS
  <2>1. ASSUME NEW t \in Tracks, NEW s \in Sources, NEW d \in BOOLEAN, SongChanged(t, s, d)
        PROVE  Announce \/ UNCHANGED idle
    BY <2>1 DEF SongChanged
  <2>2. CASE WebsocketPauses \/ WebsocketStops \/ OtherStops
    BY <2>2 DEF WebsocketPauses, WebsocketStops, OtherStops, sources
  <2>3. CASE Submits
    BY <2>3 DEF Submits, IdleNext
  <2>4. ASSUME NEW t \in Timers, Submitted(t) \/ ScrobblerStops(t) PROVE IdleNext
    BY <2>4 DEF Submitted, ScrobblerStops, IdleNext
  <2>5. CASE ChangedLoop \/ StoppedLoop
    BY <2>5 DEF ChangedLoop, StoppedLoop, ReceiveChanged, ReadSwap, Put, Wrote, ClearWebsocket,
                ReceiveStopped, Delete, Deleted, sources
  <2>6. ASSUME NEW t \in timers, TimerFires(t) PROVE UNCHANGED idle
    BY <2>6 DEF TimerFires, sources
  <2>7. CASE ChangedFails \/ StoppedFails \/ LimitEnds
    BY <2>7 DEF ChangedFails, StoppedFails, LimitEnds, sources
  <2>8. CASE UNCHANGED vars
    BY <2>8 DEF vars, sources
  <2> QED
    BY <2>1, <2>2, <2>3, <2>4, <2>5, <2>6, <2>7, <2>8 DEF Next, IdleNext
<1> QED
  BY <1>1, <1>2, PTL DEF Safety, IdleSpec

\* Hence what is proved of them holds here.
THEOREM StatusOneTimerLeft == Safety => []OneTimerLeft
BY StatusUsesIdleTimers, IdleOneTimerLeft

THEOREM StatusOneStopPerCall == Safety => OneStopPerCall
BY StatusUsesIdleTimers, IdleImplementsTokens

-----------------------------------------------------------------------------
(* Its types.                                                              *)

\* The events that were published and have not been written yet.
Unwritten == Len(changedQ) + (IF chg.at \in {"resolve", "put"} THEN 1 ELSE 0)

\* Each event is written once at most, and a write that was answered has a CID.
StatusInv ==
    /\ TypeOK
    /\ cids + Unwritten <= events
    /\ chg.at \in {"wrote", "redis"} => cids > 0

\* What a source does keeps the types.
LEMMA SourcesKeepTypes ==
    ASSUME StatusInv, IdleTypeOK',
           \/ \E t \in Tracks, s \in Sources, d \in BOOLEAN : SongChanged(t, s, d)
           \/ WebsocketPauses \/ WebsocketStops \/ OtherStops \/ Submits
           \/ \E t \in Timers : Submitted(t) \/ ScrobblerStops(t)
    PROVE  StatusInv'
<1> USE StatusAssumption DEF StatusInv, TypeOK, Unwritten, queues, bounds, redis, sources,
        map, said
<1>1. ASSUME NEW t \in Tracks, NEW s \in Sources, NEW d \in BOOLEAN, SongChanged(t, s, d)
      PROVE  StatusInv'
  <2>1. /\ [track |-> t, source |-> s] \in Statuses
        /\ [status |-> [track |-> t, source |-> s], timed |-> d] \in Songs
    BY DEF Statuses, Songs
  <2>2. changedQ' \in Seq(Songs) /\ Len(changedQ') = Len(changedQ) + 1
    BY <1>1, <2>1 DEF SongChanged
  <2>3. /\ wsLast' \in BOOLEAN /\ wsStop' \in BOOLEAN /\ timed' \in BOOLEAN
        /\ outrun' \in BOOLEAN
    BY <1>1 DEF SongChanged
  <2>4. events' \in Nat /\ events' + faults <= MaxEvents /\ faults' = faults
    BY <1>1 DEF SongChanged
  <2>5. (cids + Unwritten <= events)'
    BY <1>1, <2>2 DEF SongChanged
  <2>6. /\ UNCHANGED <<stoppedQ, chg, stp, map, limited, timers, record, cids, crossed>>
        /\ latest' \in Statuses
    BY <1>1, <2>1 DEF SongChanged
  <2>7. TypeOK'
    BY <2>2, <2>3, <2>4, <2>6
  <2> QED
    BY <2>5, <2>6, <2>7
<1>2. CASE WebsocketPauses \/ WebsocketStops \/ OtherStops
  <2>1. /\ wsLast' \in BOOLEAN /\ wsStop' \in BOOLEAN /\ timed' \in BOOLEAN
        /\ outrun' \in BOOLEAN
    BY <1>2 DEF WebsocketPauses, WebsocketStops, OtherStops, PublishStopped
  <2>2. CASE WebsocketPauses
    BY <2>1, <2>2 DEF WebsocketPauses
  <2>3. CASE WebsocketStops
    BY <2>1, <2>3 DEF WebsocketStops, PublishStopped
  <2>4. CASE OtherStops
    BY <2>1, <2>4 DEF OtherStops, PublishStopped
  <2> QED
    BY <1>2, <2>2, <2>3, <2>4
<1>3. CASE Submits
  BY <1>3 DEF Submits
<1>4. ASSUME NEW t \in Timers, Submitted(t) \/ ScrobblerStops(t) PROVE StatusInv'
  <2>1. timed' \in BOOLEAN /\ outrun' \in BOOLEAN
    BY <1>4 DEF Submitted, ScrobblerStops, PublishStopped
  <2> QED
    BY <1>4, <2>1 DEF Submitted, ScrobblerStops, PublishStopped
<1> QED
  BY <1>1, <1>2, <1>3, <1>4

\* So do the two loops ...
LEMMA LoopsKeepTypes ==
    ASSUME StatusInv, IdleTypeOK', ChangedLoop \/ StoppedLoop
    PROVE  StatusInv'
<1> USE StatusAssumption DEF StatusInv, TypeOK, Unwritten, queues, bounds, redis, sources,
        map, said, ChangedAt, ChangedIdle, IdleLoop, CIDs, NoCID
<1>1. CASE ReceiveChanged
  <2>1. /\ Head(changedQ) \in Songs
        /\ changedQ' \in Seq(Songs) /\ Len(changedQ') = Len(changedQ) - 1
    BY <1>1 DEF ReceiveChanged
  <2>2. chg' \in Loops
    BY <1>1, <2>1 DEF ReceiveChanged, Loops
  <2> QED
    BY <1>1, <2>1, <2>2 DEF ReceiveChanged
<1>2. CASE ReadSwap
  <2>1. chg.song \in Songs /\ SwapCid \in {NoCID} \cup CIDs
    BY <1>2 DEF ReadSwap, Loops, SwapCid
  <2>2. chg' \in Loops /\ crossed' \in BOOLEAN
    BY <1>2, <2>1 DEF ReadSwap, Loops
  <2> QED
    BY <1>2, <2>2 DEF ReadSwap
<1>3. CASE Put
  <2>1. chg.song \in Songs /\ chg.song.status \in Statuses /\ cids + 1 \in CIDs
    BY <1>3 DEF Put, Loops, Songs
  <2>2. chg' \in Loops /\ record' \in {Null} \cup [cid : CIDs, status : Statuses]
    BY <1>3, <2>1 DEF Put, Loops
  <2>3. UNCHANGED <<queues, stp, map, limited, timers, sources, said, crossed, bounds>>
    BY <1>3 DEF Put
  <2>4. /\ cids' \in 0 .. MaxEvents /\ (cids + Unwritten <= events)'
        /\ chg'.at \in {"wrote", "redis"} => cids' > 0
    BY <1>3, <2>1, <2>3 DEF Put
  <2>5. TypeOK'
    BY <2>2, <2>3, <2>4
  <2> QED
    BY <2>4, <2>5
<1>4. CASE Wrote \/ ClearWebsocket
  <2>1. /\ chg.song \in Songs /\ chg.song.status \in Statuses /\ chg.song.timed \in BOOLEAN
        /\ cids \in CIDs
    BY <1>4 DEF Wrote, ClearWebsocket, Loops, Songs
  <2>2. chg' \in Loops /\ timers' \subseteq [cid : CIDs, status : Statuses]
    BY <1>4, <2>1 DEF Wrote, ClearWebsocket, Loops, SetTimer
  <2>3. wsLast' \in BOOLEAN
    BY <1>4 DEF Wrote, ClearWebsocket
  <2>4. CASE Wrote
    BY <2>1, <2>2, <2>3, <2>4 DEF Wrote
  <2>5. CASE ClearWebsocket
    BY <2>1, <2>2, <2>3, <2>5 DEF ClearWebsocket
  <2> QED
    BY <1>4, <2>4, <2>5
<1>5. CASE StoppedLoop
  <2>1. crossed' \in BOOLEAN
    <3>1. CASE ReceiveStopped /\ ~(limited \/ last = Null)
      BY <3>1 DEF ReceiveStopped
    <3>2. CASE ~(ReceiveStopped /\ ~(limited \/ last = Null))
      BY <1>5, <3>2 DEF StoppedLoop, ReceiveStopped, Delete, Deleted
    <3> QED
      BY <3>1, <3>2
  <2>2. expires' \in BOOLEAN
    BY <1>5 DEF StoppedLoop, ReceiveStopped, Delete, Deleted
  <2>3. /\ stoppedQ' \in Nat /\ stp' \in {"idle", "agent", "deleted"}
        /\ last' \in {Null, last} /\ record' \in {Null, record}
        /\ UNCHANGED <<changedQ, chg, limited, timers, cids, sources, said, bounds>>
    BY <1>5 DEF StoppedLoop, ReceiveStopped, Delete, Deleted
  <2> QED
    BY <2>1, <2>2, <2>3
<1> QED
  BY <1>1, <1>2, <1>3, <1>4, <1>5 DEF ChangedLoop

\* ... and the rest.
THEOREM StatusInvariant == Safety => []StatusInv
<1>1. Init => StatusInv
  <2> SUFFICES ASSUME Init PROVE StatusInv
    OBVIOUS
  <2>1. IdleTypeOK
    BY IdleAssumption DEF Init, IdleInit, IdleTypeOK, NoTimer
  <2>2. TypeOK
    <3>1. /\ limited \in BOOLEAN /\ timed \in BOOLEAN /\ expires \in BOOLEAN
          /\ outrun \in BOOLEAN /\ crossed \in BOOLEAN
          /\ wsLast \in BOOLEAN /\ wsStop \in BOOLEAN
      BY DEF Init
    <3>2. changedQ \in Seq(Songs) /\ chg \in Loops
      BY DEF Init, Loops
    <3> QED
      BY <2>1, <3>1, <3>2, StatusAssumption DEF Init, TypeOK
  <2>3. cids + Unwritten <= events /\ chg.at \notin {"wrote", "redis"}
    BY DEF Init, Unwritten, IdleLoop
  <2> QED
    BY <2>2, <2>3 DEF StatusInv
<1>2. StatusInv /\ IdleTypeOK' /\ [Next]_vars => StatusInv'
  <2> SUFFICES ASSUME StatusInv, IdleTypeOK', [Next]_vars PROVE StatusInv'
    OBVIOUS
  <2> USE StatusAssumption DEF StatusInv, TypeOK, Unwritten, queues, bounds, redis, sources,
          map, said, ChangedAt, ChangedIdle, IdleLoop
  <2>1. ASSUME NEW t \in timers, TimerFires(t) PROVE StatusInv'
    <3>1. expires' \in BOOLEAN /\ last' \in {last, Undefined}
      BY <2>1 DEF TimerFires, Expire
    <3> QED
      BY <2>1, <3>1 DEF TimerFires
  <2>2. CASE ChangedFails \/ StoppedFails \/ LimitEnds
    <3>1. limited' \in BOOLEAN
      BY <2>2 DEF ChangedFails, StoppedFails, LimitEnds, Backoff
    <3>2. chg' \in Loops
      BY <2>2 DEF ChangedFails, StoppedFails, LimitEnds, Loops
    <3>3. /\ faults' \in Nat /\ events + faults' <= MaxEvents
          /\ stp' \in {"idle", "agent", "deleted"} /\ chg' \in {chg, IdleLoop}
          /\ UNCHANGED <<queues, map, timers, record, cids, sources, said, crossed, events>>
      BY <2>2 DEF ChangedFails, StoppedFails, LimitEnds
    <3> QED
      BY <3>1, <3>2, <3>3
  <2>3. CASE UNCHANGED vars
    BY <2>3 DEF vars
  <2> QED
    BY <2>1, <2>2, <2>3, SourcesKeepTypes, LoopsKeepTypes DEF Next
<1>3. Safety => []IdleTypeOK
  <2>1. IdleInv => IdleTypeOK
    BY DEF IdleInv
  <2> QED
    BY <2>1, StatusUsesIdleTimers, IdleInvariant, PTL
<1> QED
  BY <1>1, <1>2, <1>3, PTL DEF Safety

\* The types of the status publisher: in particular, that no event is written twice
\* is why MaxEvents names every record.
THEOREM StatusTypeCorrect == Safety => []TypeOK
BY StatusInvariant, PTL DEF StatusInv

-----------------------------------------------------------------------------
(* What the map and the profile show.                                      *)

AtPDS == chg.at \in {"put", "wrote"}

\* As long as the loops take turns at the PDS: a write and a deletion are not there
\* together, a write that is under way will not be refused, and the map says what
\* the record is whenever neither is there.
InTurns ==
    /\ stp # "idle" => ~AtPDS
    /\ stp = "idle" /\ ~AtPDS => last = Undefined \/ last = Shown
    /\ ChangedAt("put") => Matches(chg.swap)
    /\ ChangedAt("wrote") => Shown = chg.song.status
    /\ stp = "deleted" => Shown = Null

\* As long as the last event found none of the other subscription before it: if it is
\* a stop no song is under way, and if it is a song, no stop is, and it comes last.
InOrder ==
    /\ latest = Null => changedQ = <<>> /\ chg = IdleLoop
    /\ latest # Null =>
         /\ stoppedQ = 0 /\ stp = "idle"
         /\ changedQ # <<>> => changedQ[Len(changedQ)].status = latest
         /\ changedQ = <<>> /\ chg # IdleLoop => chg.song.status = latest

\* The last event is handled, or its write is over.
Handled ==
    \/ latest = Null /\ stoppedQ = 0 /\ stp = "idle"
    \/ latest # Null /\ changedQ = <<>> /\ chg.at \in {"idle", "redis"}

ShowInv ==
    faults = 0 =>
        /\ ~limited
        /\ ~crossed => InTurns
        /\ ~outrun => InOrder
        /\ ~crossed /\ ~outrun /\ Handled => Shown = latest

\* A status is none of the marks.
LEMMA MarksApart == Undefined # Null /\ Undefined \notin Statuses /\ Null \notin Statuses
BY StatusAssumption DEF Undefined, Null, Statuses

\* What a source publishes is the last event from then on.
LEMMA SourcesKeepShown ==
    ASSUME StatusInv, ShowInv,
           \/ \E t \in Tracks, s \in Sources, d \in BOOLEAN : SongChanged(t, s, d)
           \/ WebsocketPauses \/ WebsocketStops \/ OtherStops \/ Submits
           \/ \E t \in Timers : Submitted(t) \/ ScrobblerStops(t)
    PROVE  ShowInv'
<1> USE DEF queues, bounds, sources, map, said
<1>1. ASSUME UNCHANGED <<queues, chg, stp, map, limited, record, said, crossed, faults>>
      PROVE  ShowInv'
  BY <1>1 DEF ShowInv, InTurns, InOrder, Handled, AtPDS, ChangedAt, Shown, Matches
<1>2. ASSUME UNCHANGED <<chg, stp, last, limited, record, crossed, faults>>
      PROVE  faults' = 0 => ~limited' /\ (~crossed' => InTurns')
  BY <1>2 DEF ShowInv, InTurns, AtPDS, ChangedAt, Shown, Matches
<1>3. ASSUME NEW t \in Tracks, NEW s \in Sources, NEW d \in BOOLEAN, SongChanged(t, s, d)
      PROVE  ShowInv'
  <2>1. UNCHANGED <<chg, stp, last, limited, record, crossed, faults, stoppedQ>>
    BY <1>3 DEF SongChanged
  <2> DEFINE song == [status |-> [track |-> t, source |-> s], timed |-> d]
  <2>2. song \in Songs /\ song.status \in Statuses /\ song.status # Null
    BY MarksApart DEF Songs, Statuses
  <2>3. /\ changedQ' = Append(changedQ, song) /\ latest' = song.status
        /\ outrun' = (stoppedQ > 0 \/ stp # "idle")
    BY <1>3 DEF SongChanged
  <2>4. changedQ' # <<>> /\ changedQ'[Len(changedQ')] = song
    BY <2>2, <2>3 DEF StatusInv, TypeOK
  <2>5. ~outrun' => InOrder'
    <3>1. ~outrun' => ~(stoppedQ > 0) /\ stp = "idle"
      BY <2>3, Zenon
    <3>2. ~outrun' => stoppedQ' = 0 /\ stp' = "idle"
      BY <2>1, <3>1 DEF StatusInv, TypeOK
    <3> QED
      BY <2>2, <2>3, <2>4, <3>2 DEF InOrder
  <2>6. ~Handled'
    BY <2>2, <2>3, <2>4 DEF Handled
  <2> QED
    BY <1>2, <2>1, <2>5, <2>6 DEF ShowInv
<1>4. ASSUME PublishStopped, UNCHANGED <<changedQ, chg, stp, last, limited, record, crossed, faults>>
      PROVE  ShowInv'
  <2>1. latest' = Null /\ (~outrun' => changedQ = <<>> /\ chg = IdleLoop)
    BY <1>4, Zenon DEF PublishStopped
  <2>2. stoppedQ' # 0
    BY <1>4 DEF PublishStopped, StatusInv, TypeOK
  <2>3. (~outrun' => InOrder') /\ ~Handled'
    BY <1>4, <2>1, <2>2 DEF InOrder, Handled
  <2> QED
    BY <1>2, <1>4, <2>3 DEF ShowInv
<1>5. CASE WebsocketPauses \/ Submits
  BY <1>1, <1>5 DEF WebsocketPauses, Submits
<1>6. CASE WebsocketStops \/ OtherStops
  BY <1>4, <1>6 DEF WebsocketStops, OtherStops
<1>7. ASSUME NEW t \in Timers, Submitted(t) \/ ScrobblerStops(t) PROVE ShowInv'
  BY <1>1, <1>4, <1>7 DEF Submitted, ScrobblerStops
<1> QED
  BY <1>3, <1>5, <1>6, <1>7

\* A song.changed is skipped when the record shows it, and else replaces the record
\* that was read.
LEMMA ChangedKeepsShown ==
    ASSUME StatusInv, ShowInv, ChangedLoop, faults = 0
    PROVE  ShowInv'
<1> USE DEF queues, bounds, sources, map, said, ChangedAt, ChangedIdle, IdleLoop
<1>1. UNCHANGED <<stoppedQ, stp, latest, outrun, limited, faults>> /\ ~limited
  BY DEF ChangedLoop, ReceiveChanged, ReadSwap, Put, Wrote, ClearWebsocket, ShowInv
<1>2. CASE ReceiveChanged
  <2>1. /\ chg = IdleLoop /\ changedQ # <<>> /\ changedQ' = Tail(changedQ)
        /\ UNCHANGED <<last, record, crossed>>
    BY <1>2 DEF ReceiveChanged
  <2>2. /\ Head(changedQ) \in Songs /\ Head(changedQ).status \in Statuses
        /\ changedQ' # <<>> => changedQ'[Len(changedQ')] = changedQ[Len(changedQ)]
        /\ changedQ' = <<>> => Head(changedQ) = changedQ[Len(changedQ)]
    <3>1. changedQ \in Seq(Songs) /\ Len(changedQ) > 0
      BY <2>1 DEF StatusInv, TypeOK
    <3>2. Head(changedQ) = changedQ[1] /\ Head(changedQ) \in Songs
      BY <3>1
    <3>3. Len(changedQ') = Len(changedQ) - 1
      BY <2>1, <3>1
    <3>4. changedQ' # <<>> => changedQ'[Len(changedQ')] = changedQ[Len(changedQ)]
      BY <2>1, <3>1, <3>3
    <3>5. changedQ' = <<>> => Len(changedQ) = 1
      BY <3>1, <3>3
    <3> QED
      BY <3>2, <3>4, <3>5 DEF Songs
  <2>3. \/ last = Head(changedQ).status /\ chg' = IdleLoop
        \/ chg' = [at |-> "resolve", song |-> Head(changedQ)]
    BY <1>1, <1>2 DEF ReceiveChanged
  <2>4. chg'.at \in {"idle", "resolve"}
    BY <2>3
  <2>5. ~crossed' => InTurns'
    BY <1>1, <2>1, <2>4 DEF ShowInv, InTurns, AtPDS, Shown
  <2>6. ~outrun' => InOrder' /\ latest' # Null
    BY <1>1, <2>1, <2>2, <2>3 DEF ShowInv, InOrder
  <2>7. ~crossed' /\ ~outrun' /\ Handled' => Shown' = latest'
    <3>1. SUFFICES ASSUME ~crossed', ~outrun', Handled' PROVE Shown' = latest'
      OBVIOUS
    <3>2. changedQ' = <<>> /\ chg' = IdleLoop
      BY <2>3, <2>6, <3>1 DEF Handled
    <3>3. last = Head(changedQ).status /\ Head(changedQ).status = latest
      BY <1>1, <2>1, <2>2, <2>3, <2>6, <3>1, <3>2 DEF ShowInv, InOrder
    <3>4. last = Shown
      BY <1>1, <2>1, <2>2, <2>6, <3>1, <3>3, MarksApart DEF ShowInv, InTurns, InOrder, AtPDS
    <3> QED
      BY <1>1, <2>1, <3>3, <3>4 DEF Shown
  <2> QED
    BY <1>1, <2>5, <2>6, <2>7 DEF ShowInv
<1>3. CASE ReadSwap
  <2>1. /\ chg.at = "resolve" /\ chg' = [at |-> "put", song |-> chg.song, swap |-> SwapCid]
        /\ crossed' = (stp # "idle")
        /\ UNCHANGED <<changedQ, last, record>>
    BY <1>3 DEF ReadSwap
  <2>2. Matches(chg.swap)'
    BY <2>1 DEF Matches, SwapCid
  <2>3. ~crossed' => stp' = "idle"
    BY <1>1, <2>1, Zenon
  <2>4. ~crossed' => InTurns'
    BY <2>1, <2>2, <2>3 DEF InTurns, AtPDS
  <2>5. ~outrun' => InOrder' /\ ~Handled'
    BY <1>1, <2>1 DEF ShowInv, InOrder, Handled
  <2> QED
    BY <1>1, <2>4, <2>5 DEF ShowInv
<1>4. CASE Put
  <2>1. chg.at = "put" /\ UNCHANGED <<changedQ, last, crossed>>
    BY <1>4 DEF Put
  <2>2. CASE Matches(chg.swap)
    <3>1. /\ chg' = [at |-> "wrote", song |-> chg.song]
          /\ record' = [cid |-> cids + 1, status |-> chg.song.status]
      BY <1>4, <2>2 DEF Put
    <3>2. Shown' = chg.song.status
      BY <3>1 DEF Shown, Null
    <3>3. ~crossed' => InTurns'
      BY <1>1, <2>1, <3>1, <3>2 DEF ShowInv, InTurns, AtPDS
    <3>4. ~outrun' => InOrder' /\ ~Handled'
      BY <1>1, <2>1, <3>1 DEF ShowInv, InOrder, Handled
    <3> QED
      BY <1>1, <3>3, <3>4 DEF ShowInv
  <2>3. CASE ~Matches(chg.swap)
    <3>1. chg' = IdleLoop /\ record' = record
      BY <1>4, <2>3 DEF Put
    <3>2. crossed'
      BY <2>1, <2>3 DEF ShowInv, InTurns, StatusInv, TypeOK
    <3>3. ~outrun' => InOrder'
      BY <1>1, <2>1, <3>1 DEF ShowInv, InOrder
    <3> QED
      BY <1>1, <3>2, <3>3 DEF ShowInv
  <2> QED
    BY <2>2, <2>3
<1>5. CASE Wrote \/ ClearWebsocket
  <2>1. /\ chg.at \in {"wrote", "redis"} /\ UNCHANGED <<changedQ, record, crossed>>
        /\ chg' = IdleLoop \/ chg' = [at |-> "redis", song |-> chg.song]
        /\ last' = IF chg.at = "wrote" THEN chg.song.status ELSE last
    BY <1>5 DEF Wrote, ClearWebsocket
  <2>2. ~crossed' => InTurns'
    BY <1>1, <2>1 DEF ShowInv, InTurns, AtPDS, Shown
  <2>3. ~outrun' => InOrder' /\ latest' # Null
    BY <1>1, <2>1 DEF ShowInv, InOrder
  <2>4. ~crossed' /\ ~outrun' /\ Handled' => Shown' = latest'
    <3>1. SUFFICES ASSUME ~crossed', ~outrun', Handled' PROVE Shown' = latest'
      OBVIOUS
    <3>2. changedQ = <<>> /\ chg.song.status = latest
      BY <1>1, <2>1, <2>3, <3>1 DEF ShowInv, InOrder, Handled
    <3>3. CASE chg.at = "wrote"
      BY <1>1, <2>1, <3>1, <3>2, <3>3 DEF ShowInv, InTurns, Shown
    <3>4. CASE chg.at = "redis"
      BY <1>1, <2>1, <2>3, <3>1, <3>2, <3>4 DEF ShowInv, Handled, Shown
    <3> QED
      BY <2>1, <3>3, <3>4
  <2> QED
    BY <1>1, <2>2, <2>3, <2>4 DEF ShowInv
<1> QED
  BY <1>2, <1>3, <1>4, <1>5 DEF ChangedLoop

\* A song.stopped is skipped when the record is gone, and else deletes it.
LEMMA StoppedKeepsShown ==
    ASSUME StatusInv, ShowInv, StoppedLoop, faults = 0
    PROVE  ShowInv'
<1> USE DEF queues, bounds, sources, map, said, ChangedAt
<1>1. UNCHANGED <<changedQ, chg, latest, outrun, limited, faults>> /\ ~limited
  BY DEF StoppedLoop, ReceiveStopped, Delete, Deleted, ShowInv
<1>2. ~outrun' => latest' = Null /\ changedQ = <<>> /\ chg = IdleLoop
  <2>1. stp # "idle" \/ stoppedQ # 0
    BY DEF StoppedLoop, ReceiveStopped, Delete, Deleted, StatusInv, TypeOK
  <2> QED
    BY <1>1, <2>1 DEF ShowInv, InOrder
<1>3. ~outrun' => InOrder'
  BY <1>1, <1>2 DEF InOrder
<1>4. CASE ReceiveStopped
  <2>1. stp = "idle" /\ UNCHANGED <<last, record>>
    BY <1>4 DEF ReceiveStopped
  <2>2. CASE last = Null
    <3>1. UNCHANGED <<stp, crossed>>
      BY <1>4, <2>2 DEF ReceiveStopped
    <3>2. ~crossed' => InTurns'
      BY <1>1, <2>1, <3>1 DEF ShowInv, InTurns, AtPDS, Shown, Matches
    <3>3. ~crossed' /\ ~outrun' => Shown' = latest'
      BY <1>1, <1>2, <2>1, <2>2, <3>1, MarksApart
      DEF ShowInv, InTurns, AtPDS, Shown, IdleLoop
    <3> QED
      BY <1>1, <1>3, <3>2, <3>3 DEF ShowInv
  <2>3. CASE last # Null
    <3>1. stp' = "agent" /\ crossed' = AtPDS
      BY <1>1, <1>4, <2>3 DEF ReceiveStopped, AtPDS
    <3>2. ~crossed' => InTurns'
      BY <1>1, <3>1 DEF InTurns, AtPDS
    <3>3. ~outrun' => ~Handled'
      BY <1>1, <1>2, <3>1 DEF Handled
    <3> QED
      BY <1>1, <1>3, <3>2, <3>3 DEF ShowInv
  <2> QED
    BY <2>2, <2>3
<1>5. CASE Delete
  <2>1. stp = "agent" /\ stp' = "deleted" /\ Shown' = Null /\ UNCHANGED <<crossed, last>>
    BY <1>5 DEF Delete, Shown
  <2>2. ~crossed' => InTurns'
    BY <1>1, <2>1 DEF ShowInv, InTurns, AtPDS
  <2>3. ~outrun' => ~Handled'
    BY <1>1, <1>2, <2>1 DEF Handled
  <2> QED
    BY <1>1, <1>3, <2>2, <2>3 DEF ShowInv
<1>6. CASE Deleted
  <2>1. /\ stp = "deleted" /\ stp' = "idle" /\ last' = Null /\ Shown' = Shown
        /\ crossed' = crossed
    BY <1>6 DEF Deleted, Shown
  <2>2. ~crossed' => Shown' = Null /\ ~AtPDS'
    BY <1>1, <2>1 DEF ShowInv, InTurns, AtPDS
  <2>3. ~crossed' => InTurns'
    BY <2>1, <2>2 DEF InTurns, AtPDS
  <2> QED
    BY <1>1, <1>2, <1>3, <2>2, <2>3 DEF ShowInv
<1> QED
  BY <1>4, <1>5, <1>6 DEF StoppedLoop

THEOREM ShowInvariant == Safety => []ShowInv
<1>1. Init => ShowInv
  <2> SUFFICES ASSUME Init PROVE ShowInv
    OBVIOUS
  <2>1. /\ changedQ = <<>> /\ chg = IdleLoop /\ chg.at = "idle" /\ stp = "idle"
        /\ Shown = Null /\ latest = Null /\ last = Undefined /\ limited = FALSE
    BY DEF Init, Shown, IdleLoop
  <2> QED
    BY <2>1 DEF ShowInv, InTurns, InOrder, AtPDS, ChangedAt
<1>2. StatusInv /\ ShowInv /\ [Next]_vars => ShowInv'
  <2> SUFFICES ASSUME StatusInv, ShowInv, [Next]_vars, faults' = 0 PROVE ShowInv'
    BY DEF ShowInv
  <2> USE DEF queues, bounds, sources, map, said
  <2>1. ASSUME NEW t \in timers, TimerFires(t) PROVE ShowInv'
    <3>1. /\ UNCHANGED <<queues, chg, stp, limited, record, said, crossed, faults>>
          /\ last' \in {last, Undefined}
      BY <2>1 DEF TimerFires, Expire
    <3> QED
      BY <3>1 DEF ShowInv, InTurns, InOrder, Handled, AtPDS, ChangedAt, Shown, Matches
  <2>2. CASE ChangedFails \/ StoppedFails
    BY <2>2 DEF ChangedFails, StoppedFails, StatusInv, TypeOK
  <2>3. CASE LimitEnds
    BY <2>3 DEF LimitEnds, ShowInv, InTurns, InOrder, Handled, AtPDS, ChangedAt, Shown, Matches
  <2>4. CASE UNCHANGED vars
    BY <2>4 DEF vars, ShowInv, InTurns, InOrder, Handled, AtPDS, ChangedAt, Shown, Matches
  <2>5. CASE ChangedLoop \/ StoppedLoop
    <3>1. faults = 0
      BY <2>5 DEF ChangedLoop, ReceiveChanged, ReadSwap, Put, Wrote, ClearWebsocket,
                  StoppedLoop, ReceiveStopped, Delete, Deleted
    <3> QED
      BY <2>5, <3>1, ChangedKeepsShown, StoppedKeepsShown
  <2> QED
    BY <2>1, <2>2, <2>3, <2>4, <2>5, SourcesKeepShown DEF Next
<1> QED
  BY <1>1, <1>2, StatusInvariant, PTL DEF Safety

\* With every event handled, the record shows what the sources said last, whatever was
\* in flight together before, as long as nothing of the other subscription was when the
\* last event was published and the last write and deletion did not overlap.
THEOREM StatusLastEventWins == Safety => []LastEventWins
<1>1. StatusInv /\ ShowInv => LastEventWins
  <2> SUFFICES ASSUME StatusInv, ShowInv, Quiet, faults = 0, ~outrun, ~crossed
               PROVE  Shown = latest
    BY DEF LastEventWins
  <2>1. stoppedQ = 0 /\ stp = "idle" /\ chg = IdleLoop /\ Len(changedQ) = 0
    <3>1. Len(changedQ) \in Nat /\ stoppedQ \in Nat
      BY DEF StatusInv, TypeOK
    <3> QED
      BY <3>1 DEF Quiet, InFlight
  <2>2. changedQ = <<>> /\ chg.at = "idle"
    BY <2>1 DEF StatusInv, TypeOK, IdleLoop
  <2> QED
    BY <2>1, <2>2 DEF ShowInv, Handled
<1> QED
  BY <1>1, StatusInvariant, ShowInvariant, PTL

\* What both loops take the record for is what it is (status.ts:201), whenever neither
\* is at work, unless the last write and deletion at the PDS overlapped.
THEOREM StatusLastPushedIsRecord == Safety => []LastPushedIsRecord
<1>1. ShowInv => LastPushedIsRecord
  BY DEF ShowInv, InTurns, AtPDS, IdleLoop, LastPushedIsRecord
<1> QED
  BY <1>1, ShowInvariant, PTL
=============================================================================
