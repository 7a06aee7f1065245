-------------------------- MODULE ScrobblePutProofs --------------------------
(***************************************************************************)
(* Proofs about ScrobblePut, for any number of calls, songs and times.     *)
(***************************************************************************)
EXTENDS ScrobblePut, FiniteSetTheorems, TLAPS

\* Type correctness of the calls, Redis, the PDS and the ingest's rows.
THEOREM ScrobbleTypeCorrect == Spec => []TypeOK
<1> USE ScrobbleAssumption DEF Steps, Running, Ended
<1>1. Init => TypeOK
  <2>1. 0 \in 0 .. MaxFaults /\ 0 \in 0 .. MaxLapses
    OBVIOUS
  <2> QED
    BY <2>1, Zenon DEF Init, TypeOK
<1>2. TypeOK /\ [Next]_vars => TypeOK'
  <2> SUFFICES ASSUME TypeOK, [Next]_vars PROVE TypeOK'
    OBVIOUS
  <2> USE DEF TypeOK, redis, history, Goto
  <2>1. ASSUME NEW c \in Calls, Receive(c) PROVE TypeOK'
    BY <2>1 DEF Receive
  <2>2. ASSUME NEW c \in Calls, ReceiveImport(c) PROVE TypeOK'
    BY <2>2 DEF ReceiveImport
  <2>3. ASSUME NEW c \in Calls, FindDuplicate(c) PROVE TypeOK'
    BY <2>3 DEF FindDuplicate
  <2>4. ASSUME NEW c \in Calls, RecordAndGuard(c) PROVE TypeOK'
    BY <2>4 DEF RecordAndGuard, Counted
  <2>5. ASSUME NEW c \in Calls, SetBlock(c) PROVE TypeOK'
    BY <2>5 DEF SetBlock
  <2>6. ASSUME NEW c \in Calls, SeeToCatalog(c) PROVE TypeOK'
    BY <2>6 DEF SeeToCatalog
  <2>7. ASSUME NEW c \in Calls, Lock(c) PROVE TypeOK'
    BY <2>7 DEF Lock
  <2>8. ASSUME NEW c \in Calls, PutScrobble(c) PROVE TypeOK'
    BY <2>8 DEF PutScrobble
  <2>9. ASSUME NEW c \in Calls, AwaitRow(c) PROVE TypeOK'
    BY <2>9 DEF AwaitRow
  <2>10. ASSUME NEW c \in Calls, Ingest(c) PROVE TypeOK'
    BY <2>10 DEF Ingest
  <2>11. ASSUME NEW c \in Calls, IngestFails(c) PROVE TypeOK'
    BY <2>11 DEF IngestFails
  <2>12. ASSUME Crash PROVE TypeOK'
    BY <2>12 DEF Crash
  <2>13. ASSUME Lapse PROVE TypeOK'
    <3>1. lapses' \in 0 .. MaxLapses
      BY <2>13 DEF Lapse
    <3>2. rate' \subseteq Calls /\ block' \in BOOLEAN /\ lock' \subseteq Listens
      BY <2>13, Zenon DEF Lapse
    <3> QED
      BY <2>13, <3>1, <3>2 DEF Lapse
  <2>14. CASE UNCHANGED vars
    BY <2>14 DEF vars
  <2> QED
    BY <2>1, <2>2, <2>3, <2>4, <2>5, <2>6, <2>7, <2>8, <2>9, <2>10, <2>11,
       <2>12, <2>13, <2>14 DEF Next, Proceed
<1> QED
  BY <1>1, <1>2, PTL DEF Spec

-----------------------------------------------------------------------------
(* One record per listen.  The lock alone does not say who took it: the     *)
(* strengthening is that a call beyond the lock has its listen in it and    *)
(* shares it with no other call beyond the lock.                            *)

Beyond(c) == pc[c] = "put_scrobble" \/ c \in records

LockHeld ==
  lapses = 0 =>
    /\ \A c \in Calls : Beyond(c) => listen[c] \in lock
    /\ \A c, d \in Calls :
         Beyond(c) /\ Beyond(d) /\ listen[c] = listen[d] => c = d

\* Only the step from the lock to the put takes a call beyond it, and only an
\* expiry takes a listen out of the lock.
LEMMA OthersKeepLock ==
  ASSUME LockHeld, listen' = listen, lock' = lock, lapses' = lapses,
         \A c \in Calls : Beyond(c)' => Beyond(c)
  PROVE  LockHeld'
BY DEF LockHeld

\* However many calls carry the same listen, live or imported, and whatever
\* crashes between them, the PDS gets one record of it while no key expires.
THEOREM OneRecord == Spec => []OneRecordPerListen

<1>1. Init => LockHeld
  BY DEF Init, LockHeld, Beyond
<1>2. TypeOK /\ LockHeld /\ [Next]_vars => LockHeld'
  <2> SUFFICES ASSUME TypeOK, LockHeld, [Next]_vars PROVE LockHeld'
    OBVIOUS
  <2> USE DEF TypeOK, redis, history, Goto
  <2>1. ASSUME NEW c \in Calls, Receive(c) \/ ReceiveImport(c) PROVE LockHeld'
    BY <2>1, OthersKeepLock DEF Receive, ReceiveImport, Beyond
  <2>2. ASSUME NEW c \in Calls, FindDuplicate(c) PROVE LockHeld'
    BY <2>2, OthersKeepLock DEF FindDuplicate, Beyond
  <2>3. ASSUME NEW c \in Calls, RecordAndGuard(c) PROVE LockHeld'
    BY <2>3, OthersKeepLock DEF RecordAndGuard, Beyond
  <2>4. ASSUME NEW c \in Calls, SetBlock(c) \/ SeeToCatalog(c) PROVE LockHeld'
    BY <2>4, OthersKeepLock DEF SetBlock, SeeToCatalog, Beyond
  <2>5. ASSUME NEW c \in Calls, Lock(c) PROVE LockHeld'
    <3>1. \A d \in Calls : Beyond(d)' =>
            Beyond(d) \/ (d = c /\ listen[c] \notin lock)
      BY <2>5 DEF Lock, Beyond
    <3>2. listen' = listen /\ lock' = lock \union {listen[c]} /\ lapses' = lapses
      BY <2>5 DEF Lock
    <3> QED
      BY <3>1, <3>2 DEF LockHeld
  <2>6. ASSUME NEW c \in Calls, PutScrobble(c) PROVE LockHeld'
    BY <2>6, OthersKeepLock DEF PutScrobble, Beyond
  <2>7. ASSUME NEW c \in Calls, AwaitRow(c) \/ Ingest(c) \/ IngestFails(c)
        PROVE LockHeld'
    BY <2>7, OthersKeepLock DEF AwaitRow, Ingest, IngestFails, Beyond
  <2>8. ASSUME Crash PROVE LockHeld'
    BY <2>8, OthersKeepLock DEF Crash, Beyond
  <2>9. ASSUME Lapse PROVE LockHeld'
    BY <2>9 DEF Lapse, LockHeld
  <2>10. CASE UNCHANGED vars
    BY <2>10 DEF vars, LockHeld, Beyond
  <2> QED
    BY <2>1, <2>2, <2>3, <2>4, <2>5, <2>6, <2>7, <2>8, <2>9, <2>10
       DEF Next, Proceed
<1>3. TypeOK /\ LockHeld => OneRecordPerListen
  BY DEF TypeOK, LockHeld, Beyond, OneRecordPerListen
<1> QED
  BY <1>1, <1>2, <1>3, ScrobbleTypeCorrect, PTL DEF Spec

-----------------------------------------------------------------------------
(* No listen is lost.  ListenKept speaks of calls that have ended; what     *)
(* carries it is that whoever holds a lock, or got past it, is in hand too. *)

HandOf(l) == \E d \in Calls : InHand(d) /\ listen[d] = l

KeptInv ==
  lost = {} =>
    /\ \A l \in lock : HandOf(l)
    /\ \A c \in Calls :
         pc[c] \in {"await_row", "ok", "skipped", "duplicate"} =>
           \E d \in Calls : InHand(d) /\ Near(listen[d], listen[c])

\* A listen is near itself.
LEMMA NearReflexive == ASSUME NEW l \in Listens PROVE Near(l, l)
<1>1. l.at \in Nat
  BY ScrobbleAssumption DEF Listens
<1> QED
  BY <1>1, ScrobbleAssumption DEF Near

\* A step that loses nobody keeps every listen in hand, if what a call had in
\* hand some call with the same listen still has.
LEMMA OthersKeepHands ==
  ASSUME KeptInv, listen' = listen, lock' \subseteq lock, lost \subseteq lost',
         \A d \in Calls : InHand(d) =>
           \E e \in Calls : InHand(e)' /\ listen[e] = listen[d],
         \A c \in Calls :
           pc'[c] \in {"await_row", "ok", "skipped", "duplicate"} =>
             \/ pc[c] \in {"await_row", "ok", "skipped", "duplicate"}
             \/ \E d \in Calls : InHand(d) /\ Near(listen[d], listen[c])
  PROVE  KeptInv'
<1> SUFFICES ASSUME lost' = {} PROVE KeptInv'
  BY DEF KeptInv
<1>1. lost = {}
  OBVIOUS
<1>2. ASSUME NEW l \in lock' PROVE HandOf(l)'
  BY <1>1, <1>2 DEF KeptInv, HandOf
<1>3. ASSUME NEW c \in Calls,
             pc'[c] \in {"await_row", "ok", "skipped", "duplicate"}
      PROVE  \E d \in Calls : InHand(d)' /\ Near(listen'[d], listen'[c])
  <2>1. PICK d \in Calls : InHand(d) /\ Near(listen[d], listen[c])
    BY <1>1, <1>3 DEF KeptInv
  <2>2. PICK e \in Calls : InHand(e)' /\ listen[e] = listen[d]
    BY <2>1
  <2> QED
    BY <2>1, <2>2
<1> QED
  BY <1>2, <1>3 DEF KeptInv

\* Whatever the order of the calls, the ingest and the expiries: a listen that
\* was taken, or refused as taken, is about to be put, committed or in a row.
THEOREM NoListenLost == Spec => []ListenKept

<1>1. Init => KeptInv
  BY DEF Init, KeptInv
<1>2. TypeOK /\ KeptInv /\ [Next]_vars => KeptInv'
  <2> SUFFICES ASSUME TypeOK, KeptInv, [Next]_vars PROVE KeptInv'
    OBVIOUS
  <2> USE DEF TypeOK, redis, history, Goto
  <2>1. ASSUME NEW c \in Calls, Receive(c) \/ ReceiveImport(c) PROVE KeptInv'
    BY <2>1, OthersKeepHands DEF Receive, ReceiveImport, InHand
  <2>2. ASSUME NEW c \in Calls, FindDuplicate(c) PROVE KeptInv'
    BY <2>2, OthersKeepHands DEF FindDuplicate, InHand
  <2>3. ASSUME NEW c \in Calls, RecordAndGuard(c) PROVE KeptInv'
    BY <2>3, OthersKeepHands DEF RecordAndGuard, InHand
  <2>4. ASSUME NEW c \in Calls, SetBlock(c) \/ SeeToCatalog(c) PROVE KeptInv'
    BY <2>4, OthersKeepHands DEF SetBlock, SeeToCatalog, InHand
  <2>5. ASSUME NEW c \in Calls, Lock(c) PROVE KeptInv'
    <3>1. CASE listen[c] \in lock
      <4>1. lock' = lock
        BY <2>5, <3>1 DEF Lock
      <4>2. lost = {} => \E d \in Calls : InHand(d) /\ Near(listen[d], listen[c])
        BY <3>1, NearReflexive DEF KeptInv, HandOf
      <4>3. \A d \in Calls : InHand(d) => InHand(d)'
        BY <2>5 DEF Lock, InHand
      <4>4. CASE lost = {}
        BY <2>5, <4>1, <4>2, <4>3, <4>4, OthersKeepHands DEF Lock
      <4>5. CASE lost # {}
        BY <2>5, <4>5 DEF Lock, KeptInv
      <4> QED
        BY <4>4, <4>5
    <3>2. CASE listen[c] \notin lock
      <4>1. \A d \in Calls : InHand(d) => InHand(d)'
        BY <2>5 DEF Lock, InHand
      <4>2. InHand(c)'
        BY <2>5, <3>2 DEF Lock, InHand
      <4>3. /\ listen' = listen /\ lost' = lost
            /\ lock' = lock \union {listen[c]}
            /\ \A d \in Calls :
                 pc'[d] \in {"await_row", "ok", "skipped", "duplicate"} =>
                   pc[d] \in {"await_row", "ok", "skipped", "duplicate"}
        BY <2>5, <3>2 DEF Lock
      <4> QED
        BY <4>1, <4>2, <4>3 DEF KeptInv, HandOf
    <3> QED
      BY <3>1, <3>2
  <2>6. ASSUME NEW c \in Calls, PutScrobble(c) PROVE KeptInv'
    <3>1. CASE c \in lost'
      BY <3>1 DEF KeptInv
    <3>2. CASE c \notin lost'
      <4>1. \A d \in Calls : InHand(d) => InHand(d)'
        BY <2>6, <3>2 DEF PutScrobble, InHand
      <4>2. InHand(c) /\ Near(listen[c], listen[c])
        BY <2>6, NearReflexive DEF PutScrobble, InHand
      <4> QED
        BY <2>6, <3>2, <4>1, <4>2, OthersKeepHands DEF PutScrobble
    <3> QED
      BY <3>1, <3>2
  <2>7. ASSUME NEW c \in Calls, AwaitRow(c) PROVE KeptInv'
    BY <2>7, OthersKeepHands DEF AwaitRow, InHand
  <2>8. ASSUME NEW c \in Calls, Ingest(c) PROVE KeptInv'
    <3>1. \A d \in Calls : InHand(d) =>
            \E e \in Calls : InHand(e)' /\ listen[e] = listen[d]
      BY <2>8 DEF Ingest, InHand
    <3> QED
      BY <2>8, <3>1, OthersKeepHands DEF Ingest
  <2>9. ASSUME NEW c \in Calls, IngestFails(c) PROVE KeptInv'
    BY <2>9 DEF IngestFails, KeptInv
  <2>10. ASSUME Crash PROVE KeptInv'
    <3>1. CASE \E c \in Calls : pc[c] = "put_scrobble"
      BY <2>10, <3>1 DEF Crash, KeptInv
    <3>2. CASE ~\E c \in Calls : pc[c] = "put_scrobble"
      BY <2>10, <3>2, OthersKeepHands DEF Crash, InHand
    <3> QED
      BY <3>1, <3>2
  <2>11. ASSUME Lapse PROVE KeptInv'
    BY <2>11, OthersKeepHands DEF Lapse, InHand
  <2>12. CASE UNCHANGED vars
    BY <2>12, OthersKeepHands DEF vars, InHand
  <2> QED
    BY <2>1, <2>2, <2>3, <2>4, <2>5, <2>6, <2>7, <2>8, <2>9, <2>10, <2>11,
       <2>12 DEF Next, Proceed
<1>3. KeptInv => ListenKept
  BY DEF KeptInv, ListenKept
<1> QED
  BY <1>1, <1>2, <1>3, ScrobbleTypeCorrect, PTL DEF Spec

-----------------------------------------------------------------------------
(* The guard.  A call counts what the window still holds, and what it held  *)
(* once may have been pruned: the strengthening is that an accepted call    *)
(* that is not there any more lies a whole window before one that is.       *)

GuardInv ==
  /\ IsFiniteSet(rate)
  /\ lapses = 0 =>
       \A c \in accepted \ rate :
         \E r \in rate : listen[c].at <= listen[r].at - RateWindow

\* A step that does not count leaves the guard as it was.
LEMMA OthersKeepGuard ==
  ASSUME GuardInv, AcceptedAreFew, listen' = listen, rate' = rate,
         accepted' = accepted, lapses' = lapses, late' = late
  PROVE  GuardInv' /\ AcceptedAreFew'
BY DEF GuardInv, AcceptedAreFew

\* The listens' times are numbers.
LEMMA TimesAreNumbers ==
  ASSUME TypeOK, NEW c \in Calls PROVE listen[c].at \in Nat
BY ScrobbleAssumption DEF TypeOK, Listens

\* Counting keeps the strengthening: the call that counts is itself in the
\* window, and prunes only what lies a window before it.
LEMMA CountingKeepsGuard ==
  ASSUME TypeOK, GuardInv, NEW c \in Calls, RecordAndGuard(c)
  PROVE  GuardInv'
<1> DEFINE all == rate \union {c}
<1>1. /\ rate' = {r \in all : listen[r].at > listen[c].at - RateWindow}
      /\ accepted' \subseteq accepted \union {c}
      /\ listen' = listen /\ lapses' = lapses
  BY DEF RecordAndGuard, Counted
<1>2. rate \subseteq Calls /\ accepted \subseteq Calls
  BY DEF TypeOK
<1>3. RateWindow \in Nat /\ RateWindow > 0
  BY ScrobbleAssumption
<1>4. IsFiniteSet(rate')
  <2>1. IsFiniteSet(all)
    BY FS_AddElement DEF GuardInv
  <2>2. rate' \in SUBSET all
    BY <1>1
  <2> QED
    BY <2>1, <2>2, FS_Subset
<1>5. c \in rate'
  BY <1>1, <1>3, TimesAreNumbers
<1>6. ASSUME lapses = 0, NEW d \in accepted' \ rate'
      PROVE  \E r \in rate' : listen[d].at <= listen[r].at - RateWindow
  <2>1. d \in Calls /\ d # c /\ d \in accepted
    BY <1>1, <1>2, <1>5, <1>6
  <2>2. CASE d \in rate
    <3>1. listen[d].at <= listen[c].at - RateWindow
      BY <1>1, <1>3, <1>6, <2>1, <2>2, TimesAreNumbers
    <3> QED
      BY <1>5, <3>1
  <2>3. CASE d \notin rate
    <3>1. PICK r \in rate : listen[d].at <= listen[r].at - RateWindow
      BY <1>6, <2>1, <2>3 DEF GuardInv
    <3>2. CASE r \in rate'
      BY <3>1, <3>2
    <3>3. CASE r \notin rate'
      <4>1. listen[r].at <= listen[c].at - RateWindow
        BY <1>1, <1>2, <1>3, <3>3, TimesAreNumbers
      <4>2. listen[d].at <= listen[c].at - RateWindow
        BY <1>2, <1>3, <2>1, <3>1, <4>1, TimesAreNumbers
      <4> QED
        BY <1>5, <4>2
    <3> QED
      BY <3>2, <3>3
  <2> QED
    BY <2>2, <2>3
<1> QED
  BY <1>1, <1>4, <1>6 DEF GuardInv

\* The call that was just let through sees no more than MaxInWindow of its
\* window, and windows that end before it do not have it.
LEMMA CountingAcceptsFew ==
  ASSUME TypeOK, GuardInv, AcceptedAreFew, NEW c \in Calls, RecordAndGuard(c)
  PROVE  AcceptedAreFew'
<1> DEFINE Window(t) == {d \in accepted : /\ listen[d].at <= t
                                          /\ listen[d].at > t - RateWindow}
<1>1. /\ rate' = Counted(c) /\ listen' = listen /\ lapses' = lapses
      /\ late' = (late \/ \E r \in rate : listen[r].at > listen[c].at)
  BY DEF RecordAndGuard
<1>2. /\ accepted \subseteq Calls /\ rate \subseteq Calls
      /\ RateWindow \in Nat \ {0} /\ MaxInWindow \in Nat
  BY ScrobbleAssumption DEF TypeOK
<1> SUFFICES ASSUME lapses = 0, ~late', NEW t \in Times
             PROVE  Cardinality(Window(t)') <= MaxInWindow
  BY <1>1 DEF AcceptedAreFew
<1>3. ~late /\ \A r \in rate : ~(listen[r].at > listen[c].at)
  BY <1>1
<1>4. Cardinality(Window(t)) <= MaxInWindow
  BY <1>3 DEF AcceptedAreFew
<1>5. t \in Nat
  BY ScrobbleAssumption
<1>6. CASE accepted' = accepted
  <2>1. Window(t)' = Window(t)
    BY <1>1, <1>6
  <2> QED
    BY <1>4, <2>1
<1>7. CASE accepted' # accepted
  <2>1. /\ accepted' = accepted \union {c}
        /\ ~(Cardinality(Counted(c)) > MaxInWindow)
    BY <1>7 DEF RecordAndGuard
  <2>2. CASE ~(listen[c].at <= t)
    <3>1. Window(t)' = Window(t)
      BY <1>1, <2>1, <2>2
    <3> QED
      BY <1>4, <3>1
  <2>3. CASE listen[c].at <= t
    <3>1. ASSUME NEW d \in Window(t)' PROVE d \in Counted(c)
      <4>1. /\ d \in accepted \union {c} /\ d \in Calls
            /\ listen[d].at > t - RateWindow
        BY <1>1, <1>2, <2>1
      <4>2. listen[d].at > listen[c].at - RateWindow
        BY <1>2, <1>5, <2>3, <4>1, TimesAreNumbers
      <4>3. d \in rate \union {c}
        <5> SUFFICES ASSUME d \in accepted \ rate PROVE FALSE
          BY <4>1
        <5>1. PICK r \in rate : listen[d].at <= listen[r].at - RateWindow
          BY DEF GuardInv
        <5> QED
          BY <1>2, <1>3, <4>1, <4>2, <5>1, TimesAreNumbers
      <4> QED
        BY <4>2, <4>3 DEF Counted
    <3>2. IsFiniteSet(Counted(c))
      BY <1>1, CountingKeepsGuard DEF GuardInv
    <3>3. Cardinality(Window(t)') <= Cardinality(Counted(c))
      BY <3>1, <3>2, FS_Subset
    <3>4. Cardinality(Counted(c)) \in Nat /\ Cardinality(Window(t)') \in Nat
      BY <3>1, <3>2, FS_Subset, FS_CardinalityType
    <3> QED
      BY <1>2, <2>1, <3>3, <3>4
  <2> QED
    BY <2>2, <2>3
<1> QED
  BY <1>6, <1>7

\* Whatever the number of calls and however they interleave with the check for a
\* block: no window holds more accepted live listens than the guard allows, as
\* long as no key expires and listens are counted in the order of their times.
THEOREM GuardHolds == Spec => []AcceptedAreFew
<1> DEFINE Inv == GuardInv /\ AcceptedAreFew
<1>1. Init => Inv
  <2> SUFFICES ASSUME Init PROVE Inv
    OBVIOUS
  <2>1. rate = {} /\ accepted = {}
    BY DEF Init
  <2>2. \A t \in Times :
          {c \in accepted : /\ listen[c].at <= t
                            /\ listen[c].at > t - RateWindow} = {}
    BY <2>1
  <2>3. MaxInWindow \in Nat /\ 0 <= MaxInWindow
    BY ScrobbleAssumption
  <2> QED
    BY <2>1, <2>2, <2>3, FS_EmptySet DEF GuardInv, AcceptedAreFew
<1>2. TypeOK /\ Inv /\ [Next]_vars => Inv'
  <2> SUFFICES ASSUME TypeOK, GuardInv, AcceptedAreFew, [Next]_vars PROVE Inv'
    OBVIOUS
  <2> USE DEF redis, history
  <2>1. ASSUME NEW c \in Calls, RecordAndGuard(c) PROVE Inv'
    BY <2>1, CountingKeepsGuard, CountingAcceptsFew
  <2>2. ASSUME NEW c \in Calls,
               Receive(c) \/ ReceiveImport(c) \/ FindDuplicate(c) \/ SetBlock(c)
        PROVE  Inv'
    BY <2>2, OthersKeepGuard DEF Receive, ReceiveImport, FindDuplicate, SetBlock
  <2>3. ASSUME NEW c \in Calls,
               SeeToCatalog(c) \/ Lock(c) \/ PutScrobble(c) \/ AwaitRow(c)
        PROVE  Inv'
    BY <2>3, OthersKeepGuard DEF SeeToCatalog, Lock, PutScrobble, AwaitRow
  <2>4. ASSUME NEW c \in Calls, Ingest(c) \/ IngestFails(c) PROVE Inv'
    BY <2>4, OthersKeepGuard DEF Ingest, IngestFails
  <2>5. ASSUME Crash PROVE Inv'
    BY <2>5, OthersKeepGuard DEF Crash
  <2>6. ASSUME Lapse PROVE Inv'
    <3>1. lapses' # 0
      BY <2>6 DEF Lapse, TypeOK
    <3>2. rate' = rate \/ rate' = {}
      BY <2>6, Zenon DEF Lapse
    <3> QED
      BY <3>1, <3>2, FS_EmptySet DEF GuardInv, AcceptedAreFew
  <2>7. CASE UNCHANGED vars
    BY <2>7, OthersKeepGuard DEF vars
  <2> QED
    BY <2>1, <2>2, <2>3, <2>4, <2>5, <2>6, <2>7 DEF Next, Proceed
<1> QED
  BY <1>1, <1>2, ScrobbleTypeCorrect, PTL DEF Spec
=============================================================================
