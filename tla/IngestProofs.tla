---------------------------- MODULE IngestProofs -----------------------------
(***************************************************************************)
(* Proofs about the two halves of the Jetstream ingest: JetstreamSources,  *)
(* for any number of servers, any lag up to the slack, any channel and any *)
(* cache; and CommitTasks, for any number of records, listens, permits,    *)
(* replays and failures.  CommitFeed is between them: the former           *)
(* implements it, the latter takes what it says for its input.             *)
(***************************************************************************)
EXTENDS JetstreamSources, CommitTasks, SequenceTheorems, TLAPS

InRange ==
    /\ start <= Len(log)
    /\ received \subseteq DOMAIN log
    /\ \A n \in DOMAIN channel : channel[n].ev \in DOMAIN log
    /\ \A s \in Sources : Len(relayed[s]) <= Len(log)

SourcesTypeInv == SourcesTypeOK /\ InRange

-----------------------------------------------------------------------------
(* The cache.                                                               *)

\* What Put returns: one key more than before or one moved, never more than fit.
LEMMA PutType ==
    ASSUME SourcesAssumption, SourcesTypeOK, NEW key \in Index
    PROVE  /\ Put(key) \in Seq(Index) /\ Len(Put(key)) <= DedupCap
           /\ \A n \in DOMAIN Put(key) : Put(key)[n] = key \/ \E m \in DOMAIN dedup : Put(key)[n] = dedup[m]
<1> DEFINE place == CHOOSE n \in DOMAIN dedup : dedup[n] = key
           rest  == IF Contains(dedup, key) THEN RemoveAt(dedup, place)
                    ELSE IF Len(dedup) = DedupCap THEN Tail(dedup) ELSE dedup
<1>0. dedup \in Seq(Index) /\ Len(dedup) <= DedupCap /\ DedupCap \in Nat \ {0}
  BY DEF SourcesAssumption, SourcesTypeOK
<1>1. /\ rest \in Seq(Index) /\ Len(rest) < DedupCap
      /\ \A n \in DOMAIN rest : \E m \in DOMAIN dedup : rest[n] = dedup[m]
  <2>1. CASE Contains(dedup, key)
    <3>1. place \in DOMAIN dedup
      BY <2>1, <1>0 DEF Contains
    <3> HIDE DEF place
    <3>2. RemoveAt(dedup, place) = SubSeq(dedup, 1, place - 1) \o SubSeq(dedup, place + 1, Len(dedup))
      BY DEF RemoveAt
    <3>3. /\ RemoveAt(dedup, place) \in Seq(Index)
          /\ Len(RemoveAt(dedup, place)) = Len(dedup) - 1
      <4> DEFINE front == SubSeq(dedup, 1, place - 1)
                 back  == SubSeq(dedup, place + 1, Len(dedup))
      <4>1. place \in 1 .. Len(dedup) /\ Len(dedup) \in Nat
        BY <1>0, <3>1
      <4>2. front \in Seq(Index) /\ Len(front) = place - 1
        BY <1>0, <4>1
      <4>3. back \in Seq(Index) /\ Len(back) = Len(dedup) - place
        BY <1>0, <4>1
      <4>4. RemoveAt(dedup, place) = front \o back
        BY <3>2
      <4> HIDE DEF front, back
      <4>5. front \o back \in Seq(Index) /\ Len(front \o back) = Len(front) + Len(back)
        BY <4>2, <4>3, ConcatProperties
      <4> QED
        BY <4>1, <4>2, <4>3, <4>4, <4>5
    <3>4. ASSUME NEW n \in 1 .. Len(dedup) - 1
          PROVE  \E m \in DOMAIN dedup : RemoveAt(dedup, place)[n] = dedup[m]
      <4>1. /\ SubSeq(dedup, 1, place - 1) \in Seq(Index)
            /\ Len(SubSeq(dedup, 1, place - 1)) = place - 1
            /\ \A i \in 1 .. place - 1 : SubSeq(dedup, 1, place - 1)[i] = dedup[i]
        BY <1>0, <3>1
      <4>2. /\ SubSeq(dedup, place + 1, Len(dedup)) \in Seq(Index)
            /\ Len(SubSeq(dedup, place + 1, Len(dedup))) = Len(dedup) - place
            /\ \A i \in 1 .. Len(dedup) - place : SubSeq(dedup, place + 1, Len(dedup))[i] = dedup[place + i]
        BY <1>0, <3>1
      <4>3. CASE n < place
        <5>1. RemoveAt(dedup, place)[n] = SubSeq(dedup, 1, place - 1)[n]
          BY <1>0, <3>1, <3>2, <4>1, <4>2, <4>3, ConcatProperties
        <5> QED
          BY <1>0, <3>1, <4>1, <4>3, <5>1
      <4>4. CASE n >= place
        <5> DEFINE front == SubSeq(dedup, 1, place - 1)
                   back  == SubSeq(dedup, place + 1, Len(dedup))
        <5>1. n \in 1 .. Len(front) + Len(back) /\ ~(n <= Len(front))
          BY <1>0, <3>1, <4>1, <4>2, <4>4
        <5>2. front \in Seq(Index) /\ back \in Seq(Index)
          BY <4>1, <4>2
        <5> HIDE DEF front, back
        <5>3. (front \o back)[n] = back[n - Len(front)]
          BY <5>1, <5>2, ConcatProperties
        <5>4. n - (place - 1) \in 1 .. Len(dedup) - place /\ place + (n - (place - 1)) \in DOMAIN dedup
          BY <1>0, <3>1, <4>4
        <5> QED
          BY <3>2, <4>1, <4>2, <5>3, <5>4 DEF front, back
      <4> QED
        BY <1>0, <3>1, <4>3, <4>4
    <3> QED
      BY <2>1, <1>0, <3>3, <3>4
  <2>2. CASE ~Contains(dedup, key) /\ Len(dedup) = DedupCap
    BY <2>2, <1>0
  <2>3. CASE ~Contains(dedup, key) /\ Len(dedup) # DedupCap
    BY <2>3, <1>0
  <2> QED
    BY <2>1, <2>2, <2>3
<1>2. Put(key) = Append(rest, key)
  BY DEF Put
<1> HIDE DEF rest
<1>3. Put(key) \in Seq(Index) /\ Len(Put(key)) = Len(rest) + 1
  BY <1>1, <1>2
<1>4. ASSUME NEW n \in DOMAIN Put(key) PROVE Put(key)[n] = key \/ \E m \in DOMAIN dedup : Put(key)[n] = dedup[m]
  BY <1>1, <1>2, <1>3
<1> QED
  BY <1>0, <1>1, <1>3, <1>4

-----------------------------------------------------------------------------
(* Types.                                                                   *)

LEMMA SourcesInitTypes == SourcesInit => SourcesTypeInv
BY FeedAssumption, SourcesAssumption
   DEF SourcesInit, FeedInit, SourcesTypeInv, SourcesTypeOK, FeedTypeOK, InRange, Workers

\* An event that the consumer gives to the handlers has a record.
LEMMA GivenType ==
    ASSUME SourcesTypeInv, NEW i \in DOMAIN log, log[i].op # "account", Give(i)
    PROVE  FeedTypeOK' /\ UNCHANGED <<log, start>> /\ log[i].rec \in Records
<1>1. log[i] \in Events
  BY DEF SourcesTypeInv, SourcesTypeOK, FeedTypeOK
<1>2. log[i].rec \in Records /\ log[i].op \in {"create", "delete"}
  BY <1>1 DEF Events
<1> QED
  BY <1>2 DEF Give, SourcesTypeInv, SourcesTypeOK, FeedTypeOK

\* What a connection puts into the channel, and what the consumer takes out of it.
LEMMA ReadFacts ==
    ASSUME SourcesTypeInv, NEW s \in Sources, Read(s)
    PROVE  /\ conn[s].pos \in DOMAIN relayed[s] /\ conn[s].pos \in DOMAIN log /\ conn[s].pos \in Index
           /\ Len(channel) \in Nat /\ DOMAIN channel = 1 .. Len(channel)
           /\ channel' \in Seq([ev : Index, time : Index])
           /\ Len(channel') = Len(channel) + 1 /\ DOMAIN channel' = 1 .. Len(channel) + 1
           /\ Len(channel') <= ChannelCap
           /\ \A n \in DOMAIN channel : channel'[n] = channel[n]
           /\ channel'[Len(channel) + 1].ev = conn[s].pos
           /\ channel'[Len(channel) + 1].time = relayed[s][conn[s].pos]
<1> DEFINE msg == [ev |-> conn[s].pos, time |-> relayed[s][conn[s].pos]]
<1>1. /\ channel \in Seq([ev : Index, time : Index]) /\ ChannelCap \in Nat
      /\ relayed[s] \in Seq(Index) /\ Len(relayed[s]) <= Len(log) /\ log \in Seq(Events) /\ Len(log) <= MaxEvents
  BY SourcesAssumption DEF SourcesTypeInv, SourcesTypeOK, FeedTypeOK, InRange
<1>2. conn[s].pos \in DOMAIN relayed[s] /\ conn[s].pos \in DOMAIN log /\ conn[s].pos \in Index
  <2>1. conn[s].pos \in DOMAIN relayed[s]
    BY DEF Read
  <2>2. /\ DOMAIN relayed[s] = 1 .. Len(relayed[s]) /\ Len(relayed[s]) \in Nat
        /\ DOMAIN log = 1 .. Len(log) /\ Len(log) \in Nat
    BY <1>1
  <2>3. Len(relayed[s]) <= Len(log) /\ Len(log) <= MaxEvents /\ MaxEvents \in Nat
    BY <1>1, FeedAssumption
  <2> QED
    BY <2>1, <2>2, <2>3 DEF Index
<1>3. msg \in [ev : Index, time : Index] /\ msg.ev = conn[s].pos /\ msg.time = relayed[s][conn[s].pos]
  BY <1>1, <1>2
<1>4. channel' = Append(channel, msg) /\ Len(channel) < ChannelCap
  BY DEF Read
<1> HIDE DEF msg
<1>5. /\ channel' \in Seq([ev : Index, time : Index]) /\ Len(channel') = Len(channel) + 1
      /\ \A n \in 1 .. Len(channel) : channel'[n] = channel[n]
      /\ channel'[Len(channel) + 1] = msg
  BY <1>1, <1>3, <1>4, AppendProperties
<1>6. Len(channel) \in Nat /\ DOMAIN channel = 1 .. Len(channel) /\ DOMAIN channel' = 1 .. Len(channel')
  BY <1>1, <1>5
<1> QED
  BY <1>1, <1>2, <1>3, <1>4, <1>5, <1>6

\* The consumer gives the event i, and remembers what it gave before.
GiveOnceMore(i) ==
    /\ Give(i)
    /\ again' = IF log[i].op = "create" /\ i \in received THEN again \cup {log[i].rec} ELSE again

LEMMA ReceiveFacts ==
    ASSUME SourcesTypeInv, Receive
    PROVE  /\ Len(channel) \in Nat \ {0} /\ DOMAIN channel = 1 .. Len(channel)
           /\ channel[1].ev \in Index /\ channel[1].time \in Index /\ channel[1].ev \in DOMAIN log
           /\ channel' \in Seq([ev : Index, time : Index])
           /\ Len(channel') = Len(channel) - 1 /\ DOMAIN channel' = 1 .. Len(channel) - 1
           /\ \A n \in DOMAIN channel' : channel'[n] = channel[n + 1]
           /\ watermark' = IF channel[1].time > watermark THEN channel[1].time ELSE watermark
           /\ received' = received \cup {channel[1].ev}
           /\ UNCHANGED <<relayed, conn, drops>>
           /\ \/ log[channel[1].ev].op = "account" /\ UNCHANGED <<feedVars, dedup, again>>
              \/ /\ log[channel[1].ev].op # "account"
                 /\ dedup' = Put(channel[1].ev)
                 /\ \/ Contains(dedup, channel[1].ev) /\ UNCHANGED <<feedVars, again>>
                    \/ ~Contains(dedup, channel[1].ev) /\ GiveOnceMore(channel[1].ev)
<1>1. channel \in Seq([ev : Index, time : Index]) /\ channel # << >>
  BY DEF SourcesTypeInv, SourcesTypeOK, Receive
<1>2. Len(channel) \in Nat \ {0} /\ DOMAIN channel = 1 .. Len(channel) /\ 1 \in 1 .. Len(channel)
  BY <1>1
<1>3. channel[1] \in [ev : Index, time : Index]
  BY <1>1, <1>2, ElementOfSeq
<1>4. channel[1].ev \in Index /\ channel[1].time \in Index
  BY <1>3
<1>5. channel[1].ev \in DOMAIN log
  BY <1>2 DEF SourcesTypeInv, InRange
<1>6. channel' = Tail(channel)
  BY DEF Receive
<1>7. /\ channel' \in Seq([ev : Index, time : Index]) /\ Len(channel') = Len(channel) - 1
      /\ \A n \in 1 .. Len(channel') : channel'[n] = channel[n + 1]
  BY <1>1, <1>6, HeadTailProperties
<1>8. DOMAIN channel' = 1 .. Len(channel')
  BY <1>7
<1>9. Head(channel) = channel[1]
  BY <1>1
<1> QED
  BY <1>2, <1>4, <1>5, <1>7, <1>8, <1>9 DEF Receive, Key, GiveOnceMore

LEMMA SourcesStepTypes ==
    ASSUME SourcesTypeInv, [SourcesNext]_sourcesVars
    PROVE  SourcesTypeInv'
<1> USE FeedAssumption, SourcesAssumption DEF Index
<1>0. /\ FeedTypeOK
      /\ relayed \in [Sources -> Seq(Index)]
      /\ conn \in [Sources -> Workers]
      /\ watermark \in 0 .. MaxEvents
      /\ channel \in Seq([ev : Index, time : Index]) /\ Len(channel) <= ChannelCap
      /\ dedup \in Seq(Index) /\ Len(dedup) <= DedupCap
      /\ received \subseteq Index
      /\ drops \in 0 .. MaxDrops
      /\ InRange
  BY DEF SourcesTypeInv, SourcesTypeOK
<1>1. ASSUME NEW e \in Events, EmitInTime(e) PROVE SourcesTypeInv'
  <2>1. log' \in Seq(Events) /\ Len(log') = Len(log) + 1 /\ Len(log') <= MaxEvents
    BY <1>0, <1>1 DEF EmitInTime, Emit, FeedTypeOK
  <2>2. FeedTypeOK'
    BY <1>0, <1>1, <2>1 DEF EmitInTime, Emit, FeedTypeOK
  <2>3. InRange'
    <3>1. /\ DOMAIN log \subseteq DOMAIN log' /\ Len(log) <= Len(log')
          /\ \A s \in Sources : Len(relayed[s]) \in Nat
      BY <1>0, <2>1 DEF FeedTypeOK
    <3>2. UNCHANGED <<start, received, channel, relayed>>
      BY <1>1 DEF EmitInTime, Emit
    <3>3. start \in Nat /\ Len(log) \in Nat /\ Len(log') \in Nat
      BY <1>0, <2>1 DEF FeedTypeOK
    <3> QED
      BY <1>0, <3>1, <3>2, <3>3 DEF InRange
  <2> QED
    BY <1>0, <1>1, <2>2, <2>3 DEF EmitInTime, SourcesTypeInv, SourcesTypeOK
<1>2. ASSUME NEW s \in Sources, Relay(s) PROVE SourcesTypeInv'
  <2>1. Len(log) \in Index /\ relayed[s] \in Seq(Index)
    BY <1>0, <1>2 DEF Relay, FeedTypeOK
  <2>2. /\ Append(relayed[s], Len(log)) \in Seq(Index)
        /\ Len(Append(relayed[s], Len(log))) = Len(relayed[s]) + 1
    BY <2>1
  <2>3. relayed' \in [Sources -> Seq(Index)] /\ \A t \in Sources : Len(relayed'[t]) <= Len(log)
    BY <1>0, <1>2, <2>1, <2>2 DEF Relay, InRange
  <2> QED
    BY <1>0, <1>2, <2>3 DEF Relay, SourcesTypeInv, SourcesTypeOK, FeedTypeOK, InRange, feedVars
<1>3. ASSUME NEW s \in Sources, Dial(s) PROVE SourcesTypeInv'
  <2>1. Cursor(watermark) \in Nat
    BY <1>0 DEF Cursor
  <2>2. conn' \in [Sources -> Workers]
    BY <1>0, <1>3, <2>1 DEF Dial, Workers
  <2> QED
    BY <1>0, <1>3, <2>2 DEF Dial, SourcesTypeInv, SourcesTypeOK, FeedTypeOK, InRange, feedVars
<1>4. ASSUME NEW s \in Sources, OpenAtCursor(s) PROVE SourcesTypeInv'
  <2>1. conn' \in [Sources -> Workers]
    BY <1>0, <1>4 DEF OpenAtCursor, Workers
  <2> QED
    BY <1>0, <1>4, <2>1 DEF OpenAtCursor, SourcesTypeInv, SourcesTypeOK, FeedTypeOK, InRange, feedVars
<1>5. ASSUME NEW s \in Sources, OpenLive(s) PROVE SourcesTypeInv'
  <2>1. Len(relayed[s]) \in Nat
    BY <1>0
  <2>2. conn' \in [Sources -> Workers]
    BY <1>0, <1>5, <2>1 DEF OpenLive, Workers
  <2>3. FeedTypeOK' /\ start' <= Len(log) /\ UNCHANGED log
    <3>1. \/ log' = log /\ last' = last /\ start' = Len(relayed[s])
          \/ log' = log /\ last' = last /\ start' = start
      BY <1>5 DEF OpenLive, LiveTail, feedVars
    <3>2. Len(log) \in Nat /\ Len(relayed[s]) <= Len(log) /\ start \in Nat /\ start <= Len(log)
      BY <1>0, <1>5 DEF FeedTypeOK, InRange
    <3>3. start' \in 0 .. MaxEvents /\ start' <= Len(log)
      BY <1>0, <2>1, <3>1, <3>2, SourcesAssumption DEF FeedTypeOK
    <3> QED
      BY <1>0, <3>1, <3>3 DEF FeedTypeOK
  <2> QED
    BY <1>0, <1>5, <2>2, <2>3 DEF OpenLive, SourcesTypeInv, SourcesTypeOK, InRange
<1>6. ASSUME NEW s \in Sources, Read(s) PROVE SourcesTypeInv'
  <2>1. conn' \in [Sources -> Workers]
    <3>1. conn[s] \in [at : {"open"}, pos : Nat \ {0}]
      BY <1>0, <1>6 DEF Read, Workers
    <3>2. [conn[s] EXCEPT !.pos = @ + 1] \in Workers
      BY <3>1 DEF Workers
    <3>3. conn' = [conn EXCEPT ![s] = [conn[s] EXCEPT !.pos = @ + 1]]
      BY <1>6 DEF Read
    <3> QED
      BY <1>0, <3>2, <3>3
  <2>2. UNCHANGED <<feedVars, relayed, watermark, dedup, received, again, drops>>
    BY <1>6 DEF Read
  <2>3. InRange'
    <3>1. \A n \in DOMAIN channel' : channel'[n].ev \in DOMAIN log
      <4>1. \A n \in DOMAIN channel : channel[n].ev \in DOMAIN log
        BY <1>0 DEF InRange
      <4>2. ASSUME NEW n \in DOMAIN channel' PROVE n \in DOMAIN channel \/ n = Len(channel) + 1
        BY <1>6, ReadFacts
      <4> QED
        BY <1>6, <4>1, <4>2, ReadFacts
    <3> QED
      BY <1>0, <2>2, <3>1 DEF InRange, feedVars
  <2> QED
    BY <1>0, <1>6, <2>1, <2>2, <2>3, ReadFacts DEF SourcesTypeInv, SourcesTypeOK, FeedTypeOK, feedVars
<1>7. ASSUME NEW s \in Sources, Drop(s) PROVE SourcesTypeInv'
  <2>1. conn' \in [Sources -> Workers] /\ drops' \in 0 .. MaxDrops
    BY <1>0, <1>7 DEF Drop, Workers
  <2> QED
    BY <1>0, <1>7, <2>1 DEF Drop, SourcesTypeInv, SourcesTypeOK, FeedTypeOK, InRange, feedVars
<1>8. ASSUME Receive PROVE SourcesTypeInv'
  <2>1. watermark' \in 0 .. MaxEvents /\ received' \subseteq Index /\ Len(channel') <= ChannelCap
    <3>1. watermark' \in 0 .. MaxEvents
      <4>1. watermark \in 0 .. MaxEvents /\ channel[1].time \in 0 .. MaxEvents
        <5>1. channel[1].time \in Index
          BY <1>8, ReceiveFacts
        <5> QED
          BY <1>0, <5>1
      <4> QED
        BY <1>8, <4>1, ReceiveFacts
    <3>2. received' \subseteq Index
      BY <1>0, <1>8, ReceiveFacts
    <3>3. Len(channel') <= ChannelCap
      <4>1. Len(channel) <= ChannelCap
        BY <1>0
      <4> QED
        BY <1>8, <4>1, ReceiveFacts
    <3> QED
      BY <3>1, <3>2, <3>3
  <2>2. dedup' \in Seq(Index) /\ Len(dedup') <= DedupCap
    <3>1. Put(channel[1].ev) \in Seq(Index) /\ Len(Put(channel[1].ev)) <= DedupCap
      BY <1>8, ReceiveFacts, PutType DEF SourcesTypeInv
    <3> QED
      BY <1>0, <1>8, <3>1, ReceiveFacts
  <2>3. FeedTypeOK' /\ UNCHANGED <<log, start>> /\ again' \subseteq Records
    BY <1>0, <1>8, ReceiveFacts, GivenType DEF feedVars, FeedTypeOK, GiveOnceMore, SourcesTypeInv, SourcesTypeOK
  <2>4. InRange'
    <3>1. \A n \in DOMAIN channel' : channel'[n].ev \in DOMAIN log
      <4> SUFFICES ASSUME NEW n \in DOMAIN channel' PROVE channel'[n].ev \in DOMAIN log
        OBVIOUS
      <4>1. /\ Len(channel) \in Nat /\ DOMAIN channel = 1 .. Len(channel)
            /\ n \in 1 .. Len(channel) - 1 /\ channel'[n] = channel[n + 1]
        BY <1>8, ReceiveFacts
      <4>2. n + 1 \in DOMAIN channel
        BY <4>1
      <4>3. \A m \in DOMAIN channel : channel[m].ev \in DOMAIN log
        BY <1>0 DEF InRange
      <4> QED
        BY <4>1, <4>2, <4>3
    <3> QED
      BY <1>0, <1>8, <2>3, <3>1, ReceiveFacts DEF InRange
  <2> QED
    BY <1>0, <1>8, <2>1, <2>2, <2>3, <2>4, ReceiveFacts DEF SourcesTypeInv, SourcesTypeOK
<1>9. CASE UNCHANGED sourcesVars
  BY <1>0, <1>9 DEF sourcesVars, feedVars, SourcesTypeInv, SourcesTypeOK, FeedTypeOK, InRange
<1> QED
  BY <1>1, <1>2, <1>3, <1>4, <1>5, <1>6, <1>7, <1>8, <1>9 DEF SourcesNext

\* Type correctness: times stay in range, and neither the channel nor the cache
\* outgrows its bound.
THEOREM JetstreamTypeCorrect == SourcesSpec => []SourcesTypeOK
<1>1. SourcesSpec => []SourcesTypeInv
  BY SourcesInitTypes, SourcesStepTypes, PTL DEF SourcesSpec, SourcesSafety
<1>2. SourcesTypeInv => SourcesTypeOK
  BY DEF SourcesTypeInv
<1> QED
  BY <1>1, <1>2, PTL

-----------------------------------------------------------------------------
(* Order.  A server stamps an event no earlier than it was emitted and no   *)
(* later than MaxLag after, and MaxLag is one more than the slack at most:  *)
(* what lies before a cursor has therefore been received.                   *)

Stamped ==
    \A s \in Sources : \A i \in DOMAIN relayed[s] : i <= relayed[s][i] /\ relayed[s][i] <= i + MaxLag

InTime == \A s \in Sources : Len(log) <= Len(relayed[s]) + MaxLag + 1

ChannelStamped == \A n \in DOMAIN channel : channel[n].time <= channel[n].ev + MaxLag

ChannelInOrder ==
    \A n \in DOMAIN channel : \A i \in Index :
        start < i /\ i < channel[n].ev =>
            i \in received \/ \E m \in DOMAIN channel : m < n /\ channel[m].ev = i

WatermarkBehind == \A i \in Index : start < i /\ i + Slack < watermark => i \in received

CursorsBehind ==
    \A s \in Sources : conn[s].at = "connecting" =>
        \A i \in Index : start < i /\ i < conn[s].cursor => i \in received

PlacesInOrder ==
    \A s \in Sources : conn[s].at = "open" =>
        \A i \in Index : start < i /\ i < conn[s].pos => i \in received \/ i \in InChannel

PlacesInRange == \A s \in Sources : conn[s].at = "open" => conn[s].pos <= Len(relayed[s]) + 1

OrderInv ==
    /\ SourcesTypeInv /\ Stamped /\ InTime /\ ChannelStamped /\ ChannelInOrder
    /\ WatermarkBehind /\ CursorsBehind /\ PlacesInOrder /\ PlacesInRange

\* What was received was handed over, and the cache holds nothing else.
HandedOver ==
    /\ \A i \in received : log[i].op # "account" => last[log[i].rec] # "none"
    /\ \A n \in DOMAIN dedup : dedup[n] \in received /\ log[dedup[n]].op # "account"

LEMMA InitOrder == SourcesInit => OrderInv
<1> SUFFICES ASSUME SourcesInit PROVE OrderInv
  OBVIOUS
<1>1. SourcesTypeInv
  BY SourcesInitTypes
<1>2. channel = << >> /\ watermark = 0 /\ log = << >>
      /\ \A s \in Sources : relayed[s] = << >> /\ conn[s].at = "down"
  BY DEF SourcesInit, FeedInit
<1> QED
  BY <1>1, <1>2, SourcesAssumption DEF OrderInv, Stamped, InTime, ChannelStamped, ChannelInOrder,
     WatermarkBehind, CursorsBehind, PlacesInOrder, PlacesInRange, Index

\* The servers' part: stamps stay in time.
LEMMA StepStamped ==
    ASSUME OrderInv, [SourcesNext]_sourcesVars
    PROVE  Stamped' /\ InTime'
<1> USE SourcesAssumption, FeedAssumption
<1>0. /\ log \in Seq(Events) /\ relayed \in [Sources -> Seq(Index)]
      /\ \A s \in Sources : Len(relayed[s]) <= Len(log)
      /\ Stamped /\ InTime
  BY DEF OrderInv, SourcesTypeInv, SourcesTypeOK, FeedTypeOK, InRange
<1>1. ASSUME NEW e \in Events, EmitInTime(e) PROVE Stamped' /\ InTime'
  <2>1. Len(log') = Len(log) + 1 /\ relayed' = relayed
        /\ \A s \in Sources : Len(log) - Len(relayed[s]) <= MaxLag
    BY <1>0, <1>1 DEF EmitInTime, Emit
  <2> QED
    BY <1>0, <2>1 DEF Stamped, InTime
<1>2. ASSUME NEW s \in Sources, Relay(s) PROVE Stamped' /\ InTime'
  <2>1. relayed' = [relayed EXCEPT ![s] = Append(@, Len(log))] /\ log' = log /\ Len(relayed[s]) < Len(log)
    BY <1>2 DEF Relay, feedVars
  <2>2. relayed[s] \in Seq(Index) /\ Len(relayed[s]) \in Nat /\ Len(log) \in Nat
    BY <1>0
  <2>3. Len(log) <= Len(relayed[s]) + MaxLag + 1
    BY <1>0 DEF InTime
  <2>4. ASSUME NEW t \in Sources, NEW i \in DOMAIN relayed'[t]
        PROVE  i <= relayed'[t][i] /\ relayed'[t][i] <= i + MaxLag
    <3>1. CASE t # s \/ i \in DOMAIN relayed[t]
      <4>1. relayed'[t][i] = relayed[t][i] /\ i \in DOMAIN relayed[t]
        BY <1>0, <2>1, <2>2, <2>4, <3>1
      <4> QED
        BY <1>0, <4>1 DEF Stamped
    <3>2. CASE t = s /\ i \notin DOMAIN relayed[t]
      <4>1. i = Len(relayed[s]) + 1 /\ relayed'[t][i] = Len(log)
        BY <1>0, <2>1, <2>2, <2>4, <3>2
      <4> QED
        BY <2>1, <2>2, <2>3, <4>1
    <3> QED
      BY <3>1, <3>2
  <2>5. InTime'
    <3>1. ASSUME NEW t \in Sources PROVE Len(log) <= Len(relayed'[t]) + MaxLag + 1
      BY <1>0, <2>1, <2>2, <2>3 DEF InTime
    <3> QED
      BY <2>1, <3>1 DEF InTime
  <2> QED
    BY <2>4, <2>5 DEF Stamped
<1>3. CASE UNCHANGED <<log, relayed>>
  BY <1>0, <1>3 DEF Stamped, InTime
<1>4. ASSUME NEW s \in Sources, Dial(s) \/ OpenAtCursor(s) \/ OpenLive(s) \/ Read(s) \/ Drop(s)
      PROVE  UNCHANGED <<log, relayed>>
  BY <1>4 DEF Dial, OpenAtCursor, OpenLive, Read, Drop, feedVars, LiveTail
<1>5. Receive => UNCHANGED <<log, relayed>>
  BY DEF Receive, Give, feedVars
<1> QED
  BY <1>1, <1>2, <1>3, <1>4, <1>5 DEF SourcesNext, sourcesVars, feedVars

\* What the steps of a step's proof use of the invariant.
LEMMA OrderParts ==
    ASSUME OrderInv
    PROVE  /\ SourcesTypeInv /\ Stamped /\ ChannelStamped /\ ChannelInOrder
           /\ WatermarkBehind /\ CursorsBehind /\ PlacesInOrder /\ PlacesInRange
           /\ start \in Nat /\ watermark \in Nat
           /\ relayed \in [Sources -> Seq(Index)] /\ conn \in [Sources -> Workers]
           /\ \A s \in Sources : Len(relayed[s]) \in Nat
           /\ Slack \in Nat /\ MaxLag \in Nat /\ MaxLag <= Slack + 1
           /\ \A i \in Index : i \in Nat \ {0}
BY SourcesAssumption, FeedAssumption DEF OrderInv, SourcesTypeInv, SourcesTypeOK, FeedTypeOK, Index

\* A step of the servers, the repositories or a dropped connection.
LEMMA OutsideOrder ==
    ASSUME OrderInv,
           UNCHANGED <<start, watermark, channel, received>>,
           \A s \in Sources : Len(relayed'[s]) \in Nat /\ Len(relayed[s]) <= Len(relayed'[s]),
           \A s \in Sources : conn'[s] = conn[s] \/ conn'[s].at = "down"
    PROVE  ChannelStamped' /\ ChannelInOrder' /\ WatermarkBehind' /\ CursorsBehind' /\ PlacesInOrder' /\ PlacesInRange'
<1>1. ChannelStamped' /\ ChannelInOrder' /\ WatermarkBehind'
  BY DEF OrderInv, ChannelStamped, ChannelInOrder, WatermarkBehind
<1>2. CursorsBehind'
  BY DEF OrderInv, CursorsBehind
<1>3. PlacesInOrder'
  BY DEF OrderInv, PlacesInOrder, InChannel
<1>4. PlacesInRange'
  <2> SUFFICES ASSUME NEW s \in Sources, conn'[s].at = "open"
               PROVE  conn'[s].pos <= Len(relayed'[s]) + 1
    BY DEF PlacesInRange
  <2>1. conn'[s] = conn[s] /\ conn[s].pos <= Len(relayed[s]) + 1
    BY DEF OrderInv, PlacesInRange
  <2>2. conn[s] \in Workers /\ conn[s].at = "open" /\ Len(relayed[s]) \in Nat
    BY <2>1, OrderParts
  <2>3. conn[s].pos \in Nat
    BY <2>2 DEF Workers
  <2> QED
    BY <2>1, <2>2, <2>3
<1> QED
  BY <1>1, <1>2, <1>3, <1>4

\* A connection is made behind the watermark, or its server plays from now on.
LEMMA ConnectOrder ==
    ASSUME OrderInv, NEW s \in Sources, Dial(s) \/ OpenAtCursor(s) \/ OpenLive(s)
    PROVE  ChannelStamped' /\ ChannelInOrder' /\ WatermarkBehind' /\ CursorsBehind' /\ PlacesInOrder' /\ PlacesInRange'
<1>1. UNCHANGED <<relayed, channel, watermark, received>> /\ start' \in Nat /\ start <= start'
  <2>1. UNCHANGED <<relayed, channel, watermark, received>>
    BY DEF Dial, OpenAtCursor, OpenLive
  <2>2. start' = start \/ (start' = Len(relayed[s]) /\ start < Len(relayed[s]))
    BY DEF Dial, OpenAtCursor, OpenLive, LiveTail, feedVars
  <2> QED
    BY <2>1, <2>2, OrderParts
<1>2. ASSUME NEW i \in Index, start' < i PROVE start < i
  BY <1>1, <1>2, OrderParts
<1>3. ChannelStamped' /\ ChannelInOrder' /\ WatermarkBehind'
  BY <1>1, <1>2 DEF OrderInv, ChannelStamped, ChannelInOrder, WatermarkBehind
<1>4. \A t \in Sources : t # s => conn'[t] = conn[t]
  BY OrderParts DEF Dial, OpenAtCursor, OpenLive
<1>5. CursorsBehind'
  <2> SUFFICES ASSUME NEW t \in Sources, conn'[t].at = "connecting",
                      NEW i \in Index, start' < i, i < conn'[t].cursor
               PROVE  i \in received
    BY <1>1 DEF CursorsBehind
  <2>1. CASE conn'[t] = conn[t]
    BY <1>2, <2>1, OrderParts DEF CursorsBehind
  <2>2. CASE conn'[t] # conn[t]
    <3>1. t = s /\ Dial(s)
      BY <1>4, <2>2, OrderParts DEF OpenAtCursor, OpenLive
    <3>2. conn'[t].cursor = Cursor(watermark)
      BY <3>1, OrderParts DEF Dial
    <3>3. i + Slack < watermark
      BY <3>2, OrderParts DEF Cursor
    <3> QED
      BY <1>2, <3>3, OrderParts DEF WatermarkBehind
  <2> QED
    BY <2>1, <2>2
<1>6. ASSUME NEW t \in Sources, conn'[t].at = "open"
      PROVE  /\ conn'[t].pos <= Len(relayed[t]) + 1
             /\ \A i \in Index : start' < i /\ i < conn'[t].pos => i \in received \/ i \in InChannel
  <2>1. CASE conn'[t] = conn[t]
    BY <1>2, <1>6, <2>1, OrderParts DEF PlacesInOrder, PlacesInRange
  <2>2. CASE conn'[t] # conn[t] /\ OpenAtCursor(s)
    <3>1. t = s
      BY <1>4, <2>2
    <3>2. PICK first \in 1 .. Len(relayed[s]) + 1 :
            /\ \A i \in DOMAIN relayed[s] : i < first <=> relayed[s][i] < conn[s].cursor
            /\ conn' = [conn EXCEPT ![s] = [at |-> "open", pos |-> first]]
      BY <2>2 DEF OpenAtCursor
    <3>3. conn'[t].pos = first
      BY <3>1, <3>2, OrderParts
    <3>4. ASSUME NEW i \in Index, start' < i, i < first PROVE i \in received
      <4>1. i \in DOMAIN relayed[s]
        BY <3>2, <3>4, OrderParts
      <4>2. relayed[s][i] < conn[s].cursor /\ i <= relayed[s][i]
        BY <3>2, <3>4, <4>1, OrderParts DEF Stamped
      <4>3. conn[s] \in Workers /\ conn[s].at = "connecting"
        BY <2>2, OrderParts DEF OpenAtCursor
      <4>4. conn[s].cursor \in Nat
        BY <4>3 DEF Workers
      <4>5. relayed[s][i] \in Nat
        BY <4>1, OrderParts
      <4>6. i < conn[s].cursor
        BY <4>2, <4>4, <4>5, OrderParts
      <4> QED
        BY <1>2, <3>4, <4>3, <4>6, OrderParts DEF CursorsBehind
    <3> QED
      BY <3>1, <3>2, <3>3, <3>4, OrderParts
  <2>3. CASE conn'[t] # conn[t] /\ OpenLive(s)
    <3>1. t = s /\ conn'[t].pos = Len(relayed[s]) + 1
      BY <1>4, <2>3, OrderParts DEF OpenLive
    <3>2. Len(relayed[s]) <= start'
      BY <2>3, OrderParts DEF OpenLive, LiveTail, feedVars
    <3> QED
      BY <1>1, <3>1, <3>2, OrderParts
  <2>4. CASE conn'[t] # conn[t] /\ Dial(s)
    BY <1>4, <1>6, <2>4, OrderParts DEF Dial
  <2> QED
    BY <2>1, <2>2, <2>3, <2>4
<1> QED
  BY <1>1, <1>3, <1>5, <1>6 DEF PlacesInOrder, PlacesInRange, InChannel

\* A worker puts into the channel the event at its place.
LEMMA ReadOrder ==
    ASSUME OrderInv, NEW s \in Sources, Read(s)
    PROVE  ChannelStamped' /\ ChannelInOrder' /\ WatermarkBehind' /\ CursorsBehind' /\ PlacesInOrder' /\ PlacesInRange'
<1>1. UNCHANGED <<relayed, watermark, received, start>> /\ conn' = [conn EXCEPT ![s].pos = @ + 1]
  BY DEF Read, feedVars
<1>2. conn[s].at = "open" /\ conn[s].pos \in Nat /\ conn[s].pos \in DOMAIN relayed[s]
      /\ conn'[s].at = "open" /\ conn'[s].pos = conn[s].pos + 1
      /\ \A t \in Sources : t # s => conn'[t] = conn[t]
  <2>1. conn[s] \in Workers /\ conn[s].at = "open" /\ conn[s].pos \in DOMAIN relayed[s]
    BY OrderParts DEF Read
  <2>2. conn[s] \in [at : {"open"}, pos : Nat \ {0}]
    BY <2>1 DEF Workers
  <2> QED
    BY <1>1, <2>1, <2>2, OrderParts
<1>3. /\ Len(channel) \in Nat /\ DOMAIN channel = 1 .. Len(channel) /\ DOMAIN channel' = 1 .. Len(channel) + 1
      /\ \A n \in DOMAIN channel : channel'[n] = channel[n]
      /\ channel'[Len(channel) + 1].ev = conn[s].pos
      /\ channel'[Len(channel) + 1].time = relayed[s][conn[s].pos]
  BY OrderParts, ReadFacts
<1>4. ASSUME NEW n \in DOMAIN channel' PROVE n \in DOMAIN channel \/ n = Len(channel) + 1
  BY <1>3
<1>5. ChannelStamped'
  <2>1. relayed[s][conn[s].pos] <= conn[s].pos + MaxLag
    BY <1>2, OrderParts DEF Stamped
  <2>2. \A n \in DOMAIN channel : channel[n].time <= channel[n].ev + MaxLag
    BY OrderParts DEF ChannelStamped
  <2> QED
    BY <1>3, <1>4, <2>1, <2>2 DEF ChannelStamped
<1>6. \A i \in InChannel : \E m \in DOMAIN channel : channel[m].ev = i
  BY DEF InChannel
<1>7. ChannelInOrder'
  <2> SUFFICES ASSUME NEW n \in DOMAIN channel', NEW i \in Index, start < i, i < channel'[n].ev, i \notin received
               PROVE  \E m \in DOMAIN channel' : m < n /\ channel'[m].ev = i
    BY <1>1 DEF ChannelInOrder
  <2>1. \E m \in DOMAIN channel : m < n /\ channel[m].ev = i
    <3>1. CASE n \in DOMAIN channel
      BY <1>3, <3>1, OrderParts DEF ChannelInOrder
    <3>2. CASE n = Len(channel) + 1
      <4>1. i \in InChannel
        BY <1>2, <1>3, <3>2, OrderParts DEF PlacesInOrder
      <4>2. \A m \in DOMAIN channel : m < n
        BY <1>3, <3>2
      <4> QED
        BY <1>6, <4>1, <4>2
    <3> QED
      BY <1>4, <3>1, <3>2
  <2>2. PICK m \in DOMAIN channel : m < n /\ channel[m].ev = i
    BY <2>1
  <2>3. m \in DOMAIN channel' /\ channel'[m] = channel[m]
    BY <1>3
  <2> QED
    BY <2>2, <2>3
<1>8. WatermarkBehind' /\ CursorsBehind'
  BY <1>1, <1>2, OrderParts DEF WatermarkBehind, CursorsBehind
<1>9. \A i \in InChannel \cup {conn[s].pos} : i \in InChannel'
  <2>1. ASSUME NEW i \in InChannel PROVE i \in InChannel'
    <3>1. PICK m \in DOMAIN channel : channel[m].ev = i
      BY <1>6
    <3>2. m \in DOMAIN channel' /\ channel'[m].ev = i
      BY <1>3, <3>1
    <3> QED
      BY <3>2 DEF InChannel
  <2>2. conn[s].pos \in InChannel'
    <3>1. Len(channel) + 1 \in DOMAIN channel'
      BY <1>3
    <3> QED
      BY <1>3, <3>1 DEF InChannel
  <2> QED
    BY <2>1, <2>2
<1>10. PlacesInOrder'
  <2> SUFFICES ASSUME NEW t \in Sources, conn'[t].at = "open", NEW i \in Index, start < i, i < conn'[t].pos
               PROVE  i \in received \/ i \in InChannel'
    BY <1>1 DEF PlacesInOrder
  <2>1. conn[t].at = "open" /\ (i < conn[t].pos \/ i = conn[s].pos)
    <3>1. CASE t = s
      <4>1. i \in Nat
        BY OrderParts
      <4> QED
        BY <1>2, <3>1, <4>1
    <3>2. CASE t # s
      BY <1>2, <3>2
    <3> QED
      BY <3>1, <3>2
  <2>2. i < conn[t].pos => i \in received \/ i \in InChannel
    BY <2>1, OrderParts DEF PlacesInOrder
  <2> QED
    BY <1>9, <2>1, <2>2
<1>11. PlacesInRange'
  <2> SUFFICES ASSUME NEW t \in Sources, conn'[t].at = "open" PROVE conn'[t].pos <= Len(relayed[t]) + 1
    BY <1>1 DEF PlacesInRange
  <2>1. CASE t = s
    BY <1>2, <2>1, OrderParts
  <2>2. CASE t # s
    BY <1>2, <2>2, OrderParts DEF PlacesInRange
  <2> QED
    BY <2>1, <2>2
<1> QED
  BY <1>5, <1>7, <1>8, <1>10, <1>11

\* The consumer takes the oldest: all before it have been received.
LEMMA ReceiveOrder ==
    ASSUME OrderInv, Receive
    PROVE  ChannelStamped' /\ ChannelInOrder' /\ WatermarkBehind' /\ CursorsBehind' /\ PlacesInOrder' /\ PlacesInRange'
<1>1. /\ Len(channel) \in Nat \ {0} /\ DOMAIN channel = 1 .. Len(channel) /\ DOMAIN channel' = 1 .. Len(channel) - 1
      /\ \A n \in DOMAIN channel' : channel'[n] = channel[n + 1]
      /\ channel[1].ev \in Index /\ channel[1].time \in Index
      /\ watermark' = IF channel[1].time > watermark THEN channel[1].time ELSE watermark
      /\ received' = received \cup {channel[1].ev}
      /\ UNCHANGED <<relayed, conn>>
  BY OrderParts, ReceiveFacts
<1>2. start' = start
  BY DEF Receive, Give, feedVars
<1>3. ASSUME NEW n \in DOMAIN channel' PROVE n + 1 \in DOMAIN channel /\ channel'[n] = channel[n + 1] /\ n \in Nat
  BY <1>1
<1>4. ASSUME NEW m \in DOMAIN channel PROVE channel[m].ev \in received' \/ (m - 1 \in DOMAIN channel' /\ channel'[m - 1] = channel[m])
  <2>1. CASE m = 1
    BY <1>1, <2>1
  <2>2. CASE m # 1
    <3>1. m - 1 \in DOMAIN channel' /\ (m - 1) + 1 = m
      BY <1>1, <2>2
    <3> QED
      BY <1>1, <3>1
  <2> QED
    BY <2>1, <2>2
<1>5. ChannelStamped'
  BY <1>3, OrderParts DEF ChannelStamped
<1>6. ChannelInOrder'
  <2> SUFFICES ASSUME NEW n \in DOMAIN channel', NEW i \in Index, start < i, i < channel'[n].ev, i \notin received'
               PROVE  \E m \in DOMAIN channel' : m < n /\ channel'[m].ev = i
    BY <1>2 DEF ChannelInOrder
  <2>1. n + 1 \in DOMAIN channel /\ i < channel[n + 1].ev /\ i \notin received /\ n \in Nat
    BY <1>1, <1>3
  <2>2. PICK m \in DOMAIN channel : m < n + 1 /\ channel[m].ev = i
    BY <2>1, OrderParts DEF ChannelInOrder
  <2>3. m - 1 \in DOMAIN channel' /\ channel'[m - 1] = channel[m]
    BY <1>4, <2>2
  <2>4. m - 1 < n
    BY <1>1, <2>1, <2>2
  <2> QED
    BY <2>2, <2>3, <2>4
<1>7. WatermarkBehind'
  <2> SUFFICES ASSUME NEW i \in Index, start < i, i + Slack < watermark' PROVE i \in received'
    BY <1>2 DEF WatermarkBehind
  <2>1. CASE watermark' = watermark
    BY <1>1, <2>1, OrderParts DEF WatermarkBehind
  <2>2. CASE watermark' = channel[1].time
    <3>1. 1 \in DOMAIN channel /\ \A m \in DOMAIN channel : ~(m < 1)
      BY <1>1
    <3>2. channel[1].time <= channel[1].ev + MaxLag
      BY <3>1, OrderParts DEF ChannelStamped
    <3>3. i \in Nat /\ channel[1].ev \in Nat /\ channel[1].time \in Nat
      BY <1>1, OrderParts
    <3>4. i <= channel[1].ev
      BY <2>2, <3>2, <3>3, OrderParts
    <3>5. i = channel[1].ev \/ i < channel[1].ev
      BY <3>3, <3>4
    <3> QED
      BY <1>1, <3>1, <3>5, OrderParts DEF ChannelInOrder
  <2> QED
    BY <1>1, <2>1, <2>2
<1>8. CursorsBehind' /\ PlacesInRange'
  BY <1>1, <1>2, OrderParts DEF CursorsBehind, PlacesInRange
<1>9. ASSUME NEW i \in InChannel PROVE i \in received' \/ i \in InChannel'
  <2>1. PICK m \in DOMAIN channel : channel[m].ev = i
    BY <1>9 DEF InChannel
  <2>2. CASE i \in received'
    BY <2>2
  <2>3. CASE m - 1 \in DOMAIN channel' /\ channel'[m - 1].ev = i
    BY <2>3 DEF InChannel
  <2> QED
    BY <1>4, <2>1, <2>2, <2>3
<1>10. PlacesInOrder'
  BY <1>1, <1>2, <1>9, OrderParts DEF PlacesInOrder
<1> QED
  BY <1>5, <1>6, <1>7, <1>8, <1>10

LEMMA StepOrder == ASSUME OrderInv, [SourcesNext]_sourcesVars PROVE OrderInv'
<1>1. SourcesTypeInv' /\ Stamped' /\ InTime'
  BY SourcesStepTypes, StepStamped, OrderParts
<1>2. ASSUME NEW e \in Events, EmitInTime(e) PROVE OrderInv'
  <2>1. UNCHANGED <<start, watermark, channel, received, relayed, conn>>
    BY <1>2 DEF EmitInTime, Emit
  <2> QED
    BY <1>1, <2>1, OutsideOrder, OrderParts DEF OrderInv
<1>3. ASSUME NEW s \in Sources, Relay(s) PROVE OrderInv'
  <2>1. UNCHANGED <<start, watermark, channel, received, conn>>
    BY <1>3 DEF Relay, feedVars
  <2>2. ASSUME NEW t \in Sources PROVE Len(relayed'[t]) \in Nat /\ Len(relayed[t]) <= Len(relayed'[t])
    <3>1. relayed' = [relayed EXCEPT ![s] = Append(@, Len(log))] /\ relayed[t] \in Seq(Index)
      BY <1>3, OrderParts DEF Relay
    <3> QED
      BY <3>1, OrderParts
  <2> QED
    BY <1>1, <2>1, <2>2, OutsideOrder DEF OrderInv
<1>4. ASSUME NEW s \in Sources, Drop(s) PROVE OrderInv'
  <2>1. UNCHANGED <<start, watermark, channel, received, relayed>>
        /\ \A t \in Sources : conn'[t] = conn[t] \/ conn'[t].at = "down"
    BY <1>4, OrderParts DEF Drop, feedVars
  <2> QED
    BY <1>1, <2>1, OutsideOrder, OrderParts DEF OrderInv
<1>5. ASSUME NEW s \in Sources, Dial(s) \/ OpenAtCursor(s) \/ OpenLive(s) PROVE OrderInv'
  BY <1>1, <1>5, ConnectOrder DEF OrderInv
<1>6. ASSUME NEW s \in Sources, Read(s) PROVE OrderInv'
  BY <1>1, <1>6, ReadOrder DEF OrderInv
<1>7. ASSUME Receive PROVE OrderInv'
  BY <1>1, <1>7, ReceiveOrder DEF OrderInv
<1>8. CASE UNCHANGED sourcesVars
  <2>1. UNCHANGED <<start, watermark, channel, received, relayed, conn>>
    BY <1>8 DEF sourcesVars, feedVars
  <2> QED
    BY <1>1, <2>1, OutsideOrder, OrderParts DEF OrderInv
<1> QED
  BY <1>2, <1>3, <1>4, <1>5, <1>6, <1>7, <1>8 DEF SourcesNext

LEMMA AlwaysOrder == SourcesSafety => []OrderInv
<1> QED
  BY InitOrder, StepOrder, PTL DEF SourcesSafety

\* No worker ever plays past an event that no worker has brought: reconnecting Slack
\* behind the fastest server's watermark is enough when no server lags by more.
THEOREM JetstreamNothingSkipped == SourcesSpec => []NothingSkipped
<1>1. ASSUME OrderInv PROVE NothingSkipped
  <2> SUFFICES ASSUME NEW s \in Sources, conn[s].at = "open", NEW i \in start + 1 .. conn[s].pos - 1
               PROVE  i \in received \cup InChannel
    BY DEF NothingSkipped
  <2>1. conn[s] \in Workers /\ conn[s].at = "open"
    BY <1>1, OrderParts
  <2>2. conn[s].pos \in Nat \ {0}
    BY <2>1 DEF Workers
  <2>3. conn[s].pos <= MaxEvents + 1
    <3>1. conn[s].pos <= Len(relayed[s]) + 1 /\ Len(relayed[s]) <= Len(log) /\ Len(log) <= MaxEvents /\ Len(log) \in Nat
      BY <1>1 DEF OrderInv, PlacesInRange, SourcesTypeInv, InRange, SourcesTypeOK, FeedTypeOK
    <3> QED
      BY <1>1, <2>2, <3>1, FeedAssumption, OrderParts
  <2>4. i \in Index /\ start < i /\ i < conn[s].pos
    BY <1>1, <2>2, <2>3, OrderParts, FeedAssumption DEF Index
  <2> QED
    BY <1>1, <2>1, <2>4, OrderParts DEF PlacesInOrder
<1> QED
  BY <1>1, AlwaysOrder, PTL DEF SourcesSpec

-----------------------------------------------------------------------------
(* The subscriber implements CommitFeed.                                    *)

\* A deleted record was created, and before it was deleted.
DeletedAfter ==
    \A d \in DOMAIN log : log[d].op = "delete" =>
        /\ Emitted("create", log[d].rec)
        /\ \A c \in DOMAIN log : log[c] = [op |-> "create", rec |-> log[d].rec] => c < d

HandInv == OrderInv /\ DeletedAfter /\ HandedOver

LEMMA InitHands == SourcesInit => HandInv
<1>1. SourcesInit => received = {} /\ dedup = << >> /\ log = << >>
  BY DEF SourcesInit, FeedInit
<1> QED
  BY <1>1, InitOrder DEF HandInv, HandedOver, DeletedAfter

\* Receiving an event hands it over, or finds it in the cache or of no interest.
LEMMA ReceiveHands ==
    ASSUME HandInv, Receive
    PROVE  HandedOver' /\ [FeedNext]_feedVars
<1> DEFINE i == channel[1].ev
<1>0. /\ HandedOver /\ SourcesTypeInv /\ OrderInv /\ DeletedAfter
      /\ log \in Seq(Events) /\ last \in [Records -> {"none", "create", "delete"}]
      /\ start \in Nat /\ received \subseteq DOMAIN log
  BY OrderParts DEF HandInv, OrderInv, SourcesTypeInv, SourcesTypeOK, FeedTypeOK, InRange
<1>1. /\ i \in Index /\ i \in DOMAIN log
      /\ received' = received \cup {i}
      /\ \/ log[i].op = "account" /\ UNCHANGED <<feedVars, dedup>>
         \/ /\ log[i].op # "account"
            /\ dedup' = Put(i)
            /\ IF Contains(dedup, i) THEN UNCHANGED feedVars ELSE Give(i)
  BY <1>0, ReceiveFacts DEF GiveOnceMore
<1>2. ASSUME NEW j \in Index, start < j, j < i PROVE j \in received
  <2>1. 1 \in DOMAIN channel /\ \A m \in DOMAIN channel : ~(m < 1)
    BY <1>0, ReceiveFacts
  <2> QED
    BY <1>0, <1>2, <2>1, OrderParts DEF ChannelInOrder
<1> HIDE DEF i
<1>3. CASE log[i].op = "account" /\ UNCHANGED <<feedVars, dedup>>
  BY <1>0, <1>1, <1>3 DEF HandedOver, feedVars
<1>4. CASE log[i].op # "account" /\ dedup' = Put(i)
  <2>1. \A n \in DOMAIN dedup' : dedup'[n] = i \/ \E m \in DOMAIN dedup : dedup'[n] = dedup[m]
    BY <1>0, <1>1, <1>4, SourcesAssumption, PutType DEF SourcesTypeInv
  <2>2. log' = log
    BY <1>1, <1>4 DEF Give, feedVars
  <2>3. \A n \in DOMAIN dedup' : dedup'[n] \in received' /\ log'[dedup'[n]].op # "account"
    BY <1>0, <1>1, <1>4, <2>1, <2>2 DEF HandedOver
  <2>4. CASE Contains(dedup, i) /\ UNCHANGED feedVars
    <3>1. i \in received
      BY <1>0, <2>4 DEF Contains, HandedOver
    <3> QED
      BY <1>0, <1>1, <2>2, <2>3, <2>4, <3>1 DEF HandedOver, feedVars
  <2>5. CASE ~Contains(dedup, i) /\ Give(i)
    <3>1. log[i] \in Events
      BY <1>0, <1>1
    <3>2. log[i].rec \in Records /\ log[i].op \in {"create", "delete"}
      BY <1>4, <3>1 DEF Events
    <3>3. last' = [last EXCEPT ![log[i].rec] = log[i].op]
      BY <2>5 DEF Give
    <3>4. ASSUME NEW j \in received', log'[j].op # "account" PROVE last'[log'[j].rec] # "none"
      <4>1. j \in received \/ j = i
        BY <1>1, <3>4
      <4>2. CASE j = i
        BY <1>0, <2>2, <3>2, <3>3, <4>2
      <4>3. CASE j \in received
        <5>1. last[log[j].rec] # "none" /\ log[j] \in Events
          BY <1>0, <2>2, <3>4, <4>3 DEF HandedOver
        <5>2. log[j].rec \in Records
          BY <2>2, <3>4, <5>1 DEF Events
        <5> QED
          BY <1>0, <2>2, <3>2, <3>3, <5>1, <5>2
      <4> QED
        BY <4>1, <4>2, <4>3
    <3>5. ASSUME log[i].op = "delete", Promised("create", log[i].rec) PROVE last[log[i].rec] # "none"
      <4>1. PICK c \in DOMAIN log : log[c] = [op |-> "create", rec |-> log[i].rec] /\ c > start
        BY <3>5 DEF Promised
      <4>2. c \in received
        <5>1. c \in Index /\ c # i
          BY <1>0, <3>5, <4>1, FeedAssumption DEF SourcesTypeInv, SourcesTypeOK, FeedTypeOK, Index
        <5>2. CASE c < i
          BY <1>0, <1>2, <4>1, <5>1, <5>2
        <5>3. CASE i < c
          BY <1>0, <1>1, <3>5, <4>1, <5>3 DEF DeletedAfter
        <5> QED
          BY <1>1, <5>1, <5>2, <5>3, OrderParts, <1>0
      <4> QED
        BY <1>0, <4>1, <4>2 DEF HandedOver
    <3>6. Hand(i)
      BY <1>1, <1>4, <2>5, <3>5 DEF Hand
    <3> QED
      BY <1>1, <2>3, <3>4, <3>6 DEF HandedOver, FeedNext
  <2> QED
    BY <1>1, <1>4, <2>4, <2>5
<1> QED
  BY <1>1, <1>3, <1>4

\* The repositories keep the log in order.
LEMMA EmitHands ==
    ASSUME HandInv, NEW e \in Events, EmitInTime(e)
    PROVE  DeletedAfter' /\ HandedOver' /\ [FeedNext]_feedVars
<1>0. /\ log \in Seq(Events) /\ received \subseteq DOMAIN log /\ dedup \in Seq(Index)
      /\ DeletedAfter /\ HandedOver
  BY DEF HandInv, OrderInv, SourcesTypeInv, SourcesTypeOK, FeedTypeOK, InRange
<1>1. Emit(e) /\ UNCHANGED <<last, received, dedup>> /\ log' = Append(log, e)
      /\ (e.op = "create" => ~Emitted("create", e.rec))
      /\ (e.op = "delete" => Emitted("create", e.rec))
  BY DEF EmitInTime, Emit
<1>2. /\ Len(log) \in Nat /\ DOMAIN log = 1 .. Len(log) /\ DOMAIN log' = 1 .. Len(log) + 1
      /\ \A i \in DOMAIN log : log'[i] = log[i]
      /\ log'[Len(log) + 1] = e
  BY <1>0, <1>1
<1>3. DeletedAfter'
  <2>1. ASSUME NEW d \in DOMAIN log', log'[d].op = "delete" PROVE Emitted("create", log'[d].rec)
    <3>1. CASE d \in DOMAIN log
      BY <1>0, <1>2, <2>1, <3>1 DEF DeletedAfter
    <3>2. CASE d = Len(log) + 1
      BY <1>1, <1>2, <2>1, <3>2
    <3> QED
      BY <1>2, <2>1, <3>1, <3>2
  <2>2. ASSUME NEW r, Emitted("create", r) PROVE Emitted("create", r)'
    <3>1. PICK c \in DOMAIN log : log[c] = [op |-> "create", rec |-> r]
      BY <2>2 DEF Emitted
    <3>2. c \in DOMAIN log' /\ log'[c] = [op |-> "create", rec |-> r]
      BY <1>2, <3>1
    <3> QED
      BY <3>2 DEF Emitted
  <2>3. ASSUME NEW d \in DOMAIN log', log'[d].op = "delete",
               NEW c \in DOMAIN log', log'[c] = [op |-> "create", rec |-> log'[d].rec]
        PROVE  c < d
    <3>1. CASE c \in DOMAIN log /\ d \in DOMAIN log
      BY <1>0, <1>2, <2>3, <3>1 DEF DeletedAfter
    <3>2. CASE c \in DOMAIN log /\ d = Len(log) + 1
      BY <1>2, <3>2
    <3>3. CASE c = Len(log) + 1
      <4>1. e.op = "create" /\ e.rec = log'[d].rec
        BY <1>2, <2>3, <3>3
      <4> QED
        BY <1>1, <2>1, <2>3, <4>1
    <3> QED
      BY <1>2, <2>3, <3>1, <3>2, <3>3
  <2> QED
    BY <2>1, <2>2, <2>3 DEF DeletedAfter
<1>4. HandedOver'
  <2>1. ASSUME NEW i \in received PROVE i \in DOMAIN log /\ log'[i] = log[i]
    BY <1>0, <1>2, <2>1
  <2>2. \A i \in received : log'[i].op # "account" => last[log'[i].rec] # "none"
    BY <1>0, <2>1 DEF HandedOver
  <2>3. \A n \in DOMAIN dedup : dedup[n] \in received /\ log'[dedup[n]].op # "account"
    BY <1>0, <2>1 DEF HandedOver
  <2> QED
    BY <1>1, <2>2, <2>3 DEF HandedOver
<1> QED
  BY <1>1, <1>3, <1>4 DEF FeedNext

LEMMA StepHands == ASSUME HandInv, [SourcesNext]_sourcesVars PROVE HandInv' /\ [FeedNext]_feedVars
<1>1. OrderInv'
  BY StepOrder DEF HandInv
<1>2. ASSUME NEW e \in Events, EmitInTime(e) PROVE HandInv' /\ [FeedNext]_feedVars
  BY <1>1, <1>2, EmitHands DEF HandInv
<1>3. ASSUME Receive PROVE HandInv' /\ [FeedNext]_feedVars
  <2>1. log' = log
    BY <1>3 DEF Receive, Give, feedVars
  <2>2. DeletedAfter'
    BY <2>1 DEF HandInv, DeletedAfter, Emitted
  <2> QED
    BY <1>1, <1>3, <2>2, ReceiveHands DEF HandInv
<1>4. ASSUME UNCHANGED <<log, last, received, dedup>> PROVE DeletedAfter' /\ HandedOver'
  BY <1>4 DEF HandInv, DeletedAfter, HandedOver, Emitted
<1>5. ASSUME NEW s \in Sources, OpenLive(s) PROVE HandInv' /\ [FeedNext]_feedVars
  <2>1. UNCHANGED <<log, last, received, dedup>>
    BY <1>5 DEF OpenLive, LiveTail, feedVars
  <2>2. [FeedNext]_feedVars
    <3>1. CASE Len(relayed[s]) > start /\ LiveTail(Len(relayed[s]))
      <4>1. Len(relayed[s]) \in Index
        <5>1. Len(relayed[s]) \in Nat /\ start \in Nat
          BY OrderParts DEF HandInv
        <5>2. Len(relayed[s]) <= Len(log) /\ Len(log) <= MaxEvents /\ Len(log) \in Nat
          BY DEF HandInv, OrderInv, SourcesTypeInv, InRange, SourcesTypeOK, FeedTypeOK
        <5> QED
          BY <3>1, <5>1, <5>2, FeedAssumption DEF Index
      <4> QED
        BY <3>1, <4>1 DEF FeedNext
    <3> QED
      BY <1>5, <3>1 DEF OpenLive
  <2> QED
    BY <1>1, <1>4, <2>1, <2>2 DEF HandInv
<1>6. ASSUME NEW s \in Sources, Relay(s) \/ Dial(s) \/ OpenAtCursor(s) \/ Read(s) \/ Drop(s)
      PROVE  HandInv' /\ [FeedNext]_feedVars
  <2>1. UNCHANGED <<feedVars, received, dedup>>
    BY <1>6 DEF Relay, Dial, OpenAtCursor, Read, Drop
  <2> QED
    BY <1>1, <1>4, <2>1 DEF HandInv, feedVars
<1>7. CASE UNCHANGED sourcesVars
  BY <1>1, <1>4, <1>7 DEF HandInv, sourcesVars, feedVars
<1> QED
  BY <1>2, <1>3, <1>5, <1>6, <1>7 DEF SourcesNext

\* The subscriber implements the abstract feed: whatever the servers, drops, replays
\* and the cache do, the handlers see a record's creation before its deletion.
THEOREM JetstreamImplementsFeed == SourcesSpec => FeedsInOrder
<1>1. SourcesInit => FeedInit
  BY DEF SourcesInit
<1> QED
  BY <1>1, InitHands, StepHands, PTL DEF SourcesSpec, SourcesSafety, FeedsInOrder, FeedSpec

-----------------------------------------------------------------------------
(* The last word.  A creation that is given once is given before any worker *)
(* brings its deletion, and so it is never the last word after that.        *)

CreatedOnce ==
    \A r \in Records : \A b, c \in DOMAIN log :
        log[b] = [op |-> "create", rec |-> r] /\ log[c] = [op |-> "create", rec |-> r] => b = c

LastWord ==
    \A r \in Records \ again : \A c \in DOMAIN log :
        log[c] = [op |-> "create", rec |-> r] /\ start < c =>
            /\ \A d \in received :
                 log[d] = [op |-> "delete", rec |-> r] => c \in received /\ last[r] = "delete"
            /\ c \in received =>
                 last[r] = "create" \/ \E d \in received : log[d] = [op |-> "delete", rec |-> r]

WordInv == HandInv /\ CreatedOnce /\ LastWord

\* An event is received after what precedes it, and what is in the cache was received.
LEMMA ReceivedBefore ==
    ASSUME HandInv, Receive
    PROVE  /\ \A j \in DOMAIN log : start < j /\ j < channel[1].ev => j \in received
           /\ Contains(dedup, channel[1].ev) => channel[1].ev \in received
<1>1. OrderInv /\ HandedOver /\ 1 \in DOMAIN channel /\ \A m \in DOMAIN channel : ~(m < 1)
  BY ReceiveFacts, OrderParts DEF HandInv
<1>2. DOMAIN log \subseteq Index
  BY <1>1, FeedAssumption DEF OrderInv, SourcesTypeInv, SourcesTypeOK, FeedTypeOK, Index
<1> QED
  BY <1>1, <1>2 DEF OrderInv, ChannelInOrder, HandedOver, Contains

LEMMA ReceiveWord ==
    ASSUME WordInv, Receive
    PROVE  CreatedOnce' /\ LastWord'
<1> DEFINE i == channel[1].ev
<1>0. /\ HandInv /\ CreatedOnce /\ LastWord /\ SourcesTypeInv /\ DeletedAfter
      /\ log \in Seq(Events) /\ last \in [Records -> {"none", "create", "delete"}]
      /\ \A j \in DOMAIN log : j \in Nat
  BY DEF WordInv, HandInv, OrderInv, SourcesTypeInv, SourcesTypeOK, FeedTypeOK
<1>1. /\ i \in DOMAIN log /\ received' = received \cup {i}
      /\ \/ log[i].op = "account" /\ UNCHANGED <<feedVars, again>>
         \/ /\ log[i].op # "account"
            /\ \/ i \in received /\ UNCHANGED <<feedVars, again>>
               \/ GiveOnceMore(i)
  BY <1>0, ReceiveFacts, ReceivedBefore
<1>2. log' = log /\ start' = start /\ again \subseteq again'
  BY <1>1 DEF GiveOnceMore, Give, feedVars
<1>3. \A j \in DOMAIN log : start < j /\ j < i => j \in received
  BY <1>0, ReceivedBefore
<1> HIDE DEF i
<1>4. CreatedOnce'
  BY <1>0, <1>2 DEF CreatedOnce
<1>5. ASSUME NEW r \in Records \ again', NEW c \in DOMAIN log,
             log[c] = [op |-> "create", rec |-> r], start < c
      PROVE  /\ \A d \in received' :
                  log[d] = [op |-> "delete", rec |-> r] => c \in received' /\ last'[r] = "delete"
             /\ c \in received' =>
                  last'[r] = "create" \/ \E d \in received' : log[d] = [op |-> "delete", rec |-> r]
  <2>1. /\ \A d \in received :
             log[d] = [op |-> "delete", rec |-> r] => c \in received /\ last[r] = "delete"
        /\ c \in received =>
             last[r] = "create" \/ \E d \in received : log[d] = [op |-> "delete", rec |-> r]
    BY <1>0, <1>2, <1>5 DEF LastWord
  <2>2. CASE log[i] = [op |-> "create", rec |-> r]
    <3>1. i = c
      BY <1>0, <1>1, <1>5, <2>2 DEF CreatedOnce
    <3>2. CASE i \in received
      <4>1. UNCHANGED <<last, again>> \/ GiveOnceMore(i)
        BY <1>1 DEF feedVars
      <4>2. ~GiveOnceMore(i)
        BY <1>5, <2>2, <3>2 DEF GiveOnceMore
      <4> QED
        BY <1>1, <2>1, <3>2, <4>1, <4>2
    <3>3. CASE i \notin received
      <4>1. Give(i)
        BY <1>1, <2>2, <3>3 DEF GiveOnceMore
      <4>2. last'[r] = "create"
        BY <1>0, <2>2, <4>1 DEF Give
      <4>3. \A d \in received' : log[d] # [op |-> "delete", rec |-> r]
        BY <1>1, <2>1, <2>2, <3>1, <3>3
      <4> QED
        BY <4>2, <4>3
    <3> QED
      BY <3>2, <3>3
  <2>3. CASE log[i] = [op |-> "delete", rec |-> r]
    <3>1. c < i
      BY <1>0, <1>1, <1>5, <2>3 DEF DeletedAfter
    <3>2. c \in received
      BY <1>3, <1>5, <3>1
    <3>3. last'[r] = "delete"
      <4>1. CASE GiveOnceMore(i)
        BY <1>0, <2>3, <4>1 DEF GiveOnceMore, Give
      <4>2. CASE i \in received /\ last' = last
        BY <2>1, <2>3, <4>2
      <4> QED
        BY <1>1, <2>3, <4>1, <4>2 DEF feedVars
    <3> QED
      BY <1>1, <2>3, <3>2, <3>3
  <2>4. CASE log[i] # [op |-> "create", rec |-> r] /\ log[i] # [op |-> "delete", rec |-> r]
    <3>1. last'[r] = last[r]
      <4>1. log[i] \in Events
        BY <1>0, <1>1
      <4>2. log[i].op # "account" => log[i].rec # r
        BY <2>4, <4>1 DEF Events
      <4> QED
        BY <1>0, <1>1, <4>2 DEF GiveOnceMore, Give, feedVars
    <3>2. \A d \in received' : log[d] = [op |-> "delete", rec |-> r] => d \in received
      BY <1>1, <2>4
    <3>3. c \in received' => c \in received
      BY <1>1, <1>5, <2>4
    <3> QED
      BY <1>1, <2>1, <3>1, <3>2, <3>3
  <2> QED
    BY <2>2, <2>3, <2>4
<1>6. LastWord'
  BY <1>2, <1>5 DEF LastWord
<1> QED
  BY <1>4, <1>6

\* What was emitted last was not received yet, and is no second creation.
LEMMA EmitWord ==
    ASSUME WordInv, NEW e \in Events, EmitInTime(e)
    PROVE  CreatedOnce' /\ LastWord'
<1>0. /\ CreatedOnce /\ LastWord
      /\ log \in Seq(Events) /\ received \subseteq DOMAIN log
  BY DEF WordInv, HandInv, OrderInv, SourcesTypeInv, SourcesTypeOK, FeedTypeOK, InRange
<1>1. /\ log' = Append(log, e) /\ UNCHANGED <<last, start, received, again>>
      /\ (e.op = "create" => ~Emitted("create", e.rec))
  BY DEF EmitInTime, Emit
<1>2. /\ Len(log) \in Nat /\ DOMAIN log = 1 .. Len(log) /\ DOMAIN log' = 1 .. Len(log) + 1
      /\ \A i \in DOMAIN log : log'[i] = log[i]
      /\ log'[Len(log) + 1] = e
  BY <1>0, <1>1
<1>3. \A i \in received : log'[i] = log[i]
  BY <1>0, <1>2
<1>4. ASSUME NEW r \in Records, NEW c \in DOMAIN log', log'[c] = [op |-> "create", rec |-> r]
      PROVE  /\ c \in DOMAIN log => log[c] = [op |-> "create", rec |-> r]
             /\ c \notin DOMAIN log => ~Emitted("create", r)
  <2>1. c \in DOMAIN log \/ c = Len(log) + 1
    BY <1>2
  <2>2. CASE c = Len(log) + 1
    <3>1. e = [op |-> "create", rec |-> r]
      BY <1>2, <1>4, <2>2
    <3>2. e.op = "create" /\ e.rec = r
      BY <3>1
    <3> QED
      BY <1>1, <1>2, <2>2, <3>2
  <2> QED
    BY <1>2, <1>4, <2>1, <2>2
<1>5. CreatedOnce'
  <2> SUFFICES ASSUME NEW r \in Records, NEW b \in DOMAIN log', NEW c \in DOMAIN log',
                      log'[b] = [op |-> "create", rec |-> r], log'[c] = [op |-> "create", rec |-> r]
               PROVE  b = c
    BY DEF CreatedOnce
  <2>1. b \in DOMAIN log <=> c \in DOMAIN log
    BY <1>4 DEF Emitted
  <2> QED
    BY <1>0, <1>2, <1>4, <2>1 DEF CreatedOnce
<1>6. ASSUME NEW r \in Records \ again, NEW c \in DOMAIN log',
             log'[c] = [op |-> "create", rec |-> r], start < c
      PROVE  /\ \A d \in received :
                  log'[d] = [op |-> "delete", rec |-> r] => c \in received /\ last[r] = "delete"
             /\ c \in received =>
                  last[r] = "create" \/ \E d \in received : log'[d] = [op |-> "delete", rec |-> r]
  <2>1. CASE c \in DOMAIN log
    BY <1>0, <1>3, <1>4, <1>6, <2>1 DEF LastWord
  <2>2. CASE c \notin DOMAIN log
    <3>1. ~Emitted("create", r) /\ c \notin received
      BY <1>0, <1>4, <1>6, <2>2
    <3>2. \A d \in received : log[d] # [op |-> "delete", rec |-> r]
      <4>1. DeletedAfter
        BY DEF WordInv, HandInv
      <4> QED
        BY <1>0, <3>1, <4>1 DEF DeletedAfter
    <3> QED
      BY <1>3, <3>1, <3>2
  <2> QED
    BY <2>1, <2>2
<1>7. LastWord'
  <2>1. start' = start /\ last' = last /\ received' = received /\ again' = again
    BY <1>1
  <2> QED
    BY <2>1, <1>6 DEF LastWord
<1> QED
  BY <1>5, <1>7

LEMMA StepWord == ASSUME WordInv, [SourcesNext]_sourcesVars PROVE WordInv'
<1>1. HandInv'
  BY StepHands DEF WordInv
<1>2. ASSUME NEW e \in Events, EmitInTime(e) PROVE WordInv'
  BY <1>1, <1>2, EmitWord DEF WordInv
<1>3. ASSUME Receive PROVE WordInv'
  BY <1>1, <1>3, ReceiveWord DEF WordInv
<1>4. ASSUME UNCHANGED <<log, last, received, again>>, start <= start', start \in Nat, start' \in Nat
      PROVE  CreatedOnce' /\ LastWord'
  <2>1. \A c \in DOMAIN log : c \in Nat
    BY DEF WordInv, HandInv, OrderInv, SourcesTypeInv, SourcesTypeOK, FeedTypeOK
  <2> QED
    BY <1>4, <2>1 DEF WordInv, CreatedOnce, LastWord
<1>5. start \in Nat /\ start' \in Nat
  BY <1>1, FeedAssumption DEF WordInv, HandInv, OrderInv, SourcesTypeInv, SourcesTypeOK, FeedTypeOK
<1>6. ASSUME NEW s \in Sources,
             Relay(s) \/ Dial(s) \/ OpenAtCursor(s) \/ OpenLive(s) \/ Read(s) \/ Drop(s)
      PROVE  WordInv'
  <2>1. UNCHANGED <<log, last, received, again>>
    BY <1>6 DEF Relay, Dial, OpenAtCursor, OpenLive, LiveTail, Read, Drop, feedVars
  <2>2. start <= start'
    BY <1>5, <1>6 DEF Relay, Dial, OpenAtCursor, OpenLive, LiveTail, Read, Drop, feedVars
  <2> QED
    BY <1>1, <1>4, <1>5, <2>1, <2>2 DEF WordInv
<1>7. CASE UNCHANGED sourcesVars
  BY <1>1, <1>4, <1>5, <1>7 DEF WordInv, sourcesVars, feedVars
<1> QED
  BY <1>2, <1>3, <1>6, <1>7 DEF SourcesNext

\* When every worker has read all there is, the handlers were last given the latest
\* word on every record, for any servers, drops, replays and size of the cache, unless
\* the cache forgot a creation and a worker that lagged brought it again.
THEOREM JetstreamEndsUpToDate == SourcesSpec => []ReplayEndsUpToDate
<1>1. SourcesInit => WordInv
  <2>1. SourcesInit => log = << >>
    BY DEF SourcesInit, FeedInit
  <2> QED
    BY <2>1, InitHands DEF WordInv, CreatedOnce, LastWord
<1>2. WordInv => ReplayEndsUpToDate
  <2> SUFFICES ASSUME WordInv, channel = << >>,
                      \A s \in Sources : conn[s].at = "open" /\ conn[s].pos > Len(log),
                      NEW r \in Records \ again, Promised("create", r)
               PROVE  last[r] = IF Emitted("delete", r) THEN "delete" ELSE "create"
    BY DEF ReplayEndsUpToDate, UpToDateOn
  <2>1. OrderInv /\ log \in Seq(Events) /\ Len(log) <= MaxEvents /\ Len(log) \in Nat
        /\ start \in Nat /\ received \subseteq DOMAIN log
    BY OrderParts DEF WordInv, HandInv, OrderInv, SourcesTypeInv, SourcesTypeOK, FeedTypeOK, InRange
  <2>2. ASSUME NEW j \in DOMAIN log, start < j PROVE j \in received
    <3>1. PICK s \in Sources : conn[s].at = "open" /\ conn[s].pos > Len(log)
      BY SourcesAssumption
    <3>2. conn[s].pos \in Nat
      BY <2>1, <3>1, OrderParts DEF Workers
    <3>3. j \in Index /\ j < conn[s].pos
      BY <2>1, <3>1, <3>2, FeedAssumption DEF Index
    <3>4. InChannel = {}
      BY DEF InChannel
    <3> QED
      BY <2>1, <2>2, <3>1, <3>3, <3>4 DEF OrderInv, PlacesInOrder
  <2>3. PICK c \in DOMAIN log : log[c] = [op |-> "create", rec |-> r] /\ c > start
    BY DEF Promised
  <2>4. c \in received
    BY <2>1, <2>2, <2>3
  <2>5. /\ \A d \in received : log[d] = [op |-> "delete", rec |-> r] => last[r] = "delete"
        /\ last[r] = "create" \/ \E d \in received : log[d] = [op |-> "delete", rec |-> r]
    BY <2>1, <2>3, <2>4 DEF WordInv, LastWord
  <2>6. ASSUME NEW d \in DOMAIN log, log[d] = [op |-> "delete", rec |-> r] PROVE d \in received
    <3>1. c < d
      BY <2>3, <2>6 DEF WordInv, HandInv, DeletedAfter
    <3> QED
      BY <2>1, <2>2, <2>3, <3>1
  <2> QED
    BY <2>1, <2>5, <2>6 DEF Emitted
<1> QED
  BY <1>1, <1>2, StepWord, PTL DEF SourcesSpec, SourcesSafety

-----------------------------------------------------------------------------
(* The handlers.                                                            *)

\* Their input is the feed: every step of theirs is one of CommitFeed or leaves it
\* alone, so that what they are checked and proved for is what the sources give.
THEOREM CommitReadsFeed == Spec => FeedSpec
<1>1. Init => FeedInit
  BY DEF Init
<1>2. ASSUME [Next]_vars PROVE [FeedNext]_feedVars
  <2>1. ASSUME NEW p \in Permits, Handler(p) \/ Fail(p) PROVE UNCHANGED feedVars
    BY <2>1 DEF Handler, Insert, Publish, Push, Delete, PublishDelete, Fail
  <2>2. ASSUME NEW e \in Events, EmitCommit(e) PROVE FeedNext
    BY <2>2 DEF EmitCommit, FeedNext
  <2>3. ASSUME NEW i \in Index, Take(i) \/ TailFrom(i) PROVE FeedNext
    BY <2>3 DEF Take, TailFrom, FeedNext
  <2>4. Spawn \/ Webhook \/ UNCHANGED vars => UNCHANGED feedVars
    BY DEF Spawn, Webhook, Brpop, Popped, PopNothing, CloseBatch, Post, vars
  <2> QED
    BY <1>2, <2>1, <2>2, <2>3, <2>4 DEF Next
<1> QED
  BY <1>1, <1>2, PTL DEF Spec, Safety, FeedSpec

IsCommit(i) == i \in DOMAIN log /\ log[i].op # "account"

TypeInv ==
    /\ TypeOK
    /\ held # 0 => IsCommit(held)
    /\ \A p \in Permits : task[p] # Free => IsCommit(task[p].ev)

-----------------------------------------------------------------------------
(* Types.                                                                   *)

LEMMA TypeFacts ==
    ASSUME TypeInv
    PROVE  /\ log \in Seq(Events) /\ Len(log) <= MaxEvents /\ DOMAIN log \subseteq Index
           /\ last \in [Records -> {"none", "create", "delete"}] /\ start \in 0 .. MaxEvents
           /\ task \in [Permits -> Tasks]
           /\ rows \in [Listens -> Records \cup {NoRecord}] /\ news \in [Records -> Nat]
           /\ NoRecord \notin Records
           /\ \A r \in Records : ListenOf[r] \in Listens
           /\ \A i \in DOMAIN log : log[i] \in Events
BY FeedAssumption, TasksAssumption DEF TypeInv, TypeOK, FeedTypeOK, Index, Listens

LEMMA CommitFacts ==
    ASSUME TypeInv, NEW i, IsCommit(i)
    PROVE  log[i].rec \in Records /\ log[i].op \in {"create", "delete"}
<1>1. log[i] \in Events /\ log[i].op # "account"
  BY TypeFacts DEF IsCommit
<1> QED
  BY <1>1 DEF Events

\* What a handler works on.
LEMMA TaskFacts ==
    ASSUME TypeInv, NEW p \in Permits, task[p] # Free
    PROVE  /\ task[p] \in [at : {"write", "publish", "push"}, ev : Index]
           /\ IsCommit(task[p].ev) /\ RecordOf(p) \in Records
           /\ log[task[p].ev].op \in {"create", "delete"}
           /\ ListenOf[RecordOf(p)] \in Listens
<1>1. task[p] \in [at : {"write", "publish", "push"}, ev : Index]
  BY TypeFacts DEF Tasks
<1>2. IsCommit(task[p].ev)
  BY DEF TypeInv
<1> QED
  BY <1>1, <1>2, CommitFacts, TypeFacts DEF RecordOf

LEMMA InitTypes == Init => TypeInv
<1> SUFFICES ASSUME Init PROVE TypeInv
  OBVIOUS
<1>1. FeedTypeOK /\ log = << >>
  BY FeedAssumption DEF Init, FeedInit, FeedTypeOK
<1>2. task \in [Permits -> Tasks] /\ rows \in [Listens -> Records \cup {NoRecord}] /\ news \in [Records -> Nat]
  BY DEF Init, Tasks
<1>3. worker \in [at : {"idle", "brpop", "post"}, embeds : Seq(Records)] /\ Len(worker.embeds) <= MaxEmbeds
      /\ queue \in Seq(Records)
  BY TasksAssumption DEF Init
<1>4. held \in {0} \cup Index /\ dead \subseteq Records /\ excused \subseteq Records
      /\ replays \in 0 .. MaxReplays /\ faults \in 0 .. MaxFaults
  BY TasksAssumption DEF Init
<1>5. held = 0 /\ \A p \in Permits : task[p] = Free
  BY DEF Init
<1> QED
  BY <1>1, <1>2, <1>3, <1>4, <1>5 DEF TypeInv, TypeOK

\* A step that leaves the log alone, and gives permit p another state.
LEMMA TaskTypes ==
    ASSUME TypeInv, UNCHANGED <<feedVars, held>>, NEW p \in Permits, NEW t \in Tasks,
           task' = [task EXCEPT ![p] = t],
           t # Free => t.ev = task[p].ev /\ task[p] # Free
    PROVE  /\ task' \in [Permits -> Tasks] /\ FeedTypeOK' /\ held' \in {0} \cup Index
           /\ (held # 0 => IsCommit(held))'
           /\ (\A q \in Permits : task[q] # Free => IsCommit(task[q].ev))'
<1>1. task' \in [Permits -> Tasks] /\ task'[p] = t /\ \A q \in Permits \ {p} : task'[q] = task[q]
  BY TypeFacts
<1>2. FeedTypeOK' /\ held' \in {0} \cup Index /\ (held # 0 => IsCommit(held))'
  BY DEF TypeInv, TypeOK, FeedTypeOK, feedVars, IsCommit
<1>3. ASSUME NEW q \in Permits, task'[q] # Free PROVE IsCommit(task[q].ev)'
  <2>1. task'[q].ev = task[q].ev /\ task[q] # Free
    BY <1>1, <1>3
  <2>2. IsCommit(task[q].ev)
    BY <2>1 DEF TypeInv
  <2> QED
    BY <2>1, <2>2 DEF IsCommit, feedVars
<1> QED
  BY <1>1, <1>2, <1>3

LEMMA StepTypes ==
    ASSUME TypeInv, [Next]_vars
    PROVE  TypeInv'
<1>0. /\ TypeOK /\ (held # 0 => IsCommit(held))
      /\ \A p \in Permits : task[p] # Free => IsCommit(task[p].ev)
  BY DEF TypeInv
<1>1. ASSUME NEW e \in Events, EmitCommit(e) PROVE TypeInv'
  <2>1. log' = Append(log, e) /\ Len(log) < MaxEvents
        /\ UNCHANGED <<last, start, taskVars, rowVars, queue, worker, replays, faults>>
    BY <1>1 DEF EmitCommit, Emit
  <2>2. log \in Seq(Events) /\ MaxEvents \in Nat
    BY TypeFacts, FeedAssumption
  <2>3. log' \in Seq(Events) /\ Len(log') <= MaxEvents
        /\ \A i \in DOMAIN log : i \in DOMAIN log' /\ log'[i] = log[i]
    BY <2>1, <2>2
  <2>4. \A i : IsCommit(i) => IsCommit(i)'
    BY <2>3 DEF IsCommit
  <2> QED
    BY <1>0, <2>1, <2>3, <2>4 DEF taskVars, rowVars, TypeInv, TypeOK, FeedTypeOK
<1>2. ASSUME NEW i \in Index, Take(i) PROVE TypeInv'
  <2>1. /\ IsCommit(i) /\ held' = i /\ log' = log /\ start' = start
        /\ last' = [last EXCEPT ![log[i].rec] = log[i].op]
        /\ (replays' = replays \/ (replays' = replays + 1 /\ replays < MaxReplays))
        /\ UNCHANGED <<task, rowVars, queue, worker, faults>>
    BY <1>2 DEF Take, Hand, Give, IsCommit
  <2>2. last' \in [Records -> {"none", "create", "delete"}]
    BY <2>1, TypeFacts, CommitFacts
  <2>3. replays' \in 0 .. MaxReplays
    BY <1>0, <2>1, TasksAssumption DEF TypeOK
  <2> QED
    BY <1>0, <2>1, <2>2, <2>3 DEF rowVars, TypeInv, TypeOK, FeedTypeOK, IsCommit
<1>3. ASSUME NEW i \in Index, TailFrom(i) PROVE TypeInv'
  <2>1. start' = i /\ UNCHANGED <<log, last, taskVars, rowVars, queue, worker, replays, faults>>
    BY <1>3 DEF TailFrom, LiveTail
  <2>2. i \in 0 .. MaxEvents
    BY FeedAssumption DEF Index
  <2> QED
    BY <1>0, <2>1, <2>2 DEF taskVars, rowVars, TypeInv, TypeOK, FeedTypeOK, IsCommit
<1>4. ASSUME Spawn PROVE TypeInv'
  <2>1. PICK p \in Permits : task' = [task EXCEPT ![p] = [at |-> "write", ev |-> held]]
    BY <1>4 DEF Spawn
  <2>2. held # 0 /\ held' = 0 /\ UNCHANGED <<feedVars, rowVars, queue, worker, replays, faults>>
    BY <1>4 DEF Spawn
  <2>3. held \in Index /\ IsCommit(held)
    BY <1>0, <2>2 DEF TypeOK
  <2>4. [at |-> "write", ev |-> held] \in Tasks
    BY <2>3 DEF Tasks
  <2>5. task' \in [Permits -> Tasks] /\ \A q \in Permits : task'[q] = task[q] \/ task'[q].ev = held
    BY <2>1, <2>4, TypeFacts
  <2>6. \A q \in Permits : task'[q] # Free => IsCommit(task'[q].ev)
    BY <1>0, <2>3, <2>5
  <2> QED
    BY <1>0, <2>2, <2>5, <2>6 DEF feedVars, rowVars, TypeInv, TypeOK, FeedTypeOK, IsCommit
<1>5. ASSUME NEW p \in Permits, Handler(p) \/ Fail(p) PROVE TypeInv'
  <2>0. task[p] # Free /\ UNCHANGED <<feedVars, held, worker, replays>>
    BY <1>5 DEF Handler, Insert, Publish, Push, Delete, PublishDelete, Fail, IsTask
  <2>1. /\ task[p] \in [at : {"write", "publish", "push"}, ev : Index]
        /\ RecordOf(p) \in Records /\ ListenOf[RecordOf(p)] \in Listens
    BY <2>0, TaskFacts
  <2>2. PICK t \in Tasks : task' = [task EXCEPT ![p] = t] /\ (t # Free => t.ev = task[p].ev)
    <3> DEFINE publish == [task[p] EXCEPT !.at = "publish"]
               push    == [task[p] EXCEPT !.at = "push"]
    <3>1. Free \in Tasks /\ publish \in Tasks /\ push \in Tasks /\ publish.ev = task[p].ev /\ push.ev = task[p].ev
      BY <2>1 DEF Tasks
    <3>2. task' \in {[task EXCEPT ![p] = t] : t \in {Free, publish, push}}
      BY <1>5 DEF Handler, Insert, Publish, Push, Delete, PublishDelete, Fail
    <3> HIDE DEF publish, push
    <3> QED
      BY <3>1, <3>2
  <2>3. /\ task' \in [Permits -> Tasks] /\ FeedTypeOK' /\ held' \in {0} \cup Index
        /\ (held # 0 => IsCommit(held))'
        /\ (\A q \in Permits : task[q] # Free => IsCommit(task[q].ev))'
    BY <2>0, <2>2, TaskTypes
  <2>4. rows' \in [Listens -> Records \cup {NoRecord}]
    BY <1>5, <2>1, TypeFacts DEF Handler, Insert, Publish, Push, Delete, PublishDelete, Fail, rowVars
  <2>5. news' \in [Records -> Nat]
    <3>1. news' = news \/ news' = [news EXCEPT ![RecordOf(p)] = @ + 1]
      BY <1>5 DEF Handler, Insert, Publish, Push, Delete, PublishDelete, Fail, rowVars
    <3> QED
      BY <2>1, <3>1, TypeFacts
  <2>6. dead' \subseteq Records /\ excused' \subseteq Records
    BY <1>0, <1>5, <2>1 DEF Handler, Insert, Publish, Push, Delete, PublishDelete, Fail, rowVars, TypeOK
  <2>7. queue' \in Seq(Records)
    <3>1. queue' = queue \/ queue' = Append(queue, RecordOf(p))
      BY <1>5 DEF Handler, Insert, Publish, Push, Delete, PublishDelete, Fail
    <3>2. queue \in Seq(Records)
      BY <1>0 DEF TypeOK
    <3> QED
      BY <2>1, <3>1, <3>2
  <2>8. faults' \in 0 .. MaxFaults
    <3>1. faults' = faults \/ (faults < MaxFaults /\ faults' = faults + 1)
      BY <1>5 DEF Handler, Insert, Publish, Push, Delete, PublishDelete, Fail
    <3>2. faults \in 0 .. MaxFaults /\ MaxFaults \in Nat
      BY <1>0, TasksAssumption DEF TypeOK
    <3> QED
      BY <3>1, <3>2
  <2> QED
    BY <1>0, <2>0, <2>3, <2>4, <2>5, <2>6, <2>7, <2>8 DEF TypeInv, TypeOK
<1>6. ASSUME Webhook PROVE TypeInv'
  <2>1. UNCHANGED <<feedVars, taskVars, rowVars, replays, faults>>
    BY <1>6 DEF Webhook, Popped, Brpop, PopNothing, CloseBatch, Post
  <2>2. /\ worker \in [at : {"idle", "brpop", "post"}, embeds : Seq(Records)] /\ Len(worker.embeds) <= MaxEmbeds
        /\ queue \in Seq(Records) /\ MaxEmbeds \in Nat
    BY <1>0, TasksAssumption DEF TypeOK
  <2>3. /\ worker' \in [at : {"idle", "brpop", "post"}, embeds : Seq(Records)] /\ Len(worker'.embeds) <= MaxEmbeds
        /\ queue' \in Seq(Records)
    <3>1. CASE Popped
      <4>1. worker' = [worker EXCEPT !.embeds = Append(@, Last(queue))] /\ queue' = Front(queue) /\ queue # << >>
            /\ Len(worker.embeds) < MaxEmbeds
        BY <3>1 DEF Popped
      <4>2. Last(queue) \in Records /\ Front(queue) \in Seq(Records)
        BY <2>2, <4>1 DEF Last, Front
      <4>3. worker.embeds \in Seq(Records)
        BY <2>2
      <4>4. Append(worker.embeds, Last(queue)) \in Seq(Records) /\ Len(Append(worker.embeds, Last(queue))) = Len(worker.embeds) + 1
        BY <4>2, <4>3
      <4>5. Len(worker.embeds) + 1 <= MaxEmbeds
        BY <2>2, <4>1, <4>3
      <4> QED
        BY <2>2, <4>1, <4>2, <4>4, <4>5
    <3>2. CASE Brpop \/ PopNothing \/ CloseBatch
      <4>1. PICK at \in {"idle", "brpop", "post"} : worker' = [worker EXCEPT !.at = at]
        BY <3>2 DEF Brpop, PopNothing, CloseBatch
      <4>2. queue' = queue
        BY <3>2 DEF Brpop, PopNothing, CloseBatch
      <4> QED
        BY <2>2, <4>1, <4>2
    <3>3. CASE Post
      BY <2>2, <3>3 DEF Post
    <3> QED
      BY <1>6, <3>1, <3>2, <3>3 DEF Webhook
  <2> QED
    BY <1>0, <2>1, <2>3 DEF feedVars, taskVars, rowVars, TypeInv, TypeOK, FeedTypeOK, IsCommit
<1>7. CASE UNCHANGED vars
  BY <1>0, <1>7 DEF vars, feedVars, taskVars, rowVars, TypeInv, TypeOK, FeedTypeOK, IsCommit
<1> QED
  BY <1>1, <1>2, <1>3, <1>4, <1>5, <1>6, <1>7 DEF Next

\* Type correctness: a row holds a record of the catalog, a handler works on an event
\* that is a commit, and no batch outgrows what one Discord message may hold.
THEOREM CommitTypeCorrect == Spec => []TypeOK
<1>1. TypeInv => TypeOK
  BY DEF TypeInv
<1> QED
  BY <1>1, InitTypes, StepTypes, PTL DEF Spec, Safety

-----------------------------------------------------------------------------
(* Announcements.                                                           *)

\* Nobody deletes a record of r's listen.
Undeleted(r) == \A q \in SameListen(r) : ~Emitted("delete", q)

OnceInv ==
    /\ TypeInv
    /\ \A r \in Records : Undeleted(r) =>
        /\ news[r] <= 1
        /\ news[r] > 0 => rows[ListenOf[r]] = r
        /\ \A p \in Permits : IsTask(p, "create", "publish") /\ RecordOf(p) = r =>
            /\ rows[ListenOf[r]] = r
            /\ news[r] = 0
            /\ \A q \in Permits : IsTask(q, "create", "publish") /\ RecordOf(q) = r => p = q

LEMMA InitOnce == Init => OnceInv
<1> SUFFICES ASSUME Init PROVE OnceInv
  OBVIOUS
<1>1. TypeInv
  BY InitTypes
<1>2. \A r \in Records : news[r] = 0
  BY DEF Init
<1>3. \A p \in Permits : task[p] = Free
  BY DEF Init
<1> QED
  BY <1>1, <1>2, <1>3 DEF OnceInv, IsTask

\* A step that neither announces nor writes: the handlers' part of the log is the same.
LEMMA StillTasks ==
    ASSUME TypeInv, UNCHANGED task, \A i \in DOMAIN log : log'[i] = log[i],
           NEW p \in Permits, NEW op, NEW at
    PROVE  /\ IsTask(p, op, at)' <=> IsTask(p, op, at)
           /\ task[p] # Free => RecordOf(p)' = RecordOf(p)
<1>1. task[p] # Free => task[p].ev \in DOMAIN log
  BY DEF TypeInv, IsCommit
<1> QED
  BY <1>1 DEF IsTask, RecordOf

\* What is emitted stays in the log.
LEMMA EmittedStays ==
    ASSUME [Next]_vars, TypeInv, NEW op, NEW r, Emitted(op, r)
    PROVE  Emitted(op, r)'
<1>1. PICK i \in DOMAIN log : log[i] = [op |-> op, rec |-> r]
  BY DEF Emitted
<1>2. CASE UNCHANGED log
  BY <1>1, <1>2 DEF Emitted
<1>3. ASSUME NEW e \in Events, EmitCommit(e) PROVE Emitted(op, r)'
  <2>1. log' = Append(log, e) /\ log \in Seq(Events)
    BY <1>3, TypeFacts DEF EmitCommit, Emit
  <2>2. i \in DOMAIN log' /\ log'[i] = log[i]
    BY <1>1, <2>1
  <2> QED
    BY <1>1, <2>2 DEF Emitted
<1>4. (\E n \in Index : Take(n) \/ TailFrom(n)) => UNCHANGED log
  BY DEF Take, Hand, Give, TailFrom, LiveTail
<1>5. Spawn \/ Webhook => UNCHANGED log
  BY DEF Spawn, Webhook, Popped, Brpop, PopNothing, CloseBatch, Post, feedVars
<1>6. (\E p \in Permits : Handler(p) \/ Fail(p)) => UNCHANGED log
  BY DEF Handler, Insert, Publish, Push, Delete, PublishDelete, Fail, feedVars
<1>7. UNCHANGED vars => UNCHANGED log
  BY DEF vars, feedVars
<1> QED
  BY <1>2, <1>3, <1>4, <1>5, <1>6, <1>7 DEF Next

\* The steps around the handlers: they leave rows, announcements and handlers alone,
\* and at most append to the log.
LEMMA AroundFacts ==
    ASSUME TypeInv,
           \/ \E e \in Events : EmitCommit(e)
           \/ \E i \in Index : Take(i) \/ TailFrom(i)
           \/ Webhook
           \/ UNCHANGED vars
    PROVE  /\ UNCHANGED <<task, rows, news, dead, excused>>
           /\ \A i \in DOMAIN log : i \in DOMAIN log' /\ log'[i] = log[i]
<1>1. ASSUME NEW e \in Events, EmitCommit(e)
      PROVE  /\ UNCHANGED <<task, rows, news, dead, excused>>
             /\ \A i \in DOMAIN log : i \in DOMAIN log' /\ log'[i] = log[i]
  <2>1. log' = Append(log, e) /\ UNCHANGED <<task, rows, news, dead, excused>>
    BY <1>1 DEF EmitCommit, Emit, taskVars, rowVars
  <2>2. log \in Seq(Events)
    BY TypeFacts
  <2> QED
    BY <2>1, <2>2
<1>2. ASSUME NEW i \in Index, Take(i) \/ TailFrom(i) PROVE UNCHANGED <<task, log, rows, news, dead, excused>>
  BY <1>2 DEF Take, Hand, Give, TailFrom, LiveTail, taskVars, rowVars
<1>3. Webhook \/ UNCHANGED vars => UNCHANGED <<task, log, rows, news, dead, excused>>
  BY DEF Webhook, Popped, Brpop, PopNothing, CloseBatch, Post, vars, feedVars, taskVars, rowVars
<1> QED
  BY <1>1, <1>2, <1>3

\* What a handler's step does to the other permits.
LEMMA HandlerFacts ==
    ASSUME TypeInv, NEW p \in Permits, Handler(p) \/ Fail(p)
    PROVE  /\ task[p] # Free /\ UNCHANGED <<feedVars, held>>
           /\ \A q \in Permits \ {p} : task'[q] = task[q]
           /\ task'[p] # Free => task'[p].ev = task[p].ev
           /\ \A q \in Permits \ {p} : \A op, at : IsTask(q, op, at)' <=> IsTask(q, op, at)
           /\ \A q \in Permits : task'[q] # Free => RecordOf(q)' = RecordOf(q)
<1>1. task[p] # Free /\ UNCHANGED <<feedVars, held>>
  BY DEF Handler, Insert, Publish, Push, Delete, PublishDelete, Fail, IsTask
<1>2. /\ task[p] \in [at : {"write", "publish", "push"}, ev : Index]
      /\ task \in [Permits -> Tasks]
  BY <1>1, TaskFacts, TypeFacts
<1>3. \A q \in Permits \ {p} : task'[q] = task[q]
  BY <1>2 DEF Handler, Insert, Publish, Push, Delete, PublishDelete, Fail
<1>4. task'[p] = Free \/ \E at \in {"publish", "push"} : task'[p] = [task[p] EXCEPT !.at = at]
  BY <1>2 DEF Handler, Insert, Publish, Push, Delete, PublishDelete, Fail
<1>5. task'[p] # Free => task'[p].ev = task[p].ev
  BY <1>2, <1>4
<1>6. \A q \in Permits \ {p} : \A op, at : IsTask(q, op, at)' <=> IsTask(q, op, at)
  BY <1>1, <1>3 DEF IsTask, feedVars
<1>7. \A q \in Permits : task'[q] # Free => RecordOf(q)' = RecordOf(q)
  BY <1>1, <1>3, <1>5 DEF RecordOf, feedVars
<1> QED
  BY <1>1, <1>3, <1>5, <1>6, <1>7

LEMMA SpawnFacts ==
    ASSUME TypeInv, Spawn
    PROVE  \E p \in Permits :
             /\ task[p] = Free /\ task'[p] = [at |-> "write", ev |-> held] /\ task'[p] # Free
             /\ held # 0 /\ held' = 0 /\ UNCHANGED <<feedVars, rowVars>>
             /\ \A q \in Permits \ {p} : task'[q] = task[q]
             /\ \A q \in Permits \ {p} : \A op, at : IsTask(q, op, at)' <=> IsTask(q, op, at)
             /\ \A q \in Permits \ {p} : task[q] # Free => RecordOf(q)' = RecordOf(q)
             /\ RecordOf(p)' = log[held].rec
             /\ \A op, at : IsTask(p, op, at)' <=> at = "write" /\ op = log[held].op
<1>1. PICK p \in Permits : task[p] = Free /\ task' = [task EXCEPT ![p] = [at |-> "write", ev |-> held]]
  BY DEF Spawn
<1>2. held # 0 /\ held' = 0 /\ UNCHANGED <<feedVars, rowVars>> /\ task \in [Permits -> Tasks]
  BY TypeFacts DEF Spawn
<1>3. task'[p] = [at |-> "write", ev |-> held] /\ \A q \in Permits \ {p} : task'[q] = task[q]
  BY <1>1, <1>2
<1>4. task'[p].at = "write" /\ task'[p].ev = held /\ Free.at = "free"
  BY <1>3 DEF Free
<1>5. task'[p] # Free
  BY <1>4
<1> QED
  BY <1>1, <1>2, <1>3, <1>4, <1>5 DEF IsTask, RecordOf, feedVars

\* A handler of a deletion works on one that was emitted.
LEMMA DeletionEmitted ==
    ASSUME TypeInv, NEW p \in Permits, NEW at, IsTask(p, "delete", at)
    PROVE  Emitted("delete", RecordOf(p))
<1>1. task[p].ev \in DOMAIN log /\ log[task[p].ev] \in Events /\ log[task[p].ev].op = "delete"
  BY TypeFacts DEF IsTask, TypeInv, IsCommit
<1>2. log[task[p].ev] = [op |-> "delete", rec |-> RecordOf(p)]
  BY <1>1 DEF Events, RecordOf
<1> QED
  BY <1>1, <1>2 DEF Emitted

\* What OnceInv says of one record.
Once(r) ==
    /\ news[r] <= 1
    /\ news[r] > 0 => rows[ListenOf[r]] = r
    /\ \A p \in Permits : IsTask(p, "create", "publish") /\ RecordOf(p) = r =>
        /\ rows[ListenOf[r]] = r
        /\ news[r] = 0
        /\ \A q \in Permits : IsTask(q, "create", "publish") /\ RecordOf(q) = r => p = q

LEMMA StepOnce == ASSUME OnceInv, [Next]_vars PROVE OnceInv'
<1>0. TypeInv /\ TypeInv' /\ \A r \in Records : Undeleted(r) => Once(r)
  BY StepTypes DEF OnceInv, Once
<1>1. SUFFICES ASSUME NEW r \in Records, Undeleted(r), Undeleted(r)', Once(r) PROVE Once(r)'
  <2>1. ASSUME NEW r \in Records, Undeleted(r)' PROVE Undeleted(r)
    BY <1>0, <2>1, EmittedStays DEF Undeleted
  <2> QED
    BY <1>0, <2>1 DEF OnceInv, Once
<1>2. news[r] \in Nat /\ NoRecord \notin Records /\ r \in SameListen(r)
  BY <1>0, TypeFacts DEF SameListen
<1>3. ASSUME \/ \E e \in Events : EmitCommit(e)
             \/ \E i \in Index : Take(i) \/ TailFrom(i)
             \/ Webhook
             \/ UNCHANGED vars
      PROVE  Once(r)'
  <2>1. /\ UNCHANGED <<task, rows, news>>
        /\ \A i \in DOMAIN log : i \in DOMAIN log' /\ log'[i] = log[i]
    BY <1>0, <1>3, AroundFacts
  <2>2. ASSUME NEW p \in Permits, (IsTask(p, "create", "publish") /\ RecordOf(p) = r)'
        PROVE  IsTask(p, "create", "publish") /\ RecordOf(p) = r
    BY <1>0, <2>1, <2>2, StillTasks DEF IsTask
  <2> QED
    BY <1>1, <2>1, <2>2 DEF Once
<1>4. ASSUME Spawn PROVE Once(r)'
  <2>1. PICK s \in Permits :
          /\ UNCHANGED <<rows, news>>
          /\ \A q \in Permits \ {s} : task'[q] = task[q]
          /\ \A q \in Permits \ {s} : \A op, at : IsTask(q, op, at)' <=> IsTask(q, op, at)
          /\ \A q \in Permits \ {s} : task[q] # Free => RecordOf(q)' = RecordOf(q)
          /\ \A op, at : IsTask(s, op, at)' <=> at = "write" /\ op = log[held].op
    BY <1>0, <1>4, SpawnFacts DEF rowVars
  <2>2. ASSUME NEW p \in Permits, (IsTask(p, "create", "publish") /\ RecordOf(p) = r)'
        PROVE  IsTask(p, "create", "publish") /\ RecordOf(p) = r
    <3>1. p # s
      BY <2>1, <2>2
    <3> QED
      BY <2>1, <2>2, <3>1 DEF IsTask
  <2> QED
    BY <1>1, <2>1, <2>2 DEF Once
<1>5. ASSUME NEW p \in Permits, Handler(p) \/ Fail(p) PROVE Once(r)'
  <2>1. /\ task[p] # Free /\ UNCHANGED log
        /\ \A q \in Permits \ {p} : IsTask(q, "create", "publish")' <=> IsTask(q, "create", "publish")
        /\ \A q \in Permits : task'[q] # Free => RecordOf(q)' = RecordOf(q)
    BY <1>0, <1>5, HandlerFacts DEF feedVars
  <2>2. ASSUME NEW q \in Permits, (IsTask(q, "create", "publish") /\ RecordOf(q) = r)'
        PROVE  RecordOf(q) = r /\ (q = p \/ IsTask(q, "create", "publish"))
    BY <2>1, <2>2 DEF IsTask
  <2>3. /\ task[p] \in [at : {"write", "publish", "push"}, ev : Index] /\ task \in [Permits -> Tasks]
        /\ RecordOf(p) \in Records /\ ListenOf[RecordOf(p)] \in Listens /\ ListenOf[r] \in Listens
        /\ rows \in [Listens -> Records \cup {NoRecord}] /\ news \in [Records -> Nat]
    BY <1>0, <2>1, TaskFacts, TypeFacts
  <2>4. CASE Insert(p) /\ Inserts(RecordOf(p))
    <3>1. rows[ListenOf[RecordOf(p)]] = NoRecord
          /\ rows' = [rows EXCEPT ![ListenOf[RecordOf(p)]] = RecordOf(p)] /\ news' = news
      BY <2>4 DEF Insert, Inserts
    <3>2. CASE ListenOf[r] = ListenOf[RecordOf(p)]
      <4>1. news[r] = 0 /\ ~ \E q \in Permits : IsTask(q, "create", "publish") /\ RecordOf(q) = r
        BY <1>1, <1>2, <3>1, <3>2 DEF Once
      <4>2. ASSUME NEW q \in Permits, (IsTask(q, "create", "publish") /\ RecordOf(q) = r)'
            PROVE  q = p /\ RecordOf(p) = r
        BY <2>2, <4>1, <4>2
      <4>3. RecordOf(p) = r => rows'[ListenOf[r]] = r
        BY <2>3, <3>1
      <4> QED
        BY <1>2, <3>1, <4>1, <4>2, <4>3 DEF Once
    <3>3. CASE ListenOf[r] # ListenOf[RecordOf(p)]
      <4>1. rows'[ListenOf[r]] = rows[ListenOf[r]]
        BY <2>3, <3>1, <3>3
      <4>2. ASSUME NEW q \in Permits, (IsTask(q, "create", "publish") /\ RecordOf(q) = r)'
            PROVE  IsTask(q, "create", "publish") /\ RecordOf(q) = r
        BY <2>2, <3>3, <4>2
      <4> QED
        BY <1>1, <3>1, <4>1, <4>2 DEF Once
    <3> QED
      BY <3>2, <3>3
  <2>5. CASE Publish(p)
    <3>1. IsTask(p, "create", "publish") /\ news' = [news EXCEPT ![RecordOf(p)] = @ + 1] /\ rows' = rows
          /\ task' = [task EXCEPT ![p].at = "push"]
      BY <2>5 DEF Publish
    <3>2. ~IsTask(p, "create", "publish")'
      <4>1. task'[p].at = "push"
        BY <2>3, <3>1
      <4> QED
        BY <4>1 DEF IsTask
    <3>3. ASSUME NEW q \in Permits, (IsTask(q, "create", "publish") /\ RecordOf(q) = r)'
          PROVE  q # p /\ IsTask(q, "create", "publish") /\ RecordOf(q) = r
      BY <2>2, <3>2, <3>3
    <3>4. CASE RecordOf(p) = r
      <4>1. news[r] = 0 /\ rows[ListenOf[r]] = r
            /\ \A q \in Permits : IsTask(q, "create", "publish") /\ RecordOf(q) = r => p = q
        BY <1>1, <3>1, <3>4 DEF Once
      <4>2. news'[r] = 1
        BY <2>3, <3>1, <3>4, <4>1
      <4> QED
        BY <3>1, <3>3, <4>1, <4>2 DEF Once
    <3>5. CASE RecordOf(p) # r
      <4>1. news'[r] = news[r]
        BY <2>3, <3>1, <3>5
      <4> QED
        BY <1>1, <3>1, <3>3, <4>1 DEF Once
    <3> QED
      BY <3>4, <3>5
  <2>6. ASSUME UNCHANGED news, rows'[ListenOf[r]] = rows[ListenOf[r]], ~IsTask(p, "create", "publish")'
        PROVE  Once(r)'
    <3>1. ASSUME NEW q \in Permits, (IsTask(q, "create", "publish") /\ RecordOf(q) = r)'
          PROVE  IsTask(q, "create", "publish") /\ RecordOf(q) = r
      BY <2>2, <2>6, <3>1
    <3> QED
      BY <1>1, <2>6, <3>1 DEF Once
  <2>7. CASE (Insert(p) /\ ~Inserts(RecordOf(p))) \/ Push(p) \/ PublishDelete(p) \/ Fail(p)
    <3>1. UNCHANGED <<news, rows>> /\ task' = [task EXCEPT ![p] = Free]
      BY <2>7 DEF Insert, Push, PublishDelete, Fail, rowVars
    <3>2. ~IsTask(p, "create", "publish")'
      BY <2>3, <3>1 DEF IsTask
    <3> QED
      BY <2>6, <3>1, <3>2
  <2>8. CASE Delete(p)
    <3>1. IsTask(p, "delete", "write") /\ task' = [task EXCEPT ![p].at = "publish"] /\ news' = news
          /\ rows' = [rows EXCEPT ![ListenOf[RecordOf(p)]] = IF @ = RecordOf(p) THEN NoRecord ELSE @]
      BY <2>8 DEF Delete
    <3>2. ~IsTask(p, "create", "publish")'
      <4>1. task'[p].ev = task[p].ev /\ log[task[p].ev].op = "delete"
        BY <2>3, <3>1 DEF IsTask
      <4> QED
        BY <2>1, <4>1 DEF IsTask
    <3>3. ListenOf[RecordOf(p)] # ListenOf[r]
      BY <1>0, <1>1, <2>3, <3>1, DeletionEmitted DEF Undeleted, SameListen
    <3> QED
      BY <2>3, <2>6, <3>1, <3>2, <3>3
  <2> QED
    BY <1>5, <2>4, <2>5, <2>7, <2>8 DEF Handler
<1> QED
  BY <1>3, <1>4, <1>5 DEF Next

\* A listen is announced once, whatever is replayed and however many records and
\* handlers there are for it, unless one of its records was deleted.
THEOREM CommitAnnouncedOnce == Spec => []AnnouncedOnce
<1>1. ASSUME OnceInv PROVE AnnouncedOnce
  <2> SUFFICES ASSUME NEW r \in Records, Undeleted(r)
               PROVE  /\ news[r] <= 1
                      /\ \A q \in SameListen(r) \ {r} : news[r] = 0 \/ news[q] = 0
    BY DEF AnnouncedOnce, Undeleted
  <2>1. news[r] <= 1 /\ (news[r] > 0 => rows[ListenOf[r]] = r)
    BY <1>1 DEF OnceInv
  <2>2. ASSUME NEW q \in SameListen(r) \ {r} PROVE news[r] = 0 \/ news[q] = 0
    <3>1. q \in Records /\ ListenOf[q] = ListenOf[r] /\ Undeleted(q)
      BY <2>2 DEF SameListen, Undeleted
    <3>2. news[q] > 0 => rows[ListenOf[q]] = q
      BY <1>1, <3>1 DEF OnceInv
    <3>3. news[r] \in Nat /\ news[q] \in Nat
      BY <1>1, <3>1, TypeFacts DEF OnceInv
    <3> QED
      BY <2>1, <2>2, <3>1, <3>2, <3>3
  <2> QED
    BY <2>1, <2>2
<1> QED
  BY <1>1, InitOnce, StepOnce, PTL DEF Spec, Safety

-----------------------------------------------------------------------------
(* Rows.                                                                    *)

\* A commit about r is on its way to the rows, or to its announcement.
Waits(op, r) ==
    \/ held # 0 /\ log[held].op = op /\ log[held].rec = r
    \/ \E p \in Permits : IsTask(p, op, "write") /\ RecordOf(p) = r

Announces(op, r) == \E p \in Permits : IsTask(p, op, "publish") /\ RecordOf(p) = r

\* A deletion is on its way, or has left nothing that could bring the row back.
Deletions ==
    \A r \in Records \ excused : last[r] = "delete" =>
        /\ Waits("delete", r) \/ (rows[ListenOf[r]] # r /\ ~Overtaken(r))
        /\ Waits("delete", r) \/ Announces("delete", r) \/ r \in dead

\* A creation is on its way, or its listen has a row, or made room for a deletion.
Creations ==
    \A r \in Records \ excused : last[r] # "none" =>
        \/ Waits("create", r)
        \/ rows[ListenOf[r]] # NoRecord
        \/ \E q \in SameListen(r) : Emitted("delete", q)

Announced ==
    \A l \in Listens : rows[l] \in Records \ excused =>
        news[rows[l]] > 0 \/ Announces("create", rows[l])

RowsInv ==
    /\ TypeInv
    /\ held # 0 => last[log[held].rec] = log[held].op
    /\ Deletions /\ Creations /\ Announced

LEMMA InitRows == Init => RowsInv
<1> SUFFICES ASSUME Init PROVE RowsInv
  OBVIOUS
<1>1. TypeInv
  BY InitTypes
<1>2. held = 0 /\ (\A r \in Records : last[r] = "none") /\ \A l \in Listens : rows[l] = NoRecord
  BY DEF Init, FeedInit
<1> QED
  BY <1>1, <1>2, FeedAssumption DEF RowsInv, Deletions, Creations, Announced

\* A handler's step leaves what is on its way about other records, or the other way, alone.
LEMMA OthersStay ==
    ASSUME TypeInv, NEW p \in Permits, Handler(p) \/ Fail(p), NEW op, NEW r,
           r # RecordOf(p) \/ op # log[task[p].ev].op
    PROVE  /\ Waits(op, r)' <=> Waits(op, r)
           /\ Announces(op, r)' <=> Announces(op, r)
           /\ op = "create" => (Overtaken(r)' <=> Overtaken(r))
<1>1. /\ task[p] # Free /\ UNCHANGED <<log, held>>
      /\ \A q \in Permits \ {p} : task'[q] = task[q]
      /\ task'[p] # Free => task'[p].ev = task[p].ev
      /\ \A q \in Permits \ {p} : \A o, at : IsTask(q, o, at)' <=> IsTask(q, o, at)
      /\ \A q \in Permits : task'[q] # Free => RecordOf(q)' = RecordOf(q)
  BY HandlerFacts DEF feedVars
<1>2. ASSUME NEW at PROVE ~(IsTask(p, op, at) /\ RecordOf(p) = r) /\ ~(IsTask(p, op, at) /\ RecordOf(p) = r)'
  <2>1. ~(IsTask(p, op, at) /\ RecordOf(p) = r)
    BY DEF IsTask
  <2>2. ~(IsTask(p, op, at) /\ RecordOf(p) = r)'
    BY <1>1 DEF IsTask
  <2> QED
    BY <2>1, <2>2
<1>3. ASSUME NEW q \in Permits, NEW at
      PROVE  (IsTask(q, op, at) /\ RecordOf(q) = r)' <=> (IsTask(q, op, at) /\ RecordOf(q) = r)
  <2>1. CASE q = p
    BY <1>2, <2>1
  <2>2. CASE q # p
    BY <1>1, <2>2 DEF IsTask
  <2> QED
    BY <2>1, <2>2
<1> QED
  BY <1>1, <1>3 DEF Waits, Announces, Overtaken

\* And of its own record: what another handler has, or this one is not at.
LEMMA OwnStays ==
    ASSUME TypeInv, NEW p \in Permits, Handler(p) \/ Fail(p), NEW op, NEW r, r = RecordOf(p)
    PROVE  /\ Waits(op, r) /\ ~IsTask(p, op, "write") => Waits(op, r)'
           /\ Announces(op, r) /\ ~IsTask(p, op, "publish") => Announces(op, r)'
           /\ Overtaken(r)' => Overtaken(r)
           /\ IsTask(p, op, "publish")' => Announces(op, r)'
<1>1. /\ task[p] # Free /\ UNCHANGED <<log, held>>
      /\ \A q \in Permits \ {p} : task'[q] = task[q]
      /\ \A q \in Permits \ {p} : \A o, at : IsTask(q, o, at)' <=> IsTask(q, o, at)
      /\ \A q \in Permits : task'[q] # Free => RecordOf(q)' = RecordOf(q)
  BY HandlerFacts DEF feedVars
<1>2. ASSUME NEW q \in Permits, q # p, NEW o, NEW at
      PROVE  (IsTask(q, o, at) /\ RecordOf(q) = r)' <=> (IsTask(q, o, at) /\ RecordOf(q) = r)
  BY <1>1, <1>2 DEF IsTask
<1>3. ~IsTask(p, "create", "write")'
  <2>1. task[p] \in [at : {"write", "publish", "push"}, ev : Index] /\ task \in [Permits -> Tasks]
    BY <1>1, TaskFacts, TypeFacts
  <2>2. task'[p] = Free \/ task'[p].at \in {"publish", "push"}
    BY <2>1 DEF Handler, Insert, Publish, Push, Delete, PublishDelete, Fail
  <2> QED
    BY <2>2 DEF IsTask
<1>4. IsTask(p, op, "publish")' => Announces(op, r)'
  <2>1. IsTask(p, op, "publish")' => RecordOf(p)' = r
    BY <1>1 DEF IsTask
  <2> QED
    BY <2>1 DEF Announces
<1>5. Waits(op, r) /\ ~IsTask(p, op, "write") => Waits(op, r)'
  BY <1>1, <1>2 DEF Waits
<1>6. Announces(op, r) /\ ~IsTask(p, op, "publish") => Announces(op, r)'
  BY <1>2 DEF Announces
<1>7. Overtaken(r)' => Overtaken(r)
  BY <1>2, <1>3 DEF Overtaken
<1> QED
  BY <1>4, <1>5, <1>6, <1>7

\* A step around the handlers leaves what is on its way to them alone.
LEMMA AroundStays ==
    ASSUME TypeInv, UNCHANGED task, \A i \in DOMAIN log : i \in DOMAIN log' /\ log'[i] = log[i],
           NEW op, NEW r
    PROVE  /\ Announces(op, r)' <=> Announces(op, r)
           /\ Overtaken(r)' <=> Overtaken(r)
           /\ (\E p \in Permits : IsTask(p, op, "write") /\ RecordOf(p) = r)'
                <=> (\E p \in Permits : IsTask(p, op, "write") /\ RecordOf(p) = r)
<1>1. ASSUME NEW q \in Permits, NEW o, NEW at
      PROVE  (IsTask(q, o, at) /\ RecordOf(q) = r)' <=> (IsTask(q, o, at) /\ RecordOf(q) = r)
  BY <1>1, StillTasks DEF IsTask
<1> QED
  BY <1>1 DEF Announces, Overtaken

LEMMA StepRows == ASSUME RowsInv, [Next]_vars PROVE RowsInv'
<1> DEFINE Deletion(r) ==
             last[r] = "delete" =>
               /\ Waits("delete", r) \/ (rows[ListenOf[r]] # r /\ ~Overtaken(r))
               /\ Waits("delete", r) \/ Announces("delete", r) \/ r \in dead
           Creation(r) ==
             last[r] # "none" =>
               \/ Waits("create", r)
               \/ rows[ListenOf[r]] # NoRecord
               \/ \E q \in SameListen(r) : Emitted("delete", q)
           Told(r) == news[r] > 0 \/ Announces("create", r)
<1>0. /\ TypeInv /\ TypeInv'
      /\ held # 0 => last[log[held].rec] = log[held].op
      /\ \A r \in Records \ excused : Deletion(r) /\ Creation(r)
      /\ \A l \in Listens : rows[l] \in Records \ excused => Told(rows[l])
  BY StepTypes DEF RowsInv, Deletions, Creations, Announced
<1>1. /\ last \in [Records -> {"none", "create", "delete"}] /\ news \in [Records -> Nat]
      /\ rows \in [Listens -> Records \cup {NoRecord}] /\ NoRecord \notin Records
      /\ \A r \in Records : ListenOf[r] \in Listens
      /\ task \in [Permits -> Tasks] /\ log \in Seq(Events)
  BY <1>0, TypeFacts
<1>2. \A r : Emitted("delete", r) => Emitted("delete", r)'
  BY <1>0, EmittedStays
<1>3. ASSUME held' # 0 => last'[log'[held'].rec] = log'[held'].op,
             \A r \in Records \ excused' : Deletion(r)' /\ Creation(r)',
             \A l \in Listens : rows'[l] \in Records \ excused' => (news'[rows'[l]] > 0 \/ Announces("create", rows[l])')
      PROVE  RowsInv'
  BY <1>0, <1>3 DEF RowsInv, Deletions, Creations, Announced
<1>4. ASSUME NEW i \in Index, Take(i) PROVE RowsInv'
  <2>1. /\ i \in DOMAIN log /\ IsCommit(i) /\ held = 0 /\ held' = i
        /\ last' = [last EXCEPT ![log[i].rec] = log[i].op]
        /\ UNCHANGED <<log, task, rows, news, dead, excused>>
    BY <1>4 DEF Take, Hand, Give, rowVars, IsCommit
  <2>2. log[i].rec \in Records /\ log[i].op \in {"create", "delete"} /\ i # 0
    BY <1>0, <2>1, CommitFacts, FeedAssumption DEF Index
  <2>3. ASSUME NEW op, NEW r
        PROVE  /\ Announces(op, r)' <=> Announces(op, r)
               /\ Overtaken(r)' <=> Overtaken(r)
               /\ Waits(op, r)' <=> Waits(op, r) \/ (log[i].op = op /\ log[i].rec = r)
    BY <1>0, <2>1, <2>2, AroundStays DEF Waits
  <2>4. last'[log'[held'].rec] = log'[held'].op
    BY <1>1, <2>1, <2>2
  <2>5. ASSUME NEW r \in Records \ excused PROVE Deletion(r)' /\ Creation(r)'
    <3>1. CASE r # log[i].rec
      <4>1. last'[r] = last[r]
        BY <1>1, <2>1, <3>1
      <4> QED
        BY <1>0, <1>2, <2>1, <2>3, <4>1
    <3>2. CASE r = log[i].rec
      <4>1. last'[r] = log[i].op
        BY <1>1, <2>1, <2>2, <3>2
      <4>2. CASE log[i].op = "delete"
        <5>1. Waits("delete", r)'
          BY <2>3, <3>2, <4>2
        <5>2. Emitted("delete", r)
          <6>1. log[i] \in Events
            BY <1>1, <2>1
          <6>2. log[i] = [op |-> "delete", rec |-> r]
            BY <3>2, <4>2, <6>1 DEF Events
          <6> QED
            BY <2>1, <6>2 DEF Emitted
        <5>3. r \in SameListen(r)
          BY DEF SameListen
        <5> QED
          BY <1>2, <5>1, <5>2, <5>3
      <4>3. CASE log[i].op = "create"
        BY <2>3, <3>2, <4>1, <4>3
      <4> QED
        BY <2>2, <4>2, <4>3
    <3> QED
      BY <3>1, <3>2
  <2>6. ASSUME NEW l \in Listens, rows'[l] \in Records \ excused'
        PROVE  news'[rows'[l]] > 0 \/ Announces("create", rows[l])'
    <3>1. PICK r : r = rows[l]
      OBVIOUS
    <3>2. news[r] > 0 \/ Announces("create", r)
      BY <1>0, <2>1, <2>6, <3>1
    <3> QED
      BY <2>1, <2>3, <3>1, <3>2 DEF Announces
  <2> QED
    BY <1>3, <2>1, <2>4, <2>5, <2>6
<1>5. ASSUME NEW e \in Events, EmitCommit(e) PROVE UNCHANGED <<held, last>>
  BY <1>5 DEF EmitCommit, Emit, taskVars
<1>6. ASSUME \/ \E e \in Events : EmitCommit(e)
             \/ \E i \in Index : TailFrom(i)
             \/ Webhook
             \/ UNCHANGED vars
      PROVE  RowsInv'
  <2>1. /\ UNCHANGED <<task, rows, news, dead, excused>>
        /\ \A i \in DOMAIN log : i \in DOMAIN log' /\ log'[i] = log[i]
    BY <1>0, <1>6, AroundFacts
  <2>2. UNCHANGED <<held, last>>
    BY <1>5, <1>6 DEF TailFrom, LiveTail, Webhook, Popped, Brpop, PopNothing, CloseBatch, Post, vars, feedVars, taskVars
  <2>3. held # 0 => log'[held] = log[held]
    BY <1>0, <2>1 DEF TypeInv, IsCommit
  <2>4. ASSUME NEW op, NEW r
        PROVE  /\ Announces(op, r)' <=> Announces(op, r)
               /\ Overtaken(r)' <=> Overtaken(r)
               /\ Waits(op, r)' <=> Waits(op, r)
    BY <1>0, <2>1, <2>2, <2>3, AroundStays DEF Waits
  <2>5. ASSUME NEW l \in Listens, rows'[l] \in Records \ excused'
        PROVE  news'[rows'[l]] > 0 \/ Announces("create", rows[l])'
    <3>1. PICK r : r = rows[l]
      OBVIOUS
    <3>2. news[r] > 0 \/ Announces("create", r)
      BY <1>0, <2>1, <2>5, <3>1
    <3> QED
      BY <2>1, <2>4, <3>1, <3>2 DEF Announces
  <2>6. ASSUME NEW r \in Records \ excused PROVE Deletion(r)' /\ Creation(r)'
    BY <1>0, <1>2, <2>1, <2>2, <2>4
  <2> QED
    BY <1>0, <1>3, <2>1, <2>2, <2>3, <2>5, <2>6
<1>7. ASSUME Spawn PROVE RowsInv'
  <2>1. PICK s \in Permits :
          /\ task[s] = Free
          /\ held # 0 /\ held' = 0 /\ UNCHANGED <<feedVars, rowVars>>
          /\ \A q \in Permits \ {s} : task'[q] = task[q]
          /\ \A q \in Permits \ {s} : \A op, at : IsTask(q, op, at)' <=> IsTask(q, op, at)
          /\ \A q \in Permits \ {s} : task[q] # Free => RecordOf(q)' = RecordOf(q)
          /\ RecordOf(s)' = log[held].rec
          /\ \A op, at : IsTask(s, op, at)' <=> at = "write" /\ op = log[held].op
    BY <1>0, <1>7, SpawnFacts
  <2>2. UNCHANGED <<log, last, rows, news, dead, excused>>
    BY <2>1 DEF feedVars, rowVars
  <2>3. PICK r0 : r0 = log[held].rec
    OBVIOUS
  <2>4. ASSUME NEW q \in Permits, NEW op, NEW at, NEW r
        PROVE  (IsTask(q, op, at) /\ RecordOf(q) = r)'
                 <=> (IsTask(q, op, at) /\ RecordOf(q) = r) \/ (q = s /\ at = "write" /\ op = log[held].op /\ r = r0)
    <3>1. CASE q = s
      <4>1. ~IsTask(s, op, at)
        BY <2>1 DEF IsTask
      <4> QED
        BY <2>1, <2>3, <3>1, <4>1
    <3>2. CASE q # s
      BY <2>1, <3>2 DEF IsTask
    <3> QED
      BY <3>1, <3>2
  <2>5. ASSUME NEW op, NEW r
        PROVE  /\ Announces(op, r)' <=> Announces(op, r)
               /\ Overtaken(r)' => Overtaken(r) \/ (log[held].op = "create" /\ r = r0)
               /\ Waits(op, r) => Waits(op, r)'
    <3>1. Announces(op, r)' <=> Announces(op, r)
      BY <2>4 DEF Announces
    <3>2. Overtaken(r)' => Overtaken(r) \/ (log[held].op = "create" /\ r = r0)
      BY <2>4 DEF Overtaken
    <3>3. ASSUME Waits(op, r) PROVE Waits(op, r)'
      <4>1. CASE log[held].op = op /\ log[held].rec = r
        <5>1. (IsTask(s, op, "write") /\ RecordOf(s) = r)'
          BY <2>1, <4>1
        <5> QED
          BY <5>1 DEF Waits
      <4>2. CASE \E q \in Permits : IsTask(q, op, "write") /\ RecordOf(q) = r
        BY <2>4, <4>2 DEF Waits
      <4> QED
        BY <3>3, <4>1, <4>2 DEF Waits
    <3> QED
      BY <3>1, <3>2, <3>3
  <2>6. ASSUME NEW r \in Records \ excused PROVE Deletion(r)' /\ Creation(r)'
    <3>1. Creation(r)'
      BY <1>0, <1>2, <2>2, <2>5, <2>6
    <3>2. Deletion(r)'
      <4>1. last[r] = "delete" => ~(log[held].op = "create" /\ r = r0)
        BY <1>0, <2>1, <2>3
      <4> QED
        BY <1>0, <2>2, <2>5, <2>6, <4>1
    <3> QED
      BY <3>1, <3>2
  <2>7. ASSUME NEW l \in Listens, rows'[l] \in Records \ excused'
        PROVE  news'[rows'[l]] > 0 \/ Announces("create", rows[l])'
    <3>1. PICK r : r = rows[l]
      OBVIOUS
    <3>2. news[r] > 0 \/ Announces("create", r)
      BY <1>0, <2>2, <2>7, <3>1
    <3> QED
      BY <2>2, <2>5, <3>1, <3>2 DEF Announces
  <2> QED
    BY <1>3, <2>1, <2>2, <2>6, <2>7
<1>8. ASSUME NEW p \in Permits, Handler(p) \/ Fail(p) PROVE RowsInv'
  <2>1. /\ task[p] # Free /\ UNCHANGED <<log, last, held>>
    BY <1>0, <1>8, HandlerFacts DEF feedVars
  <2>2. /\ task[p] \in [at : {"write", "publish", "push"}, ev : Index]
        /\ RecordOf(p) \in Records /\ ListenOf[RecordOf(p)] \in Listens
        /\ log[task[p].ev].op \in {"create", "delete"}
    BY <1>0, <2>1, TaskFacts
  <2>3. PICK r0 \in Records : r0 = RecordOf(p)
    BY <2>2
  <2>4. ASSUME NEW op, NEW r, r # r0 \/ op # log[task[p].ev].op
        PROVE  /\ Waits(op, r)' <=> Waits(op, r)
               /\ Announces(op, r)' <=> Announces(op, r)
               /\ op = "create" => (Overtaken(r)' <=> Overtaken(r))
    BY <1>0, <1>8, <2>3, <2>4, OthersStay
  <2>5. excused \subseteq excused' /\ \A r \in Records : r # r0 => (news'[r] = news[r] /\ (r \in dead => r \in dead'))
    BY <1>1, <1>8, <2>2, <2>3 DEF Handler, Insert, Publish, Push, Delete, PublishDelete, Fail, rowVars
  <2>6. \A l \in Listens : l # ListenOf[r0] => rows'[l] = rows[l]
    BY <1>1, <1>8, <2>2, <2>3 DEF Handler, Insert, Publish, Push, Delete, PublishDelete, Fail, rowVars
  <2>7. SUFFICES ASSUME TRUE
                 PROVE  /\ \A r \in Records \ excused' : Deletion(r)' /\ Creation(r)'
                        /\ \A l \in Listens : rows'[l] \in Records \ excused' =>
                             (news'[rows'[l]] > 0 \/ Announces("create", rows[l])')
    BY <1>0, <1>3, <2>1
  <2>8. /\ \A l \in Listens : rows'[l] \in {rows[l], r0, NoRecord}
        /\ \A l \in Listens : rows'[l] = NoRecord /\ rows[l] # NoRecord =>
             l = ListenOf[r0] /\ Emitted("delete", r0)
    <3>1. CASE Insert(p)
      BY <1>1, <2>2, <2>3, <3>1 DEF Insert, Inserts
    <3>2. CASE Delete(p)
      <4>1. Emitted("delete", r0)
        BY <1>0, <2>3, <3>2, DeletionEmitted DEF Delete
      <4>2. rows' = [rows EXCEPT ![ListenOf[r0]] = IF @ = r0 THEN NoRecord ELSE @]
        BY <2>3, <3>2 DEF Delete
      <4> QED
        BY <1>1, <2>2, <2>3, <4>1, <4>2
    <3>3. CASE Publish(p) \/ Push(p) \/ PublishDelete(p) \/ Fail(p)
      BY <3>3 DEF Publish, Push, PublishDelete, Fail, rowVars
    <3> QED
      BY <1>8, <3>1, <3>2, <3>3 DEF Handler
  <2>9. ASSUME NEW r \in Records \ excused', r # r0 PROVE Deletion(r)' /\ Creation(r)'
    <3>1. r \in Records \ excused /\ ListenOf[r] \in Listens
      BY <1>1, <2>5, <2>9
    <3>2. rows'[ListenOf[r]] = r => rows[ListenOf[r]] = r
      BY <1>1, <2>8, <2>9, <3>1
    <3>3. Deletion(r)'
      BY <1>0, <2>1, <2>4, <2>5, <2>9, <3>1, <3>2
    <3>4. Creation(r)'
      <4>1. CASE rows'[ListenOf[r]] = NoRecord /\ rows[ListenOf[r]] # NoRecord
        <5>1. r0 \in SameListen(r) /\ Emitted("delete", r0)'
          BY <1>2, <2>8, <3>1, <4>1 DEF SameListen
        <5> QED
          BY <5>1
      <4>2. CASE rows'[ListenOf[r]] # NoRecord \/ rows[ListenOf[r]] = NoRecord
        BY <1>0, <1>2, <2>1, <2>4, <2>9, <3>1, <4>2
      <4> QED
        BY <4>1, <4>2
    <3> QED
      BY <3>3, <3>4
  <2>10. ASSUME NEW r \in Records \ excused', r # r0, NEW l \in Listens, rows'[l] = r
         PROVE  news'[r] > 0 \/ Announces("create", r)'
    <3>1. rows[l] = r
      BY <1>1, <2>8, <2>10
    <3>2. news[r] > 0 \/ Announces("create", r)
      BY <1>0, <2>5, <2>10, <3>1
    <3> QED
      BY <2>4, <2>5, <2>10, <3>2
  <2>11. SUFFICES ASSUME r0 \notin excused'
                  PROVE  /\ Deletion(r0)' /\ Creation(r0)'
                         /\ (\E l \in Listens : rows'[l] = r0) => news'[r0] > 0 \/ Announces("create", r0)'
    <3>1. ASSUME NEW l \in Listens, rows'[l] \in Records \ excused',
                 r0 \notin excused' => ((\E k \in Listens : rows'[k] = r0) => news'[r0] > 0 \/ Announces("create", r0)')
          PROVE  news'[rows'[l]] > 0 \/ Announces("create", rows[l])'
      <4>1. PICK r : r = rows'[l]
        OBVIOUS
      <4>2. news'[r] > 0 \/ Announces("create", r)'
        BY <2>10, <3>1, <4>1
      <4> QED
        BY <4>1, <4>2 DEF Announces
    <3> QED
      BY <2>9, <3>1
  <2>12. /\ r0 \in Records \ excused /\ Deletion(r0) /\ Creation(r0)
         /\ \A l \in Listens : rows[l] = r0 => news[r0] > 0 \/ Announces("create", r0)
    BY <1>0, <2>3, <2>5, <2>11
  <2>13. ASSUME NEW op
         PROVE  /\ Waits(op, r0) /\ ~IsTask(p, op, "write") => Waits(op, r0)'
                /\ Announces(op, r0) /\ ~IsTask(p, op, "publish") => Announces(op, r0)'
                /\ Overtaken(r0)' => Overtaken(r0)
                /\ IsTask(p, op, "publish")' => Announces(op, r0)'
    BY <1>0, <1>8, <2>3, OwnStays
  <2>14. CASE Insert(p)
    <3>1. IsTask(p, "create", "write") /\ news' = news /\ dead' = dead
      BY <2>14 DEF Insert
    <3>2. ~IsTask(p, "delete", "write") /\ ~IsTask(p, "create", "publish") /\ Overtaken(r0)
      BY <2>3, <3>1 DEF IsTask, Overtaken
    <3>3. Deletion(r0)'
      BY <2>1, <2>12, <2>13, <3>2
    <3>4. CASE Inserts(r0)
      <4>1. rows' = [rows EXCEPT ![ListenOf[r0]] = r0] /\ task' = [task EXCEPT ![p].at = "publish"]
        BY <2>3, <2>14, <3>4 DEF Insert
      <4>2. rows'[ListenOf[r0]] = r0
        BY <1>1, <2>2, <2>3, <4>1
      <4>3. task'[p].at = "publish" /\ task'[p].ev = task[p].ev
        BY <1>1, <2>2, <4>1
      <4>4. IsTask(p, "create", "publish")'
        BY <2>1, <3>1, <4>3 DEF IsTask, Free
      <4> QED
        BY <1>1, <2>3, <2>13, <3>3, <4>2, <4>4
    <3>5. CASE ~Inserts(r0)
      <4>1. rows' = rows /\ rows[ListenOf[r0]] # NoRecord
        BY <2>3, <2>14, <3>5 DEF Insert, Inserts
      <4> QED
        BY <2>12, <2>13, <3>1, <3>2, <3>3, <4>1
    <3> QED
      BY <3>4, <3>5
  <2>15. CASE Publish(p)
    <3>1. IsTask(p, "create", "publish") /\ rows' = rows /\ dead' = dead /\ news' = [news EXCEPT ![r0] = @ + 1]
      BY <2>3, <2>15 DEF Publish
    <3>2. ~IsTask(p, "delete", "write") /\ ~IsTask(p, "create", "write") /\ ~IsTask(p, "delete", "publish")
      BY <3>1 DEF IsTask
    <3>3. news'[r0] > 0
      BY <1>1, <3>1
    <3>4. Deletion(r0)'
      BY <2>1, <2>12, <2>13, <3>1, <3>2
    <3>5. Creation(r0)'
      BY <1>2, <2>1, <2>12, <2>13, <3>1, <3>2
    <3> QED
      BY <3>3, <3>4, <3>5
  <2>16. CASE Push(p)
    <3>1. IsTask(p, "create", "push") /\ rows' = rows /\ dead' = dead /\ news' = news
      BY <2>16 DEF Push, rowVars
    <3>2. \A op : ~IsTask(p, op, "write") /\ ~IsTask(p, op, "publish")
      BY <3>1 DEF IsTask
    <3>3. Deletion(r0)'
      BY <2>1, <2>12, <2>13, <3>1, <3>2
    <3>4. Creation(r0)'
      BY <1>2, <2>1, <2>12, <2>13, <3>1, <3>2
    <3> QED
      BY <2>12, <2>13, <3>1, <3>2, <3>3, <3>4
  <2>17. CASE Delete(p)
    <3>1. /\ IsTask(p, "delete", "write") /\ news' = news /\ dead' = dead
          /\ rows' = [rows EXCEPT ![ListenOf[r0]] = IF @ = r0 THEN NoRecord ELSE @]
          /\ task' = [task EXCEPT ![p].at = "publish"]
          /\ excused' = IF Overtaken(r0) THEN excused \cup {r0} ELSE excused
      BY <2>3, <2>17 DEF Delete
    <3>2. ~Overtaken(r0)'
      BY <2>11, <2>13, <3>1
    <3>3. rows'[ListenOf[r0]] # r0
      BY <1>1, <2>2, <2>3, <3>1
    <3>4. Announces("delete", r0)'
      <4>1. task'[p].at = "publish" /\ task'[p].ev = task[p].ev
        BY <1>1, <2>2, <3>1
      <4>2. IsTask(p, "delete", "publish")'
        BY <2>1, <3>1, <4>1 DEF IsTask, Free
      <4> QED
        BY <2>13, <4>2
    <3>5. Creation(r0)'
      <4>1. Emitted("delete", r0)' /\ r0 \in SameListen(r0)
        BY <1>0, <1>2, <2>3, <3>1, DeletionEmitted DEF SameListen
      <4> QED
        BY <4>1
    <3>6. ASSUME NEW l \in Listens, rows'[l] = r0 PROVE news'[r0] > 0 \/ Announces("create", r0)'
      <4>1. rows[l] = r0
        BY <1>1, <2>6, <3>3, <3>6
      <4>2. ~IsTask(p, "create", "publish")
        BY <3>1 DEF IsTask
      <4> QED
        BY <2>12, <2>13, <3>1, <4>1, <4>2
    <3> QED
      BY <3>2, <3>3, <3>4, <3>5, <3>6
  <2>18. CASE PublishDelete(p)
    <3>1. IsTask(p, "delete", "publish") /\ rows' = rows /\ r0 \in dead' /\ news' = news
      BY <2>3, <2>18 DEF PublishDelete
    <3>2. ~IsTask(p, "create", "publish") /\ \A op : ~IsTask(p, op, "write")
      BY <3>1 DEF IsTask
    <3>3. Deletion(r0)'
      BY <2>1, <2>12, <2>13, <3>1, <3>2
    <3>4. Creation(r0)'
      BY <1>2, <2>1, <2>12, <2>13, <3>1, <3>2
    <3> QED
      BY <2>12, <2>13, <3>1, <3>2, <3>3, <3>4
  <2>19. CASE Fail(p)
    BY <2>3, <2>11, <2>19 DEF Fail
  <2> QED
    BY <1>8, <2>14, <2>15, <2>16, <2>17, <2>18, <2>19 DEF Handler
<1> QED
  BY <1>4, <1>6, <1>7, <1>8 DEF Next

\* At rest the rows say what the records say, and so do the announcements, whatever
\* was replayed, failed or overtaken: but for the records that name excuses.
THEOREM CommitRowsFollow == Spec => []RowsFollowRecords
<1>1. ASSUME RowsInv PROVE RowsFollowRecords
  <2> SUFFICES ASSUME Quiet
               PROVE  /\ \A r \in Records \ excused :
                           Promised("create", r) =>
                             IF Emitted("delete", r)
                             THEN rows[ListenOf[r]] # r /\ r \in dead
                             ELSE \/ rows[ListenOf[r]] # NoRecord
                                  \/ \E q \in SameListen(r) : Emitted("delete", q)
                      /\ \A l \in Listens : rows[l] \in Records \ excused => news[rows[l]] > 0
    BY DEF RowsFollowRecords
  <2>1. UpToDate /\ (\A op, r : ~Waits(op, r)) /\ (\A op, r : ~Announces(op, r))
    BY DEF Quiet, Waits, Announces, IsTask
  <2>2. ASSUME NEW r \in Records \ excused, Promised("create", r)
        PROVE  IF Emitted("delete", r)
               THEN rows[ListenOf[r]] # r /\ r \in dead
               ELSE \/ rows[ListenOf[r]] # NoRecord
                    \/ \E q \in SameListen(r) : Emitted("delete", q)
    <3>1. last[r] = IF Emitted("delete", r) THEN "delete" ELSE "create"
      BY <2>1, <2>2 DEF UpToDate, UpToDateOn
    <3>2. CASE Emitted("delete", r)
      BY <1>1, <2>1, <3>1, <3>2 DEF RowsInv, Deletions
    <3>3. CASE ~Emitted("delete", r)
      BY <1>1, <2>1, <3>1, <3>3 DEF RowsInv, Creations
    <3> QED
      BY <3>2, <3>3
  <2>3. \A l \in Listens : rows[l] \in Records \ excused => news[rows[l]] > 0
    BY <1>1, <2>1 DEF RowsInv, Announced
  <2> QED
    BY <2>2, <2>3
<1> QED
  BY <1>1, InitRows, StepRows, PTL DEF Spec, Safety

=============================================================================
