--------------------------- MODULE RemoteWsProofs ----------------------------
(***************************************************************************)
(* Machine-checked facts about the stop debouncer, for any number of       *)
(* clients and any bound on timers and mailbox, and about RemoteWs, for    *)
(* any number of devices and tracks and any bound: its types, that it uses *)
(* the debouncer as specified, by which the debouncer's theorems hold of   *)
(* it, that no interleaving of its handlers loses a stop, and what the     *)
(* profile shows when they are done.                                       *)
(***************************************************************************)
EXTENDS RemoteWs, TLAPS

-----------------------------------------------------------------------------
(* The stop debouncer.                                                     *)

\* Each stop is in one place: requested, running, expired, being handled or
\* published, and its message is in the mailbox at most once.
TokensApart ==
    /\ \A i, j \in DOMAIN mailbox :
          /\ mailbox[i].op \in {"schedule", "fire"}
          /\ mailbox[j].op \in {"schedule", "fire"}
          /\ mailbox[i].ref = mailbox[j].ref
          => i = j
    /\ \A i \in DOMAIN mailbox : mailbox[i].op \in {"schedule", "fire"} =>
          mailbox[i].ref \notin armed \cup {firing} \cup stops
    /\ firing \notin armed \cup stops
    /\ armed \cap stops = {}

\* No name is in use that was not issued.
OnlyIssued == Live \cup stops \subseteq 1 .. issued

DebInv == DebTypeOK /\ PendingIsLive /\ TokensApart /\ OnlyIssued

-----------------------------------------------------------------------------
\* The variables keep their types: no reference outside the issued range, no
\* malformed message, one has_pending? answer per client.
THEOREM DebTypeCorrect == DebSafety => []DebTypeOK
<1>1. DebInit => DebTypeOK
  BY BoundsAssumption DEF DebInit, DebTypeOK, NoTimer, Messages, Refs
<1>2. DebTypeOK /\ [DebNext]_debVars => DebTypeOK'
  <2> SUFFICES ASSUME DebTypeOK, [DebNext]_debVars PROVE DebTypeOK'
    OBVIOUS
  <2> USE BoundsAssumption DEF DebTypeOK, NoTimer, Refs
  <2>1. CASE CastSchedule
    <3>1. issued + 1 \in 1 .. MaxTimers
      BY <2>1 DEF CastSchedule
    <3>2. [op |-> "schedule", ref |-> issued + 1] \in Messages
      BY <3>1 DEF Messages
    <3> QED
      BY <2>1, <3>1, <3>2 DEF CastSchedule, Send
  <2>2. CASE CastCancel
    <3>1. [op |-> "cancel"] \in Messages
      BY DEF Messages
    <3> QED
      BY <2>2, <3>1 DEF CastCancel, Send
  <2>3. ASSUME NEW c \in Clients, CallHasPending(c) PROVE DebTypeOK'
    <3>1. [op |-> "has_pending", from |-> c] \in Messages
      BY DEF Messages
    <3> QED
      BY <2>3, <3>1 DEF CallHasPending, Send
  <2>4. ASSUME NEW c \in Clients, TakeAnswer(c) PROVE DebTypeOK'
    BY <2>4 DEF TakeAnswer
  <2>5. ASSUME mailbox # <<>>
        PROVE  Head(mailbox) \in Messages /\ Tail(mailbox) \in Seq(Messages)
    BY <2>5
  <2>6. CASE HandleSchedule
    <3>1. Head(mailbox).ref \in Refs
      BY <2>5, <2>6 DEF HandleSchedule, Receive, Messages
    <3> QED
      BY <2>5, <2>6, <3>1 DEF HandleSchedule, Receive
  <2>7. CASE HandleCancel
    BY <2>5, <2>7 DEF HandleCancel, Receive
  <2>8. CASE HandleHasPending
    BY <2>5, <2>8 DEF HandleHasPending, Receive
  <2>9. CASE HandleFire
    <3>1. Head(mailbox).ref \in Refs
      BY <2>5, <2>9 DEF HandleFire, Receive, Messages
    <3> QED
      BY <2>5, <2>9, <3>1 DEF HandleFire, Receive
  <2>10. CASE PublishStop
    BY <2>10 DEF PublishStop
  <2>11. ASSUME NEW r \in Refs, Expire(r) PROVE DebTypeOK'
    <3>1. [op |-> "fire", ref |-> r] \in Messages
      BY DEF Messages
    <3> QED
      BY <2>11, <3>1 DEF Expire, Send
  <2>12. CASE Restart
    BY <2>12 DEF Restart
  <2>13. CASE UNCHANGED debVars
    BY <2>13 DEF debVars
  <2> QED
    BY <2>1, <2>2, <2>3, <2>4, <2>6, <2>7, <2>8, <2>9, <2>10, <2>11, <2>12,
       <2>13 DEF DebNext, Serve
<1> QED
  BY <1>1, <1>2, PTL DEF DebSafety

-----------------------------------------------------------------------------
\* Appending a message adds its reference to the queued ones of its kind.
LEMMA QueuedAfterSend ==
    ASSUME DebTypeOK, NEW m \in Messages, Send(m), NEW op
    PROVE  Queued(op)' = IF m.op = op THEN Queued(op) \cup {m.ref} ELSE Queued(op)
BY DEF DebTypeOK, Send, Queued

\* Taking the head leaves no reference in the mailbox that was not there.
LEMMA QueuedAfterReceive ==
    ASSUME DebTypeOK, NEW op, Receive(op), NEW kind
    PROVE  /\ Queued(kind)' \subseteq Queued(kind)
           /\ kind # op => Queued(kind)' = Queued(kind)
           /\ kind = op => /\ Head(mailbox).ref \in Queued(kind)
                           /\ Queued(kind) \subseteq
                                  Queued(kind)' \cup {Head(mailbox).ref}
<1> USE DEF DebTypeOK, Receive, Queued
<1>1. \A i \in DOMAIN mailbox' : i + 1 \in DOMAIN mailbox /\ mailbox'[i] = mailbox[i + 1]
  OBVIOUS
<1>2. \A i \in DOMAIN mailbox : i # 1 => i - 1 \in DOMAIN mailbox' /\ mailbox'[i - 1] = mailbox[i]
  OBVIOUS
<1>3. 1 \in DOMAIN mailbox /\ mailbox[1] = Head(mailbox) /\ mailbox[1].op = op
  OBVIOUS
<1>4. Queued(kind)' \subseteq Queued(kind)
  BY <1>1
<1>5. \A i \in DOMAIN mailbox : mailbox[i].op = kind =>
        \/ mailbox[i].ref \in Queued(kind)'
        \/ kind = op /\ mailbox[i].ref = Head(mailbox).ref
  BY <1>2, <1>3
<1> QED
  BY <1>3, <1>4, <1>5

\* The inductive invariant.  PendingIsLive alone is not inductive: that the
\* fire of a stale timer cannot leave an entry behind needs every stop to be
\* in one place, and a new schedule to have a name nobody holds.
THEOREM DebInvariant == DebSafety => []DebInv
<1>1. DebInit => DebInv
  <2>1. DebInit => DebTypeOK
    BY BoundsAssumption DEF DebInit, DebTypeOK, NoTimer
  <2> QED
    BY <2>1 DEF DebInit, DebInv, PendingIsLive, TokensApart, OnlyIssued, Live,
                Started, Queued, NoTimer
<1>2. DebInv /\ DebTypeOK' /\ [DebNext]_debVars => DebInv'
  <2> SUFFICES ASSUME DebInv, DebTypeOK', [DebNext]_debVars
               PROVE  PendingIsLive' /\ TokensApart' /\ OnlyIssued'
    BY DEF DebInv
  <2> USE DEF DebInv, DebTypeOK, NoTimer, Refs
  <2>1. CASE CastSchedule
    <3> DEFINE m == [op |-> "schedule", ref |-> issued + 1]
    <3>1. m \in Messages /\ Send(m)
      BY <2>1, BoundsAssumption DEF CastSchedule, Messages
    <3>2. /\ Queued("schedule")' = Queued("schedule") \cup {issued + 1}
          /\ Queued("fire")' = Queued("fire")
      BY <3>1, QueuedAfterSend
    <3>3. PendingIsLive'
      BY <2>1, <3>2 DEF CastSchedule, PendingIsLive, Started
    <3>4. OnlyIssued'
      BY <2>1, <3>2 DEF CastSchedule, OnlyIssued, Live, Started
    <3>5. issued + 1 \notin Live \cup stops
      BY DEF OnlyIssued
    <3>6. TokensApart'
      BY <2>1, <3>5 DEF CastSchedule, Send, TokensApart, Live, Started, Queued
    <3> QED
      BY <3>3, <3>4, <3>6
  <2>2. CASE CastCancel \/ \E c \in Clients : CallHasPending(c)
    <3>1. PICK m \in Messages :
            /\ Send(m) /\ m.op \notin {"schedule", "fire"}
            /\ UNCHANGED <<pending, armed, issued, firing, stops>>
      BY <2>2 DEF CastCancel, CallHasPending, Messages
    <3>2. /\ Queued("schedule")' = Queued("schedule")
          /\ Queued("fire")' = Queued("fire")
      BY <3>1, QueuedAfterSend
    <3>3. PendingIsLive' /\ OnlyIssued'
      BY <3>1, <3>2 DEF PendingIsLive, OnlyIssued, Live, Started
    <3>4. TokensApart'
      BY <3>1 DEF Send, TokensApart
    <3> QED
      BY <3>3, <3>4
  <2>3. CASE \E c \in Clients : TakeAnswer(c)
    BY <2>3 DEF TakeAnswer, PendingIsLive, TokensApart, OnlyIssued, Live,
                Started, Queued
  <2>4. CASE HandleSchedule
    <3>1. Receive("schedule") /\ Head(mailbox) = mailbox[1] /\ 1 \in DOMAIN mailbox
      BY <2>4 DEF HandleSchedule, Receive
    <3>2. /\ Head(mailbox).ref \in Queued("schedule")
          /\ Queued("schedule")' \subseteq Queued("schedule")
          /\ Queued("fire")' = Queued("fire")
      BY <3>1, QueuedAfterReceive
    <3>3. PendingIsLive'
      BY <2>4, <3>1 DEF HandleSchedule, PendingIsLive, Started
    <3>4. OnlyIssued'
      BY <2>4, <3>2 DEF HandleSchedule, OnlyIssued, Live, Started
    <3>5. TokensApart'
      BY <2>4, <3>1, SMTT(30) DEF HandleSchedule, Receive, TokensApart
    <3> QED
      BY <3>3, <3>4, <3>5
  <2>5. CASE HandleCancel \/ HandleHasPending
    <3>1. PICK kind \in {"cancel", "has_pending"} : Receive(kind)
      BY <2>5 DEF HandleCancel, HandleHasPending
    <3>2. /\ Queued("schedule")' = Queued("schedule")
          /\ Queued("fire")' = Queued("fire")
      BY <3>1, QueuedAfterReceive
    <3>3. PendingIsLive' /\ OnlyIssued'
      BY <2>5, <3>2 DEF HandleCancel, HandleHasPending, PendingIsLive, OnlyIssued,
                        Live, Started
    <3>4. TokensApart'
      BY <2>5, <3>1, SMTT(30) DEF HandleCancel, HandleHasPending, Receive, TokensApart
    <3> QED
      BY <3>3, <3>4
  <2>6. CASE HandleFire
    <3>1. Receive("fire") /\ Head(mailbox) = mailbox[1] /\ 1 \in DOMAIN mailbox
      BY <2>6 DEF HandleFire, Receive
    <3>2. /\ Head(mailbox).ref \in Queued("fire")
          /\ Queued("fire")' \subseteq Queued("fire")
          /\ Queued("fire") \subseteq Queued("fire")' \cup {Head(mailbox).ref}
          /\ Queued("schedule")' = Queued("schedule")
      BY <3>1, QueuedAfterReceive
    <3>3. Head(mailbox).ref \in Refs
      BY <3>1 DEF Messages, Receive
    <3>4. PendingIsLive'
      BY <2>6, <3>1, <3>2, <3>3 DEF HandleFire, Receive, PendingIsLive, Started
    <3>5. OnlyIssued'
      BY <2>6, <3>2 DEF HandleFire, OnlyIssued, Live, Started
    <3>6. TokensApart'
      BY <2>6, <3>1, <3>3, SMTT(30) DEF HandleFire, Receive, TokensApart
    <3> QED
      BY <3>4, <3>5, <3>6
  <2>7. CASE PublishStop
    <3>1. Queued("schedule")' = Queued("schedule") /\ Queued("fire")' = Queued("fire")
      BY <2>7 DEF PublishStop, Queued
    <3>2. PendingIsLive' /\ OnlyIssued'
      BY <2>7, <3>1 DEF PublishStop, PendingIsLive, OnlyIssued, Live, Started
    <3>3. TokensApart'
      BY <2>7 DEF PublishStop, TokensApart, Messages
    <3> QED
      BY <3>2, <3>3
  <2>8. ASSUME NEW r \in Refs, Expire(r)
        PROVE  PendingIsLive' /\ TokensApart' /\ OnlyIssued'
    <3> DEFINE m == [op |-> "fire", ref |-> r]
    <3>1. m \in Messages /\ Send(m)
      BY <2>8 DEF Expire, Messages
    <3>2. /\ Queued("fire")' = Queued("fire") \cup {r}
          /\ Queued("schedule")' = Queued("schedule")
      BY <3>1, QueuedAfterSend
    <3>3. PendingIsLive' /\ OnlyIssued'
      BY <2>8, <3>2 DEF Expire, PendingIsLive, OnlyIssued, Live, Started
    <3>4. TokensApart'
      BY <2>8 DEF Expire, Send, TokensApart
    <3> QED
      BY <3>3, <3>4
  <2>9. CASE Restart
    BY <2>9 DEF Restart, PendingIsLive, TokensApart, OnlyIssued, Live, Started, Queued
  <2>10. CASE UNCHANGED debVars
    BY <2>10 DEF debVars, PendingIsLive, TokensApart, OnlyIssued, Live, Started, Queued
  <2> QED
    BY <2>1, <2>2, <2>3, <2>4, <2>5, <2>6, <2>7, <2>8, <2>9, <2>10
       DEF DebNext, Serve
<1>3. DebSafety => []DebTypeOK
  BY DebTypeCorrect
<1> QED
  BY <1>1, <1>2, <1>3, PTL DEF DebSafety
\* has_pending? never answers true for a stop that is not on its way
\* (stop_debouncer.ex:45-55): for every number of clients and schedules.
THEOREM PendingNeverStuck == DebSafety => []PendingIsLive
BY DebInvariant, PTL DEF DebInv

-----------------------------------------------------------------------------
\* Every step of the server, its callers and its timers is a step of
\* StopTokens or leaves its variables alone: a schedule yields one song.stopped
\* at most, whatever is cancelled, rescheduled or expired in between.
THEOREM DebImplementsTokens == DebSafety => AtMostOneStopPerSchedule
<1>1. DebInit => Tokens!Init
  BY DEF DebInit, Tokens!Init, Live, Started, Queued, NoTimer
<1>2. DebInv /\ [DebNext]_debVars => [Tokens!Next]_<<Live, stops, issued>>
  <2> SUFFICES ASSUME DebInv, [DebNext]_debVars
               PROVE  \/ Tokens!Issue \/ Tokens!Drop \/ Tokens!Spend
                      \/ UNCHANGED <<Live, stops, issued>>
    BY DEF Tokens!Next
  <2> USE DEF DebInv, DebTypeOK, NoTimer, Refs
  <2>0. ASSUME Live' \subseteq Live, UNCHANGED <<stops, issued>>
        PROVE  Tokens!Drop
    BY <2>0 DEF Tokens!Drop
  <2>1. CASE CastSchedule
    <3> DEFINE m == [op |-> "schedule", ref |-> issued + 1]
    <3>1. m \in Messages /\ Send(m)
      BY <2>1, BoundsAssumption DEF CastSchedule, Messages
    <3>2. /\ Queued("schedule")' = Queued("schedule") \cup {issued + 1}
          /\ Queued("fire")' = Queued("fire")
      BY <3>1, QueuedAfterSend
    <3>3. Live' = Live \cup {issued + 1}
      BY <2>1, <3>2 DEF CastSchedule, Live, Started
    <3> QED
      BY <2>1, <3>3 DEF CastSchedule, Tokens!Issue
  <2>2. CASE CastCancel \/ \E c \in Clients : CallHasPending(c)
    <3>1. PICK m \in Messages :
            /\ Send(m) /\ m.op \notin {"schedule", "fire"}
            /\ UNCHANGED <<armed, issued, firing, stops>>
      BY <2>2 DEF CastCancel, CallHasPending, Messages
    <3>2. /\ Queued("schedule")' = Queued("schedule")
          /\ Queued("fire")' = Queued("fire")
      BY <3>1, QueuedAfterSend
    <3> QED
      BY <3>1, <3>2 DEF Live, Started
  <2>3. CASE \E c \in Clients : TakeAnswer(c)
    BY <2>3 DEF TakeAnswer, Live, Started, Queued
  <2>4. CASE HandleSchedule
    <3>1. Receive("schedule")
      BY <2>4 DEF HandleSchedule
    <3>2. /\ Head(mailbox).ref \in Queued("schedule")
          /\ Queued("schedule")' \subseteq Queued("schedule")
          /\ Queued("fire")' = Queued("fire")
      BY <3>1, QueuedAfterReceive
    <3>3. Live' \subseteq Live
      BY <2>4, <3>2 DEF HandleSchedule, Live, Started
    <3> QED
      BY <2>0, <2>4, <3>3 DEF HandleSchedule
  <2>5. CASE HandleCancel \/ HandleHasPending
    <3>1. PICK kind \in {"cancel", "has_pending"} : Receive(kind)
      BY <2>5 DEF HandleCancel, HandleHasPending
    <3>2. /\ Queued("schedule")' = Queued("schedule")
          /\ Queued("fire")' = Queued("fire")
      BY <3>1, QueuedAfterReceive
    <3>3. Live' \subseteq Live
      BY <2>5, <3>2 DEF HandleCancel, HandleHasPending, Live, Started
    <3> QED
      BY <2>0, <2>5, <3>3 DEF HandleCancel, HandleHasPending
  <2>6. CASE HandleFire
    <3>1. Receive("fire")
      BY <2>6 DEF HandleFire
    <3>2. /\ Head(mailbox).ref \in Queued("fire")
          /\ Queued("fire")' \subseteq Queued("fire")
          /\ Queued("schedule")' = Queued("schedule")
      BY <3>1, QueuedAfterReceive
    <3>3. Live' \subseteq Live
      BY <2>6, <3>2 DEF HandleFire, Live, Started
    <3> QED
      BY <2>0, <2>6, <3>3 DEF HandleFire
  <2>7. CASE PublishStop
    <3>1. Queued("schedule")' = Queued("schedule") /\ Queued("fire")' = Queued("fire")
      BY <2>7 DEF PublishStop, Queued
    <3>2. firing \notin armed \cup Queued("fire") \cup Queued("schedule")
      BY <2>7 DEF PublishStop, TokensApart, Queued
    <3>3. firing \in Live /\ Live' = Live \ {firing}
      BY <2>7, <3>1, <3>2 DEF PublishStop, Live, Started
    <3> QED
      BY <2>7, <3>3 DEF PublishStop, Tokens!Spend
  <2>8. ASSUME NEW r \in Refs, Expire(r)
        PROVE  UNCHANGED <<Live, stops, issued>>
    <3> DEFINE m == [op |-> "fire", ref |-> r]
    <3>1. m \in Messages /\ Send(m)
      BY <2>8 DEF Expire, Messages
    <3>2. /\ Queued("fire")' = Queued("fire") \cup {r}
          /\ Queued("schedule")' = Queued("schedule")
      BY <3>1, QueuedAfterSend
    <3> QED
      BY <2>8, <3>2 DEF Expire, Live, Started
  <2>9. CASE Restart
    <3>1. Live' = {}
      BY <2>9 DEF Restart, Live, Started, Queued
    <3> QED
      BY <2>0, <2>9, <3>1 DEF Restart
  <2>10. CASE UNCHANGED debVars
    BY <2>10 DEF debVars, Live, Started, Queued
  <2> QED
    BY <2>1, <2>2, <2>3, <2>4, <2>5, <2>6, <2>7, <2>8, <2>9, <2>10
       DEF DebNext, Serve
<1> QED
  BY <1>1, <1>2, DebInvariant, PTL DEF DebSafety, AtMostOneStopPerSchedule, Tokens!Spec

-----------------------------------------------------------------------------
(* The service.                                                            *)

\* The steps of a handler that has a track in hand, and of one that names the
\* device it selected.
Carrying == {"ensure", "lookup", "adopt", "check", "gateLast", "gateWs",
             "emitCancel", "emitLast", "emitWs", "emitResumed", "emitPublish"}
Selecting == {"selClear", "selRead"}

InHand ==
    /\ \A d \in Devices : pc[d] \in Carrying  => song[d] \in Tracks
    /\ \A d \in Devices : pc[d] \in Selecting => target[d] \in Devices

RemoteInv == TypeOK /\ InHand

-----------------------------------------------------------------------------
\* A track's way to the profile keeps the invariant: it is not lost on the way.
LEMMA ProfileStepsKeep ==
    ASSUME RemoteInv, NEW d \in Devices,
           EnsureRead(d) \/ EnsureLookup(d) \/ Adopt(d) \/ CheckPrimary(d)
             \/ GateLast(d) \/ GateWs(d) \/ EmitCancel(d) \/ EmitLast(d)
             \/ EmitWs(d) \/ EmitResumed(d) \/ EmitPublish(d)
    PROVE  RemoteInv'
<1> USE RemoteAssumption DEF RemoteInv, TypeOK, InHand, Steps, Carrying, Selecting, Changed,
      Stopped, At, Goto, Return, Continue, Source, Gone, Stray, redis, locals, history,
      aux, debVars
<1>1. CASE EnsureRead(d)
  BY <1>1 DEF EnsureRead
<1>2. CASE EnsureLookup(d)
  BY <1>2 DEF EnsureLookup
<1>3. CASE Adopt(d)
  BY <1>3 DEF Adopt
<1>4. CASE CheckPrimary(d)
  BY <1>4 DEF CheckPrimary
<1>5. CASE GateLast(d)
  BY <1>5 DEF GateLast
<1>6. CASE GateWs(d)
  BY <1>6 DEF GateWs
<1>7. CASE EmitCancel(d)
  BY <1>7 DEF EmitCancel
<1>8. CASE EmitLast(d)
  BY <1>8 DEF EmitLast
<1>9. CASE EmitWs(d)
  BY <1>9 DEF EmitWs
<1>10. CASE EmitResumed(d)
  BY <1>10 DEF EmitResumed
<1>11. CASE EmitPublish(d)
  BY <1>11 DEF EmitPublish
<1> QED
  BY <1>1, <1>2, <1>3, <1>4, <1>5, <1>6, <1>7, <1>8, <1>9, <1>10, <1>11

\* So do the handlers of a status ...
LEMMA StatusStepsKeep ==
    ASSUME RemoteInv, NEW d \in Devices,
           StatusExists(d) \/ SetStopped(d) \/ ScheduleStop(d) \/ ResumeAsk(d)
             \/ ResumeAnswered(d) \/ ResumeCancel(d) \/ ResumeClear(d) \/ ReadStopped(d)
             \/ ReadLast(d) \/ ClearStopped(d) \/ ClearLast(d) \/ RestoreWs(d)
    PROVE  RemoteInv'
<1> USE RemoteAssumption DEF RemoteInv, TypeOK, InHand, Steps, Carrying, Selecting, Changed,
      Stopped, At, Goto, Return, Continue, Source, Gone, Stray, redis, locals, history,
      aux, debVars
<1>1. CASE StatusExists(d)
  BY <1>1 DEF StatusExists
<1>2. CASE SetStopped(d)
  BY <1>2 DEF SetStopped
<1>3. CASE ScheduleStop(d)
  BY <1>3 DEF ScheduleStop
<1>4. CASE ResumeAsk(d)
  BY <1>4 DEF ResumeAsk
<1>5. CASE ResumeAnswered(d)
  BY <1>5 DEF ResumeAnswered
<1>6. CASE ResumeCancel(d)
  BY <1>6 DEF ResumeCancel
<1>7. CASE ResumeClear(d)
  BY <1>7 DEF ResumeClear
<1>8. CASE ReadStopped(d)
  BY <1>8 DEF ReadStopped
<1>9. CASE ReadLast(d)
  BY <1>9 DEF ReadLast
<1>10. CASE ClearStopped(d)
  BY <1>10 DEF ClearStopped
<1>11. CASE ClearLast(d)
  BY <1>11 DEF ClearLast
<1>12. CASE RestoreWs(d)
  BY <1>12 DEF RestoreWs
<1> QED
  BY <1>1, <1>2, <1>3, <1>4, <1>5, <1>6, <1>7, <1>8, <1>9, <1>10, <1>11, <1>12

\* ... of a selection, and of a disconnect.
LEMMA LeaveStepsKeep ==
    ASSUME RemoteInv, NEW d \in Devices,
           SelectClear(d) \/ SelectRead(d) \/ LeaveCheck(d) \/ LeavePrimary(d)
             \/ LeaveLast(d) \/ LeaveWs(d) \/ LeaveStopped(d) \/ LeaveCancel(d)
             \/ LeavePublish(d)
    PROVE  RemoteInv'
<1> USE RemoteAssumption DEF RemoteInv, TypeOK, InHand, Steps, Carrying, Selecting, Changed,
      Stopped, At, Goto, Return, Continue, Source, Gone, Stray, redis, locals, history,
      aux, debVars
<1>1. CASE SelectClear(d)
  BY <1>1 DEF SelectClear
<1>2. CASE SelectRead(d)
  BY <1>2 DEF SelectRead
<1>3. CASE LeaveCheck(d)
  BY <1>3 DEF LeaveCheck
<1>4. CASE LeavePrimary(d)
  BY <1>4 DEF LeavePrimary
<1>5. CASE LeaveLast(d)
  BY <1>5 DEF LeaveLast
<1>6. CASE LeaveWs(d)
  BY <1>6 DEF LeaveWs
<1>7. CASE LeaveStopped(d)
  BY <1>7 DEF LeaveStopped
<1>8. CASE LeaveCancel(d)
  BY <1>8 DEF LeaveCancel
<1>9. CASE LeavePublish(d)
  BY <1>9 DEF LeavePublish
<1> QED
  BY <1>1, <1>2, <1>3, <1>4, <1>5, <1>6, <1>7, <1>8, <1>9

-----------------------------------------------------------------------------
\* The state keeps its types through every interleaving; in particular every
\* song.changed that reaches the profile carries a track and a device.
THEOREM RemoteInvariant == Safety => []RemoteInv
<1>1. Init => RemoteInv
  <2> SUFFICES ASSUME Init PROVE RemoteInv
    OBVIOUS
  <2>1. /\ selects \in 0 .. MaxSelects
        /\ pauses \in 0 .. MaxPauses
        /\ crashes \in 0 .. MaxCrashes
    BY RemoteAssumption DEF Init
  <2>2. TypeOK
    BY <2>1 DEF Init, TypeOK, Steps
  <2>3. InHand
    BY DEF Init, InHand, Carrying, Selecting
  <2> QED
    BY <2>2, <2>3 DEF RemoteInv
<1>2. RemoteInv /\ [Next]_vars => RemoteInv'
  <2> SUFFICES ASSUME RemoteInv, [Next]_vars PROVE RemoteInv'
    OBVIOUS
  <2> USE RemoteAssumption DEF RemoteInv, TypeOK, InHand, Steps, Carrying, Selecting, Stopped,
          Idle, At, Goto, Return, Continue, Stray, redis, locals, history, aux, debVars
  <2>1. ASSUME NEW d \in Devices, Register(d) PROVE RemoteInv'
    BY <2>1 DEF Register
  <2>2. ASSUME NEW d \in Devices, NEW t \in Tracks, PushTrack(d, t) PROVE RemoteInv'
    BY <2>2 DEF PushTrack, CacheTrack
  <2>3. ASSUME NEW d \in Devices, PushStopped(d) PROVE RemoteInv'
    BY <2>3 DEF PushStopped
  <2>4. ASSUME NEW d \in Devices, PushPlaying(d) PROVE RemoteInv'
    BY <2>4 DEF PushPlaying
  <2>5. ASSUME NEW d \in Devices, NEW x \in Devices, Select(d, x) PROVE RemoteInv'
    BY <2>5 DEF Select
  <2>6. ASSUME NEW d \in Devices, Disconnect(d) PROVE RemoteInv'
    BY <2>6 DEF Disconnect
  <2>7. ASSUME NEW d \in Devices, CacheExpires(d) PROVE RemoteInv'
    BY <2>7 DEF CacheExpires
  <2>8. ASSUME NEW d \in Devices, Proceed(d) PROVE RemoteInv'
    BY <2>8, ProfileStepsKeep, StatusStepsKeep, LeaveStepsKeep DEF Proceed
  <2>9. CASE Debounce
    BY <2>9 DEF Debounce
  <2>10. CASE TimerExpires
    BY <2>10 DEF TimerExpires, remoteVars
  <2>11. CASE Crash
    BY <2>11 DEF Crash
  <2>12. CASE NavidromeTakesOver
    BY <2>12 DEF NavidromeTakesOver
  <2>13. CASE UNCHANGED vars
    BY <2>13 DEF vars, remoteVars
  <2> QED
    BY <2>1, <2>2, <2>3, <2>4, <2>5, <2>6, <2>7, <2>8, <2>9, <2>10, <2>11, <2>12, <2>13
    DEF Next, Frame
<1> QED
  BY <1>1, <1>2, PTL DEF Safety

\* The types on their own.
THEOREM RemoteTypeCorrect == Safety => []TypeOK
BY RemoteInvariant, PTL DEF RemoteInv

-----------------------------------------------------------------------------
\* What a handler does to the debouncer is one of the debouncer's own steps.
LEMMA HandlersUseDebouncer ==
    ASSUME NEW d \in Devices, Proceed(d)
    PROVE  [DebNext]_debVars
<1> USE RemoteAssumption
<1>1. CASE EmitCancel(d) \/ ResumeCancel(d) \/ LeaveCancel(d)
  BY <1>1 DEF EmitCancel, ResumeCancel, LeaveCancel, DebNext
<1>2. CASE ScheduleStop(d)
  BY <1>2 DEF ScheduleStop, DebNext
<1>3. CASE ResumeAsk(d) \/ ResumeAnswered(d)
  BY <1>3 DEF ResumeAsk, ResumeAnswered, DebNext
<1>4. CASE EnsureRead(d) \/ EnsureLookup(d) \/ Adopt(d) \/ CheckPrimary(d)
             \/ GateLast(d) \/ GateWs(d) \/ EmitLast(d) \/ EmitWs(d)
             \/ EmitResumed(d) \/ EmitPublish(d)
  BY <1>4 DEF EnsureRead, EnsureLookup, Adopt, CheckPrimary, GateLast, GateWs,
              EmitLast, EmitWs, EmitResumed, EmitPublish
<1>5. CASE StatusExists(d) \/ SetStopped(d) \/ ResumeClear(d) \/ ReadStopped(d)
             \/ ReadLast(d) \/ ClearStopped(d) \/ ClearLast(d) \/ RestoreWs(d)
  BY <1>5 DEF StatusExists, SetStopped, ResumeClear, ReadStopped, ReadLast,
              ClearStopped, ClearLast, RestoreWs
<1>6. CASE SelectClear(d) \/ SelectRead(d) \/ LeaveCheck(d) \/ LeavePrimary(d)
             \/ LeaveLast(d) \/ LeaveWs(d) \/ LeaveStopped(d) \/ LeavePublish(d)
  BY <1>6 DEF SelectClear, SelectRead, LeaveCheck, LeavePrimary, LeaveLast,
              LeaveWs, LeaveStopped, LeavePublish
<1> QED
  BY <1>1, <1>2, <1>3, <1>4, <1>5, <1>6 DEF Proceed

\* The service uses the debouncer as the debouncer's specification says.
THEOREM RemoteUsesDebouncer == Safety => UsesDebouncer
<1>1. Init => DebInit
  BY DEF Init
<1>2. [Next]_vars => [DebNext]_debVars
  <2> SUFFICES ASSUME [Next]_vars PROVE [DebNext]_debVars
    OBVIOUS
  <2>1. ASSUME NEW d \in Devices, Register(d) \/ Frame(d) \/ Disconnect(d) \/ CacheExpires(d)
        PROVE  UNCHANGED debVars
    BY <2>1 DEF Register, Frame, PushTrack, CacheTrack, PushStopped, PushPlaying, Select,
                Disconnect, CacheExpires
  <2>2. ASSUME NEW d \in Devices, Proceed(d) PROVE [DebNext]_debVars
    BY <2>2, HandlersUseDebouncer
  <2>3. CASE Debounce
    BY <2>3 DEF Debounce, DebNext, Serve
  <2>4. CASE TimerExpires
    BY <2>4 DEF TimerExpires, DebNext
  <2>5. CASE Crash
    BY <2>5 DEF Crash, DebNext
  <2>6. CASE NavidromeTakesOver
    BY <2>6 DEF NavidromeTakesOver
  <2>7. CASE UNCHANGED vars
    BY <2>7 DEF vars
  <2> QED
    BY <2>1, <2>2, <2>3, <2>4, <2>5, <2>6, <2>7 DEF Next
<1> QED
  BY <1>1, <1>2, PTL DEF Safety, UsesDebouncer, DebSafety

\* Hence, however many players and controllers there are and whatever they do,
\* has_pending? cannot stay true without a stop on its way ...
THEOREM RemotePendingNeverStuck == Safety => []PendingIsLive
  BY RemoteUsesDebouncer, PendingNeverStuck DEF UsesDebouncer

\* ... and no pause ends the profile twice.
THEOREM RemoteStopsOnce == Safety => AtMostOneStopPerSchedule
  BY RemoteUsesDebouncer, DebImplementsTokens DEF UsesDebouncer

-----------------------------------------------------------------------------
(* No stop is lost.                                                        *)

\* A stop that no message of the mailbox cancels any more: one whose schedule
\* comes after every cancel, one whose timer expired, or one whose timer runs
\* with no cancel on its way.
UncancelledFrom(i) == \A j \in DOMAIN mailbox : j > i => mailbox[j].op # "cancel"

Due ==
    \/ armed # {} /\ UncancelledFrom(0)
    \/ \E i \in DOMAIN mailbox :
          \/ mailbox[i].op = "fire"
          \/ mailbox[i].op = "schedule" /\ UncancelledFrom(i)

\* The steps after which a handler schedules a stop or clears the mark of one,
\* and those in which it acts on what it knew before the mark was set.
Tending == {"schedule", "emitLast", "emitWs", "emitResumed", "resumeClear"}
Late    == {"leaveCancel", "leavePublish", "clearLast", "restoreWs"}

Tended    == \E d \in Devices : pc[d] \in Tending
Restoring == \E d \in Devices : pc[d] \in {"clearLast", "restoreWs"}
Ending    == \E d \in Devices : At(d, "leavePublish")
Emitting  == \E d \in Devices : At(d, "emitPublish")

Minded == Due \/ firing # NoTimer \/ Tended \/ Ending

\* With two devices, the one that publishes late is met by nobody who could undo
\* what the stop of the other one did.
NobodyLate ==
    \A d, e \in Devices : d # e /\ At(d, "emitPublish") => pc[e] \notin Late

StopInv ==
    stopped /\ crashes = 0 =>
        /\ profile # Stopped /\ ~revived => Minded
        /\ ~ThreeDevices =>
              /\ profile # Stopped /\ (wsLast # NoTrack \/ Restoring) => Minded
              /\ wsLast # NoTrack /\ Emitting => Due \/ Tended
              /\ NobodyLate

-----------------------------------------------------------------------------
\* A message that is no cancel leaves a stop due that was.
LEMMA DueAfterSend ==
    ASSUME DebTypeOK, NEW m \in Messages, Send(m), m.op # "cancel",
           Due, armed' = armed
    PROVE  Due'
BY DEF DebTypeOK, Send, Due, UncancelledFrom

\* A stop that was just scheduled is due.
LEMMA DueAfterSchedule ==
    ASSUME DebTypeOK, CastSchedule
    PROVE  Due'
<1>1. [op |-> "schedule", ref |-> issued + 1] \in Messages
  BY BoundsAssumption DEF CastSchedule, DebTypeOK, Messages, Refs
<1>2. /\ Len(mailbox) + 1 \in DOMAIN mailbox'
      /\ mailbox'[Len(mailbox) + 1].op = "schedule"
      /\ \A j \in DOMAIN mailbox' : j <= Len(mailbox) + 1
  BY <1>1 DEF CastSchedule, Send, DebTypeOK
<1>3. \A j \in DOMAIN mailbox' : ~ (j > Len(mailbox) + 1)
  <2>1. Len(mailbox) + 1 \in Nat /\ DOMAIN mailbox' \subseteq Nat
    BY <1>1 DEF CastSchedule, Send, DebTypeOK
  <2> QED
    BY <1>2, <2>1
<1> QED
  BY <1>2, <1>3 DEF Due, UncancelledFrom

\* The server's own work cancels no stop that is due, but to publish it.
LEMMA DueAfterReceive ==
    ASSUME DebTypeOK, Due, HandleSchedule \/ HandleCancel \/ HandleHasPending
    PROVE  Due'
<1> USE DEF DebTypeOK, Receive
<1>1. \A i \in DOMAIN mailbox' : i + 1 \in DOMAIN mailbox /\ mailbox'[i] = mailbox[i + 1]
  BY DEF HandleSchedule, HandleCancel, HandleHasPending
<1>2. \A i \in DOMAIN mailbox : i # 1 => i - 1 \in DOMAIN mailbox' /\ mailbox'[i - 1] = mailbox[i]
  BY DEF HandleSchedule, HandleCancel, HandleHasPending
<1>3. /\ 1 \in DOMAIN mailbox /\ mailbox[1] = Head(mailbox)
      /\ DOMAIN mailbox \subseteq Nat \ {0} /\ DOMAIN mailbox' \subseteq Nat \ {0}
  BY DEF HandleSchedule, HandleCancel, HandleHasPending
<1>4. mailbox[1].op # "fire"
  BY <1>3 DEF HandleSchedule, HandleCancel, HandleHasPending
<1>5. ASSUME NEW i \in DOMAIN mailbox, mailbox[i].op = "fire" PROVE Due'
  BY <1>2, <1>4, <1>5 DEF Due
<1>6. ASSUME NEW i \in DOMAIN mailbox, i # 1, mailbox[i].op = "schedule", UncancelledFrom(i)
      PROVE  Due'
  <2>1. \A j \in DOMAIN mailbox' : j > i - 1 => mailbox'[j].op # "cancel"
    BY <1>1, <1>3, <1>6 DEF UncancelledFrom
  <2>2. PICK k \in DOMAIN mailbox' : k = i - 1 /\ mailbox'[k].op = "schedule"
    BY <1>2, <1>6
  <2>3. \A j \in DOMAIN mailbox' : j > k => mailbox'[j].op # "cancel"
    BY <2>1, <2>2
  <2> QED
    BY <2>2, <2>3 DEF Due, UncancelledFrom
<1>7. ASSUME mailbox[1].op = "schedule", UncancelledFrom(1) PROVE Due'
  <2>1. HandleSchedule
    BY <1>3, <1>7 DEF HandleSchedule, HandleCancel, HandleHasPending
  <2>2. armed' # {}
    BY <2>1 DEF HandleSchedule
  <2>3. \A j \in DOMAIN mailbox' : mailbox'[j].op # "cancel"
    BY <1>1, <1>3, <1>7 DEF UncancelledFrom
  <2> QED
    BY <2>2, <2>3 DEF Due, UncancelledFrom
<1>8. ASSUME armed # {}, UncancelledFrom(0) PROVE Due'
  <2>1. mailbox[1].op # "cancel"
    BY <1>3, <1>8 DEF UncancelledFrom
  <2>2. armed' # {}
    BY <1>3, <1>8, <2>1 DEF HandleSchedule, HandleCancel, HandleHasPending
  <2>3. \A j \in DOMAIN mailbox' : mailbox'[j].op # "cancel"
    BY <1>1, <1>3, <1>8 DEF UncancelledFrom
  <2> QED
    BY <2>2, <2>3 DEF Due, UncancelledFrom
<1> QED
  BY <1>5, <1>6, <1>7, <1>8 DEF Due

\* A timer that expires is due.
LEMMA DueAfterExpire ==
    ASSUME DebTypeOK, NEW r \in Refs, Expire(r)
    PROVE  Due'
<1>1. [op |-> "fire", ref |-> r] \in Messages
  BY DEF Messages
<1> QED
  BY <1>1 DEF Expire, Send, Due, DebTypeOK

\* What is due is on its way.
LEMMA DueIsLive ==
    ASSUME DebTypeOK, Due \/ firing # NoTimer
    PROVE  Live # {}
<1>1. ASSUME NEW op \in {"fire", "schedule"}, NEW i \in DOMAIN mailbox, mailbox[i].op = op
      PROVE  mailbox[i].ref \in Live
  BY <1>1 DEF Live, Started, Queued
<1>2. CASE armed # {} \/ firing # NoTimer
  BY <1>2 DEF Live, Started
<1> QED
  BY <1>1, <1>2 DEF Due

-----------------------------------------------------------------------------
\* A handler's step that neither minds a stop nor is one of the late ones, and
\* disturbs no stop that is due, disturbs nothing.
LEMMA PassingKeepsStop ==
    ASSUME StopInv, NEW d \in Devices,
           UNCHANGED <<stopped, profile, revived, crashes, firing>>, Due => Due',
           wsLast' # NoTrack => wsLast # NoTrack,
           \A x \in Devices : x # d => pc'[x] = pc[x],
           pc[d] \notin Tending \cup {"leavePublish"},
           pc'[d] \notin Late \cup {"emitPublish"}
    PROVE  StopInv'
<1>1. Minded => Minded'
  BY DEF Minded, Tended, Ending, At
<1>2. (Restoring' => Restoring) /\ (Emitting' => Emitting)
  BY DEF Restoring, Emitting, At, Late
<1>3. Tended => Tended'
  BY DEF Tended
<1>4. NobodyLate => NobodyLate'
  BY DEF NobodyLate, At
<1> QED
  BY <1>1, <1>2, <1>3, <1>4 DEF StopInv

\* A step into one that minds the stop, whatever it does to the debouncer.
LEMMA TendingKeepsStop ==
    ASSUME StopInv, NEW d \in Devices, UNCHANGED <<stopped, crashes>>,
           \A x \in Devices : x # d => pc'[x] = pc[x],
           pc'[d] \in Tending
    PROVE  StopInv'
<1>1. Tended'
  BY DEF Tended
<1>2. pc'[d] # "emitPublish" /\ pc'[d] \notin Late
  BY DEF Tending, Late
<1>3. NobodyLate => NobodyLate'
  BY <1>2 DEF NobodyLate, At
<1> QED
  BY <1>1, <1>3 DEF StopInv, Minded

-----------------------------------------------------------------------------
\* The handlers that publish a song.
LEMMA EmitKeepsStop ==
    ASSUME RemoteInv, DebTypeOK, StopInv, NEW d \in Devices,
           EmitCancel(d) \/ EmitLast(d) \/ EmitWs(d) \/ EmitResumed(d) \/ EmitPublish(d)
    PROVE  StopInv'
<1> USE DEF RemoteInv, TypeOK, At, Goto, Return, Continue, history, aux
<1>1. CASE EmitCancel(d) \/ EmitLast(d) \/ EmitWs(d)
  BY <1>1, TendingKeepsStop DEF EmitCancel, EmitLast, EmitWs, Tending, redis
<1>2. CASE EmitResumed(d)
  BY <1>2 DEF EmitResumed, StopInv
<1>3. CASE EmitPublish(d)
  <2>1. /\ pc[d] = "emitPublish" /\ pc'[d] = "idle"
        /\ \A x \in Devices : x # d => pc'[x] = pc[x]
        /\ UNCHANGED <<stopped, wsLast, crashes, firing, mailbox, armed>>
    BY <1>3 DEF EmitPublish, redis, debVars
  <2>2. /\ Due' = Due
        /\ Tended => Tended'
        /\ Ending => Ending'
        /\ (Restoring' => Restoring) /\ (Emitting' => Emitting)
        /\ NobodyLate => NobodyLate'
    BY <2>1 DEF Due, UncancelledFrom, Tended, Tending, Ending, Restoring, Emitting, NobodyLate, Late
  <2>3. Minded => Minded'
    BY <2>1, <2>2 DEF Minded
  <2>4. stopped /\ ~revived' => profile # Stopped /\ ~revived
    BY <1>3 DEF EmitPublish
  <2>5. NobodyLate => ~Restoring
    BY <2>1 DEF NobodyLate, Restoring, Late
  <2> QED
    BY <2>1, <2>2, <2>3, <2>4, <2>5 DEF StopInv, Minded, Emitting
<1> QED
  BY <1>1, <1>2, <1>3

\* The handlers of a pause and of a resume.
LEMMA StatusKeepsStop ==
    ASSUME RemoteInv, DebTypeOK, StopInv, NEW d \in Devices,
           SetStopped(d) \/ ScheduleStop(d) \/ ResumeCancel(d) \/ ResumeClear(d)
             \/ ClearStopped(d) \/ ClearLast(d) \/ RestoreWs(d)
    PROVE  StopInv'
<1> USE DEF RemoteInv, TypeOK, At, Goto, Return, Continue, history, aux
<1>1. CASE SetStopped(d)
  <2>1. /\ pc[d] = "setStopped" /\ pc'[d] = "schedule"
        /\ \A x \in Devices : x # d => pc'[x] = pc[x]
    BY <1>1 DEF SetStopped
  <2>2. Tended'
    BY <2>1 DEF Tended, Tending
  <2>3. ~ThreeDevices => NobodyLate'
    BY <2>1 DEF NobodyLate, ThreeDevices, Late
  <2> QED
    BY <2>2, <2>3 DEF StopInv, Minded, ThreeDevices
<1>2. CASE ScheduleStop(d)
  <2>1. /\ pc[d] = "schedule" /\ pc'[d] = "idle"
        /\ \A x \in Devices : x # d => pc'[x] = pc[x]
        /\ UNCHANGED <<stopped, crashes>>
    BY <1>2 DEF ScheduleStop, redis
  <2>2. Due'
    BY <1>2, DueAfterSchedule DEF ScheduleStop
  <2>3. NobodyLate => NobodyLate'
    BY <2>1 DEF NobodyLate, Late
  <2> QED
    BY <2>1, <2>2, <2>3 DEF StopInv, Minded
<1>3. CASE ResumeCancel(d)
  BY <1>3, TendingKeepsStop DEF ResumeCancel, Tending, redis
<1>4. CASE ResumeClear(d) \/ ClearStopped(d)
  BY <1>4 DEF ResumeClear, ClearStopped, StopInv
<1>5. CASE ClearLast(d) \/ RestoreWs(d)
  <2>1. /\ pc[d] \in {"clearLast", "restoreWs"} /\ pc'[d] \in {"restoreWs", "idle"}
        /\ \A x \in Devices : x # d => pc'[x] = pc[x]
        /\ UNCHANGED <<stopped, profile, revived, crashes, firing, mailbox, armed>>
    BY <1>5 DEF ClearLast, RestoreWs, debVars
  <2>2. /\ Due' = Due /\ (Tended => Tended') /\ (Ending => Ending')
        /\ Restoring /\ (Emitting' => Emitting) /\ (NobodyLate => NobodyLate')
    BY <2>1 DEF Due, UncancelledFrom, Tended, Tending, Ending, Restoring, Emitting, NobodyLate, Late
  <2>3. Minded => Minded'
    BY <2>1, <2>2 DEF Minded
  <2>4. NobodyLate => ~Emitting
    BY <2>1 DEF NobodyLate, Emitting, Late
  <2> QED
    BY <2>1, <2>2, <2>3, <2>4 DEF StopInv
<1> QED
  BY <1>1, <1>2, <1>3, <1>4, <1>5

\* The handler of a disconnect.
LEMMA LeaveKeepsStop ==
    ASSUME RemoteInv, DebTypeOK, StopInv, NEW d \in Devices,
           LeaveStopped(d) \/ LeaveCancel(d) \/ LeavePublish(d)
    PROVE  StopInv'
<1> USE DEF RemoteInv, TypeOK, At, Goto, Return, Continue, history, aux
<1>1. CASE LeaveStopped(d)
  BY <1>1 DEF LeaveStopped, StopInv
<1>2. CASE LeaveCancel(d)
  <2>1. /\ pc[d] = "leaveCancel" /\ pc'[d] = "leavePublish"
        /\ \A x \in Devices : x # d => pc'[x] = pc[x]
        /\ UNCHANGED <<stopped, crashes>>
    BY <1>2 DEF LeaveCancel, redis
  <2>2. Ending' /\ (Emitting' => Emitting) /\ (NobodyLate => NobodyLate')
    BY <2>1 DEF Ending, Emitting, NobodyLate, Late
  <2>3. NobodyLate => ~Emitting
    BY <2>1 DEF NobodyLate, Emitting, Late
  <2> QED
    BY <2>1, <2>2, <2>3 DEF StopInv, Minded
<1>3. CASE LeavePublish(d)
  <2>1. /\ pc[d] = "leavePublish" /\ pc'[d] = "idle"
        /\ \A x \in Devices : x # d => pc'[x] = pc[x]
        /\ UNCHANGED <<stopped, wsLast, crashes, mailbox, armed>> /\ profile' = Stopped
    BY <1>3 DEF LeavePublish, redis, debVars
  <2>2. /\ Due' = Due /\ (Tended => Tended')
        /\ (Emitting' => Emitting) /\ (NobodyLate => NobodyLate')
    BY <2>1 DEF Due, UncancelledFrom, Tended, Tending, Emitting, NobodyLate, Late
  <2> QED
    BY <2>1, <2>2 DEF StopInv, Stopped
<1> QED
  BY <1>1, <1>2, <1>3

\* The debouncer at work, and its timers.
LEMMA DebounceKeepsStop ==
    ASSUME RemoteInv, DebTypeOK, StopInv, Debounce \/ TimerExpires
    PROVE  StopInv'
<1> USE DEF RemoteInv, TypeOK, remoteVars, redis, history, aux
<1>1. UNCHANGED <<stopped, revived, crashes, pc>>
  BY DEF Debounce, TimerExpires
<1>2. /\ UNCHANGED <<Tended, Ending, Restoring, Emitting, NobodyLate>>
  BY <1>1 DEF Tended, Ending, Restoring, Emitting, NobodyLate, At
<1>3. CASE HandleFire /\ wsLast' = NoTrack /\ UNCHANGED profile
  <2>1. firing' # NoTimer
    BY <1>3 DEF HandleFire, Receive, DebTypeOK, Messages, Refs, NoTimer
  <2> QED
    BY <1>1, <1>2, <1>3, <2>1 DEF StopInv, Minded
<1>4. CASE PublishStop /\ profile' = Stopped /\ UNCHANGED wsLast
  <2>1. Due' = Due
    BY <1>4 DEF PublishStop, Due, UncancelledFrom
  <2> QED
    BY <1>1, <1>2, <1>4, <2>1 DEF StopInv, Stopped
<1>5. CASE /\ HandleSchedule \/ HandleCancel \/ HandleHasPending \/ \E r \in Refs : Expire(r)
           /\ UNCHANGED <<wsLast, profile>>
  <2>1. Due => Due'
    BY <1>5, DueAfterReceive, DueAfterExpire
  <2>2. firing' = firing
    BY <1>5 DEF HandleSchedule, HandleCancel, HandleHasPending, Expire
  <2> QED
    BY <1>1, <1>2, <1>5, <2>1, <2>2 DEF StopInv, Minded
<1> QED
  BY <1>3, <1>4, <1>5 DEF Debounce, TimerExpires

\* The frames that begin a handler, and the steps of handlers that only read, or
\* write what no stop depends on.
LEMMA OthersKeepStop ==
    ASSUME RemoteInv, DebTypeOK, StopInv, NEW d \in Devices,
           \/ Register(d) \/ Frame(d) \/ Disconnect(d) \/ CacheExpires(d)
           \/ EnsureRead(d) \/ EnsureLookup(d) \/ Adopt(d) \/ CheckPrimary(d)
           \/ GateLast(d) \/ GateWs(d) \/ StatusExists(d) \/ ResumeAsk(d)
           \/ ResumeAnswered(d) \/ ReadStopped(d) \/ ReadLast(d) \/ SelectClear(d)
           \/ SelectRead(d) \/ LeaveCheck(d) \/ LeavePrimary(d) \/ LeaveLast(d)
           \/ LeaveWs(d)
    PROVE  StopInv'
<1> USE DEF RemoteInv, TypeOK, At, Idle, Goto, Return, Continue, redis, history, aux
<1>1. CASE UNCHANGED <<pc, stopped, profile, revived, crashes, wsLast, debVars>>
  BY <1>1 DEF StopInv, Minded, Due, UncancelledFrom, Tended, Ending, Restoring, Emitting,
              NobodyLate, debVars
<1>2. CASE ResumeAsk(d) \/ ResumeAnswered(d)
  <2>1. Due => Due'
    <3>1. CASE ResumeAsk(d)
      <4> DEFINE m == [op |-> "has_pending", from |-> d]
      <4>1. m \in Messages /\ Send(m) /\ armed' = armed
        BY <3>1, RemoteAssumption DEF ResumeAsk, CallHasPending, Messages
      <4> QED
        BY <4>1, DueAfterSend
    <3>2. CASE ResumeAnswered(d)
      BY <3>2 DEF ResumeAnswered, TakeAnswer, Due, UncancelledFrom
    <3> QED
      BY <1>2, <3>1, <3>2
  <2>2. /\ UNCHANGED <<stopped, profile, revived, crashes, firing, wsLast>>
        /\ pc[d] \in {"ask", "awaitAnswer"}
        /\ pc'[d] \in {"awaitAnswer", "resumeCancel", "readStopped"}
        /\ \A x \in Devices : x # d => pc'[x] = pc[x]
    BY <1>2 DEF ResumeAsk, ResumeAnswered, CallHasPending, TakeAnswer
  <2> QED
    BY <2>1, <2>2, PassingKeepsStop DEF Tending, Late
<1>3. CASE UNCHANGED debVars
  <2> DEFINE Passing ==
        /\ UNCHANGED <<stopped, profile, revived, crashes>>
        /\ wsLast' # NoTrack => wsLast # NoTrack
        /\ \A x \in Devices : x # d => pc'[x] = pc[x]
        /\ pc[d] \notin Tending \cup {"leavePublish"}
        /\ pc'[d] \notin Late \cup {"emitPublish"}
  <2>1. UNCHANGED firing /\ (Due => Due')
    BY <1>3 DEF debVars, Due, UncancelledFrom
  <2>2. Passing => StopInv'
    BY <2>1, PassingKeepsStop
  <2>3. CASE Register(d) \/ CacheExpires(d)
    BY <1>1, <1>3, <2>3 DEF Register, CacheExpires
  <2>4. CASE Frame(d) \/ Disconnect(d)
    <3>1. Passing
      BY <2>4 DEF Frame, PushTrack, CacheTrack, PushStopped, PushPlaying, Select, Disconnect,
                  Tending, Late
    <3> QED
      BY <2>2, <3>1
  <2>5. CASE EnsureRead(d) \/ EnsureLookup(d) \/ Adopt(d) \/ CheckPrimary(d)
               \/ GateLast(d) \/ GateWs(d) \/ SelectClear(d) \/ SelectRead(d)
    <3>1. Passing
      BY <2>5 DEF EnsureRead, EnsureLookup, Adopt, CheckPrimary, GateLast, GateWs, SelectClear,
                  SelectRead, Tending, Late
    <3> QED
      BY <2>2, <3>1
  <2>6. CASE StatusExists(d) \/ ReadStopped(d) \/ ReadLast(d) \/ LeaveCheck(d)
               \/ LeavePrimary(d) \/ LeaveLast(d) \/ LeaveWs(d)
    <3>1. Passing
      BY <2>6 DEF StatusExists, ReadStopped, ReadLast, LeaveCheck, LeavePrimary, LeaveLast,
                  LeaveWs, Tending, Late
    <3> QED
      BY <2>2, <3>1
  <2> QED
    BY <1>2, <2>3, <2>4, <2>5, <2>6
<1> QED
  BY <1>2, <1>3 DEF Register, Frame, PushTrack, CacheTrack, PushStopped, PushPlaying, Select,
        Disconnect, CacheExpires, EnsureRead, EnsureLookup, Adopt, CheckPrimary, GateLast, GateWs,
        StatusExists, ReadStopped, ReadLast, SelectClear, SelectRead, LeaveCheck, LeavePrimary,
        LeaveLast, LeaveWs

\* A paused profile is ended, whatever any number of devices do at once.
\* StopNotLost alone says nothing of the handlers that are at work: StopInv says
\* who minds the stop while it is not due.
THEOREM RemoteStopNotLost == Safety => []StopNotLost
<1>1. Init => StopInv
  BY DEF Init, StopInv
<1>2. RemoteInv /\ DebTypeOK /\ StopInv /\ [Next]_vars => StopInv'
  <2> SUFFICES ASSUME RemoteInv, DebTypeOK, StopInv, [Next]_vars PROVE StopInv'
    OBVIOUS
  <2>1. ASSUME NEW d \in Devices, Register(d) \/ Frame(d) \/ Disconnect(d) \/ CacheExpires(d)
        PROVE  StopInv'
    BY <2>1, OthersKeepStop
  <2>2. ASSUME NEW d \in Devices, Proceed(d) PROVE StopInv'
    BY <2>2, EmitKeepsStop, StatusKeepsStop, LeaveKeepsStop, OthersKeepStop DEF Proceed
  <2>3. CASE Debounce \/ TimerExpires
    BY <2>3, DebounceKeepsStop
  <2>4. CASE NavidromeTakesOver
    <3>1. /\ UNCHANGED <<stopped, profile, revived, crashes, pc, firing, mailbox, armed>>
          /\ wsLast' = NoTrack
      BY <2>4 DEF NavidromeTakesOver, debVars, history, aux
    <3> QED
      BY <3>1 DEF StopInv, Minded, Due, UncancelledFrom, Tended, Ending, Restoring, Emitting,
                  NobodyLate, At
  <2>5. CASE Crash
    <3>1. crashes' # 0
      BY <2>5 DEF Crash, RemoteInv, TypeOK
    <3> QED
      BY <3>1 DEF StopInv
  <2>6. CASE UNCHANGED vars
    BY <2>6 DEF vars, remoteVars, redis, history, aux, debVars, StopInv, Minded, Due, UncancelledFrom,
                Tended, Ending, Restoring, Emitting, NobodyLate, At
  <2> QED
    BY <2>1, <2>2, <2>3, <2>4, <2>5, <2>6 DEF Next
<1>3. StopInv /\ DebTypeOK /\ TypeOK => StopNotLost
  <2>1. ASSUME AllIdle PROVE ~Tended /\ ~Ending
    BY <2>1 DEF AllIdle, At, Tended, Tending, Ending
  <2>2. DebTypeOK /\ Minded /\ AllIdle => Live # {}
    BY <2>1, DueIsLive DEF Minded
  <2> QED
    BY <2>2 DEF StopInv, StopNotLost, Overtaken
<1>4. Safety => []DebTypeOK
  BY RemoteUsesDebouncer, DebTypeCorrect DEF UsesDebouncer
<1> QED
  BY <1>1, <1>2, <1>3, <1>4, RemoteInvariant, RemoteTypeCorrect, PTL DEF Safety

-----------------------------------------------------------------------------
(* What the profile shows.                                                 *)

\* The steps of a disconnect that ends the profile.
Parting == {"leaveLast", "leaveWs", "leaveStopped", "leaveCancel", "leavePublish"}

\* A profile that shows a song has a connected primary to end it, or a disconnect
\* about to.
Attended ==
    crashes = 0 /\ profile # Stopped /\ ~stray =>
        primary \in Connected \/ \E d \in Devices : pc[d] \in Parting

\* What deduplication believes is on the profile, or on its way there, alone.
Believed ==
    crashes = 0 /\ ~mixed =>
        /\ \A d, e \in Devices : pc[d] \in Settling /\ pc[e] \in Settling => d = e
        /\ \A d \in Devices : pc[d] \in Settling => lastsong \in {NoTrack, song[d]}
        /\ \/ profile = Stopped \/ lastsong = NoTrack \/ profile.track = lastsong
           \/ \E d \in Devices : pc[d] \in Settling

ShownInv == Attended /\ Believed

-----------------------------------------------------------------------------
\* A handler's step that sets neither the primary nor the track, and neither
\* begins nor ends a publication or a departure, changes nothing of it.
LEMMA PassingKeepsShown ==
    ASSUME RemoteInv, ShownInv, NEW d \in Devices,
           UNCHANGED <<primary, profile, crashes, stray, mixed>>,
           lastsong' \in {NoTrack, lastsong},
           Connected' = Connected,
           \A x \in Devices : x # d => pc'[x] = pc[x] /\ song'[x] = song[x],
           pc'[d] \in Settling <=> pc[d] \in Settling,
           pc'[d] \in Settling => song'[d] = song[d],
           pc[d] \in Parting => pc'[d] \in Parting
    PROVE  ShownInv'
<1>1. Attended'
  BY DEF ShownInv, Attended
<1>2. Believed'
  <2>1. \A x \in Devices : pc'[x] \in Settling <=> pc[x] \in Settling
    OBVIOUS
  <2>2. \A x \in Devices : pc'[x] \in Settling => song'[x] = song[x]
    OBVIOUS
  <2> QED
    BY <2>1, <2>2 DEF ShownInv, Believed
<1> QED
  BY <1>1, <1>2 DEF ShownInv

\* The handlers that publish a song.
LEMMA EmitKeepsShown ==
    ASSUME RemoteInv, ShownInv, NEW d \in Devices,
           \/ Adopt(d) \/ EmitCancel(d) \/ EmitLast(d) \/ EmitWs(d) \/ EmitResumed(d)
           \/ EmitPublish(d)
    PROVE  ShownInv'
<1> USE DEF RemoteInv, TypeOK, At, Goto, Return, Continue, redis, locals, history, aux
<1>1. CASE Adopt(d)
  <2>1. Attended'
    BY <1>1 DEF Adopt, Stray, ShownInv, Attended, Connected
  <2>2. /\ UNCHANGED <<profile, crashes, mixed, lastsong, song>>
        /\ \A x \in Devices : pc'[x] \in Settling <=> pc[x] \in Settling
    BY <1>1 DEF Adopt, Settling
  <2>3. Believed'
    BY <2>2 DEF ShownInv, Believed
  <2> QED
    BY <2>1, <2>3 DEF ShownInv
<1>2. CASE EmitCancel(d) \/ EmitWs(d) \/ EmitResumed(d)
  BY <1>2, PassingKeepsShown DEF EmitCancel, EmitWs, EmitResumed, Settling, Parting, Connected
<1>3. CASE EmitLast(d)
  <2>1. /\ UNCHANGED <<conn, primary, profile, crashes, stray, song>> /\ lastsong' = song[d]
        /\ pc[d] = "emitLast" /\ pc'[d] = "emitWs"
        /\ \A x \in Devices : x # d => pc'[x] = pc[x]
        /\ mixed' = \E e \in Devices \ {d} : pc[e] \in Settling
    BY <1>3 DEF EmitLast
  <2>2. Attended'
    BY <2>1 DEF ShownInv, Attended, Connected, Parting
  <2>3. Believed'
    BY <2>1 DEF Believed, Settling
  <2> QED
    BY <2>2, <2>3 DEF ShownInv
<1>4. CASE EmitPublish(d)
  <2>1. /\ UNCHANGED <<conn, primary, lastsong, crashes, mixed>>
        /\ stray' = (primary \notin Connected)
        /\ profile' = [event |-> "changed", track |-> song[d], device |-> Source(d)]
        /\ pc[d] = "emitPublish" /\ pc'[d] = "idle"
        /\ \A x \in Devices : x # d => pc'[x] = pc[x] /\ song'[x] = song[x]
    BY <1>4 DEF EmitPublish, Stray, Connected
  <2>2. Attended'
    BY <2>1 DEF Attended, Connected
  <2>3. pc[d] \in Settling /\ profile'.track = song[d]
    BY <2>1 DEF Settling
  <2>4. Believed'
    BY <2>1, <2>3 DEF ShownInv, Believed, Settling
  <2> QED
    BY <2>2, <2>4 DEF ShownInv
<1> QED
  BY <1>1, <1>2, <1>3, <1>4

\* The handler of a disconnect.
LEMMA LeaveKeepsShown ==
    ASSUME RemoteInv, ShownInv, NEW d \in Devices,
           \/ LeaveCheck(d) \/ LeavePrimary(d) \/ LeaveLast(d) \/ LeaveWs(d)
           \/ LeaveStopped(d) \/ LeaveCancel(d) \/ LeavePublish(d)
    PROVE  ShownInv'
<1> USE DEF RemoteInv, TypeOK, At, Goto, Return, Continue, redis, locals, history, aux
<1>1. CASE LeaveCheck(d) \/ LeavePrimary(d) \/ LeavePublish(d)
  <2>1. /\ UNCHANGED <<lastsong, crashes, stray, mixed>> /\ profile' \in {Stopped, profile}
        /\ \A x \in Devices : pc'[x] \in Settling <=> pc[x] \in Settling
        /\ \A x \in Devices : pc[x] \in Settling => song'[x] = song[x]
    BY <1>1 DEF LeaveCheck, LeavePrimary, LeavePublish, Settling
  <2>2. Believed'
    BY <2>1 DEF ShownInv, Believed, Stopped
  <2>3. Attended'
    <3>1. CASE LeaveCheck(d)
      BY <3>1 DEF LeaveCheck, Gone, ShownInv, Attended, Connected, Parting
    <3>2. CASE LeavePrimary(d)
      BY <3>2 DEF LeavePrimary, Attended, Parting
    <3>3. CASE LeavePublish(d)
      BY <3>3 DEF LeavePublish, Attended, Stopped
    <3> QED
      BY <1>1, <3>1, <3>2, <3>3
  <2> QED
    BY <2>2, <2>3 DEF ShownInv
<1>2. CASE LeaveLast(d) \/ LeaveWs(d) \/ LeaveStopped(d) \/ LeaveCancel(d)
  BY <1>2, PassingKeepsShown DEF LeaveLast, LeaveWs, LeaveStopped, LeaveCancel, Settling,
                                 Parting, Connected
<1> QED
  BY <1>1, <1>2

\* The frames that begin a handler, and the steps that lead to a publication, mind
\* a pause or a resume.
LEMMA OthersKeepShown ==
    ASSUME RemoteInv, ShownInv, NEW d \in Devices,
           \/ Register(d) \/ Frame(d) \/ Disconnect(d) \/ CacheExpires(d)
           \/ EnsureRead(d) \/ EnsureLookup(d) \/ CheckPrimary(d) \/ GateLast(d) \/ GateWs(d)
           \/ StatusExists(d) \/ SetStopped(d) \/ ScheduleStop(d) \/ ResumeAsk(d)
           \/ ResumeAnswered(d) \/ ResumeCancel(d) \/ ResumeClear(d) \/ ReadStopped(d)
           \/ ReadLast(d) \/ ClearStopped(d) \/ ClearLast(d) \/ RestoreWs(d)
           \/ SelectClear(d) \/ SelectRead(d)
    PROVE  ShownInv'
<1> USE DEF RemoteInv, TypeOK, At, Idle, Goto, Return, Continue, redis, locals, history, aux
<1>1. CASE Register(d)
  <2>1. Connected \subseteq Connected' /\ UNCHANGED <<primary, profile, pc, crashes, stray>>
    BY <1>1 DEF Register, Connected
  <2>2. Attended'
    BY <2>1 DEF ShownInv, Attended
  <2>3. Believed'
    BY <1>1 DEF Register, ShownInv, Believed
  <2> QED
    BY <2>2, <2>3 DEF ShownInv
<1>2. ASSUME NEW x \in Devices, Select(d, x) PROVE ShownInv'
  <2>1. Attended'
    BY <1>2 DEF Select, Stray, ShownInv, Attended, Connected
  <2>2. /\ UNCHANGED <<profile, crashes, mixed, lastsong, song>>
        /\ \A y \in Devices : pc'[y] \in Settling <=> pc[y] \in Settling
    BY <1>2 DEF Select, Settling
  <2>3. Believed'
    BY <2>2 DEF ShownInv, Believed
  <2> QED
    BY <2>1, <2>3 DEF ShownInv
<1> DEFINE Passing ==
      /\ UNCHANGED <<primary, profile, crashes, stray, mixed>>
      /\ lastsong' \in {NoTrack, lastsong}
      /\ Connected' = Connected
      /\ \A x \in Devices : x # d => pc'[x] = pc[x] /\ song'[x] = song[x]
      /\ pc'[d] \in Settling <=> pc[d] \in Settling
      /\ pc'[d] \in Settling => song'[d] = song[d]
      /\ pc[d] \in Parting => pc'[d] \in Parting
<1>3. Passing => ShownInv'
  BY PassingKeepsShown
<1>4. CASE (\E t \in Tracks : PushTrack(d, t)) \/ PushStopped(d) \/ PushPlaying(d)
             \/ Disconnect(d) \/ CacheExpires(d)
  <2>1. Passing
    BY <1>4 DEF PushTrack, CacheTrack, PushStopped, PushPlaying, Disconnect, CacheExpires,
                Settling, Parting, Connected
  <2> QED
    BY <1>3, <2>1
<1>5. CASE EnsureRead(d) \/ EnsureLookup(d) \/ CheckPrimary(d) \/ GateLast(d) \/ GateWs(d)
             \/ SelectClear(d) \/ SelectRead(d)
  <2>1. Passing
    BY <1>5 DEF EnsureRead, EnsureLookup, CheckPrimary, GateLast, GateWs, SelectClear,
                SelectRead, Settling, Parting, Connected
  <2> QED
    BY <1>3, <2>1
<1>6. CASE StatusExists(d) \/ SetStopped(d) \/ ScheduleStop(d) \/ ResumeAsk(d)
             \/ ResumeAnswered(d) \/ ResumeCancel(d) \/ ResumeClear(d)
  <2>1. Passing
    BY <1>6 DEF StatusExists, SetStopped, ScheduleStop, ResumeAsk, ResumeAnswered,
                ResumeCancel, ResumeClear, Settling, Parting, Connected
  <2> QED
    BY <1>3, <2>1
<1>7. CASE ReadStopped(d) \/ ReadLast(d) \/ ClearStopped(d) \/ ClearLast(d) \/ RestoreWs(d)
  <2>1. Passing
    BY <1>7 DEF ReadStopped, ReadLast, ClearStopped, ClearLast, RestoreWs, Settling, Parting,
                Connected
  <2> QED
    BY <1>3, <2>1
<1> QED
  BY <1>1, <1>2, <1>4, <1>5, <1>6, <1>7 DEF Frame

\* Whatever any number of devices do at once, the invariant holds of the profile.
LEMMA RemoteShown == Safety => []ShownInv
<1>1. Init => ShownInv
  BY DEF Init, ShownInv, Attended, Believed, Settling
<1>2. RemoteInv /\ ShownInv /\ [Next]_vars => ShownInv'
  <2> SUFFICES ASSUME RemoteInv, ShownInv, [Next]_vars PROVE ShownInv'
    OBVIOUS
  <2>1. ASSUME NEW d \in Devices, Register(d) \/ Frame(d) \/ Disconnect(d) \/ CacheExpires(d)
        PROVE  ShownInv'
    BY <2>1, OthersKeepShown
  <2>2. ASSUME NEW d \in Devices, Proceed(d) PROVE ShownInv'
    BY <2>2, EmitKeepsShown, LeaveKeepsShown, OthersKeepShown DEF Proceed
  <2>3. CASE Debounce \/ TimerExpires \/ NavidromeTakesOver
    <3>1. /\ UNCHANGED <<conn, primary, lastsong, song, pc, crashes, stray, mixed>>
          /\ profile' \in {Stopped, profile}
      BY <2>3 DEF Debounce, TimerExpires, NavidromeTakesOver, remoteVars, redis, locals,
                  history, aux
    <3> QED
      BY <3>1 DEF ShownInv, Attended, Believed, Connected
  <2>4. CASE Crash
    <3>1. crashes' # 0
      BY <2>4 DEF Crash, RemoteInv, TypeOK
    <3> QED
      BY <3>1 DEF ShownInv, Attended, Believed
  <2>5. CASE UNCHANGED vars
    BY <2>5 DEF vars, remoteVars, redis, locals, history, aux, ShownInv, Attended, Believed,
                Connected
  <2> QED
    BY <2>1, <2>2, <2>3, <2>4, <2>5 DEF Next
<1> QED
  BY <1>1, <1>2, RemoteInvariant, PTL DEF Safety

\* The profile outlives the connections of no set of devices, but where a publication
\* or a selection named a primary that had left.
THEOREM RemoteGoneIsSilent == Safety => []GoneIsSilent
<1>1. ShownInv => GoneIsSilent
  BY DEF ShownInv, Attended, GoneIsSilent, Connected, AllIdle, At, Parting
<1> QED
  BY <1>1, RemoteShown, PTL

\* Deduplication believes in no track that the profile does not show, whatever any
\* number of devices push, select and pause, but where two of them published at once.
THEOREM RemoteDedupAgrees == Safety => []DedupAgreesWithProfile
<1>1. ShownInv => DedupAgreesWithProfile
  BY DEF ShownInv, Believed, DedupAgreesWithProfile, AllIdle, At, Settling
<1> QED
  BY <1>1, RemoteShown, PTL
=============================================================================
