------------------------- MODULE DeviceMirrorProofs --------------------------
(***************************************************************************)
(* Proofs about DeviceMirror, for any number of players, controllers and   *)
(* tracks, and any bound: its types; that no push is lost between a        *)
(* snapshot and the broadcasts; and that the controllers converge on the   *)
(* primary.                                                                *)
(***************************************************************************)
EXTENDS DeviceMirror, SequenceTheorems, TLAPS

-----------------------------------------------------------------------------
(* Its types.                                                              *)

LEMMA PutInViews ==
    ASSUME NEW entries \in Views, NEW p \in Players, NEW t \in Entry
    PROVE  Put(entries, p, t) \in Views
<1>1. PICK S \in SUBSET Players : entries \in [S -> Entry]
  BY DEF Views
<1>2. S \cup {p} \in SUBSET Players
  OBVIOUS
<1>3. Put(entries, p, t) \in [S \cup {p} -> Entry]
  BY <1>1 DEF Put
<1> QED
  BY <1>2, <1>3 DEF Views

LEMMA WithoutInViews ==
    ASSUME NEW entries \in Views, NEW p
    PROVE  [q \in DOMAIN entries \ {p} |-> entries[q]] \in Views
<1>1. PICK S \in SUBSET Players : entries \in [S -> Entry]
  BY DEF Views
<1>2. S \ {p} \in SUBSET Players
  OBVIOUS
<1>3. [q \in DOMAIN entries \ {p} |-> entries[q]] \in [S \ {p} -> Entry]
  BY <1>1
<1> QED
  BY <1>2, <1>3 DEF Views

LEMMA EntriesOfPlayers ==
    ASSUME NEW entries \in Views
    PROVE  DOMAIN entries \subseteq Players
BY DEF Views

LEMMA NoEntriesInViews == NoEntries \in Views
<1>1. NoEntries \in [{} -> Entry]
  BY DEF NoEntries
<1> QED
  BY <1>1 DEF Views

\* The first command of d gives way to others.
LEMMA ReplaceTypes ==
    ASSUME TypeOK, NEW d \in Peers, todo[d] # <<>>,
           NEW commands \in Seq(Commands), Replace(d, commands)
    PROVE  todo' \in [Peers -> Seq(Commands)]
<1>1. todo \in [Peers -> Seq(Commands)]
  BY DEF TypeOK
<1>2. Tail(todo[d]) \in Seq(Commands)
  BY <1>1
<1>3. commands \o Tail(todo[d]) \in Seq(Commands)
  BY <1>2
<1> QED
  BY <1>1, <1>3 DEF Replace

LEMMA BeginTypes ==
    ASSUME TypeOK, NEW d \in Peers, NEW commands \in Seq(Commands), Begin(d, commands)
    PROVE  todo' \in [Peers -> Seq(Commands)]
BY DEF TypeOK, Begin

LEMMA CommandTypes ==
    /\ \A op \in {"ensure", "forget", "leave", "clear", "die", "read", "reply"} :
          [op |-> op] \in Commands
    /\ \A p \in Players : [op |-> "set", device |-> p] \in Commands
    /\ \A f \in StateFrames \cup CommandFrames :
          /\ [op |-> "list", frame |-> f] \in Commands
          /\ \A to \in SUBSET Peers : [op |-> "send", frame |-> f, to |-> to] \in Commands
          /\ Tell(f) \in Seq(Commands)
    /\ \A aim \in Players \cup {NoDevice} : [op |-> "relay", aim |-> aim] \in Commands
    /\ \A from \in SUBSET Players : [op |-> "fetch", from |-> from] \in Commands
    /\ <<>> \in Seq(Commands)
<1>1. \A f \in StateFrames \cup CommandFrames : [op |-> "list", frame |-> f] \in Commands
  BY DEF Commands
<1>2. ASSUME NEW f \in StateFrames \cup CommandFrames PROVE Tell(f) \in Seq(Commands)
  <2> DEFINE m == [op |-> "list", frame |-> f]
  <2>1. m \in Commands
    BY <1>1
  <2> HIDE DEF m
  <2>2. <<m>> \in Seq(Commands)
    BY <2>1
  <2> QED
    BY <2>2 DEF Tell, m
<1>3. \A op \in {"ensure", "forget", "leave", "clear", "die", "read", "reply"} :
          [op |-> op] \in Commands
  BY DEF Commands
<1>4. \A p \in Players : [op |-> "set", device |-> p] \in Commands
  BY DEF Commands
<1>5. ASSUME NEW f \in StateFrames \cup CommandFrames, NEW to \in SUBSET Peers
      PROVE  [op |-> "send", frame |-> f, to |-> to] \in Commands
  BY DEF Commands
<1>6. \A aim \in Players \cup {NoDevice} : [op |-> "relay", aim |-> aim] \in Commands
  BY DEF Commands
<1>7. \A from \in SUBSET Players : [op |-> "fetch", from |-> from] \in Commands
  BY DEF Commands
<1> QED
  BY <1>1, <1>2, <1>3, <1>4, <1>5, <1>6, <1>7

LEMMA FrameTypes ==
    /\ \A p \in Players : /\ PrimaryFrame(p) \in StateFrames
                          /\ [kind |-> "queue", device |-> p] \in StateFrames
                          /\ [kind |-> "unregistered", device |-> p] \in StateFrames
    /\ \A p \in Players, t \in Tracks :
          [kind |-> "track", device |-> p, track |-> t] \in StateFrames
    /\ \A aim \in Players \cup {NoDevice} : [kind |-> "command", aim |-> aim] \in CommandFrames
    /\ \A p \in Players \cup {NoDevice}, entries \in Views :
          [kind |-> "devices", primary |-> p, devices |-> entries] \in Frames
BY DEF StateFrames, CommandFrames, SnapshotFrames, Frames, PrimaryFrame

\* What the head of a handler's list carries.
LEMMA HeadTypes ==
    ASSUME TypeOK, NEW d \in Peers, todo[d] # <<>>
    PROVE  LET m == Head(todo[d]) IN
           /\ m \in Commands
           /\ m.op \in {"list", "send"} => m.frame \in StateFrames \cup CommandFrames
           /\ m.op = "send" => /\ m \in [op : {"send"}, frame : StateFrames \cup CommandFrames,
                                         to : SUBSET Peers]
                               /\ m.to \subseteq Peers
           /\ m.op = "set" => m.device \in Players
           /\ m.op = "relay" => m.aim \in Players \cup {NoDevice}
           /\ m.op = "fetch" => /\ m \in [op : {"fetch"}, from : SUBSET Players]
                                /\ m.from \subseteq Players
<1>1. todo[d] \in Seq(Commands)
  BY DEF TypeOK
<1>2. Head(todo[d]) \in Commands
  BY <1>1
<1> QED
  BY <1>2 DEF Commands

LEMMA ListTypes ==
    ASSUME TypeOK, NEW d \in Peers, NEW i \in DOMAIN todo[d]
    PROVE  todo[d][i] \in Commands /\ (todo[d][i].op = "send" => todo[d][i].to \subseteq Peers)
<1>1. todo[d] \in Seq(Commands)
  BY DEF TypeOK
<1>2. todo[d][i] \in Commands
  BY <1>1
<1> QED
  BY <1>2 DEF Commands

\* What a client is sent.
LEMMA TakenTypes ==
    ASSUME NEW f \in Frames
    PROVE  /\ f.kind = "track" => f.device \in Players /\ f.track \in Entry
           /\ f.kind \in {"queue", "unregistered", "primary"} => f.device \in Players
           /\ f.kind = "devices" => f.primary \in Players \cup {NoDevice} /\ f.devices \in Views
BY DEF Frames, StateFrames, CommandFrames, SnapshotFrames, Entry

LEMMA EndProcessTypes ==
    ASSUME TypeOK, NEW d \in Peers, NEW state \in {"away", "up", "gone"}, EndProcess(d, state)
    PROVE  /\ conn' \in [Peers -> {"away", "up", "gone"}]
           /\ inbox' \in [Peers -> Seq(Frames)]
           /\ todo' \in [Peers -> Seq(Commands)]
           /\ crossed' \in BOOLEAN /\ omitted' \subseteq Controllers
<1>1. \A e \in Peers : todo[e] \in Seq(Commands)
  BY DEF TypeOK
<1>2. ASSUME NEW e \in Peers PROVE Without(todo[e], d) \in Seq(Commands)
  <2>1. \A i \in DOMAIN todo[e] : todo[e][i] \in Commands
    BY <1>1
  <2>2. ASSUME NEW m \in Commands, m.op = "send" PROVE [m EXCEPT !.to = @ \ {d}] \in Commands
    <3>1. m \in [op : {"send"}, frame : StateFrames \cup CommandFrames, to : SUBSET Peers]
      BY <2>2 DEF Commands
    <3>2. [m EXCEPT !.to = @ \ {d}]
             \in [op : {"send"}, frame : StateFrames \cup CommandFrames, to : SUBSET Peers]
      BY <3>1
    <3> QED
      BY <3>2 DEF Commands
  <2>3. Without(todo[e], d) \in [1 .. Len(todo[e]) -> Commands]
    BY <1>1, <2>1, <2>2 DEF Without
  <2> QED
    BY <1>1, <2>3, SeqDef
<1>3. todo' \in [Peers -> Seq(Commands)]
  BY <1>2, CommandTypes DEF EndProcess
<1> QED
  BY <1>3 DEF TypeOK, EndProcess

\* A sequence of one.
LEMMA OneCommand == ASSUME NEW m \in Commands PROVE <<m>> \in Seq(Commands)
OBVIOUS

LEMMA MoreCommands ==
    ASSUME NEW some \in Seq(Commands), NEW more \in Seq(Commands)
    PROVE  some \o more \in Seq(Commands)
OBVIOUS

LEMMA InitTypes == Init => TypeOK
<1> SUFFICES ASSUME Init PROVE TypeOK
  OBVIOUS
<1>1. <<>> \in Seq(Commands) /\ <<>> \in Seq(Frames)
  BY EmptySeq
<1>2. /\ conn \in [Peers -> {"away", "up", "gone"}] /\ primary \in Players \cup {NoDevice}
      /\ np \in [Players -> Entry] /\ playing \in [Players -> Entry]
  BY DEF Init, Entry
<1>3. /\ todo \in [Peers -> Seq(Commands)] /\ inbox \in [Peers -> Seq(Frames)]
      /\ seen \in [Controllers -> Views] /\ view \in [Controllers -> Views]
  BY <1>1, NoEntriesInViews DEF Init
<1>4. /\ active \in [Controllers -> Players \cup {NoDevice}]
      /\ joins \in [Controllers -> 0 .. MaxJoins] /\ picks \in [Controllers -> 0 .. MaxPicks]
      /\ expiries \in 0 .. MaxExpiries
  BY MirrorAssumption DEF Init
<1>5. crossed \in BOOLEAN /\ omitted \subseteq Controllers
  BY DEF Init
<1> QED
  BY <1>2, <1>3, <1>4, <1>5 DEF TypeOK

\* The steps that all connections have.
LEMMA ProceedKeepsTypes ==
    ASSUME TypeOK, NEW d \in Peers, Proceed(d) PROVE TypeOK'
<1>0. todo[d] # <<>> /\ Head(todo[d]) \in Commands
  BY HeadTypes DEF Proceed, List, SendTo, SendToNobody, SetPrimary, Run
<1>1. CASE List(d)
  <2> DEFINE frame == Head(todo[d]).frame
             to    == Audience(frame)
             m     == [op |-> "send", frame |-> frame, to |-> to]
  <2>1. frame \in StateFrames \cup CommandFrames
    BY <1>1, HeadTypes DEF List, Run
  <2>2. to \in SUBSET Peers
    BY DEF Audience, Peers
  <2>3. m \in Commands
    BY <2>1, <2>2, CommandTypes
  <2>4. \E commands \in Seq(Commands) : Replace(d, commands)
    <3>1. Replace(d, IF to = {} THEN <<>> ELSE <<m>>)
      BY <1>1 DEF List
    <3>2. (IF to = {} THEN <<>> ELSE <<m>>) \in Seq(Commands)
      <4> HIDE DEF m
      <4> QED
        BY <2>3, OneCommand, CommandTypes
    <3> QED
      BY <3>1, <3>2
  <2>5. todo' \in [Peers -> Seq(Commands)]
    BY <1>0, <2>4, ReplaceTypes
  <2> QED
    BY <1>1, <2>5 DEF List, TypeOK, clients, history, bounds
<1>2. ASSUME NEW r \in Peers, SendTo(d, r) PROVE TypeOK'
  <2> DEFINE send == Head(todo[d])
             rest == [send EXCEPT !.to = @ \ {r}]
  <2>1. send \in [op : {"send"}, frame : StateFrames \cup CommandFrames, to : SUBSET Peers]
    BY <1>0, <1>2, HeadTypes DEF SendTo, Run
  <2>2. rest \in Commands
    <3>1. rest \in [op : {"send"}, frame : StateFrames \cup CommandFrames, to : SUBSET Peers]
      BY <2>1
    <3> QED
      BY <3>1 DEF Commands
  <2>3. \E commands \in Seq(Commands) : Replace(d, commands)
    <3>1. Replace(d, IF send.to = {r} THEN <<>> ELSE <<rest>>)
      BY <1>2 DEF SendTo
    <3>2. (IF send.to = {r} THEN <<>> ELSE <<rest>>) \in Seq(Commands)
      <4> HIDE DEF rest
      <4> QED
        BY <2>2, OneCommand, CommandTypes
    <3> QED
      BY <3>1, <3>2
  <2>4. todo' \in [Peers -> Seq(Commands)]
    BY <1>0, <2>3, ReplaceTypes
  <2>5. inbox' \in [Peers -> Seq(Frames)]
    <3>1. send.frame \in Frames
      BY <2>1 DEF Frames
    <3>2. Append(inbox[r], send.frame) \in Seq(Frames)
      BY <3>1 DEF TypeOK
    <3> QED
      BY <1>2, <3>2 DEF SendTo, TypeOK
  <2> QED
    BY <1>2, <2>4, <2>5 DEF SendTo, TypeOK, clients, history, bounds
<1>3. CASE SendToNobody(d)
  <2>1. todo' \in [Peers -> Seq(Commands)]
    BY <1>0, <1>3, ReplaceTypes, CommandTypes DEF SendToNobody, Done
  <2> QED
    BY <1>3, <2>1 DEF SendToNobody, TypeOK, clients, history, bounds
<1>4. CASE SetPrimary(d)
  <2>1. Head(todo[d]).device \in Players
    BY <1>0, <1>4, HeadTypes DEF SetPrimary, Run
  <2>2. Tell(PrimaryFrame(Head(todo[d]).device)) \in Seq(Commands)
    BY <2>1, FrameTypes, CommandTypes
  <2>3. todo' \in [Peers -> Seq(Commands)]
    BY <1>0, <1>4, <2>2, ReplaceTypes DEF SetPrimary
  <2>4. crossed' \in BOOLEAN /\ omitted' \subseteq Controllers
    BY <1>4 DEF SetPrimary
  <2> QED
    BY <1>4, <2>1, <2>3, <2>4 DEF SetPrimary, TypeOK, clients, bounds
<1> QED
  BY <1>1, <1>2, <1>3, <1>4 DEF Proceed

\* What players do.
LEMMA PlayerKeepsTypes ==
    ASSUME TypeOK, NEW p \in Players, PlayerStep(p) \/ PlayerProceed(p) PROVE TypeOK'
<1> USE DEF TypeOK, clients, history, bounds, Entry
<1>0. p \in Peers /\ MaxExpiries \in Nat
  BY MirrorAssumption DEF Peers
<1>1. CASE PlayerRegister(p)
  BY <1>1 DEF PlayerRegister
<1>2. ASSUME NEW t \in Tracks, PushTrack(p, t) PROVE TypeOK'
  <2>1. <<[op |-> "ensure"]>> \in Seq(Commands)
    BY CommandTypes, OneCommand
  <2>2. Tell([kind |-> "track", device |-> p, track |-> t]) \in Seq(Commands)
    BY CommandTypes, FrameTypes
  <2>3. <<[op |-> "ensure"]>> \o Tell([kind |-> "track", device |-> p, track |-> t]) \in Seq(Commands)
    BY <2>1, <2>2, MoreCommands
  <2>4. todo' \in [Peers -> Seq(Commands)]
    BY <1>0, <1>2, <2>3, BeginTypes DEF PushTrack
  <2> QED
    BY <1>2, <2>4 DEF PushTrack
<1>3. CASE PushQueue(p)
  <2>1. todo' \in [Peers -> Seq(Commands)]
    BY <1>0, <1>3, CommandTypes, FrameTypes, BeginTypes DEF PushQueue
  <2> QED
    BY <1>3, <2>1 DEF PushQueue
<1>4. CASE PlayerLeave(p)
  <2>1. <<[op |-> "forget"], [op |-> "leave"], [op |-> "die"]>> \in Seq(Commands)
    <3>1. [op |-> "forget"] \in Commands /\ [op |-> "leave"] \in Commands /\ [op |-> "die"] \in Commands
      BY CommandTypes
    <3> QED
      BY <3>1
  <2>2. Tell([kind |-> "unregistered", device |-> p]) \in Seq(Commands)
    BY CommandTypes, FrameTypes
  <2>3. Tell([kind |-> "unregistered", device |-> p])
            \o <<[op |-> "forget"], [op |-> "leave"], [op |-> "die"]>> \in Seq(Commands)
    BY <2>1, <2>2, MoreCommands
  <2>4. todo' \in [Peers -> Seq(Commands)]
    BY <1>0, <1>4, <2>3, BeginTypes DEF PlayerLeave
  <2> QED
    BY <1>4, <2>4 DEF PlayerLeave
<1>5. CASE Expire(p)
  BY <1>0, <1>5 DEF Expire
<1>6. CASE EnsurePrimary(p)
  <2>1. <<[op |-> "set", device |-> p]>> \in Seq(Commands)
    BY CommandTypes, OneCommand
  <2>2. todo' \in [Peers -> Seq(Commands)]
    BY <1>0, <1>6, <2>1, CommandTypes, ReplaceTypes DEF EnsurePrimary, Done, Run
  <2> QED
    BY <1>6, <2>2 DEF EnsurePrimary
<1>7. CASE Forget(p)
  <2>1. todo' \in [Peers -> Seq(Commands)]
    BY <1>0, <1>7, CommandTypes, ReplaceTypes DEF Forget, Done, Run
  <2> QED
    BY <1>7, <2>1 DEF Forget
<1>8. CASE LeavePrimary(p)
  <2>1. <<[op |-> "clear"]>> \in Seq(Commands)
    BY CommandTypes, OneCommand
  <2>2. todo' \in [Peers -> Seq(Commands)]
    BY <1>0, <1>8, <2>1, CommandTypes, ReplaceTypes DEF LeavePrimary, Run
  <2> QED
    BY <1>8, <2>2 DEF LeavePrimary
<1>9. CASE ClearPrimary(p)
  <2>1. todo' \in [Peers -> Seq(Commands)]
    BY <1>0, <1>9, CommandTypes, ReplaceTypes DEF ClearPrimary, Done, Run
  <2> QED
    BY <1>9, <2>1 DEF ClearPrimary
<1>10. CASE Die(p)
  BY <1>0, <1>10, EndProcessTypes DEF Die
<1>11. CASE Execute(p)
  BY <1>0, <1>11 DEF Execute
<1> QED
  BY <1>0, <1>1, <1>2, <1>3, <1>4, <1>5, <1>6, <1>7, <1>8, <1>9, <1>10, <1>11, ProceedKeepsTypes
     DEF PlayerStep, PlayerProceed

\* What controllers do.
LEMMA ControllerKeepsTypes ==
    ASSUME TypeOK, NEW c \in Controllers,
           Join(c) \/ ControllerStep(c) \/ ControllerProceed(c) \/ Take(c)
    PROVE  TypeOK'
<1> USE DEF TypeOK, clients, history, bounds
<1>0. c \in Peers /\ MaxJoins \in Nat /\ MaxPicks \in Nat
  BY MirrorAssumption DEF Peers
<1>1. CASE Join(c)
  <2>1. <<[op |-> "read"]>> \in Seq(Commands)
    BY CommandTypes, OneCommand
  <2>2. todo' \in [Peers -> Seq(Commands)]
    BY <1>0, <1>1, <2>1, BeginTypes DEF Join
  <2>3. joins' \in [Controllers -> 0 .. MaxJoins] /\ conn' \in [Peers -> {"away", "up", "gone"}]
    BY <1>0, <1>1 DEF Join
  <2> QED
    BY <1>1, <2>2, <2>3 DEF Join
<1>2. CASE Drop(c)
  BY <1>0, <1>2, EndProcessTypes, NoEntriesInViews DEF Drop
<1>3. CASE Press(c)
  <2>1. <<[op |-> "relay", aim |-> active[c]]>> \in Seq(Commands)
    BY CommandTypes, OneCommand
  <2>2. todo' \in [Peers -> Seq(Commands)]
    BY <1>0, <1>3, <2>1, BeginTypes DEF Press
  <2> QED
    BY <1>0, <1>3, <2>2 DEF Press
<1>4. ASSUME NEW p \in Players, Pick(c, p) PROVE TypeOK'
  <2>1. <<[op |-> "set", device |-> p]>> \in Seq(Commands)
    BY CommandTypes, OneCommand
  <2>2. todo' \in [Peers -> Seq(Commands)]
    <3>1. CASE conn[c] = "up"
      <4>1. Begin(c, <<[op |-> "set", device |-> p]>>)
        BY <1>4, <3>1 DEF Pick
      <4> QED
        BY <1>0, <2>1, <4>1, BeginTypes
    <3>2. CASE conn[c] # "up"
      BY <1>4, <3>2 DEF Pick
    <3> QED
      BY <3>1, <3>2
  <2>3. active' \in [Controllers -> Players \cup {NoDevice}] /\ picks' \in [Controllers -> 0 .. MaxPicks]
    BY <1>0, <1>4 DEF Pick
  <2>4. UNCHANGED <<conn, primary, np, playing, inbox, seen, view, history, joins, expiries>>
    BY <1>4 DEF Pick
  <2> QED
    BY <2>2, <2>3, <2>4
<1>5. CASE ReadMetas(c)
  <2> DEFINE from == {p \in Players : conn[p] = "up"}
  <2>1. <<[op |-> "fetch", from |-> from], [op |-> "reply"]>> \in Seq(Commands)
    <3>1. [op |-> "fetch", from |-> from] \in Commands /\ [op |-> "reply"] \in Commands
      BY CommandTypes
    <3> QED
      BY <3>1
  <2>2. todo' \in [Peers -> Seq(Commands)]
    BY <1>0, <1>5, <2>1, ReplaceTypes DEF ReadMetas, Run
  <2> QED
    BY <1>5, <2>2, NoEntriesInViews DEF ReadMetas
<1>6. CASE Reply(c)
  <2> DEFINE f == [kind |-> "devices", primary |-> primary, devices |-> seen[c]]
  <2>1. f \in Frames
    BY FrameTypes
  <2> HIDE DEF f
  <2>2. <<f>> \o inbox[c] \in Seq(Frames)
    BY <1>0, <2>1
  <2>3. inbox' \in [Peers -> Seq(Frames)]
    BY <1>0, <1>6, <2>2 DEF Reply, f
  <2>4. todo' \in [Peers -> Seq(Commands)]
    BY <1>0, <1>6, CommandTypes, BeginTypes DEF Reply
  <2> QED
    BY <1>6, <2>3, <2>4, NoEntriesInViews DEF Reply
<1>7. CASE Relay(c)
  <2> DEFINE aim   == Head(todo[c]).aim
             frame == [kind |-> "command", aim |-> aim]
  <2>1. aim \in Players \cup {NoDevice}
    BY <1>0, <1>7, HeadTypes DEF Relay, Run
  <2>2. frame \in CommandFrames
    BY <2>1, FrameTypes
  <2>3. aim # NoDevice => [op |-> "send", frame |-> frame, to |-> {aim}] \in Commands
    <3>1. aim # NoDevice => {aim} \in SUBSET Peers
      BY <2>1 DEF Peers
    <3> QED
      BY <2>2, <3>1, CommandTypes
  <2>4. Tell(frame) \in Seq(Commands)
    BY <2>2, CommandTypes
  <2>5. \E commands \in Seq(Commands) : Replace(c, commands)
    <3>1. CASE aim # NoDevice /\ conn[aim] = "up"
      <4>1. <<[op |-> "send", frame |-> frame, to |-> {aim}]>> \in Seq(Commands)
        BY <2>3, <3>1, OneCommand
      <4> QED
        BY <1>7, <3>1, <4>1 DEF Relay
    <3>2. CASE ~(aim # NoDevice /\ conn[aim] = "up")
      BY <1>7, <2>4, <3>2 DEF Relay
    <3> QED
      BY <3>1, <3>2
  <2>6. todo' \in [Peers -> Seq(Commands)]
    BY <1>0, <1>7, <2>5, ReplaceTypes DEF Relay, Run
  <2> QED
    BY <1>7, <2>6 DEF Relay
<1>8. ASSUME NEW p \in Players, FetchNowPlaying(c, p) PROVE TypeOK'
  <2> DEFINE fetch == Head(todo[c])
             rest  == [fetch EXCEPT !.from = @ \ {p}]
  <2>1. fetch \in [op : {"fetch"}, from : SUBSET Players]
    BY <1>0, <1>8, HeadTypes DEF FetchNowPlaying, Run
  <2>2. rest \in Commands
    <3>1. rest \in [op : {"fetch"}, from : SUBSET Players]
      BY <2>1
    <3> QED
      BY <3>1 DEF Commands
  <2>3. todo' \in [Peers -> Seq(Commands)]
    <3>1. Replace(c, <<rest>>) /\ todo[c] # <<>>
      BY <1>8 DEF FetchNowPlaying, Run
    <3> HIDE DEF rest
    <3> QED
      BY <1>0, <2>2, <3>1, OneCommand, ReplaceTypes
  <2>4. seen' \in [Controllers -> Views]
    BY <1>8, PutInViews DEF FetchNowPlaying
  <2> QED
    BY <1>8, <2>3, <2>4 DEF FetchNowPlaying
<1>9. CASE Take(c)
  <2> DEFINE f == Head(inbox[c])
  <2>1. f \in Frames /\ inbox' \in [Peers -> Seq(Frames)]
    BY <1>0, <1>9 DEF Take, Receiving
  <2>2. TakeSnapshot(c, f) \/ TakeTrack(c, f) \/ TakeQueue(c, f)
            \/ TakeUnregistered(c, f) \/ TakePrimary(c, f)
    BY <1>9 DEF Take
  <2> HIDE DEF f
  <2>3. view' \in [Controllers -> Views]
    <3>1. ASSUME TakeSnapshot(c, f) \/ TakePrimary(c, f) PROVE view' \in [Controllers -> Views]
      BY <2>1, <3>1, TakenTypes DEF TakeSnapshot, TakePrimary
    <3>2. ASSUME TakeTrack(c, f) \/ TakeQueue(c, f)
          PROVE  \/ view' = view
                 \/ \E t \in Entry : view' = [view EXCEPT ![c] = Put(@, f.device, t)]
      BY <2>1, <3>2, TakenTypes DEF TakeTrack, TakeQueue, Entry
    <3>3. ASSUME TakeTrack(c, f) \/ TakeQueue(c, f) PROVE view' \in [Controllers -> Views]
      <4>1. f.device \in Players
        BY <2>1, <3>3, TakenTypes DEF TakeTrack, TakeQueue
      <4>2. \A t \in Entry : Put(view[c], f.device, t) \in Views
        BY <4>1, PutInViews
      <4> QED
        BY <3>2, <3>3, <4>2
    <3>4. ASSUME TakeUnregistered(c, f) PROVE view' \in [Controllers -> Views]
      <4>1. [q \in DOMAIN view[c] \ {f.device} |-> view[c][q]] \in Views
        BY WithoutInViews
      <4> QED
        BY <3>4, <4>1 DEF TakeUnregistered
    <3> QED
      BY <2>2, <3>1, <3>3, <3>4
  <2>4. active' \in [Controllers -> Players \cup {NoDevice}]
    <3>1. f.kind = "devices" => DOMAIN f.devices \subseteq Players
      BY <2>1, TakenTypes, EntriesOfPlayers
    <3> QED
      BY <2>1, <2>2, <3>1, TakenTypes
         DEF TakeSnapshot, TakeTrack, TakeQueue, TakeUnregistered, TakePrimary
  <2> QED
    BY <1>9, <2>1, <2>3, <2>4 DEF Take
<1> QED
  BY <1>0, <1>1, <1>2, <1>3, <1>4, <1>5, <1>6, <1>7, <1>8, <1>9, ProceedKeepsTypes
     DEF ControllerStep, ControllerProceed

LEMMA StepTypes == ASSUME TypeOK, [Next]_vars PROVE TypeOK'
<1>1. CASE UNCHANGED vars
  BY <1>1 DEF vars, clients, history, bounds, TypeOK
<1> QED
  BY <1>1, PlayerKeepsTypes, ControllerKeepsTypes DEF Next

\* Whatever is on its way to a client is a frame it knows, and its list is of the
\* user's players.
THEOREM MirrorTypeCorrect == Safety => []TypeOK
BY InitTypes, StepTypes, PTL DEF Safety

-----------------------------------------------------------------------------
(* The invariant of the views.                                              *)

\* The player's connection is in its terminate.
Leaving(p) == \E i \in DOMAIN todo[p] : todo[p][i].op = "die"

\* The controller's connection has a snapshot to read.
Reading(c) == todo[c] # <<>> /\ todo[c][1].op \in {"read", "fetch"}

Tells(m, kind) == m.op \in {"list", "send"} /\ m.frame.kind = kind

\* A connection tells of its own device only, and of the track it pushed last; what
\* it sends goes to connections that are there; and it forgets when it leaves.
Honest(d, m) ==
    /\ \A kind \in {"track", "queue", "unregistered"} :
          Tells(m, kind) => d \in Players /\ m.frame.device = d
    /\ Tells(m, "track") => m.frame.track = playing[d]
    /\ m.op = "send" => \A r \in m.to : conn[r] = "up"
    /\ m.op \in {"forget", "leave", "clear"} \/ Tells(m, "unregistered") => Leaving(d)

\* A controller's handler is at one command, but for a snapshot, which has two.
AtOnce(c) ==
    \/ todo[c] = <<>>
    \/ Len(todo[c]) = 1 /\ todo[c][1].op \in {"read", "set", "list", "send", "relay"}
    \/ Len(todo[c]) = 2 /\ todo[c][1].op = "fetch" /\ todo[c][2].op = "reply"

\* A snapshot is before all else, and who is unregistered is gone or going.
InOrder(c, i) ==
    /\ inbox[c][i].kind = "devices" => i = 1 /\ ~Reading(c)
    /\ inbox[c][i].kind = "unregistered" =>
          conn[inbox[c][i].device] = "gone" \/ Leaving(inbox[c][i].device)

Absent ==
    /\ \A d \in Peers : conn[d] # "up" => todo[d] = <<>>
    /\ \A p \in Players : conn[p] = "away" => np[p] = NoTrack
    /\ \A c \in Controllers : conn[c] # "up" => inbox[c] = <<>>

Cached == \A p \in Players : np[p] \in {NoTrack, playing[p]}

\* What the entries say of p is what it pushed last.
Knows(entries, p) == p \in DOMAIN entries /\ entries[p] = playing[p]

About(f, p) == f.kind = "track" /\ f.device = p

\* The last track of p is still to be sent to c, ...
Announcing(p, c) ==
    \E i \in DOMAIN todo[p] :
        /\ Tells(todo[p][i], "track")
        /\ todo[p][i].op = "send" => c \in todo[p][i].to

\* ... or is the last of p's on the way to it, ...
Arriving(p, c) ==
    \E i \in DOMAIN inbox[c] :
        /\ About(inbox[c][i], p) /\ inbox[c][i].track = playing[p]
        /\ \A j \in DOMAIN inbox[c] : j > i => ~About(inbox[c][j], p)

\* ... or there is none on the way, and what c reads, is sent or shows has it.
Settled(p, c) ==
    /\ \A j \in DOMAIN inbox[c] : ~About(inbox[c][j], p)
    /\ IF Reading(c)
       THEN todo[c][1].op = "fetch" => p \in todo[c][1].from \/ Knows(seen[c], p)
       ELSE IF inbox[c] # <<>> /\ inbox[c][1].kind = "devices"
            THEN Knows(inbox[c][1].devices, p)
            ELSE Knows(view[c], p)

Here(p, c) == conn[c] = "up" /\ conn[p] = "up" /\ ~Leaving(p) /\ np[p] # NoTrack

Told(p, c) == Announcing(p, c) \/ Arriving(p, c) \/ Settled(p, c)

ToldInv ==
    /\ \A d \in Peers : \A i \in DOMAIN todo[d] : Honest(d, todo[d][i])
    /\ \A c \in Controllers : AtOnce(c) /\ \A i \in DOMAIN inbox[c] : InOrder(c, i)
    /\ Absent /\ Cached
    /\ \A p \in Players, c \in Controllers : Here(p, c) => Told(p, c)

-----------------------------------------------------------------------------
\* What is left of a sequence without its first element.
LEMMA TailFacts ==
    ASSUME NEW S, NEW s \in Seq(S), s # <<>>
    PROVE  /\ Tail(s) \in Seq(S)
           /\ \A j \in DOMAIN Tail(s) : j + 1 \in DOMAIN s /\ j + 1 # 1 /\ Tail(s)[j] = s[j + 1]
           /\ \A j \in DOMAIN s : j # 1 => j - 1 \in DOMAIN Tail(s) /\ Tail(s)[j - 1] = s[j]
           /\ Len(s) = 1 => Tail(s) = <<>>
<1>1. /\ Tail(s) \in Seq(S) /\ Len(Tail(s)) = Len(s) - 1 /\ Len(s) \in Nat \ {0}
      /\ \A j \in 1 .. Len(s) - 1 : Tail(s)[j] = s[j + 1]
  OBVIOUS
<1>2. DOMAIN Tail(s) = 1 .. Len(s) - 1 /\ DOMAIN s = 1 .. Len(s)
  BY <1>1
<1>3. \A t \in Seq(S) : Len(t) = 0 => t = <<>>
  OBVIOUS
<1> QED
  BY <1>1, <1>2, <1>3

\* One sequence after the other.
LEMMA ConcatFacts ==
    ASSUME NEW S, NEW s \in Seq(S), NEW t \in Seq(S)
    PROVE  /\ \A i \in DOMAIN (s \o t) :
                 \/ i \in DOMAIN s /\ (s \o t)[i] = s[i]
                 \/ i - Len(s) \in DOMAIN t /\ (s \o t)[i] = t[i - Len(s)]
           /\ \A k \in DOMAIN s : k \in DOMAIN (s \o t) /\ (s \o t)[k] = s[k]
           /\ \A j \in DOMAIN t : /\ Len(s) + j \in DOMAIN (s \o t)
                                  /\ (s \o t)[Len(s) + j] = t[j]
           /\ t = <<>> => s \o t = s
<1> DEFINE u == s \o t
<1>1. /\ Len(u) = Len(s) + Len(t) /\ u \in Seq(S)
      /\ \A i \in 1 .. Len(s) + Len(t) : u[i] = IF i <= Len(s) THEN s[i] ELSE t[i - Len(s)]
  BY ConcatProperties
<1>2. t = <<>> => u = s
  BY ConcatEmptySeq
<1> HIDE DEF u
<1>3. /\ Len(s) \in Nat /\ DOMAIN s = 1 .. Len(s) /\ Len(t) \in Nat /\ DOMAIN t = 1 .. Len(t)
      /\ DOMAIN u = 1 .. Len(s) + Len(t)
  BY <1>1
<1>4. ASSUME NEW i \in DOMAIN u
      PROVE  \/ i \in DOMAIN s /\ u[i] = s[i]
             \/ i - Len(s) \in DOMAIN t /\ u[i] = t[i - Len(s)]
  BY <1>1, <1>3
<1>5. \A k \in DOMAIN s : k \in DOMAIN u /\ u[k] = s[k]
  BY <1>1, <1>3
<1>6. ASSUME NEW j \in DOMAIN t PROVE Len(s) + j \in DOMAIN u /\ u[Len(s) + j] = t[j]
  <2>1. /\ Len(s) + j \in 1 .. Len(s) + Len(t) /\ ~(Len(s) + j <= Len(s))
        /\ Len(s) + j - Len(s) = j
    BY <1>3
  <2> QED
    BY <1>1, <1>3, <2>1
<1> QED
  BY <1>2, <1>4, <1>5, <1>6 DEF u

\* What becomes of d's list when commands take the place of its first one.
LEMMA ReplaceFacts ==
    ASSUME TypeOK, NEW d \in Peers, todo[d] # <<>>,
           NEW commands \in Seq(Commands), Replace(d, commands)
    PROVE  /\ 1 \in DOMAIN todo[d] /\ todo[d][1] = Head(todo[d])
           /\ \A e \in Peers : e # d => todo'[e] = todo[e]
           /\ \A i \in DOMAIN todo'[d] :
                 \/ i \in DOMAIN commands /\ todo'[d][i] = commands[i]
                 \/ \E j \in DOMAIN todo[d] : j # 1 /\ todo'[d][i] = todo[d][j]
           /\ \A k \in DOMAIN commands : k \in DOMAIN todo'[d] /\ todo'[d][k] = commands[k]
           /\ \A j \in DOMAIN todo[d] :
                 j # 1 => \E i \in DOMAIN todo'[d] : todo'[d][i] = todo[d][j]
           /\ Len(todo[d]) = 1 => todo'[d] = commands
<1> DEFINE rest == Tail(todo[d])
<1>1. /\ todo \in [Peers -> Seq(Commands)] /\ todo[d] \in Seq(Commands)
      /\ 1 \in DOMAIN todo[d] /\ todo[d][1] = Head(todo[d])
  BY DEF TypeOK
<1>2. /\ rest \in Seq(Commands)
      /\ \A j \in DOMAIN rest : j + 1 \in DOMAIN todo[d] /\ j + 1 # 1 /\ rest[j] = todo[d][j + 1]
      /\ \A j \in DOMAIN todo[d] : j # 1 => j - 1 \in DOMAIN rest /\ rest[j - 1] = todo[d][j]
      /\ Len(todo[d]) = 1 => rest = <<>>
  BY <1>1, TailFacts
<1>3. todo'[d] = commands \o rest /\ \A e \in Peers : e # d => todo'[e] = todo[e]
  BY <1>1 DEF Replace
<1> HIDE DEF rest
<1> DEFINE all == commands \o rest
<1>4. /\ \A i \in DOMAIN all : \/ i \in DOMAIN commands /\ all[i] = commands[i]
                               \/ i - Len(commands) \in DOMAIN rest /\ all[i] = rest[i - Len(commands)]
      /\ \A k \in DOMAIN commands : k \in DOMAIN all /\ all[k] = commands[k]
      /\ \A j \in DOMAIN rest : Len(commands) + j \in DOMAIN all /\ all[Len(commands) + j] = rest[j]
      /\ rest = <<>> => all = commands
  BY <1>2, ConcatFacts
<1> HIDE DEF all
<1>5. ASSUME NEW i \in DOMAIN all
      PROVE  \/ i \in DOMAIN commands /\ all[i] = commands[i]
             \/ \E j \in DOMAIN todo[d] : j # 1 /\ all[i] = todo[d][j]
  <2>1. CASE i \in DOMAIN commands /\ all[i] = commands[i]
    BY <2>1
  <2>2. CASE i - Len(commands) \in DOMAIN rest /\ all[i] = rest[i - Len(commands)]
    BY <1>2, <2>2
  <2> QED
    BY <1>4, <2>1, <2>2
<1>6. \A j \in DOMAIN todo[d] :
         j # 1 => \E i \in DOMAIN todo'[d] : todo'[d][i] = todo[d][j]
  <2> SUFFICES ASSUME NEW j \in DOMAIN todo[d], j # 1
               PROVE  \E i \in DOMAIN todo'[d] : todo'[d][i] = todo[d][j]
    OBVIOUS
  <2>1. j - 1 \in DOMAIN rest /\ rest[j - 1] = todo[d][j]
    BY <1>2
  <2>2. Len(commands) + (j - 1) \in DOMAIN todo'[d] /\ todo'[d][Len(commands) + (j - 1)] = rest[j - 1]
    BY <1>3, <1>4, <2>1 DEF all
  <2> QED
    BY <2>1, <2>2
<1>7. todo'[d] = all /\ \A e \in Peers : e # d => todo'[e] = todo[e]
  BY <1>3 DEF all
<1>8. /\ \A k \in DOMAIN commands : k \in DOMAIN todo'[d] /\ todo'[d][k] = commands[k]
      /\ Len(todo[d]) = 1 => todo'[d] = commands
  BY <1>2, <1>4, <1>7
<1>9. \A i \in DOMAIN todo'[d] :
         \/ i \in DOMAIN commands /\ todo'[d][i] = commands[i]
         \/ \E j \in DOMAIN todo[d] : j # 1 /\ todo'[d][i] = todo[d][j]
  BY <1>5, <1>7
<1> QED
  BY <1>1, <1>6, <1>7, <1>8, <1>9

\* A message that brings a track of its connection's player to c.
Heralds(m, c) == Tells(m, "track") /\ (m.op = "send" => c \in m.to)

\* A handler that goes on with its list, and sends nothing.
LEMMA WorkOnKeepsTold ==
    ASSUME TypeOK, ToldInv, NEW d \in Peers, todo[d] # <<>>,
           NEW commands \in Seq(Commands), Len(commands) <= 1, Replace(d, commands),
           conn' = conn, playing' = playing, inbox' = inbox, seen' = seen, view' = view,
           \A p \in Players : np'[p] \in {NoTrack, np[p]},
           Head(todo[d]).op \notin {"die", "read", "fetch", "reply"},
           \A k \in DOMAIN commands :
              /\ Honest(d, commands[k])
              /\ d \in Controllers => commands[k].op \in {"set", "list", "send", "relay"},
           \A c \in Controllers : conn[c] = "up" /\ Heralds(Head(todo[d]), c) =>
              commands # <<>> /\ Heralds(commands[1], c)
    PROVE  ToldInv'
<1>0. /\ todo \in [Peers -> Seq(Commands)] /\ Controllers \subseteq Peers /\ Players \subseteq Peers
      /\ conn[d] = "up" /\ (commands # <<>> => 1 \in DOMAIN commands)
  BY DEF TypeOK, Peers, ToldInv, Absent
<1>1. /\ 1 \in DOMAIN todo[d] /\ todo[d][1] = Head(todo[d])
      /\ \A e \in Peers : e # d => todo'[e] = todo[e]
      /\ \A i \in DOMAIN todo'[d] :
            \/ \E k \in DOMAIN commands : todo'[d][i] = commands[k]
            \/ \E j \in DOMAIN todo[d] : j # 1 /\ todo'[d][i] = todo[d][j]
      /\ \A k \in DOMAIN commands : k \in DOMAIN todo'[d] /\ todo'[d][k] = commands[k]
      /\ \A j \in DOMAIN todo[d] :
            j # 1 => \E i \in DOMAIN todo'[d] : todo'[d][i] = todo[d][j]
      /\ Len(todo[d]) = 1 => todo'[d] = commands
  BY ReplaceFacts
<1>2. \A e \in Peers : Leaving(e) => Leaving(e)'
  BY <1>1 DEF Leaving
<1>3. \A e \in Peers : \A i \in DOMAIN todo'[e] : Honest(e, todo[e][i])'
  <2> SUFFICES ASSUME NEW e \in Peers, NEW i \in DOMAIN todo'[e] PROVE Honest(e, todo[e][i])'
    OBVIOUS
  <2>1. PICK m : m = todo'[e][i] /\ Honest(e, m)
    BY <1>1 DEF ToldInv
  <2> QED
    BY <1>2, <2>1 DEF Honest, Tells
<1>4. ASSUME NEW c \in Controllers
      PROVE  AtOnce(c)' /\ (Reading(c)' <=> Reading(c)) /\ (Reading(c) => todo'[c] = todo[c])
  <2>1. CASE c # d
    BY <1>0, <1>1, <2>1 DEF ToldInv, AtOnce, Reading
  <2>2. CASE c = d
    <3>1. Len(todo[d]) = 1
      BY <1>1, <2>2 DEF ToldInv, AtOnce
    <3>2. ~Reading(c)
      BY <1>1, <2>2 DEF Reading
    <3>3. todo'[d] = commands
      BY <1>1, <3>1
    <3>4. AtOnce(c)' /\ ~Reading(c)'
      <4>1. CASE commands = <<>>
        BY <2>2, <3>3, <4>1 DEF AtOnce, Reading
      <4>2. CASE commands # <<>>
        <5>1. 1 \in DOMAIN commands
          BY <1>0, <4>2
        <5>2. commands[1].op \in {"set", "list", "send", "relay"}
          BY <2>2, <5>1
        <5>3. Len(commands) = 1
          <6>1. commands \in Seq(Commands) /\ Len(commands) <= 1
            OBVIOUS
          <6>2. Len(commands) \in Nat /\ DOMAIN commands = 1 .. Len(commands)
            BY <6>1, LenProperties
          <6> QED
            BY <5>1, <6>1, <6>2
        <5> QED
          BY <2>2, <3>3, <4>2, <5>2, <5>3 DEF AtOnce, Reading
      <4> QED
        BY <4>1, <4>2
    <3> QED
      BY <3>2, <3>4
  <2> QED
    BY <2>1, <2>2
<1>5. \A c \in Controllers : \A i \in DOMAIN inbox'[c] : InOrder(c, i)'
  <2> SUFFICES ASSUME NEW c \in Controllers, NEW i \in DOMAIN inbox[c] PROVE InOrder(c, i)'
    OBVIOUS
  <2>1. InOrder(c, i)
    BY DEF ToldInv
  <2>2. inbox[c][i].kind = "unregistered" => inbox[c][i].device \in Players
    BY <1>0, TakenTypes DEF TypeOK
  <2> QED
    BY <1>0, <1>2, <1>4, <2>1, <2>2 DEF InOrder
<1>6. Absent' /\ Cached'
  <2>1. \A e \in Peers : conn[e] # "up" => todo'[e] = <<>>
    BY <1>0, <1>1 DEF ToldInv, Absent
  <2>2. Absent'
    BY <2>1 DEF ToldInv, Absent
  <2> QED
    BY <2>2 DEF ToldInv, Cached
<1>7. ASSUME NEW p \in Players, NEW c \in Controllers, Here(p, c)' PROVE Told(p, c)'
  <2>1. Here(p, c)
    BY <1>0, <1>2, <1>7 DEF Here
  <2>2. CASE Announcing(p, c)
    <3>1. PICK i \in DOMAIN todo[p] : Heralds(todo[p][i], c)
      BY <2>2 DEF Announcing, Heralds
    <3>2. \E j \in DOMAIN todo'[p] : Heralds(todo'[p][j], c)
      <4>1. CASE p # d
        BY <1>0, <1>1, <3>1, <4>1
      <4>2. CASE p = d /\ i # 1
        BY <1>1, <3>1, <4>2
      <4>3. CASE p = d /\ i = 1
        BY <1>0, <1>1, <2>1, <3>1, <4>3 DEF Here
      <4> QED
        BY <4>1, <4>2, <4>3
    <3>3. Announcing(p, c)'
      BY <3>2 DEF Announcing, Heralds, Tells
    <3> QED
      BY <3>3 DEF Told
  <2>3. CASE Arriving(p, c)
    BY <2>3 DEF Told, Arriving, About
  <2>4. CASE Settled(p, c)
    <3>1. Settled(p, c)'
      BY <1>4, <2>4 DEF Settled, About, Knows
    <3> QED
      BY <3>1 DEF Told
  <2> QED
    BY <2>1, <2>2, <2>3, <2>4 DEF ToldInv, Told
<1> QED
  BY <1>3, <1>4, <1>5, <1>6, <1>7 DEF ToldInv

\* The next command of a handler is an honest one, of a connection that is there.
LEMMA HeadHonest ==
    ASSUME TypeOK, ToldInv, NEW d \in Peers, todo[d] # <<>>
    PROVE  /\ 1 \in DOMAIN todo[d] /\ todo[d][1] = Head(todo[d])
           /\ Honest(d, Head(todo[d])) /\ conn[d] = "up"
<1>1. 1 \in DOMAIN todo[d] /\ todo[d][1] = Head(todo[d])
  BY DEF TypeOK
<1> QED
  BY <1>1 DEF ToldInv, Absent

\* It is done and brought no track ...
LEMMA DoneKeepsTold ==
    ASSUME TypeOK, ToldInv, NEW d \in Peers, todo[d] # <<>>, Done(d),
           conn' = conn, playing' = playing, inbox' = inbox, seen' = seen, view' = view,
           \A p \in Players : np'[p] \in {NoTrack, np[p]},
           Head(todo[d]).op \notin {"die", "read", "fetch", "reply"},
           \A c \in Controllers : conn[c] = "up" => ~Heralds(Head(todo[d]), c)
    PROVE  ToldInv'
<1>1. <<>> \in Seq(Commands) /\ Len(<<>>) <= 1 /\ DOMAIN <<>> = {}
  BY EmptySeq
<1>2. Replace(d, <<>>)
  BY DEF Done
<1> QED
  BY <1>1, <1>2, WorkOnKeepsTold

\* ... or another command takes its place, and brings the track if it did.
LEMMA NextKeepsTold ==
    ASSUME TypeOK, ToldInv, NEW d \in Peers, todo[d] # <<>>,
           NEW m \in Commands, Replace(d, <<m>>), Honest(d, m),
           conn' = conn, playing' = playing, inbox' = inbox, seen' = seen, view' = view, np' = np,
           Head(todo[d]).op \notin {"die", "read", "fetch", "reply"},
           d \in Controllers => m.op \in {"set", "list", "send", "relay"},
           \A c \in Controllers : conn[c] = "up" /\ Heralds(Head(todo[d]), c) => Heralds(m, c)
    PROVE  ToldInv'
<1> DEFINE commands == <<m>>
<1>1. /\ commands \in Seq(Commands) /\ Len(commands) <= 1 /\ commands # <<>>
      /\ DOMAIN commands = {1} /\ commands[1] = m
  OBVIOUS
<1>2. \A p \in Players : np'[p] \in {NoTrack, np[p]}
  OBVIOUS
<1>3. Replace(d, commands)
  OBVIOUS
<1> HIDE DEF commands
<1> QED
  BY <1>1, <1>2, <1>3, WorkOnKeepsTold

LEMMA ListKeepsTold ==
    ASSUME TypeOK, ToldInv, NEW d \in Peers, List(d) PROVE ToldInv'
<1> DEFINE frame == Head(todo[d]).frame
           to    == Audience(frame)
           m     == [op |-> "send", frame |-> frame, to |-> to]
<1>1. /\ todo[d] # <<>> /\ Head(todo[d]).op = "list"
      /\ Replace(d, IF to = {} THEN <<>> ELSE <<m>>)
      /\ conn' = conn /\ playing' = playing /\ inbox' = inbox /\ seen' = seen /\ view' = view
      /\ np' = np
  BY DEF List, Run, clients
<1>2. frame \in StateFrames \cup CommandFrames /\ to \in SUBSET Peers
  BY <1>1, HeadTypes DEF Audience, Peers
<1>3. \A c \in Controllers : conn[c] = "up" /\ Heralds(Head(todo[d]), c) => c \in to
  BY DEF Heralds, Tells, Audience
<1>4. CASE to = {}
  <2>1. \A c \in Controllers : conn[c] = "up" => ~Heralds(Head(todo[d]), c)
    BY <1>3, <1>4
  <2> QED
    BY <1>1, <1>4, <2>1, DoneKeepsTold DEF Done
<1>5. CASE to # {}
  <2>1. m \in Commands /\ Replace(d, <<m>>)
    BY <1>1, <1>2, <1>5, CommandTypes
  <2>2. Honest(d, m)
    BY <1>1, HeadHonest DEF Honest, Tells, Audience
  <2>3. \A c \in Controllers : conn[c] = "up" /\ Heralds(Head(todo[d]), c) => Heralds(m, c)
    BY <1>3 DEF Heralds, Tells
  <2>4. m.op = "send"
    OBVIOUS
  <2> HIDE DEF m, to, frame
  <2> QED
    BY <1>1, <2>1, <2>2, <2>3, <2>4, NextKeepsTold
<1> QED
  BY <1>4, <1>5

LEMMA HandlersKeepTold ==
    ASSUME TypeOK, ToldInv, NEW d \in Peers, SendToNobody(d) \/ SetPrimary(d) PROVE ToldInv'
<1>1. CASE SendToNobody(d)
  BY <1>1, DoneKeepsTold DEF SendToNobody, Run, Heralds, clients
<1>2. CASE SetPrimary(d)
  <2> DEFINE m == [op |-> "list", frame |-> PrimaryFrame(Head(todo[d]).device)]
  <2>1. Head(todo[d]).device \in Players /\ todo[d] # <<>> /\ Head(todo[d]).op = "set"
    BY <1>2, HeadTypes DEF SetPrimary, Run
  <2>2. m \in Commands /\ Replace(d, <<m>>)
    BY <1>2, <2>1, CommandTypes, FrameTypes DEF SetPrimary, Tell
  <2>3. Honest(d, m) /\ m.op = "list"
    BY DEF Honest, Tells, PrimaryFrame
  <2>4. \A c \in Controllers : ~Heralds(Head(todo[d]), c)
    BY <2>1 DEF Heralds, Tells
  <2> HIDE DEF m
  <2> QED
    BY <1>2, <2>1, <2>2, <2>3, <2>4, NextKeepsTold DEF SetPrimary, clients
<1> QED
  BY <1>1, <1>2

LEMMA PlayerHandlersKeepTold ==
    ASSUME TypeOK, ToldInv, NEW p \in Players,
           EnsurePrimary(p) \/ Forget(p) \/ LeavePrimary(p) \/ ClearPrimary(p)
    PROVE  ToldInv'
<1>0. /\ p \in Peers /\ p \notin Controllers
      /\ todo[p] # <<>> /\ Head(todo[p]).op \in {"ensure", "forget", "leave", "clear"}
  BY MirrorAssumption DEF Peers, EnsurePrimary, Forget, LeavePrimary, ClearPrimary, Run
<1>1. \A c \in Controllers : ~Heralds(Head(todo[p]), c)
  BY <1>0 DEF Heralds, Tells
<1>2. CASE Done(p)
  <2>1. \A q \in Players : np'[q] \in {NoTrack, np[q]}
    BY DEF EnsurePrimary, Forget, LeavePrimary, ClearPrimary, TypeOK
  <2>2. /\ conn' = conn /\ playing' = playing /\ inbox' = inbox /\ seen' = seen /\ view' = view
    BY DEF EnsurePrimary, Forget, LeavePrimary, ClearPrimary, clients
  <2> QED
    BY <1>0, <1>1, <1>2, <2>1, <2>2, DoneKeepsTold
<1>3. ASSUME NEW m \in Commands, Replace(p, <<m>>), Honest(p, m),
             EnsurePrimary(p) \/ LeavePrimary(p)
      PROVE  ToldInv'
  <2>1. /\ conn' = conn /\ playing' = playing /\ inbox' = inbox /\ seen' = seen /\ view' = view
        /\ np' = np
    BY <1>3 DEF EnsurePrimary, LeavePrimary, clients
  <2> QED
    BY <1>0, <1>1, <1>3, <2>1, NextKeepsTold
<1>4. ASSUME EnsurePrimary(p), ~Done(p) PROVE ToldInv'
  <2> DEFINE m == [op |-> "set", device |-> p]
  <2>1. Replace(p, <<m>>) /\ m \in Commands /\ Honest(p, m)
    BY <1>4, CommandTypes DEF EnsurePrimary, Honest, Tells
  <2> HIDE DEF m
  <2> QED
    BY <1>3, <1>4, <2>1
<1>5. ASSUME LeavePrimary(p), ~Done(p) PROVE ToldInv'
  <2> DEFINE m == [op |-> "clear"]
  <2>1. Replace(p, <<m>>) /\ m \in Commands
    BY <1>5, CommandTypes DEF LeavePrimary, Done
  <2>2. Leaving(p)
    BY <1>0, <1>5, HeadHonest DEF LeavePrimary, Run, Honest
  <2>3. Honest(p, m)
    BY <2>2 DEF Honest, Tells
  <2> HIDE DEF m
  <2> QED
    BY <1>3, <1>5, <2>1, <2>3
<1> QED
  BY <1>2, <1>4, <1>5 DEF Forget, ClearPrimary

LEMMA RelayKeepsTold ==
    ASSUME TypeOK, ToldInv, NEW c \in Controllers, Relay(c) PROVE ToldInv'
<1> DEFINE aim   == Head(todo[c]).aim
           frame == [kind |-> "command", aim |-> aim]
<1>1. /\ c \in Peers /\ todo[c] # <<>> /\ Head(todo[c]).op = "relay"
      /\ conn' = conn /\ playing' = playing /\ inbox' = inbox /\ seen' = seen /\ view' = view
      /\ np' = np
  BY DEF Relay, Run, Peers, clients
<1>2. aim \in Players \cup {NoDevice} /\ frame \in CommandFrames
  BY <1>1, HeadTypes, FrameTypes
<1>3. \A r \in Controllers : ~Heralds(Head(todo[c]), r)
  BY <1>1 DEF Heralds, Tells
<1>4. ASSUME NEW m \in Commands, Replace(c, <<m>>), Honest(c, m), m.op \in {"list", "send"}
      PROVE  ToldInv'
  <2> HIDE DEF frame, aim
  <2> QED
    BY <1>1, <1>3, <1>4, NextKeepsTold
<1>5. CASE aim # NoDevice /\ conn[aim] = "up"
  <2> DEFINE m == [op |-> "send", frame |-> frame, to |-> {aim}]
  <2>1. Replace(c, <<m>>)
    BY <1>5 DEF Relay
  <2>2. {aim} \in SUBSET Peers
    BY <1>2, <1>5 DEF Peers
  <2>3. m \in Commands /\ m.op = "send"
    BY <1>2, <2>2, CommandTypes
  <2>4. Honest(c, m)
    BY <1>5 DEF Honest, Tells
  <2> HIDE DEF m
  <2> QED
    BY <1>4, <2>1, <2>3, <2>4
<1>6. CASE ~(aim # NoDevice /\ conn[aim] = "up")
  <2> DEFINE m == [op |-> "list", frame |-> frame]
  <2>1. Replace(c, <<m>>)
    BY <1>6 DEF Relay, Tell
  <2>2. m \in Commands /\ m.op = "list" /\ Honest(c, m)
    BY <1>2, CommandTypes DEF Honest, Tells
  <2> HIDE DEF m
  <2> QED
    BY <1>4, <2>1, <2>2
<1> QED
  BY <1>5, <1>6

\* A handler begins: of a controller with one command, of a player with a list that
\* has its track, if the track is a new one.
LEMMA BeginKeepsTold ==
    ASSUME TypeOK, ToldInv, NEW d \in Peers, Idle(d),
           NEW commands \in Seq(Commands), Begin(d, commands),
           conn' = conn, inbox' = inbox, seen' = seen, view' = view,
           \A p \in Players : p # d => np'[p] = np[p] /\ playing'[p] = playing[p],
           d \in Players => np'[d] \in {NoTrack, playing'[d]},
           \A k \in DOMAIN commands : Honest(d, commands[k])',
           d \in Controllers => Len(commands) = 1 /\ commands[1].op \in {"set", "relay"},
           \/ np' = np /\ playing' = playing
           \/ \E k \in DOMAIN commands : \A c \in Controllers : Heralds(commands[k], c)
    PROVE  ToldInv'
<1>0. /\ todo \in [Peers -> Seq(Commands)] /\ Controllers \subseteq Peers /\ Players \subseteq Peers
      /\ conn[d] = "up" /\ todo[d] = <<>> /\ DOMAIN todo[d] = {}
  BY EmptySeq DEF TypeOK, Peers, Idle
<1>1. todo'[d] = commands /\ \A e \in Peers : e # d => todo'[e] = todo[e]
  BY <1>0 DEF Begin
<1>2. \A e \in Peers : Leaving(e) => Leaving(e)'
  BY <1>0, <1>1 DEF Leaving
<1>3. \A e \in Peers : \A i \in DOMAIN todo'[e] : Honest(e, todo[e][i])'
  <2> SUFFICES ASSUME NEW e \in Peers, NEW i \in DOMAIN todo'[e] PROVE Honest(e, todo[e][i])'
    OBVIOUS
  <2>1. CASE e = d
    <3>1. i \in DOMAIN commands /\ todo'[e][i] = commands[i]
      BY <1>1, <2>1
    <3>2. Honest(d, commands[i])'
      BY <3>1
    <3> QED
      BY <2>1, <3>1, <3>2 DEF Honest, Tells
  <2>2. CASE e # d
    <3>1. Honest(e, todo[e][i]) /\ todo'[e][i] = todo[e][i]
      BY <1>1, <2>2 DEF ToldInv
    <3> QED
      BY <1>2, <2>2, <3>1 DEF Honest, Tells
  <2> QED
    BY <2>1, <2>2
<1>4. \A c \in Controllers :
         AtOnce(c)' /\ (Reading(c)' <=> Reading(c)) /\ (Reading(c) => todo'[c] = todo[c])
  BY <1>0, <1>1 DEF ToldInv, AtOnce, Reading
<1>5. \A c \in Controllers : \A i \in DOMAIN inbox'[c] : InOrder(c, i)'
  <2> SUFFICES ASSUME NEW c \in Controllers, NEW i \in DOMAIN inbox[c] PROVE InOrder(c, i)'
    OBVIOUS
  <2>1. InOrder(c, i)
    BY DEF ToldInv
  <2>2. inbox[c][i].kind = "unregistered" => inbox[c][i].device \in Players
    BY <1>0, TakenTypes DEF TypeOK
  <2> QED
    BY <1>0, <1>2, <1>4, <2>1, <2>2 DEF InOrder
<1>6. Absent' /\ Cached'
  BY <1>0, <1>1 DEF ToldInv, Absent, Cached
<1>7. ASSUME NEW p \in Players, NEW c \in Controllers, Here(p, c)' PROVE Told(p, c)'
  <2>1. CASE np'[p] = np[p] /\ playing'[p] = playing[p]
    <3>1. Here(p, c)
      BY <1>0, <1>2, <1>7, <2>1 DEF Here
    <3>2. CASE Announcing(p, c)
      BY <1>0, <1>1, <3>2 DEF Told, Announcing, Tells
    <3>3. CASE Arriving(p, c)
      BY <2>1, <3>3 DEF Told, Arriving, About
    <3>4. CASE Settled(p, c)
      BY <1>4, <2>1, <3>4 DEF Told, Settled, About, Knows
    <3> QED
      BY <3>1, <3>2, <3>3, <3>4 DEF ToldInv, Told
  <2>2. CASE ~(np'[p] = np[p] /\ playing'[p] = playing[p])
    <3>1. p = d /\ \E k \in DOMAIN commands : Heralds(commands[k], c)
      BY <2>2
    <3>2. Announcing(p, c)'
      BY <1>1, <3>1 DEF Announcing, Heralds, Tells
    <3> QED
      BY <3>2 DEF Told
  <2> QED
    BY <2>1, <2>2
<1> QED
  BY <1>3, <1>4, <1>5, <1>6, <1>7 DEF ToldInv

LEMMA OneBefore ==
    ASSUME NEW a \in Commands, NEW tail \in Seq(Commands), Len(tail) = 1,
           NEW list, list = <<a>> \o tail
    PROVE  list \in Seq(Commands) /\ Len(list) = 2 /\ list[1] = a /\ list[2] = tail[1]
<1> DEFINE one == <<a>>
<1>1. one \in Seq(Commands) /\ Len(one) = 1 /\ one[1] = a
  OBVIOUS
<1>2. list = one \o tail
  OBVIOUS
<1> HIDE DEF one
<1>3. /\ one \o tail \in Seq(Commands) /\ Len(one \o tail) = Len(one) + Len(tail)
      /\ \A i \in 1 .. Len(one) + Len(tail) :
            (one \o tail)[i] = IF i <= Len(one) THEN one[i] ELSE tail[i - Len(one)]
  BY <1>1, ConcatProperties
<1>4. list \in Seq(Commands) /\ Len(list) = 2
  BY <1>1, <1>2, <1>3
<1>5. list[1] = a /\ list[2] = tail[1]
  BY <1>1, <1>2, <1>3
<1> QED
  BY <1>4, <1>5

LEMMA TwoCommands ==
    ASSUME NEW a \in Commands, NEW b \in Commands, NEW list, list = <<a>> \o <<b>>
    PROVE  list \in Seq(Commands) /\ DOMAIN list = {1, 2} /\ list[1] = a /\ list[2] = b
<1>1. list \in Seq(Commands) /\ Len(list) = 2 /\ list[1] = a /\ list[2] = b
  OBVIOUS
<1> QED
  BY <1>1

LEMMA FourCommands ==
    ASSUME NEW a \in Commands, NEW b \in Commands, NEW c \in Commands, NEW d \in Commands,
           NEW list, list = <<a>> \o <<b, c, d>>
    PROVE  /\ list \in Seq(Commands) /\ DOMAIN list = {1, 2, 3, 4}
           /\ list[1] = a /\ list[2] = b /\ list[3] = c /\ list[4] = d
<1>1. /\ list \in Seq(Commands) /\ Len(list) = 4
      /\ list[1] = a /\ list[2] = b /\ list[3] = c /\ list[4] = d
  OBVIOUS
<1> QED
  BY <1>1

LEMMA PlayerBeginsKeepTold ==
    ASSUME TypeOK, ToldInv, NEW p \in Players,
           PushQueue(p) \/ PlayerLeave(p) \/ \E t \in Tracks : PushTrack(p, t)
    PROVE  ToldInv'
<1>0. /\ p \in Peers /\ p \notin Controllers /\ Idle(p)
      /\ conn' = conn /\ inbox' = inbox /\ seen' = seen /\ view' = view
  BY MirrorAssumption DEF Peers, PushQueue, PlayerLeave, PushTrack, clients
<1>1. ASSUME NEW t \in Tracks, PushTrack(p, t) PROVE ToldInv'
  <2> DEFINE f    == [kind |-> "track", device |-> p, track |-> t]
             m1   == [op |-> "ensure"]
             m2   == [op |-> "list", frame |-> f]
             list == <<m1>> \o Tell(f)
  <2>1. m1 \in Commands /\ m2 \in Commands
    BY CommandTypes, FrameTypes
  <2>2. Begin(p, list)
    BY <1>1 DEF PushTrack
  <2>3. playing'[p] = t /\ np'[p] = t /\ \A q \in Players : q # p => np'[q] = np[q] /\ playing'[q] = playing[q]
    BY <1>1 DEF PushTrack, TypeOK
  <2>4. Honest(p, m1)' /\ Honest(p, m2)' /\ \A c \in Controllers : Heralds(m2, c)
    BY <2>3 DEF Honest, Tells, Heralds
  <2>5. list = <<m1>> \o <<m2>>
    BY DEF Tell
  <2> HIDE DEF m1, m2, list
  <2>6. list \in Seq(Commands) /\ DOMAIN list = {1, 2} /\ list[1] = m1 /\ list[2] = m2
    BY <2>1, <2>5, TwoCommands
  <2>7. \A k \in DOMAIN list : Honest(p, list[k])'
    BY <2>4, <2>6 DEF Honest, Tells
  <2>8. \E k \in DOMAIN list : \A c \in Controllers : Heralds(list[k], c)
    BY <2>4, <2>6
  <2> QED
    BY <1>0, <2>2, <2>3, <2>6, <2>7, <2>8, BeginKeepsTold
<1>2. CASE PushQueue(p)
  <2> DEFINE f    == [kind |-> "queue", device |-> p]
             m    == [op |-> "list", frame |-> f]
             list == <<m>>
  <2>1. m \in Commands /\ Begin(p, list) /\ np' = np /\ playing' = playing
    BY <1>2, CommandTypes, FrameTypes DEF PushQueue, Tell
  <2>2. Honest(p, m)'
    BY DEF Honest, Tells
  <2>3. np'[p] \in {NoTrack, playing'[p]}
    BY <2>1 DEF ToldInv, Cached
  <2> HIDE DEF m
  <2>4. list \in Seq(Commands) /\ DOMAIN list = {1} /\ list[1] = m
    BY <2>1
  <2> HIDE DEF list
  <2>5. \A k \in DOMAIN list : Honest(p, list[k])'
    BY <2>2, <2>4 DEF Honest, Tells
  <2> QED
    BY <1>0, <2>1, <2>3, <2>4, <2>5, BeginKeepsTold
<1>3. CASE PlayerLeave(p)
  <2> DEFINE f    == [kind |-> "unregistered", device |-> p]
             m1   == [op |-> "list", frame |-> f]
             m2   == [op |-> "forget"]
             m3   == [op |-> "leave"]
             m4   == [op |-> "die"]
             list == Tell(f) \o <<m2, m3, m4>>
  <2>1. m1 \in Commands /\ m2 \in Commands /\ m3 \in Commands /\ m4 \in Commands
    BY CommandTypes, FrameTypes
  <2>2. Begin(p, list) /\ np' = np /\ playing' = playing
    BY <1>3 DEF PlayerLeave
  <2>3. np'[p] \in {NoTrack, playing'[p]}
    BY <2>2 DEF ToldInv, Cached
  <2>4. list = <<m1>> \o <<m2, m3, m4>> /\ todo'[p] = list
    BY <1>0, <2>2 DEF Tell, Begin, TypeOK
  <2>5. /\ list \in Seq(Commands) /\ DOMAIN list = {1, 2, 3, 4}
        /\ list[1] = m1 /\ list[2] = m2 /\ list[3] = m3 /\ list[4] = m4
    <3> HIDE DEF m1, m2, m3, m4, list
    <3> QED
      BY <2>1, <2>4, FourCommands
  <2>6. m4.op = "die"
    OBVIOUS
  <2> HIDE DEF list
  <2>7. Leaving(p)'
    BY <2>4, <2>5, <2>6 DEF Leaving
  <2>8. Honest(p, m1)' /\ Honest(p, m2)' /\ Honest(p, m3)' /\ Honest(p, m4)'
    BY <2>7 DEF Honest, Tells
  <2> HIDE DEF m1, m2, m3, m4
  <2>9. \A k \in DOMAIN list : Honest(p, list[k])'
    BY <2>5, <2>8 DEF Honest, Tells
  <2> QED
    BY <1>0, <2>2, <2>3, <2>5, <2>9, BeginKeepsTold
<1> QED
  BY <1>1, <1>2, <1>3

\* Nothing of it changes, but that a player may come, or may be forgotten.
LEMMA AsideKeepsTold ==
    ASSUME TypeOK, ToldInv,
           todo' = todo, seen' = seen, view' = view, playing' = playing,
           \A c \in Controllers : inbox'[c] = inbox[c] /\ conn'[c] = conn[c],
           \A p \in Players : /\ np'[p] \in {NoTrack, np[p]}
                              /\ (conn'[p] = conn[p] \/ (conn[p] = "away" /\ conn'[p] = "up"))
    PROVE  ToldInv'
<1>0. Controllers \subseteq Peers /\ Players \subseteq Peers /\ Peers = Players \cup Controllers
  BY DEF Peers
<1>1. /\ \A d \in Peers : conn[d] = "up" => conn'[d] = "up"
      /\ \A d \in Peers : conn'[d] # "up" => conn[d] # "up"
      /\ \A p \in Players : conn[p] = "gone" => conn'[p] = "gone"
  BY <1>0
<1>2. \A e : Leaving(e)' <=> Leaving(e)
  BY DEF Leaving
<1>3. \A e \in Peers : \A i \in DOMAIN todo'[e] : Honest(e, todo[e][i])'
  <2> SUFFICES ASSUME NEW e \in Peers, NEW i \in DOMAIN todo[e] PROVE Honest(e, todo[e][i])'
    OBVIOUS
  <2>1. Honest(e, todo[e][i])
    BY DEF ToldInv
  <2>2. todo[e][i].op = "send" => todo[e][i].to \subseteq Peers
    BY ListTypes
  <2> QED
    BY <1>1, <1>2, <2>1, <2>2 DEF Honest, Tells
<1>4. \A c \in Controllers : AtOnce(c)' /\ (Reading(c)' <=> Reading(c))
  BY DEF ToldInv, AtOnce, Reading
<1>5. \A c \in Controllers : \A i \in DOMAIN inbox'[c] : InOrder(c, i)'
  <2> SUFFICES ASSUME NEW c \in Controllers, NEW i \in DOMAIN inbox[c] PROVE InOrder(c, i)'
    OBVIOUS
  <2>1. InOrder(c, i)
    BY DEF ToldInv
  <2>2. inbox[c][i].kind = "unregistered" => inbox[c][i].device \in Players
    BY <1>0, TakenTypes DEF TypeOK
  <2> QED
    BY <1>1, <1>2, <1>4, <2>1, <2>2 DEF InOrder
<1>6. Absent' /\ Cached'
  <2>1. \A p \in Players : conn'[p] = "away" => np'[p] = NoTrack
    BY DEF ToldInv, Absent
  <2> QED
    BY <1>0, <1>1, <2>1 DEF ToldInv, Absent, Cached
<1>7. ASSUME NEW p \in Players, NEW c \in Controllers, Here(p, c)' PROVE Told(p, c)'
  <2>1. Here(p, c)
    BY <1>2, <1>7 DEF Here, ToldInv, Absent
  <2>2. CASE Announcing(p, c)
    BY <2>2 DEF Told, Announcing, Tells
  <2>3. CASE Arriving(p, c)
    BY <2>3 DEF Told, Arriving, About
  <2>4. CASE Settled(p, c)
    BY <1>4, <2>4 DEF Told, Settled, About, Knows
  <2> QED
    BY <2>1, <2>2, <2>3, <2>4 DEF ToldInv, Told
<1> QED
  BY <1>3, <1>4, <1>5, <1>6, <1>7 DEF ToldInv

LEMMA PlayerAsideKeepsTold ==
    ASSUME TypeOK, ToldInv, NEW p \in Players, PlayerRegister(p) \/ Expire(p) \/ Execute(p)
    PROVE  ToldInv'
<1>1. p \in Peers /\ p \notin Controllers /\ \A c \in Controllers : c \in Peers
  BY MirrorAssumption DEF Peers
<1>2. /\ todo' = todo /\ seen' = seen /\ view' = view /\ playing' = playing
      /\ \A c \in Controllers : inbox'[c] = inbox[c] /\ conn'[c] = conn[c]
  BY <1>1 DEF PlayerRegister, Expire, Execute, clients, TypeOK
<1>3. \A q \in Players : /\ np'[q] \in {NoTrack, np[q]}
                         /\ (conn'[q] = conn[q] \/ (conn[q] = "away" /\ conn'[q] = "up"))
  <2>1. \A q \in Players : np'[q] \in {NoTrack, np[q]}
    <3>1. CASE Expire(p)
      BY <3>1 DEF Expire, TypeOK
    <3>2. CASE PlayerRegister(p) \/ Execute(p)
      BY <3>2 DEF PlayerRegister, Execute
    <3> QED
      BY <3>1, <3>2
  <2>2. \A q \in Players : (conn'[q] = conn[q] \/ (conn[q] = "away" /\ conn'[q] = "up"))
    <3>1. CASE PlayerRegister(p)
      BY <1>1, <3>1 DEF PlayerRegister, TypeOK, Peers
    <3>2. CASE Expire(p) \/ Execute(p)
      BY <3>2 DEF Expire, Execute
    <3> QED
      BY <3>1, <3>2
  <2> QED
    BY <2>1, <2>2
<1> QED
  BY <1>2, <1>3, AsideKeepsTold

LEMMA ControllerBeginsKeepTold ==
    ASSUME TypeOK, ToldInv, NEW c \in Controllers, Press(c) \/ \E p \in Players : Pick(c, p)
    PROVE  ToldInv'
<1>0. /\ c \in Peers /\ c \notin Players /\ todo[c] = <<>>
      /\ conn' = conn /\ inbox' = inbox /\ seen' = seen /\ view' = view
      /\ np' = np /\ playing' = playing
  BY MirrorAssumption DEF Peers, Press, Pick, Idle, clients
<1>1. ASSUME NEW m \in Commands, Begin(c, <<m>>), m.op \in {"set", "relay"}, conn[c] = "up"
      PROVE  ToldInv'
  <2> DEFINE list == <<m>>
  <2>1. list \in Seq(Commands) /\ DOMAIN list = {1} /\ list[1] = m /\ Len(list) = 1
    OBVIOUS
  <2>2. Begin(c, list) /\ Honest(c, m)' /\ Idle(c)
    BY <1>0, <1>1 DEF Honest, Tells, Idle
  <2> HIDE DEF list
  <2>3. \A k \in DOMAIN list : Honest(c, list[k])'
    BY <2>1, <2>2 DEF Honest, Tells
  <2> QED
    BY <1>0, <1>1, <2>1, <2>2, <2>3, BeginKeepsTold
<1>2. CASE Press(c)
  <2> DEFINE m == [op |-> "relay", aim |-> active[c]]
  <2>1. m \in Commands /\ Begin(c, <<m>>) /\ m.op = "relay" /\ conn[c] = "up"
    BY <1>2, CommandTypes DEF Press, Idle, TypeOK
  <2> HIDE DEF m
  <2> QED
    BY <1>1, <2>1
<1>3. ASSUME NEW p \in Players, Pick(c, p), conn[c] = "up" PROVE ToldInv'
  <2> DEFINE m == [op |-> "set", device |-> p]
  <2>1. m \in Commands /\ Begin(c, <<m>>) /\ m.op = "set"
    BY <1>3, CommandTypes DEF Pick
  <2> HIDE DEF m
  <2> QED
    BY <1>1, <1>3, <2>1
<1>4. ASSUME NEW p \in Players, Pick(c, p), conn[c] # "up" PROVE ToldInv'
  <2>1. todo' = todo
    BY <1>4 DEF Pick
  <2>2. \A q \in Players : /\ np'[q] \in {NoTrack, np[q]}
                           /\ (conn'[q] = conn[q] \/ (conn[q] = "away" /\ conn'[q] = "up"))
    <3>1. np' = np /\ conn' = conn
      BY <1>0
    <3> QED
      BY <3>1
  <2>3. \A r \in Controllers : inbox'[r] = inbox[r] /\ conn'[r] = conn[r]
    BY <1>0
  <2>4. seen' = seen /\ view' = view /\ playing' = playing
    BY <1>0
  <2> QED
    BY <2>1, <2>2, <2>3, <2>4, AsideKeepsTold
<1> QED
  BY <1>2, <1>3, <1>4

LEMMA JoinKeepsTold ==
    ASSUME TypeOK, ToldInv, NEW c \in Controllers, Join(c) PROVE ToldInv'
<1>0. /\ Controllers \subseteq Peers /\ Players \subseteq Peers /\ c \notin Players
      /\ todo[c] = <<>> /\ inbox[c] = <<>> /\ DOMAIN inbox[c] = {}
  BY MirrorAssumption, EmptySeq DEF Peers, Join, ToldInv, Absent
<1>1. /\ inbox' = inbox /\ seen' = seen /\ view' = view /\ np' = np /\ playing' = playing
      /\ todo'[c] = <<[op |-> "read"]>> /\ \A e \in Peers : e # c => todo'[e] = todo[e]
      /\ conn'[c] = "up" /\ \A e \in Peers : e # c => conn'[e] = conn[e]
  BY <1>0 DEF Join, Begin, TypeOK, clients
<1>2. /\ \A d \in Peers : conn[d] = "up" => conn'[d] = "up"
      /\ \A p \in Players : conn'[p] = conn[p] /\ todo'[p] = todo[p]
      /\ \A p \in Players : Leaving(p)' <=> Leaving(p)
  BY <1>0, <1>1 DEF Leaving
<1>3. \A e \in Peers : \A i \in DOMAIN todo'[e] : Honest(e, todo[e][i])'
  <2> SUFFICES ASSUME NEW e \in Peers, NEW i \in DOMAIN todo'[e] PROVE Honest(e, todo[e][i])'
    OBVIOUS
  <2>1. CASE e = c
    <3>1. todo'[e][i] = [op |-> "read"]
      BY <1>1, <2>1
    <3> QED
      BY <3>1 DEF Honest, Tells
  <2>2. CASE e # c
    <3>1. Honest(e, todo[e][i]) /\ todo'[e][i] = todo[e][i]
      BY <1>1, <2>2 DEF ToldInv
    <3>2. todo[e][i].op = "send" => todo[e][i].to \subseteq Peers
      BY <1>1, <2>2, ListTypes
    <3>3. Leaving(e)' <=> Leaving(e)
      BY <1>1, <2>2 DEF Leaving
    <3> QED
      BY <1>1, <1>2, <3>1, <3>2, <3>3 DEF Honest, Tells
  <2> QED
    BY <2>1, <2>2
<1>4. AtOnce(c)' /\ Reading(c)' /\ todo'[c][1].op = "read"
  BY <1>1 DEF AtOnce, Reading
<1>5. \A r \in Controllers :
         AtOnce(r)' /\ (r # c => (Reading(r)' <=> Reading(r)) /\ todo'[r] = todo[r])
  <2>1. ASSUME NEW r \in Controllers, r # c
        PROVE  AtOnce(r)' /\ (Reading(r)' <=> Reading(r)) /\ todo'[r] = todo[r]
    <3>1. AtOnce(r) /\ todo'[r] = todo[r]
      BY <1>0, <1>1, <2>1 DEF ToldInv
    <3> QED
      BY <3>1 DEF AtOnce, Reading
  <2> QED
    BY <1>4, <2>1
<1>6. \A r \in Controllers : \A i \in DOMAIN inbox'[r] : InOrder(r, i)'
  <2> SUFFICES ASSUME NEW r \in Controllers, NEW i \in DOMAIN inbox[r] PROVE InOrder(r, i)'
    BY <1>1
  <2>1. InOrder(r, i) /\ r # c
    BY <1>0 DEF ToldInv
  <2>2. inbox[r][i].kind = "unregistered" => inbox[r][i].device \in Players
    BY <1>0, TakenTypes DEF TypeOK
  <2> QED
    BY <1>1, <1>2, <1>5, <2>1, <2>2 DEF InOrder
<1>7. Absent' /\ Cached'
  BY <1>0, <1>1, <1>2 DEF ToldInv, Absent, Cached
<1>8. ASSUME NEW p \in Players, NEW r \in Controllers, Here(p, r)' PROVE Told(p, r)'
  <2>1. CASE r = c
    BY <1>0, <1>1, <1>4, <2>1 DEF Told, Settled
  <2>2. CASE r # c
    <3>1. Here(p, r)
      BY <1>0, <1>1, <1>2, <1>8, <2>2 DEF Here
    <3>2. CASE Announcing(p, r)
      BY <1>2, <3>2 DEF Told, Announcing, Tells
    <3>3. CASE Arriving(p, r)
      BY <1>1, <3>3 DEF Told, Arriving, About
    <3>4. CASE Settled(p, r)
      BY <1>1, <1>5, <2>2, <3>4 DEF Told, Settled, About, Knows
    <3> QED
      BY <3>1, <3>2, <3>3, <3>4 DEF ToldInv, Told
  <2> QED
    BY <2>1, <2>2
<1> QED
  BY <1>3, <1>5, <1>6, <1>7, <1>8 DEF ToldInv

\* A controller's connection reads on, and what it has read and is yet to read has
\* all that it must.
LEMMA ReadOnKeepsTold ==
    ASSUME TypeOK, ToldInv, NEW c \in Controllers, Reading(c), NEW from,
           \A e \in Peers : e # c => todo'[e] = todo[e],
           DOMAIN todo'[c] = {1, 2}, Len(todo'[c]) = 2, todo'[c] # <<>>,
           todo'[c][1].op = "fetch", todo'[c][1].from = from, todo'[c][2].op = "reply",
           conn' = conn, np' = np, playing' = playing, inbox' = inbox, view' = view,
           \A r \in Controllers : r # c => seen'[r] = seen[r],
           \A p \in Players : Here(p, c) /\ Settled(p, c) => p \in from \/ Knows(seen'[c], p)
    PROVE  ToldInv'
<1>0. Controllers \subseteq Peers /\ Players \subseteq Peers /\ c \notin Players
  BY MirrorAssumption DEF Peers
<1>1. \A p \in Players : todo'[p] = todo[p] /\ (Leaving(p)' <=> Leaving(p))
  BY <1>0 DEF Leaving
<1>2. \A e \in Peers : \A i \in DOMAIN todo'[e] : Honest(e, todo[e][i])'
  <2> SUFFICES ASSUME NEW e \in Peers, NEW i \in DOMAIN todo'[e] PROVE Honest(e, todo[e][i])'
    OBVIOUS
  <2>1. CASE e = c
    <3>1. todo'[e][i].op \in {"fetch", "reply"}
      BY <2>1
    <3> QED
      BY <3>1 DEF Honest, Tells
  <2>2. CASE e # c
    <3>1. Honest(e, todo[e][i]) /\ todo'[e][i] = todo[e][i] /\ (Leaving(e)' <=> Leaving(e))
      BY <2>2 DEF ToldInv, Leaving
    <3> QED
      BY <3>1 DEF Honest, Tells
  <2> QED
    BY <2>1, <2>2
<1>3. \A r \in Controllers : AtOnce(r)' /\ (Reading(r)' <=> Reading(r))
  BY <1>0 DEF ToldInv, AtOnce, Reading
<1>4. \A r \in Controllers : \A i \in DOMAIN inbox'[r] : InOrder(r, i)'
  <2> SUFFICES ASSUME NEW r \in Controllers, NEW i \in DOMAIN inbox[r] PROVE InOrder(r, i)'
    OBVIOUS
  <2>1. InOrder(r, i)
    BY DEF ToldInv
  <2>2. inbox[r][i].kind = "unregistered" => inbox[r][i].device \in Players
    BY <1>0, TakenTypes DEF TypeOK
  <2> QED
    BY <1>1, <1>3, <2>1, <2>2 DEF InOrder
<1>5. Absent' /\ Cached'
  <2>1. conn[c] = "up"
    BY <1>0 DEF Reading, ToldInv, Absent
  <2> QED
    BY <2>1 DEF ToldInv, Absent, Cached
<1>6. ASSUME NEW p \in Players, NEW r \in Controllers, Here(p, r)' PROVE Told(p, r)'
  <2>1. Here(p, r)
    BY <1>1, <1>6 DEF Here
  <2>2. CASE Announcing(p, r)
    BY <1>1, <2>2 DEF Told, Announcing, Tells
  <2>3. CASE Arriving(p, r)
    BY <2>3 DEF Told, Arriving, About
  <2>4. CASE Settled(p, r)
    <3>1. CASE r = c
      <4>1. p \in from \/ Knows(seen'[c], p)
        BY <2>1, <2>4, <3>1
      <4> QED
        BY <1>3, <2>4, <3>1, <4>1 DEF Told, Settled, About, Knows
    <3>2. CASE r # c
      <4>1. todo'[r] = todo[r] /\ seen'[r] = seen[r]
        BY <1>0, <3>2
      <4> QED
        BY <1>3, <2>4, <4>1 DEF Told, Settled, About, Knows
    <3> QED
      BY <3>1, <3>2
  <2> QED
    BY <2>1, <2>2, <2>3, <2>4 DEF ToldInv, Told
<1> QED
  BY <1>2, <1>3, <1>4, <1>5, <1>6 DEF ToldInv

\* The keys that the snapshot will be read from have every player that is there.
LEMMA ReadMetasKeepsTold ==
    ASSUME TypeOK, ToldInv, NEW c \in Controllers, ReadMetas(c) PROVE ToldInv'
<1> DEFINE from == {p \in Players : conn[p] = "up"}
           m1   == [op |-> "fetch", from |-> from]
           m2   == [op |-> "reply"]
<1>0. /\ c \in Peers /\ todo[c] # <<>> /\ Head(todo[c]).op = "read" /\ Replace(c, <<m1, m2>>)
      /\ conn' = conn /\ np' = np /\ playing' = playing /\ inbox' = inbox /\ view' = view
      /\ seen' = [seen EXCEPT ![c] = NoEntries]
  BY DEF Peers, ReadMetas, Run, clients
<1>1. m1 \in Commands /\ m2 \in Commands
  BY CommandTypes
<1>2. m1.op = "fetch" /\ m1.from = from /\ m2.op = "reply"
  OBVIOUS
<1>3. Len(todo[c]) = 1 /\ Reading(c)
  BY <1>0, HeadHonest DEF ToldInv, AtOnce, Reading
<1> DEFINE list == <<m1, m2>>
<1> HIDE DEF m1, m2
<1>4. list \in Seq(Commands) /\ Len(list) = 2 /\ list[1] = m1 /\ list[2] = m2
  BY <1>1
<1>5. DOMAIN list = {1, 2} /\ list # <<>>
  BY <1>4
<1> HIDE DEF list
<1>6. todo'[c] = list /\ \A e \in Peers : e # c => todo'[e] = todo[e]
  <2>1. Replace(c, list)
    BY <1>0 DEF list
  <2> QED
    BY <1>0, <1>3, <1>4, <2>1, ReplaceFacts
<1>7. \A p \in Players : Here(p, c) => p \in from
  BY DEF Here
<1>8. \A r \in Controllers : r # c => seen'[r] = seen[r]
  BY <1>0 DEF TypeOK
<1> HIDE DEF from
<1> QED
  BY <1>0, <1>2, <1>3, <1>4, <1>5, <1>6, <1>7, <1>8, ReadOnKeepsTold

\* Each read takes over what the cache has, which is what its player pushed last.
LEMMA FetchKeepsTold ==
    ASSUME TypeOK, ToldInv, NEW c \in Controllers, NEW q \in Players, FetchNowPlaying(c, q)
    PROVE  ToldInv'
<1> DEFINE fetch == Head(todo[c])
           rest  == [fetch EXCEPT !.from = @ \ {q}]
           list  == <<rest>> \o Tail(todo[c])
<1>0. /\ c \in Peers /\ todo[c] # <<>> /\ fetch.op = "fetch" /\ todo[c] \in Seq(Commands)
      /\ todo' = [todo EXCEPT ![c] = list]
      /\ conn' = conn /\ np' = np /\ playing' = playing /\ inbox' = inbox /\ view' = view
      /\ seen' = IF np[q] = NoTrack THEN seen ELSE [seen EXCEPT ![c] = Put(@, q, np[q])]
  BY DEF Peers, FetchNowPlaying, Run, clients, TypeOK, Replace
<1>1. fetch \in [op : {"fetch"}, from : SUBSET Players]
  BY <1>0, HeadTypes
<1>2. rest.op = "fetch" /\ rest.from = fetch.from \ {q} /\ rest \in Commands
  <2>1. rest \in [op : {"fetch"}, from : SUBSET Players]
    BY <1>1
  <2> QED
    BY <1>1, <2>1 DEF Commands
<1>3. /\ todo[c][1] = fetch /\ Reading(c)
      /\ Len(todo[c]) = 2 /\ todo[c][2].op = "reply"
  BY <1>0, HeadHonest DEF ToldInv, AtOnce, Reading
<1> HIDE DEF rest
<1>4. /\ list \in Seq(Commands) /\ Len(list) = 2 /\ list[1] = rest /\ list[2].op = "reply"
  <2>1. Tail(todo[c]) \in Seq(Commands) /\ Len(Tail(todo[c])) = 1 /\ Tail(todo[c])[1] = todo[c][2]
    BY <1>0, <1>3
  <2>2. /\ list \in Seq(Commands) /\ Len(list) = 2 /\ list[1] = rest
        /\ list[2] = Tail(todo[c])[1]
    BY <1>2, <2>1, OneBefore
  <2> QED
    BY <1>3, <2>1, <2>2
<1> HIDE DEF list, fetch
<1>5. DOMAIN list = {1, 2} /\ list # <<>>
  <2>1. list \in Seq(Commands) /\ Len(list) = 2 /\ 1 .. 2 = {1, 2}
    BY <1>4
  <2> QED
    BY <2>1, LenProperties, EmptySeq
<1>6. todo'[c] = list /\ \A e \in Peers : e # c => todo'[e] = todo[e]
  BY <1>0 DEF TypeOK
<1>7. ASSUME NEW p \in Players, Here(p, c), Settled(p, c)
      PROVE  p \in rest.from \/ Knows(seen'[c], p)
  <2>1. p \in fetch.from \/ Knows(seen[c], p)
    BY <1>0, <1>3, <1>7 DEF Settled
  <2>2. np[p] = playing[p] /\ np[p] # NoTrack
    BY <1>7 DEF Here, ToldInv, Cached
  <2>3. np[q] # NoTrack => seen'[c] = Put(seen[c], q, np[q])
    BY <1>0 DEF TypeOK
  <2>4. np[q] = NoTrack => seen'[c] = seen[c]
    BY <1>0
  <2>5. CASE p = q
    BY <1>0, <2>2, <2>3, <2>5 DEF Knows, Put
  <2>6. CASE p # q
    BY <1>0, <1>2, <2>1, <2>3, <2>4, <2>6 DEF Knows, Put
  <2> QED
    BY <2>5, <2>6
<1>8. \A r \in Controllers : r # c => seen'[r] = seen[r]
  BY <1>0 DEF TypeOK
<1>9. /\ todo'[c][1].op = "fetch" /\ todo'[c][1].from = rest.from /\ todo'[c][2].op = "reply"
      /\ DOMAIN todo'[c] = {1, 2} /\ Len(todo'[c]) = 2 /\ todo'[c] # <<>>
  BY <1>2, <1>4, <1>5, <1>6
<1> QED
  BY <1>0, <1>3, <1>6, <1>7, <1>8, <1>9, ReadOnKeepsTold

LEMMA PrependFacts ==
    ASSUME NEW S, NEW f \in S, NEW s \in Seq(S), NEW t, t = <<f>> \o s
    PROVE  /\ 1 \in DOMAIN t /\ t[1] = f /\ t # <<>> /\ DOMAIN s \subseteq Nat /\ DOMAIN t \subseteq Nat
           /\ \A j \in DOMAIN s : j + 1 \in DOMAIN t /\ t[j + 1] = s[j]
           /\ \A j \in DOMAIN t : j # 1 => j - 1 \in DOMAIN s /\ t[j] = s[j - 1]
<1>1. /\ t \in Seq(S) /\ Len(t) = Len(s) + 1 /\ Len(s) \in Nat
      /\ \A j \in 1 .. Len(t) : t[j] = IF j = 1 THEN f ELSE s[j - 1]
  OBVIOUS
<1>2. DOMAIN s = 1 .. Len(s) /\ DOMAIN t = 1 .. Len(s) + 1 /\ t # <<>>
  BY <1>1
<1> QED
  BY <1>1, <1>2

LEMMA AppendFacts ==
    ASSUME NEW S, NEW f \in S, NEW s \in Seq(S), NEW t, t = Append(s, f)
    PROVE  /\ DOMAIN t = DOMAIN s \cup {Len(s) + 1} /\ t[Len(s) + 1] = f /\ t # <<>>
           /\ \A j \in DOMAIN s : j \in Nat /\ j < Len(s) + 1 /\ t[j] = s[j]
           /\ s # <<>> => 1 \in DOMAIN s
           /\ s = <<>> => Len(s) + 1 = 1
           /\ Len(s) + 1 \in Nat
<1>1. /\ t \in Seq(S) /\ Len(t) = Len(s) + 1 /\ Len(s) \in Nat /\ t[Len(s) + 1] = f
      /\ \A j \in 1 .. Len(s) : t[j] = s[j]
  OBVIOUS
<1>2. DOMAIN s = 1 .. Len(s) /\ DOMAIN t = 1 .. Len(s) + 1 /\ t # <<>>
  BY <1>1
<1> QED
  BY <1>1, <1>2

\* What was read goes before what waits, and a track that waits is a later one.
LEMMA ReplyKeepsTold ==
    ASSUME TypeOK, ToldInv, NEW c \in Controllers, Reply(c) PROVE ToldInv'
<1> DEFINE f == [kind |-> "devices", primary |-> primary, devices |-> seen[c]]
<1>0. /\ Controllers \subseteq Peers /\ Players \subseteq Peers /\ c \notin Players /\ c \in Peers
      /\ conn' = conn /\ np' = np /\ playing' = playing /\ view' = view
      /\ seen' = [seen EXCEPT ![c] = NoEntries]
  BY MirrorAssumption DEF Peers, Reply, clients
<1>1. Reading(c) /\ todo[c][1].op = "fetch" /\ todo[c][1].from = {} /\ todo[c] # <<>>
  BY DEF Reply, Reading
<1>2. /\ todo'[c] = <<>> /\ \A e \in Peers : e # c => todo'[e] = todo[e]
      /\ inbox'[c] = <<f>> \o inbox[c] /\ \A e \in Peers : e # c => inbox'[e] = inbox[e]
      /\ \A r \in Controllers : r # c => seen'[r] = seen[r]
  BY <1>0 DEF Reply, Begin, TypeOK
<1>3. f.kind = "devices" /\ f.devices = seen[c] /\ f \in Frames /\ inbox[c] \in Seq(Frames)
  BY <1>0, FrameTypes DEF TypeOK
<1> HIDE DEF f
<1>4. /\ 1 \in DOMAIN inbox'[c] /\ inbox'[c][1] = f /\ inbox'[c] # <<>>
      /\ DOMAIN inbox[c] \subseteq Nat /\ DOMAIN inbox'[c] \subseteq Nat
      /\ \A j \in DOMAIN inbox[c] : j + 1 \in DOMAIN inbox'[c] /\ inbox'[c][j + 1] = inbox[c][j]
      /\ \A j \in DOMAIN inbox'[c] : j # 1 => j - 1 \in DOMAIN inbox[c] /\ inbox'[c][j] = inbox[c][j - 1]
  BY <1>2, <1>3, PrependFacts
<1>5. \A p \in Players : todo'[p] = todo[p] /\ (Leaving(p)' <=> Leaving(p))
  BY <1>0, <1>2 DEF Leaving
<1>6. \A e \in Peers : \A i \in DOMAIN todo'[e] : Honest(e, todo[e][i])'
  <2> SUFFICES ASSUME NEW e \in Peers, NEW i \in DOMAIN todo'[e] PROVE Honest(e, todo[e][i])'
    OBVIOUS
  <2>1. e # c
    BY <1>2, EmptySeq
  <2>2. Honest(e, todo[e][i]) /\ todo'[e][i] = todo[e][i] /\ (Leaving(e)' <=> Leaving(e))
    BY <1>2, <2>1 DEF ToldInv, Leaving
  <2> QED
    BY <1>0, <2>2 DEF Honest, Tells
<1>7. \A r \in Controllers :
         /\ AtOnce(r)' /\ ~Reading(c)'
         /\ r # c => (Reading(r)' <=> Reading(r)) /\ todo'[r] = todo[r]
  BY <1>0, <1>2 DEF ToldInv, AtOnce, Reading
<1>8. \A r \in Controllers : \A i \in DOMAIN inbox'[r] : InOrder(r, i)'
  <2>1. ASSUME NEW i \in DOMAIN inbox'[c], i # 1 PROVE InOrder(c, i)'
    <3>1. i - 1 \in DOMAIN inbox[c] /\ inbox'[c][i] = inbox[c][i - 1]
      BY <1>4, <2>1
    <3>2. InOrder(c, i - 1) /\ inbox[c][i - 1] \in Frames
      BY <1>3, <3>1 DEF ToldInv
    <3> QED
      BY <1>0, <1>1, <1>5, <3>1, <3>2, TakenTypes DEF InOrder
  <2>2. InOrder(c, 1)'
    BY <1>3, <1>4, <1>7 DEF InOrder
  <2>3. ASSUME NEW r \in Controllers, r # c, NEW i \in DOMAIN inbox'[r] PROVE InOrder(r, i)'
    <3>1. inbox'[r] = inbox[r] /\ InOrder(r, i) /\ inbox[r][i] \in Frames
      BY <1>0, <1>2, <2>3 DEF ToldInv, TypeOK
    <3> QED
      BY <1>0, <1>5, <1>7, <2>3, <3>1, TakenTypes DEF InOrder
  <2> QED
    BY <2>1, <2>2, <2>3
<1>9. Absent' /\ Cached'
  <2>1. conn[c] = "up"
    BY <1>0, <1>1 DEF ToldInv, Absent
  <2> QED
    BY <1>0, <1>2, <2>1 DEF ToldInv, Absent, Cached
<1>10. ASSUME NEW p \in Players, NEW r \in Controllers, Here(p, r)' PROVE Told(p, r)'
  <2>1. Here(p, r)
    BY <1>0, <1>5, <1>10 DEF Here
  <2>2. CASE Announcing(p, r)
    BY <1>5, <2>2 DEF Told, Announcing, Tells
  <2>3. CASE r # c
    <3>1. inbox'[r] = inbox[r] /\ todo'[r] = todo[r] /\ seen'[r] = seen[r]
      BY <1>0, <1>2, <2>3
    <3>2. CASE Arriving(p, r)
      BY <1>0, <3>1, <3>2 DEF Told, Arriving, About
    <3>3. CASE Settled(p, r)
      BY <1>0, <1>7, <2>3, <3>1, <3>3 DEF Told, Settled, About, Knows
    <3> QED
      BY <2>1, <2>2, <3>2, <3>3 DEF ToldInv, Told
  <2>4. CASE r = c /\ Arriving(p, c)
    <3>1. PICK i \in DOMAIN inbox[c] :
             /\ About(inbox[c][i], p) /\ inbox[c][i].track = playing[p]
             /\ \A j \in DOMAIN inbox[c] : j > i => ~About(inbox[c][j], p)
      BY <2>4 DEF Arriving
    <3>2. i + 1 \in DOMAIN inbox'[c] /\ inbox'[c][i + 1] = inbox[c][i]
      BY <1>4
    <3>3. ASSUME NEW j \in DOMAIN inbox'[c], j > i + 1 PROVE ~About(inbox'[c][j], p)
      <4>1. j - 1 \in DOMAIN inbox[c] /\ inbox'[c][j] = inbox[c][j - 1] /\ j - 1 > i
        BY <1>4, <3>3
      <4> QED
        BY <3>1, <4>1
    <3>4. Arriving(p, c)'
      BY <1>0, <3>1, <3>2, <3>3 DEF Arriving, About
    <3> QED
      BY <2>4, <3>4 DEF Told
  <2>5. CASE r = c /\ Settled(p, c)
    <3>1. ASSUME NEW j \in DOMAIN inbox'[c] PROVE ~About(inbox'[c][j], p)
      <4>1. CASE j = 1
        BY <1>3, <1>4, <4>1 DEF About
      <4>2. CASE j # 1
        BY <1>4, <2>5, <4>2 DEF Settled
      <4> QED
        BY <4>1, <4>2
    <3>2. Knows(seen[c], p)
      BY <1>1, <2>5 DEF Settled
    <3>3. Settled(p, c)'
      BY <1>0, <1>3, <1>4, <1>7, <3>1, <3>2 DEF Settled, About, Knows
    <3> QED
      BY <2>5, <3>3 DEF Told
  <2> QED
    BY <2>1, <2>2, <2>3, <2>4, <2>5 DEF ToldInv, Told
<1> QED
  BY <1>6, <1>7, <1>8, <1>9, <1>10 DEF ToldInv

\* A frame is sent to a connection: a track arrives, and whatever else is on the way
\* stays the last of its player.
LEMMA SendKeepsTold ==
    ASSUME TypeOK, ToldInv, NEW d \in Peers, NEW r \in Peers, SendTo(d, r) PROVE ToldInv'
<1> DEFINE send == Head(todo[d])
           rest == [send EXCEPT !.to = @ \ {r}]
           f    == send.frame
<1>0. /\ Controllers \subseteq Peers /\ Players \subseteq Peers
      /\ conn' = conn /\ np' = np /\ playing' = playing /\ view' = view /\ seen' = seen
      /\ todo[d] # <<>> /\ send.op = "send" /\ r \in send.to
      /\ Replace(d, IF send.to = {r} THEN <<>> ELSE <<rest>>)
      /\ inbox' = [inbox EXCEPT ![r] = Append(@, f)]
  BY DEF Peers, SendTo, Run, clients
<1>1. /\ send \in [op : {"send"}, frame : StateFrames \cup CommandFrames, to : SUBSET Peers]
      /\ Honest(d, send) /\ conn[d] = "up" /\ todo[d][1] = send /\ 1 \in DOMAIN todo[d]
  BY <1>0, HeadTypes, HeadHonest
<1>2. rest \in Commands /\ rest.op = "send" /\ rest.frame = f /\ rest.to = send.to \ {r}
  <2>1. rest \in [op : {"send"}, frame : StateFrames \cup CommandFrames, to : SUBSET Peers]
    BY <1>1
  <2> QED
    BY <1>1, <2>1 DEF Commands
<1>3. f \in Frames /\ f.kind # "devices" /\ (f.kind \in {"track", "unregistered"} => f.device = d /\ d \in Players)
  BY <1>0, <1>1 DEF Frames, StateFrames, CommandFrames, Honest, Tells
<1>4. f.kind = "unregistered" => Leaving(d)
  BY <1>0, <1>1 DEF Honest, Tells
<1>5. f.kind = "track" => f.track = playing[d]
  BY <1>0, <1>1 DEF Honest, Tells
<1>6. Honest(d, rest)
  BY <1>0, <1>1, <1>2 DEF Honest, Tells
<1>7. \A c \in Controllers : Heralds(send, c) /\ (c # r \/ f.kind # "track") => Heralds(rest, c) /\ send.to # {r}
  BY <1>0, <1>2 DEF Heralds, Tells
<1> HIDE DEF rest, send, f
<1>8. \E commands \in Seq(Commands) :
         /\ Replace(d, commands) /\ Len(commands) <= 1
         /\ commands = <<>> => send.to = {r}
         /\ \A k \in DOMAIN commands : commands[k] = rest
         /\ commands # <<>> => Len(commands) = 1 /\ 1 \in DOMAIN commands
  <2>1. CASE send.to = {r}
    <3>1. <<>> \in Seq(Commands) /\ Len(<<>>) <= 1 /\ DOMAIN <<>> = {}
      BY EmptySeq
    <3> QED
      BY <1>0, <2>1, <3>1
  <2>2. CASE send.to # {r}
    <3> DEFINE list == <<rest>>
    <3>1. /\ list \in Seq(Commands) /\ Len(list) = 1 /\ list # <<>>
          /\ DOMAIN list = {1} /\ list[1] = rest
      BY <1>2
    <3>2. Replace(d, list)
      BY <1>0, <2>2
    <3> HIDE DEF list
    <3>3. \A k \in DOMAIN list : list[k] = rest
      BY <3>1
    <3>4. Len(list) <= 1 /\ 1 \in DOMAIN list /\ (list = <<>> => send.to = {r})
      BY <3>1
    <3> QED
      BY <3>1, <3>2, <3>3, <3>4
  <2> QED
    BY <2>1, <2>2
<1>9. PICK commands \in Seq(Commands) :
         /\ Replace(d, commands) /\ Len(commands) <= 1
         /\ commands = <<>> => send.to = {r}
         /\ \A k \in DOMAIN commands : commands[k] = rest
         /\ commands # <<>> => Len(commands) = 1 /\ 1 \in DOMAIN commands
  BY <1>8
<1>10. /\ \A e \in Peers : e # d => todo'[e] = todo[e]
       /\ \A i \in DOMAIN todo'[d] :
             \/ todo'[d][i] = rest
             \/ \E j \in DOMAIN todo[d] : j # 1 /\ todo'[d][i] = todo[d][j]
       /\ send.to # {r} => 1 \in DOMAIN todo'[d] /\ todo'[d][1] = rest
       /\ \A j \in DOMAIN todo[d] :
             j # 1 => \E i \in DOMAIN todo'[d] : todo'[d][i] = todo[d][j]
       /\ Len(todo[d]) = 1 => todo'[d] = commands
  BY <1>0, <1>9, ReplaceFacts
<1>11. \A e \in Peers : Leaving(e) => Leaving(e)'
  <2>1. send.op # "die"
    BY <1>0
  <2> QED
    BY <1>1, <1>10, <2>1 DEF Leaving
<1>12. \A e \in Peers : \A i \in DOMAIN todo'[e] : Honest(e, todo[e][i])'
  <2> SUFFICES ASSUME NEW e \in Peers, NEW i \in DOMAIN todo'[e] PROVE Honest(e, todo[e][i])'
    OBVIOUS
  <2>1. PICK m : m = todo'[e][i] /\ Honest(e, m)
    BY <1>6, <1>10 DEF ToldInv
  <2> QED
    BY <1>0, <1>11, <2>1 DEF Honest, Tells
<1>13. ASSUME NEW c \in Controllers
       PROVE  AtOnce(c)' /\ (Reading(c)' <=> Reading(c)) /\ (Reading(c) => todo'[c] = todo[c])
  <2>1. CASE c # d
    BY <1>0, <1>10, <2>1 DEF ToldInv, AtOnce, Reading
  <2>2. CASE c = d
    <3>1. Len(todo[d]) = 1 /\ ~Reading(c)
      BY <1>0, <1>1, <2>2 DEF ToldInv, AtOnce, Reading
    <3>2. todo'[d] = commands
      BY <1>10, <3>1
    <3>3. AtOnce(c)' /\ ~Reading(c)'
      BY <1>2, <1>9, <2>2, <3>2 DEF AtOnce, Reading
    <3> QED
      BY <3>1, <3>3
  <2> QED
    BY <2>1, <2>2
<1>14. /\ inbox[r] \in Seq(Frames) /\ inbox'[r] = Append(inbox[r], f)
       /\ \A e \in Peers : e # r => inbox'[e] = inbox[e]
  BY <1>0 DEF TypeOK
<1>15. PICK last :
          /\ last \in Nat
          /\ DOMAIN inbox'[r] = DOMAIN inbox[r] \cup {last} /\ inbox'[r][last] = f /\ inbox'[r] # <<>>
          /\ \A j \in DOMAIN inbox[r] : j \in Nat /\ j < last /\ inbox'[r][j] = inbox[r][j]
          /\ inbox[r] # <<>> => 1 \in DOMAIN inbox[r]
          /\ inbox[r] = <<>> => last = 1
  <2>1. PICK last : last = Len(inbox[r]) + 1
    OBVIOUS
  <2>2. /\ DOMAIN inbox'[r] = DOMAIN inbox[r] \cup {Len(inbox[r]) + 1}
        /\ inbox'[r][Len(inbox[r]) + 1] = f /\ inbox'[r] # <<>>
        /\ \A j \in DOMAIN inbox[r] :
              j \in Nat /\ j < Len(inbox[r]) + 1 /\ inbox'[r][j] = inbox[r][j]
        /\ inbox[r] # <<>> => 1 \in DOMAIN inbox[r]
        /\ inbox[r] = <<>> => Len(inbox[r]) + 1 = 1
        /\ Len(inbox[r]) + 1 \in Nat
    BY <1>3, <1>14, AppendFacts
  <2> QED
    BY <2>1, <2>2
<1>16. \A c \in Controllers : \A i \in DOMAIN inbox'[c] : InOrder(c, i)'
  <2>1. ASSUME NEW c \in Controllers, NEW i \in DOMAIN inbox[c], inbox'[c][i] = inbox[c][i]
        PROVE  InOrder(c, i)'
    <3>1. InOrder(c, i)
      BY DEF ToldInv
    <3>2. inbox[c][i].kind = "unregistered" => inbox[c][i].device \in Peers
      BY <1>0, TakenTypes DEF TypeOK
    <3> QED
      BY <1>0, <1>11, <1>13, <2>1, <3>1, <3>2 DEF InOrder
  <2>2. r \in Controllers => InOrder(r, last)'
    BY <1>3, <1>4, <1>11, <1>15 DEF InOrder
  <2>3. ASSUME NEW c \in Controllers, NEW i \in DOMAIN inbox'[c] PROVE InOrder(c, i)'
    <3>1. CASE c # r
      BY <1>0, <1>14, <2>1, <3>1
    <3>2. CASE c = r /\ i = last
      BY <2>2, <3>2
    <3>3. CASE c = r /\ i # last
      BY <1>15, <2>1, <3>3
    <3> QED
      BY <3>1, <3>2, <3>3
  <2> QED
    BY <2>3
<1>17. Absent' /\ Cached'
  <2>1. conn[r] = "up"
    BY <1>0, <1>1 DEF Honest
  <2> QED
    BY <1>0, <1>1, <1>10, <1>14, <2>1 DEF ToldInv, Absent, Cached
<1>18. ASSUME NEW p \in Players, NEW c \in Controllers, Here(p, c)' PROVE Told(p, c)'
  <2>1. Here(p, c)
    BY <1>0, <1>11, <1>18 DEF Here
  <2>2. CASE c = r /\ About(f, p)
    <3>1. p = d /\ f.track = playing[p]
      BY <1>3, <1>5, <2>2 DEF About
    <3>2. \A j \in DOMAIN inbox'[c] : ~(j > last)
      BY <1>15, <2>2
    <3>3. Arriving(p, c)'
      BY <1>0, <1>15, <2>2, <3>1, <3>2 DEF Arriving, About
    <3> QED
      BY <3>3 DEF Told
  <2>3. CASE ~(c = r /\ About(f, p))
    <3>1. ASSUME Announcing(p, c) PROVE Announcing(p, c)'
      <4>1. PICK i \in DOMAIN todo[p] : Heralds(todo[p][i], c)
        BY <3>1 DEF Announcing, Heralds
      <4>2. \E j \in DOMAIN todo'[p] : Heralds(todo'[p][j], c)
        <5>1. CASE p # d
          BY <1>0, <1>10, <4>1, <5>1
        <5>2. CASE p = d /\ i # 1
          BY <1>10, <4>1, <5>2
        <5>3. CASE p = d /\ i = 1
          <6>1. Heralds(send, c)
            BY <1>1, <4>1, <5>3
          <6>2. c # r \/ f.kind # "track"
            BY <1>3, <2>3, <5>3 DEF About
          <6>3. Heralds(rest, c) /\ send.to # {r}
            BY <1>7, <6>1, <6>2
          <6> QED
            BY <1>10, <5>3, <6>3
        <5> QED
          BY <5>1, <5>2, <5>3
      <4> QED
        BY <4>2 DEF Announcing, Heralds, Tells
    <3>2. ASSUME Arriving(p, c) PROVE Arriving(p, c)'
      <4>1. CASE c # r
        BY <1>0, <1>14, <3>2, <4>1 DEF Arriving, About
      <4>2. CASE c = r
        <5>1. PICK i \in DOMAIN inbox[c] :
                 /\ About(inbox[c][i], p) /\ inbox[c][i].track = playing[p]
                 /\ \A j \in DOMAIN inbox[c] : j > i => ~About(inbox[c][j], p)
          BY <3>2 DEF Arriving
        <5>2. \A j \in DOMAIN inbox'[c] : j > i => ~About(inbox'[c][j], p)
          BY <1>15, <2>3, <4>2, <5>1
        <5>3. i \in DOMAIN inbox'[c] /\ inbox'[c][i] = inbox[c][i]
          BY <1>15, <4>2
        <5>4. playing'[p] = playing[p]
          BY <1>0
        <5> QED
          BY <5>1, <5>2, <5>3, <5>4 DEF Arriving, About
      <4> QED
        BY <4>1, <4>2
    <3>3. ASSUME Settled(p, c) PROVE Settled(p, c)'
      <4>1. CASE c # r
        BY <1>0, <1>13, <1>14, <3>3, <4>1 DEF Settled, About, Knows
      <4>2. CASE c = r
        <5>1. \A j \in DOMAIN inbox'[c] : ~About(inbox'[c][j], p)
          BY <1>15, <2>3, <3>3, <4>2 DEF Settled
        <5>2. (inbox'[c] # <<>> /\ inbox'[c][1].kind = "devices")
                 <=> (inbox[c] # <<>> /\ inbox[c][1].kind = "devices")
          BY <1>3, <1>15, <4>2
        <5>3. inbox[c] # <<>> => inbox'[c][1] = inbox[c][1]
          BY <1>15, <4>2
        <5> QED
          BY <1>0, <1>13, <3>3, <5>1, <5>2, <5>3 DEF Settled, About, Knows
      <4> QED
        BY <4>1, <4>2
    <3> QED
      BY <2>1, <3>1, <3>2, <3>3 DEF ToldInv, Told
  <2> QED
    BY <2>2, <2>3
<1> QED
  BY <1>12, <1>13, <1>16, <1>17, <1>18 DEF ToldInv

LEMMA SameLength ==
    ASSUME NEW S, NEW s \in Seq(S), NEW t \in Seq(S), DOMAIN t = DOMAIN s
    PROVE  /\ Len(t) = Len(s)
           /\ t = <<>> <=> s = <<>>
           /\ s # <<>> => 1 \in DOMAIN s
           /\ Len(s) = 2 => 2 \in DOMAIN s
<1>1. /\ Len(t) \in Nat /\ DOMAIN t = 1 .. Len(t)
      /\ Len(s) \in Nat /\ DOMAIN s = 1 .. Len(s)
  BY LenProperties
<1>2. Len(t) = Len(s)
  <2>1. \A m, n \in Nat : 1 .. m = 1 .. n => m <= n
    <3> SUFFICES ASSUME NEW m \in Nat, NEW n \in Nat, 1 .. m = 1 .. n PROVE m <= n
      OBVIOUS
    <3>1. m = 0 \/ m \in 1 .. m
      OBVIOUS
    <3> QED
      BY <3>1
  <2>2. Len(t) <= Len(s) /\ Len(s) <= Len(t)
    BY <1>1, <2>1
  <2>3. \A m, n \in Nat : m <= n /\ n <= m => m = n
    OBVIOUS
  <2>4. Len(t) \in Nat /\ Len(s) \in Nat
    BY <1>1
  <2> QED
    BY <2>2, <2>3, <2>4
<1>3. (t = <<>> <=> Len(t) = 0) /\ (s = <<>> <=> Len(s) = 0)
  <2>1. \A u \in Seq(S) : u = <<>> <=> Len(u) = 0
    OBVIOUS
  <2> QED
    BY <2>1
<1> QED
  BY <1>1, <1>2, <1>3

\* What becomes of e's list when d's process ends.
LEMMA WithoutFacts ==
    ASSUME TypeOK, NEW d \in Peers, NEW e \in Peers
    PROVE  LET s == Without(todo[e], d) IN
           /\ DOMAIN s = DOMAIN todo[e]
           /\ \A i \in DOMAIN todo[e] :
                 /\ s[i].op = todo[e][i].op
                 /\ todo[e][i].op # "send" => s[i] = todo[e][i]
                 /\ todo[e][i].op = "send" =>
                       s[i].frame = todo[e][i].frame /\ s[i].to = todo[e][i].to \ {d}
<1>1. ASSUME NEW i \in DOMAIN todo[e], todo[e][i].op = "send"
      PROVE  /\ [todo[e][i] EXCEPT !.to = @ \ {d}].op = "send"
             /\ [todo[e][i] EXCEPT !.to = @ \ {d}].frame = todo[e][i].frame
             /\ [todo[e][i] EXCEPT !.to = @ \ {d}].to = todo[e][i].to \ {d}
  <2>1. todo[e][i] \in [op : {"send"}, frame : StateFrames \cup CommandFrames, to : SUBSET Peers]
    BY <1>1, ListTypes DEF Commands
  <2> QED
    BY <2>1
<1> QED
  BY <1>1 DEF Without

\* A process ends, and with it what the others were to tell it.
LEMMA EndKeepsTold ==
    ASSUME TypeOK, ToldInv, NEW d \in Peers, NEW state \in {"away", "gone"},
           EndProcess(d, state), d \in Players => state = "gone",
           np' = np, playing' = playing, view' = view,
           \A r \in Controllers : r # d => seen'[r] = seen[r]
    PROVE  ToldInv'
<1>0. /\ Controllers \subseteq Peers /\ Players \subseteq Peers
      /\ \A p \in Players : p \notin Controllers
  BY MirrorAssumption DEF Peers
<1>1. /\ conn'[d] = state /\ \A e \in Peers : e # d => conn'[e] = conn[e]
      /\ inbox'[d] = <<>> /\ \A e \in Peers : e # d => inbox'[e] = inbox[e]
      /\ todo'[d] = <<>> /\ \A e \in Peers : e # d => todo'[e] = Without(todo[e], d)
  BY DEF EndProcess, TypeOK
<1>2. ASSUME NEW e \in Peers, e # d
      PROVE  /\ DOMAIN todo'[e] = DOMAIN todo[e]
             /\ Len(todo'[e]) = Len(todo[e])
             /\ todo'[e] = <<>> <=> todo[e] = <<>>
             /\ todo[e] # <<>> => 1 \in DOMAIN todo[e]
             /\ Len(todo[e]) = 2 => 2 \in DOMAIN todo[e]
             /\ \A i \in DOMAIN todo[e] :
                   /\ todo'[e][i].op = todo[e][i].op
                   /\ todo[e][i].op # "send" => todo'[e][i] = todo[e][i]
                   /\ todo[e][i].op = "send" => /\ todo'[e][i].frame = todo[e][i].frame
                                                /\ todo'[e][i].to = todo[e][i].to \ {d}
  <2>1. todo'[e] \in Seq(Commands) /\ todo[e] \in Seq(Commands)
    <3>1. todo' \in [Peers -> Seq(Commands)]
      BY EndProcessTypes
    <3> QED
      BY <3>1 DEF TypeOK
  <2>2. DOMAIN todo'[e] = DOMAIN todo[e]
    BY <1>1, <1>2, WithoutFacts
  <2>3. /\ Len(todo'[e]) = Len(todo[e])
        /\ todo'[e] = <<>> <=> todo[e] = <<>>
        /\ todo[e] # <<>> => 1 \in DOMAIN todo[e]
        /\ Len(todo[e]) = 2 => 2 \in DOMAIN todo[e]
    BY <2>1, <2>2, SameLength
  <2>4. \A i \in DOMAIN todo[e] :
           /\ todo'[e][i].op = todo[e][i].op
           /\ todo[e][i].op # "send" => todo'[e][i] = todo[e][i]
           /\ todo[e][i].op = "send" => /\ todo'[e][i].frame = todo[e][i].frame
                                        /\ todo'[e][i].to = todo[e][i].to \ {d}
    BY <1>1, <1>2, WithoutFacts
  <2> QED
    BY <2>2, <2>3, <2>4
<1>3. DOMAIN todo'[d] = {} /\ DOMAIN inbox'[d] = {}
  BY <1>1, EmptySeq
<1>4. \A e \in Peers : e # d => (Leaving(e)' <=> Leaving(e))
  BY <1>2 DEF Leaving
<1>5. \A e \in Peers : \A i \in DOMAIN todo'[e] : Honest(e, todo[e][i])'
  <2> SUFFICES ASSUME NEW e \in Peers, NEW i \in DOMAIN todo'[e] PROVE Honest(e, todo[e][i])'
    OBVIOUS
  <2>1. e # d /\ i \in DOMAIN todo[e] /\ Honest(e, todo[e][i])
    BY <1>2, <1>3 DEF ToldInv
  <2>2. /\ todo'[e][i].op = todo[e][i].op
        /\ todo[e][i].op # "send" => todo'[e][i] = todo[e][i]
        /\ todo[e][i].op = "send" => /\ todo'[e][i].frame = todo[e][i].frame
                                     /\ todo'[e][i].to = todo[e][i].to \ {d}
    BY <1>2, <2>1
  <2>3. \A kind : Tells(todo'[e][i], kind) <=> Tells(todo[e][i], kind)
    BY <2>2 DEF Tells
  <2>4. todo[e][i].op \in {"list", "send"} => todo'[e][i].frame = todo[e][i].frame
    BY <2>2
  <2>5. todo'[e][i].op = "send" => \A r \in todo'[e][i].to : conn'[r] = "up"
    <3>1. todo[e][i].op = "send" => todo[e][i].to \subseteq Peers
      BY <2>1, ListTypes
    <3> QED
      BY <1>1, <2>1, <2>2, <3>1 DEF Honest
  <2> QED
    BY <1>4, <2>1, <2>2, <2>3, <2>4, <2>5 DEF Honest, Tells
<1>6. \A c \in Controllers :
         /\ AtOnce(c)'
         /\ c # d => (Reading(c)' <=> Reading(c)) /\ (Reading(c) => todo'[c][1] = todo[c][1])
  <2>1. ASSUME NEW c \in Controllers, c # d
        PROVE  AtOnce(c)' /\ (Reading(c)' <=> Reading(c)) /\ (Reading(c) => todo'[c][1] = todo[c][1])
    BY <1>0, <1>2, <2>1 DEF ToldInv, AtOnce, Reading
  <2>2. d \in Controllers => AtOnce(d)'
    BY <1>1 DEF AtOnce
  <2> QED
    BY <2>1, <2>2
<1>7. \A c \in Controllers : \A i \in DOMAIN inbox'[c] : InOrder(c, i)'
  <2> SUFFICES ASSUME NEW c \in Controllers, NEW i \in DOMAIN inbox'[c] PROVE InOrder(c, i)'
    OBVIOUS
  <2>1. c # d /\ inbox'[c] = inbox[c] /\ InOrder(c, i)
    BY <1>0, <1>1, <1>3 DEF ToldInv
  <2>2. inbox[c][i].kind = "unregistered" => inbox[c][i].device \in Players
    BY <1>0, <2>1, TakenTypes DEF TypeOK
  <2> QED
    BY <1>0, <1>1, <1>4, <1>6, <2>1, <2>2 DEF InOrder
<1>8. Absent' /\ Cached'
  BY <1>0, <1>1, <1>2 DEF ToldInv, Absent, Cached
<1>9. ASSUME NEW p \in Players, NEW c \in Controllers, Here(p, c)' PROVE Told(p, c)'
  <2>1. p # d /\ c # d
    BY <1>1, <1>9 DEF Here
  <2>2. Here(p, c)
    BY <1>0, <1>1, <1>4, <1>9, <2>1 DEF Here
  <2>3. inbox'[c] = inbox[c] /\ seen'[c] = seen[c]
    BY <1>0, <1>1, <2>1
  <2>4. CASE Announcing(p, c)
    <3>1. PICK i \in DOMAIN todo[p] :
             Tells(todo[p][i], "track") /\ (todo[p][i].op = "send" => c \in todo[p][i].to)
      BY <2>4 DEF Announcing
    <3>2. /\ i \in DOMAIN todo'[p] /\ todo'[p][i].op = todo[p][i].op
          /\ todo'[p][i].frame = todo[p][i].frame
          /\ todo'[p][i].op = "send" => c \in todo'[p][i].to
      BY <1>0, <1>2, <2>1, <3>1 DEF Tells
    <3>3. Announcing(p, c)'
      BY <3>1, <3>2 DEF Announcing, Tells
    <3> QED
      BY <3>3 DEF Told
  <2>5. CASE Arriving(p, c)
    BY <2>3, <2>5 DEF Told, Arriving, About
  <2>6. CASE Settled(p, c)
    BY <1>6, <2>1, <2>3, <2>6 DEF Told, Settled, About, Knows
  <2> QED
    BY <2>2, <2>4, <2>5, <2>6 DEF ToldInv, Told
<1> QED
  BY <1>5, <1>6, <1>7, <1>8, <1>9 DEF ToldInv

LEMMA DieKeepsTold ==
    ASSUME TypeOK, ToldInv, NEW p \in Players, Die(p) PROVE ToldInv'
BY EndKeepsTold DEF Die, Peers, clients

LEMMA DropKeepsTold ==
    ASSUME TypeOK, ToldInv, NEW c \in Controllers, Drop(c) PROVE ToldInv'
<1>1. c \in Peers /\ c \notin Players
  BY MirrorAssumption DEF Peers
<1>2. \A r \in Controllers : r # c => seen'[r] = seen[r]
  BY DEF Drop, TypeOK
<1> QED
  BY <1>1, <1>2, EndKeepsTold DEF Drop, clients

\* What a controller takes changes none of its entries but the frame's, and a track
\* that is taken is the one shown.
LEMMA TakeKeepsTold ==
    ASSUME TypeOK, ToldInv, NEW c \in Controllers, Take(c) PROVE ToldInv'
<1> DEFINE f == Head(inbox[c])
<1>0. /\ Controllers \subseteq Peers /\ Players \subseteq Peers
      /\ todo' = todo /\ conn' = conn /\ np' = np /\ playing' = playing /\ seen' = seen
      /\ inbox[c] # <<>> /\ todo[c] = <<>> /\ inbox[c] \in Seq(Frames)
      /\ inbox'[c] = Tail(inbox[c]) /\ \A e \in Peers : e # c => inbox'[e] = inbox[e]
  BY DEF Peers, Take, Receiving, TypeOK
<1>1. /\ TakeSnapshot(c, f) \/ TakeTrack(c, f) \/ TakeQueue(c, f)
            \/ TakeUnregistered(c, f) \/ TakePrimary(c, f)
      /\ f \in Frames /\ f = inbox[c][1] /\ 1 \in DOMAIN inbox[c]
  BY <1>0 DEF Take
<1> HIDE DEF f
<1>2. /\ \A j \in DOMAIN inbox'[c] :
            j + 1 \in DOMAIN inbox[c] /\ j + 1 # 1 /\ inbox'[c][j] = inbox[c][j + 1]
      /\ \A j \in DOMAIN inbox[c] :
            j # 1 => j - 1 \in DOMAIN inbox'[c] /\ inbox'[c][j - 1] = inbox[c][j]
  BY <1>0, TailFacts
<1>3. DOMAIN inbox[c] \subseteq Nat \ {0} /\ DOMAIN inbox'[c] \subseteq Nat
      /\ (inbox'[c] # <<>> => 1 \in DOMAIN inbox'[c])
  <2>1. inbox'[c] \in Seq(Frames)
    BY <1>0
  <2> QED
    BY <1>0, <2>1
<1>4. \A r \in Controllers : r # c => view'[r] = view[r]
  BY <1>1 DEF TakeSnapshot, TakeTrack, TakeQueue, TakeUnregistered, TakePrimary, TypeOK
<1>5. \A e : Leaving(e)' <=> Leaving(e)
  BY <1>0 DEF Leaving
<1>6. \A e \in Peers : \A i \in DOMAIN todo'[e] : Honest(e, todo[e][i])'
  BY <1>0, <1>5 DEF ToldInv, Honest, Tells
<1>7. \A r \in Controllers : AtOnce(r)' /\ (Reading(r)' <=> Reading(r)) /\ ~Reading(c)
  BY <1>0 DEF ToldInv, AtOnce, Reading
<1>8. \A r \in Controllers : \A i \in DOMAIN inbox'[r] : InOrder(r, i)'
  <2>1. ASSUME NEW i \in DOMAIN inbox'[c] PROVE InOrder(c, i)'
    <3>1. i + 1 \in DOMAIN inbox[c] /\ i + 1 # 1 /\ inbox'[c][i] = inbox[c][i + 1]
      BY <1>2
    <3>2. InOrder(c, i + 1)
      BY <3>1 DEF ToldInv
    <3> QED
      BY <1>0, <1>5, <3>1, <3>2 DEF InOrder
  <2>2. ASSUME NEW r \in Controllers, r # c, NEW i \in DOMAIN inbox'[r] PROVE InOrder(r, i)'
    <3>1. inbox'[r] = inbox[r] /\ InOrder(r, i)
      BY <1>0, <2>2 DEF ToldInv
    <3> QED
      BY <1>0, <1>5, <1>7, <3>1 DEF InOrder
  <2> QED
    BY <2>1, <2>2
<1>9. Absent' /\ Cached'
  <2>1. conn[c] = "up"
    BY <1>0 DEF ToldInv, Absent
  <2> QED
    BY <1>0, <2>1 DEF ToldInv, Absent, Cached
<1>10. ASSUME NEW p \in Players, NEW r \in Controllers, Here(p, r)' PROVE Told(p, r)'
  <2>1. Here(p, r)
    BY <1>0, <1>5, <1>10 DEF Here
  <2>2. CASE Announcing(p, r)
    BY <1>0, <2>2 DEF Told, Announcing, Tells
  <2>3. CASE r # c
    <3>1. inbox'[r] = inbox[r] /\ view'[r] = view[r]
      BY <1>0, <1>4, <2>3
    <3>2. CASE Arriving(p, r)
      BY <1>0, <3>1, <3>2 DEF Told, Arriving, About
    <3>3. CASE Settled(p, r)
      BY <1>0, <1>7, <3>1, <3>3 DEF Told, Settled, About, Knows
    <3> QED
      BY <2>1, <2>2, <3>2, <3>3 DEF ToldInv, Told
  <2>4. (inbox'[c] # <<>> => inbox'[c][1].kind # "devices")
    <3> SUFFICES ASSUME inbox'[c] # <<>> PROVE inbox'[c][1].kind # "devices"
      OBVIOUS
    <3>1. 1 + 1 \in DOMAIN inbox[c] /\ 1 + 1 # 1 /\ inbox'[c][1] = inbox[c][1 + 1]
      BY <1>2, <1>3
    <3>2. InOrder(c, 1 + 1)
      BY <3>1 DEF ToldInv
    <3> QED
      BY <3>1, <3>2 DEF InOrder
  <2>5. CASE r = c /\ Arriving(p, c)
    <3>1. PICK i \in DOMAIN inbox[c] :
             /\ About(inbox[c][i], p) /\ inbox[c][i].track = playing[p]
             /\ \A j \in DOMAIN inbox[c] : j > i => ~About(inbox[c][j], p)
      BY <2>5 DEF Arriving
    <3>2. CASE i # 1
      <4>1. i - 1 \in DOMAIN inbox'[c] /\ inbox'[c][i - 1] = inbox[c][i]
        BY <1>2, <3>2
      <4>2. ASSUME NEW j \in DOMAIN inbox'[c], j > i - 1 PROVE ~About(inbox'[c][j], p)
        <5>1. j + 1 \in DOMAIN inbox[c] /\ inbox'[c][j] = inbox[c][j + 1] /\ j + 1 > i
          BY <1>2, <1>3, <4>2
        <5> QED
          BY <3>1, <5>1
      <4>3. Arriving(p, c)'
        BY <1>0, <3>1, <4>1, <4>2 DEF Arriving, About
      <4> QED
        BY <2>5, <4>3 DEF Told
    <3>3. CASE i = 1
      <4>1. f.kind = "track" /\ f.device = p /\ f.track = playing[p]
        BY <1>1, <3>1, <3>3 DEF About
      <4>2. view'[c] = Put(view[c], p, playing[p])
        BY <1>1, <4>1 DEF TakeSnapshot, TakeTrack, TakeQueue, TakeUnregistered, TakePrimary, TypeOK
      <4>3. Knows(view[c], p)'
        BY <1>0, <4>2 DEF Knows, Put
      <4>4. \A j \in DOMAIN inbox'[c] : ~About(inbox'[c][j], p)
        <5> SUFFICES ASSUME NEW j \in DOMAIN inbox'[c] PROVE ~About(inbox'[c][j], p)
          OBVIOUS
        <5>1. j + 1 \in DOMAIN inbox[c] /\ inbox'[c][j] = inbox[c][j + 1] /\ j + 1 > i
          BY <1>2, <1>3, <3>3
        <5> QED
          BY <3>1, <5>1
      <4>5. Settled(p, c)'
        BY <1>7, <2>4, <4>3, <4>4 DEF Settled, About
      <4> QED
        BY <2>5, <4>5 DEF Told
    <3> QED
      BY <3>2, <3>3
  <2>6. CASE r = c /\ Settled(p, c)
    <3>1. \A j \in DOMAIN inbox'[c] : ~About(inbox'[c][j], p)
      BY <1>2, <2>6 DEF Settled
    <3>2. ~About(f, p)
      BY <1>1, <2>6 DEF Settled
    <3>3. f.kind = "unregistered" => f.device # p
      <4>1. InOrder(c, 1)
        BY <1>1 DEF ToldInv
      <4> QED
        BY <1>1, <2>1, <4>1 DEF InOrder, Here
    <3>4. CASE f.kind = "devices"
      <4>1. Knows(f.devices, p)
        BY <1>0, <1>1, <1>7, <2>6, <3>4 DEF Settled
      <4>2. view'[c] = f.devices
        BY <1>1, <3>4 DEF TakeSnapshot, TakeTrack, TakeQueue, TakeUnregistered, TakePrimary, TypeOK
      <4> QED
        BY <1>0, <1>7, <2>4, <2>6, <3>1, <4>1, <4>2 DEF Told, Settled, About, Knows
    <3>5. CASE f.kind # "devices"
      <4>1. p \in DOMAIN view[c] /\ view[c][p] = playing[p]
        BY <1>0, <1>1, <1>7, <2>6, <3>5 DEF Settled, Knows
      <4>2. p \in DOMAIN view'[c] /\ view'[c][p] = view[c][p]
        <5>1. CASE TakeTrack(c, f)
          BY <3>2, <4>1, <5>1 DEF TakeTrack, Put, About, TypeOK
        <5>2. CASE TakeQueue(c, f)
          BY <4>1, <5>2 DEF TakeQueue, Put, TypeOK
        <5>3. CASE TakeUnregistered(c, f)
          BY <3>3, <4>1, <5>3 DEF TakeUnregistered, TypeOK
        <5>4. CASE TakePrimary(c, f)
          BY <4>1, <5>4 DEF TakePrimary
        <5> QED
          BY <1>1, <3>5, <5>1, <5>2, <5>3, <5>4 DEF TakeSnapshot
      <4>3. Settled(p, c)'
        BY <1>0, <1>7, <2>4, <3>1, <4>1, <4>2 DEF Settled, About, Knows
      <4> QED
        BY <2>6, <4>3 DEF Told
    <3> QED
      BY <3>4, <3>5
  <2> QED
    BY <2>1, <2>2, <2>3, <2>5, <2>6 DEF ToldInv, Told
<1> QED
  BY <1>6, <1>7, <1>8, <1>9, <1>10 DEF ToldInv

LEMMA InitTold == Init => ToldInv
<1> SUFFICES ASSUME Init PROVE ToldInv
  OBVIOUS
<1>1. /\ Controllers \subseteq Peers /\ Players \subseteq Peers
      /\ \A d \in Peers : /\ todo[d] = <<>> /\ DOMAIN todo[d] = {} /\ conn[d] = "away"
                          /\ inbox[d] = <<>> /\ DOMAIN inbox[d] = {}
      /\ \A p \in Players : np[p] = NoTrack
  BY EmptySeq DEF Init, Peers
<1> QED
  BY <1>1 DEF ToldInv, AtOnce, Absent, Cached, Here

LEMMA StepTold == ASSUME TypeOK, ToldInv, [Next]_vars PROVE ToldInv'
<1>1. CASE UNCHANGED vars
  <2>1. /\ todo' = todo /\ seen' = seen /\ view' = view /\ playing' = playing
        /\ inbox' = inbox /\ conn' = conn /\ np' = np
    BY <1>1 DEF vars, clients
  <2>2. \A p \in Players : /\ np'[p] \in {NoTrack, np[p]}
                           /\ (conn'[p] = conn[p] \/ (conn[p] = "away" /\ conn'[p] = "up"))
    BY <2>1
  <2>3. \A c \in Controllers : inbox'[c] = inbox[c] /\ conn'[c] = conn[c]
    BY <2>1
  <2> QED
    BY <2>1, <2>2, <2>3, AsideKeepsTold
<1>2. ASSUME NEW d \in Peers, Proceed(d) PROVE ToldInv'
  BY <1>2, ListKeepsTold, HandlersKeepTold, SendKeepsTold DEF Proceed
<1>3. ASSUME NEW p \in Players, PlayerStep(p) \/ PlayerProceed(p) PROVE ToldInv'
  <2>1. p \in Peers
    BY DEF Peers
  <2> QED
    BY <1>2, <1>3, <2>1, PlayerAsideKeepsTold, PlayerBeginsKeepTold, PlayerHandlersKeepTold, DieKeepsTold
       DEF PlayerStep, PlayerProceed
<1>4. ASSUME NEW c \in Controllers, Join(c) \/ ControllerStep(c) \/ ControllerProceed(c) \/ Take(c)
      PROVE  ToldInv'
  <2>1. c \in Peers
    BY DEF Peers
  <2> QED
    BY <1>2, <1>4, <2>1, JoinKeepsTold, DropKeepsTold, ControllerBeginsKeepTold, ReadMetasKeepsTold,
       FetchKeepsTold, ReplyKeepsTold, RelayKeepsTold, TakeKeepsTold
       DEF ControllerStep, ControllerProceed
<1> QED
  BY <1>1, <1>3, <1>4 DEF Next

LEMMA ToldSuffices == TypeOK /\ ToldInv => ViewsCatchUp
<1> SUFFICES ASSUME TypeOK, ToldInv, Quiet, NEW c \in Controllers, NEW p \in Players,
                    conn[c] = "up", conn[p] = "up", np[p] # NoTrack
             PROVE  p \in DOMAIN view[c] /\ view[c][p] = playing[p]
  BY DEF ViewsCatchUp
<1>1. /\ todo[p] = <<>> /\ DOMAIN todo[p] = {}
      /\ todo[c] = <<>> /\ inbox[c] = <<>> /\ DOMAIN inbox[c] = {}
  BY EmptySeq DEF Quiet, Peers
<1>2. Here(p, c)
  BY <1>1 DEF Here, Leaving
<1>3. ~Announcing(p, c) /\ ~Arriving(p, c)
  BY <1>1 DEF Announcing, Arriving
<1>4. Settled(p, c)
  BY <1>2, <1>3 DEF ToldInv, Told
<1> QED
  BY <1>1, <1>4 DEF Settled, Reading, Knows

\* No push is lost between the snapshot and the broadcasts, however the steps of the
\* connections come in between: once nothing is on its way, a connected controller lists
\* every connected player whose track is cached, with the track it pushed last.
THEOREM MirrorViewsCatchUp == Safety => []ViewsCatchUp
<1>1. Init => TypeOK /\ ToldInv
  BY InitTypes, InitTold
<1>2. TypeOK /\ ToldInv /\ [Next]_vars => (TypeOK /\ ToldInv)'
  BY StepTypes, StepTold
<1> QED
  BY <1>1, <1>2, ToldSuffices, PTL DEF Safety

-----------------------------------------------------------------------------
(* The invariant of the primary.                                           *)

\* A command of those that lead to a primary_changed, and one that lists its player.
Elects(m) == m.op \in {"ensure", "set"} \/ Tells(m, "primary")

Lists(m) == Tells(m, "track") \/ Tells(m, "queue")

Listing(f, p) == f.kind \in {"track", "queue"} /\ f.device = p

\* A handler elects before all else, and does neither in its terminate.
InTurn(d, i) ==
    /\ Elects(todo[d][i]) => i = 1
    /\ Leaving(d) => ~Elects(todo[d][i]) /\ ~Lists(todo[d][i])

\* Who is unregistered is not listed again.
LastWords(c, i) ==
    inbox[c][i].kind = "unregistered" =>
        \A j \in DOMAIN inbox[c] : j > i => ~Listing(inbox[c][j], inbox[c][i].device)

Speaks(d) == todo[d] # <<>> /\ Tells(todo[d][1], "primary")

\* One connection announces at a time, and announces the primary.
OneVoice ==
    \A d \in Peers : Speaks(d) =>
        /\ todo[d][1].frame.device = primary \/ primary = NoDevice
        /\ \A e \in Peers : Speaks(e) => e = d

\* The controller has chosen another primary, which is not set yet; ...
Choosing(c) == todo[c] # <<>> /\ todo[c][1].op = "set"

\* ... or the primary is still to be announced to it, ...
Calls(m, c) == Tells(m, "primary") /\ (m.op = "send" => c \in m.to)

Heralded(c) == \E d \in Peers : todo[d] # <<>> /\ Calls(todo[d][1], c)

\* ... or is the last that is on the way to it, ...
Electing(f) == f.kind = "primary"

Coming(c) ==
    \E i \in DOMAIN inbox[c] :
        /\ Electing(inbox[c][i]) /\ inbox[c][i].device = primary
        /\ \A j \in DOMAIN inbox[c] : j > i => ~Electing(inbox[c][j])

\* ... or none is on the way, and the controller will read it, is sent it with the
\* snapshot or has it.  It may have taken the primary off its list, for good.
Bygone(p, c) ==
    /\ conn[p] = "gone" \/ Leaving(p)
    /\ p \notin DOMAIN view[c]
    /\ \A j \in DOMAIN inbox[c] : ~Listing(inbox[c][j], p)

Known(c) ==
    /\ \A j \in DOMAIN inbox[c] : ~Electing(inbox[c][j])
    /\ \/ Reading(c)
       \/ IF inbox[c] # <<>> /\ inbox[c][1].kind = "devices"
          THEN /\ inbox[c][1].primary = primary
               /\ primary \in DOMAIN inbox[c][1].devices \/ c \in omitted
          ELSE c \in omitted \/ active[c] = primary \/ Bygone(primary, c)

Informed(c) == Choosing(c) \/ Heralded(c) \/ Coming(c) \/ Known(c)

NewsInv ==
    /\ \A d \in Peers : \A i \in DOMAIN todo[d] : InTurn(d, i)
    /\ \A c \in Controllers : \A i \in DOMAIN inbox[c] : LastWords(c, i)
    /\ ~crossed => OneVoice
    /\ ~crossed /\ primary # NoDevice =>
          \A c \in Controllers : conn[c] = "up" => Informed(c)

-----------------------------------------------------------------------------
\* Nothing that c is told or knows changes.
LEMMA InformedKept ==
    ASSUME NEW c \in Controllers, Informed(c), primary' = primary, primary \in Players,
           inbox'[c] = inbox[c], view'[c] = view[c], active'[c] = active[c],
           c \in omitted => c \in omitted',
           Choosing(c) => Choosing(c)', Heralded(c) => Heralded(c)', Reading(c) => Reading(c)',
           \A p \in Players : conn[p] = "gone" \/ Leaving(p) => conn'[p] = "gone" \/ Leaving(p)'
    PROVE  Informed(c)'
<1>1. CASE Choosing(c) \/ Heralded(c)
  BY <1>1 DEF Informed
<1>2. CASE Coming(c)
  BY <1>2 DEF Informed, Coming, Electing
<1>3. CASE Known(c)
  <2>1. Bygone(primary, c) => Bygone(primary, c)'
    BY DEF Bygone, Listing
  <2>2. Known(c)'
    BY <1>3, <2>1 DEF Known, Electing
  <2> QED
    BY <2>2 DEF Informed
<1> QED
  BY <1>1, <1>2, <1>3 DEF Informed

\* What a handler does next is in turn if it does no more than what it replaces did.
LEMMA ReplaceInTurn ==
    ASSUME TypeOK, NewsInv, NEW d \in Peers, todo[d] # <<>>,
           NEW commands \in Seq(Commands), Len(commands) <= 1, Replace(d, commands),
           Head(todo[d]).op # "die",
           \A k \in DOMAIN commands :
              /\ commands[k].op # "die"
              /\ Elects(commands[k]) => Elects(Head(todo[d]))
              /\ Lists(commands[k]) => Lists(Head(todo[d]))
    PROVE  /\ 1 \in DOMAIN todo[d] /\ todo[d][1] = Head(todo[d])
           /\ \A e \in Peers : e # d => todo'[e] = todo[e]
           /\ \A e \in Peers : \A i \in DOMAIN todo'[e] : InTurn(e, i)'
           /\ \A e \in Peers : Leaving(e)' <=> Leaving(e)
           /\ commands # <<>> => todo'[d] # <<>> /\ todo'[d][1] = commands[1]
           /\ commands = <<>> => (todo'[d] # <<>> => ~Elects(todo'[d][1]))
           /\ Len(todo[d]) = 1 => todo'[d] = commands
<1>1. /\ todo \in [Peers -> Seq(Commands)] /\ todo' \in [Peers -> Seq(Commands)]
      /\ Len(commands) \in Nat /\ DOMAIN commands = 1 .. Len(commands)
      /\ \A t \in Seq(Commands) : t # <<>> => 1 \in DOMAIN t
      /\ \A t \in Seq(Commands) : 1 \in DOMAIN t => t # <<>>
  <2>1. \A t \in Seq(Commands) : Len(t) \in Nat /\ DOMAIN t = 1 .. Len(t) /\ (t = <<>> <=> Len(t) = 0)
    BY LenProperties
  <2> QED
    BY <2>1, ReplaceTypes DEF TypeOK
<1>2. /\ 1 \in DOMAIN todo[d] /\ todo[d][1] = Head(todo[d])
      /\ \A e \in Peers : e # d => todo'[e] = todo[e]
      /\ \A i \in DOMAIN todo'[d] :
            \/ i \in DOMAIN commands /\ todo'[d][i] = commands[i]
            \/ \E j \in DOMAIN todo[d] : j # 1 /\ todo'[d][i] = todo[d][j]
      /\ \A k \in DOMAIN commands : k \in DOMAIN todo'[d] /\ todo'[d][k] = commands[k]
      /\ \A j \in DOMAIN todo[d] :
            j # 1 => \E i \in DOMAIN todo'[d] : todo'[d][i] = todo[d][j]
      /\ Len(todo[d]) = 1 => todo'[d] = commands
  BY ReplaceFacts
<1>3. \A e \in Peers : Leaving(e)' <=> Leaving(e)
  BY <1>2 DEF Leaving
<1>4. \A e \in Peers : \A i \in DOMAIN todo[e] : InTurn(e, i)
  BY DEF NewsInv
<1>5. ASSUME NEW i \in DOMAIN todo'[d] PROVE InTurn(d, i)'
  <2>1. CASE i \in DOMAIN commands /\ todo'[d][i] = commands[i]
    <3>1. i = 1
      BY <1>1, <2>1
    <3>2. /\ Elects(commands[i]) => Elects(todo[d][1])
          /\ Lists(commands[i]) => Lists(todo[d][1])
      BY <1>2, <2>1
    <3>3. InTurn(d, 1)
      BY <1>2, <1>4
    <3> QED
      BY <1>3, <2>1, <3>1, <3>2, <3>3 DEF InTurn, Elects, Lists, Tells
  <2>2. ASSUME NEW j \in DOMAIN todo[d], j # 1, todo'[d][i] = todo[d][j] PROVE InTurn(d, i)'
    <3>1. InTurn(d, j)
      BY <1>4
    <3> QED
      BY <1>3, <2>2, <3>1 DEF InTurn, Elects, Lists, Tells
  <2> QED
    BY <1>2, <2>1, <2>2
<1>6. \A e \in Peers : \A i \in DOMAIN todo'[e] : InTurn(e, i)'
  <2> SUFFICES ASSUME NEW e \in Peers, e # d, NEW i \in DOMAIN todo'[e] PROVE InTurn(e, i)'
    BY <1>5
  <2>1. todo'[e] = todo[e] /\ InTurn(e, i)
    BY <1>2, <1>4
  <2> QED
    BY <1>3, <2>1 DEF InTurn, Elects, Lists, Tells
<1>7. commands # <<>> => todo'[d] # <<>> /\ todo'[d][1] = commands[1]
  BY <1>1, <1>2
<1>8. ASSUME commands = <<>>, todo'[d] # <<>> PROVE ~Elects(todo'[d][1])
  <2>1. 1 \in DOMAIN todo'[d] /\ DOMAIN commands = {}
    BY <1>1, <1>8, EmptySeq
  <2>2. PICK j \in DOMAIN todo[d] : j # 1 /\ todo'[d][1] = todo[d][j]
    BY <1>2, <2>1
  <2>3. InTurn(d, j)
    BY <1>4
  <2> QED
    BY <2>2, <2>3 DEF InTurn
<1> QED
  BY <1>2, <1>3, <1>6, <1>7, <1>8

\* A handler that goes on with its list, sends nothing to a controller, and announces
\* as it did.
LEMMA WorkOnKeepsNews ==
    ASSUME TypeOK, ToldInv, NewsInv, NEW d \in Peers, todo[d] # <<>>,
           NEW commands \in Seq(Commands), Len(commands) <= 1, Replace(d, commands),
           conn' = conn, primary' = primary, crossed' = crossed, omitted' = omitted,
           view' = view, active' = active, inbox' = inbox,
           Head(todo[d]).op \notin {"die", "read", "fetch", "reply", "set"},
           \A k \in DOMAIN commands :
              /\ commands[k].op # "die"
              /\ Elects(commands[k]) => Elects(Head(todo[d]))
              /\ Lists(commands[k]) => Lists(Head(todo[d])),
           commands # <<>> /\ Tells(commands[1], "primary") =>
              Tells(Head(todo[d]), "primary") /\ commands[1].frame = Head(todo[d]).frame,
           \A c \in Controllers : conn[c] = "up" /\ Calls(Head(todo[d]), c) =>
              commands # <<>> /\ Calls(commands[1], c)
    PROVE  NewsInv'
<1>1. /\ 1 \in DOMAIN todo[d] /\ todo[d][1] = Head(todo[d])
      /\ \A e \in Peers : e # d => todo'[e] = todo[e]
      /\ \A e \in Peers : \A i \in DOMAIN todo'[e] : InTurn(e, i)'
      /\ \A e \in Peers : Leaving(e)' <=> Leaving(e)
      /\ commands # <<>> => todo'[d] # <<>> /\ todo'[d][1] = commands[1]
      /\ commands = <<>> => (todo'[d] # <<>> => ~Elects(todo'[d][1]))
  BY ReplaceInTurn
<1>2. \A c \in Controllers : \A i \in DOMAIN inbox'[c] : LastWords(c, i)'
  BY DEF NewsInv, LastWords, Listing
<1>3. \A e \in Peers : Speaks(e)' => Speaks(e) /\ todo'[e][1].frame = todo[e][1].frame
  BY <1>1 DEF Speaks, Tells, Elects
<1>4. ~crossed' => OneVoice'
  BY <1>3 DEF NewsInv, OneVoice
<1>5. ASSUME NEW c \in Controllers, conn[c] = "up", Informed(c), primary # NoDevice
      PROVE  Informed(c)'
  <2>0. c \in Peers
    BY DEF Peers
  <2>1. Choosing(c) => Choosing(c)'
    BY <1>1, <2>0 DEF Choosing
  <2>2. Reading(c) => Reading(c)'
    BY <1>1, <2>0 DEF Reading
  <2>3. ASSUME Heralded(c) PROVE Heralded(c)'
    <3>1. PICK e \in Peers : todo[e] # <<>> /\ Calls(todo[e][1], c)
      BY <2>3 DEF Heralded
    <3>2. todo'[e] # <<>> /\ Calls(todo'[e][1], c)
      BY <1>1, <1>5, <3>1
    <3> QED
      BY <3>2 DEF Heralded, Calls, Tells
  <2>4. primary \in Players /\ \A p \in Players : Leaving(p) => Leaving(p)'
    BY <1>1, <1>5 DEF TypeOK, Peers
  <2> QED
    BY <1>5, <2>1, <2>2, <2>3, <2>4, InformedKept
<1> QED
  BY <1>1, <1>2, <1>4, <1>5 DEF NewsInv

\* The handlers' steps that leave the primary alone.
LEMMA HandlersKeepNews ==
    ASSUME TypeOK, ToldInv, NewsInv, NEW d \in Peers,
           \/ List(d) \/ SendToNobody(d)
           \/ d \in Players /\ (EnsurePrimary(d) \/ Forget(d) \/ LeavePrimary(d))
           \/ d \in Controllers /\ Relay(d)
    PROVE  NewsInv'
<1>0. /\ todo[d] # <<>> /\ 1 \in DOMAIN todo[d] /\ todo[d][1] = Head(todo[d])
      /\ conn' = conn /\ primary' = primary /\ crossed' = crossed /\ omitted' = omitted
      /\ view' = view /\ active' = active /\ inbox' = inbox
      /\ Head(todo[d]).op \in {"list", "send", "ensure", "forget", "leave", "relay"}
  BY HeadHonest DEF List, SendToNobody, EnsurePrimary, Forget, LeavePrimary, Relay, Run, clients, history
<1>1. ASSUME Done(d), \A c \in Controllers : conn[c] = "up" => ~Calls(Head(todo[d]), c)
      PROVE  NewsInv'
  <2>1. <<>> \in Seq(Commands) /\ Len(<<>>) <= 1 /\ DOMAIN <<>> = {} /\ Replace(d, <<>>)
    BY <1>1, EmptySeq DEF Done
  <2> QED
    BY <1>0, <1>1, <2>1, WorkOnKeepsNews
<1>2. ASSUME NEW m \in Commands, Replace(d, <<m>>), m.op # "die",
             Elects(m) => Elects(Head(todo[d])),
             Lists(m) => Lists(Head(todo[d])),
             Tells(m, "primary") => Tells(Head(todo[d]), "primary") /\ m.frame = Head(todo[d]).frame,
             \A c \in Controllers : conn[c] = "up" /\ Calls(Head(todo[d]), c) => Calls(m, c)
      PROVE  NewsInv'
  <2> DEFINE commands == <<m>>
  <2>1. /\ commands \in Seq(Commands) /\ Len(commands) <= 1 /\ commands # <<>>
        /\ DOMAIN commands = {1} /\ commands[1] = m /\ Replace(d, commands)
    BY <1>2
  <2> HIDE DEF commands
  <2> QED
    BY <1>0, <1>2, <2>1, WorkOnKeepsNews
<1>3. CASE List(d)
  <2> DEFINE frame == Head(todo[d]).frame
             to    == Audience(frame)
             m     == [op |-> "send", frame |-> frame, to |-> to]
  <2>1. /\ Head(todo[d]).op = "list" /\ frame \in StateFrames \cup CommandFrames /\ to \in SUBSET Peers
        /\ Replace(d, IF to = {} THEN <<>> ELSE <<m>>)
    BY <1>0, <1>3, HeadTypes DEF List, Run, Audience, Peers
  <2>2. \A c \in Controllers : conn[c] = "up" /\ Calls(Head(todo[d]), c) => c \in to
    BY DEF Calls, Tells, Audience
  <2>3. CASE to = {}
    BY <1>1, <2>1, <2>2, <2>3 DEF Done
  <2>4. CASE to # {}
    <3>1. m \in Commands /\ Replace(d, <<m>>)
      BY <2>1, <2>4, CommandTypes
    <3>2. /\ m.op # "die" /\ (Elects(m) => Elects(Head(todo[d]))) /\ (Lists(m) => Lists(Head(todo[d])))
          /\ Tells(m, "primary") => Tells(Head(todo[d]), "primary") /\ m.frame = Head(todo[d]).frame
          /\ \A c \in Controllers : conn[c] = "up" /\ Calls(Head(todo[d]), c) => Calls(m, c)
      BY <2>1, <2>2 DEF Elects, Lists, Tells, Calls
    <3> HIDE DEF m, to, frame
    <3> QED
      BY <1>2, <3>1, <3>2
  <2> QED
    BY <2>3, <2>4
<1>4. CASE SendToNobody(d)
  <2>1. \A c : ~Calls(Head(todo[d]), c)
    BY <1>4 DEF SendToNobody, Run, Calls
  <2> QED
    BY <1>1, <1>4, <2>1 DEF SendToNobody
<1>5. ASSUME NEW m \in Commands, Replace(d, <<m>>), m.op \in {"clear", "list", "send", "set"},
             Head(todo[d]).op \in {"ensure", "leave", "relay"},
             m.op = "set" => Head(todo[d]).op = "ensure",
             m.op \in {"list", "send"} => m.frame.kind = "command"
      PROVE  NewsInv'
  <2>1. /\ m.op # "die" /\ (Elects(m) => Elects(Head(todo[d]))) /\ ~Lists(m) /\ ~Tells(m, "primary")
        /\ \A c : ~Calls(Head(todo[d]), c)
    BY <1>5 DEF Elects, Lists, Tells, Calls
  <2> QED
    BY <1>2, <1>5, <2>1
<1>6. ASSUME Done(d), Head(todo[d]).op \in {"ensure", "forget", "leave"} PROVE NewsInv'
  <2>1. \A c : ~Calls(Head(todo[d]), c)
    BY <1>6 DEF Calls, Tells
  <2> QED
    BY <1>1, <1>6, <2>1
<1>7. CASE d \in Players /\ EnsurePrimary(d)
  <2> DEFINE m == [op |-> "set", device |-> d]
  <2>1. m \in Commands /\ m.op = "set" /\ Head(todo[d]).op = "ensure" /\ (Done(d) \/ Replace(d, <<m>>))
    BY <1>7, CommandTypes DEF EnsurePrimary, Run
  <2> HIDE DEF m
  <2> QED
    BY <1>5, <1>6, <2>1
<1>8. CASE d \in Players /\ Forget(d)
  BY <1>6, <1>8 DEF Forget, Run
<1>9. CASE d \in Players /\ LeavePrimary(d)
  <2> DEFINE m == [op |-> "clear"]
  <2>1. m \in Commands /\ m.op = "clear" /\ Head(todo[d]).op = "leave" /\ (Done(d) \/ Replace(d, <<m>>))
    BY <1>9, CommandTypes DEF LeavePrimary, Run, Done
  <2> HIDE DEF m
  <2> QED
    BY <1>5, <1>6, <2>1
<1>10. CASE d \in Controllers /\ Relay(d)
  <2> DEFINE aim   == Head(todo[d]).aim
             frame == [kind |-> "command", aim |-> aim]
             m1    == [op |-> "send", frame |-> frame, to |-> {aim}]
             m2    == [op |-> "list", frame |-> frame]
  <2>1. /\ Head(todo[d]).op = "relay"
        /\ (aim # NoDevice /\ conn[aim] = "up" /\ Replace(d, <<m1>>)) \/ Replace(d, <<m2>>)
    BY <1>10 DEF Relay, Run, Tell
  <2>2. aim \in Players \cup {NoDevice} /\ frame \in CommandFrames
    BY <1>0, <2>1, HeadTypes, FrameTypes
  <2>3. m2 \in Commands /\ m2.op = "list" /\ m2.frame.kind = "command"
    BY <2>2, CommandTypes
  <2>4. aim # NoDevice => m1 \in Commands /\ m1.op = "send" /\ m1.frame.kind = "command"
    <3>1. aim # NoDevice => {aim} \in SUBSET Peers
      BY <2>2 DEF Peers
    <3> QED
      BY <2>2, <3>1, CommandTypes
  <2> HIDE DEF m1, m2, frame
  <2> QED
    BY <1>5, <2>1, <2>3, <2>4
<1> QED
  BY <1>3, <1>4, <1>7, <1>8, <1>9, <1>10

\* Who sets the primary alone is the one to announce it, to everybody.
LEMMA SetKeepsNews ==
    ASSUME TypeOK, ToldInv, NewsInv, NEW d \in Peers, SetPrimary(d) PROVE NewsInv'
<1> DEFINE p    == Head(todo[d]).device
           m    == [op |-> "list", frame |-> PrimaryFrame(p)]
           list == <<m>>
<1>1. /\ todo[d] # <<>> /\ Head(todo[d]).op = "set" /\ Replace(d, Tell(PrimaryFrame(p)))
      /\ primary' = p /\ inbox' = inbox
      /\ crossed' = \E e \in Peers \ {d} : Announces(e)
  BY DEF SetPrimary, Run
<1>2. p \in Players /\ m \in Commands /\ m.op = "list" /\ m.frame.kind = "primary" /\ m.frame.device = p
  BY <1>1, HeadTypes, CommandTypes, FrameTypes DEF PrimaryFrame
<1>3. Replace(d, list)
  BY <1>1 DEF Tell
<1> HIDE DEF m
<1>4. list \in Seq(Commands) /\ Len(list) <= 1 /\ list # <<>> /\ DOMAIN list = {1} /\ list[1] = m
  BY <1>2
<1> HIDE DEF list, p
<1>5. /\ m.op # "die" /\ Elects(Head(todo[d])) /\ ~Lists(m)
  BY <1>1, <1>2 DEF Elects, Lists, Tells
<1>6. /\ \A e \in Peers : e # d => todo'[e] = todo[e]
      /\ \A e \in Peers : \A i \in DOMAIN todo'[e] : InTurn(e, i)'
      /\ todo'[d] # <<>> /\ todo'[d][1] = m
  BY <1>1, <1>3, <1>4, <1>5, ReplaceInTurn
<1>7. \A c \in Controllers : \A i \in DOMAIN inbox'[c] : LastWords(c, i)'
  BY <1>1 DEF NewsInv, LastWords, Listing
<1>8. ASSUME ~crossed' PROVE OneVoice'
  <2>1. ASSUME NEW e \in Peers, e # d PROVE ~Speaks(e)'
    <3>1. ~Announces(e) /\ todo'[e] = todo[e]
      BY <1>1, <1>6, <1>8, <2>1
    <3>2. todo[e] # <<>> => 1 \in DOMAIN todo[e]
      BY DEF TypeOK
    <3> QED
      BY <3>1, <3>2 DEF Announces, Speaks, Tells
  <2> QED
    BY <1>1, <1>2, <1>6, <2>1 DEF OneVoice
<1>9. ASSUME NEW c \in Controllers PROVE Informed(c)'
  BY <1>2, <1>6 DEF Informed, Heralded, Calls, Tells
<1> QED
  BY <1>6, <1>7, <1>8, <1>9 DEF NewsInv

\* Who clears it leaves nothing to be told.
LEMMA ClearKeepsNews ==
    ASSUME TypeOK, ToldInv, NewsInv, NEW d \in Players, ClearPrimary(d) PROVE NewsInv'
<1>1. /\ d \in Peers /\ todo[d] # <<>> /\ Head(todo[d]).op = "clear" /\ Replace(d, <<>>)
      /\ primary' = NoDevice /\ inbox' = inbox /\ crossed' = crossed
  BY DEF ClearPrimary, Run, Done, Peers, history
<1>2. <<>> \in Seq(Commands) /\ Len(<<>>) <= 1 /\ DOMAIN <<>> = {}
  BY EmptySeq
<1>3. /\ \A e \in Peers : e # d => todo'[e] = todo[e]
      /\ \A e \in Peers : \A i \in DOMAIN todo'[e] : InTurn(e, i)'
      /\ todo'[d] # <<>> => ~Elects(todo'[d][1])
  BY <1>1, <1>2, ReplaceInTurn
<1>4. \A c \in Controllers : \A i \in DOMAIN inbox'[c] : LastWords(c, i)'
  BY <1>1 DEF NewsInv, LastWords, Listing
<1>5. \A e \in Peers : Speaks(e)' => Speaks(e)
  BY <1>3 DEF Speaks, Elects, Tells
<1>6. ~crossed' => OneVoice'
  BY <1>1, <1>5 DEF NewsInv, OneVoice
<1> QED
  BY <1>1, <1>3, <1>4, <1>6 DEF NewsInv

\* A frame that reaches a controller is the last of those that say who the primary is,
\* or none of them, and lists no player that has left.
LEMMA SendKeepsNews ==
    ASSUME TypeOK, ToldInv, NewsInv, NEW d \in Peers, NEW r \in Peers, SendTo(d, r) PROVE NewsInv'
<1> DEFINE send == Head(todo[d])
           rest == [send EXCEPT !.to = @ \ {r}]
           f    == send.frame
<1>0. /\ Controllers \subseteq Peers /\ Players \subseteq Peers
      /\ conn' = conn /\ primary' = primary /\ view' = view /\ active' = active
      /\ crossed' = crossed /\ omitted' = omitted
      /\ todo[d] # <<>> /\ send.op = "send" /\ r \in send.to
      /\ Replace(d, IF send.to = {r} THEN <<>> ELSE <<rest>>)
      /\ inbox' = [inbox EXCEPT ![r] = Append(@, f)]
  BY DEF Peers, SendTo, Run, clients, history
<1>1. /\ send \in [op : {"send"}, frame : StateFrames \cup CommandFrames, to : SUBSET Peers]
      /\ Honest(d, send) /\ conn[d] = "up" /\ todo[d][1] = send /\ 1 \in DOMAIN todo[d]
  BY <1>0, HeadTypes, HeadHonest
<1>2. rest \in Commands /\ rest.op = "send" /\ rest.frame = f /\ rest.to = send.to \ {r}
  <2>1. rest \in [op : {"send"}, frame : StateFrames \cup CommandFrames, to : SUBSET Peers]
    BY <1>1
  <2> QED
    BY <1>1, <2>1 DEF Commands
<1>3. f \in Frames /\ f.kind # "devices"
  BY <1>1 DEF Frames, StateFrames, CommandFrames
<1>4. ASSUME NEW p, Listing(f, p) PROVE p = d /\ conn[p] = "up" /\ ~Leaving(p)
  <2>1. Lists(send) /\ p = d
    BY <1>0, <1>1, <1>4 DEF Listing, Lists, Tells, Honest
  <2>2. InTurn(d, 1)
    BY <1>1 DEF NewsInv
  <2> QED
    BY <1>1, <2>1, <2>2 DEF InTurn
<1>5. Tells(send, "primary") <=> Electing(f)
  BY <1>0 DEF Tells, Electing
<1> HIDE DEF rest, send, f
<1>6. PICK commands \in Seq(Commands) :
         /\ Replace(d, commands) /\ Len(commands) <= 1
         /\ commands = <<>> => send.to = {r}
         /\ commands # <<>> => commands[1] = rest
         /\ \A k \in DOMAIN commands : commands[k] = rest
  <2>1. CASE send.to = {r}
    <3>1. <<>> \in Seq(Commands) /\ Len(<<>>) <= 1 /\ DOMAIN <<>> = {}
      BY EmptySeq
    <3> QED
      BY <1>0, <2>1, <3>1
  <2>2. CASE send.to # {r}
    <3> DEFINE list == <<rest>>
    <3>1. /\ list \in Seq(Commands) /\ Len(list) <= 1 /\ list # <<>>
          /\ DOMAIN list = {1} /\ list[1] = rest /\ Replace(d, list)
      BY <1>0, <1>2, <2>2
    <3> HIDE DEF list
    <3>2. \A k \in DOMAIN list : list[k] = rest
      BY <3>1
    <3> QED
      BY <3>1, <3>2
  <2> QED
    BY <2>1, <2>2
<1>7. rest.op # "die" /\ (Elects(rest) => Elects(send)) /\ (Lists(rest) => Lists(send)) /\ send.op # "die"
  BY <1>0, <1>2 DEF Elects, Lists, Tells, f
<1>8. /\ \A e \in Peers : e # d => todo'[e] = todo[e]
      /\ \A e \in Peers : \A i \in DOMAIN todo'[e] : InTurn(e, i)'
      /\ \A e \in Peers : Leaving(e)' <=> Leaving(e)
      /\ commands # <<>> => todo'[d] # <<>> /\ todo'[d][1] = commands[1]
      /\ commands = <<>> => (todo'[d] # <<>> => ~Elects(todo'[d][1]))
  BY <1>0, <1>6, <1>7, ReplaceInTurn DEF send
<1>9. /\ inbox[r] \in Seq(Frames) /\ inbox'[r] = Append(inbox[r], f)
      /\ \A e \in Peers : e # r => inbox'[e] = inbox[e]
  BY <1>0 DEF TypeOK
<1>10. PICK last :
          /\ last \in Nat
          /\ DOMAIN inbox'[r] = DOMAIN inbox[r] \cup {last} /\ inbox'[r][last] = f /\ inbox'[r] # <<>>
          /\ \A j \in DOMAIN inbox[r] : j \in Nat /\ j < last /\ inbox'[r][j] = inbox[r][j]
          /\ inbox[r] # <<>> => 1 \in DOMAIN inbox[r]
          /\ inbox[r] = <<>> => last = 1
  <2>1. PICK last : last = Len(inbox[r]) + 1
    OBVIOUS
  <2>2. /\ DOMAIN inbox'[r] = DOMAIN inbox[r] \cup {Len(inbox[r]) + 1}
        /\ inbox'[r][Len(inbox[r]) + 1] = f /\ inbox'[r] # <<>>
        /\ \A j \in DOMAIN inbox[r] :
              j \in Nat /\ j < Len(inbox[r]) + 1 /\ inbox'[r][j] = inbox[r][j]
        /\ inbox[r] # <<>> => 1 \in DOMAIN inbox[r]
        /\ inbox[r] = <<>> => Len(inbox[r]) + 1 = 1
        /\ Len(inbox[r]) + 1 \in Nat
    <3> DEFINE s == inbox[r]
               t == inbox'[r]
    <3>1. f \in Frames /\ s \in Seq(Frames) /\ t = Append(s, f)
      BY <1>3, <1>9
    <3> HIDE DEF s, t
    <3>2. /\ DOMAIN t = DOMAIN s \cup {Len(s) + 1} /\ t[Len(s) + 1] = f /\ t # <<>>
          /\ \A j \in DOMAIN s : j \in Nat /\ j < Len(s) + 1 /\ t[j] = s[j]
          /\ s # <<>> => 1 \in DOMAIN s
          /\ s = <<>> => Len(s) + 1 = 1
          /\ Len(s) + 1 \in Nat
      BY <3>1, AppendFacts
    <3> QED
      BY <3>2 DEF s, t
  <2> QED
    BY <2>1, <2>2
<1>11. \A c \in Controllers : \A i \in DOMAIN inbox'[c] : LastWords(c, i)'
  <2> SUFFICES ASSUME NEW c \in Controllers, NEW i \in DOMAIN inbox'[c], inbox'[c][i].kind = "unregistered",
                      NEW j \in DOMAIN inbox'[c], j > i
               PROVE  ~Listing(inbox'[c][j], inbox'[c][i].device)
    BY DEF LastWords, Listing
  <2>1. CASE c # r
    BY <1>0, <1>9, <2>1 DEF NewsInv, LastWords
  <2>2. CASE c = r
    <3>1. i \in DOMAIN inbox[c] /\ inbox'[c][i] = inbox[c][i]
      BY <1>10, <2>2
    <3>2. CASE j # last
      BY <1>10, <2>2, <3>1, <3>2 DEF NewsInv, LastWords
    <3>3. CASE j = last
      <4>1. InOrder(c, i) /\ inbox[c][i].kind = "unregistered"
        BY <3>1 DEF ToldInv
      <4>2. conn[inbox[c][i].device] = "gone" \/ Leaving(inbox[c][i].device)
        BY <4>1 DEF InOrder
      <4> QED
        BY <1>4, <1>10, <2>2, <3>1, <3>3, <4>2
    <3> QED
      BY <3>2, <3>3
  <2> QED
    BY <2>1, <2>2
<1>12. \A e \in Peers : Speaks(e)' => Speaks(e) /\ todo'[e][1].frame = todo[e][1].frame
  <2> SUFFICES ASSUME NEW e \in Peers, Speaks(e)'
               PROVE  Speaks(e) /\ todo'[e][1].frame = todo[e][1].frame
    OBVIOUS
  <2>1. CASE e # d
    BY <1>8, <2>1 DEF Speaks, Tells
  <2>2. CASE e = d
    <3>1. todo'[d] # <<>> /\ Tells(todo'[d][1], "primary")
      BY <2>2 DEF Speaks, Tells
    <3>2. commands # <<>>
      BY <1>8, <3>1 DEF Elects
    <3>3. todo'[d][1] = rest
      BY <1>6, <1>8, <3>2
    <3>4. rest.frame = send.frame /\ send.op = "send"
      BY <1>0, <1>2 DEF f
    <3>5. Tells(send, "primary")
      BY <3>1, <3>3, <3>4 DEF Tells
    <3> QED
      BY <1>0, <1>1, <2>2, <3>3, <3>4, <3>5 DEF Speaks, send
  <2> QED
    BY <2>1, <2>2
<1>13. ~crossed' => OneVoice'
  BY <1>0, <1>12 DEF NewsInv, OneVoice
<1>14. ASSUME NEW c \in Controllers, conn[c] = "up", Informed(c), ~crossed, primary # NoDevice
       PROVE  Informed(c)'
  <2>0. c \in Peers /\ primary \in Players
    BY <1>0, <1>14 DEF TypeOK
  <2>1. Choosing(c) => Choosing(c)'
    BY <1>0, <1>1, <1>8, <2>0 DEF Choosing
  <2>2. Reading(c) => Reading(c)'
    BY <1>0, <1>1, <1>8, <2>0 DEF Reading
  <2>3. ASSUME Heralded(c), ~(c = r /\ Electing(f)) PROVE Heralded(c)'
    <3>1. PICK e \in Peers : todo[e] # <<>> /\ Calls(todo[e][1], c)
      BY <2>3 DEF Heralded
    <3>2. CASE e # d
      BY <1>8, <3>1, <3>2 DEF Heralded, Calls, Tells
    <3>3. CASE e = d
      <4>1. Calls(send, c) /\ c # r
        BY <1>1, <1>5, <2>3, <3>1, <3>3 DEF Calls
      <4>2. Calls(rest, c) /\ send.to # {r}
        BY <1>0, <1>2, <4>1 DEF Calls, Tells, f
      <4>3. todo'[d] # <<>> /\ todo'[d][1] = rest
        BY <1>6, <1>8, <4>2
      <4> QED
        BY <4>2, <4>3 DEF Heralded, Calls, Tells
    <3> QED
      BY <3>2, <3>3
  <2>4. \A p \in Players : Leaving(p) => Leaving(p)'
    BY <1>0, <1>8
  <2>5. CASE c # r
    <3>1. inbox'[c] = inbox[c]
      BY <1>9, <2>0, <2>5
    <3> QED
      BY <1>0, <1>14, <2>0, <2>1, <2>2, <2>3, <2>4, <2>5, <3>1, InformedKept
  <2>6. CASE c = r /\ Electing(f)
    <3>1. Speaks(d)
      BY <1>0, <1>1, <1>5, <2>6 DEF Speaks
    <3>2. f.device = primary
      BY <1>1, <1>14, <3>1 DEF NewsInv, OneVoice, f
    <3>3. \A j \in DOMAIN inbox'[c] : ~(j > last)
      BY <1>10, <2>6
    <3> QED
      BY <1>0, <1>10, <2>6, <3>2, <3>3 DEF Informed, Coming, Electing
  <2>7. CASE c = r /\ ~Electing(f)
    <3>1. CASE Choosing(c) \/ Heralded(c)
      BY <2>1, <2>3, <2>7, <3>1 DEF Informed
    <3>2. CASE Coming(c)
      <4>1. PICK i \in DOMAIN inbox[c] :
               /\ Electing(inbox[c][i]) /\ inbox[c][i].device = primary
               /\ \A j \in DOMAIN inbox[c] : j > i => ~Electing(inbox[c][j])
        BY <3>2 DEF Coming
      <4>2. \A j \in DOMAIN inbox'[c] : j > i => ~Electing(inbox'[c][j])
        BY <1>10, <2>7, <4>1
      <4>3. i \in DOMAIN inbox'[c] /\ inbox'[c][i] = inbox[c][i]
        BY <1>10, <2>7
      <4> QED
        BY <1>0, <4>1, <4>2, <4>3 DEF Informed, Coming, Electing
    <3>3. CASE Known(c)
      <4>1. \A j \in DOMAIN inbox'[c] : ~Electing(inbox'[c][j])
        BY <1>10, <2>7, <3>3 DEF Known
      <4>2. Bygone(primary, c) => Bygone(primary, c)'
        <5> SUFFICES ASSUME Bygone(primary, c) PROVE Bygone(primary, c)'
          OBVIOUS
        <5>1. ~Listing(f, primary)
          BY <1>4 DEF Bygone
        <5>2. \A j \in DOMAIN inbox'[c] : ~Listing(inbox'[c][j], primary)
          BY <1>10, <2>7, <5>1 DEF Bygone
        <5> QED
          BY <1>0, <2>0, <2>4, <5>2 DEF Bygone, Listing
      <4>3. (inbox'[c] # <<>> /\ inbox'[c][1].kind = "devices")
               <=> (inbox[c] # <<>> /\ inbox[c][1].kind = "devices")
        BY <1>3, <1>10, <2>7
      <4>4. inbox[c] # <<>> => inbox'[c][1] = inbox[c][1]
        BY <1>10, <2>7
      <4>5. Known(c)'
        BY <1>0, <2>2, <3>3, <4>1, <4>2, <4>3, <4>4 DEF Known, Electing
      <4> QED
        BY <4>5 DEF Informed
    <3> QED
      BY <1>14, <3>1, <3>2, <3>3 DEF Informed
  <2> QED
    BY <2>5, <2>6, <2>7
<1> QED
  BY <1>0, <1>8, <1>11, <1>13, <1>14 DEF NewsInv


\* A handler begins: it announces nothing yet.
LEMMA BeginKeepsNews ==
    ASSUME TypeOK, ToldInv, NewsInv, NEW d \in Peers, Idle(d),
           NEW commands \in Seq(Commands), commands # <<>>, Begin(d, commands),
           conn' = conn, primary' = primary, crossed' = crossed, omitted' = omitted,
           inbox' = inbox, view' = view,
           \A c \in Controllers : active'[c] = active[c] \/ (c = d /\ commands[1].op = "set"),
           \A k \in DOMAIN commands : Elects(commands[k]) => k = 1,
           (\E k \in DOMAIN commands : commands[k].op = "die") =>
              \A k \in DOMAIN commands : ~Elects(commands[k]) /\ ~Lists(commands[k]),
           ~Tells(commands[1], "primary")
    PROVE  NewsInv'
<1>1. todo[d] = <<>> /\ todo'[d] = commands /\ \A e \in Peers : e # d => todo'[e] = todo[e]
  BY DEF Idle, Begin, TypeOK
<1>2. \A e \in Peers : Leaving(e) => Leaving(e)'
  BY <1>1, EmptySeq DEF Leaving
<1>3. \A e \in Peers : \A i \in DOMAIN todo'[e] : InTurn(e, i)'
  <2> SUFFICES ASSUME NEW e \in Peers, NEW i \in DOMAIN todo'[e] PROVE InTurn(e, i)'
    OBVIOUS
  <2>1. CASE e = d
    BY <1>1, <2>1 DEF InTurn, Leaving, Elects, Lists, Tells
  <2>2. CASE e # d
    BY <1>1, <2>2 DEF NewsInv, InTurn, Leaving, Elects, Lists, Tells
  <2> QED
    BY <2>1, <2>2
<1>4. \A c \in Controllers : \A i \in DOMAIN inbox'[c] : LastWords(c, i)'
  BY DEF NewsInv, LastWords, Listing
<1>5. \A e \in Peers : Speaks(e)' => Speaks(e) /\ todo'[e] = todo[e]
  BY <1>1 DEF Speaks, Tells
<1>6. ~crossed' => OneVoice'
  BY <1>5 DEF NewsInv, OneVoice
<1>7. ASSUME NEW c \in Controllers, Informed(c), primary # NoDevice PROVE Informed(c)'
  <2>0. c \in Peers /\ Players \subseteq Peers /\ primary \in Players
    BY <1>7 DEF Peers, TypeOK
  <2>1. CASE active'[c] = active[c]
    <3>1. (Choosing(c) => Choosing(c)') /\ (Reading(c) => Reading(c)')
      BY <1>1, <2>0 DEF Choosing, Reading
    <3>2. Heralded(c) => Heralded(c)'
      BY <1>1 DEF Heralded, Calls, Tells
    <3> QED
      BY <1>2, <1>7, <2>0, <2>1, <3>1, <3>2, InformedKept
  <2>2. CASE c = d /\ commands[1].op = "set"
    BY <1>1, <2>2 DEF Informed, Choosing
  <2> QED
    BY <2>1, <2>2
<1> QED
  BY <1>3, <1>4, <1>6, <1>7 DEF NewsInv

LEMMA PlayerBeginsKeepNews ==
    ASSUME TypeOK, ToldInv, NewsInv, NEW p \in Players,
           PushQueue(p) \/ PlayerLeave(p) \/ \E t \in Tracks : PushTrack(p, t)
    PROVE  NewsInv'
<1>0. /\ p \in Peers /\ Idle(p)
      /\ conn' = conn /\ primary' = primary /\ crossed' = crossed /\ omitted' = omitted
      /\ inbox' = inbox /\ view' = view /\ active' = active
  BY DEF Peers, PushQueue, PlayerLeave, PushTrack, clients, history
<1>1. ASSUME NEW t \in Tracks, PushTrack(p, t) PROVE NewsInv'
  <2> DEFINE f    == [kind |-> "track", device |-> p, track |-> t]
             m1   == [op |-> "ensure"]
             m2   == [op |-> "list", frame |-> f]
             list == <<m1>> \o Tell(f)
  <2>1. m1 \in Commands /\ m2 \in Commands
    BY CommandTypes, FrameTypes
  <2>2. Begin(p, list)
    BY <1>1 DEF PushTrack
  <2>3. m1.op = "ensure" /\ m2.op = "list" /\ m2.frame.kind = "track"
    OBVIOUS
  <2>4. list = <<m1>> \o <<m2>>
    BY DEF Tell
  <2> HIDE DEF m1, m2, list
  <2>5. list \in Seq(Commands) /\ DOMAIN list = {1, 2} /\ list[1] = m1 /\ list[2] = m2
    BY <2>1, <2>4, TwoCommands
  <2>6. list # <<>>
    BY <2>5, EmptySeq
  <2>7. /\ \A k \in DOMAIN list : (Elects(list[k]) => k = 1) /\ list[k].op # "die"
        /\ ~Tells(list[1], "primary")
    BY <2>3, <2>5 DEF Elects, Tells
  <2> QED
    BY <1>0, <2>2, <2>5, <2>6, <2>7, BeginKeepsNews
<1>2. CASE PushQueue(p)
  <2> DEFINE f    == [kind |-> "queue", device |-> p]
             m    == [op |-> "list", frame |-> f]
             list == <<m>>
  <2>1. m \in Commands /\ Begin(p, list) /\ m.op = "list" /\ m.frame.kind = "queue"
    BY <1>2, CommandTypes, FrameTypes DEF PushQueue, Tell
  <2> HIDE DEF m
  <2>2. list \in Seq(Commands) /\ DOMAIN list = {1} /\ list[1] = m /\ list # <<>>
    BY <2>1
  <2> HIDE DEF list
  <2>3. /\ \A k \in DOMAIN list : ~Elects(list[k]) /\ list[k].op # "die"
        /\ ~Tells(list[1], "primary")
    BY <2>1, <2>2 DEF Elects, Tells
  <2> QED
    BY <1>0, <2>1, <2>2, <2>3, BeginKeepsNews
<1>3. CASE PlayerLeave(p)
  <2> DEFINE f    == [kind |-> "unregistered", device |-> p]
             m1   == [op |-> "list", frame |-> f]
             m2   == [op |-> "forget"]
             m3   == [op |-> "leave"]
             m4   == [op |-> "die"]
             list == Tell(f) \o <<m2, m3, m4>>
  <2>1. m1 \in Commands /\ m2 \in Commands /\ m3 \in Commands /\ m4 \in Commands
    BY CommandTypes, FrameTypes
  <2>2. Begin(p, list)
    BY <1>3 DEF PlayerLeave
  <2>3. list = <<m1>> \o <<m2, m3, m4>>
    BY DEF Tell
  <2>4. /\ m1.op = "list" /\ m1.frame.kind = "unregistered"
        /\ m2.op = "forget" /\ m3.op = "leave" /\ m4.op = "die"
    OBVIOUS
  <2> HIDE DEF m1, m2, m3, m4, list
  <2>5. /\ list \in Seq(Commands) /\ DOMAIN list = {1, 2, 3, 4}
        /\ list[1] = m1 /\ list[2] = m2 /\ list[3] = m3 /\ list[4] = m4
    BY <2>1, <2>3, FourCommands
  <2>6. list # <<>>
    BY <2>5, EmptySeq
  <2>7. /\ \A k \in DOMAIN list : ~Elects(list[k]) /\ ~Lists(list[k])
        /\ ~Tells(list[1], "primary")
    BY <2>4, <2>5 DEF Elects, Lists, Tells
  <2> QED
    BY <1>0, <2>2, <2>5, <2>6, <2>7, BeginKeepsNews
<1> QED
  BY <1>1, <1>2, <1>3

\* What the controllers know, and the lists of all, stay.
LEMMA AsideKeepsNews ==
    ASSUME TypeOK, ToldInv, NewsInv,
           todo' = todo, primary' = primary, crossed' = crossed, omitted' = omitted, view' = view,
           \A c \in Controllers : /\ inbox'[c] = inbox[c] /\ conn'[c] = conn[c]
                                  /\ active'[c] = active[c] \/ conn[c] # "up",
           \A p \in Players : conn[p] = "gone" => conn'[p] = "gone"
    PROVE  NewsInv'
<1>1. \A e : Leaving(e)' <=> Leaving(e)
  BY DEF Leaving
<1>2. \A e \in Peers : \A i \in DOMAIN todo'[e] : InTurn(e, i)'
  BY <1>1 DEF NewsInv, InTurn, Elects, Lists, Tells
<1>3. \A c \in Controllers : \A i \in DOMAIN inbox'[c] : LastWords(c, i)'
  BY DEF NewsInv, LastWords, Listing
<1>4. ~crossed' => OneVoice'
  BY DEF NewsInv, OneVoice, Speaks, Tells
<1>5. ASSUME NEW c \in Controllers, conn[c] = "up", Informed(c), primary # NoDevice
      PROVE  Informed(c)'
  <2>1. primary \in Players
    BY <1>5 DEF TypeOK
  <2>2. /\ Choosing(c) => Choosing(c)'
        /\ Heralded(c) => Heralded(c)'
        /\ Reading(c) => Reading(c)'
    BY DEF Choosing, Heralded, Reading, Calls, Tells
  <2> QED
    BY <1>1, <1>5, <2>1, <2>2, InformedKept
<1> QED
  BY <1>2, <1>3, <1>4, <1>5 DEF NewsInv

LEMMA PlayerAsideKeepsNews ==
    ASSUME TypeOK, ToldInv, NewsInv, NEW p \in Players, PlayerRegister(p) \/ Expire(p) \/ Execute(p)
    PROVE  NewsInv'
<1>1. p \in Peers /\ p \notin Controllers /\ \A c \in Controllers : c \in Peers
  BY MirrorAssumption DEF Peers
<1>2. /\ todo' = todo /\ primary' = primary /\ crossed' = crossed /\ omitted' = omitted
      /\ view' = view /\ active' = active
      /\ \A c \in Controllers : inbox'[c] = inbox[c] /\ conn'[c] = conn[c]
  BY <1>1 DEF PlayerRegister, Expire, Execute, clients, history, TypeOK
<1>3. \A q \in Players : conn[q] = "gone" => conn'[q] = "gone"
  BY <1>1 DEF PlayerRegister, Expire, Execute, TypeOK, Peers
<1> QED
  BY <1>2, <1>3, AsideKeepsNews

\* A controller that picks while it is connected will set what it picked.
LEMMA ControllerBeginsKeepNews ==
    ASSUME TypeOK, ToldInv, NewsInv, NEW c \in Controllers, Press(c) \/ \E p \in Players : Pick(c, p)
    PROVE  NewsInv'
<1>0. /\ c \in Peers /\ todo[c] = <<>>
      /\ conn' = conn /\ primary' = primary /\ crossed' = crossed /\ omitted' = omitted
      /\ inbox' = inbox /\ view' = view
      /\ \A r \in Controllers : r # c => active'[r] = active[r]
  BY DEF Peers, Press, Pick, Idle, clients, history, TypeOK
<1>1. ASSUME NEW m \in Commands, Begin(c, <<m>>), conn[c] = "up",
             m.op = "set" \/ (m.op = "relay" /\ active' = active)
      PROVE  NewsInv'
  <2> DEFINE list == <<m>>
  <2>1. list \in Seq(Commands) /\ DOMAIN list = {1} /\ list[1] = m /\ list # <<>>
    OBVIOUS
  <2>2. Begin(c, list) /\ Idle(c)
    BY <1>0, <1>1 DEF Idle
  <2> HIDE DEF list
  <2>3. /\ \A k \in DOMAIN list : (Elects(list[k]) => k = 1) /\ list[k].op # "die"
        /\ ~Tells(list[1], "primary")
    BY <1>1, <2>1 DEF Tells
  <2>4. \A r \in Controllers : active'[r] = active[r] \/ (r = c /\ list[1].op = "set")
    BY <1>0, <1>1, <2>1
  <2> QED
    BY <1>0, <2>1, <2>2, <2>3, <2>4, BeginKeepsNews
<1>2. CASE Press(c)
  <2> DEFINE m == [op |-> "relay", aim |-> active[c]]
  <2>1. /\ m \in Commands /\ Begin(c, <<m>>) /\ m.op = "relay" /\ conn[c] = "up"
        /\ active' = active
    BY <1>2, CommandTypes DEF Press, Idle, TypeOK, clients
  <2> HIDE DEF m
  <2> QED
    BY <1>1, <2>1
<1>3. ASSUME NEW p \in Players, Pick(c, p), conn[c] = "up" PROVE NewsInv'
  <2> DEFINE m == [op |-> "set", device |-> p]
  <2>1. m \in Commands /\ Begin(c, <<m>>) /\ m.op = "set"
    BY <1>3, CommandTypes DEF Pick
  <2> HIDE DEF m
  <2> QED
    BY <1>1, <1>3, <2>1
<1>4. ASSUME NEW p \in Players, Pick(c, p), conn[c] # "up" PROVE NewsInv'
  <2>1. todo' = todo
    BY <1>4 DEF Pick
  <2>2. \A r \in Controllers : /\ inbox'[r] = inbox[r] /\ conn'[r] = conn[r]
                               /\ active'[r] = active[r] \/ conn[r] # "up"
    BY <1>0, <1>4
  <2> QED
    BY <1>0, <2>1, <2>2, AsideKeepsNews
<1> QED
  BY <1>2, <1>3, <1>4

\* A controller that joins will read the primary with its snapshot.
LEMMA JoinKeepsNews ==
    ASSUME TypeOK, ToldInv, NewsInv, NEW c \in Controllers, Join(c) PROVE NewsInv'
<1>0. /\ Controllers \subseteq Peers /\ Players \subseteq Peers /\ c \notin Players
      /\ todo[c] = <<>> /\ inbox[c] = <<>> /\ DOMAIN inbox[c] = {}
  BY MirrorAssumption, EmptySeq DEF Peers, Join, ToldInv, Absent
<1>1. /\ inbox' = inbox /\ view' = view /\ active' = active /\ primary' = primary
      /\ crossed' = crossed /\ omitted' = omitted
      /\ todo'[c] = <<[op |-> "read"]>> /\ \A e \in Peers : e # c => todo'[e] = todo[e]
      /\ conn'[c] = "up" /\ \A e \in Peers : e # c => conn'[e] = conn[e]
  BY <1>0 DEF Join, Begin, TypeOK, clients, history
<1>2. \A p \in Players : conn'[p] = conn[p] /\ (Leaving(p)' <=> Leaving(p))
  BY <1>0, <1>1 DEF Leaving
<1>3. /\ todo'[c] # <<>> /\ todo'[c][1].op = "read"
      /\ \A i \in DOMAIN todo'[c] : todo'[c][i].op = "read"
  BY <1>1
<1>4. \A e \in Peers : \A i \in DOMAIN todo'[e] : InTurn(e, i)'
  <2> SUFFICES ASSUME NEW e \in Peers, NEW i \in DOMAIN todo'[e] PROVE InTurn(e, i)'
    OBVIOUS
  <2>1. CASE e = c
    BY <1>3, <2>1 DEF InTurn, Leaving, Elects, Lists, Tells
  <2>2. CASE e # c
    BY <1>1, <2>2 DEF NewsInv, InTurn, Leaving, Elects, Lists, Tells
  <2> QED
    BY <2>1, <2>2
<1>5. \A r \in Controllers : \A i \in DOMAIN inbox'[r] : LastWords(r, i)'
  BY <1>1 DEF NewsInv, LastWords, Listing
<1>6. \A e \in Peers : Speaks(e)' => Speaks(e) /\ todo'[e] = todo[e]
  BY <1>1, <1>3 DEF Speaks, Tells
<1>7. ~crossed' => OneVoice'
  BY <1>1, <1>6 DEF NewsInv, OneVoice
<1>8. ASSUME NEW r \in Controllers, r # c, conn[r] = "up", Informed(r), primary # NoDevice
      PROVE  Informed(r)'
  <2>1. todo'[r] = todo[r] /\ primary \in Players
    BY <1>0, <1>1, <1>8 DEF TypeOK
  <2>2. /\ Choosing(r) => Choosing(r)'
        /\ Reading(r) => Reading(r)'
    BY <2>1 DEF Choosing, Reading
  <2>3. Heralded(r) => Heralded(r)'
    BY <1>0, <1>1 DEF Heralded, Calls, Tells
  <2> QED
    BY <1>1, <1>2, <1>8, <2>1, <2>2, <2>3, InformedKept
<1>9. Informed(c)'
  BY <1>0, <1>1, <1>3 DEF Informed, Known, Reading
<1> QED
  BY <1>0, <1>1, <1>4, <1>5, <1>7, <1>8, <1>9 DEF NewsInv

\* It reads on.
LEMMA ReadOnKeepsNews ==
    ASSUME TypeOK, ToldInv, NewsInv, NEW c \in Controllers, Reading(c),
           \A e \in Peers : e # c => todo'[e] = todo[e],
           DOMAIN todo'[c] = {1, 2}, todo'[c] # <<>>,
           todo'[c][1].op = "fetch", todo'[c][2].op = "reply",
           conn' = conn, primary' = primary, crossed' = crossed, omitted' = omitted,
           inbox' = inbox, view' = view, active' = active
    PROVE  NewsInv'
<1>0. Controllers \subseteq Peers /\ Players \subseteq Peers /\ c \notin Players
  BY MirrorAssumption DEF Peers
<1>1. \A p \in Players : Leaving(p)' <=> Leaving(p)
  BY <1>0 DEF Leaving
<1>2. \A e \in Peers : \A i \in DOMAIN todo'[e] : InTurn(e, i)'
  <2> SUFFICES ASSUME NEW e \in Peers, NEW i \in DOMAIN todo'[e] PROVE InTurn(e, i)'
    OBVIOUS
  <2>1. CASE e = c
    <3>1. todo'[e][i].op \in {"fetch", "reply"}
      BY <2>1
    <3> QED
      BY <3>1 DEF InTurn, Elects, Lists, Tells
  <2>2. CASE e # c
    BY <2>2 DEF NewsInv, InTurn, Leaving, Elects, Lists, Tells
  <2> QED
    BY <2>1, <2>2
<1>3. \A r \in Controllers : \A i \in DOMAIN inbox'[r] : LastWords(r, i)'
  BY DEF NewsInv, LastWords, Listing
<1>4. \A e \in Peers : Speaks(e)' => Speaks(e) /\ todo'[e] = todo[e]
  BY DEF Speaks, Tells
<1>5. ~crossed' => OneVoice'
  BY <1>4 DEF NewsInv, OneVoice
<1>6. ASSUME NEW r \in Controllers, Informed(r), primary # NoDevice PROVE Informed(r)'
  <2>1. primary \in Players
    BY <1>6 DEF TypeOK
  <2>2. /\ Choosing(r) => Choosing(r)'
        /\ Reading(r) => Reading(r)'
    BY <1>0 DEF Choosing, Reading
  <2>3. Heralded(r) => Heralded(r)'
    BY <1>0 DEF Heralded, Calls, Tells, Reading
  <2> QED
    BY <1>1, <1>6, <2>1, <2>2, <2>3, InformedKept
<1> QED
  BY <1>2, <1>3, <1>5, <1>6 DEF NewsInv

LEMMA ReadKeepsNews ==
    ASSUME TypeOK, ToldInv, NewsInv, NEW c \in Controllers,
           ReadMetas(c) \/ \E p \in Players : FetchNowPlaying(c, p)
    PROVE  NewsInv'
<1>0. /\ c \in Peers /\ todo[c] # <<>> /\ Head(todo[c]).op \in {"read", "fetch"}
      /\ conn' = conn /\ primary' = primary /\ crossed' = crossed /\ omitted' = omitted
      /\ inbox' = inbox /\ view' = view /\ active' = active
      /\ \A e \in Peers : e # c => todo'[e] = todo[e]
  BY DEF Peers, ReadMetas, FetchNowPlaying, Run, Replace, clients, history, TypeOK
<1>1. todo[c][1] = Head(todo[c]) /\ Reading(c) /\ todo[c] \in Seq(Commands)
  BY <1>0, HeadHonest DEF Reading, TypeOK
<1>2. CASE ReadMetas(c)
  <2> DEFINE m1   == [op |-> "fetch", from |-> {p \in Players : conn[p] = "up"}]
             m2   == [op |-> "reply"]
             list == <<m1, m2>>
  <2>1. m1 \in Commands /\ m2 \in Commands /\ m1.op = "fetch" /\ m2.op = "reply"
    BY CommandTypes
  <2>2. Len(todo[c]) = 1 /\ Replace(c, list)
    BY <1>1, <1>2 DEF ToldInv, AtOnce, ReadMetas, Run
  <2> HIDE DEF m1, m2
  <2>3. /\ list \in Seq(Commands) /\ DOMAIN list = {1, 2} /\ list # <<>>
        /\ list[1] = m1 /\ list[2] = m2
    BY <2>1
  <2> HIDE DEF list
  <2>4. todo'[c] = list
    BY <1>0, <2>2, <2>3, ReplaceFacts
  <2> QED
    BY <1>0, <1>1, <2>1, <2>3, <2>4, ReadOnKeepsNews
<1>3. ASSUME NEW q \in Players, FetchNowPlaying(c, q) PROVE NewsInv'
  <2> DEFINE fetch == Head(todo[c])
             rest  == [fetch EXCEPT !.from = @ \ {q}]
             list  == <<rest>> \o Tail(todo[c])
  <2>1. fetch.op = "fetch" /\ todo'[c] = list
    BY <1>0, <1>3 DEF FetchNowPlaying, Run, Replace, TypeOK
  <2>2. fetch \in [op : {"fetch"}, from : SUBSET Players]
    BY <1>0, <2>1, HeadTypes
  <2>3. rest.op = "fetch" /\ rest \in Commands
    <3>1. rest \in [op : {"fetch"}, from : SUBSET Players]
      BY <2>2
    <3> QED
      BY <3>1 DEF Commands
  <2>4. Len(todo[c]) = 2 /\ todo[c][2].op = "reply"
    BY <1>0, <1>1, <2>1 DEF ToldInv, AtOnce
  <2> HIDE DEF rest
  <2>5. Tail(todo[c]) \in Seq(Commands) /\ Len(Tail(todo[c])) = 1 /\ Tail(todo[c])[1] = todo[c][2]
    BY <1>0, <1>1, <2>4
  <2>6. /\ list \in Seq(Commands) /\ Len(list) = 2 /\ list[1] = rest
        /\ list[2] = Tail(todo[c])[1]
    BY <2>3, <2>5, OneBefore
  <2> HIDE DEF list, fetch
  <2>7. DOMAIN list = {1, 2} /\ list # <<>>
    <3>1. list \in Seq(Commands) /\ Len(list) = 2 /\ 1 .. 2 = {1, 2}
      BY <2>6
    <3>2. DOMAIN list = {1, 2}
      BY <3>1, LenProperties
    <3> QED
      BY <3>2, EmptySeq
  <2> QED
    BY <1>0, <1>1, <2>1, <2>3, <2>4, <2>5, <2>6, <2>7, ReadOnKeepsNews
<1> QED
  BY <1>2, <1>3

\* The snapshot brings the primary before all else, and lists it, or its controller
\* is one of those whose snapshot left it out.
LEMMA ReplyKeepsNews ==
    ASSUME TypeOK, ToldInv, NewsInv, NEW c \in Controllers, Reply(c) PROVE NewsInv'
<1> DEFINE f == [kind |-> "devices", primary |-> primary, devices |-> seen[c]]
<1>0. /\ Controllers \subseteq Peers /\ Players \subseteq Peers /\ c \notin Players /\ c \in Peers
      /\ conn' = conn /\ primary' = primary /\ view' = view /\ active' = active
      /\ crossed' = crossed
      /\ omitted' = IF primary \in DOMAIN seen[c] THEN omitted \ {c} ELSE omitted \cup {c}
  BY MirrorAssumption DEF Peers, Reply, clients
<1>1. Reading(c) /\ todo[c] # <<>>
  BY DEF Reply, Reading
<1>2. /\ todo'[c] = <<>> /\ \A e \in Peers : e # c => todo'[e] = todo[e]
      /\ inbox'[c] = <<f>> \o inbox[c] /\ \A e \in Peers : e # c => inbox'[e] = inbox[e]
  BY <1>0 DEF Reply, Begin, TypeOK
<1>3. /\ f.kind = "devices" /\ f.devices = seen[c] /\ f.primary = primary
      /\ f \in Frames /\ inbox[c] \in Seq(Frames)
  BY <1>0, FrameTypes DEF TypeOK
<1> HIDE DEF f
<1>4. /\ 1 \in DOMAIN inbox'[c] /\ inbox'[c][1] = f /\ inbox'[c] # <<>>
      /\ DOMAIN inbox[c] \subseteq Nat /\ DOMAIN inbox'[c] \subseteq Nat
      /\ \A j \in DOMAIN inbox[c] : j + 1 \in DOMAIN inbox'[c] /\ inbox'[c][j + 1] = inbox[c][j]
      /\ \A j \in DOMAIN inbox'[c] : j # 1 => j - 1 \in DOMAIN inbox[c] /\ inbox'[c][j] = inbox[c][j - 1]
  BY <1>2, <1>3, PrependFacts
<1>5. \A p \in Players : Leaving(p)' <=> Leaving(p)
  BY <1>0, <1>2 DEF Leaving
<1>6. \A e \in Peers : \A i \in DOMAIN todo'[e] : InTurn(e, i)'
  <2> SUFFICES ASSUME NEW e \in Peers, NEW i \in DOMAIN todo'[e] PROVE InTurn(e, i)'
    OBVIOUS
  <2>1. e # c
    BY <1>2, EmptySeq
  <2> QED
    BY <1>2, <2>1 DEF NewsInv, InTurn, Leaving, Elects, Lists, Tells
<1>7. \A r \in Controllers : \A i \in DOMAIN inbox'[r] : LastWords(r, i)'
  <2> SUFFICES ASSUME NEW r \in Controllers, NEW i \in DOMAIN inbox'[r],
                      inbox'[r][i].kind = "unregistered", NEW j \in DOMAIN inbox'[r], j > i
               PROVE  ~Listing(inbox'[r][j], inbox'[r][i].device)
    BY DEF LastWords, Listing
  <2>1. CASE r # c
    BY <1>0, <1>2, <2>1 DEF NewsInv, LastWords
  <2>2. CASE r = c
    <3>1. i # 1 /\ j # 1
      BY <1>3, <1>4, <2>2, EmptySeq
    <3>2. /\ i - 1 \in DOMAIN inbox[c] /\ inbox'[c][i] = inbox[c][i - 1]
          /\ j - 1 \in DOMAIN inbox[c] /\ inbox'[c][j] = inbox[c][j - 1] /\ j - 1 > i - 1
      BY <1>4, <2>2, <3>1
    <3> QED
      BY <2>2, <3>2 DEF NewsInv, LastWords
  <2> QED
    BY <2>1, <2>2
<1>8. \A e \in Peers : Speaks(e)' => Speaks(e) /\ todo'[e] = todo[e]
  BY <1>2 DEF Speaks, Tells
<1>9. ~crossed' => OneVoice'
  BY <1>0, <1>8 DEF NewsInv, OneVoice
<1>10. ASSUME NEW r \in Controllers, Informed(r), primary # NoDevice PROVE Informed(r)'
  <2>1. primary \in Players
    BY <1>10 DEF TypeOK
  <2>2. Heralded(r) => Heralded(r)'
    BY <1>0, <1>1, <1>2 DEF Heralded, Calls, Tells, Reading
  <2>3. CASE r # c
    <3>1. inbox'[r] = inbox[r] /\ todo'[r] = todo[r] /\ (r \in omitted => r \in omitted')
      BY <1>0, <1>2, <2>3
    <3>2. (Choosing(r) => Choosing(r)') /\ (Reading(r) => Reading(r)')
      BY <3>1 DEF Choosing, Reading
    <3> QED
      BY <1>0, <1>5, <1>10, <2>1, <2>2, <3>1, <3>2, InformedKept
  <2>4. CASE r = c /\ Coming(c)
    <3>1. PICK i \in DOMAIN inbox[c] :
             /\ Electing(inbox[c][i]) /\ inbox[c][i].device = primary
             /\ \A j \in DOMAIN inbox[c] : j > i => ~Electing(inbox[c][j])
      BY <2>4 DEF Coming
    <3>2. i + 1 \in DOMAIN inbox'[c] /\ inbox'[c][i + 1] = inbox[c][i]
      BY <1>4
    <3>3. ASSUME NEW j \in DOMAIN inbox'[c], j > i + 1 PROVE ~Electing(inbox'[c][j])
      <4>1. j - 1 \in DOMAIN inbox[c] /\ inbox'[c][j] = inbox[c][j - 1] /\ j - 1 > i
        BY <1>4, <3>3
      <4> QED
        BY <3>1, <4>1
    <3>4. Coming(c)'
      BY <1>0, <3>1, <3>2, <3>3 DEF Coming, Electing
    <3> QED
      BY <2>4, <3>4 DEF Informed
  <2>5. CASE r = c /\ Known(c)
    <3>1. ASSUME NEW j \in DOMAIN inbox'[c] PROVE ~Electing(inbox'[c][j])
      <4>1. CASE j = 1
        BY <1>3, <1>4, <4>1 DEF Electing
      <4>2. CASE j # 1
        BY <1>4, <2>5, <4>2 DEF Known
      <4> QED
        BY <4>1, <4>2
    <3>2. primary \in DOMAIN seen[c] \/ c \in omitted'
      BY <1>0
    <3>3. Known(c)'
      BY <1>0, <1>3, <1>4, <3>1, <3>2 DEF Known, Electing
    <3> QED
      BY <2>5, <3>3 DEF Informed
  <2>6. ~Choosing(c)
    BY <1>1 DEF Choosing, Reading
  <2> QED
    BY <1>10, <2>2, <2>3, <2>4, <2>5, <2>6 DEF Informed
<1> QED
  BY <1>0, <1>6, <1>7, <1>9, <1>10 DEF NewsInv

\* A process that ends cuts no announcement short, or the next one must be awaited.
LEMMA EndKeepsNews ==
    ASSUME TypeOK, ToldInv, NewsInv, NEW d \in Peers, NEW state \in {"away", "gone"},
           EndProcess(d, state), d \in Players => state = "gone",
           primary' = primary, view' = view, active' = active
    PROVE  NewsInv'
<1>0. /\ Controllers \subseteq Peers /\ Players \subseteq Peers
      /\ crossed' = (crossed \/ Announces(d)) /\ omitted' = omitted
  BY DEF Peers, EndProcess
<1>1. /\ conn'[d] = state /\ \A e \in Peers : e # d => conn'[e] = conn[e]
      /\ inbox'[d] = <<>> /\ \A e \in Peers : e # d => inbox'[e] = inbox[e]
      /\ todo'[d] = <<>> /\ \A e \in Peers : e # d => todo'[e] = Without(todo[e], d)
  BY DEF EndProcess, TypeOK
<1>2. ASSUME NEW e \in Peers, e # d
      PROVE  /\ DOMAIN todo'[e] = DOMAIN todo[e]
             /\ todo'[e] = <<>> <=> todo[e] = <<>>
             /\ todo[e] # <<>> => 1 \in DOMAIN todo[e]
             /\ \A i \in DOMAIN todo[e] :
                   /\ todo'[e][i].op = todo[e][i].op
                   /\ todo[e][i].op # "send" => todo'[e][i] = todo[e][i]
                   /\ todo[e][i].op = "send" => /\ todo'[e][i].frame = todo[e][i].frame
                                                /\ todo'[e][i].to = todo[e][i].to \ {d}
  <2>1. todo'[e] \in Seq(Commands) /\ todo[e] \in Seq(Commands)
    <3>1. todo' \in [Peers -> Seq(Commands)]
      BY EndProcessTypes
    <3> QED
      BY <3>1 DEF TypeOK
  <2>2. DOMAIN todo'[e] = DOMAIN todo[e]
    BY <1>1, <1>2, WithoutFacts
  <2>3. /\ todo'[e] = <<>> <=> todo[e] = <<>>
        /\ todo[e] # <<>> => 1 \in DOMAIN todo[e]
    BY <2>1, <2>2, SameLength
  <2>4. \A i \in DOMAIN todo[e] :
           /\ todo'[e][i].op = todo[e][i].op
           /\ todo[e][i].op # "send" => todo'[e][i] = todo[e][i]
           /\ todo[e][i].op = "send" => /\ todo'[e][i].frame = todo[e][i].frame
                                        /\ todo'[e][i].to = todo[e][i].to \ {d}
    BY <1>1, <1>2, WithoutFacts
  <2> QED
    BY <2>2, <2>3, <2>4
<1>3. DOMAIN todo'[d] = {} /\ DOMAIN inbox'[d] = {}
  BY <1>1, EmptySeq
<1>4. \A e \in Peers : e # d => (Leaving(e)' <=> Leaving(e))
  BY <1>2 DEF Leaving
<1>5. \A p \in Players : conn[p] = "gone" \/ Leaving(p) => conn'[p] = "gone" \/ Leaving(p)'
  BY <1>0, <1>1, <1>4
<1>6. ASSUME NEW e \in Peers, e # d, NEW i \in DOMAIN todo[e]
      PROVE  \A kind : /\ Tells(todo'[e][i], kind) <=> Tells(todo[e][i], kind)
                       /\ Tells(todo[e][i], kind) => todo'[e][i].frame = todo[e][i].frame
  BY <1>2, <1>6 DEF Tells
<1>7. \A e \in Peers : \A i \in DOMAIN todo'[e] : InTurn(e, i)'
  <2> SUFFICES ASSUME NEW e \in Peers, NEW i \in DOMAIN todo'[e] PROVE InTurn(e, i)'
    OBVIOUS
  <2>1. e # d /\ i \in DOMAIN todo[e] /\ InTurn(e, i)
    BY <1>2, <1>3 DEF NewsInv
  <2>2. todo'[e][i].op = todo[e][i].op
    BY <1>2, <2>1
  <2>3. (Elects(todo'[e][i]) <=> Elects(todo[e][i])) /\ (Lists(todo'[e][i]) <=> Lists(todo[e][i]))
    BY <1>6, <2>1, <2>2 DEF Elects, Lists
  <2> QED
    BY <1>4, <2>1, <2>3 DEF InTurn, Elects, Lists, Tells
<1>8. \A c \in Controllers : \A i \in DOMAIN inbox'[c] : LastWords(c, i)'
  <2> SUFFICES ASSUME NEW c \in Controllers, NEW i \in DOMAIN inbox'[c] PROVE LastWords(c, i)'
    OBVIOUS
  <2>1. inbox'[c] = inbox[c] /\ LastWords(c, i)
    BY <1>0, <1>1, <1>3 DEF NewsInv
  <2> QED
    BY <2>1 DEF LastWords, Listing
<1>9. \A e \in Peers : Speaks(e)' => Speaks(e) /\ todo'[e][1].frame = todo[e][1].frame
  BY <1>1, <1>2, <1>6 DEF Speaks, Tells
<1>10. ~crossed' => OneVoice'
  BY <1>0, <1>9 DEF NewsInv, OneVoice
<1>11. ASSUME NEW c \in Controllers, c # d, Informed(c), ~Announces(d), primary # NoDevice
       PROVE  Informed(c)'
  <2>1. c \in Peers /\ primary \in Players /\ inbox'[c] = inbox[c]
    BY <1>0, <1>1, <1>11 DEF TypeOK
  <2>2. (Choosing(c) => Choosing(c)') /\ (Reading(c) => Reading(c)')
    BY <1>2, <1>11, <2>1 DEF Choosing, Reading
  <2>3. ASSUME Heralded(c) PROVE Heralded(c)'
    <3>1. PICK e \in Peers : todo[e] # <<>> /\ Calls(todo[e][1], c)
      BY <2>3 DEF Heralded
    <3>2. 1 \in DOMAIN todo[e]
      BY <3>1 DEF TypeOK
    <3>3. e # d
      BY <1>11, <3>1, <3>2 DEF Announces, Calls, Tells
    <3>4. todo'[e] # <<>> /\ Calls(todo'[e][1], c)
      BY <1>2, <1>6, <1>11, <3>1, <3>2, <3>3 DEF Calls
    <3> QED
      BY <3>4 DEF Heralded, Calls, Tells
  <2> QED
    BY <1>0, <1>5, <1>11, <2>1, <2>2, <2>3, InformedKept
<1>12. \A c \in Controllers : conn'[c] = "up" => c # d /\ conn[c] = "up"
  BY <1>0, <1>1
<1> QED
  BY <1>0, <1>7, <1>8, <1>10, <1>11, <1>12 DEF NewsInv

LEMMA DieKeepsNews ==
    ASSUME TypeOK, ToldInv, NewsInv, NEW p \in Players, Die(p) PROVE NewsInv'
BY EndKeepsNews DEF Die, Peers, clients

LEMMA DropKeepsNews ==
    ASSUME TypeOK, ToldInv, NewsInv, NEW c \in Controllers, Drop(c) PROVE NewsInv'
<1>1. c \in Peers /\ c \notin Players
  BY MirrorAssumption DEF Peers
<1> QED
  BY <1>1, EndKeepsNews DEF Drop, clients

\* What a controller takes makes the primary active, or leaves it so, or takes it off
\* the list for good.
LEMMA TakeKeepsNews ==
    ASSUME TypeOK, ToldInv, NewsInv, NEW c \in Controllers, Take(c) PROVE NewsInv'
<1> DEFINE f == Head(inbox[c])
<1>0. /\ Controllers \subseteq Peers /\ Players \subseteq Peers
      /\ todo' = todo /\ conn' = conn /\ primary' = primary
      /\ crossed' = crossed /\ omitted' = omitted
      /\ inbox[c] # <<>> /\ todo[c] = <<>> /\ inbox[c] \in Seq(Frames)
      /\ inbox'[c] = Tail(inbox[c]) /\ \A e \in Peers : e # c => inbox'[e] = inbox[e]
  BY DEF Peers, Take, Receiving, TypeOK, history
<1>1. /\ TakeSnapshot(c, f) \/ TakeTrack(c, f) \/ TakeQueue(c, f)
            \/ TakeUnregistered(c, f) \/ TakePrimary(c, f)
      /\ f \in Frames /\ f = inbox[c][1] /\ 1 \in DOMAIN inbox[c]
  BY <1>0 DEF Take
<1> HIDE DEF f
<1>2. /\ \A j \in DOMAIN inbox'[c] :
            j + 1 \in DOMAIN inbox[c] /\ j + 1 # 1 /\ inbox'[c][j] = inbox[c][j + 1]
      /\ \A j \in DOMAIN inbox[c] :
            j # 1 => j - 1 \in DOMAIN inbox'[c] /\ inbox'[c][j - 1] = inbox[c][j]
  BY <1>0, TailFacts
<1>3. DOMAIN inbox[c] \subseteq Nat \ {0} /\ DOMAIN inbox'[c] \subseteq Nat \ {0}
      /\ (inbox'[c] # <<>> => 1 \in DOMAIN inbox'[c])
  <2>1. inbox'[c] \in Seq(Frames)
    BY <1>0
  <2> QED
    BY <1>0, <2>1
<1>4. \A r \in Controllers : r # c => view'[r] = view[r] /\ active'[r] = active[r]
  BY <1>1 DEF TakeSnapshot, TakeTrack, TakeQueue, TakeUnregistered, TakePrimary, TypeOK
<1>5. \A e : Leaving(e)' <=> Leaving(e)
  BY <1>0 DEF Leaving
<1>6. \A e \in Peers : \A i \in DOMAIN todo'[e] : InTurn(e, i)'
  BY <1>0, <1>5 DEF NewsInv, InTurn, Elects, Lists, Tells
<1>7. \A r \in Controllers : \A i \in DOMAIN inbox'[r] : LastWords(r, i)'
  <2> SUFFICES ASSUME NEW r \in Controllers, NEW i \in DOMAIN inbox'[r],
                      inbox'[r][i].kind = "unregistered", NEW j \in DOMAIN inbox'[r], j > i
               PROVE  ~Listing(inbox'[r][j], inbox'[r][i].device)
    BY DEF LastWords, Listing
  <2>1. CASE r # c
    BY <1>0, <2>1 DEF NewsInv, LastWords
  <2>2. CASE r = c
    <3>1. /\ i + 1 \in DOMAIN inbox[c] /\ inbox'[c][i] = inbox[c][i + 1]
          /\ j + 1 \in DOMAIN inbox[c] /\ inbox'[c][j] = inbox[c][j + 1] /\ j + 1 > i + 1
      BY <1>2, <1>3, <2>2
    <3> QED
      BY <2>2, <3>1 DEF NewsInv, LastWords
  <2> QED
    BY <2>1, <2>2
<1>8. ~crossed' => OneVoice'
  BY <1>0 DEF NewsInv, OneVoice, Speaks, Tells
<1>9. \A r : Heralded(r) => Heralded(r)'
  BY <1>0 DEF Heralded, Calls, Tells
<1>10. inbox'[c] # <<>> => inbox'[c][1].kind # "devices"
  <2> SUFFICES ASSUME inbox'[c] # <<>> PROVE inbox'[c][1].kind # "devices"
    OBVIOUS
  <2>1. 1 + 1 \in DOMAIN inbox[c] /\ 1 + 1 # 1 /\ inbox'[c][1] = inbox[c][1 + 1]
    BY <1>2, <1>3
  <2>2. InOrder(c, 1 + 1)
    BY <2>1 DEF ToldInv
  <2> QED
    BY <2>1, <2>2 DEF InOrder
<1>11. ASSUME NEW r \in Controllers, r # c, Informed(r), primary # NoDevice PROVE Informed(r)'
  <2>1. primary \in Players /\ inbox'[r] = inbox[r]
    BY <1>0, <1>11 DEF TypeOK
  <2>2. (Choosing(r) => Choosing(r)') /\ (Reading(r) => Reading(r)')
    BY <1>0 DEF Choosing, Reading
  <2> QED
    BY <1>0, <1>4, <1>5, <1>9, <1>11, <2>1, <2>2, InformedKept
<1>12. ASSUME Coming(c) PROVE Informed(c)'
  <2>1. PICK i \in DOMAIN inbox[c] :
           /\ Electing(inbox[c][i]) /\ inbox[c][i].device = primary
           /\ \A j \in DOMAIN inbox[c] : j > i => ~Electing(inbox[c][j])
    BY <1>12 DEF Coming
  <2>2. ASSUME NEW j \in DOMAIN inbox'[c], j + 1 > i PROVE ~Electing(inbox'[c][j])
    BY <1>2, <2>1, <2>2
  <2>3. CASE i # 1
    <3>1. i - 1 \in DOMAIN inbox'[c] /\ inbox'[c][i - 1] = inbox[c][i]
      BY <1>2, <2>3
    <3>2. \A j \in DOMAIN inbox'[c] : j > i - 1 => ~Electing(inbox'[c][j])
      BY <1>3, <2>2
    <3>3. Coming(c)'
      BY <1>0, <2>1, <3>1, <3>2 DEF Coming, Electing
    <3> QED
      BY <3>3 DEF Informed
  <2>4. CASE i = 1
    <3>1. f.kind = "primary" /\ f.device = primary
      BY <1>1, <2>1, <2>4 DEF Electing
    <3>2. active'[c] = primary
      BY <1>1, <3>1 DEF TakeSnapshot, TakeTrack, TakeQueue, TakeUnregistered, TakePrimary, TypeOK
    <3>3. \A j \in DOMAIN inbox'[c] : ~Electing(inbox'[c][j])
      BY <1>3, <2>2, <2>4
    <3>4. Known(c)'
      BY <1>0, <1>10, <3>2, <3>3 DEF Known, Electing
    <3> QED
      BY <3>4 DEF Informed
  <2> QED
    BY <2>3, <2>4
<1>13. ASSUME Known(c), primary # NoDevice PROVE Informed(c)'
  <2>0. primary \in Players /\ ~Reading(c)
    BY <1>0, <1>13 DEF TypeOK, Reading
  <2>1. /\ \A j \in DOMAIN inbox'[c] : ~Electing(inbox'[c][j])
        /\ f.kind # "primary"
    BY <1>1, <1>2, <1>13 DEF Known, Electing
  <2>2. ASSUME c \in omitted \/ active'[c] = primary \/ Bygone(primary, c)' PROVE Informed(c)'
    <3>1. Known(c)'
      BY <1>0, <1>10, <2>1, <2>2 DEF Known, Electing
    <3> QED
      BY <3>1 DEF Informed
  <2>3. CASE f.kind = "devices"
    <3>1. f.primary = primary /\ (primary \in DOMAIN f.devices \/ c \in omitted)
      BY <1>0, <1>1, <1>13, <2>0, <2>3 DEF Known
    <3>2. primary \in DOMAIN f.devices => active'[c] = primary
      BY <1>1, <2>3, <3>1
         DEF TakeSnapshot, TakeTrack, TakeQueue, TakeUnregistered, TakePrimary, TypeOK
    <3> QED
      BY <2>2, <3>1, <3>2
  <2>4. CASE f.kind # "devices"
    <3>1. c \in omitted \/ active[c] = primary \/ Bygone(primary, c)
      BY <1>0, <1>1, <1>13, <2>0, <2>4 DEF Known
    <3>2. CASE f.kind = "unregistered" /\ f.device = primary
      <4>1. InOrder(c, 1) /\ LastWords(c, 1)
        BY <1>1 DEF ToldInv, NewsInv
      <4>2. conn[primary] = "gone" \/ Leaving(primary)
        BY <1>1, <3>2, <4>1 DEF InOrder
      <4>3. primary \notin DOMAIN view'[c]
        BY <1>1, <3>2 DEF TakeSnapshot, TakeTrack, TakeQueue, TakeUnregistered, TakePrimary, TypeOK
      <4>4. \A j \in DOMAIN inbox'[c] : ~Listing(inbox'[c][j], primary)
        BY <1>1, <1>2, <1>3, <3>2, <4>1 DEF LastWords
      <4>5. Bygone(primary, c)'
        BY <1>0, <1>5, <4>2, <4>3, <4>4 DEF Bygone, Listing
      <4> QED
        BY <2>2, <4>5
    <3>3. CASE active[c] = primary /\ ~(f.kind = "unregistered" /\ f.device = primary)
      <4>1. active'[c] = primary
        BY <1>1, <2>1, <2>4, <3>3
           DEF TakeSnapshot, TakeTrack, TakeQueue, TakeUnregistered, TakePrimary, TypeOK
      <4> QED
        BY <2>2, <4>1
    <3>4. CASE Bygone(primary, c)
      <4>1. ~Listing(f, primary) /\ \A j \in DOMAIN inbox'[c] : ~Listing(inbox'[c][j], primary)
        BY <1>1, <1>2, <3>4 DEF Bygone
      <4>2. primary \notin DOMAIN view'[c]
        <5>1. primary \notin DOMAIN view[c]
          BY <3>4 DEF Bygone
        <5> QED
          BY <1>1, <2>4, <4>1, <5>1
             DEF TakeSnapshot, TakeTrack, TakeQueue, TakeUnregistered, TakePrimary, TypeOK, Put, Listing
      <4>3. Bygone(primary, c)'
        BY <1>0, <1>5, <3>4, <4>1, <4>2 DEF Bygone, Listing
      <4> QED
        BY <2>2, <4>3
    <3> QED
      BY <2>2, <3>1, <3>2, <3>3, <3>4
  <2> QED
    BY <2>3, <2>4
<1>14. ~Choosing(c)
  BY <1>0 DEF Choosing
<1>15. ASSUME NEW r \in Controllers, Informed(r), primary # NoDevice PROVE Informed(r)'
  <2>1. Heralded(r) => Informed(r)'
    BY <1>9 DEF Informed
  <2> QED
    BY <1>11, <1>12, <1>13, <1>14, <1>15, <2>1 DEF Informed
<1> QED
  BY <1>0, <1>6, <1>7, <1>8, <1>15 DEF NewsInv

LEMMA InitNews == Init => NewsInv
<1> SUFFICES ASSUME Init PROVE NewsInv
  OBVIOUS
<1>1. /\ Controllers \subseteq Peers /\ primary = NoDevice
      /\ \A d \in Peers : /\ todo[d] = <<>> /\ DOMAIN todo[d] = {}
                          /\ inbox[d] = <<>> /\ DOMAIN inbox[d] = {}
  BY EmptySeq DEF Init, Peers
<1> QED
  BY <1>1 DEF NewsInv, OneVoice, Speaks

LEMMA StepNews == ASSUME TypeOK, ToldInv, NewsInv, [Next]_vars PROVE NewsInv'
<1>1. CASE UNCHANGED vars
  <2>1. /\ todo' = todo /\ view' = view /\ inbox' = inbox /\ conn' = conn /\ active' = active
        /\ primary' = primary /\ crossed' = crossed /\ omitted' = omitted
    BY <1>1 DEF vars, clients, history
  <2> QED
    BY <2>1, AsideKeepsNews
<1>2. ASSUME NEW d \in Peers, Proceed(d) PROVE NewsInv'
  BY <1>2, HandlersKeepNews, SendKeepsNews, SetKeepsNews DEF Proceed
<1>3. ASSUME NEW p \in Players, PlayerStep(p) \/ PlayerProceed(p) PROVE NewsInv'
  <2>1. p \in Peers
    BY DEF Peers
  <2> QED
    BY <1>2, <1>3, <2>1, PlayerAsideKeepsNews, PlayerBeginsKeepNews, HandlersKeepNews,
       ClearKeepsNews, DieKeepsNews
       DEF PlayerStep, PlayerProceed
<1>4. ASSUME NEW c \in Controllers, Join(c) \/ ControllerStep(c) \/ ControllerProceed(c) \/ Take(c)
      PROVE  NewsInv'
  <2>1. c \in Peers
    BY DEF Peers
  <2> QED
    BY <1>2, <1>4, <2>1, JoinKeepsNews, DropKeepsNews, ControllerBeginsKeepNews, ReadKeepsNews,
       ReplyKeepsNews, HandlersKeepNews, TakeKeepsNews
       DEF ControllerStep, ControllerProceed
<1> QED
  BY <1>1, <1>3, <1>4 DEF Next

LEMMA NewsSuffices == TypeOK /\ NewsInv => ClientsConverge
<1> SUFFICES ASSUME TypeOK, NewsInv, Quiet, ~crossed, NEW c \in Controllers \ omitted,
                    conn[c] = "up", primary \in DOMAIN view[c]
             PROVE  active[c] = primary
  BY DEF ClientsConverge
<1>1. /\ \A d \in Peers : todo[d] = <<>>
      /\ c \in Peers /\ inbox[c] = <<>> /\ DOMAIN inbox[c] = {}
  BY EmptySeq DEF Quiet, Peers
<1>2. primary # NoDevice
  BY EntriesOfPlayers, MirrorAssumption DEF TypeOK, Peers
<1>3. ~Choosing(c) /\ ~Heralded(c) /\ ~Coming(c) /\ ~Reading(c)
  BY <1>1 DEF Choosing, Heralded, Coming, Reading
<1>4. Known(c)
  BY <1>2, <1>3 DEF NewsInv, Informed
<1> QED
  BY <1>1, <1>3, <1>4 DEF Known, Bygone

\* Every one of the user's clients converges on the same active device, the primary:
\* each connected controller that lists it has it active once nothing is on its way,
\* however the steps of the connections come in between; unless the last SET crossed the
\* announcement of another, was not announced to the end, or came before a snapshot that
\* left its device out.
THEOREM MirrorClientsConverge == Safety => []ClientsConverge
<1>1. Init => TypeOK /\ ToldInv /\ NewsInv
  BY InitTypes, InitTold, InitNews
<1>2. TypeOK /\ ToldInv /\ NewsInv /\ [Next]_vars => (TypeOK /\ ToldInv /\ NewsInv)'
  BY StepTypes, StepTold, StepNews
<1>3. TypeOK /\ ToldInv /\ NewsInv => ClientsConverge
  BY NewsSuffices
<1> QED
  BY <1>1, <1>2, <1>3, PTL DEF Safety

=============================================================================
