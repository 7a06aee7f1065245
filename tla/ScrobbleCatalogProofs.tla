----------------------- MODULE ScrobbleCatalogProofs -----------------------
(***************************************************************************)
(* Proofs about ScrobbleCatalog, for any number of listeners and permits:  *)
(* its types, and that a song's links agree with its artist and its album. *)
(***************************************************************************)
EXTENDS ScrobbleCatalog, FiniteSetTheorems, SequenceTheorems, TLAPS

\* The permits of the ingest are counted: the tasks under way are finitely many.
\* No row is deleted: what a task saw is there.
TypeInv ==
  /\ TypeOK
  /\ IsFiniteSet(open)
  /\ \A x \in open : x.seen \subseteq Present

\* The commits of a queue that grew by one, or lost its head, are of Commits.
LEMMA QueueTypes ==
  ASSUME NEW q \in Seq(Commits)
  PROVE  /\ \A m \in Commits : Append(q, m) \in Seq(Commits)
         /\ q # <<>> => Head(q) \in Commits /\ Tail(q) \in Seq(Commits)
BY AppendProperties, HeadTailProperties

\* The types of the links that a handler filled in.
LEMMA FilledTypes ==
  ASSUME TypeOK, NEW ls \in SUBSET Links
  PROVE  /\ Filled(ls) \in [Links -> Uris \union {Namesake, None}]
         /\ \A l \in Links : Filled(ls)[l] # None => Origin(l) \in Present
<1>1. ASSUME NEW l \in Links
      PROVE  /\ Filled(ls)[l] \in Uris \union {Namesake, None}
             /\ Filled(ls)[l] # None => Origin(l) \in Present
  <2>1. Target(l) \in Kinds
    BY DEF Target, Kinds
  <2>2. HasUri(Target(l)) => uri[Target(l)] \in Uris
    BY <2>1 DEF TypeOK, HasUri
  <2> QED
    BY <2>2 DEF TypeOK, Filled
<1> QED
  BY <1>1 DEF Filled

-----------------------------------------------------------------------------
\* The handlers of the calls keep the types ...
LEMMA FindsKeepTypes ==
  ASSUME TypeInv, NEW c \in Calls,
         \/ FindSong(c) \/ SeeAlbum(c) \/ AwaitSong(c)
         \/ FindArtist(c) \/ FindAlbum(c)
  PROVE  TypeInv'
<1> USE DEF TypeInv, TypeOK, Goto, db, ingest, subscriber, Steps, Finds, Puts,
            Polls, Ended, Uris
<1>1. CASE FindSong(c)
  <2>1. PICK ls \in SUBSET SongLinks : link' = Filled(ls)
    BY <1>1 DEF FindSong
  <2>2. ls \in SUBSET Links
    BY DEF Links
  <2>3. /\ link' \in [Links -> Uris \union {Namesake, None}]
        /\ \A l \in Links : link'[l] # None => Origin(l) \in Present
    BY <2>1, <2>2, FilledTypes
  <2>4. Present' = Present
    BY <1>1 DEF FindSong, Present
  <2> QED
    BY <1>1, <2>3, <2>4 DEF FindSong
<1>2. CASE SeeAlbum(c)
  BY <1>2 DEF SeeAlbum, Present, Kinds
<1>3. CASE AwaitSong(c)
  BY <1>3 DEF AwaitSong, Present
<1>4. CASE FindArtist(c)
  BY <1>4 DEF FindArtist, Present
<1>5. CASE FindAlbum(c)
  BY <1>5 DEF FindAlbum, Present
<1> QED
  BY <1>1, <1>2, <1>3, <1>4, <1>5

LEMMA WaitsKeepTypes ==
  ASSUME TypeInv, NEW c \in Calls, Put(c) \/ AwaitUris(c) \/ AwaitRow(c) \/ GiveUp(c)
  PROVE  TypeInv'
<1> USE DEF TypeInv, TypeOK, Goto, db, ingest, subscriber, Steps, Finds, Puts,
            Polls, Ended, Uris
<1>1. CASE Put(c)
  <2>1. After(pc[c]) \in Steps /\ KindOf(pc[c]) \in Kinds \union {"scrobble"}
    BY <1>1 DEF Put, After, KindOf, Kinds
  <2>2. [kind |-> KindOf(pc[c]), by |-> c] \in Commits
    BY <2>1 DEF Commits
  <2>3. commits' \in Seq(Commits)
    BY <1>1, <2>2, QueueTypes DEF Put, Submit
  <2>4. troubles' \in 0 .. MaxTroubles /\ lost' = lost
    BY <1>1, CatalogAssumption DEF Put, Trouble
  <2> QED
    BY <1>1, <2>1, <2>3, <2>4 DEF Put, Present
<1>2. CASE AwaitUris(c)
  <2>1. Present' = Present
    BY <1>2 DEF AwaitUris, Present
  <2>2. CASE UNCHANGED link
    BY <1>2, <2>1, <2>2 DEF AwaitUris
  <2>3. CASE link' # link
    <3>1. PICK ls \in SUBSET SongLinks :
            link' = [Filled(ls) EXCEPT
                       !["album.artist"] =
                         IF /\ Missing(Links) = {"song.album", "album.artist"}
                            /\ "song.album" \in ls /\ "album" \in Present
                           THEN link["song.artist"] ELSE @]
      BY <1>2, <2>3 DEF AwaitUris
    <3>2. ls \in SUBSET Links
      BY DEF Links
    <3>3. /\ Filled(ls) \in [Links -> Uris \union {Namesake, None}]
          /\ \A l \in Links : Filled(ls)[l] # None => Origin(l) \in Present
      BY <3>2, FilledTypes
    <3>4. "song.artist" \in Links /\ Origin("album.artist") = "album"
      BY DEF Links, SongLinks, Origin
    <3>5. /\ link' \in [Links -> Uris \union {Namesake, None}]
          /\ \A l \in Links : link'[l] # None => Origin(l) \in Present
      BY <3>1, <3>3, <3>4
    <3> QED
      BY <1>2, <2>1, <2>3, <3>5 DEF AwaitUris
  <2> QED
    BY <2>2, <2>3
<1>3. CASE AwaitRow(c)
  <2>1. PICK ls \in SUBSET {"album.artist"} : link' = Filled(ls)
    BY <1>3 DEF AwaitRow
  <2>2. ls \in SUBSET Links
    BY DEF Links
  <2>3. /\ link' \in [Links -> Uris \union {Namesake, None}]
        /\ \A l \in Links : link'[l] # None => Origin(l) \in Present
    BY <2>1, <2>2, FilledTypes
  <2>4. Present' = Present
    BY <1>3 DEF AwaitRow, Present
  <2> QED
    BY <1>3, <2>3, <2>4 DEF AwaitRow
<1>4. CASE GiveUp(c)
  <2>1. troubles' \in 0 .. MaxTroubles /\ lost' = lost
    BY <1>4, CatalogAssumption DEF GiveUp, Trouble
  <2> QED
    BY <1>4, <2>1 DEF GiveUp, Present
<1> QED
  BY <1>1, <1>2, <1>3, <1>4

\* ... and so do the tasks of the ingest, of which there are never more than
\* there are permits ...
LEMMA TasksKeepTypes ==
  ASSUME TypeInv, StartTask \/ EndTask PROVE TypeInv'
<1> USE DEF TypeInv, TypeOK, db, ingest, subscriber, Uris
<1>1. CASE StartTask
  <2>1. commits # <<>> /\ Head(commits) \in Commits /\ Tail(commits) \in Seq(Commits)
    BY <1>1, QueueTypes DEF StartTask
  <2>2. DEFINE x == [commit |-> Head(commits), seen |-> Present]
  <2>3. x \in [commit : Commits, seen : SUBSET Kinds]
    BY <2>1 DEF Present
  <2>4. open' = open \union {x} /\ Cardinality(open) < MaxInflight
    BY <1>1 DEF StartTask
  <2>5. IsFiniteSet(open') /\ Cardinality(open') <= MaxInflight
    <3>1. Cardinality(open) \in Nat
      BY FS_CardinalityType
    <3>2. ASSUME NEW y
          PROVE  /\ IsFiniteSet(open \union {y})
                 /\ \/ Cardinality(open \union {y}) = Cardinality(open)
                    \/ Cardinality(open \union {y}) = Cardinality(open) + 1
      BY FS_AddElement
    <3>3. /\ IsFiniteSet(open \union {x})
          /\ \/ Cardinality(open \union {x}) = Cardinality(open)
             \/ Cardinality(open \union {x}) = Cardinality(open) + 1
      BY <3>2
    <3> HIDE DEF x
    <3> QED
      BY <2>4, <3>1, <3>3, CatalogAssumption
  <2> QED
    BY <1>1, <2>1, <2>3, <2>4, <2>5 DEF StartTask, Present
<1>2. ASSUME NEW x \in open, open' = open \ {x}
      PROVE  /\ open' \subseteq [commit : Commits, seen : SUBSET Kinds]
             /\ IsFiniteSet(open') /\ Cardinality(open') <= MaxInflight
  <2>1. open' \in SUBSET open
    BY <1>2
  <2>2. IsFiniteSet(open') /\ Cardinality(open') <= Cardinality(open)
    BY <2>1, FS_Subset
  <2>3. Cardinality(open) \in Nat /\ Cardinality(open') \in Nat
    BY <2>2, FS_CardinalityType
  <2> QED
    BY <2>1, <2>2, <2>3, CatalogAssumption
<1>3. ASSUME NEW x \in open, TaskFails(x) PROVE TypeInv'
  <2>1. troubles' \in 0 .. MaxTroubles /\ lost' \subseteq Commits
    BY <1>3, CatalogAssumption DEF TaskFails, Trouble
  <2>2. open' = open \ {x} /\ Present' = Present
    BY <1>3 DEF TaskFails, Present
  <2>3. \A y \in open' : y.seen \subseteq Present'
    BY <2>2
  <2> QED
    BY <1>2, <1>3, <2>1, <2>2, <2>3 DEF TaskFails
<1>4. ASSUME NEW x \in open, EndCatalog(x) PROVE TypeInv'
  <2>1. x.commit.kind \in Kinds /\ x.commit.by \in Calls
    BY <1>4 DEF EndCatalog, Commits
  <2>2. /\ open' = open \ {x}
        /\ uri' = [uri EXCEPT ![x.commit.kind] =
                      FirstUri(x.commit.kind, x.commit.by)]
        /\ owners' = [owners EXCEPT ![x.commit.kind] = @ \union {x.commit.by}]
    BY <1>4 DEF EndCatalog, Owned
  <2>3. FirstUri(x.commit.kind, x.commit.by) \in Uris
    BY <2>1 DEF FirstUri, HasUri
  <2>4. uri' \in [Kinds -> Uris \union {None, Bare}] /\ Present \subseteq Present'
    BY <2>1, <2>2, <2>3, CatalogAssumption DEF Present
  <2>5. PICK since \in SUBSET (Present \ x.seen) : link' = Linked(x, since)
    BY <1>4 DEF EndCatalog
  <2>6. ASSUME NEW l \in Links
        PROVE  /\ link'[l] \in Uris \union {Namesake, None}
               /\ link'[l] # None => Origin(l) \in Present'
    <3>1. CASE link'[l] = link[l]
      BY <2>4, <3>1
    <3>2. CASE link'[l] # link[l]
      <4>1. link'[l] = x.commit.by /\ Origin(l) \in x.seen \union since
        BY <2>5, <3>2 DEF Linked
      <4>2. Origin(l) \in Present
        BY <2>5, <4>1
      <4> QED
        BY <2>1, <2>4, <4>1, <4>2
    <3> QED
      BY <3>1, <3>2
  <2>7. link' \in [Links -> Uris \union {Namesake, None}]
    BY <2>5, <2>6 DEF Linked
  <2>8. owners' \in [Kinds -> SUBSET Uris]
    BY <2>1, <2>2
  <2>9. \A y \in open' : y.seen \subseteq Present'
    BY <2>2, <2>4
  <2> QED
    BY <1>2, <1>4, <2>2, <2>4, <2>6, <2>7, <2>8, <2>9 DEF EndCatalog
<1>5. ASSUME NEW x \in open, EndScrobble(x) PROVE TypeInv'
  <2>1. x.commit.by \in Calls /\ open' = open \ {x} /\ uri' = Upserted
    BY <1>5 DEF EndScrobble, Commits
  <2>2. uri' \in [Kinds -> Uris \union {None, Bare}] /\ Present \subseteq Present'
    BY <2>1, CatalogAssumption DEF Present, Upserted
  <2>3. \A y \in open' : y.seen \subseteq Present'
    BY <2>1, <2>2
  <2> QED
    BY <1>2, <1>5, <2>1, <2>2, <2>3 DEF EndScrobble
<1> QED
  BY <1>1, <1>3, <1>4, <1>5 DEF EndTask

\* ... and whoever publishes.
LEMMA PublishKeepsTypes ==
  ASSUME TypeInv, Sync \/ \E c \in Calls : PublishScrobble(c)
  PROVE  TypeInv'
<1> USE DEF TypeInv, TypeOK, Goto, db, ingest, subscriber, Steps, Ended, Uris
<1>1. ASSUME Publish PROVE owners' \in [Kinds -> SUBSET Uris]
  <2>1. \A k \in Made : HasUri(k)
    BY DEF Made, Unowned, UpTo, Kinds
  <2>2. \A k \in Made : uri[k] \in Uris
    BY <2>1 DEF Made, Unowned, HasUri
  <2> QED
    BY <1>1, <2>2 DEF Publish
<1>2. ASSUME NEW c \in Calls, PublishScrobble(c) PROVE TypeInv'
  BY <1>1, <1>2 DEF PublishScrobble, Present
<1>3. ASSUME NEW r \in Calls, TakeNews(r) PROVE TypeInv'
  <2>1. PICK ls \in SUBSET Links : link' = Filled(ls)
    BY <1>3 DEF TakeNews
  <2>2. /\ link' \in [Links -> Uris \union {Namesake, None}]
        /\ \A l \in Links : link'[l] # None => Origin(l) \in Present
    BY <2>1, FilledTypes
  <2>3. Present' = Present
    BY <1>3 DEF TakeNews, Present
  <2> QED
    BY <1>3, <2>2, <2>3 DEF TakeNews
<1>4. ASSUME NEW r \in Calls, Refresh(r) PROVE TypeInv'
  BY <1>1, <1>4 DEF Refresh, Present
<1> QED
  BY <1>2, <1>3, <1>4 DEF Sync

LEMMA NamesakeKeepsTypes == ASSUME TypeInv, LinkNamesake PROVE TypeInv'
<1>1. /\ link' = [link EXCEPT !["song.album"] = Namesake] /\ "song" \in Present
      /\ UNCHANGED <<pc, saw, uri, owners, rows, ingest, subscriber, troubles, lost>>
  BY DEF LinkNamesake
<1>2. Present' = Present /\ Origin("song.album") = "song"
  BY <1>1 DEF Present, Origin
<1> QED
  BY <1>1, <1>2 DEF TypeInv, TypeOK, ingest, subscriber

LEMMA InitHasTypes == Init => TypeInv
<1> SUFFICES ASSUME Init PROVE TypeInv
  OBVIOUS
<1>1. PICK who \in {None, Other} :
        /\ uri = [k \in Kinds |-> who]
        /\ link = [l \in Links |-> who]
        /\ owners = [k \in Kinds |-> {who} \ {None}]
  BY DEF Init
<1>2. \A l \in Links : Origin(l) \in Kinds
  BY DEF Links, SongLinks, Origin, Kinds
<1>3. \A l \in Links : link[l] # None => Origin(l) \in Present
  BY <1>1, <1>2 DEF Present
<1>4. IsFiniteSet(open) /\ Cardinality(open) <= MaxInflight
  BY FS_EmptySet, CatalogAssumption DEF Init
<1>5. pc \in [Calls -> Steps] /\ saw \in [Calls -> Uris \union {None, Bare}]
  BY DEF Init, Steps, Finds
<1>6. /\ uri \in [Kinds -> Uris \union {None, Bare}]
      /\ link \in [Links -> Uris \union {Namesake, None}]
      /\ owners \in [Kinds -> SUBSET Uris]
  BY <1>1 DEF Uris
<1>7. /\ commits \in Seq(Commits) /\ open = {} /\ rows = {} /\ news = {}
      /\ syncing = {} /\ troubles \in 0 .. MaxTroubles /\ lost = {}
  BY CatalogAssumption DEF Init
<1> QED
  BY <1>3, <1>4, <1>5, <1>6, <1>7 DEF TypeInv, TypeOK

LEMMA NextKeepsTypes == TypeInv /\ [Next]_vars => TypeInv'
<1> SUFFICES ASSUME TypeInv, [Next]_vars PROVE TypeInv'
  OBVIOUS
<1>1. CASE UNCHANGED vars
  BY <1>1 DEF TypeInv, TypeOK, Present, vars, db, ingest, subscriber
<1>2. ASSUME NEW c \in Calls, Proceed(c) \/ GiveUp(c) PROVE TypeInv'
  BY <1>2, FindsKeepTypes, WaitsKeepTypes, PublishKeepsTypes DEF Proceed
<1>3. CASE StartTask \/ EndTask
  BY <1>3, TasksKeepTypes
<1>4. CASE Sync
  BY <1>4, PublishKeepsTypes
<1>5. CASE LinkNamesake
  BY <1>5, NamesakeKeepsTypes
<1> QED
  BY <1>1, <1>2, <1>3, <1>4, <1>5 DEF Next

LEMMA TypesHold == Spec => []TypeInv
BY InitHasTypes, NextKeepsTypes, PTL DEF Spec

\* However many listeners scrobble the song at once, every variable stays in its
\* set, no link leaves a row that is not there, news has its row, and the ingest
\* runs no more tasks than it has permits.
THEOREM CatalogTypeCorrect == Spec => []TypeOK
<1>1. TypeInv => TypeOK
  BY DEF TypeInv
<1> QED
  BY <1>1, TypesHold, PTL

-----------------------------------------------------------------------------
(* A song's links, as long as nothing fails: the song's row is there before *)
(* anybody puts another record, so whichever task gives the artist or the   *)
(* album its uri gives the song its link as well.                           *)

\* What a call does before it knows that the song's row is there.
Early == {"find_song", "put_song", "see_album", "await_song"}

\* The song comes first: before the later steps of a call, before the commits
\* of its other records, and before what the tasks of these see.
SongFirst ==
  /\ \A c \in Calls : pc[c] \notin Early => "song" \in Present
  /\ \A i \in DOMAIN commits : commits[i].kind # "song" => "song" \in Present
  /\ \A x \in open : x.commit.kind # "song" => "song" \in x.seen

\* The link to the namesake is for the album's own.
Misled(l) == l = "song.album" /\ link[l] = Namesake

\* Any other link of the song is there exactly when there is a uri for it to lead to.
LinksFollow ==
  \A l \in SongLinks :
    Misled(l) \/ link[l] = IF HasUri(Target(l)) THEN uri[Target(l)] ELSE None

\* While nothing has failed, and so while no wait was given up.
LinkInv == TypeInv /\ (troubles = 0 => SongFirst /\ LinksFollow)

\* The song's links are of Links, and lead to the artist or to the album.
LEMMA LinksOfSong ==
  \A l \in SongLinks :
    l \in Links /\ Origin(l) = "song" /\ Target(l) \in Kinds \ {"song"}
BY DEF Links, SongLinks, Origin, Target, Kinds

\* No handler deletes a row.
LEMMA RowsStay ==
  ASSUME TypeInv, Next PROVE Present \subseteq Present'
<1> USE DEF TypeInv, TypeOK, db, ingest
<1>1. CASE uri' = uri
  BY <1>1 DEF Present
<1>2. ASSUME NEW x \in open, EndCatalog(x) PROVE Present \subseteq Present'
  <2>1. x.commit.by # None
    BY <1>2, CatalogAssumption DEF EndCatalog, Commits
  <2>2. uri' = [uri EXCEPT ![x.commit.kind] = FirstUri(x.commit.kind, x.commit.by)]
    BY <1>2 DEF EndCatalog
  <2> QED
    BY <2>1, <2>2 DEF Present, FirstUri, HasUri
<1>3. ASSUME NEW x \in open, EndScrobble(x) PROVE Present \subseteq Present'
  BY <1>3, CatalogAssumption DEF EndScrobble, Upserted, Present
<1>4. ASSUME NEW c \in Calls, Proceed(c) \/ GiveUp(c) PROVE uri' = uri
  BY <1>4 DEF Proceed, GiveUp, FindSong, SeeAlbum, AwaitSong, FindArtist,
       FindAlbum, Put, AwaitUris, AwaitRow, PublishScrobble
<1>5. StartTask \/ LinkNamesake \/ Sync => uri' = uri
  BY DEF StartTask, LinkNamesake, Sync, TakeNews, Refresh
<1>6. \A x \in open : TaskFails(x) => uri' = uri
  BY DEF TaskFails
<1> QED
  BY <1>1, <1>2, <1>3, <1>4, <1>5, <1>6 DEF Next, EndTask

\* There is nothing for Filled to fill in: links that are missing lead nowhere yet.
LEMMA FilledKeepsSong ==
  ASSUME TypeInv, LinksFollow, NEW ls \in SUBSET Links, NEW l \in SongLinks
  PROVE  Filled(ls)[l] = link[l]
<1>1. l \in Links
  BY LinksOfSong
<1>2. HasUri(Target(l)) => link[l] # None
  BY CatalogAssumption DEF LinksFollow, Misled, HasUri
<1> QED
  BY <1>1, <1>2 DEF Filled, Missing

-----------------------------------------------------------------------------
\* The song's row comes first, unless a wait for it was given up.
LEMMA SongComesFirst ==
  ASSUME TypeInv, SongFirst, Next, troubles = 0, troubles' = 0
  PROVE  SongFirst'
<1>1. Present \subseteq Present'
  BY RowsStay
<1>2. ASSUME NEW c \in Calls, Proceed(c) \/ GiveUp(c) PROVE SongFirst'
  <2>1. Proceed(c)
    BY <1>2 DEF GiveUp, Trouble
  <2>2. /\ open' = open
        /\ \E step : Goto(c, step)
        /\ pc'[c] \notin Early => "song" \in Present
    <3>1. CASE FindSong(c) \/ SeeAlbum(c) \/ AwaitSong(c)
      BY <3>1 DEF FindSong, SeeAlbum, AwaitSong, Goto, Early, ingest, TypeInv, TypeOK
    <3>2. CASE FindArtist(c) \/ FindAlbum(c)
      BY <3>2 DEF FindArtist, FindAlbum, Goto, Early, ingest, SongFirst
    <3>3. CASE Put(c)
      <4>1. pc[c] = "put_song" => pc'[c] = "see_album"
        BY <3>3 DEF Put, After, Goto, TypeInv, TypeOK
      <4>2. pc[c] # "put_song" => "song" \in Present
        BY <3>3 DEF Put, Puts, Early, SongFirst
      <4>3. open' = open /\ \E step : Goto(c, step)
        BY <3>3 DEF Put
      <4> QED
        BY <4>1, <4>2, <4>3 DEF Early
    <3>4. CASE AwaitUris(c)
      BY <3>4 DEF AwaitUris, Goto, Early, ingest, SongFirst, TypeInv, TypeOK
    <3>5. CASE AwaitRow(c) \/ PublishScrobble(c)
      BY <3>5 DEF AwaitRow, PublishScrobble, Goto, Early, ingest, SongFirst
    <3> QED
      BY <2>1, <3>1, <3>2, <3>3, <3>4, <3>5 DEF Proceed
  <2>3. \A d \in Calls : pc'[d] \notin Early => "song" \in Present'
    BY <1>1, <2>2 DEF Goto, SongFirst, TypeInv, TypeOK
  <2>4. \A j \in DOMAIN commits' : commits'[j].kind # "song" => "song" \in Present'
    <3>1. CASE commits' = commits
      BY <1>1, <3>1 DEF SongFirst
    <3>2. CASE Put(c)
      <4>1. CASE pc[c] = "put_song"
        <5>1. KindOf(pc[c]) = "song"
          BY <4>1 DEF KindOf
        <5>2. \/ commits' = commits
              \/ commits' = Append(commits, [kind |-> "song", by |-> c])
          BY <3>2, <5>1 DEF Put, Submit
        <5>3. commits \in Seq(Commits)
          BY DEF TypeInv, TypeOK
        <5>4. ASSUME NEW j \in DOMAIN commits', commits'[j].kind # "song"
              PROVE  j \in DOMAIN commits /\ commits'[j] = commits[j]
          BY <5>2, <5>3, <5>4
        <5> QED
          BY <1>1, <5>4 DEF SongFirst
      <4>2. CASE pc[c] # "put_song"
        <5>1. "song" \in Present
          BY <3>2, <4>2 DEF Put, Puts, Early, SongFirst
        <5> QED
          BY <1>1, <5>1
      <4> QED
        BY <4>1, <4>2
    <3> QED
      BY <2>1, <3>1, <3>2 DEF Proceed, FindSong, SeeAlbum, AwaitSong, FindArtist,
           FindAlbum, AwaitUris, AwaitRow, PublishScrobble, ingest
  <2> QED
    BY <2>2, <2>3, <2>4 DEF SongFirst
<1>3. CASE StartTask
  <2>1. /\ commits # <<>> /\ pc' = pc /\ commits' = Tail(commits)
        /\ open' = open \union {[commit |-> Head(commits), seen |-> Present]}
    BY <1>3 DEF StartTask
  <2>2. /\ Head(commits) = commits[1] /\ 1 \in DOMAIN commits
        /\ \A j \in DOMAIN commits' :
             j + 1 \in DOMAIN commits /\ commits'[j] = commits[j + 1]
    BY <2>1 DEF TypeInv, TypeOK
  <2>3. \A j \in DOMAIN commits' : commits'[j].kind # "song" => "song" \in Present'
    BY <1>1, <2>2 DEF SongFirst
  <2>4. \A x \in open' : x.commit.kind # "song" => "song" \in x.seen
    BY <2>1, <2>2 DEF SongFirst
  <2> QED
    BY <1>1, <2>1, <2>3, <2>4 DEF SongFirst
<1>4. CASE EndTask \/ LinkNamesake \/ Sync
  <2>1. pc' = pc /\ commits' = commits /\ open' \subseteq open
    BY <1>4 DEF EndTask, TaskFails, EndCatalog, EndScrobble, LinkNamesake, Sync,
         TakeNews, Refresh, ingest
  <2> QED
    BY <1>1, <2>1 DEF SongFirst
<1> QED
  BY <1>2, <1>3, <1>4 DEF Next

\* Whatever happens, then, the song's links are those of its artist and album.
LEMMA LinksKeepFollowing ==
  ASSUME TypeInv, SongFirst, LinksFollow, Next PROVE LinksFollow'
<1>1. ASSUME uri' = uri, \A l \in SongLinks : link'[l] = link[l]
      PROVE  LinksFollow'
  BY <1>1 DEF LinksFollow, Misled, HasUri
<1>2. ASSUME NEW c \in Calls, Proceed(c) \/ GiveUp(c) PROVE LinksFollow'
  <2>1. uri' = uri
    BY <1>2 DEF Proceed, GiveUp, FindSong, SeeAlbum, AwaitSong, FindArtist,
         FindAlbum, Put, AwaitUris, AwaitRow, PublishScrobble, db
  <2>2. CASE link' = link
    BY <1>1, <2>1, <2>2
  <2>3. CASE FindSong(c) \/ AwaitRow(c)
    <3>1. PICK ls \in SUBSET Links : link' = Filled(ls)
      BY <2>3 DEF FindSong, AwaitRow, Links
    <3> QED
      BY <1>1, <2>1, <3>1, FilledKeepsSong
  <2>4. CASE AwaitUris(c) /\ link' # link
    <3>1. PICK ls \in SUBSET Links :
            \E a : link' = [Filled(ls) EXCEPT !["album.artist"] = a]
      BY <2>4 DEF AwaitUris, Links
    <3>2. \A l \in SongLinks : link'[l] = Filled(ls)[l]
      BY <3>1 DEF SongLinks, Links, Filled
    <3> QED
      BY <1>1, <2>1, <3>1, <3>2, FilledKeepsSong
  <2> QED
    BY <1>2, <2>2, <2>3, <2>4 DEF Proceed, GiveUp, SeeAlbum, AwaitSong, FindArtist,
         FindAlbum, Put, PublishScrobble, db
<1>3. ASSUME StartTask \/ \E x \in open : TaskFails(x) PROVE LinksFollow'
  BY <1>1, <1>3 DEF StartTask, TaskFails, db
<1>4. ASSUME NEW x \in open, EndCatalog(x) PROVE LinksFollow'
  <2>1. x.commit.kind \in Kinds /\ x.commit.by \in Calls
    BY <1>4 DEF EndCatalog, Commits, TypeInv, TypeOK
  <2>2. /\ uri' = [uri EXCEPT ![x.commit.kind] =
                      FirstUri(x.commit.kind, x.commit.by)]
        /\ \E since \in SUBSET (Present \ x.seen) : link' = Linked(x, since)
    BY <1>4 DEF EndCatalog
  <2>3. x.commit.kind # "song" => "song" \in x.seen
    BY DEF SongFirst
  <2>4. ASSUME NEW l \in SongLinks
        PROVE  \/ l = "song.album" /\ link'[l] = Namesake
               \/ link'[l] = IF HasUri(Target(l))' THEN uri'[Target(l)] ELSE None
    <3>1. l \in Links /\ Origin(l) = "song" /\ Target(l) \in Kinds \ {"song"}
      BY LinksOfSong
    <3>0. CASE Misled(l)
      <4>1. link[l] # None
        BY <3>0, CatalogAssumption DEF Misled
      <4>2. link'[l] = link[l]
        BY <2>2, <3>1, <4>1 DEF Linked, Missing
      <4> QED
        BY <3>0, <4>2 DEF Misled
    <3>2. ~Misled(l) => link[l] = IF HasUri(Target(l)) THEN uri[Target(l)] ELSE None
      BY DEF LinksFollow
    <3>3. CASE ~Misled(l) /\ Target(l) # x.commit.kind
      <4>1. uri'[Target(l)] = uri[Target(l)] /\ link'[l] = link[l]
        BY <2>1, <2>2, <3>1, <3>3 DEF Linked, TypeInv, TypeOK
      <4> QED
        BY <3>2, <3>3, <4>1 DEF HasUri
    <3>4. CASE ~Misled(l) /\ Target(l) = x.commit.kind
      <4>1. "song" \in x.seen
        BY <2>3, <3>1, <3>4
      <4>2. link'[l] = IF link[l] = None THEN x.commit.by ELSE link[l]
        BY <2>2, <3>1, <3>4, <4>1 DEF Linked, Missing
      <4>3. uri'[Target(l)] = FirstUri(Target(l), x.commit.by)
        BY <2>1, <2>2, <3>4 DEF TypeInv, TypeOK
      <4>4. x.commit.by # None /\ x.commit.by # Bare
        BY <2>1, CatalogAssumption
      <4> QED
        BY <3>2, <3>4, <4>2, <4>3, <4>4 DEF FirstUri, HasUri
    <3> QED
      BY <3>0, <3>3, <3>4
  <2> QED
    BY <2>4 DEF LinksFollow, Misled
<1>5. ASSUME NEW x \in open, EndScrobble(x) PROVE LinksFollow'
  <2>1. link' = link /\ uri' = Upserted
    BY <1>5 DEF EndScrobble
  <2>2. \A k \in Kinds : HasUri(k)' = HasUri(k) /\ (HasUri(k) => uri'[k] = uri[k])
    BY <2>1 DEF Upserted, HasUri
  <2> QED
    BY <2>1, <2>2, LinksOfSong DEF LinksFollow, Misled
<1>6. ASSUME NEW r \in Calls, TakeNews(r) \/ Refresh(r) PROVE LinksFollow'
  <2>1. uri' = uri /\ (link' = link \/ \E ls \in SUBSET Links : link' = Filled(ls))
    BY <1>6 DEF TakeNews, Refresh
  <2> QED
    BY <1>1, <2>1, FilledKeepsSong
<1>7. CASE LinkNamesake
  <2>1. /\ uri' = uri /\ link'["song.album"] = Namesake
        /\ \A l \in SongLinks : l # "song.album" => link'[l] = link[l]
    <3>1. "song.album" \in Links
      BY DEF Links, SongLinks
    <3> QED
      BY <1>7, <3>1, LinksOfSong DEF LinkNamesake, TypeInv, TypeOK
  <2> QED
    <3>1. ASSUME NEW l \in SongLinks, l # "song.album", ~Misled(l)
          PROVE  link'[l] = IF HasUri(Target(l))' THEN uri'[Target(l)] ELSE None
      BY <2>1, <3>1 DEF LinksFollow, HasUri
    <3>2. \A l \in SongLinks : Misled(l) => l = "song.album"
      BY DEF Misled
    <3> QED
      BY <2>1, <3>1, <3>2 DEF LinksFollow, Misled
<1> QED
  BY <1>2, <1>3, <1>4, <1>5, <1>6, <1>7 DEF Next, EndTask, Sync

-----------------------------------------------------------------------------
\* What has gone wrong is never forgotten.
LEMMA TroublesStay ==
  ASSUME TypeInv, Next, troubles' = 0 PROVE troubles = 0
<1>1. troubles \in Nat
  BY CatalogAssumption DEF TypeInv, TypeOK
<1>2. troubles' = troubles \/ Trouble
  BY DEF Next, Proceed, GiveUp, FindSong, SeeAlbum, AwaitSong, FindArtist, FindAlbum,
     Put, AwaitUris, AwaitRow, PublishScrobble, StartTask, EndTask, TaskFails,
     EndCatalog, EndScrobble, LinkNamesake, Sync, TakeNews, Refresh
<1> QED
  BY <1>1, <1>2 DEF Trouble

LEMMA InitHasLinks == Init => LinkInv
<1> SUFFICES ASSUME Init PROVE LinkInv
  OBVIOUS
<1>1. TypeInv
  BY InitHasTypes
<1>2. SongFirst
  BY DEF Init, SongFirst, Early
<1>3. PICK who \in {None, Other} :
        uri = [k \in Kinds |-> who] /\ link = [l \in Links |-> who]
  BY DEF Init
<1>4. \A l \in SongLinks : link[l] = who /\ uri[Target(l)] = who
  BY <1>3, LinksOfSong
<1>5. LinksFollow
  BY <1>4, CatalogAssumption DEF LinksFollow, Misled, HasUri
<1> QED
  BY <1>1, <1>2, <1>5 DEF LinkInv

LEMMA NextKeepsLinks == LinkInv /\ [Next]_vars => LinkInv'
<1> SUFFICES ASSUME LinkInv, [Next]_vars PROVE LinkInv'
  OBVIOUS
<1>1. TypeInv /\ TypeInv'
  BY NextKeepsTypes DEF LinkInv
<1>2. CASE UNCHANGED vars
  BY <1>1, <1>2 DEF LinkInv, SongFirst, LinksFollow, Misled, HasUri, Present, vars, db,
     ingest
<1>3. CASE Next
  <2>1. SUFFICES ASSUME troubles' = 0 PROVE SongFirst' /\ LinksFollow'
    BY <1>1 DEF LinkInv
  <2>2. troubles = 0 /\ SongFirst /\ LinksFollow
    BY <1>1, <1>3, <2>1, TroublesStay DEF LinkInv
  <2> QED
    BY <1>1, <1>3, <2>1, <2>2, SongComesFirst, LinksKeepFollowing
<1> QED
  BY <1>2, <1>3

\* However many listeners' records compete for the song, its artist and its album,
\* and however the tasks that save them overlap, the song leads to the uris that its
\* artist and its album have, as long as no put, task or wait fails; but for an album
\* of the same title that is there before its own has a uri.
THEOREM SongLinksHold == Spec => []SongLinksAgree
<1>1. LinkInv => SongLinksAgree
  <2>1. SUFFICES ASSUME LinksFollow
                 PROVE  \A l \in SongLinks :
                          link[l] \in {None, uri[Target(l)]} \/ Misled(l)
    BY DEF LinkInv, SongLinksAgree, SongLinks, Target, Misled
  <2> QED
    BY <2>1 DEF LinksFollow
<1> QED
  BY <1>1, InitHasLinks, NextKeepsLinks, PTL DEF Spec

-----------------------------------------------------------------------------
(* How it all ends, as long as nothing fails: whatever a call has put is in  *)
(* the database, on its way there, or lost to a bare row; and no bare row is *)
(* made before the song has a link, for which put_scrobble waits.            *)

\* The commit m is queued, or its task runs.
OnItsWay(m) == (\E i \in DOMAIN commits : commits[i] = m) \/ \E x \in open : x.commit = m

\* The row of the kind k has its uri, or a record of the call c is under way that
\* gives it one, or lost its row.
Coming(k, c) ==
  HasUri(k) \/ OnItsWay([kind |-> k, by |-> c]) \/ [kind |-> k, by |-> c] \in lost

\* The song leads to an artist or to an album.
SongLinked == Missing(SongLinks) # SongLinks

\* The places behind each of a call's puts and waits.
Ends == Ended \union {"publish", "await_row"}
Late == Ends \union {"put_scrobble"}
PastAlbum == Late \union {"await_uris"}
PastArtist == PastAlbum \union {"find_album", "put_album"}

\* What a call has put is there or coming, and it is past the wait for a link
\* only with one.  It throws for a namesake only.
CallSettles(c) ==
  /\ pc[c] \notin {"find_song", "put_song"} => Coming("song", c)
  /\ pc[c] \in PastArtist => Coming("artist", c)
  /\ pc[c] \in PastAlbum => Coming("album", c)
  /\ saw[c] \notin {None, Bare} => HasUri("album")
  /\ pc[c] \in Late => SongLinked
  /\ pc[c] \in Ends => c \in rows \/ OnItsWay([kind |-> "scrobble", by |-> c])
  /\ pc[c] = "publish" => Missing(Links) = {}
  /\ pc[c] = "error" => link["song.album"] = Namesake

\* The song's own row is never bare, and the others only once the song is linked.
BareLast ==
  /\ uri["song"] # Bare /\ \A m \in lost : m.kind # "song"
  /\ \A c \in Calls : OnItsWay([kind |-> "scrobble", by |-> c]) => SongLinked
  /\ (\E k \in Kinds : uri[k] = Bare) \/ lost # {} => SongLinked

SettleInv ==
  /\ LinkInv
  /\ troubles = 0 => BareLast /\ \A c \in Calls : CallSettles(c)

\* A row keeps the uri that it has.
LEMMA UriStays ==
  ASSUME TypeInv, Next, NEW k \in Kinds, HasUri(k)
  PROVE  uri'[k] = uri[k] /\ HasUri(k)'
<1> USE DEF TypeInv, TypeOK, db, ingest
<1>1. CASE uri' = uri
  BY <1>1 DEF HasUri
<1>2. ASSUME NEW x \in open, EndCatalog(x) PROVE uri'[k] = uri[k]
  BY <1>2 DEF EndCatalog, FirstUri
<1>3. ASSUME NEW x \in open, EndScrobble(x) PROVE uri'[k] = uri[k]
  BY <1>3 DEF EndScrobble, Upserted, HasUri
<1>4. ASSUME NEW c \in Calls, Proceed(c) \/ GiveUp(c) PROVE uri' = uri
  BY <1>4 DEF Proceed, GiveUp, FindSong, SeeAlbum, AwaitSong, FindArtist,
       FindAlbum, Put, AwaitUris, AwaitRow, PublishScrobble
<1>5. StartTask \/ LinkNamesake \/ Sync => uri' = uri
  BY DEF StartTask, LinkNamesake, Sync, TakeNews, Refresh
<1>6. \A x \in open : TaskFails(x) => uri' = uri
  BY DEF TaskFails
<1>7. uri'[k] = uri[k]
  BY <1>1, <1>2, <1>3, <1>4, <1>5, <1>6 DEF Next, EndTask
<1> QED
  BY <1>7 DEF HasUri

\* No handler changes a link that is there.
LEMMA LinksStay ==
  ASSUME TypeInv, Next, NEW l \in Links, link[l] # None PROVE link'[l] = link[l]
<1> USE DEF db
<1>1. \A ls \in SUBSET Links : Filled(ls)[l] = link[l]
  BY DEF Filled, Missing
<1>2. ASSUME NEW c \in Calls, Proceed(c) \/ GiveUp(c) PROVE link'[l] = link[l]
  <2>1. CASE FindSong(c) \/ AwaitRow(c)
    <3>1. PICK ls \in SUBSET Links : link' = Filled(ls)
      BY <2>1 DEF FindSong, AwaitRow, Links
    <3> QED
      BY <1>1, <3>1
  <2>2. CASE AwaitUris(c) /\ link' # link
    <3>1. PICK ls \in SUBSET SongLinks :
            link' = [Filled(ls) EXCEPT
                       !["album.artist"] =
                         IF /\ Missing(Links) = {"song.album", "album.artist"}
                            /\ "song.album" \in ls /\ "album" \in Present
                           THEN link["song.artist"] ELSE @]
      BY <2>2 DEF AwaitUris
    <3>2. ls \in SUBSET Links
      BY DEF Links
    <3>3. CASE l # "album.artist"
      BY <1>1, <3>1, <3>2, <3>3 DEF Filled
    <3>4. CASE l = "album.artist"
      <4>1. Missing(Links) # {"song.album", "album.artist"}
        BY <3>4 DEF Missing
      <4>2. link' = [Filled(ls) EXCEPT !["album.artist"] = @]
        BY <3>1, <4>1
      <4> QED
        BY <1>1, <3>2, <3>4, <4>2 DEF Filled
    <3> QED
      BY <3>3, <3>4
  <2> QED
    BY <1>2, <2>1, <2>2 DEF Proceed, GiveUp, SeeAlbum, AwaitSong, FindArtist,
         FindAlbum, Put, AwaitUris, PublishScrobble
<1>3. ASSUME NEW x \in open, EndCatalog(x) PROVE link'[l] = link[l]
  <2>1. PICK since : link' = Linked(x, since)
    BY <1>3 DEF EndCatalog
  <2> QED
    BY <2>1 DEF Linked, Missing
<1>4. ASSUME NEW r \in Calls, TakeNews(r) PROVE link'[l] = link[l]
  BY <1>1, <1>4 DEF TakeNews
<1>5. ASSUME LinkNamesake PROVE link'[l] = link[l]
  BY <1>5 DEF LinkNamesake, TypeInv, TypeOK
<1> QED
  BY <1>2, <1>3, <1>4, <1>5 DEF Next, StartTask, EndTask, TaskFails, EndScrobble, Sync, Refresh

LEMMA LinkedStays == ASSUME TypeInv, Next, SongLinked PROVE SongLinked'
<1>1. PICK l \in SongLinks : link[l] # None
  BY DEF SongLinked, Missing
<1>2. link'[l] # None
  BY <1>1, LinksStay DEF Links
<1> QED
  BY <1>1, <1>2 DEF SongLinked, Missing

\* A commit leaves its place only with its task's end.
LEMMA CommitsStay ==
  ASSUME TypeInv, Next, NEW m, OnItsWay(m)
  PROVE  \/ OnItsWay(m)'
         \/ \E x \in open : /\ x.commit = m
                            /\ TaskFails(x) \/ EndCatalog(x) \/ EndScrobble(x)
<1> USE DEF ingest
<1>1. commits \in Seq(Commits)
  BY DEF TypeInv, TypeOK
<1>2. ASSUME NEW c \in Calls, Proceed(c) \/ GiveUp(c) PROVE OnItsWay(m)'
  <2>1. open' = open /\ (commits' = commits \/ \E k : Submit(c, k))
    BY <1>2 DEF Proceed, GiveUp, FindSong, SeeAlbum, AwaitSong, FindArtist,
       FindAlbum, Put, AwaitUris, AwaitRow, PublishScrobble
  <2>2. CASE \E k : Submit(c, k)
    <3>1. PICK k : commits' = Append(commits, [kind |-> k, by |-> c])
      BY <2>2 DEF Submit
    <3>2. \A i \in DOMAIN commits : i \in DOMAIN commits' /\ commits'[i] = commits[i]
      BY <1>1, <3>1
    <3> QED
      BY <2>1, <3>2 DEF OnItsWay
  <2> QED
    BY <2>1, <2>2 DEF OnItsWay
<1>3. CASE StartTask
  <2>1. /\ commits # <<>> /\ commits' = Tail(commits)
        /\ open' = open \union {[commit |-> commits[1], seen |-> Present]}
    BY <1>1, <1>3 DEF StartTask
  <2>2. \A i \in DOMAIN commits : i = 1 \/ (i - 1 \in DOMAIN commits' /\ commits'[i - 1] = commits[i])
    BY <1>1, <2>1
  <2>3. CASE \E x \in open : x.commit = m
    BY <2>1, <2>3 DEF OnItsWay
  <2>4. CASE \E i \in DOMAIN commits : commits[i] = m
    <3>1. PICK i \in DOMAIN commits : commits[i] = m
      BY <2>4
    <3>2. CASE i = 1
      <4>1. [commit |-> commits[1], seen |-> Present].commit = m
        BY <3>1, <3>2
      <4> QED
        BY <2>1, <4>1 DEF OnItsWay
    <3>3. CASE i # 1
      BY <2>2, <3>1, <3>3 DEF OnItsWay
    <3> QED
      BY <3>2, <3>3
  <2> QED
    BY <2>3, <2>4 DEF OnItsWay
<1>4. ASSUME NEW x \in open, TaskFails(x) \/ EndCatalog(x) \/ EndScrobble(x)
      PROVE  x.commit = m \/ OnItsWay(m)'
  <2>1. commits' = commits /\ open' = open \ {x}
    BY <1>4 DEF TaskFails, EndCatalog, EndScrobble
  <2> QED
    BY <2>1 DEF OnItsWay
<1>5. CASE LinkNamesake \/ Sync
  BY <1>5 DEF LinkNamesake, Sync, TakeNews, Refresh, OnItsWay
<1> QED
  BY <1>2, <1>3, <1>4, <1>5 DEF Next, EndTask

LEMMA PutIsOnItsWay ==
  ASSUME TypeInv, NEW m, commits' = Append(commits, m) PROVE OnItsWay(m)'
<1>1. commits \in Seq(Commits)
  BY DEF TypeInv, TypeOK
<1>2. Len(commits) + 1 \in DOMAIN commits' /\ commits'[Len(commits) + 1] = m
  BY <1>1
<1> QED
  BY <1>2 DEF OnItsWay

\* What is coming comes, or is lost.
LEMMA ComingStays ==
  ASSUME TypeInv, Next, troubles' = 0, NEW k \in Kinds, NEW c \in Calls,
         Coming(k, c)
  PROVE  Coming(k, c)'
<1>1. troubles = 0
  BY TroublesStay
<1>2. CASE HasUri(k)
  BY <1>2, UriStays DEF Coming
<1>3. CASE [kind |-> k, by |-> c] \in lost
  <2>1. lost \subseteq lost'
    BY DEF Next, Proceed, GiveUp, FindSong, SeeAlbum, AwaitSong, FindArtist, FindAlbum,
       Put, AwaitUris, AwaitRow, PublishScrobble, StartTask, EndTask, TaskFails,
       EndCatalog, EndScrobble, LinkNamesake, Sync, TakeNews, Refresh, Trouble
  <2> QED
    BY <1>3, <2>1 DEF Coming
<1>4. CASE OnItsWay([kind |-> k, by |-> c])
  <2>1. CASE OnItsWay([kind |-> k, by |-> c])'
    BY <2>1 DEF Coming
  <2>2. ASSUME NEW x \in open, x.commit = [kind |-> k, by |-> c],
               TaskFails(x) \/ EndCatalog(x) \/ EndScrobble(x)
        PROVE  Coming(k, c)'
    <3>1. x.commit.kind = k /\ x.commit.by = c
      BY <2>2
    <3>2. CASE TaskFails(x)
      <4>1. HasUri(k) \/ x.commit \in lost'
        BY <1>1, <3>1, <3>2 DEF TaskFails, Trouble
      <4>2. HasUri(k) => HasUri(k)'
        BY UriStays
      <4> QED
        BY <2>2, <4>1, <4>2 DEF Coming
    <3>3. CASE EndCatalog(x)
      <4>1. uri' = [uri EXCEPT ![k] = FirstUri(k, c)]
        BY <3>1, <3>3 DEF EndCatalog
      <4>2. uri'[k] = FirstUri(k, c)
        BY <4>1 DEF TypeInv, TypeOK
      <4> QED
        BY <4>2, CatalogAssumption DEF Coming, HasUri, FirstUri
    <3>4. ~EndScrobble(x)
      BY <3>1 DEF EndScrobble, Kinds
    <3> QED
      BY <2>2, <3>2, <3>3, <3>4
  <2> QED
    BY <1>4, <2>1, <2>2, CommitsStay
<1> QED
  BY <1>2, <1>3, <1>4 DEF Coming

\* A scrobble's row comes: its task cannot fail of itself.
LEMMA RowComes ==
  ASSUME TypeInv, Next, troubles' = 0, NEW c \in Calls,
         c \in rows \/ OnItsWay([kind |-> "scrobble", by |-> c])
  PROVE  c \in rows' \/ OnItsWay([kind |-> "scrobble", by |-> c])'
<1>1. troubles = 0
  BY TroublesStay
<1>2. rows \subseteq rows'
  BY DEF Next, Proceed, GiveUp, FindSong, SeeAlbum, AwaitSong, FindArtist, FindAlbum,
     Put, AwaitUris, AwaitRow, PublishScrobble, StartTask, EndTask, TaskFails,
     EndCatalog, EndScrobble, LinkNamesake, Sync, TakeNews, Refresh, db
<1>3. ASSUME NEW x \in open, x.commit = [kind |-> "scrobble", by |-> c],
             TaskFails(x) \/ EndCatalog(x) \/ EndScrobble(x)
      PROVE  c \in rows'
  <2>1. x.commit.kind = "scrobble" /\ x.commit.by = c
    BY <1>3
  <2>2. ~TaskFails(x)
    <3>1. ~Collides(x)
      BY <2>1 DEF Collides, Present, Kinds
    <3> QED
      BY <1>1, <3>1 DEF TaskFails, Trouble
  <2>3. ~EndCatalog(x)
    BY <2>1 DEF EndCatalog, Kinds
  <2> QED
    BY <1>3, <2>1, <2>2, <2>3 DEF EndScrobble
<1> QED
  BY <1>2, <1>3, CommitsStay

-----------------------------------------------------------------------------
\* Whoever steps, a call that stays where it is has what it had.
LEMMA OthersStaySettled ==
  ASSUME TypeInv, Next, troubles' = 0, NEW c \in Calls, CallSettles(c),
         pc'[c] = pc[c], saw'[c] = saw[c]
  PROVE  CallSettles(c)'
<1>1. "song" \in Kinds /\ "artist" \in Kinds /\ "album" \in Kinds
  BY DEF Kinds
<1>2. /\ Coming("song", c) => Coming("song", c)'
      /\ Coming("artist", c) => Coming("artist", c)'
      /\ Coming("album", c) => Coming("album", c)'
  BY <1>1, ComingStays
<1>3. HasUri("album") => HasUri("album")'
  BY <1>1, UriStays
<1>4. SongLinked => SongLinked'
  BY LinkedStays
<1>5. Missing(Links) = {} => Missing(Links)' = {}
  BY LinksStay DEF Missing
<1>6. link["song.album"] = Namesake => link'["song.album"] = Namesake
  BY LinksStay, CatalogAssumption DEF Links, SongLinks
<1> HIDE DEF Missing, Coming, HasUri, SongLinked
<1> QED
  BY <1>2, <1>3, <1>4, <1>5, <1>6, RowComes DEF CallSettles

\* The finds of a call: each goes past a put only when its row has its uri.
LEMMA FindsSettle ==
  ASSUME TypeInv, Next, troubles' = 0, NEW c \in Calls, CallSettles(c),
         \/ FindSong(c) \/ SeeAlbum(c) \/ AwaitSong(c)
         \/ FindArtist(c) \/ FindAlbum(c)
  PROVE  CallSettles(c)'
<1> USE DEF PastArtist, PastAlbum, Late, Ends, Ended
<1>1. "song" \in Kinds /\ "artist" \in Kinds /\ "album" \in Kinds
  BY DEF Kinds
<1>2. /\ Coming("song", c) => Coming("song", c)'
      /\ Coming("artist", c) => Coming("artist", c)'
      /\ Coming("album", c) => Coming("album", c)'
  BY <1>1, ComingStays
<1>3. HasUri("album") => HasUri("album")'
  BY <1>1, UriStays
<1>4. c \in DOMAIN pc /\ c \in DOMAIN saw
  BY DEF TypeInv, TypeOK
<1>5. CASE FindSong(c)
  <2>1. /\ pc'[c] = IF HasUri("song") /\ c \in owners["song"]
                      THEN "see_album" ELSE "put_song"
        /\ saw' = saw
    BY <1>4, <1>5 DEF FindSong, Goto
  <2>2. HasUri("song") => Coming("song", c)'
    BY <1>2 DEF Coming
  <2> QED
    BY <1>3, <2>1, <2>2 DEF CallSettles
<1>6. CASE SeeAlbum(c)
  <2>1. pc'[c] = "await_song" /\ saw'[c] = uri["album"] /\ pc[c] = "see_album"
    BY <1>4, <1>6 DEF SeeAlbum, Goto
  <2>2. saw'[c] \notin {None, Bare} => HasUri("album")'
    BY <1>3, <2>1 DEF HasUri
  <2> QED
    BY <1>2, <2>1, <2>2 DEF CallSettles
<1>7. CASE AwaitSong(c)
  <2>1. pc'[c] = "find_artist" /\ saw' = saw /\ pc[c] = "await_song"
    BY <1>4, <1>7 DEF AwaitSong, Goto
  <2> QED
    BY <1>2, <1>3, <2>1 DEF CallSettles
<1>8. CASE FindArtist(c)
  <2>1. /\ pc'[c] = IF HasUri("artist") /\ c \in owners["artist"]
                      THEN "find_album" ELSE "put_artist"
        /\ saw' = saw /\ pc[c] = "find_artist"
    BY <1>4, <1>8 DEF FindArtist, Goto
  <2>2. HasUri("artist") => Coming("artist", c)'
    BY <1>2 DEF Coming
  <2> QED
    BY <1>2, <1>3, <2>1, <2>2 DEF CallSettles
<1>9. CASE FindAlbum(c)
  <2>1. /\ pc'[c] = IF saw[c] \notin {None, Bare} /\ c \in owners["album"]
                      THEN "await_uris" ELSE "put_album"
        /\ saw' = saw /\ pc[c] = "find_album"
    BY <1>4, <1>9 DEF FindAlbum, Goto
  <2>2. saw[c] \notin {None, Bare} => Coming("album", c)'
    BY <1>2 DEF Coming, CallSettles
  <2> QED
    BY <1>2, <1>3, <2>1, <2>2 DEF CallSettles
<1> QED
  BY <1>5, <1>6, <1>7, <1>8, <1>9

\* A put that does not fail has its record on its way.
LEMMA PutsSettle ==
  ASSUME TypeInv, Next, troubles' = 0, NEW c \in Calls, CallSettles(c), Put(c)
  PROVE  CallSettles(c)'
<1> USE DEF PastArtist, PastAlbum, Late, Ends, Ended
<1>1. "song" \in Kinds /\ "artist" \in Kinds /\ "album" \in Kinds
  BY DEF Kinds
<1>2. /\ Coming("song", c) => Coming("song", c)'
      /\ Coming("artist", c) => Coming("artist", c)'
      /\ Coming("album", c) => Coming("album", c)'
  BY <1>1, ComingStays
<1>3. HasUri("album") => HasUri("album")'
  BY <1>1, UriStays
<1>4. SongLinked => SongLinked'
  BY LinkedStays
<1>5. pc'[c] = After(pc[c]) /\ saw' = saw
  BY DEF Put, Goto, TypeInv, TypeOK
<1>6. commits' = Append(commits, [kind |-> KindOf(pc[c]), by |-> c])
  BY TroublesStay DEF Put, Trouble, Submit
<1>7. ASSUME NEW k, k = KindOf(pc[c]) PROVE OnItsWay([kind |-> k, by |-> c])'
  BY <1>6, <1>7, PutIsOnItsWay
<1>8. ASSUME NEW k \in Kinds, k = KindOf(pc[c]) PROVE Coming(k, c)'
  BY <1>7, <1>8 DEF Coming
<1>9. CASE pc[c] = "put_song"
  <2>1. Coming("song", c)' /\ pc'[c] = "see_album"
    BY <1>1, <1>5, <1>8, <1>9 DEF KindOf, After
  <2> QED
    BY <1>3, <1>5, <2>1 DEF CallSettles
<1>10. CASE pc[c] = "put_artist"
  <2>1. Coming("artist", c)' /\ pc'[c] = "find_album"
    BY <1>1, <1>5, <1>8, <1>10 DEF KindOf, After
  <2> QED
    BY <1>2, <1>3, <1>5, <1>10, <2>1 DEF CallSettles
<1>11. CASE pc[c] = "put_album"
  <2>1. Coming("album", c)' /\ pc'[c] = "await_uris"
    BY <1>1, <1>5, <1>8, <1>11 DEF KindOf, After
  <2> QED
    BY <1>2, <1>3, <1>5, <1>11, <2>1 DEF CallSettles
<1>12. CASE pc[c] = "put_scrobble"
  <2>1. KindOf(pc[c]) = "scrobble" /\ pc'[c] = "await_row"
    BY <1>5, <1>12 DEF KindOf, After
  <2>2. OnItsWay([kind |-> "scrobble", by |-> c])'
    BY <1>7, <2>1
  <2> QED
    BY <1>2, <1>3, <1>4, <1>5, <1>12, <2>1, <2>2 DEF CallSettles
<1> QED
  BY <1>9, <1>10, <1>11, <1>12 DEF Put, Puts

\* Where the song leads, there is a uri, and so it leads from one as well.
LEMMA LinkedHasUris ==
  ASSUME TypeInv, LinksFollow, BareLast, Missing(Links) = {},
         link["song.album"] # Namesake
  PROVE  \A k \in Kinds : HasUri(k)
<1>1. \A l \in SongLinks : link[l] # None
  BY DEF Missing, Links
<1>2. \A l \in SongLinks : HasUri(Target(l))
  BY <1>1 DEF LinksFollow, Misled
<1>3. HasUri("artist") /\ HasUri("album")
  <2>1. "song.artist" \in SongLinks /\ "song.album" \in SongLinks
    BY DEF SongLinks
  <2>2. Target("song.artist") = "artist" /\ Target("song.album") = "album"
    BY DEF Target
  <2> QED
    BY <1>2, <2>1, <2>2
<1>4. "song" \in Present
  BY <1>1, LinksOfSong DEF TypeInv, TypeOK, SongLinks
<1>5. HasUri("song")
  BY <1>4 DEF Present, HasUri, BareLast
<1> QED
  BY <1>3, <1>5 DEF Kinds

\* The waits, none of which is given up, and the publication, which then finds
\* the uris that it needs.
LEMMA WaitsSettle ==
  ASSUME TypeInv, LinksFollow, BareLast, Next, troubles' = 0, NEW c \in Calls,
         CallSettles(c), AwaitUris(c) \/ AwaitRow(c) \/ PublishScrobble(c)
  PROVE  CallSettles(c)'
<1> USE DEF PastArtist, PastAlbum, Late, Ends, Ended
<1>1. "song" \in Kinds /\ "artist" \in Kinds /\ "album" \in Kinds
  BY DEF Kinds
<1>2. /\ Coming("song", c) => Coming("song", c)'
      /\ Coming("artist", c) => Coming("artist", c)'
      /\ Coming("album", c) => Coming("album", c)'
  BY <1>1, ComingStays
<1>3. HasUri("album") => HasUri("album")'
  BY <1>1, UriStays
<1>4. SongLinked => SongLinked'
  BY LinkedStays
<1>5. c \in DOMAIN pc
  BY DEF TypeInv, TypeOK
<1>6. CASE AwaitUris(c)
  <2>1. CASE pc' = pc
    BY <1>6, <2>1, OthersStaySettled DEF AwaitUris
  <2>2. CASE SongLinked /\ Goto(c, "put_scrobble")
    <3>1. pc'[c] = "put_scrobble" /\ saw' = saw /\ pc[c] = "await_uris"
      BY <1>5, <1>6, <2>2 DEF AwaitUris, Goto
    <3> QED
      BY <1>2, <1>3, <1>4, <2>2, <3>1 DEF CallSettles
  <2> QED
    BY <1>6, <2>1, <2>2 DEF AwaitUris, SongLinked
<1>7. CASE AwaitRow(c)
  <2>1. /\ pc'[c] = IF \A l \in Links : link'[l] # None THEN "publish" ELSE "ok"
        /\ saw' = saw /\ pc[c] = "await_row" /\ rows' = rows /\ c \in rows
    BY <1>5, <1>7 DEF AwaitRow, Goto
  <2>2. pc'[c] = "publish" => Missing(Links)' = {}
    BY <2>1 DEF Missing
  <2>3. pc'[c] = "publish" \/ pc'[c] = "ok"
    BY <2>1
  <2> QED
    BY <1>2, <1>3, <1>4, <2>1, <2>2, <2>3 DEF CallSettles
<1>8. CASE PublishScrobble(c)
  <2>1. Missing(Links) = {} /\ pc[c] = "publish"
    BY <1>8 DEF PublishScrobble, CallSettles
  <2>2. link["song.album"] = Namesake \/ Made = Unowned
    BY <2>1, LinkedHasUris DEF Made, Unowned
  <2>3. /\ \/ pc'[c] = "ok"
           \/ pc'[c] = "error" /\ link'["song.album"] = Namesake
        /\ saw' = saw
    BY <1>5, <1>8, <2>2 DEF PublishScrobble, Goto
  <2> QED
    <3>1. CASE pc'[c] = "ok"
      BY <1>2, <1>3, <1>4, <2>1, <2>3, <3>1, RowComes DEF CallSettles
    <3>2. CASE pc'[c] = "error" /\ link'["song.album"] = Namesake
      BY <1>2, <1>3, <1>4, <2>1, <2>3, <3>2, RowComes DEF CallSettles
    <3> QED
      BY <2>3, <3>1, <3>2
<1> QED
  BY <1>6, <1>7, <1>8

\* Rows without a uri come of scrobbles, which are put when the song is linked, and
\* the song's row is there before a scrobble's task reads it.
LEMMA BareStaysLast ==
  ASSUME TypeInv, SongFirst, BareLast, \A c \in Calls : CallSettles(c),
         Next, troubles' = 0
  PROVE  BareLast'
<1>1. troubles = 0
  BY TroublesStay
<1>2. SongLinked => SongLinked'
  BY LinkedStays
<1>3. ASSUME NEW c \in Calls, OnItsWay([kind |-> "scrobble", by |-> c])'
      PROVE  SongLinked
  <2>1. SUFFICES ASSUME ~OnItsWay([kind |-> "scrobble", by |-> c]) PROVE SongLinked
    BY DEF BareLast
  <2>2. DEFINE m == [kind |-> "scrobble", by |-> c]
  <2>3. commits \in Seq(Commits)
    BY DEF TypeInv, TypeOK
  <2>4. ~(commits' = commits /\ open' \subseteq open)
    BY <1>3, <2>1 DEF OnItsWay
  <2>5. ~(EndTask \/ LinkNamesake \/ Sync)
    BY <2>4 DEF EndTask, TaskFails, EndCatalog, EndScrobble, LinkNamesake, Sync, TakeNews,
         Refresh, ingest
  <2>6. ~StartTask
    <3>1. SUFFICES ASSUME StartTask PROVE FALSE
      OBVIOUS
    <3>2. /\ commits # <<>> /\ commits' = Tail(commits)
          /\ open' = open \union {[commit |-> commits[1], seen |-> Present]}
      BY <2>3, <3>1 DEF StartTask
    <3>3. /\ 1 \in DOMAIN commits
          /\ \A i \in DOMAIN commits' :
               i + 1 \in DOMAIN commits /\ commits'[i] = commits[i + 1]
      BY <2>3, <3>2
    <3>4. \A x \in open' : x \in open \/ x.commit = commits[1]
      BY <3>2
    <3> QED
      BY <1>3, <2>1, <3>3, <3>4 DEF OnItsWay
  <2>7. PICK d \in Calls : Proceed(d) \/ GiveUp(d)
    BY <2>5, <2>6 DEF Next
  <2>8. Put(d)
    BY <2>4, <2>7 DEF Proceed, GiveUp, FindSong, SeeAlbum, AwaitSong, FindArtist,
         FindAlbum, AwaitUris, AwaitRow, PublishScrobble, ingest
  <2>9. /\ commits' = Append(commits, [kind |-> KindOf(pc[d]), by |-> d])
        /\ open' = open
    BY <1>1, <2>4, <2>8 DEF Put, Submit
  <2>10. KindOf(pc[d]) = "scrobble"
    <3>1. \A i \in DOMAIN commits' :
            \/ i \in DOMAIN commits /\ commits'[i] = commits[i]
            \/ commits'[i] = [kind |-> KindOf(pc[d]), by |-> d]
      BY <2>3, <2>9
    <3>2. m = [kind |-> KindOf(pc[d]), by |-> d]
      BY <1>3, <2>1, <2>9, <3>1 DEF OnItsWay
    <3>3. m.kind = "scrobble"
      OBVIOUS
    <3> HIDE DEF m
    <3> QED
      BY <3>2, <3>3
  <2>11. pc[d] = "put_scrobble"
    BY <2>8, <2>10 DEF Put, Puts, KindOf
  <2> QED
    BY <2>11 DEF CallSettles, Late
<1>4. ASSUME NEW k \in Kinds, uri'[k] = Bare
      PROVE  k # "song" /\ (uri[k] = Bare \/ SongLinked)
  <2>1. CASE uri' = uri
    BY <1>4, <2>1 DEF BareLast
  <2>2. ASSUME NEW x \in open, EndCatalog(x) PROVE uri[k] = Bare /\ k # "song"
    <3>1. x.commit.by # Bare /\ k # x.commit.kind
      <4>1. x.commit.by # Bare /\ x.commit.kind \in Kinds
        BY <2>2, CatalogAssumption DEF EndCatalog, TypeInv, TypeOK, Commits
      <4>2. uri'[x.commit.kind] = FirstUri(x.commit.kind, x.commit.by)
        BY <2>2, <4>1 DEF EndCatalog, TypeInv, TypeOK
      <4> QED
        BY <1>4, <4>1, <4>2 DEF FirstUri, HasUri
    <3>2. uri'[k] = uri[k]
      BY <2>2, <3>1 DEF EndCatalog, TypeInv, TypeOK
    <3> QED
      BY <1>4, <3>2 DEF BareLast
  <2>3. ASSUME NEW x \in open, EndScrobble(x) PROVE SongLinked /\ k # "song"
    <3>1. x.commit.kind = "scrobble" /\ x.commit.by \in Calls
      BY <2>3 DEF EndScrobble, TypeInv, TypeOK, Commits
    <3>2. x.commit = [kind |-> "scrobble", by |-> x.commit.by]
      BY <3>1 DEF TypeInv, TypeOK, Commits
    <3>3. OnItsWay([kind |-> "scrobble", by |-> x.commit.by])
      BY <3>2 DEF OnItsWay
    <3>4. "song" \in Present
      BY <3>1 DEF SongFirst, TypeInv
    <3>5. uri'["song"] = uri["song"]
      BY <2>3, <3>4 DEF EndScrobble, Upserted, Present
    <3> QED
      BY <1>4, <3>1, <3>3, <3>5 DEF BareLast
  <2>4. ASSUME NEW d \in Calls, Proceed(d) \/ GiveUp(d) PROVE uri' = uri
    BY <2>4 DEF Proceed, GiveUp, FindSong, SeeAlbum, AwaitSong, FindArtist,
         FindAlbum, Put, AwaitUris, AwaitRow, PublishScrobble, db
  <2>5. StartTask \/ LinkNamesake \/ Sync => uri' = uri
    BY DEF StartTask, LinkNamesake, Sync, TakeNews, Refresh, db
  <2>6. \A x \in open : TaskFails(x) => uri' = uri
    BY DEF TaskFails, db
  <2> QED
    BY <2>1, <2>2, <2>3, <2>4, <2>5, <2>6 DEF Next, EndTask
<1>5. ASSUME NEW m \in lost'
      PROVE  m \in lost \/ (m.kind \in Kinds /\ uri[m.kind] = Bare)
  <2>1. CASE lost' = lost
    BY <1>5, <2>1
  <2>2. ASSUME NEW x \in open, TaskFails(x)
        PROVE  m \in lost \/ (m.kind \in Kinds /\ uri[m.kind] = Bare)
    BY <1>1, <1>5, <2>2 DEF TaskFails, Trouble, Collides, Present, HasUri
  <2> QED
    BY <2>1, <2>2 DEF Next, Proceed, GiveUp, FindSong, SeeAlbum, AwaitSong, FindArtist,
       FindAlbum, Put, AwaitUris, AwaitRow, PublishScrobble, StartTask, EndTask,
       EndCatalog, EndScrobble, LinkNamesake, Sync, TakeNews, Refresh, Trouble
<1>6. uri'["song"] # Bare
  BY <1>4 DEF Kinds
<1>7. \A m \in lost' : m.kind # "song"
  BY <1>5 DEF BareLast
<1>8. \A c \in Calls : OnItsWay([kind |-> "scrobble", by |-> c])' => SongLinked'
  BY <1>2, <1>3
<1>9. (\E k \in Kinds : uri'[k] = Bare) \/ lost' # {} => SongLinked'
  BY <1>2, <1>4, <1>5 DEF BareLast
<1> QED
  BY <1>6, <1>7, <1>8, <1>9 DEF BareLast

LEMMA InitSettles == Init => SettleInv
<1> SUFFICES ASSUME Init PROVE SettleInv
  OBVIOUS
<1>1. LinkInv
  BY InitHasLinks
<1>2. PICK who \in {None, Other} : uri = [k \in Kinds |-> who]
  BY DEF Init
<1>3. \A k \in Kinds : uri[k] # Bare
  BY <1>2, CatalogAssumption
<1>4. lost = {} /\ \A m : ~OnItsWay(m)
  BY DEF Init, OnItsWay
<1>5. BareLast
  BY <1>3, <1>4 DEF BareLast, Kinds
<1>6. \A c \in Calls : CallSettles(c)
  BY DEF Init, CallSettles, PastArtist, PastAlbum, Late, Ends, Ended
<1> QED
  BY <1>1, <1>5, <1>6 DEF SettleInv

LEMMA NextSettles == SettleInv /\ [Next]_vars => SettleInv'
<1> SUFFICES ASSUME SettleInv, [Next]_vars PROVE SettleInv'
  OBVIOUS
<1>1. LinkInv'
  BY NextKeepsLinks DEF SettleInv
<1>2. TypeInv
  BY DEF SettleInv, LinkInv
<1>3. CASE UNCHANGED vars
  BY <1>1, <1>3 DEF SettleInv, BareLast, CallSettles, Coming, OnItsWay, HasUri,
     SongLinked, Missing, vars, db, ingest
<1>4. CASE Next
  <2>1. SUFFICES ASSUME troubles' = 0
                 PROVE  BareLast' /\ \A c \in Calls : CallSettles(c)'
    BY <1>1 DEF SettleInv
  <2>2. /\ SongFirst /\ LinksFollow /\ BareLast
        /\ \A c \in Calls : CallSettles(c)
    BY <1>2, <1>4, <2>1, TroublesStay DEF SettleInv, LinkInv
  <2>3. BareLast'
    BY <1>2, <1>4, <2>1, <2>2, BareStaysLast
  <2>4. ASSUME NEW c \in Calls PROVE CallSettles(c)'
    <3>1. CASE pc'[c] = pc[c] /\ saw'[c] = saw[c]
      BY <1>2, <1>4, <2>1, <2>2, <3>1, OthersStaySettled
    <3>2. CASE Proceed(c)
      BY <1>2, <1>4, <2>1, <2>2, <3>2, FindsSettle, PutsSettle, WaitsSettle DEF Proceed
    <3>3. ~GiveUp(c)
      BY <1>2, <1>4, <2>1, TroublesStay DEF GiveUp, Trouble
    <3>4. ASSUME NEW d \in Calls \ {c}, Proceed(d) \/ GiveUp(d)
          PROVE  pc'[c] = pc[c] /\ saw'[c] = saw[c]
      BY <1>2, <3>4 DEF Proceed, GiveUp, FindSong, SeeAlbum, AwaitSong, FindArtist,
         FindAlbum, Put, AwaitUris, AwaitRow, PublishScrobble, Goto, TypeInv, TypeOK
    <3>5. StartTask \/ EndTask \/ LinkNamesake \/ Sync => pc' = pc /\ saw' = saw
      BY DEF StartTask, EndTask, TaskFails, EndCatalog, EndScrobble, LinkNamesake, Sync,
         TakeNews, Refresh
    <3> QED
      BY <1>4, <3>1, <3>2, <3>3, <3>4, <3>5 DEF Next
  <2> QED
    BY <2>3, <2>4
<1> QED
  BY <1>3, <1>4

\* However many listeners bring the song at once and however many permits the ingest
\* has, if no put, task or wait fails and nobody has a step left, then no call waits
\* or has thrown (but for a namesake), every listen has its row, and the song has its uri and a link; an
\* artist or an album has a uri and its link unless each listener's record of it lost
\* its INSERT to a scrobble's bare row.
THEOREM CatalogSettles == Spec => []AllSettled
<1>1. SettleInv => AllSettled
  <2>1. SUFFICES ASSUME SettleInv, troubles = 0, AtRest
                 PROVE  /\ \A c \in Calls : pc[c] \in Ended
                        /\ link["song.album"] # Namesake => \A c \in Calls : pc[c] = "ok"
                        /\ rows = Calls
                        /\ HasUri("song") /\ Missing(SongLinks) # SongLinks
                        /\ \A l \in Missing(SongLinks) : ~HasUri(Target(l))
                        /\ \A k \in Kinds, c \in Calls :
                             HasUri(k) \/ [kind |-> k, by |-> c] \in lost
    BY DEF AllSettled
  <2>2. TypeInv /\ LinksFollow /\ BareLast /\ \A c \in Calls : CallSettles(c)
    BY <2>1 DEF SettleInv, LinkInv
  <2>3. \A m : ~OnItsWay(m)
    BY <2>1 DEF AtRest, OnItsWay
  <2>4. \A k \in Kinds, c \in Calls :
          Coming(k, c) => HasUri(k) \/ [kind |-> k, by |-> c] \in lost
    BY <2>3 DEF Coming
  <2>5. ASSUME NEW c \in Calls
        PROVE  pc[c] \in Ended /\ (link["song.album"] # Namesake => pc[c] = "ok")
    <3>1. Waits(c) /\ CallSettles(c)
      BY <2>1, <2>2 DEF AtRest
    <3>2. ~(pc[c] = "await_song" /\ "song" \notin Present)
      BY <2>2, <2>4, <3>1 DEF CallSettles, BareLast, HasUri, Present, Kinds
    <3>3. ~(pc[c] = "await_uris" /\ Missing(SongLinks) = SongLinks)
      <4>1. SUFFICES ASSUME pc[c] = "await_uris" PROVE SongLinked
        BY DEF SongLinked
      <4>2. HasUri("artist") \/ lost # {}
        BY <2>4, <3>1, <4>1 DEF CallSettles, PastArtist, PastAlbum, Kinds
      <4>3. CASE HasUri("artist")
        <5>1. "song.artist" \in SongLinks /\ Target("song.artist") = "artist"
          BY DEF SongLinks, Target
        <5>2. link["song.artist"] # None
          BY <2>2, <4>3, <5>1 DEF LinksFollow, Misled, HasUri
        <5> QED
          BY <5>1, <5>2 DEF SongLinked, Missing
      <4>4. CASE lost # {}
        BY <2>2, <4>4 DEF BareLast
      <4> QED
        BY <4>2, <4>3, <4>4
    <3>4. ~(pc[c] = "await_row" /\ c \notin rows)
      BY <2>3, <3>1 DEF CallSettles, Ends
    <3> QED
      BY <3>1, <3>2, <3>3, <3>4 DEF Waits, CallSettles, Ended
  <2>6. rows = Calls
    <3>1. \A c \in Calls : c \in rows
      BY <2>2, <2>3, <2>5 DEF CallSettles, Ends, Ended
    <3> QED
      BY <2>2, <3>1 DEF TypeInv, TypeOK
  <2>7. PICK c \in Calls : pc[c] \in Ended
    BY <2>5, CatalogAssumption
  <2>8. \A k \in Kinds, d \in Calls : Coming(k, d)
    BY <2>2, <2>5 DEF CallSettles, PastArtist, PastAlbum, Late, Ends, Ended, Kinds
  <2>9. SongLinked
    BY <2>2, <2>7 DEF CallSettles, Late, Ends, Ended
  <2>10. HasUri("song")
    <3>1. HasUri("song") \/ [kind |-> "song", by |-> c] \in lost
      BY <2>4, <2>8 DEF Kinds
    <3>2. [kind |-> "song", by |-> c].kind = "song"
      OBVIOUS
    <3> QED
      BY <2>2, <3>1, <3>2 DEF BareLast
  <2>11. \A l \in Missing(SongLinks) : ~HasUri(Target(l))
    BY <2>2, CatalogAssumption DEF LinksFollow, Misled, HasUri, Missing
  <2> QED
    BY <2>4, <2>5, <2>6, <2>8, <2>9, <2>10, <2>11 DEF SongLinked
<1> QED
  BY <1>1, InitSettles, NextSettles, PTL DEF Spec
=============================================================================
