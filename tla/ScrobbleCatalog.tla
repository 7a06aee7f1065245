-------------------------- MODULE ScrobbleCatalog --------------------------
(***************************************************************************)
(* The catalog of a song while several listeners scrobble it at once: the  *)
(* calls of scrobbleTrack (apps/api) between the guards and the lock of    *)
(* ScrobblePut and after their put, the tasks of the Jetstream ingest that *)
(* turn records into rows (crates/jetstream), and the subscriber that      *)
(* publishes new rows (apps/api).  A call writes records to its listener's *)
(* PDS and then waits for the ingest to show them in Postgres, where calls *)
(* and tasks of different listeners meet in the same three rows.           *)
(*                                                                         *)
(* A call stands for its listener too, and for the uri of each record it   *)
(* puts.  A row has no uri yet when a scrobble has inserted it ("bare").   *)
(* Of all else in the catalog, one album of another artist is modelled,    *)
(* that has the title of the song's album.                                 *)
(***************************************************************************)
EXTENDS Naturals, FiniteSets, Sequences

CONSTANTS
  Calls,         \* calls of scrobbleTrack, each of another listener
  Other,         \* a listener who brought the song before
  Namesake,      \* the record of another artist's album of the same title
  None, Bare,    \* no row, or no link; a row without a uri
  MaxInflight,   \* MAX_INFLIGHT_SCROBBLES, the permits of the ingest
  MaxTroubles    \* bound: failed puts and tasks, and waits given up

ASSUME CatalogAssumption ==
  /\ Calls # {}
  /\ MaxInflight \in Nat \ {0} /\ MaxTroubles \in Nat
  /\ Other \notin Calls /\ None \notin Calls /\ Bare \notin Calls
  /\ None # Bare /\ Other # None /\ Other # Bare
  /\ Namesake \notin Calls \union {Other, None, Bare}

VARIABLES
  pc,        \* where each call is, or how it ended
  saw,       \* the album's uri as each call read it before waiting for the song
  uri,       \* the rows of tracks, artists and albums, and the uri they have
  link,      \* the columns artist_uri and album_uri that lead from row to row
  owners,    \* who has a user_tracks, user_artists, user_albums row
  rows,      \* the calls whose scrobble row exists
  commits,   \* the commits the ingest's consumer has yet to take, in order
  open,      \* the tasks it runs: each with the rows its reads found
  news,      \* rocksky.scrobble.new messages not yet taken
  syncing,   \* the row the subscriber is about to publish
  troubles,  \* the bounded counter of what went wrong
  lost       \* history: the records whose row was made first, and bare

db == <<uri, link, owners, rows>>
ingest == <<commits, open>>
subscriber == <<news, syncing>>
vars == <<pc, saw, db, ingest, subscriber, troubles, lost>>

Kinds == {"song", "artist", "album"}
SongLinks == {"song.artist", "song.album"}
Links == SongLinks \union {"album.artist"}
Target(l) == IF l = "song.album" THEN "album" ELSE "artist"
Origin(l) == IF l = "album.artist" THEN "album" ELSE "song"
Ended == {"ok", "error"}
Polls == {"await_song", "await_uris", "await_row"}
Puts == {"put_song", "put_artist", "put_album", "put_scrobble"}
Finds == {"find_song", "see_album", "find_artist", "find_album"}
Steps == Finds \union Puts \union Polls \union Ended \union {"publish"}

HasUri(k) == uri[k] \notin {None, Bare}
Present == {k \in Kinds : uri[k] # None}
Missing(ls) == {l \in ls : link[l] = None}

\* The links ls once what is missing is filled in from the rows they lead to.
\* A handler reads these rows one after the other: it fills in the links whose
\* rows it found, any of those that are there when it is done.
Filled(ls) ==
  [l \in Links |->
     IF l \in Missing(ls) /\ Origin(l) \in Present /\ HasUri(Target(l))
       THEN uri[Target(l)] ELSE link[l]]

Goto(c, step) == pc' = [pc EXCEPT ![c] = step]
Submit(c, kind) == commits' = Append(commits, [kind |-> kind, by |-> c])
Trouble == troubles < MaxTroubles /\ troubles' = troubles + 1 /\ UNCHANGED lost

-----------------------------------------------------------------------------
(* The calls.                                                              *)

FindSong(c) ==
  /\ pc[c] = "find_song"
  /\ \E ls \in SUBSET SongLinks : link' = Filled(ls)
  /\ Goto(c, IF HasUri("song") /\ c \in owners["song"]
               THEN "see_album" ELSE "put_song")
  /\ UNCHANGED <<saw, uri, owners, rows, ingest, subscriber, troubles, lost>>

SeeAlbum(c) ==
  /\ pc[c] = "see_album"
  /\ saw' = [saw EXCEPT ![c] = uri["album"]]
  /\ Goto(c, "await_song")
  /\ UNCHANGED <<db, ingest, subscriber, troubles, lost>>

AwaitSong(c) ==
  /\ pc[c] = "await_song"
  /\ "song" \in Present
  /\ Goto(c, "find_artist")
  /\ UNCHANGED <<saw, db, ingest, subscriber, troubles, lost>>

\* Mutant of FindArtist: an artist's row will do without a uri or an owner.
FindArtistRow(c) ==
  /\ pc[c] = "find_artist"
  /\ Goto(c, IF "artist" \in Present THEN "find_album" ELSE "put_artist")
  /\ UNCHANGED <<saw, db, ingest, subscriber, troubles, lost>>

FindArtist(c) ==
  /\ pc[c] = "find_artist"
  /\ Goto(c, IF HasUri("artist") /\ c \in owners["artist"]
               THEN "find_album" ELSE "put_artist")
  /\ UNCHANGED <<saw, db, ingest, subscriber, troubles, lost>>

FindAlbum(c) ==
  /\ pc[c] = "find_album"
  /\ Goto(c, IF saw[c] \notin {None, Bare} /\ c \in owners["album"]
               THEN "await_uris" ELSE "put_album")
  /\ UNCHANGED <<saw, db, ingest, subscriber, troubles, lost>>

KindOf(put) == CASE put = "put_song" -> "song"
                 [] put = "put_artist" -> "artist"
                 [] put = "put_album" -> "album"
                 [] put = "put_scrobble" -> "scrobble"
After(put) == CASE put = "put_song" -> "see_album"
                [] put = "put_artist" -> "find_album"
                [] put = "put_album" -> "await_uris"
                [] put = "put_scrobble" -> "await_row"

\* putSongRecord and the three like it: a put that fails is logged.
Put(c) ==
  /\ pc[c] \in Puts
  /\ \/ Submit(c, KindOf(pc[c])) /\ UNCHANGED <<troubles, lost>>
     \/ Trouble /\ UNCHANGED commits
  /\ Goto(c, After(pc[c]))
  /\ UNCHANGED <<saw, db, open, subscriber>>

\* The wait ends when the song has a link.  A try that began before reads the
\* song again and fills in its links, and the album's artist with the song's
\* when it finds only the latter.
AwaitUris(c) ==
  /\ pc[c] = "await_uris"
  /\ \/ Missing(SongLinks) # SongLinks /\ Goto(c, "put_scrobble")
        /\ UNCHANGED link
     \/ /\ \E ls \in SUBSET SongLinks :
             link' = [Filled(ls) EXCEPT
                        !["album.artist"] =
                          IF /\ Missing(Links) = {"song.album", "album.artist"}
                             /\ "song.album" \in ls /\ "album" \in Present
                            THEN link["song.artist"] ELSE @]
        /\ link' # link
        /\ UNCHANGED pc
  /\ UNCHANGED <<saw, uri, owners, rows, ingest, subscriber, troubles, lost>>

\* Once this call's row is found, the album's artist is filled in (unless the
\* row came after the first of two reads), and the loop is left: with links
\* missing the call ends without a word.
AwaitRow(c) ==
  /\ pc[c] = "await_row"
  /\ c \in rows
  /\ \E ls \in SUBSET {"album.artist"} : link' = Filled(ls)
  /\ Goto(c, IF \A l \in Links : link'[l] # None THEN "publish" ELSE "ok")
  /\ UNCHANGED <<saw, uri, owners, rows, ingest, subscriber, troubles, lost>>

\* publishScrobble makes a user row of every kind nobody has one of, the artist
\* first, with the uri of the kind's row: without one the insert violates NOT
\* NULL, and it throws.
Unowned == {k \in Kinds : owners[k] = {}}
UpTo(k) == CASE k = "artist" -> {"artist"}
             [] k = "album" -> {"artist", "album"}
             [] k = "song" -> Kinds
Made == {k \in Unowned : \A j \in UpTo(k) \intersect Unowned : HasUri(j)}
Publish == owners' = [k \in Kinds |-> IF k \in Made THEN {uri[k]} ELSE owners[k]]

PublishScrobble(c) ==
  /\ pc[c] = "publish"
  /\ Publish
  /\ Goto(c, IF Made = Unowned THEN "ok" ELSE "error")
  /\ UNCHANGED <<saw, uri, link, rows, ingest, news, syncing, troubles, lost>>

\* A wait that has run its thirty tries goes on without what it waited for.
GiveUp(c) ==
  /\ pc[c] \in Polls
  /\ Trouble
  /\ Goto(c, CASE pc[c] = "await_song" -> "find_artist"
               [] pc[c] = "await_uris" -> "put_scrobble"
               [] pc[c] = "await_row" -> "ok")
  /\ UNCHANGED <<saw, db, ingest, subscriber>>

-----------------------------------------------------------------------------
(* The ingest: the consumer starts a task per commit while it has a permit, *)
(* and each task is a transaction that reads before it writes.              *)

StartTask ==
  /\ commits # <<>>
  /\ Cardinality(open) < MaxInflight
  /\ open' = open \union {[commit |-> Head(commits), seen |-> Present]}
  /\ commits' = Tail(commits)
  /\ UNCHANGED <<pc, saw, db, subscriber, troubles, lost>>

\* A song, artist or album task whose row turned up between its SELECT and its
\* INSERT, which has no ON CONFLICT: the transaction is lost.  (A SELECT that came
\* after the row is the case of EndCatalog.)
Collides(x) == x.commit.kind \in Present \ x.seen

TaskFails(x) ==
  /\ x \in open
  /\ IF Collides(x)
       THEN /\ lost' = IF HasUri(x.commit.kind) THEN lost ELSE lost \union {x.commit}
            /\ UNCHANGED troubles
       ELSE Trouble
  /\ open' = open \ {x}
  /\ UNCHANGED <<pc, saw, db, commits, subscriber>>

\* Mutant of FirstUri: the UPDATE lacks its "uri IS NULL".
LastUri(k, c) == c

\* UPDATE ... SET uri WHERE uri IS NULL, or the INSERT of the row.
FirstUri(k, c) == IF HasUri(k) THEN uri[k] ELSE c

\* The links a task sets: the empty ones that lead to its row, from rows that
\* were there when it began and any of those that have come since.
Linked(x, since) ==
  [l \in Links |->
     IF /\ l \in Missing(Links)
        /\ Target(l) = x.commit.kind
        /\ Origin(l) \in x.seen \union since
       THEN x.commit.by ELSE link[l]]

\* The listener's own row of a kind, inserted or given the new uri.
Owned(k, c) == [owners EXCEPT ![k] = @ \union {c}]

\* save_user_track and update_track_uri, and the same of an artist or an album.
EndCatalog(x) ==
  LET k == x.commit.kind
      c == x.commit.by
  IN /\ x \in open
     /\ k \in Kinds
     /\ open' = open \ {x}
     /\ uri' = [uri EXCEPT ![k] = FirstUri(k, c)]
     /\ owners' = Owned(k, c)
     /\ \E since \in SUBSET (Present \ x.seen) : link' = Linked(x, since)
     /\ UNCHANGED <<pc, saw, rows, commits, subscriber, troubles, lost>>

\* update_album_uri of the namesake, which any listener may scrobble: it links
\* every track that has the title and no album yet, whoever the artist is.
LinkNamesake ==
  /\ "song" \in Present
  /\ link["song.album"] = None
  /\ link' = [link EXCEPT !["song.album"] = Namesake]
  /\ UNCHANGED <<pc, saw, uri, owners, rows, ingest, subscriber, troubles, lost>>

\* save_track, save_album and save_artist upsert what is missing, with no uri.
Upserted == [k \in Kinds |-> IF uri[k] = None THEN Bare ELSE uri[k]]

\* save_scrobble, which publishes the news of a row that it inserted.
EndScrobble(x) ==
  /\ x \in open
  /\ x.commit.kind = "scrobble"
  /\ open' = open \ {x}
  /\ uri' = Upserted
  /\ rows' = rows \union {x.commit.by}
  /\ news' = news \union {x.commit.by}
  /\ UNCHANGED <<pc, saw, link, owners, commits, syncing, troubles, lost>>

-----------------------------------------------------------------------------
(* The subscriber of rocksky.scrobble.new: one message at a time.          *)

\* updateUris of the listener's latest scrobble.
TakeNews(r) ==
  /\ r \in news
  /\ syncing = {}
  /\ news' = news \ {r}
  /\ syncing' = {r}
  /\ \E ls \in SUBSET Links : link' = Filled(ls)
  /\ UNCHANGED <<pc, saw, uri, owners, rows, ingest, troubles, lost>>

\* refreshScrobbles: what publishScrobble throws is caught and logged.
Refresh(r) ==
  /\ r \in syncing
  /\ syncing' = {}
  /\ Publish
  /\ UNCHANGED <<pc, saw, uri, link, rows, ingest, news, troubles, lost>>

-----------------------------------------------------------------------------
\* The song is new to the catalog, or another listener has brought it.
Init ==
  /\ pc = [c \in Calls |-> "find_song"]
  /\ saw = [c \in Calls |-> None]
  /\ \E who \in {None, Other} :
       /\ uri = [k \in Kinds |-> who]
       /\ link = [l \in Links |-> who]
       /\ owners = [k \in Kinds |-> {who} \ {None}]
  /\ rows = {} /\ commits = <<>> /\ open = {}
  /\ news = {} /\ syncing = {}
  /\ troubles = 0 /\ lost = {}

Proceed(c) ==
  \/ FindSong(c) \/ SeeAlbum(c) \/ AwaitSong(c) \/ FindArtist(c) \/ FindAlbum(c)
  \/ Put(c) \/ AwaitUris(c) \/ AwaitRow(c) \/ PublishScrobble(c)

EndTask == \E x \in open : TaskFails(x) \/ EndCatalog(x) \/ EndScrobble(x)

Sync == \E r \in Calls : TakeNews(r) \/ Refresh(r)

Next ==
  \/ \E c \in Calls : Proceed(c) \/ GiveUp(c)
  \/ StartTask
  \/ EndTask
  \/ LinkNamesake
  \/ Sync

Spec == Init /\ [][Next]_vars

-----------------------------------------------------------------------------
(* Properties.                                                             *)

Uris == Calls \union {Other}
Commits == [kind : Kinds \union {"scrobble"}, by : Calls]

\* Every variable stays in its set; a link leaves only a row that is there,
\* and there is no more news than rows.
TypeOK ==
  /\ pc \in [Calls -> Steps]
  /\ saw \in [Calls -> Uris \union {None, Bare}]
  /\ uri \in [Kinds -> Uris \union {None, Bare}]
  /\ link \in [Links -> Uris \union {Namesake, None}]
  /\ \A l \in Links : link[l] # None => Origin(l) \in Present
  /\ owners \in [Kinds -> SUBSET Uris]
  /\ commits \in Seq(Commits)
  /\ open \subseteq [commit : Commits, seen : SUBSET Kinds]
  /\ Cardinality(open) <= MaxInflight
  /\ rows \subseteq Calls
  /\ news \subseteq rows /\ syncing \subseteq rows
  /\ troubles \in 0 .. MaxTroubles
  /\ lost \subseteq Commits

\* The song's links lead to the uris its artist and its album really have,
\* though every listener's records compete for them: the first record of a
\* kind gives the row its uri and the links their target in one transaction.
\* But an album is linked by its title alone (repo.rs:1130-1139): one of another
\* artist may be there first, and then has the song for good.
SongLinksAgree ==
  troubles = 0 =>
    /\ link["song.artist"] \in {None, uri["artist"]}
    /\ link["song.album"] \in {None, uri["album"], Namesake}

\* A call has ended, or waits for what only the ingest can bring.
Waits(c) ==
  \/ pc[c] \in Ended
  \/ pc[c] = "await_song" /\ "song" \notin Present
  \/ pc[c] = "await_uris" /\ Missing(SongLinks) = SongLinks
  \/ pc[c] = "await_row" /\ c \notin rows

\* Nobody has a step left to take but giving up a wait.  Every step of Next goes
\* forward (a put, a row, a link, a message, a wait that ends), so a system whose
\* loops run gets here.
AtRest ==
  /\ commits = <<>> /\ open = {} /\ news = {} /\ syncing = {}
  /\ \A c \in Calls : Waits(c)

\* When all is done and nothing has failed, no call waits for ever, none has thrown
\* (but with a namesake linked, which the last wait takes for the album's link), every
\* listen has its row, and the song has its uri and leads to an artist or an album,
\* though the tasks of the ingest run in any order, lose collisions, and miss
\* each other's rows.  What has a uri is linked, and each kind has one, unless every
\* listener's record of it lost its INSERT to the bare row of a scrobble put while
\* its task ran: whoever finds a bare row puts a record that mends it.
AllSettled ==
  troubles = 0 /\ AtRest =>
    /\ \A c \in Calls : pc[c] \in Ended
    /\ link["song.album"] # Namesake => \A c \in Calls : pc[c] = "ok"
    /\ rows = Calls
    /\ HasUri("song") /\ Missing(SongLinks) # SongLinks
    /\ \A l \in Missing(SongLinks) : ~HasUri(Target(l))
    /\ \A k \in Kinds, c \in Calls : HasUri(k) \/ [kind |-> k, by |-> c] \in lost

\* The same without the exception, which a second permit breaks for one listener
\* and a third for two.
AllLinked ==
  troubles = 0 /\ AtRest => Missing(SongLinks) = {} /\ \A k \in Kinds : HasUri(k)
=============================================================================
