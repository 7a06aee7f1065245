----------------------------- MODULE IdleTimers ------------------------------
(***************************************************************************)
(* The idle timers of the scrobble APIs (Events in crates/scrobbler and    *)
(* crates/webscrobbler): a playing_now submission announces a song and     *)
(* starts a timer that publishes song.stopped when the song must be over.  *)
(* The next submission of the user aborts it.  One user: the map is keyed  *)
(* by the DID.                                                             *)
(*                                                                         *)
(* Submissions of one user may be handled at once.  Each announces its     *)
(* song, spawns its timer and takes the lock of the map, so that timers    *)
(* may be spawned in another order than the songs were announced in, and   *)
(* enter the map in another order still.                                   *)
(***************************************************************************)
EXTENDS Naturals

CONSTANT MaxCalls      \* bound: submissions with a duration

ASSUME IdleAssumption == MaxCalls \in Nat

VARIABLES
    announced,  \* number of calls between their song.changed and their timer
    spawned,    \* number of timers spawned so far; timers are 1 .. spawned
    inHand,     \* timers whose call has not had the lock of the map yet
    sleeping,   \* timers that run
    installed,  \* timers[did]: whose AbortHandle the map holds, NoTimer if none
    fired       \* timers that published song.stopped

idle == <<announced, spawned, inHand, sleeping, installed, fired>>

NoTimer == 0
Timers  == 1 .. MaxCalls

IdleTypeOK ==
    /\ announced \in 0 .. MaxCalls
    /\ spawned \in 0 .. MaxCalls
    /\ inHand \subseteq 1 .. spawned
    /\ sleeping \subseteq 1 .. spawned
    /\ installed \in {NoTimer} \cup 1 .. spawned
    /\ fired \subseteq 1 .. spawned

IdleInit ==
    /\ announced = 0 /\ spawned = 0
    /\ inHand = {} /\ sleeping = {} /\ fired = {}
    /\ installed = NoTimer

\* emit_song_changed, of a song whose duration is known.
Announce ==
    /\ announced + spawned < MaxCalls
    /\ announced' = announced + 1
    /\ UNCHANGED <<spawned, inHand, sleeping, installed, fired>>

\* schedule_song_stopped, up to the lock.
Schedule ==
    /\ announced > 0
    /\ announced' = announced - 1
    /\ spawned' = spawned + 1
    /\ inHand' = inHand \cup {spawned'}
    /\ sleeping' = sleeping \cup {spawned'}
    /\ UNCHANGED <<installed, fired>>

\* Mutant of Install: the entry is replaced, and the old timer is left running.
InstallWithoutAbort(t) ==
    /\ t \in inHand
    /\ inHand' = inHand \ {t}
    /\ installed' = t
    /\ UNCHANGED <<announced, spawned, sleeping, fired>>

\* Mutant of Install: the handle that is aborted is the new one.
InstallAbortsItself(t) ==
    /\ t \in inHand
    /\ inHand' = inHand \ {t}
    /\ installed' = t
    /\ sleeping' = sleeping \ (IF installed = NoTimer THEN {} ELSE {t})
    /\ UNCHANGED <<announced, spawned, fired>>

\* With the lock: the handle takes the place of the old one, which is aborted.
\* A timer that is over already is not hurt by that.
Install(t) ==
    /\ t \in inHand
    /\ inHand' = inHand \ {t}
    /\ installed' = t
    /\ sleeping' = sleeping \ {installed}
    /\ UNCHANGED <<announced, spawned, fired>>

\* A timer sleeps for thirty seconds and the song; until then the calls that
\* spawned it, or one before it, have had the lock.
Due(t) == t \in sleeping /\ \A c \in inHand : c > t

\* Mutant of Fire: the task goes on to sleep after it has published.
FireAgain(t) ==
    /\ Due(t)
    /\ fired' = fired \cup {t}
    /\ UNCHANGED <<announced, spawned, inHand, sleeping, installed>>

\* The sleep is over and song.stopped published.
Fire(t) ==
    /\ Due(t)
    /\ sleeping' = sleeping \ {t}
    /\ fired' = fired \cup {t}
    /\ UNCHANGED <<announced, spawned, inHand, installed>>

IdleNext == Announce \/ Schedule \/ \E t \in Timers : Install(t) \/ Fire(t)

IdleSpec == IdleInit /\ [][IdleNext]_idle
-----------------------------------------------------------------------------
(* Properties.                                                             *)

\* events.rs:51-54: however the calls of a user take turns, once they are
\* through at most one timer runs, and it is the one the next call will abort.
OneTimerLeft == inHand = {} => sleeping \subseteq {installed}

\* A stop is published against one submission, and once: the timers implement
\* what the debouncer of remote-ws promises.
Tokens == INSTANCE StopTokens
    WITH live <- sleeping, spent <- fired, issued <- spawned

OneStopPerCall == Tokens!Spec
=============================================================================
