----------------------------- MODULE StopTokens -----------------------------
(***************************************************************************)
(* What the stop debouncer of remote-ws promises for one user, whatever    *)
(* its timers and mailbox do: a request to stop is a token, a token is     *)
(* either dropped or spent on exactly one song.stopped event, and nothing  *)
(* else produces such an event.                                            *)
(***************************************************************************)
EXTENDS Naturals

VARIABLES
    live,      \* tokens issued and neither dropped nor spent
    spent,     \* tokens that produced a song.stopped
    issued     \* number of tokens issued so far; tokens are 1..issued

Init == live = {} /\ spent = {} /\ issued = 0

\* A stop is requested: a fresh token; older live tokens may be superseded.
Issue ==
    /\ issued' = issued + 1
    /\ \E kept \in SUBSET live : live' = kept \cup {issued + 1}
    /\ UNCHANGED spent

\* A pending stop is abandoned.
Drop ==
    \E kept \in SUBSET live : live' = kept /\ UNCHANGED <<spent, issued>>

\* A pending stop is published, once.
Spend ==
    \E t \in live :
        /\ live' = live \ {t}
        /\ spent' = spent \cup {t}
        /\ UNCHANGED issued

Next == Issue \/ Drop \/ Spend

Spec == Init /\ [][Next]_<<live, spent, issued>>
=============================================================================
