----------------------------- MODULE LocalKubo -----------------------------
(***************************************************************************)
(* The Kubo container a publish runs when the project has no IPFS endpoint *)
(* of its own, localKubo.js.  A container that is removed loses what it    *)
(* held and its peer id; a new one has a new id.                           *)
(***************************************************************************)
EXTENDS Integers

CONSTANTS Content, \* CIDs a Kubo can hold
          PeerIds  \* the peer ids a new container may have, positive numbers

VARIABLES kubo,   \* the project's container
          serving \* LocalKubo.serving of the publish that runs

KuboType == [up : BOOLEAN, id : PeerIds \cup {0}, holds : SUBSET Content]
Down == [up |-> FALSE, id |-> 0, holds |-> {}]

KuboInit ==
    /\ kubo = Down
    /\ serving = FALSE

\* A new peer id; which one says nothing, so the smallest stands for all.
NewIds(seen) ==
    {id \in PeerIds \ seen : \A other \in PeerIds \ seen : id <= other}

\* start: the container an earlier publish left running is taken over;
\* otherwise a new one, whose id was never seen, replaces whatever is left.
start(seen) ==
    /\ serving' = FALSE
    /\ IF kubo.up
       THEN UNCHANGED kubo
       ELSE \E id \in NewIds(seen) :
               kubo' = [up |-> TRUE, id |-> id, holds |-> {}]

\* start, when the API of the container does not come up in 90 s.
startFails ==
    /\ kubo' = Down
    /\ serving' = FALSE

\* An add through the API of the container.
add(cid) ==
    /\ kubo.up
    /\ kubo' = [kubo EXCEPT !.holds = @ \cup {cid}]
    /\ UNCHANGED serving

\* Mutant: the container is removed whatever it serves.
releaseAlways ==
    /\ kubo' = Down
    /\ UNCHANGED serving

\* release, on the publisher's `exit` event.
release ==
    /\ kubo' = IF serving THEN kubo ELSE Down
    /\ UNCHANGED serving

\* The host restarts, or its user removes the container.
kuboGoes ==
    /\ kubo.up
    /\ kubo' = Down
    /\ UNCHANGED serving
=============================================================================
