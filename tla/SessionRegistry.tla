-------------------------- MODULE SessionRegistry --------------------------
(***************************************************************************)
(* The on-chain session registry of a CAS-attested testnet, as             *)
(* cas/session_registry.js uses it.  A session name has versions, each a   *)
(* body and the image linked to it; the validators serve the latest.       *)
(*                                                                         *)
(* As with the image registry, every read and every simulation is answered *)
(* by the chain or by a node that lags it.                                 *)
(***************************************************************************)
EXTENDS Integers, Sequences, FiniteSets

CONSTANTS Names,   \* session names
          Bodies,  \* session bodies (their hashes)
          Linkable \* image CIDs, and what stands for no link

VARIABLES sessions,       \* the versions of each name
          laggingSessions \* as the slowest node answers

Version == [body : Bodies, image : Linkable]
SessionView == [Names -> Seq(Version)]

SessionInit ==
    /\ sessions = [n \in Names |-> <<>>]
    /\ laggingSessions = sessions

SessionViews == {sessions, laggingSessions}

SessionsCatchUp ==
    /\ laggingSessions' = sessions
    /\ UNCHANGED sessions

\* Mutant: any version of the name will do.
IsLatestOfAnyBody(v, n, body) == v[n] # <<>>

\* latestRecord: the last version of a name, when there is one.
IsLatest(v, n, body) == v[n] # <<>> /\ v[n][Len(v[n])].body = body

\* The registry keys a version by its name and body, and refuses another one.
HasBody(v, n, body) == \E k \in 1 .. Len(v[n]) : v[n][k].body = body

-----------------------------------------------------------------------------
\* register: `answer` is "new", "known" or, when the call failed, "failed".
\* `unlinked` stands for the empty image CID of the call; the contract takes
\* the session only from the owner of the image name.
register(n, body, unlinked, isOwner, answer) ==
    /\ UNCHANGED laggingSessions
    /\ \E read \in SessionViews :
          \/ /\ IsLatest(read, n, body)
             /\ answer = "known"
             /\ UNCHANGED sessions
          \/ /\ ~IsLatest(read, n, body)
             /\ \E sim \in SessionViews :
                   IF HasBody(sim, n, body) \/ HasBody(sessions, n, body)
                         \/ ~isOwner
                   THEN answer = "failed" /\ UNCHANGED sessions
                   ELSE /\ answer \in {"new", "failed"}
                        /\ sessions' = [sessions EXCEPT ![n] =
                              Append(@, [body |-> body, image |-> unlinked])]

\* waitVisible: a node reports the body as the name's latest version.
waitVisible(n, body) ==
    /\ \E read \in SessionViews : IsLatest(read, n, body)
    /\ UNCHANGED <<sessions, laggingSessions>>

\* Mutant: nothing to link, nothing to do.
linkImageIfAny(n, image, answer) ==
    /\ UNCHANGED laggingSessions
    /\ \E read \in SessionViews :
          /\ answer = "linked"
          /\ IF read[n] = <<>>
             THEN UNCHANGED sessions
             ELSE sessions' = [sessions EXCEPT ![n][Len(read[n])].image = image]

\* linkImage links the version a node reports as the latest, and waits while
\* the node reports none.  A node that simulates the call before it has that
\* version refuses it; `answer` is "linked", "refused" or, when the receipt is
\* lost, "lost".
linkImage(n, image, answer) ==
    /\ UNCHANGED laggingSessions
    /\ \E read, sim \in SessionViews :
          /\ read[n] # <<>>
          /\ IF Len(sim[n]) < Len(read[n])
             THEN answer = "refused" /\ UNCHANGED sessions
             ELSE /\ answer \in {"linked", "lost"}
                  /\ sessions' =
                        [sessions EXCEPT ![n][Len(read[n])].image = image]

\* Ten minutes went by and some node still answers that the name has none.
LinkDeadline(n) ==
    /\ \E v \in SessionViews : v[n] = <<>>
    /\ UNCHANGED <<sessions, laggingSessions>>
=============================================================================
