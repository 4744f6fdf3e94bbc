---------------------------- MODULE MCEcldState ----------------------------
(* EcldState on the small instances TLC explores.                          *)
EXTENDS EcldRegister

CONSTANTS t1, t2, k1, k2, alice, bob

\* Who places the orders.
OneCaller  == [t \in Tasks |-> alice]
TwoCallers == [t \in Tasks |-> IF t = t1 THEN alice ELSE bob]

MCCall(kind, pin, who, level) ==
    [kind |-> kind, key |-> k1, pin |-> pin, who |-> who, level |-> level]
Get == MCCall("get", None, None, "read")
Commit == MCCall("commit", None, None, "read")
Pinned(n) == MCCall("commit", n, None, "read")

\* What the payloads of a run may call.
GetCommit == {Get, Commit}
Commits == {Commit}
TwoKeys == GetCommit \cup {[c EXCEPT !.key = k2] : c \in GetCommit}
PinnedCommits == {Commit, Pinned(0), Pinned(1), Pinned(2)}
AclCalls == {Commit, Pinned(1),
             MCCall("grant", None, bob, "write"),
             MCCall("revoke", None, bob, "write"),
             MCCall("transfer", None, bob, "read"),
             MCCall("publish", None, None, "read"),
             MCCall("unpublish", None, None, "read"),
             Get,
             MCCall("owner", None, None, "read"),
             MCCall("acl", None, None, "read")}
=============================================================================
