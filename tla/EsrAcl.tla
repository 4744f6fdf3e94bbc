------------------------------- MODULE EsrAcl -------------------------------
(***************************************************************************)
(* The access-control list an owned state container carries, and what the  *)
(* enclave does with it (ecld_state.js).  Addresses are already in the     *)
(* form normAddr() gives them (lower case, None for anything that is not a *)
(* non-empty string): two addresses are equal or they are not.             *)
(***************************************************************************)

CONSTANTS Callers,   \* the wallet addresses that place orders
          None       \* null: no caller, no ACL

ASSUME NoneIsNoCaller == None \notin Callers

Acl == [owner: Callers, read: SUBSET Callers, write: SUBSET Callers,
        publicRead: BOOLEAN]

\* A caller, or the anonymous one the trustedzone supplied no address for.
Principal == Callers \cup {None}

newAcl(owner) ==
    [owner |-> owner, read |-> {}, write |-> {}, publicRead |-> FALSE]

\* State without an ACL is unowned: everybody reads it and writes it.
canRead(acl, caller) ==
    \/ acl = None
    \/ acl.publicRead
    \/ /\ caller # None
       /\ \/ caller = acl.owner
          \/ caller \in acl.read \cup acl.write

canWrite(acl, caller) ==
    \/ acl = None
    \/ /\ caller # None
       /\ \/ caller = acl.owner
          \/ caller \in acl.write

\* The first commit that carries a caller claims an unowned key.
Claimed(acl, caller) ==
    IF acl = None /\ caller # None THEN newAcl(caller) ELSE acl

(***************************************************************************)
(* The ACL after one of the owner's operations.  A call names its kind,    *)
(* and the address and level it is about.                                  *)
(***************************************************************************)
esrGrant(acl, who, level) ==
    IF level = "read" THEN [acl EXCEPT !.read = @ \cup {who}]
                      ELSE [acl EXCEPT !.write = @ \cup {who}]

esrRevoke(acl, who, level) ==
    IF level = "read" THEN [acl EXCEPT !.read = @ \ {who}]
                      ELSE [acl EXCEPT !.write = @ \ {who}]

esrSetPublicRead(acl, enabled) == [acl EXCEPT !.publicRead = enabled]

esrTransfer(acl, who) == [acl EXCEPT !.owner = who]

Levels == {"read", "write"}
OwnerOps == {"grant", "revoke", "publish", "unpublish", "transfer"}

OwnerOp(kind, acl, who, level) ==
    CASE kind = "grant"     -> esrGrant(acl, who, level)
      [] kind = "revoke"    -> esrRevoke(acl, who, level)
      [] kind = "publish"   -> esrSetPublicRead(acl, TRUE)
      [] kind = "unpublish" -> esrSetPublicRead(acl, FALSE)
      [] kind = "transfer"  -> esrTransfer(acl, who)
=============================================================================
