---------------------------- MODULE CasResolver ----------------------------
(***************************************************************************)
(* Which CAS a publish names, cas/resolver.js.  Validators are numbered in *)
(* registry order from 0; a set of them is active and publishes a usable   *)
(* endpoint (endpointsOf), and of those a set answers on its REST port.    *)
(***************************************************************************)
EXTENDS Integers

CONSTANT Validators \* how many the registry lists

Indices == 0 .. Validators - 1
NoCas == -1

\* The first of `set` in the order of a sweep that begins at `offset`.
FirstFrom(set, offset) ==
    LET Position(v) == (v - offset) % Validators
    IN  CHOOSE v \in set : \A w \in set : Position(v) <= Position(w)

\* resolveCas: the first that answers, from a rotating offset.
resolveCas(active, answering, offset) ==
    IF active \cap answering = {}
    THEN NoCas
    ELSE FirstFrom(active \cap answering, offset)

\* publishedCasAddress: the first active validator in registry order, unprobed.
publishedCasAddress(active) ==
    IF active = {} THEN NoCas ELSE FirstFrom(active, 0)
=============================================================================
