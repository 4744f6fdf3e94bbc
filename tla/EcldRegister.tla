---------------------------- MODULE EcldRegister ----------------------------
(***************************************************************************)
(* EcldState implements EsrRegister, for a task that awaits its calls and  *)
(* shares its keys with nobody.  The register's value is what the task     *)
(* would read: its own memo while the chain is behind it, the chain's      *)
(* entry otherwise.  A relayed commit, and every step of a call but the    *)
(* one that returns, is a stutter.                                         *)
(***************************************************************************)
EXTENDS EcldState

\* The one task, and the containers its calls can make.
Alone == CHOOSE t \in Tasks : TRUE
Containers == Tasks \X (1 .. MaxCalls) \X (0 .. Attempts - 1)

Shown(m) == [id |-> m.blob.iv, version |-> m.version]

\* What the task would read, and what its result will report.
WouldRead == [k \in Keys |-> IF writes[Alone][k].version > chain[k].version
                        THEN Shown(writes[Alone][k])
                        ELSE Shown(chain[k])]
WillReport == [k \in Keys |-> Shown(results[Alone][k])]

Register == INSTANCE EsrRegister
    WITH Ids <- Containers, Empty <- None, value <- WouldRead, reported <- WillReport

\* A lone task sees a register per key: it reads its own commits at once and
\* for ever, whatever the node has relayed of them, and its result reports the
\* value and version the chain will show (_taskWrites, _readContainer).
ImplementsRegister == Register!Spec
=============================================================================
