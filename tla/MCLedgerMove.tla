---------------------------- MODULE MCLedgerMove ----------------------------
(* Small instances of LedgerMove for TLC. *)
EXTENDS LedgerMove, TLC

CONSTANTS m1, m2, m3, task, note, doc, red, conflict

ASSUME Cardinality({m1, m2, m3}) = 3

Empty(folder) ==
    [folder |-> folder, flag |-> FALSE, sidecar |-> <<>>, notes |-> <<>>,
     by |-> NoOne]

ReadyTask == [i \in Item |-> Empty("ready")]
StagedAndObservation ==
    (task :> Empty("backlog")) @@ (doc :> Empty("absent")) @@ (note :> Empty("observations"))

SurfaceNoteAndDrain == (m1 :> "surface") @@ (m2 :> "note") @@ (m3 :> "drain")
PromoteAndCreate == (m1 :> "promote") @@ (m2 :> "create") @@ (m3 :> "create")

OnTask == [m \in Mover |-> task]
OnTaskAndDoc == [m \in Mover |-> IF m = m1 THEN task ELSE doc]
FromNote == [m \in Mover |-> note]

ForRed == [m \in Mover |-> red]
=============================================================================
