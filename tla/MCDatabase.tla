----------------------------- MODULE MCDatabase -----------------------------
(***************************************************************************)
(* The database of a project: a behaviour is one of tasks that open its    *)
(* file (DbOpen), or of the rows written to it (IndexDb).                  *)
(***************************************************************************)
EXTENDS MCDbOpen, MCIndexDb

VARIABLE part

\* A part that does not move keeps one of its initial states.
MCInit ==
    /\ part \in {"open", "index"}
    /\ OpenInit /\ (part = "open" \/ file = NoInode)
    /\ Init /\ (part = "index" \/ disk = Zero(Files))

MCNext ==
    /\ \/ part = "open" /\ OpenNext /\ UNCHANGED vars
       \/ part = "index" /\ Next /\ UNCHANGED openVars
    /\ UNCHANGED part

MCSpec == MCInit /\ [][MCNext]_<<openVars, vars, part>>
=============================================================================
