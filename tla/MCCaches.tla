------------------------------ MODULE MCCaches ------------------------------
(***************************************************************************)
(* What the server computes from files and keeps in memory, three parts    *)
(* that share no state: the asset graph of a project with two files of one *)
(* asset path, whose versions share one edge; the config entry of a project*)
(* over an ini file of the project and one of a platform; and the merge of *)
(* the lines of one key. A behaviour is one of them.                       *)
(***************************************************************************)
EXTENDS AssetScan, ConfigCache, ConfigMerge, TLC

CONSTANTS v1, v2, p1, base, game

VARIABLE part

MCVersions == {v1, v2}
MCEdges == v1 :> {<<"derived", "Actor">>, <<"references", "Gun">>, <<"functions", "Fire">>}
           @@ v2 :> {<<"references", "Gun">>}
MCPathOf == [f \in Assets |-> p1]
MCReadOrder == <<base, game>>
MCMaxVersion == [f \in Files |-> IF f = game THEN 2 ELSE 1]
MCSymmetry == Permutations(Assets) \union Permutations(Scanners) \union Permutations(Queries)

\* A part that does not move has no file.
MCInit ==
    /\ part \in {"assets", "config", "merge"}
    /\ AssetInit /\ (part = "assets" \/ disk = Nothing)
    /\ Init /\ (part = "config" \/ files = [f \in Files |-> 0])
    /\ MergeInit

\* All lines of the stack are merged.
Merged == Len(lines) = MaxLines /\ UNCHANGED mergeVars

MCNext ==
    /\ \/ part = "assets" /\ AssetNext /\ UNCHANGED <<vars, mergeVars>>
       \/ part = "config" /\ Next /\ UNCHANGED <<assetVars, mergeVars>>
       \/ part = "merge" /\ (MergeNext \/ Merged) /\ UNCHANGED <<assetVars, vars>>
    /\ UNCHANGED part

MCSpec == MCInit /\ [][MCNext]_<<assetVars, vars, mergeVars, part>>
=============================================================================
