--------------------------- MODULE UHeapPlacement ---------------------------
(***************************************************************************)
(* The search loops of UHeap against the definitions of Placement.         *)
(***************************************************************************)
EXTENDS UHeap, Placement

\* The blocks handed out and not freed, from first page to size.
LiveBlocks == [b \in Live |-> size[b]]

\* malloc, which walks a table where only the first page of a block is
\* marked, chooses what its strategy promises in terms of holes, and returns
\* NULL only when that promises nothing.  The one case left open is NEXT FIT
\* starting inside a hole, of which it sees the two parts but not the whole:
\* there NULL may be wrong, and NullMeansNoSpace says so.
ChoiceIsPlacement ==
    [][intact /\ pc = "scan" /\ pc' # "scan" =>
         LET place == PlaceFor(branch, LiveBlocks, req, N, generalAddress)
         IN  /\ pc' = "commit" => generalAddress' = place
             /\ pc' = "fail" =>
                   \/ place = NoPlace
                   \/ branch = "NEXTFIT" /\ InsideHole(LiveBlocks, N, generalAddress)]_uheapVars

\* For TLC: what a process does once its blocks overlap is not explored.
FollowIntact == intact
=============================================================================
