----------------------------- MODULE MCCatalog -----------------------------
(* Servers sa, under two spellings, and sb.                                *)
EXTENDS Catalog, TLC
CONSTANTS a, aSlash, b, sa, sb, user, p1, p2
MCServerOf == [u \in URL |-> IF u = b THEN sb ELSE sa]
MCContent == {user} \cup (0 .. MaxListing)
\* The spellings of one server are only compared with each other.
MCSymmetry == Permutations(Writer) \cup Permutations(URL \ {b})

(***************************************************************************)
(* View identifies states that no later step and no property tells apart:  *)
(* a local counts only while it may still be read, and backups count by    *)
(* their order and by what RestorePoint asks of them.                      *)
(***************************************************************************)
Again(p) ==
  \/ /\ pc[p] \notin Over \cup {"installing"}
     /\ \/ kind[p] = "dynamic" \/ (Installs(p) /\ left[p] > 0)
        \/ kind[p] = "init" /\ pc[p] # "refreshing"
  \/ pc[p] = "failed" /\ kind[p] = "prompt" /\ left[p] > 0
Syncing(p) == pc[p] \in {"list", "page", "check", "store"}
UrlLive(p) == pc[p] \in {"forget", "read"} \/ Syncing(p) \/ Again(p)
RefusedLive(p) == pc[p] = "read" \/ Again(p)
CacheLive(p) ==
  Syncing(p) \/ pc[p] \in {"refresh", "use"} \/ (pc[p] = "refreshing" /\ Served(p))
\* The last look at tools.json is for what an empty listing may not replace.
ToolsRead == \E p \in Writer : pc[p] \in {"idle", "forget", "read"} \/ Again(p)
ToolsLeft ==
  IF ToolsRead \/ tools = Damaged THEN tools
  ELSE IF \E p \in Writer : Syncing(p) /\ tools # Absent
         THEN <<tools.n, ServerOf[tools.url], tools.whole>>
  ELSE Readable(tools) => tools.whole
\* After the loop only the listing and whether it was read through count.
Left(p) ==
  CASE pc[p] # "page" -> <<got[p].n, got[p].read = Pages>>
    [] got[p].page = MaxToolPages -> 1
    [] OTHER -> got[p]
Writes(p) == wpc[p] \notin WriteEnds \cup {"out"}

MCView ==
  LET Val(live, x) == IF live THEN x ELSE 0
      Rank(t) == Cardinality({x \in baks : x.at < t})
      Late == clock > Oldest + Generations
      Ranks(B) == {<<Rank(x.at), ~Late /\ x.at > Oldest /\ x.of = user>> : x \in B \cap baks}
  IN <<file, Ranks(baks), IF Late THEN 0 ELSE clock, pc,
       ToolsLeft,
       {p \in since : UrlLive(p)},
       [p \in Writer |->
          <<Val(pc[p] \notin Over \cup {"idle", "installing"} \/ Again(p), <<kind[p], left[p]>>),
            Val(UrlLive(p), url[p]),
            Val(RefusedLive(p), refused[p]),
            Val(CacheLive(p), IF cache[p] = Absent THEN 1 ELSE <<cache[p].n, cache[p].whole>>),
            Val(pc[p] \in {"page", "check", "store"}, Left(p)),
            Val(Writes(p), <<wpc[p], want[p]>>),
            Val(wpc[p] = "backup" /\ ~Late, was[p] = user),
            Val(InFlight(p), Ranks({x \in baks : x.at = mine[p]})),
            Val(wpc[p] = "prune", Ranks(victims[p]))>>]>>
=============================================================================
