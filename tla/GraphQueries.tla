---------------------------- MODULE GraphQueries ----------------------------
(***************************************************************************)
(* What is asked of the code graph (hoangsa-memory-graph/src, the lookups  *)
(* of hoangsa-memory-store/src/kv.rs and the tools of                      *)
(* hoangsa-memory-mcp/src/server/graph_tools.rs): resolving a name, impact,*)
(* context, event traces, traversals, shortest paths, taint, communities,  *)
(* process flows and the blast radius of a diff.                           *)
(*                                                                         *)
(* An id stands for a fully qualified name; ids are numbered in the order  *)
(* of their names, and Segs gives a name's segments.  An edge may name an  *)
(* id no file declares: the indexer could not resolve it.  The answers are *)
(* functions of the graph, so they are operators over its state; the       *)
(* actions are the indexer's writes and the lines of a diff.               *)
(***************************************************************************)
EXTENDS Naturals, FiniteSets, SequencesExt

CONSTANTS
  Ids,         \* names, numbered in their order
  Segs,        \* [Ids -> segments of the name]
  PathOf,      \* [Ids -> components of the path of the declaring file]
  LinesOf,     \* [Ids -> <<first line, last line>>]
  ModuleId,    \* [Ids -> the id of the module path of the declaring file]
  EventIds,    \* ids of nodes of kind "event"
  TaintSources, TaintSinks,   \* ids whose name or text matches the patterns
  EdgeMenu,    \* edges the indexer may write: <<from, kind, to>>
  DiffMenu,    \* lines a diff may hold
  MaxDiff,     \* bound: lines of a diff
  MaxDepth     \* bound: depths asked for

VARIABLES nodes,   \* ids with a node row
          edges,   \* rows of the edge table
          diff     \* lines of a diff
graphVars == <<nodes, edges, diff>>

DevNull == <<"dev", "null">>
GraphInit == nodes = {} /\ edges = {} /\ diff = <<>>

UpsertNode(n) == n \notin nodes /\ nodes' = nodes \cup {n} /\ UNCHANGED <<edges, diff>>
UpsertEdge(e) == e \notin edges /\ edges' = edges \cup {e} /\ UNCHANGED <<nodes, diff>>

(* The lines of a diff git writes: a file's two headers, then its hunks.    *)
Follows(prev, l) ==
  CASE l.h = "---" -> prev.h # "---"
    [] l.h = "+++" -> prev.h = "---" /\ {l.path, prev.path} # {DevNull}
                      /\ (l.path = prev.path \/ DevNull \in {l.path, prev.path})
    [] l.h = "@@" -> prev.h \in {"+++", "@@"} /\ (prev.h = "+++" /\ prev.path = DevNull => l.start = 0 /\ l.count = 0)
                     /\ (prev.h = "@@" => prev.start > 0 /\ prev.start + prev.count < l.start)
DiffLine(l) ==
  /\ Len(diff) < MaxDiff
  /\ IF diff = <<>> THEN l.h = "---" ELSE Follows(diff[Len(diff)], l)
  /\ diff' = Append(diff, l)
  /\ UNCHANGED <<nodes, edges>>

GraphNext ==
  \/ \E n \in Ids : UpsertNode(n)
  \/ \E e \in EdgeMenu : UpsertEdge(e)
  \/ \E l \in DiffMenu : DiffLine(l)
GraphSpec == GraphInit /\ [][GraphNext]_graphVars
-----------------------------------------------------------------------------
(* Lookups *)
IsTail(s, t) == s # <<>> /\ Len(s) =< Len(t) /\ SubSeq(t, Len(t) - Len(s) + 1, Len(t)) = s
Flexible(s, t) == IsTail(s, t) \/ IsTail(t, s)
LastSegs(s, k) == SubSeq(s, Len(s) - k + 1, Len(s))
InOrder(S) == SetToSortSeq(S, <)

FindNodesBySuffix(needle) == {n \in nodes : Flexible(needle, Segs[n])}

ResolveFqn(needle) ==
  LET exact == {n \in nodes : Segs[n] = needle}
      like == FindNodesBySuffix(needle)
  IN  IF exact # {} THEN exact ELSE IF Cardinality(like) = 1 THEN like ELSE {}

EdgesFrom(n) == {e \in edges : e[1] = n}
EdgesTo(n) == {e \in edges : e[3] = n}

(* the edges a walk may take from n, each with the id it leads to *)
Leads(n, dir, kinds) ==
  (IF dir = "in" THEN {} ELSE {<<e[3], e>> : e \in {x \in EdgesFrom(n) : x[2] \in kinds}})
  \cup (IF dir = "out" THEN {} ELSE {<<e[1], e>> : e \in {x \in EdgesTo(n) : x[2] \in kinds}})
LeadsInOrder(n, dir, kinds) ==
  SetToSortSeq(Leads(n, dir, kinds), LAMBDA a, b : a[1] < b[1])

(* KvStore::graph_bfs: ids no file declares are walked through, not reported *)
GraphBfs(start, depth, dir, kinds) ==
  LET Visit(s, n, d) ==
        IF n \in s.seen THEN s
        ELSE [seen |-> s.seen \cup {n}, queue |-> Append(s.queue, <<n, d>>),
              out |-> s.out \cup {<<m, d>> : m \in {n} \cap nodes}]
      RECURSIVE Loop(_)
      Loop(s) ==
        IF s.queue = <<>> THEN s.out
        ELSE LET cur == Head(s.queue)
                 rest == [s EXCEPT !.queue = Tail(@)]
             IN  IF cur[2] >= depth THEN Loop(rest)
                 ELSE Loop(FoldLeft(LAMBDA t, l : Visit(t, l[1], cur[2] + 1), rest,
                                    LeadsInOrder(cur[1], dir, kinds)))
  IN  IF depth = 0 THEN {} ELSE Loop([seen |-> {start}, queue |-> << <<start, 0>> >>, out |-> {}])

BlastKinds == [up |-> {"calls", "references", "extends"}, down |-> {"calls", "extends"},
               both |-> {"calls", "references", "extends"}]
BlastWalk == [up |-> "in", down |-> "out", both |-> "both"]

(* Variant: the shorter name is followed even when another node has it *)
AnySuffix(n, k) ==
  IF k < Len(Segs[n]) THEN {m \in Ids : Segs[m] = LastSegs(Segs[n], k)} ELSE {}

(* The shorter names of n under which a call may have been written down,    *)
(* when no other node has a claim to them.                                  *)
Unclaimed(n, k) ==
  IF k < Len(Segs[n]) /\ FindNodesBySuffix(LastSegs(Segs[n], k)) \subseteq {n}
  THEN {m \in Ids : Segs[m] = LastSegs(Segs[n], k)} ELSE {}

(* Graph::impact *)
Impact(n, blast, depth) ==
  LET Hits(m) == GraphBfs(m, depth, BlastWalk[blast], BlastKinds[blast])
      Extend(hits, k) ==
        hits \cup {h \in UNION {Hits(m) : m \in Unclaimed(n, k)} :
                     h[1] # n /\ \A g \in hits : g[1] # h[1]}
  IN  IF blast = "down" THEN Hits(n) ELSE Extend(Extend(Hits(n), 2), 1)

(* Graph::out_neighbors, in_neighbors, out_unresolved *)
OutNeighbors(n, kind) == {e[3] : e \in {x \in EdgesFrom(n) : x[2] = kind}} \cap nodes
OutUnresolved(n, kind) == {e[3] : e \in {x \in EdgesFrom(n) : x[2] = kind}} \ nodes
InNeighbors(n, kind) ==
  LET direct == {e[1] : e \in {x \in EdgesTo(n) : x[2] = kind}}
      loose == {e[1] : e \in {x \in edges : x[2] = kind /\ x[3] \in Unclaimed(n, 2) \cup Unclaimed(n, 1)}}
  IN  (direct \cup (loose \ {n})) \cap nodes

SymbolsInFile(path) == {n \in nodes : PathOf[n] = path}
SymbolsInFileLike(path) == {n \in nodes : Flexible(path, PathOf[n])}

(* tool_symbol_context, with every list below its limit *)
SymbolContext(n) ==
  [callers |-> InNeighbors(n, "calls"), callees |-> OutNeighbors(n, "calls"),
   extends |-> OutNeighbors(n, "extends"), extendedBy |-> InNeighbors(n, "extends"),
   references |-> InNeighbors(n, "references"), imports |-> OutUnresolved(n, "imports"),
   emits |-> OutNeighbors(n, "emits"), emittedBy |-> InNeighbors(n, "emits"),
   subscribesTo |-> InNeighbors(n, "subscribes"), subscribers |-> OutNeighbors(n, "subscribes"),
   siblings |-> SymbolsInFile(PathOf[n]) \ {n}]

(* What recall adds to the chunk of a symbol: enrich_one, below its limits *)
ImportsOfFile(n) ==
  {e[3] : e \in {x \in edges : x[2] = "imports" /\ x[1] \in SymbolsInFile(PathOf[n]) \cup {ModuleId[n]}}}
EnrichOne(n) ==
  [callers |-> {h[1] : h \in GraphBfs(n, 1, "in", {"calls"})},
   callees |-> {h[1] : h \in GraphBfs(n, 1, "out", {"calls"})},
   siblings |-> SymbolsInFile(PathOf[n]) \ {n}, imports |-> ImportsOfFile(n)]

(* tool_event_trace *)
EventTrace(topic) ==
  {[event |-> n, emitters |-> InNeighbors(n, "emits"), subscribers |-> OutNeighbors(n, "subscribes")] :
     n \in FindNodesBySuffix(topic) \cap EventIds}
-----------------------------------------------------------------------------
(* Graph::traverse: depth gives the nodes collected and their depth *)
Traverse(starts, dir, kinds, maxDepth, maxNodes) ==
  LET resolved == InOrder(UNION {ResolveFqn(s) : s \in starts})
      kept == SubSeq(resolved, 1, IF Len(resolved) =< maxNodes THEN Len(resolved) ELSE maxNodes)
      cut == Len(resolved) > maxNodes
      Collected(s) == {h[1] : h \in s.found}
      Follow(s, lead, d) ==
        LET n == lead[1] e == lead[2] IN
        IF n \in s.seen
        THEN IF {e[1], e[3]} \subseteq Collected(s) THEN [s EXCEPT !.edges = @ \cup {e}] ELSE s
        ELSE IF Cardinality(s.found) >= maxNodes
             THEN [s EXCEPT !.seen = @ \cup {n}, !.truncated = TRUE]
        ELSE IF n \notin nodes THEN [s EXCEPT !.seen = @ \cup {n}]
        ELSE [s EXCEPT !.seen = @ \cup {n}, !.found = @ \cup {<<n, d>>}, !.edges = @ \cup {e},
                       !.queue = Append(@, <<n, d>>)]
      RECURSIVE Loop(_)
      Loop(s) ==
        IF s.queue = <<>> THEN s
        ELSE LET cur == Head(s.queue)
                 rest == [s EXCEPT !.queue = Tail(@)]
             IN  IF cur[2] >= maxDepth THEN Loop(rest)
                 ELSE Loop(FoldLeft(LAMBDA t, l : Follow(t, l, cur[2] + 1), rest,
                                    LeadsInOrder(cur[1], dir, kinds)))
      first == {<<kept[i], 0>> : i \in DOMAIN kept}
  IN  Loop([seen |-> ToSet(resolved), found |-> first, edges |-> {}, truncated |-> cut,
            queue |-> IF cut THEN <<>> ELSE [i \in DOMAIN kept |-> <<kept[i], 0>>]])

(* A first-in-first-out search that remembers how each id was first reached *)
Search(start, dir, kinds, maxDepth, Stop(_)) ==
  LET Reach(s, cur, lead, d) ==
        IF s.stopped \/ lead[1] \in DOMAIN s.parent THEN s
        ELSE [parent |-> [m \in DOMAIN s.parent \cup {lead[1]} |->
                            IF m = lead[1] THEN <<cur, lead[2]>> ELSE s.parent[m]],
              queue |-> Append(s.queue, <<lead[1], d>>), stopped |-> Stop(lead[1])]
      RECURSIVE Loop(_)
      Loop(s) ==
        IF s.queue = <<>> \/ s.stopped THEN s.parent
        ELSE LET cur == Head(s.queue)
                 rest == [s EXCEPT !.queue = Tail(@)]
             IN  IF cur[2] >= maxDepth THEN Loop(rest)
                 ELSE Loop(FoldLeft(LAMBDA t, l : Reach(t, cur[1], l, cur[2] + 1), rest,
                                    LeadsInOrder(cur[1], dir, kinds)))
  IN  Loop([parent |-> [m \in {start} |-> <<start, <<>> >>], queue |-> << <<start, 0>> >>, stopped |-> FALSE])

(* the edges from the start of a search to goal *)
PathBack(parent, start, goal) ==
  LET RECURSIVE Back(_)
      Back(n) == IF n = start THEN <<>> ELSE Append(Back(parent[n][1]), parent[n][2])
  IN  Back(goal)

(* Graph::shortest_path between two resolved names; {} is None *)
ShortestPath(start, goal, dir, kinds, maxDepth) ==
  LET parent == Search(start, dir, kinds, maxDepth, LAMBDA n : n = goal)
  IN  IF start = goal THEN { <<>> }
      ELSE IF goal \in DOMAIN parent THEN {PathBack(parent, start, goal)} ELSE {}

(* Graph::taint_paths while the cap on findings is not met *)
TaintPaths(maxDepth) ==
  UNION {LET parent == Search(s, "out", {"datadep", "calls"}, maxDepth, LAMBDA n : FALSE)
         IN  {[source |-> s, sink |-> t, path |-> PathBack(parent, s, t)] :
                t \in (TaintSinks \cap nodes \cap DOMAIN parent) \ {s}} : s \in TaintSources \cap nodes}
-----------------------------------------------------------------------------
(* Graph::communities: labels spread in the order of names, at most 20 times *)
Adjacent(n) ==
  {m \in nodes \ {n} : \E e \in edges : e[2] \in {"calls", "imports", "extends"} /\ {e[1], e[3]} = {n, m}}
BestLabel(labels, n) ==
  LET Count(l) == Cardinality({m \in Adjacent(n) : labels[m] = l})
      near == {labels[m] : m \in Adjacent(n)}
  IN  CHOOSE l \in near : \A k \in near : Count(k) < Count(l) \/ (Count(k) = Count(l) /\ l =< k)
Propagate(labels) ==
  FoldLeft(LAMBDA ls, n : IF Adjacent(n) = {} THEN ls ELSE [ls EXCEPT ![n] = BestLabel(ls, n)],
           labels, InOrder(nodes))
Labels ==
  LET RECURSIVE Passes(_, _)
      Passes(labels, k) ==
        LET next == Propagate(labels) IN IF k = 0 \/ next = labels THEN labels ELSE Passes(next, k - 1)
  IN  Passes([n \in nodes |-> n], 20)
CommonPrefixName(members) ==
  LET sorted == InOrder(members)
      prefix == LongestCommonPrefix({Segs[sorted[1]], Segs[sorted[Len(sorted)]]})
  IN  IF prefix = <<>> THEN Segs[sorted[1]] ELSE prefix
Communities(minSize) ==
  LET labels == Labels
      groups == {{n \in nodes : labels[n] = l} : l \in {labels[n] : n \in nodes}}
  IN  {[name |-> CommonPrefixName(g), members |-> g] : g \in {x \in groups : Cardinality(x) >= minSize}}

(* Graph::processes from one entry: the chain a depth-first walk leaves *)
DfsCalls(entry, maxDepth) ==
  LET RECURSIVE Dfs(_, _, _)
      Dfs(s, n, d) ==
        IF d >= maxDepth THEN s
        ELSE FoldLeft(LAMBDA t, l :
               IF l[1] \in t.seen THEN t
               ELSE LET u == [seen |-> t.seen \cup {l[1]}, chain |-> Append(t.chain, l[2])]
                    IN  IF l[1] \in nodes THEN Dfs(u, l[1], d + 1) ELSE u,
               s, LeadsInOrder(n, "out", {"calls"}))
  IN  Dfs([seen |-> {entry}, chain |-> <<>>], entry, 0).chain
IsEntryPoint(n) == Segs[n][Len(Segs[n])] = "main"
Processes(maxDepth) ==
  {[entry |-> n, chain |-> DfsCalls(n, maxDepth)] : n \in {m \in nodes : IsEntryPoint(m)}}
-----------------------------------------------------------------------------
(* The tools in front of them bound what a caller may ask for *)
Clamp(x, low, high) == IF x < low THEN low ELSE IF x > high THEN high ELSE x
GraphQuery(starts, dir, kinds, depth, cap) == Traverse(starts, dir, kinds, Clamp(depth, 1, 16), Clamp(cap, 1, 5000))
GraphPaths(start, goal, dir, kinds, depth) == ShortestPath(start, goal, dir, kinds, Clamp(depth, 1, 32))
TaintReport(depth) == TaintPaths(Clamp(depth, 1, 32))
GraphProcesses(depth) == Processes(Clamp(depth, 1, 16))
-----------------------------------------------------------------------------
(* parse_unified_diff *)
Flush(s) ==
  [out |-> IF s.path # <<>> /\ s.ranges # {} THEN Append(s.out, [path |-> s.path, ranges |-> s.ranges]) ELSE s.out,
   path |-> <<>>, ranges |-> IF s.path # <<>> THEN {} ELSE s.ranges]
ParseLine(s, l) ==
  CASE l.h = "+++" -> LET f == Flush(s) IN IF l.path = DevNull THEN f ELSE [f EXCEPT !.path = l.path]
    [] l.h = "---" -> IF s.path = <<>> /\ l.path # DevNull THEN [s EXCEPT !.path = l.path] ELSE s
    [] l.h = "@@" /\ l.count > 0 /\ s.path # <<>> ->
         [s EXCEPT !.ranges = @ \cup {<<l.start, l.start + l.count - 1>>}]
    [] OTHER -> s
ParseUnifiedDiff(lines) ==
  Flush(FoldLeft(ParseLine, [out |-> <<>>, path |-> <<>>, ranges |-> {}], lines)).out

Overlaps(r, n) == r[1] =< LinesOf[n][2] /\ LinesOf[n][1] =< r[2]
Touched(hunks) ==
  UNION {{n \in SymbolsInFileLike(hunks[i].path) : \E r \in hunks[i].ranges : Overlaps(r, n)} : i \in DOMAIN hunks}

(* tool_detect_changes *)
DetectChanges(touched, depth) ==
  LET hits == UNION {Impact(n, "up", depth) : n \in touched}
  IN  {h \in hits : h[1] \notin touched /\ \A g \in hits : g[1] = h[1] => h[2] =< g[2]}
-----------------------------------------------------------------------------
(* Reference definitions: the ids k steps away, without a queue *)
RECURSIVE Ball(_, _, _, _)
Ball(S, k, Leading(_), through) ==
  IF k = 0 THEN S
  ELSE LET B == Ball(S, k - 1, Leading, through)
       IN  B \cup UNION {{l[1] : l \in Leading(n)} : n \in B \cap through}
Reached(S, k, dir, kinds) == Ball(S, k, LAMBDA n : Leads(n, dir, kinds), Ids)

(* The shorter names under which the resolver finds n *)
AliasesOf(n) ==
  {m \in Ids \ {n} : IsTail(Segs[m], Segs[n]) /\ Len(Segs[m]) =< 2 /\ ResolveFqn(Segs[m]) = {n}}

(* An impact lists each node within the depth once, never the symbol asked  *)
(* about; upwards it counts a call recorded under a shorter name exactly    *)
(* when the resolver takes that name for this symbol; and a node the full   *)
(* name reaches is listed at its distance.                                  *)
ImpactExact ==
  \A n \in nodes, blast \in {"up", "down", "both"}, d \in 1..MaxDepth :
    LET hits == Impact(n, blast, d)
        Within(S, k) == Reached(S, k, BlastWalk[blast], BlastKinds[blast])
        aliases == IF blast = "down" THEN {} ELSE AliasesOf(n)
    IN  /\ {h[1] : h \in hits} = ((Within({n}, d) \cup Within(aliases, d)) \cap nodes) \ {n}
        /\ \A h \in hits :
             /\ \A g \in hits : g[1] = h[1] => g = h
             /\ IF h[1] \in Within({n}, d) THEN h[1] \in Within({n}, h[2]) \ Within({n}, h[2] - 1)
                ELSE h[1] \in Within(aliases, h[2])

(* The context of a symbol and its impact at depth one name the same        *)
(* neighbours, what recall adds to its chunk is part of that context, and   *)
(* an event's subscribers have it among what they hear.                     *)
ContextAgrees ==
  \A n \in nodes :
    LET c == SymbolContext(n) r == EnrichOne(n) IN
    /\ r.callers \subseteq c.callers /\ r.callees \cup {n} = c.callees \cup {n} /\ r.siblings = c.siblings
    /\ c.imports \subseteq r.imports
    /\ (c.callers \cup c.references \cup c.extendedBy) \ {n} = {h[1] : h \in Impact(n, "up", 1)}
    /\ (c.callees \cup c.extends) \ {n} = {h[1] : h \in Impact(n, "down", 1)}
    /\ \A t \in EventTrace(Segs[n]) :
         /\ \A m \in t.subscribers : t.event \in SymbolContext(m).subscribesTo
         /\ \A m \in nodes : t.event \in SymbolContext(m).emits => m \in t.emitters

(* A traversal gives every node it keeps its true distance, keeps nothing   *)
(* while something nearer is left out, and when it was not cut short has    *)
(* all nodes within the depth and all edges between them it looked at.      *)
TraverseExact ==
  \A A \in {{n, m} : n, m \in Ids}, dir \in {"in", "out", "both"}, d \in 0..MaxDepth, cap \in {1, 2, 9} :
    LET kinds == {"calls", "extends"}
        S == UNION {ResolveFqn(Segs[n]) : n \in A}
        deep == Clamp(d, 1, 16)
        t == GraphQuery({Segs[n] : n \in A}, dir, kinds, d, cap)
        Within(k) == Ball(S, k, LAMBDA n : Leads(n, dir, kinds), nodes) \cap nodes
        kept == {h[1] : h \in t.found}
        inner == {h[1] : h \in {g \in t.found : g[2] < deep}}
    IN  /\ \A h \in t.found : /\ h[1] \in Within(h[2])
                              /\ h[2] > 0 => h[1] \notin Within(h[2] - 1) /\ Within(h[2] - 1) \subseteq kept
        /\ t.truncated => Cardinality(kept) = cap
        /\ ~t.truncated =>
             /\ kept = Within(deep)
             /\ t.edges = {e \in edges : /\ e[2] \in kinds /\ {e[1], e[3]} \subseteq kept
                                        /\ ((dir # "in" /\ e[1] \in inner) \/ (dir # "out" /\ e[3] \in inner))}

(* p leads from n to m along edges of these kinds *)
Connects(p, n, m, dir, kinds) ==
  LET RECURSIVE Ends(_)
      Ends(k) == IF k = 0 THEN {n}
                 ELSE {l[1] : l \in {x \in UNION {Leads(a, dir, kinds) : a \in Ends(k - 1)} : x[2] = p[k]}}
  IN  m \in Ends(Len(p))

(* A path is found exactly when the goal is within the depth, and it is a   *)
(* shortest one; a taint finding is a real flow, and none is missed.        *)
PathsExact ==
  /\ \A n, m \in nodes, dir \in {"in", "out", "both"}, d \in 1..MaxDepth :
       LET kinds == {"calls", "extends"}
           Within(k) == Reached({n}, k, dir, kinds)
       IN  /\ (GraphPaths(n, m, dir, kinds, d) = {}) <=> (m \notin Within(d))
           /\ \A p \in GraphPaths(n, m, dir, kinds, d) :
                Connects(p, n, m, dir, kinds) /\ (p # <<>> => m \notin Within(Len(p) - 1))
  /\ \A d \in 1..MaxDepth :
       /\ \A f \in TaintReport(d) : Connects(f.path, f.source, f.sink, "out", {"datadep", "calls"})
       /\ {<<f.source, f.sink>> : f \in TaintReport(d)} =
            {p \in (TaintSources \cap nodes) \X (TaintSinks \cap nodes) :
               p[1] # p[2] /\ p[2] \in Reached({p[1]}, d, "out", {"datadep", "calls"})}

(* Communities part the nodes, are never spread over unconnected parts, and *)
(* bear a name all their members share, if there is one; a process flow     *)
(* is a tree of calls from its entry, complete when no bound cuts it.       *)
GroupsSound ==
  /\ LET groups == Communities(1)
         Linked(n) == Ball({n}, Cardinality(nodes), LAMBDA a : {<<m, m>> : m \in Adjacent(a)}, nodes)
     IN  /\ UNION {g.members : g \in groups} = nodes
         /\ \A g \in groups :
              /\ \A h \in groups : h = g \/ h.members \cap g.members = {}
              /\ \A n \in g.members : g.members \subseteq Linked(n)
              /\ \A m \in g.members : IsPrefix(g.name, Segs[m]) \/ (\A k \in g.members : g.name = Segs[k] => k =< m)
  /\ \A d \in 1..(Cardinality(Ids)) : \A f \in GraphProcesses(d) :
       LET to == [i \in DOMAIN f.chain |-> f.chain[i][3]] IN
       /\ \A i \in DOMAIN to : /\ f.chain[i][1] \in {f.entry} \cup {to[j] : j \in 1..(i - 1)}
                              /\ to[i] # f.entry /\ \A j \in 1..(i - 1) : to[j] # to[i]
       /\ d = Cardinality(Ids) =>
            ToSet(to) \cup {f.entry} = Ball({f.entry}, d, LAMBDA n : Leads(n, "out", {"calls"}), nodes)

(* The ranges of a diff are those of its hunks, each under the file whose   *)
(* header it follows.                                                       *)
DiffExact ==
  LET Header(i) == CHOOSE j \in 1..i : diff[j].h = "+++" /\ \A k \in (j + 1)..i : diff[k].h # "+++"
      hunks == ParseUnifiedDiff(diff)
  IN  UNION {{<<hunks[i].path, r>> : r \in hunks[i].ranges} : i \in DOMAIN hunks} =
        {<<diff[Header(i)].path, <<diff[i].start, diff[i].start + diff[i].count - 1>> >> :
           i \in {k \in DOMAIN diff : diff[k].h = "@@" /\ diff[k].count > 0}}

(* The blast radius of a diff is what any touched symbol's callers reach,   *)
(* at the smallest depth, and names no touched symbol.                      *)
RadiusExact ==
  \A T \in SUBSET nodes, d \in 1..MaxDepth :
    LET radius == DetectChanges(T, d)
        all == {h[1] : h \in UNION {Impact(n, "up", d) : n \in T}}
    IN  /\ {h[1] : h \in radius} = all \ T
        /\ Cardinality(radius) = Cardinality(all \ T)

(* The tools' answers about the graph are the ones its rows determine, by   *)
(* definitions that know nothing of the order of a traversal.               *)
GraphExact ==
  ImpactExact /\ ContextAgrees /\ TraverseExact /\ PathsExact /\ GroupsSound /\ DiffExact /\ RadiusExact

(* A hunk that only deletes lines of a file still shows the symbol it stands *)
(* in (the comment on DiffHunk).                                            *)
\* The code does not keep it: README, disagreements.
DeletionsShow ==
  \A i \in DOMAIN diff : diff[i].h = "@@" /\ diff[i].count = 0 /\ diff[i].start > 0 =>
    \A n \in nodes : Overlaps(<<diff[i].start, diff[i].start>>, n)
                     /\ (\E j \in 1..i : diff[j].h = "+++" /\ diff[j].path = PathOf[n]
                                        /\ \A k \in (j + 1)..i : diff[k].h # "+++")
      => n \in Touched(ParseUnifiedDiff(diff))
=============================================================================
