----------------------------- MODULE Retriever ------------------------------
(***************************************************************************)
(* A recall (hoangsa-memory-retrieve/src/retriever.rs, rerank.rs and the   *)
(* rendering of hoangsa-memory-core/src/query.rs): the stages' hits are    *)
(* fused by reciprocal rank, ranked, folded by symbol, cut to a window,    *)
(* put in the order a model answers, cut to k and rendered to a budget.    *)
(*                                                                         *)
(* What a stage finds is any of a small menu.  Scores are integers: a hit  *)
(* of rank r adds Scale / (10 + r + 1).  The graph stage asks for the      *)
(* neighbours of eight seeds at once and takes the answers as they come;   *)
(* rows of equal score come out of a hash map, in any order.               *)
(*                                                                         *)
(* The second part is the documentation a chunk is shown with (enrich.rs): *)
(* the lines above the symbol that look like documentation, and of those   *)
(* and the body the doc comment by the language of the file.  A line is    *)
(* its kind:                                                               *)
(*   doc ///, mod //!, note //, attr # or #[, open /**, star *, close */,  *)
(*   quote and quoted: a triple quote alone, and around a text, def: def   *)
(*   and class, deco @, blank and code.                                    *)
(* A documentation is the sequence of the numbers of its lines.            *)
(***************************************************************************)
EXTENDS Integers, FiniteSets, SequencesExt

CONSTANTS
  ChunkIds,      \* ids of chunks, facts, lessons and preferences
  FileOfChunk,   \* [ChunkIds -> path]
  SymbolOf,      \* [ChunkIds -> symbol, 0 for none]
  Prose,         \* ids that come from the Markdown surfaces
  BodyLines,     \* [ChunkIds -> lines of the body]
  NearSymbol,    \* [symbols -> graph hits, a sequence of ids]
  SymMenu, FtsMenu, ProseMenu, VecMenu,   \* what the stages may find: sequences of ids
  RecallQueries, \* queries: records of k, floor, ids, symbols, boost, rerank, candidates, vector
  ModelReplies,  \* what the model may answer: sequences of indices
  NoReply,       \* no usable answer: timed out, failed, or not a list
  RenderBudgets, \* pairs <<lines of a body, lines in all>>, 0 for no limit
  LineKinds,     \* kinds a file may hold
  MaxFileLines,  \* bound: lines of a file
  Lookback       \* DOC_LOOKBACK_LINES

Scale == 24024
NoiseFloor == 1201   \* 0.05
MaxSeeds == 8

VARIABLES recallStep, query, fused, seeds, ranked, chunks, found
recallVars == <<recallStep, query, fused, seeds, ranked, chunks, found>>

RecallInit ==
  /\ recallStep = "symbol"
  /\ query \in RecallQueries
  /\ fused = {} /\ seeds = <<>> /\ ranked = <<>> /\ chunks = <<>>
  /\ found = {}   \* every row a stage offered, for the properties

UpTo(s, n) == SubSeq(s, 1, IF Len(s) < n THEN Len(s) ELSE n)
Row(id, sym, score) == [id |-> id, sym |-> sym, score |-> score]

(* fuse: the row of the first stage that found the id is kept *)
Fuse(rows, id, sym, rank) ==
  LET delta == Scale \div (10 + rank)
  IN  IF \E r \in rows : r.id = id
      THEN {IF r.id = id THEN [r EXCEPT !.score = @ + delta] ELSE r : r \in rows}
      ELSE rows \cup {Row(id, sym, delta)}
FuseAll(rows, hits) == FoldLeftDomain(LAMBDA s, i : Fuse(s, hits[i].id, hits[i].sym, i), rows, hits)

Known(ids) == [i \in DOMAIN ids |-> [id |-> ids[i], sym |-> SymbolOf[ids[i]]]]
Unnamed(ids) == [i \in DOMAIN ids |-> [id |-> ids[i], sym |-> 0]]

(* filter_scope: the paths and languages of the scope allow a set of ids *)
FilterScope(hits) ==
  SelectSeq(hits, LAMBDA h : h.id \in query.ids /\ (query.symbols # {} => h.sym \in query.symbols))

(* a stage's hits are fused, and the recall goes on *)
Offer(hits, from, to) ==
  /\ recallStep = from /\ recallStep' = to
  /\ fused' = FuseAll(fused, hits)
  /\ found' = found \cup ToSet(hits)
  /\ UNCHANGED <<query, ranked, chunks>>

Named(hits) == SelectSeq([i \in DOMAIN hits |-> hits[i].sym], LAMBDA s : s # 0)

SymbolStage ==
  \E ids \in SymMenu :
    LET hits == FilterScope(Known(ids))
    IN  Offer(hits, "symbol", "fts") /\ seeds' = UpTo(Named(hits), MaxSeeds)

Bm25Stage ==
  \E ids \in FtsMenu :
    LET hits == FilterScope(Known(ids))
    IN  Offer(hits, "fts", "graph") /\ seeds' = UpTo(seeds \o Named(hits), MaxSeeds)

(* the neighbours of the seeds, batch by batch in the order they arrive; a  *)
(* chunk seen before is dropped                                             *)
Batched(order) == FoldLeft(LAMBDA s, x : IF x \in ToSet(s) THEN s ELSE Append(s, x), <<>>,
                           FlattenSeq([i \in DOMAIN order |-> NearSymbol[order[i]]]))
GraphStage ==
  \E p \in {q \in [DOMAIN seeds -> DOMAIN seeds] : \A i, j \in DOMAIN seeds : q[i] = q[j] => i = j} :
    Offer(FilterScope(Known(Batched([i \in DOMAIN seeds |-> seeds[p[i]]]))), "graph", "prose") /\ UNCHANGED seeds

(* facts, lessons and preferences: the scope does not filter them *)
MarkdownStages ==
  \E ids \in ProseMenu : Offer(Unnamed(ids), "prose", "vector") /\ UNCHANGED seeds

(* chunk ids of the vector store name a file and lines, not a symbol *)
VectorStage ==
  \E ids \in (IF query.vector THEN VecMenu ELSE {<<>>}) :
    Offer(FilterScope(Unnamed(ids)), "vector", "rank") /\ UNCHANGED seeds

RECURSIVE Sortings(_)
Sortings(rows) ==
  IF rows = {} THEN { <<>> }
  ELSE UNION {{<<r>> \o s : s \in Sortings(rows \ {r})} :
                r \in {x \in rows : \A y \in rows : y.score =< x.score}}

Boosted(rows) ==
  {IF r.id \in Prose THEN [r EXCEPT !.score = (@ * query.boost) \div 2] ELSE r : r \in rows}

(* dedupe_by_path_symbol: the later row's score goes to the earlier one *)
DedupeByPathSymbol(rows) ==
  FoldLeft(LAMBDA out, r :
             LET twins == {i \in DOMAIN out : r.sym # 0 /\ out[i].sym = r.sym
                                              /\ FileOfChunk[out[i].id] = FileOfChunk[r.id]}
             IN  IF twins = {} THEN Append(out, r)
                 ELSE LET i == CHOOSE t \in twins : TRUE IN [out EXCEPT ![i].score = @ + r.score],
           <<>>, rows)

Window == IF query.rerank THEN (IF query.candidates > query.k THEN query.candidates ELSE query.k) ELSE query.k

Rank ==
  /\ recallStep = "rank"
  /\ \E all \in Sortings(Boosted(fused)) :
       LET strong == SelectSeq(all, LAMBDA r : r.score >= query.floor)
           heard == IF strong # <<>> /\ strong[1].score < NoiseFloor THEN <<>> ELSE strong
       IN  /\ ranked' = DedupeByPathSymbol(heard)
           /\ chunks' = UpTo([i \in DOMAIN ranked' |-> ranked'[i].id], Window)
  /\ recallStep' = IF query.rerank THEN "rerank" ELSE "done"
  /\ UNCHANGED <<query, fused, seeds, found>>

(* apply_order: indices count from 0; the permutation is done by swaps *)
Targets(order, window) ==
  LET named == FoldLeft(LAMBDA t, i : IF i < window /\ i \notin ToSet(t) THEN Append(t, i) ELSE t, <<>>, order)
  IN  named \o SelectSeq([i \in 1..window |-> i - 1], LAMBDA i : i \notin ToSet(named))
ApplyOrder(items, window, order) ==
  LET target == Targets(order, window)
      Swap(f, a, b) == [f EXCEPT ![a] = f[b], ![b] = f[a]]
      RECURSIVE Cycle(_, _)
      Cycle(s, start) ==
        IF start > window THEN s.items
        ELSE IF s.pos[start] = start THEN Cycle(s, start + 1)
        ELSE Cycle([items |-> Swap(s.items, start, s.pos[start]), pos |-> Swap(s.pos, start, s.pos[start])], start)
  IN  Cycle([items |-> items, pos |-> [old \in 1..window |-> CHOOSE new \in 1..window : target[new] = old - 1]], 1)

RerankWindow(n) == IF query.candidates < 2 THEN (IF n < 2 THEN n ELSE 2) ELSE IF query.candidates < n THEN query.candidates ELSE n
Usable(reply) == SelectSeq(reply, LAMBDA i : i < RerankWindow(Len(chunks)))

Rerank ==
  /\ recallStep = "rerank" /\ recallStep' = "done"
  /\ \E reply \in ModelReplies \cup {NoReply} :
       chunks' = UpTo(IF Len(chunks) < 2 \/ reply = NoReply \/ Usable(reply) = <<>> THEN chunks
                      ELSE ApplyOrder(chunks, RerankWindow(Len(chunks)), Usable(reply)), query.k)
  /\ UNCHANGED <<query, fused, seeds, ranked, found>>

RecallNext ==
  \/ SymbolStage \/ Bm25Stage \/ GraphStage \/ MarkdownStages \/ VectorStage \/ Rank \/ Rerank
RecallSpec == RecallInit /\ [][RecallNext]_recallVars

(* Retrieval::render_with: a header of two lines and the body for each chunk *)
Render(ids, bodyCap, budget) ==
  FoldLeft(LAMBDA s, id :
             IF s.full \/ (budget > 0 /\ s.size >= budget)
             THEN [s EXCEPT !.full = TRUE, !.dropped = @ + 1]
             ELSE LET n == IF bodyCap = 0 \/ BodyLines[id] < bodyCap THEN BodyLines[id] ELSE bodyCap
                  IN  [s EXCEPT !.size = @ + 2 + n,
                                !.shown = Append(@, [id |-> id, lines |-> n, resume |-> n + 1])],
           [size |-> 0, shown |-> <<>>, dropped |-> 0, full |-> FALSE], ids)
-----------------------------------------------------------------------------
SameSymbol(x, y) == x = y \/ (x.sym # 0 /\ x.sym = y.sym /\ FileOfChunk[x.id] = FileOfChunk[y.id])
ScoreOf(id) == (CHOOSE r \in Boosted(fused) : r.id = id).score
Rowed(id) == CHOOSE r \in fused : r.id = id

(* What is ranked is one row a symbol, the best of its rows, in the order   *)
(* of what the rows scored before they were folded; only rows a stage found *)
(* in scope; and what is not ranked is too weak or another row's symbol.    *)
RankedBest ==
  recallStep \in {"rerank", "done"} =>
    LET ids == {ranked[i].id : i \in DOMAIN ranked}
    IN  /\ \A i, j \in DOMAIN ranked : i < j =>
             ~SameSymbol(Rowed(ranked[i].id), Rowed(ranked[j].id)) /\ ScoreOf(ranked[j].id) =< ScoreOf(ranked[i].id)
        /\ \A id \in ids : \E h \in found : h.id = id /\ (id \in Prose \/ id \in query.ids)
        /\ \A r \in fused : ScoreOf(r.id) >= query.floor =>
             \/ \E id \in ids : SameSymbol(r, Rowed(id)) /\ ScoreOf(id) >= ScoreOf(r.id)
             \/ ids = {} /\ query.boost < 2

(* The noise floor alone never empties an answer: unless the caller asks    *)
(* for less than the Markdown rows score, whatever a stage found is heard.  *)
FloorIdle ==
  recallStep \in {"rerank", "done"} /\ query.boost >= 2 /\ query.floor = 0 =>
    ((ranked = <<>>) <=> (found = {}))

(* A reranked answer holds k of the rows that were shown to the model, none *)
(* twice and none of its own; without a usable reply it is the first k.     *)
RerankedSame ==
  recallStep = "done" =>
    LET shown == UpTo([i \in DOMAIN ranked |-> ranked[i].id], Window)
    IN  /\ Len(chunks) = (IF Len(shown) < query.k THEN Len(shown) ELSE query.k)
        /\ ToSet(chunks) \subseteq ToSet(shown) /\ IsInjective(chunks)
        /\ ~query.rerank => chunks = UpTo(shown, query.k)

(* The swaps put the items in the order the targets name. *)
SwapsPermute ==
  recallStep = "rerank" =>
    \A reply \in ModelReplies, w \in 0..Len(chunks) :
      LET t == Targets(reply, w) out == ApplyOrder(chunks, w, reply)
      IN  \A i \in DOMAIN chunks : out[i] = IF i =< w THEN chunks[t[i] + 1] ELSE chunks[i]

(* A rendering shows a first part of the answer, always its first row, and  *)
(* says how many rows and which lines it leaves out.                        *)
RenderCounts ==
  recallStep = "done" =>
    \A b \in RenderBudgets :
      LET r == Render(chunks, b[1], b[2])
      IN  /\ Len(r.shown) + r.dropped = Len(chunks)
          /\ \A i \in DOMAIN r.shown : r.shown[i].id = chunks[i] /\ r.shown[i].resume - 1 + (BodyLines[chunks[i]] - r.shown[i].lines) = BodyLines[chunks[i]]
          /\ chunks # <<>> => r.shown # <<>>
          /\ b[2] = 0 => r.dropped = 0

RecallExact == RankedBest /\ FloorIdle /\ RerankedSame /\ SwapsPermute /\ RenderCounts

(* The rows come out in the order of the scores they show (the comment on   *)
(* dedupe_by_path_symbol).                                                  *)
\* The code does not keep it: README, disagreements.
ScoresDescend == \A i, j \in DOMAIN ranked : i < j => ranked[j].score =< ranked[i].score
-----------------------------------------------------------------------------
VARIABLE source   \* a file's lines, the last one the symbol's

DocInit == source = <<>>
InBlock == source # <<>> /\ source[Len(source)] \in {"open", "star"}
TypeLine == /\ Len(source) < MaxFileLines
            /\ \E k \in LineKinds : (InBlock <=> k \in {"star", "close"}) /\ source' = Append(source, k)
DocNext == TypeLine

Docish == {"blank", "doc", "mod", "note", "attr", "open", "star", "close", "quote", "quoted"}
Slashes == {"doc", "mod", "note"}

(* leading_doc_lookback: the lines above line `at`, upwards while they look *)
(* like documentation                                                       *)
LeadingDocLookback(at) ==
  LET starts == {i \in 1..at : at - i =< Lookback /\ \A j \in i..(at - 1) : source[j] \in Docish}
      first == CHOOSE i \in starts : \A j \in starts : i =< j
  IN  [k \in 1..(at - first) |-> first + k - 1]

(* reads lines until one stops the reading *)
Read(lines, Step(_, _)) ==
  FoldLeft(LAMBDA s, i : IF s.stop THEN s ELSE Step(s, i), [doc |-> <<>>, stop |-> FALSE], lines).doc
Take(s, i) == [s EXCEPT !.doc = Append(@, i)]
Halt(s) == [s EXCEPT !.stop = TRUE]

RustDoc(lines) ==
  Read(lines, LAMBDA s, i : CASE source[i] \in {"doc", "mod"} -> Take(s, i)
                              [] source[i] \in {"attr", "blank"} -> IF s.doc = <<>> THEN s ELSE Halt(s)
                              [] OTHER -> Halt(s))
GoDoc(lines) ==
  Read(lines, LAMBDA s, i : CASE source[i] \in Slashes -> Take(s, i)
                              [] source[i] = "blank" /\ s.doc = <<>> -> s
                              [] OTHER -> Halt(s))
CStyleDoc(lines) ==
  IF lines = <<>> THEN <<>>
  ELSE IF source[lines[1]] = "open"
       THEN IF \E i \in DOMAIN lines : source[lines[i]] = "close"
            THEN Read(lines, LAMBDA s, i : IF source[i] = "close" THEN Halt(Take(s, i)) ELSE Take(s, i))
            ELSE <<>>
  ELSE Read(lines, LAMBDA s, i : IF source[i] \in Slashes THEN Take(s, i) ELSE Halt(s))
PythonDoc(lines) ==
  LET skipped == {i \in DOMAIN lines : \A j \in 1..i : source[lines[j]] \in {"blank", "attr", "deco", "def"}}
      i == Cardinality(skipped) + 1
      ends == {j \in (i + 1)..Len(lines) : source[lines[j]] \in {"quote", "quoted"}}
  IN  IF i > Len(lines) THEN <<>>
      ELSE IF source[lines[i]] = "quoted" THEN <<lines[i]>>
      ELSE IF source[lines[i]] = "quote" /\ ends # {}
           THEN SubSeq(lines, i + 1, CHOOSE j \in ends : \A k \in ends : j =< k)
           ELSE <<>>

(* extract_docstring, of what lies above the symbol and its body *)
ExtractDocstring(language, at) ==
  LET lines == LeadingDocLookback(at) \o [k \in 1..(Len(source) - at + 1) |-> at + k - 1]
  IN  CASE language = "rust" -> RustDoc(lines)
        [] language = "go" -> GoDoc(lines)
        [] language = "c" -> CStyleDoc(lines)
        [] language = "python" -> PythonDoc(lines)

(* A documentation is one run of lines that a comment opens, and above a    *)
(* line of code it never takes that line or one after it.                   *)
DocContiguous ==
  \A at \in DOMAIN source, language \in {"rust", "go", "c", "python"} :
    LET doc == ExtractDocstring(language, at)
    IN  /\ \A i \in 2..Len(doc) : doc[i] = doc[i - 1] + 1
        /\ language # "python" /\ doc # <<>> =>
             source[doc[1]] \in Slashes \cup {"open"} /\ (source[at] = "code" => doc[Len(doc)] < at)

(* The documentation of a Rust item is the comment above it: nothing but    *)
(* attributes and blank lines lies between (the comment on enrich_one).     *)
\* The code does not keep it: README, disagreements.
DocIsNearest ==
  \A at \in DOMAIN source :
    LET doc == ExtractDocstring("rust", at)
    IN  doc # <<>> /\ source[at] = "code" =>
          \A i \in (doc[Len(doc)] + 1)..(at - 1) : source[i] \notin {"doc", "mod"}
=============================================================================
