------------------------------ MODULE MCStores ------------------------------
(* The stores: the conversation archive and what it makes of a transcript,  *)
(* the project registry, the episode log, the graph's tables and the        *)
(* vectors with their embedder, the text of the markdown surfaces and the   *)
(* way files are published.                                                 *)
(* They share no state, so a behaviour works on one of them while the       *)
(* others rest.                                                             *)
EXTENDS Archive, Transcript, Registry, EpisodeLog, EdgeTables, VectorStore,
  SurfaceText, AtomicWrite

CONSTANTS a, b, MaxLines

Block(type, id, tool, text) == [type |-> type, id |-> id, tool |-> tool, text |-> text]
Says(role, blocks) == [type |-> "claude", role |-> role, blocks |-> blocks]
Rollout(payload, role, injected, text) ==
  [type |-> "response_item", payload |-> payload, role |-> role, injected |-> injected, text |-> text]
Chars(k, from, to) == [i \in 1..(to - from + 1) |-> <<k, from + i - 1>>]
Speech(k, role, n) == Says(role, <<Block("text", "", "", Chars(k, 1, n))>>)

(* the lines a transcript may hold, as its k-th line *)
MenuLine(j, k) ==
  CASE j = 1 -> Speech(k, "user", 1)
    [] j = 2 -> Speech(k, "user", 3)
    [] j = 3 -> Says("user", <<Block("text", "", "", Chars(k, 1, 3) \o <<NL, NL>> \o Chars(k, 4, 9))>>)
    [] j = 4 -> Speech(k, "assistant", 2)
    [] j = 5 -> Says("assistant", <<Block("text", "", "", Chars(k, 1, 2) \o <<NL>> \o Chars(k, 3, 6)),
                                    Block("tool_use", "read", "Read", Chars(k, 7, 7))>>)
    [] j = 6 -> Says("assistant", <<Block("tool_use", "sh", "Bash", Chars(k, 1, 2))>>)
    [] j = 7 -> Says("user", <<Block("tool_result", "sh", "", Chars(k, 1, 4))>>)
    [] j = 8 -> Says("user", <<Block("tool_result", "read", "", Chars(k, 1, 4))>>)
    [] j = 9 -> Says("user", <<Block("text", "", "", Chars(k, 1, 2) \o <<Open>> \o Chars(k, 3, 4) \o <<Close, NL>> \o Chars(k, 5, 6))>>)
    [] j = 10 -> Says("user", <<Block("text", "", "", <<Open>> \o Chars(k, 1, 2) \o <<NL>> \o Chars(k, 3, 5))>>)
    [] j = 11 -> Says("assistant", <<Block("text", "", "", Chars(k, 1, 2) \o <<NL, Chrome>> \o Chars(k, 3, 3) \o <<NL>> \o Chars(k, 4, 5))>>)
    [] j = 12 -> Speech(k, "system", 4)
    [] j = 13 -> Rollout("message", "user", FALSE, Chars(k, 1, 3))
    [] j = 14 -> Rollout("message", "user", TRUE, Chars(k, 1, 3))
    [] j = 15 -> Rollout("message", "assistant", FALSE, Chars(k, 1, 2))
    [] j = 16 -> Rollout("call", "", FALSE, Chars(k, 1, 3))
MenuSize == 16

MCLines == << << <<Speech(1, "user", 2), Speech(2, "assistant", 1)>>,
                 <<Speech(1, "user", 2), Speech(2, "assistant", 1), Speech(3, "assistant", 2)>> >>,
              << <<Speech(4, "system", 2)>>, <<Speech(4, "system", 2), Speech(5, "user", 3)>> >> >>
MCChunksOf == << << << <<<<1, 1>>, <<1, 2>>, <<0, 0>>, <<0, 0>>, <<2, 1>>>> >>,
                    << <<<<1, 1>>, <<1, 2>>>>, <<<<2, 1>>, <<0, 0>>, <<3, 1>>, <<3, 2>>>> >> >>,
                 << << >>, << <<<<5, 1>>, <<5, 2>>, <<5, 3>>>> >> >> >>
(* the archive's instance is what the parser and the chunker make of MCLines *)
ASSUME ChunksOfTheText ==
  \A s \in {1, 2}, v \in {1, 2} : MCChunksOf[s][v] = ChunkExchanges(ParseConversation(MCLines[s][v]))

(* p1 and p2 share a slug *)
MCPaths == {"p1", "p2", "q"}
MCSlugOf == [p1 |-> "p", p2 |-> "p", q |-> "q"]
Op(do, p, s) == [do |-> do, path |-> p, slug |-> s]
MCRegOps == {Op("register", "p1", "p"), Op("register", "p2", "p"), Op("register", "q", "q"),
             Op("add", "p1", "p"), Op("remove", "p1", "p"), Op("rename", "q", "q"),
             Op("uiRegister", "q", "q"), Op("switch", "p1", "p"), Op("uiRemove", "p1", "p")}

MCSymbols == [f \in {"f", "g"} |-> IF f = "f" THEN {"x", "y"} ELSE {"z"}]
MCBatches == {{<<"x", "calls", "z">>, <<"x", "calls", "y">>}, {<<"z", "calls", "y">>, <<"z", "imports", "lib">>}}

Cond(form, field, value) == [form |-> form, field |-> field, value |-> value]
Many(form, subs) == [form |-> form, subs |-> subs]
Batch(ids, k) == [do |-> "upsert", col |-> "code", ids |-> ids, meta |-> [kind |-> k]]
MCVecBatches == {Batch({a, b}, 1), Batch({a, b}, 2)}
OneOf(field, values) == [form |-> "in", field |-> field, values |-> values]
Query(text, n, f) == [do |-> "query", col |-> "code", text |-> text, n |-> n, filter |-> f]
NotKind == Cond("ne", "kind", 1)
OtherPath == <<Cond("ne", "path", 1), Cond("eq", "kind", 1)>>
LaterOrOther == <<OneOf("kind", {2, 3}), Many("and", OtherPath)>>
MCVecFilters == {NotKind, Many("or", LaterOrOther)} \cup Range(OtherPath) \cup Range(LaterOrOther)
MCVecQueries == {Query("t", 1, NoFilter), Query("", 2, NotKind), Query("t", 2, Many("or", LaterOrOther))}
MCNearTo == [t \in {"t"} |-> [x \in {a, b} |-> IF x = a THEN 2 ELSE 1]]

T(n) == Line("text", <<n>>)
MCSurfaceEntries ==
  {New(<<1, 2>>),
   [New(<<2>>) EXCEPT !.body = <<T(1)>>, !.tags = <<5>>, !.scope = 1, !.footer.block = 3],
   [New(<<1>>) EXCEPT !.body = <<Blank, T(1), Header, T(2)>>],
   [bare |-> TRUE] @@ New(<<3>>)}
MCNewTexts == {[title |-> <<1, 3>>, rest |-> <<T(7), Blank>>], [title |-> <<2>>, rest |-> <<Tags(<<6>>)>>],
               [title |-> <<3>>, rest |-> <<Line("entry", <<1>>), T(3)>>]}
MCQueries == {<<1>>, <<2>>, <<5>>}
MCHandLines == {T(8), Tags(<<6>>), Line("suggested", <<Unreadable>>), Header}
(* two tasks of the daemon and a command, with a long, a short and a long body *)
MCProcessOf == [t \in {"t1", "t2", "c"} |-> IF t = "c" THEN "cli" ELSE "daemon"]
MCBodyOf == [t1 |-> <<"x1", "x2">>, t2 |-> <<"y1">>, c |-> <<"z1", "z2", "z3">>]
-----------------------------------------------------------------------------
VARIABLES system,   \* which store this behaviour works on
          convo     \* a transcript

storesVars == <<system, convo, archiveVars, regVars, epVars, kvVars, vecVars, surfaceVars, writeVars>>

StoresInit ==
  /\ system \in {"archive", "transcript", "registry", "episodes", "graph", "vectors", "surface", "publish"}
  /\ convo = <<>>
  /\ ArchiveInit /\ RegInit /\ EpInit /\ KvInit /\ VecInit /\ SurfaceInit /\ WriteInit
  /\ system # "archive" => daemonUp
  /\ system # "registry" => dataDirs = {} /\ \A p \in Paths : local[p] = "absent"
  /\ \A p \in Paths \ {"p1"} : local[p] = "absent"
  /\ system # "graph" => forward = {}
  /\ system # "surface" => surface = "fact"
  /\ system # "publish" => Len(content[1]) = 1

WriteLine ==
  /\ Len(convo) < MaxLines
  /\ \E j \in 1..MenuSize : convo' = Append(convo, MenuLine(j, Len(convo) + 1))

StoresNext ==
  /\ UNCHANGED system
  /\ \/ system = "archive" /\ ArchiveNext /\ UNCHANGED <<convo, regVars, epVars, kvVars, vecVars, surfaceVars, writeVars>>
     \/ system = "transcript" /\ WriteLine /\ UNCHANGED <<archiveVars, regVars, epVars, kvVars, vecVars, surfaceVars, writeVars>>
     \/ system = "registry" /\ RegNext /\ UNCHANGED <<convo, archiveVars, epVars, kvVars, vecVars, surfaceVars, writeVars>>
     \/ system = "episodes" /\ EpNext /\ UNCHANGED <<convo, archiveVars, regVars, kvVars, vecVars, surfaceVars, writeVars>>
     \/ system = "graph" /\ KvNext /\ UNCHANGED <<convo, archiveVars, regVars, epVars, vecVars, surfaceVars, writeVars>>
     \/ system = "vectors" /\ VecNext /\ UNCHANGED <<convo, archiveVars, regVars, epVars, kvVars, surfaceVars, writeVars>>
     \/ system = "surface" /\ SurfaceNext /\ UNCHANGED <<convo, archiveVars, regVars, epVars, kvVars, vecVars, writeVars>>
     \/ system = "publish" /\ WriteNext /\ UNCHANGED <<convo, archiveVars, regVars, epVars, kvVars, vecVars, surfaceVars>>

Archives(A) == system = "archive" /\ A /\ UNCHANGED <<system, convo, regVars, epVars, kvVars, vecVars, surfaceVars, writeVars>>

\* ArchiveFairness, for the behaviours that work on the archive
StoresSpec ==
  /\ StoresInit /\ [][StoresNext]_storesVars
  /\ WF_storesVars(Archives(CooldownPasses)) /\ SF_storesVars(Archives(Hooked))
  /\ WF_storesVars(Archives(PurgeVectors))
  /\ \A w \in Writers : WF_storesVars(Archives(Step(w)))

(* The chunks of a transcript hold what was said in it, once and in order,  *)
(* but for fragments shorter than a chunk; and one more line never makes    *)
(* them fewer, which the archive relies on.                                 *)
TextKept ==
  /\ KeepsText(ParseConversation(convo)) /\ SpeechKept(convo)
  /\ convo # <<>> => Len(ChunkExchanges(ParseConversation(Front(convo)))) <= Len(ChunkExchanges(ParseConversation(convo)))

(* The registry, the episode log, the graph's tables, the vectors and the   *)
(* surfaces keep what was written, in step with their indexes, and no file  *)
(* that is published is ever torn.                                          *)
StoresHonest ==
  CASE system = "archive" -> TRUE
    [] system = "transcript" -> TextKept
    [] system = "registry" -> RegistryHonest
    [] system = "episodes" -> EpisodesHonest
    [] system = "graph" -> EdgesInStep
    [] system = "vectors" -> VectorsHonest
    [] system = "surface" -> SurfaceExact
    [] system = "publish" -> TargetWhole
=============================================================================
