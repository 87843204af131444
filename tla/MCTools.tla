------------------------------ MODULE MCTools ------------------------------
(* What answers the agent and the user from what is stored: the queries on  *)
(* the code graph, recall with the documentation it adds, the proxy in      *)
(* front of commands and the pages that patch the configuration.  They      *)
(* share no state, so a behaviour works on one of them while the others     *)
(* rest.                                                                    *)
EXTENDS GraphQueries, Retriever, Fronts

(* five names, the third being what the two others shorten to *)
MCSegs == << <<"a", "m", "f">>, <<"b", "m", "g">>, <<"f">>, <<"main">>, <<"m", "f">> >>
MCPathOf == << <<"d", "x">>, <<"y">>, <<"x">>, <<"x">>, <<"x">> >>
MCLinesOf == << <<2, 3>>, <<1, 4>>, <<1, 1>>, <<5, 9>>, <<2, 2>> >>
MCModuleId == <<5, 5, 5, 5, 5>>
MCEdges == {<<4, "calls", 1>>, <<4, "calls", 5>>, <<1, "calls", 2>>, <<2, "calls", 3>>, <<3, "extends", 2>>, <<5, "imports", 4>>}
MCEvents == {<<1, "emits", 2>>, <<2, "subscribes", 3>>, <<2, "subscribes", 4>>, <<1, "datadep", 5>>, <<5, "datadep", 3>>}

L(h, p) == [h |-> h, path |-> p]
H(s, c) == [h |-> "@@", start |-> s, count |-> c]
MCDiff == {L("---", <<"x">>), L("+++", <<"x">>), L("---", <<"y">>), L("+++", <<"y">>), L("+++", <<"dev", "null">>),
           H(0, 0), H(2, 0), H(1, 2), H(5, 1)}

(* chunks 1 and 2 are spans of one symbol in file x, 3 and 4 of one in y, 5 is a fact *)
MCFile == <<"x", "x", "y", "y", "M">>
MCSym == <<1, 1, 2, 2, 0>>
MCBody == <<3, 1, 2, 1, 1>>
MCNear == << <<4>>, <<2, 3>> >>
MCSymMenu == {<<>>, <<1>>, <<1, 3>>}
MCFtsMenu == {<<>>, <<2>>, <<3, 2>>, <<2, 3, 1>>}
MCProseMenu == {<<>>, <<5>>}
MCVecMenu == {<<>>, <<3, 1>>}
Q(k, f, i, s, b, r, c, v) ==
  [k |-> k, floor |-> f, ids |-> i, symbols |-> s, boost |-> b, rerank |-> r, candidates |-> c, vector |-> v]
MCQueries == {Q(1, 0, 1..5, {}, 2, FALSE, 0, TRUE), Q(2, 0, 1..5, {}, 1, TRUE, 3, FALSE),
              Q(1, 2200, {1, 2, 5}, {1}, 3, TRUE, 2, TRUE), Q(3, 3000, 1..5, {}, 2, TRUE, 1, TRUE)}
MCReplies == {<<>>, <<1, 0>>, <<2, 2, 7, 0>>, <<9>>, <<2, 0, 1>>}
MCBudgets == {<<0, 0>>, <<2, 4>>, <<1, 3>>}

MCMaxChunks == [stdout |-> 3, stderr |-> 2]

B(cmd, sub, p, f) == [cmd |-> cmd, subcmd |-> sub, priority |-> p, filter |-> f, tier |-> "builtin"]
MCBuiltins ==
  <<B("git", "log", 50, "log"), B("git", "diff", 50, "diff"), B("git", "status", 50, "status"),
    B("git", "blame", 50, "blame"), B("git", "show", 50, "show"), B("git", "", 0, "pass"),
    B("cargo", "build", 50, "compile"), B("ls", "", 50, "ls"), B("cat", "", 50, "cat"),
    B("grep", "", 50, "grep"), B("find", "", 50, "find"), B("npm", "", 50, "packages"), B("curl", "", 50, "curl")>>
(* thresholds in the proportions of the code's *)
Cut(limit) == [limit |-> limit, first |-> 1, last |-> 1]
MCKeep == [log |-> Cut(2), diff |-> Cut(2), blame |-> Cut(2), show |-> [head |-> 1] @@ Cut(3),
           ls |-> Cut(3), cat |-> Cut(3), find |-> Cut(3), grep |-> Cut(3)]
MCKnown == {"git", "cargo"}
Line(k, i, w) == [kind |-> k, id |-> i, width |-> w]
MCLines == {Line("text", 1, 1), Line("text", 2, 3), Line("noise", 3, 2), Line("prose", 4, 2), Line("blank", 5, 0)}
Token(k, w) == [kind |-> k, word |-> w]
MCTokens == {Token("env", "A=1"), Token("word", "git"), Token("word", "hsp"), Token("word", "x"), Token("op", "|")}
MCForeign == {{"user's"}}
Script(c, s, p) ==
  [cmd |-> c, subcmd |-> s, priority |-> p, filter |-> "f", fails |-> FALSE, answer |-> Passthrough, exit |-> 7]
MCScripts == {<<>>, << <<Script("git", "", 50)>>, <<Script("git", "log", 50)>> >>,
              << <<Script("git", "log", 50), Script("git", "log", 60)>>, <<Script("git", "log", 50), Script("git", "", 90)>> >>}

MCStarts == {[A |-> NoFile, B |-> NoFile, global |-> File(Leaf(1), 3)],
             [A |-> File(Obj("a" :> 1), 1), B |-> File(Nothing, 2), global |-> File(Obj([a |-> 2, b |-> 2]), 3)]}
MCCli == {Leaf(3), Obj([a |-> 3, b |-> 3])}
MCPatches == {[op |-> "add", at |-> "m", value |-> Obj("a" :> 9)], [op |-> "replace", at |-> "a", value |-> Leaf(9)],
              [op |-> "remove", at |-> "b", value |-> Leaf(0)]}
-----------------------------------------------------------------------------
toolsVars == <<system, graphVars, recallVars, source, frontsVars>>

ToolsInit ==
  /\ system \in {"graph", "events", "diff", "recall", "docs", "capture", "lines", "words", "hooks", "layers"}
  /\ GraphInit /\ RecallInit /\ DocInit /\ FrontsInit
  /\ system # "recall" => query = Q(1, 0, 1..5, {}, 2, FALSE, 0, TRUE)
  /\ system # "layers" => current = "A" /\ layer["A"].is = "absent"

ToolsNext ==
  /\ UNCHANGED system
  /\ \/ /\ UNCHANGED <<recallVars, source, frontsVars>>
        /\ \/ system = "graph" /\ ((\E n \in Ids : UpsertNode(n)) \/ \E e \in EdgeMenu : UpsertEdge(e))
           \/ system = "events" /\ ((\E n \in Ids : UpsertNode(n)) \/ \E e \in MCEvents : UpsertEdge(e))
           \/ system = "diff" /\ \E l \in DiffMenu : DiffLine(l)
     \/ system = "recall" /\ RecallNext /\ UNCHANGED <<graphVars, source, frontsVars>>
     \/ system = "docs" /\ DocNext /\ UNCHANGED <<graphVars, recallVars, frontsVars>>
     \/ FrontsNext /\ UNCHANGED <<graphVars, recallVars, source>>

Captures(A) == system = "capture" /\ A /\ UNCHANGED <<system, graphVars, recallVars, source, filterVars, layerVars>>

\* CaptureFairness, for the behaviours that run a command
ToolsSpec ==
  /\ ToolsInit /\ [][ToolsNext]_toolsVars
  /\ WF_toolsVars(Captures(StorePid \/ StartReaders \/ Wait \/ ClearPid \/ JoinStdout \/ JoinStderr
                              \/ TakeState \/ TakeStderr))
  /\ \A s \in Streams : /\ WF_toolsVars(Captures(ReadChunk(s))) /\ WF_toolsVars(Captures(StoreChunk(s)))
                        /\ WF_toolsVars(Captures(ReadEof(s)))

(* Every query of the graph, every recall and every documentation block is  *)
(* what the rows it was computed from say.                                  *)
AnswersExact ==
  /\ system \in {"graph", "events"} => GraphExact
  /\ system = "diff" => DiffExact
  /\ system = "recall" => RecallExact
  /\ system = "docs" => DocContiguous
=============================================================================
