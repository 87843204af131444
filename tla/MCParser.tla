------------------------------ MODULE MCParser ------------------------------
(* The parser on small inputs: the names an import binds, the symbols and   *)
(* edges of a syntax tree, the walk, the chunks of a text file and the flow *)
(* between statements.  They share no state, so a behaviour works on one.   *)
EXTENDS SourceText

(* Imports: paths of one or two names, renamed or not, in groups two deep. *)
UseTree(is, p, as, items) == [is |-> is, path |-> p, as |-> as, items |-> items]
UseLeaves == {UseTree("name", p, as, <<>>) : p \in {<<"a">>, <<"a", "b">>}, as \in {"", "c"}} \cup {UseTree("self", <<>>, as, <<>>) : as \in {"", "c"}}
  \cup {UseTree("glob", p, "", <<>>) : p \in {<<>>, <<"b">>}}
UseGroups(items) == {UseTree("group", p, "", s) : p \in {<<>>, <<"m">>, <<"m", "n">>}, s \in {<<>>} \cup [1..2 -> items] \cup [1..1 -> items]}
UseNested == {UseTree("group", <<"r">>, "", <<x, y>>) : x \in UseLeaves, y \in UseGroups({UseTree("name", <<"a">>, "c", <<>>), UseTree("self", <<>>, "", <<>>)})}
UseTrees == {t \in UseLeaves : t.is # "self" /\ t.path # <<>>} \cup {UseTree("crate", <<"a">>, as, <<>>) : as \in {"", "c"}} \cup UseGroups(UseLeaves) \cup UseNested
Sp(p, as) == [path |-> p, as |-> as]
PyNames == {Sp(<<"x">>, ""), Sp(<<"y">>, "z")}
PyImports == {[from |-> f, names |-> n] : f \in {<<"m">>, <<"m", "n">>}, n \in {<<Sp(<<"*">>, "")>>} \cup [1..2 -> PyNames]}
  \cup {[from |-> <<>>, names |-> n] : n \in [1..2 -> {Sp(<<"p", "q">>, ""), Sp(<<"p", "q">>, "r"), Sp(<<"s">>, "")}]}
ScriptImports == {t \in {[default |-> d, space |-> s, names |-> n, module |-> "lib"] : d \in {"", "d"}, s \in {"", "ns"},
   n \in {<<>>} \cup [1..1 -> PyNames] \cup [1..2 -> PyNames]} : t.space = "" \/ t.names = <<>>}
GoImports == {[specs |-> s] : s \in {<<>>} \cup [1..2 -> {Sp(<<"p", "fmt">>, as) : as \in {"", "f", "_", "."}}]}
MCImports == {[lang |-> "rust", tree |-> t] : t \in UseTrees} \cup {[lang |-> "python", tree |-> t] : t \in PyImports}
  \cup {[lang |-> "script", tree |-> t] : t \in ScriptImports} \cup {[lang |-> "go", tree |-> t] : t \in GoImports}

(* Nodes of a syntax tree: definitions of one name, what calls or imports   *)
(* it, publishers of and listeners to one topic.                            *)
NoNode(k) == [k |-> k, name |-> "", param |-> "", path |-> <<>>, sep |-> ".", args |-> <<>>, parents |-> <<>>, decos |-> <<>>,
         isName |-> FALSE, value |-> <<>>, props |-> <<>>, tree |-> <<>>]
Defn(k, name, parents, decos) == [NoNode(k) EXCEPT !.name = name, !.parents = parents, !.decos = decos]
CallOf(k, path, sep, args) == [NoNode(k) EXCEPT !.path = path, !.sep = sep, !.args = args]
Str(v) == [is |-> "string", v |-> v]
Ident(v) == [is |-> "ident", v |-> <<v>>]
PathArg(v) == [is |-> "path", v |-> v]
TypeName(name, isName) == [NoNode("type_identifier") EXCEPT !.name = name, !.isName = isName]
Use(path, as) == [is |-> "name", path |-> path, as |-> as, items |-> <<>>]
Imp(k, tree) == [NoNode(k) EXCEPT !.tree = tree]
Value(k, name, v) == [NoNode(k) EXCEPT !.name = name, !.value = v]

MCRust ==
  {Defn("function_item", "f", <<>>, <<>>), Defn("impl_item", "T", <<"P">>, <<>>), Defn("mod_item", "m", <<>>, <<>>),
   CallOf("call_expression", <<"f">>, ".", <<>>), CallOf("call_expression", <<"a", "T", "f">>, "::", <<>>),
   CallOf("call_expression", <<"bus", "emit">>, ".", <<Str(<<"e">>)>>), CallOf("macro_invocation", <<"log", "f">>, "::", <<>>),
   CallOf("call_expression", <<"T", "<>", "f">>, "::", <<>>), TypeName("T", FALSE), Imp("use_declaration", Use(<<"x", "f">>, "")),
   CallOf("call_expression", <<"bus", "on">>, ".", <<Str(<<"e">>), Ident("T")>>)}
MCPython ==
  {Defn("function_definition", "f", <<>>, << [path |-> <<"bus", "on">>, args |-> <<Str(<<"e">>)>>] >>),
   Defn("class_definition", "T", <<"P">>, <<>>), CallOf("call", <<"T", "f">>, ".", <<>>),
   CallOf("call", <<"x", "bus", "emit">>, ".", <<Ident("E")>>),
   Value("expression_statement", "E", <<"e">>), Value("expression_statement", "E", <<"d">>), CallOf("call", <<"bus", "emit">>, ".", <<>>), Imp("import_statement", [from |-> <<"m">>, names |-> <<[path |-> <<"x">>, as |-> "f"]>>])}
MCScript ==
  {Defn("function_declaration", "f", <<>>, <<>>), Defn("class_declaration", "T", <<"P">>, <<>>),
   Defn("method_definition", "g", <<>>, << [path |-> <<"OnEvent">>, args |-> <<PathArg(<<"E", "k">>)>>] >>),
   CallOf("call_expression", <<"bus", "emit">>, ".", <<PathArg(<<"E", "k">>)>>),
   CallOf("call_expression", <<"bus", "on">>, ".", <<Str(<<"e">>), Ident("f")>>),
   [NoNode("lexical_declaration") EXCEPT !.name = "E", !.props = << <<"k", <<"e">> >> >>],
   Imp("import_statement", [default |-> "f", space |-> "", names |-> <<>>, module |-> "lib"])}
MCGo ==
  {Defn("function_declaration", "f", <<>>, <<>>), Defn("type_declaration", "", <<>>, <<>>),
   CallOf("call_expression", <<"fmt", "f">>, ".", <<>>),
   Imp("import_declaration", [specs |-> << [path |-> <<"p", "fmt">>, as |-> "f"] >>])}
MCSource == [rust |-> MCRust, python |-> MCPython, typescript |-> MCScript, go |-> MCGo]
MCFileAt == <<"src", "net", "mod">>

(* A file two levels below the root; statements on three variables.         *)
Found(path, kind, hidden, ignored, known, size, nul) ==
  [path |-> path, kind |-> kind, hidden |-> hidden, ignored |-> ignored, known |-> known, size |-> size, nul |-> nul]
MCEntries == {Found(<<"d", "x">>, "file", FALSE, FALSE, TRUE, 1, FALSE), Found(<<"d", "x">>, "file", FALSE, FALSE, FALSE, 1, FALSE),
  Found(<<"d", "x">>, "file", FALSE, FALSE, TRUE, 3, FALSE), Found(<<"d", "x">>, "file", FALSE, FALSE, FALSE, 1, TRUE),
  Found(<<"d", "x">>, "file", FALSE, FALSE, TRUE, 0, FALSE), Found(<<"d", "x">>, "file", FALSE, FALSE, FALSE, 0, FALSE),
  Found(<<"d", "x">>, "file", TRUE, FALSE, TRUE, 1, FALSE), Found(<<"d", "x">>, "file", FALSE, TRUE, TRUE, 1, FALSE),
  Found(<<"d", "x">>, "link", FALSE, FALSE, FALSE, 1, FALSE)}
Pat(form, neg, at) == [form |-> form, neg |-> neg, at |-> at]
MCPatterns == {Pat("pattern", neg, at) : neg \in BOOLEAN, at \in {<<"d">>, <<"d", "x">>, <<"e">>}} \cup {Pat("comment", FALSE, <<"d">>), Pat("malformed", FALSE, <<"d">>)}
Stmt(form, name, reads, inner, late) == [form |-> form, name |-> name, reads |-> reads, inner |-> inner, late |-> late]
MCStatements == {Stmt("let", "x", {}, <<>>, {}), Stmt("assign", "y", {"x", "f"}, <<>>, {"f"}), Stmt("augment", "x", {"y"}, <<>>, {}),
  Stmt("call", "f", {"x"}, <<>>, {}), Stmt("keyword call", "g", {"y"}, <<>>, {}), Stmt("comparison", "x", {"y"}, <<>>, {}),
  Stmt("block", "", {"y"}, <<Stmt("assign", "x", {"fx"}, <<>>, {})>>, {}), Stmt("let", "fx", {"x"}, <<>>, {})}
MCWithin == {<<"f", "fx">>}
-----------------------------------------------------------------------------
VARIABLE reading   \* what this behaviour works on

parserVars == <<reading, import, walkVars, textVars>>
ParserInit ==
  /\ reading \in {"imports", "syntax", "walk", "text", "flow"}
  /\ ImportInit /\ WalkInit /\ TextInit
  /\ reading # "imports" => import = [lang |-> "go", tree |-> [specs |-> << >>]]
  /\ reading # "syntax" => lang = "rust"
  /\ reading # "walk" => found = Found(<<"d", "x">>, "file", FALSE, FALSE, TRUE, 1, FALSE)

ParserNext ==
  /\ UNCHANGED <<reading, import>>
  /\ \/ reading = "syntax" /\ AddNode /\ UNCHANGED textVars
     \/ reading = "walk" /\ AddPattern /\ UNCHANGED walkVars
     \/ reading = "text" /\ AddTextLine /\ UNCHANGED walkVars
     \/ reading = "flow" /\ AddStatement /\ UNCHANGED walkVars

ParserSpec == ParserInit /\ [][ParserNext]_parserVars
-----------------------------------------------------------------------------
(* What the parser takes from a file is what the file's text says.          *)
ParserExact ==
  CASE reading = "imports" -> AliasesExact
    [] reading = "syntax" -> SyntaxExact
    [] reading = "walk" -> WalkedOnce
    [] reading = "text" -> ChunksCover
    [] reading = "flow" -> FlowsExact
=============================================================================
