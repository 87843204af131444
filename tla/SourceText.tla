----------------------------- MODULE SourceText -----------------------------
(***************************************************************************)
(* What the indexer takes from a file, and which files it takes.           *)
(*                                                                         *)
(* First part, the syntax: what the parser makes of a file                 *)
(* (hoangsa-memory-parse/src/lib.rs and language.rs) and the edges the     *)
(* indexer makes of it (hoangsa-memory-retrieve/src/indexer.rs).           *)
(* A syntax tree is the sequence of its nodes in the order of the text,    *)
(* each with its depth and, depending on its kind k:                       *)
(*   definition  name (or param), parents, decos                           *)
(*   call        path, sep, args; a macro has a path only                  *)
(*   declaration name, value or props: a string or an object constant      *)
(*   type        name, isName: it is the name of the node around it        *)
(*   import      tree                                                      *)
(* An import is a record by its language:                                  *)
(*   rust     [path, is, as, items]: a name, self, glob, group or crate    *)
(*   python   [from, names], a name being [path, as]; from = <<>>: import  *)
(*   script   [default, space, names, module]       (JavaScript, TypeScript) *)
(*   go       [specs], a spec being [path, as]                             *)
(* The parser hands the text of an import, here a sequence of tokens, to a *)
(* scanner for its language, which cuts it at keywords, braces and commas  *)
(* and answers with pairs <<local name, path>>; a path is a sequence of    *)
(* names.                                                                  *)
(* An argument is [is, v]: a string, an identifier, a path, or what is not *)
(* looked at.  A fully qualified name is a sequence of names.              *)
(*                                                                         *)
(* Second part, the text (walk.rs, parse_text_file of lib.rs, pdg.rs):     *)
(*   - which files the two walks emit, under the ignore files and the      *)
(*     configuration's patterns;                                           *)
(*   - the chunks of a text file no grammar claims.  A line is its width   *)
(*     in units of the byte cap, 0 when it is blank;                       *)
(*   - the statements of a function and what flows between them.  A        *)
(*     statement is [form, line, name, reads, inner, late]: it writes or    *)
(*     calls name, its text mentions the names it reads, late the ones     *)
(*     past what is kept of it, and a block holds the statements inner,    *)
(*     which are not looked at on their own.                               *)
(***************************************************************************)
EXTENDS Integers, FiniteSets, SequencesExt

CONSTANTS
  ImportMenu,    \* imports a file may hold: [lang, tree]
  SourceNodes,   \* by language, the nodes a file may hold, without depth
  CrateName,     \* of Cargo.toml
  FileAt,        \* the file's components below it, the last one its stem
  MaxNodes,      \* bound: nodes of a file
  EntryMenu,      \* files a walk may meet: [path, kind, hidden, ignored, known, size, nul]
  PatternMenu,    \* lines of the ignore list: [form, neg, at]
  MaxFileSize,    \* max_file_size
  WidthMenu,      \* widths of a text file's lines
  ChunkLines,     \* MAX_LINES_PER_CHUNK
  ChunkBytes,     \* MAX_BYTES_PER_CHUNK
  StatementMenu,  \* statements of a function, without lines
  Callees,        \* names of functions the file resolves
  Within,         \* <<a, b>>: the name a occurs in the name b
  MaxTextLines, MaxPatterns, MaxStatements   \* bounds

VARIABLES
  import,        \* one of the imports, for the scanners alone
  lang,          \* of the file
  nodes,         \* its tree
  found,          \* a file below the root
  patterns,       \* the configuration's ignore list
  textLines,      \* a text file
  statements      \* a function's, in the order of the text

textVars == <<found, patterns, textLines, statements>>
walkVars == <<lang, nodes>>

ImportInit == import \in ImportMenu
-----------------------------------------------------------------------------
(* How a source writes an import.                                          *)
Sep(ss, s) == FoldLeft(LAMBDA t, e : IF t = <<>> THEN e ELSE t \o <<s>> \o e, <<>>, ss)
Dotted(path, s) == Sep([i \in DOMAIN path |-> <<path[i]>>], s)
Named(tokens, as) == IF as = "" THEN tokens ELSE tokens \o <<"as", as>>
NamedAll(specs, s) == Sep([i \in DOMAIN specs |-> Named(Dotted(specs[i].path, s), specs[i].as)], ",")

RECURSIVE WriteUse(_)
WriteUse(t) ==
  LET head == IF t.path = <<>> THEN <<>> ELSE Dotted(t.path, "::") \o <<"::">>
  IN  CASE t.is = "name" -> Named(Dotted(t.path, "::"), t.as)
        [] t.is = "self" -> Named(<<"self">>, t.as)
        [] t.is = "glob" -> head \o <<"*">>
        [] t.is = "group" -> head \o <<"{">> \o Sep([i \in DOMAIN t.items |-> WriteUse(t.items[i])], ",") \o <<"}">>
WriteScript(t) ==
  LET parts == SelectSeq(<<IF t.default = "" THEN <<>> ELSE <<t.default>>,
                           IF t.space = "" THEN <<>> ELSE <<"*", "as", t.space>>,
                           IF t.names = <<>> THEN <<>> ELSE <<"{">> \o NamedAll(t.names, ".") \o <<"}">> >>,
                         LAMBDA p : p # <<>>)
  IN  <<"import">> \o (IF parts = <<>> THEN <<>> ELSE Sep(parts, ",") \o <<"from">>) \o <<t.module>>
Write(tongue, t) ==
  CASE tongue = "rust" -> (IF t.is = "crate" THEN <<"extern", "crate">> \o Named(t.path, t.as) ELSE <<"use">> \o WriteUse(t)) \o <<";">>
    [] tongue = "python" -> IF t.from = <<>> THEN <<"import">> \o NamedAll(t.names, ".")
                          ELSE <<"from">> \o Dotted(t.from, ".") \o <<"import", "(">> \o NamedAll(t.names, ".") \o <<")">>
    [] tongue = "script" -> WriteScript(t)
    [] tongue = "go" -> <<"import", "(">>
                      \o FlattenSeq([i \in DOMAIN t.specs |->
                           (IF t.specs[i].as = "" THEN <<>> ELSE <<t.specs[i].as>>)
                           \o <<"\"">> \o Dotted(t.specs[i].path, "/") \o <<"\"", "\n">>])
                      \o <<")">>
-----------------------------------------------------------------------------
Upto(ts, n) == SubSeq(ts, 1, n)
From(ts, n) == SubSeq(ts, n, Len(ts))
Without(ts, s) == SelectSeq(ts, LAMBDA x : x \notin s)
At(ts, x) == SelectInSeq(ts, LAMBDA y : y = x)
LastAt(ts, x) == SelectLastInSeq(ts, LAMBDA y : y = x)

\* split: at every such token; split_top_level: but for those in brackets
Split(ts, sep, opens, closes) ==
  LET Put(s, x) ==
        IF x = sep /\ s.depth = 0 THEN [s EXCEPT !.out = Append(@, s.piece), !.piece = <<>>]
        ELSE [s EXCEPT !.piece = Append(@, x),
                       !.depth = IF x \in opens THEN @ + 1 ELSE IF x \in closes /\ @ > 0 THEN @ - 1 ELSE @]
      end == FoldLeft(Put, [out |-> <<>>, piece |-> <<>>, depth |-> 0], ts)
  IN  Append(end.out, end.piece)
SplitTopLevel(ts, sep) == Split(ts, sep, {"{", "[", "(", "<"}, {"}", "]", ")", ">"})
SplitAt(ts, sep) == Split(ts, sep, {}, {})

\* split_as; a name without `as` is known by its last part, or its first
SplitAs(ts, part) ==
  LET i == At(ts, "as")
  IN  IF i > 0 THEN [path |-> Upto(ts, i - 1), as |-> ts[i + 1]] ELSE [path |-> ts, as |-> IF part = "first" THEN ts[1] ELSE Last(ts)]
AllPairs(pieces, Pairs(_)) ==
  FlattenSeq([i \in DOMAIN pieces |-> IF pieces[i] = <<>> THEN <<>> ELSE Pairs(pieces[i])])

RECURSIVE EmitRustUseTree(_, _)
EmitRustUseTree(prefix, ts) ==
  LET brace == At(ts, "{")
      spec == SplitAs(Without(ts, {"::"}), "last")
      full == prefix \o spec.path
  IN  IF ts = <<>> \/ ts = <<"*">> THEN <<>>
      ELSE IF brace = 1
        THEN AllPairs(SplitTopLevel(SubSeq(ts, 2, Len(ts) - 1), ","), LAMBDA p : EmitRustUseTree(prefix, p))
      ELSE IF brace > 1 THEN EmitRustUseTree(prefix \o Without(Upto(ts, brace - 1), {"::"}), From(ts, brace))
      ELSE IF spec.path = <<"self">>
        THEN IF prefix = <<>> THEN <<>>
             ELSE << <<IF At(ts, "as") > 0 THEN spec.as ELSE Last(prefix), prefix>> >>
      ELSE IF Last(spec.path) = "*" THEN <<>>
      ELSE << <<spec.as, full>> >>
RustAliases(ts) ==
  IF ts[1] = "extern" THEN LET s == SplitAs(Without(From(ts, 3), {";"}), "last") IN << <<s.as, s.path>> >>
  ELSE EmitRustUseTree(<<>>, Without(From(ts, 2), {";"}))

PythonAliases(ts) ==
  IF ts[1] = "from"
  THEN LET module == Without(SubSeq(ts, 2, At(ts, "import") - 1), {"."})
           names == Without(From(ts, At(ts, "import") + 1), {"(", ")"})
       IN  AllPairs(SplitAt(names, ","), LAMBDA p :
             IF p = <<"*">> THEN <<>>
             ELSE LET s == SplitAs(p, "last") IN << <<s.as, module \o s.path>> >>)
  ELSE AllPairs(SplitAt(From(ts, 2), ","), LAMBDA p :
         LET s == SplitAs(Without(p, {"."}), "first") IN << <<s.as, s.path>> >>)

TsJsAliases(ts) ==
  LET from == LastAt(ts, "from")
      module == Last(ts)
      Spec(p) == LET s == SplitAs(p, "last") IN << <<s.as, <<module>> \o s.path>> >>
      Part(p) == IF Upto(p, 1) = <<"*">> THEN << <<p[3], <<module>> >> >>
                 ELSE IF p[1] = "{" THEN AllPairs(SplitAt(SubSeq(p, 2, Len(p) - 1), ","), Spec)
                 ELSE << <<p[1], <<module, "default">> >> >>
  IN  IF from = 0 THEN <<>> ELSE AllPairs(SplitTopLevel(SubSeq(ts, 2, from - 1), ","), Part)

GoAliases(ts) ==
  AllPairs(SplitAt(Without(From(ts, 2), {"(", ")"}), "\n"), LAMBDA l :
    LET end == LastAt(l, "\"") start == At(l, "\"")
        path == Without(SubSeq(l, start + 1, end - 1), {"/"})
        as == IF start > 1 THEN l[1] ELSE Last(path)
    IN  IF as \in {"_", "."} THEN <<>> ELSE << <<as, path>> >>)

ExtractImportAliases(tongue, ts) ==
  CASE tongue = "rust" -> RustAliases(ts)
    [] tongue = "python" -> PythonAliases(ts)
    [] tongue = "script" -> TsJsAliases(ts)
    [] tongue = "go" -> GoAliases(ts)
-----------------------------------------------------------------------------
(* What an import means.                                                   *)
Own(as, name) == IF as = "" THEN name ELSE as
RECURSIVE UseBinds(_, _)
UseBinds(prefix, t) ==
  CASE t.is \in {"name", "crate"} -> {<<Own(t.as, Last(t.path)), prefix \o t.path>>}
    [] t.is = "self" -> IF prefix = <<>> THEN {} ELSE {<<Own(t.as, Last(prefix)), prefix>>}
    [] t.is = "glob" -> {}
    [] t.is = "group" -> UNION {UseBinds(prefix \o t.path, t.items[i]) : i \in DOMAIN t.items}
Binds(tongue, t) ==
  CASE tongue = "rust" -> UseBinds(<<>>, t)
    [] tongue = "python" -> {<<Own(n.as, IF t.from = <<>> THEN n.path[1] ELSE Last(n.path)), t.from \o n.path>> :
                             n \in {x \in ToSet(t.names) : x.path # <<"*">>}}
    [] tongue = "script" -> (IF t.default = "" THEN {} ELSE {<<t.default, <<t.module, "default">> >>})
                          \cup (IF t.space = "" THEN {} ELSE {<<t.space, <<t.module>> >>})
                          \cup {<<Own(n.as, Last(n.path)), <<t.module>> \o n.path>> : n \in ToSet(t.names)}
    [] tongue = "go" -> {<<Own(s.as, Last(s.path)), s.path>> : s \in {x \in ToSet(t.specs) : x.as \notin {"_", "."}}}

(* The scan of an import's text finds the names it binds, each with its     *)
(* path, and no others, whatever is nested, renamed or left out.            *)
AliasesExact ==
  ToSet(ExtractImportAliases(import.lang, Write(import.lang, import.tree))) = Binds(import.lang, import.tree)
-----------------------------------------------------------------------------
(* The walk over a tree.                                                   *)

(* symbol_kind_for *)
SymbolKinds ==
  [rust   |-> [function_item |-> "Function", impl_item |-> "Type", struct_item |-> "Type", trait_item |-> "Trait",
               mod_item |-> "Module", const_item |-> "Binding"],
   python |-> [function_definition |-> "Function", class_definition |-> "Type"],
   javascript |-> [function_declaration |-> "Function", method_definition |-> "Function",
                   arrow_function |-> "Function", class_declaration |-> "Type"],
   typescript |-> [function_declaration |-> "Function", method_definition |-> "Function",
                   class_declaration |-> "Type", interface_declaration |-> "Trait"],
   go     |-> [function_declaration |-> "Function", method_declaration |-> "Function", type_declaration |-> "Type"]]
Defines(n) == n.k \in DOMAIN SymbolKinds[lang]
KindOf(n) == SymbolKinds[lang][n.k]
IsImport(n) == n.k \in {"use_declaration", "import_statement", "import_declaration"}
IsCall(n) == n.k \in {"call_expression", "call", "macro_invocation"}
Scanner == IF lang \in {"javascript", "typescript"} THEN "script" ELSE lang

\* an arrow function has no name, but may have an identifier for parameter
ExtractName(n) == IF n.name # "" THEN n.name ELSE IF n.param # "" THEN n.param ELSE "<anon>"

(* crate_qualified_module_path *)
Module ==
  LET below == IF FileAt[1] = "src" THEN Tail(FileAt) ELSE FileAt
  IN  <<CrateName>> \o (IF Last(below) \in {"lib", "mod"} THEN Front(below) ELSE below)
-----------------------------------------------------------------------------
(* strip_generics cuts at the first bracket: <>, an argument of a type.     *)
TailReceiverAndName(path) ==
  LET cut == At(path, "<>")
      plain == IF cut = 0 THEN path ELSE Upto(path, cut - 1)
  IN  From(plain, IF Len(plain) > 1 THEN Len(plain) - 1 ELSE 1)
ExtractCallee(n) == IF n.k = "macro_invocation" THEN <<Last(n.path)>> ELSE TailReceiverAndName(n.path)

(* event_role_for, decorator_event_role: of their lists, a verb for each    *)
EventRoleFor(m) == IF m = "emit" THEN {"Emit"} ELSE IF m = "on" THEN {"Subscribe"} ELSE {}
DecoratorEventRole(d) == IF d \in {"on", "OnEvent"} THEN {"Subscribe"} ELSE {}

(* extract_topic_and_handler: [literal, expr, handler], or none.            *)
NoTopic == <<>>
TopicAndHandler(args) ==
  LET at == SelectSeq(args, LAMBDA a : a.is # "keyword")
      handler == IF Len(at) > 1 /\ at[2].is = "ident" THEN at[2].v ELSE <<>>
  IN  IF at = <<>> THEN {}
      ELSE CASE at[1].is = "string" -> {[topic |-> at[1].v, expr |-> <<>>, handler |-> handler]}
             [] at[1].is \in {"ident", "path"} -> {[topic |-> NoTopic, expr |-> at[1].v, handler |-> handler]}
             [] OTHER -> {}

(* extract_call_event: the receiver is a bus when it is a bare name         *)
ExtractEvents(n) ==
  IF n.k = "macro_invocation" \/ (Len(n.path) > 1 /\ n.sep = "::") \/ lang = "go" THEN {}
  ELSE {t @@ [role |-> r, bus |-> IF Len(n.path) = 2 THEN n.path[1] ELSE "*"] :
          r \in EventRoleFor(Last(n.path)), t \in TopicAndHandler(n.args)}
CollectEventDecorators(n) ==
  IF lang \in {"rust", "go"} THEN {}
  ELSE UNION {{[t EXCEPT !.handler = <<>>] @@ [role |-> r, bus |-> "*"] :
                 r \in DecoratorEventRole(Last(d.path)), t \in TopicAndHandler(d.args)} : d \in ToSet(n.decos)}

(* extract_string_consts: <<path, value>>                                   *)
ExtractStringConsts(n) ==
  IF n.k \notin {"const_item", "expression_statement", "lexical_declaration"} THEN <<>>
  ELSE IF n.value # <<>> THEN << << <<n.name>>, n.value>> >>
  ELSE IF lang \in {"javascript", "typescript"}
       THEN [i \in DOMAIN n.props |-> << <<n.name, n.props[i][1]>>, n.props[i][2]>>]
  ELSE <<>>

\* extract_type_ref, but for the name of a definition
TypeRef(n) ==
  IF lang \in {"rust", "typescript"} /\ n.k = "type_identifier" /\ ~ n.isName THEN {n.name} ELSE {}
-----------------------------------------------------------------------------
(* walk_ast.  The stack holds the definitions around a node.                *)
NoTable == [symbols |-> <<>>, chunks |-> <<>>, calls |-> <<>>, events |-> {}, consts |-> <<>>, references |-> {},
            extends |-> {}, imports |-> <<>>, aliases |-> <<>>, stack |-> <<>>]

SpanEnd(i) ==   \* the last line of the node on line i
  LET out == {j \in DOMAIN nodes : j > i /\ nodes[j].depth <= nodes[i].depth}
  IN  IF out = {} THEN Len(nodes) ELSE (CHOOSE j \in out : \A k \in out : j <= k) - 1

(* Variant: a definition is named under whatever it stands in. *)
FqnInside(stack, n) == (IF stack = <<>> THEN Module ELSE Last(stack).fqn) \o <<ExtractName(n)>>

FqnIn(stack, n) ==
  LET i == SelectLastInSeq(stack, LAMBDA s : s.kind = "Type")
  IN  (IF i = 0 THEN Module ELSE stack[i].fqn) \o <<ExtractName(n)>>

WalkDefinition(t, stack, n, i) ==
  LET fqn == FqnIn(stack, n)
      insideFn == \E j \in DOMAIN stack : stack[j].kind = "Function"
      symbol == [fqn |-> fqn, kind |-> KindOf(n), span |-> <<i, SpanEnd(i)>>]
      own == IF insideFn THEN <<>> ELSE <<symbol>>
  IN  [t EXCEPT !.symbols = @ \o own, !.chunks = @ \o own,
                !.extends = @ \cup {<<fqn, p>> : p \in ToSet(n.parents)},
                !.events = @ \cup {e @@ [owner |-> fqn] : e \in CollectEventDecorators(n)},
                !.stack = Append(stack, [fqn |-> fqn, kind |-> KindOf(n), depth |-> n.depth])]

WalkImport(t, n) ==
  LET text == Write(Scanner, n.tree)
  IN  [t EXCEPT !.imports = Append(@, text), !.aliases = @ \o ExtractImportAliases(Scanner, text)]

WalkUse(t, stack, n) ==
  LET owner == IF stack = <<>> THEN {} ELSE {Last(stack).fqn}
      callee == IF IsCall(n) THEN ExtractCallee(n) ELSE <<>>
  IN  [t EXCEPT
        !.calls = IF callee = <<>> \/ owner = {} THEN @ ELSE Append(@, <<Last(stack).fqn, callee>>),
        !.events = IF IsCall(n) THEN @ \cup {e @@ [owner |-> o] : o \in owner, e \in ExtractEvents(n)} ELSE @,
        !.consts = IF stack = <<>> \/ Last(stack).kind = "Type" THEN @ \o ExtractStringConsts(n) ELSE @,
        !.references = @ \cup (owner \X TypeRef(n))]

WalkNode(t, i) ==
  LET n == nodes[i]
      stack == SelectSeq(t.stack, LAMBDA s : s.depth < n.depth)
      u == WalkUse([t EXCEPT !.stack = stack], stack, n)
  IN  IF Defines(n) THEN WalkDefinition(u, stack, n, i) ELSE IF IsImport(n) THEN WalkImport(u, n) ELSE u

(* parse_bytes: a file without definitions is one chunk                     *)
WholeFile == <<1, IF nodes = <<>> THEN 1 ELSE Len(nodes)>>
ParseFile ==
  LET t == FoldLeft(WalkNode, NoTable, [i \in DOMAIN nodes |-> i])
  IN  IF t.chunks = <<>> THEN [t EXCEPT !.chunks = <<[fqn |-> <<>>, kind |-> "none", span |-> WholeFile]>>] ELSE t
-----------------------------------------------------------------------------
(* index_file: what a name stands for in the file, and the edges            *)
Leaf(fqn) == Last(fqn)
FirstSymbol(t, name, kinds) == SelectInSeq(t.symbols, LAMBDA s : Leaf(s.fqn) = name /\ s.kind \in kinds)
AllKinds == {"Function", "Type", "Trait", "Module", "Binding"}
Resolution(t, name) ==
  LET a == SelectLastInSeq(t.aliases, LAMBDA p : p[1] = name)
      s == FirstSymbol(t, name, AllKinds)
  IN  IF a # 0 THEN {t.aliases[a][2]} ELSE IF s # 0 THEN {t.symbols[s].fqn} ELSE {}
Resolved(t, name) == IF Resolution(t, name) = {} THEN <<name>> ELSE CHOOSE r \in Resolution(t, name) : TRUE

CallTarget(t, callee) ==
  LET head == FirstSymbol(t, callee[1], {"Type"})
  IN  IF Len(callee) = 1 THEN Resolved(t, callee[1])
      ELSE IF head # 0 THEN Append(t.symbols[head].fqn, callee[2]) ELSE callee

(* a topic that is not a literal is looked up, the last constant of a name  *)
TopicsOf(t, e) ==
  IF e.topic # NoTopic THEN {e.topic}
  ELSE LET c == SelectLastInSeq(t.consts, LAMBDA p : p[1] = e.expr) IN IF c = 0 THEN {} ELSE {t.consts[c][2]}
EventEdges(t) ==
  UNION {{LET at == <<"event", e.bus>> \o topic
              to == IF e.handler = <<>> THEN e.owner ELSE Resolved(t, e.handler[1])
          IN  IF e.role = "Emit" THEN <<e.owner, "emits", at>> ELSE <<at, "subscribes", to>> :
            topic \in TopicsOf(t, e)} : e \in t.events}
ImportEdges(t) ==
  LET Target(name) == t.aliases[SelectLastInSeq(t.aliases, LAMBDA p : p[1] = name)][2]
  IN  IF t.aliases # <<>> THEN {<<Module, "imports", Target(p[1])>> : p \in ToSet(t.aliases)}
      ELSE {<<Module, "imports", text>> : text \in ToSet(t.imports)}
Edges(t) ==
  {<<c[1], "calls", CallTarget(t, c[2])>> : c \in ToSet(t.calls)}
  \cup ImportEdges(t)
  \cup {<<x[1], "extends", Resolved(t, x[2])>> : x \in t.extends}
  \cup {e \in {<<r[1], "references", Resolved(t, r[2])>> : r \in t.references} : e[1] # e[3]}
  \cup EventEdges(t)
-----------------------------------------------------------------------------
WalkInit == lang \in DOMAIN SourceNodes /\ nodes = <<>>

(* The file gets one more node, inside a definition it follows or after it. *)
AddNode ==
  /\ Len(nodes) < MaxNodes
  /\ \E n \in SourceNodes[lang] :
       \E d \in {0} \cup {nodes[i].depth + 1 : i \in {j \in DOMAIN nodes : Defines(nodes[j]) /\ SpanEnd(j) = Len(nodes)}} :
         nodes' = Append(nodes, n @@ [depth |-> d])
  /\ UNCHANGED lang
-----------------------------------------------------------------------------
(* The definitions around a node, without a stack.                          *)
Around(i) == {j \in 1..(i - 1) : Defines(nodes[j]) /\ SpanEnd(j) >= i}
Innermost(S) == CHOOSE j \in S : \A k \in S : k <= j
RECURSIVE FqnOf(_)
FqnOf(i) ==
  LET types == {j \in Around(i) : KindOf(nodes[j]) = "Type"}
  IN  (IF types = {} THEN Module ELSE FqnOf(Innermost(types))) \o <<ExtractName(nodes[i])>>
Local(i) == \E j \in Around(i) : KindOf(nodes[j]) = "Function"   \* defined inside a function
Definitions == {i \in DOMAIN nodes : Defines(nodes[i])}
OwnerAt(i) == IF Around(i) = {} THEN {} ELSE {FqnOf(Innermost(Around(i)))}

(* What a node calls, refers to or publishes belongs to the definition      *)
(* nearest around it, and that is a symbol unless it is inside a function.  *)
OwnersExact(t, edges) ==
  /\ ToSet(t.calls) = UNION {{<<o, ExtractCallee(nodes[i])>> : o \in OwnerAt(i)} :
                               i \in {j \in DOMAIN nodes : IsCall(nodes[j]) /\ ExtractCallee(nodes[j]) # <<>>}}
  /\ \A e \in edges : e[2] \in {"calls", "extends", "references", "emits"} =>
       \E i \in Definitions : e[1] = FqnOf(i) /\ (Local(i) \/ \E s \in ToSet(t.symbols) : s.fqn = e[1])

(* The chunks of a file are its definitions outside of functions, one       *)
(* inside another or apart, or the whole of a file without any, and their   *)
(* names lead to where they stand.                                          *)
ChunksExact(t) ==
  /\ {s.span : s \in ToSet(t.symbols)} = {<<i, SpanEnd(i)>> : i \in {j \in Definitions : ~ Local(j)}}
  /\ \A s \in ToSet(t.symbols) : FqnOf(s.span[1]) = s.fqn
  /\ IF t.symbols = <<>> THEN {c.span : c \in ToSet(t.chunks)} = {WholeFile} ELSE ToSet(t.chunks) = ToSet(t.symbols)
  /\ \A a, b \in ToSet(t.chunks) : \/ a.span[2] < b.span[1] \/ b.span[2] < a.span[1]
                                   \/ a.span[1] <= b.span[1] /\ b.span[2] <= a.span[2]
                                   \/ b.span[1] <= a.span[1] /\ a.span[2] <= b.span[2]

(* A call of a method by its type's name, and of a function by its own,     *)
(* leads to the symbol when the file defines only one of that name and      *)
(* imports none.                                                            *)
CallNodes == {i \in DOMAIN nodes : IsCall(nodes[i]) /\ Around(i) # {}}
Imported(t) == {p[1] : p \in ToSet(t.aliases)}
SymbolsNamed(t, name) == {s \in ToSet(t.symbols) : Leaf(s.fqn) = name}
CallsLand(t, edges) ==
  \A i \in CallNodes : \A o \in OwnerAt(i) :
    LET path == nodes[i].path
        name == Last(path)
        called == SymbolsNamed(t, name)
        heads == IF Len(path) > 1 THEN SymbolsNamed(t, path[Len(path) - 1]) ELSE {}
    IN  /\ (Len(path) = 1 /\ Cardinality(called) = 1 /\ name \notin Imported(t)) =>
             \A s \in called : <<o, "calls", s.fqn>> \in edges
        /\ (nodes[i].k # "macro_invocation" /\ At(path, "<>") = 0 /\ Cardinality(heads) = 1) =>
             \A h \in heads : \A s \in called : (h.kind = "Type" /\ s.fqn = Append(h.fqn, name)) => <<o, "calls", s.fqn>> \in edges

(* Who publishes a topic and who waits for it on the same bus meet at one   *)
(* event, whether they spell the topic out or name a constant of the file   *)
(* that has one value; a handler is found by its name.                      *)
Spelled(a) ==
  LET outside == {j \in DOMAIN nodes : Around(j) = {} \/ KindOf(nodes[Innermost(Around(j))]) = "Type"}
      consts == UNION {ToSet(ExtractStringConsts(nodes[i])) : i \in outside}
  IN  IF a.is = "string" THEN {a.v} ELSE {c[2] : c \in {x \in consts : x[1] = a.v}}
EventCalls(verb) ==
  {i \in CallNodes : Last(nodes[i].path) = verb /\ nodes[i].sep = "." /\ nodes[i].args # <<>>}
Uses(verb, Who(_)) ==
  {[bus |-> IF Len(nodes[i].path) = 2 THEN nodes[i].path[1] ELSE "*", topics |-> Spelled(nodes[i].args[1]), who |-> Who(i)] :
     i \in EventCalls(verb)}
Publications == Uses("emit", OwnerAt)
Subscriptions(t) ==
  LET Handler(i) == IF Len(nodes[i].args) = 1 THEN OwnerAt(i)
                    ELSE {s.fqn : s \in {x \in SymbolsNamed(t, nodes[i].args[2].v[1]) : Leaf(x.fqn) \notin Imported(t)}}
  IN  Uses("on", Handler)
      \cup {[bus |-> "*", topics |-> Spelled(nodes[i].decos[1].args[1]), who |-> {FqnOf(i)}] :
              i \in {j \in Definitions : nodes[j].decos # <<>>}}
EventsMeet(t, edges) ==
  \A p \in Publications, s \in Subscriptions(t) :
    (p.bus = s.bus /\ p.topics = s.topics /\ Cardinality(p.topics) = 1) =>
      \A topic \in p.topics :
        LET at == <<"event", p.bus>> \o topic
        IN  /\ \A o \in p.who : <<o, "emits", at>> \in edges
            /\ Cardinality(s.who) = 1 => \A o \in s.who : <<at, "subscribes", o>> \in edges

(* The symbols, chunks and edges of a file are what its text says.          *)
SyntaxExact ==
  LET t == ParseFile
      edges == Edges(t)
  IN  OwnersExact(t, edges) /\ ChunksExact(t) /\ CallsLand(t, edges) /\ EventsMeet(t, edges)
-----------------------------------------------------------------------------
(* build_extra_ignore: blank lines, comments and malformed patterns are     *)
(* skipped.  A pattern decides on its path; the last one that matches it    *)
(* does, then those of the directory above.                                 *)
Rules == SelectSeq(patterns, LAMBDA p : p.form = "pattern")
RuleFor(path) == SelectLastInSeq(Rules, LAMBDA p : p.at = path)
MatchedPathOrAnyParents ==
  LET decided == {n \in DOMAIN found.path : RuleFor(SubSeq(found.path, 1, n)) > 0}
      nearest == CHOOSE n \in decided : \A k \in decided : k <= n
  IN  decided # {} /\ ~ Rules[RuleFor(SubSeq(found.path, 1, nearest))].neg

(* Hidden entries, links and what an ignore file names are not descended.   *)
Walked == ~ found.hidden /\ ~ found.ignored /\ ~ MatchedPathOrAnyParents /\ found.kind = "file"
WalkSources == Walked /\ found.known /\ found.size <= MaxFileSize
LooksLikeText == ~ found.nul
WalkTextSources == Walked /\ ~ found.known /\ found.size <= MaxFileSize /\ found.size # 0 /\ LooksLikeText
-----------------------------------------------------------------------------
(* parse_text_file                                                          *)
NoTextChunks == [out |-> <<>>, current |-> <<>>, bytes |-> 0, start |-> 1, line |-> 0]

FlushText(t, line) ==
  IF t.current = <<>> THEN t
  ELSE [t EXCEPT !.out = Append(@, [first |-> t.start, last |-> line, body |-> t.current]), !.current = <<>>, !.bytes = 0]

PushLine(t, width) ==
  LET no == t.line + 1
      full == Len(t.current) >= ChunkLines \/ (t.bytes + width > ChunkBytes /\ t.current # <<>>)
      room == IF full THEN [FlushText(t, no - 1) EXCEPT !.start = no] ELSE t
  IN  IF width = 0 THEN [FlushText(t, no - 1) EXCEPT !.start = no + 1, !.line = no]
      ELSE [room EXCEPT !.current = Append(@, no), !.bytes = @ + width, !.line = no]

ParseTextFile ==
  LET t == FoldLeft(PushLine, NoTextChunks, textLines) IN FlushText(t, IF t.line = 0 THEN 1 ELSE t.line).out
-----------------------------------------------------------------------------
(* collect_stmts keeps the first statement of a line.                       *)
CollectStmts ==
  FoldLeft(LAMBDA out, s : IF out # <<>> /\ Last(out).line = s.line THEN out ELSE Append(out, s), <<>>, statements)

(* extract_defs looks at the text up to its first `=`, so that a call with  *)
(* a keyword argument defines the function it calls, and a block whose      *)
(* text has one defines the keyword it begins with.  extract_uses takes     *)
(* every word of the text, the name it writes among them.                   *)
ExtractDefs(s) == IF s.form \in {"let", "assign", "augment", "keyword call", "comparison"} THEN {s.name} ELSE {}
Words(s) == {s.name} \cup s.reads \cup UNION {{t.name} \cup t.reads : t \in ToSet(s.inner)}
ExtractUses(s) == Words(s) \ {""}

(* def_use_edges: from the line that last defined a name.                   *)
DefUseEdges ==
  LET Visit(d, s) ==
        [last |-> [x \in DOMAIN d.last \cup ExtractDefs(s) |-> IF x \in ExtractDefs(s) THEN s.line ELSE d.last[x]],
         edges |-> d.edges \cup {<<d.last[x], s.line>> : x \in ExtractUses(s) \cap DOMAIN d.last}]
  IN  FoldLeft(Visit, [last |-> [x \in {} |-> 0], edges |-> {}], CollectStmts).edges

CfgEdges == LET s == CollectStmts IN {<<s[i].line, s[i + 1].line>> : i \in 1..(Len(s) - 1)}

(* index_file: from a statement to the functions called here that the text  *)
(* kept of it, its first 120 bytes, names or seems to name                  *)
Kept(s) == Words(s) \ s.late
FnCallees == Callees \cap UNION {Words(s) : s \in ToSet(statements)}
BridgeEdges ==
  UNION {{<<s.line, f>> : f \in {g \in FnCallees : \E w \in Kept(s) : g = w \/ <<g, w>> \in Within}} : s \in ToSet(CollectStmts)}
-----------------------------------------------------------------------------
TextInit == found \in EntryMenu /\ patterns = <<>> /\ textLines = <<>> /\ statements = <<>>

AddPattern ==
  /\ Len(patterns) < MaxPatterns /\ \E p \in PatternMenu : patterns' = Append(patterns, p)
  /\ UNCHANGED <<found, textLines, statements>>
AddTextLine ==
  /\ Len(textLines) < MaxTextLines /\ \E w \in WidthMenu : textLines' = Append(textLines, w)
  /\ UNCHANGED <<found, patterns, statements>>
\* on a line of its own or on that of the statement before it
AddStatement ==
  /\ Len(statements) < MaxStatements
  /\ \E s \in StatementMenu :
       \E line \in IF statements = <<>> THEN {1} ELSE {Last(statements).line, Last(statements).line + 1} :
         statements' = Append(statements, s @@ [line |-> line])
  /\ UNCHANGED <<found, patterns, textLines>>
-----------------------------------------------------------------------------
(* A file is indexed once, as source or as text, and not when the list ends *)
(* by ignoring it or a directory above it without taking anything back.     *)
WalkedOnce ==
  /\ ~ (WalkSources /\ WalkTextSources)
  /\ (WalkSources \/ WalkTextSources) =>
       /\ found.size <= MaxFileSize /\ ~ found.ignored
       /\ \A i \in DOMAIN patterns :
            (patterns[i].form = "pattern" /\ ~ patterns[i].neg /\ IsPrefix(patterns[i].at, found.path))
              => \E j \in DOMAIN patterns : /\ patterns[j].form = "pattern" /\ patterns[j].neg
                                            /\ IsPrefix(patterns[i].at, patterns[j].at) /\ IsPrefix(patterns[j].at, found.path)

(* Every line with text is in one chunk, the one whose line numbers hold    *)
(* it; a chunk runs to a blank line or to a limit, which only a line longer *)
(* than the limit exceeds.                                                  *)
ChunksCover ==
  LET out == ParseTextFile IN
  /\ \A n \in DOMAIN textLines : Cardinality({i \in DOMAIN out : out[i].first <= n /\ n <= out[i].last}) =
                                   IF textLines[n] = 0 THEN 0 ELSE 1
  /\ \A i \in DOMAIN out :
       LET c == out[i]
           bytes == FoldLeft(LAMBDA sum, n : sum + textLines[n], 0, c.body)
       IN  /\ c.body = [k \in 1..(c.last - c.first + 1) |-> c.first + k - 1]
           /\ Len(c.body) <= ChunkLines /\ (bytes <= ChunkBytes \/ Len(c.body) = 1)
           /\ (c.last < Len(textLines) /\ textLines[c.last + 1] # 0) =>
                Len(c.body) = ChunkLines \/ bytes + textLines[c.last + 1] > ChunkBytes

(* Where every statement has a line, what a statement reads comes from the  *)
(* last statement outside of a block that sets it, or compares it, and a    *)
(* dependency leads only from such a statement, or from a call, to a later  *)
(* mention of it; a function called early in a statement is reached from it. *)
Sets(s) == IF s.form \in {"let", "assign", "augment", "comparison"} THEN {s.name} ELSE {}
FlowsExact ==
  LET apart == \A i, j \in DOMAIN statements : statements[i].line = statements[j].line => i = j
      LastSet(x, j) == {i \in 1..(j - 1) : /\ x \in Sets(statements[i])
                                           /\ \A k \in (i + 1)..(j - 1) : x \notin Sets(statements[k])}
  IN  apart =>
        /\ \A j \in DOMAIN statements : \A x \in statements[j].reads : \A i \in LastSet(x, j) : <<i, j>> \in DefUseEdges
        /\ \A e \in DefUseEdges : /\ e[1] < e[2]
                                  /\ \/ \E x \in Sets(statements[e[1]]) \cap Words(statements[e[2]]) : e[1] \in LastSet(x, e[2])
                                     \/ statements[e[1]].form = "keyword call" /\ statements[e[1]].name \in Words(statements[e[2]])
        /\ \A j \in DOMAIN statements : \A f \in Callees \cap Kept(statements[j]) : <<j, f>> \in BridgeEdges
        /\ CfgEdges = {<<i, i + 1>> : i \in 1..(Len(statements) - 1)}
=============================================================================
