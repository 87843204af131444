---------------------------- MODULE SurfaceText ----------------------------
(***************************************************************************)
(* The text of a markdown surface (MEMORY.md, USER.md, LESSONS.md): how    *)
(* the store reads and writes its entries (store markdown.rs), how the     *)
(* memory tools append to it under a cap, find, replace and remove an      *)
(* entry (policy cap.rs) and number the entries for the agent              *)
(* (memory_tools.rs).  The user edits the file by hand in between.         *)
(* A line is [k, v]: its kind and, as a sequence, what it says.  Sizes are *)
(* counted in lines.  One caller at a time: what callers do to each other  *)
(* is the matter of LessonFile and DreamPass.                              *)
(***************************************************************************)
EXTENDS Naturals, Sequences, FiniteSets, SequencesExt

CONSTANTS
  Kinds,       \* the surfaces, of {"fact", "preference", "lesson"}
  Entries,     \* what the agent may ask to be remembered
  NewTexts,    \* texts of memory_replace: [title, rest]
  Queries,     \* what an entry is asked for by: sequences of words
  HandLines,   \* lines the user types
  SurfaceCap,  \* cap_memory_bytes, cap_user_bytes, cap_lessons_bytes
  Strict,      \* strict_content_policy
  MaxSurface     \* bound: lines of the file

VARIABLES
  surface,   \* the surface
  lines,  \* its text
  ended   \* does the last line have its newline

surfaceVars == <<surface, lines, ended>>

Line(k, v) == [k |-> k, v |-> v]
Blank == Line("blank", <<>>)
Header == Line("section", <<>>)
Tags(v) == Line("tags", v)
Unreadable == 9   \* an enforcement tier parse_enforcement does not know
Footers == <<"tier", "suggested", "block", "counter">>
NoFooter == [f \in ToSet(Footers) |-> 0]
New(title) == [title |-> title, body |-> <<>>, tags |-> <<>>, scope |-> 0, footer |-> NoFooter]

RECURSIVE TrimEnd(_)
TrimEnd(ls) == IF ls # <<>> /\ Last(ls) = Blank THEN TrimEnd(Front(ls)) ELSE ls
-----------------------------------------------------------------------------
(* parse_facts, parse_preferences, parse_lessons.  An entry ends at the     *)
(* next heading of level one to three; only level three begins another.     *)
TakeFooter(e, l) ==
  IF l.v[1] # Unreadable THEN [e EXCEPT !.footer[l.k] = l.v[1]]
  ELSE IF l.k = "suggested" THEN [e EXCEPT !.footer.suggested = 0] ELSE e

TakeTagged(e, l) ==
  CASE l.k = "tags" -> [e EXCEPT !.tags = l.v]
    [] l = Blank /\ e.body = <<>> -> e
    [] OTHER -> [e EXCEPT !.body = Append(@, l)]
TakeFact(e, l) == IF l.k = "scope" THEN [e EXCEPT !.scope = l.v[1]] ELSE TakeTagged(e, l)
TakeLesson(e, l) == IF l.k \in ToSet(Footers) THEN TakeFooter(e, l) ELSE [e EXCEPT !.body = Append(@, l)]
TakeLine(e, l) ==
  CASE surface = "fact" -> TakeFact(e, l)
    [] surface = "preference" -> TakeTagged(e, l)
    [] surface = "lesson" -> TakeLesson(e, l)

ReadLine(s, l) ==
  CASE l.k = "entry" -> [out |-> Append(s.out, New(l.v)), open |-> TRUE]
    [] l.k = "section" -> [s EXCEPT !.open = FALSE]
    [] OTHER -> IF s.open THEN [s EXCEPT !.out[Len(s.out)] = TakeLine(@, l)] ELSE s

ParseText(ls) ==
  LET out == FoldLeft(ReadLine, [out |-> <<>>, open |-> FALSE], ls).out
  IN  [i \in DOMAIN out |-> [out[i] EXCEPT !.body = TrimEnd(@)]]

(* render_fact, render_preference, render_lesson *)
Heading(e) == <<Line("entry", e.title)>> \o TrimEnd(e.body)
TagsLine(tags) == IF tags = <<>> THEN <<>> ELSE <<Tags(tags)>>
RenderPreference(e) == Heading(e) \o TagsLine(e.tags) \o <<Blank>>
RenderFact(e) ==
  Heading(e) \o TagsLine(e.tags) \o (IF e.scope = 0 THEN <<>> ELSE <<Line("scope", <<e.scope>>)>>) \o <<Blank>>
RenderLesson(e) ==
  Heading(e) \o SelectSeq([i \in DOMAIN Footers |-> Line(Footers[i], <<e.footer[Footers[i]]>>)],
                         LAMBDA l : l.k = "tier" \/ l.v # <<0>>)
             \o <<Blank>>
Render(e) ==
  CASE surface = "fact" -> RenderFact(e)
    [] surface = "preference" -> RenderPreference(e)
    [] surface = "lesson" -> RenderLesson(e)

\* rewrite_facts, rewrite_preferences, rewrite_lessons
RewriteText(entries) == <<Header>> \o FlattenSeq([i \in DOMAIN entries |-> Render(entries[i])])
-----------------------------------------------------------------------------
(* split_entries: the tools see an entry as all the lines up to the next.   *)
Heads(ls) == {i \in DOMAIN ls : ls[i].k = "entry"}
SplitEntries(ls) ==
  LET at == SetToSortSeq(Heads(ls), LAMBDA i, j : i < j)
      To(n) == IF n = Len(at) THEN Len(ls) ELSE at[n + 1] - 1
  IN  [preamble |-> IF at = <<>> THEN ls ELSE SubSeq(ls, 1, at[1] - 1),
       entries |-> [n \in DOMAIN at |-> SubSeq(ls, at[n], To(n))]]

EntryTags(chunk) ==
  LET at == SelectInSeq(chunk, LAMBDA l : l.k = "tags") IN IF at = 0 THEN <<>> ELSE chunk[at].v

\* pick_entry: the one entry whose heading or a tag holds the query, or the
\* one of several with the most similar heading.
Holds(title, q) == \E i \in 1..(Len(title) - Len(q) + 1) : SubSeq(title, i, i + Len(q) - 1) = q
Common(a, b) == Cardinality(ToSet(a) \cap ToSet(b))
Either(a, b) == Cardinality(ToSet(a) \cup ToSet(b))
Better(a, b, q) == Common(a, q) * Either(b, q) > Common(b, q) * Either(a, q)
PickEntry(chunks, q) ==
  LET Title(i) == chunks[i][1].v
      hits == {i \in DOMAIN chunks : Holds(Title(i), q) \/ \E t \in ToSet(EntryTags(chunks[i])) : q = <<t>>}
  IN  IF Cardinality(hits) = 1 THEN hits
      ELSE {i \in hits : /\ 10 * Common(Title(i), q) >= 6 * Either(Title(i), q)
                         /\ \A j \in hits \ {i} : Better(Title(i), Title(j), q)}

\* cap.rs render_preference, which replace uses for every surface
RenderNew(t, tags) ==
  <<Line("entry", t.title)>> \o TrimEnd(t.rest) \o TagsLine(tags) \o <<Blank>>

Joined(s, chunks) ==
  (IF \A i \in DOMAIN s.preamble : s.preamble[i] = Blank THEN <<Header>> ELSE s.preamble) \o FlattenSeq(chunks)
ReplaceIn(s, i, t) == Joined(s, [s.entries EXCEPT ![i] = RenderNew(t, EntryTags(s.entries[i]))])
RemoveIn(s, i) == Joined(s, RemoveAt(s.entries, i))
-----------------------------------------------------------------------------
(* The caps look at a size estimated before the entry is rendered.          *)
FactSize(e) == Len(lines) + 2 + Len(e.body) + Len(TagsLine(e.tags))
PreferenceSize(e) == Len(lines) + Len(RenderPreference(e))
LessonSize(e) == Len(lines) + 2 + Len(e.body) + (IF e.footer.counter = 0 THEN 0 ELSE 1)
\* what the estimates leave out
Uncounted(e) ==
  CASE surface = "fact" -> IF e.scope # 0 THEN 1 ELSE 0
    [] surface = "preference" -> IF lines = <<>> THEN 1 ELSE 0
    [] surface = "lesson" -> 1 + Cardinality({f \in {"suggested", "block"} : e.footer[f] # 0})

\* a file without its last newline takes the new heading into its last line
Glued == Line("text", <<0>>)
AppendTo(e) ==
  IF lines = <<>> THEN (IF surface = "preference" THEN <<Header>> ELSE <<>>) \o Render(e)
  ELSE IF ended THEN lines \o Render(e)
  ELSE Front(lines) \o <<Glued>> \o Tail(Render(e))

\* check_content_policy: a handoff, a bare sha, date or path
Policed(e) == "bare" \in DOMAIN e
-----------------------------------------------------------------------------
SurfaceInit == surface \in Kinds /\ lines = <<>> /\ ended = TRUE

AppendGuarded(e, size) ==
  /\ ~ (Strict /\ Policed(e)) /\ size <= SurfaceCap
  /\ lines' = AppendTo(e) /\ ended' = TRUE /\ UNCHANGED surface
RememberFact == surface = "fact" /\ \E e \in Entries : AppendGuarded(e, FactSize(e))
RememberPreference == surface = "preference" /\ \E e \in Entries : AppendGuarded(e, PreferenceSize(e))
RememberLesson == surface = "lesson" /\ \E e \in Entries : AppendGuarded(e, LessonSize(e))

ReplaceEntry ==
  \E q \in Queries, t \in NewTexts : LET s == SplitEntries(lines) IN
    \E i \in PickEntry(s.entries, q) :
      lines' = ReplaceIn(s, i, t) /\ ended' = (i = Len(s.entries) \/ ended) /\ UNCHANGED surface

RemoveEntry ==
  \E q \in Queries : LET s == SplitEntries(lines) IN
    \E i \in PickEntry(s.entries, q) :
      lines' = RemoveIn(s, i) /\ ended' = (i = Len(s.entries) \/ ended) /\ UNCHANGED surface

\* the dream pass and the forget pass write what they have parsed
Rewrite == lines' = RewriteText(ParseText(lines)) /\ ended' = TRUE /\ UNCHANGED surface

HandEdit ==
  /\ ended
  /\ \E l \in HandLines : /\ lines' = Append(lines, l)
                          /\ ended' \in (IF l.k = "text" THEN BOOLEAN ELSE {TRUE})
  /\ UNCHANGED surface

SurfaceNext ==
  /\ RememberFact \/ RememberPreference \/ RememberLesson \/ ReplaceEntry \/ RemoveEntry \/ Rewrite \/ HandEdit
  /\ Len(lines') <= MaxSurface
SurfaceSpec == SurfaceInit /\ [][SurfaceNext]_surfaceVars
-----------------------------------------------------------------------------
(* tool_wakeup numbers the entries it shows; tool_memory_detail takes such  *)
(* a number of a fact or a lesson, and none of a preference.                *)
Shown(all) == LET es == ParseText(lines) IN {i \in DOMAIN es : all \/ es[i].scope = 0}
Detail(n) == LET es == ParseText(lines) IN IF surface # "preference" /\ n \in DOMAIN es THEN {es[n]} ELSE {}
-----------------------------------------------------------------------------
Plain(e) == \A i \in DOMAIN e.body : e.body[i].k = "text"

(* The number and the heading under which an entry is shown to the agent    *)
(* are those under which replace and remove find it.                        *)
EntriesAgree ==
  LET es == ParseText(lines) chunks == SplitEntries(lines).entries IN
  /\ Len(es) = Len(chunks)
  /\ \A i \in DOMAIN es : chunks[i][1].v = es[i].title
  /\ \A all \in BOOLEAN : \A n \in Shown(all) : \A d \in Detail(n) : d.title = chunks[n][1].v

(* A pass that rewrites a surface from what it read changes no entry.       *)
RewriteKeeps == ParseText(RewriteText(ParseText(lines))) = ParseText(lines)

(* What is appended to a file that ends in a newline is read back as it was *)
(* given, and no operation on one entry changes what is read of another.    *)
OthersStand ==
  LET es == ParseText(lines) s == SplitEntries(lines) n == Len(es) IN
  /\ \A e \in Entries : ended =>
       LET after == ParseText(AppendTo(e)) IN
       SubSeq(after, 1, n) = es /\ (Plain(e) => Len(after) = n + 1 /\ Render(after[n + 1]) = Render(e))
  /\ \A i \in 1..n : /\ ParseText(RemoveIn(s, i)) = RemoveAt(es, i)
                     /\ \A t \in NewTexts :
                          LET after == ParseText(ReplaceIn(s, i, t)) more == Len(after) - n
                          IN  /\ SubSeq(after, 1, i - 1) = SubSeq(es, 1, i - 1)
                              /\ SubSeq(after, i + 1 + more, n + more) = SubSeq(es, i + 1, n)

(* Replacing the text of an entry keeps its tags, unless the text itself    *)
(* brings a tags line.                                                      *)
TagsOf(ls) == SelectSeq(ls, LAMBDA l : l.k = "tags")
PlainTexts == {t \in NewTexts : \A l \in ToSet(t.rest) : l.k \in {"text", "blank"}}
TagsKept ==
  LET es == ParseText(lines) s == SplitEntries(lines) IN
  surface # "lesson" => \A i \in DOMAIN es : \A t \in PlainTexts :
    (Len(TagsOf(s.entries[i])) <= 1 /\ \A l \in ToSet(s.entries[i]) : l.k # "section")
      => ParseText(ReplaceIn(s, i, t))[i].tags = es[i].tags

(* An append leaves the file over its cap by no more than the lines the     *)
(* estimate forgets.                                                        *)
Attempted(e) ==
  CASE surface = "fact" -> FactSize(e)
    [] surface = "preference" -> PreferenceSize(e)
    [] surface = "lesson" -> LessonSize(e)
AppendBounded ==
  \A e \in Entries : Attempted(e) <= SurfaceCap => Len(AppendTo(e)) <= SurfaceCap + Uncounted(e)

(* What the memory tools show of a surface, replace in it and take from it  *)
(* are the entries it has, and the others stay as they are.                 *)
SurfaceExact == EntriesAgree /\ RewriteKeeps /\ OthersStand /\ TagsKept /\ AppendBounded

=============================================================================
