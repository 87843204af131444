----------------------------- MODULE Transcript -----------------------------
(***************************************************************************)
(* How a transcript becomes chunks: the line parser, the noise filter and  *)
(* the exchange-pair chunker of hoangsa-memory-retrieve/src/archive.rs.    *)
(*                                                                         *)
(* A text is a sequence of characters.  A character of the conversation is *)
(* <<line, i>>, so that each one is told from every other and what is lost *)
(* or doubled shows; NL, Open and Close stand for a newline and for the    *)
(* two ends of a noise tag, Chrome for a line of the harness itself.       *)
(* ChunkSize and MinChunk are the code's 800 and 30.                       *)
(***************************************************************************)
EXTENDS Integers, Sequences, FiniteSets, SequencesExt

CONSTANTS ChunkSize, MinChunk

ASSUME ChunkSizes == MinChunk \in Nat /\ ChunkSize \in Nat /\ 1 < MinChunk /\ MinChunk < ChunkSize

NL == <<0, 0>>
Open == <<0, 1>>
Close == <<0, 2>>
Chrome == <<0, 3>>
Said(t) == SelectSeq(t, LAMBDA c : c[1] > 0)

At(t, c) == {i \in DOMAIN t : t[i] = c}
Least(S) == CHOOSE x \in S : \A y \in S : x <= y
Greatest(S) == CHOOSE x \in S : \A y \in S : x >= y

(* str::trim: the newlines at both ends go *)
Trim(t) ==
  LET ink == {i \in DOMAIN t : t[i] # NL}
  IN  IF ink = {} THEN <<>> ELSE SubSeq(t, Least(ink), Greatest(ink))

(* the text without positions lo..hi *)
Cut(t, lo, hi) == SubSeq(t, 1, lo - 1) \o SubSeq(t, hi + 1, Len(t))

(* A noise tag goes with its content and the newline after it; one that is *)
(* never closed takes the rest of its line.                                *)
RECURSIVE StripTags(_)
StripTags(t) ==
  IF At(t, Open) = {} THEN t
  ELSE LET start == Least(At(t, Open))
           ends == {i \in At(t, Close) : i > start}
           eols == {i \in At(t, NL) : i > start}
           close == Least(ends)
       IN  IF ends # {}
           THEN StripTags(Cut(t, start, IF close < Len(t) /\ t[close + 1] = NL THEN close + 1 ELSE close))
           ELSE StripTags(Cut(t, start, IF eols = {} THEN Len(t) ELSE Least(eols)))

(* a line that starts with harness chrome is dropped whole *)
DropChrome(t) ==
  LET from(i) == Greatest({0} \cup {j \in At(t, NL) : j < i}) + 1
      kept == {i \in DOMAIN t : t[from(i)] # Chrome}
  IN  [k \in 1..Cardinality(kept) |-> t[CHOOSE i \in kept : Cardinality({j \in kept : j <= i}) = k]]

StripNoise(t) == Trim(DropChrome(StripTags(t)))

(***************************************************************************)
(* The parser.  A Claude line has a role and blocks; a Codex rollout line  *)
(* is one message, call or output.  The fold carries the turns and the     *)
(* names of the tool uses seen so far.                                     *)
(***************************************************************************)

(* results of Read, Edit and Write are left out, the content is in git *)
FormatToolResult(text, tool) == IF tool \in {"Read", "Edit", "Write"} THEN <<>> ELSE Trim(text)

(* the blocks' texts, joined by newlines *)
ExtractTextRich(blocks, tools) ==
  LET part(b) == CASE b.type = "text" -> b.text
                   [] b.type = "tool_use" -> b.text
                   [] OTHER -> FormatToolResult(b.text, IF b.id \in DOMAIN tools THEN tools[b.id] ELSE "Unknown")
      parts == SelectSeq([i \in DOMAIN blocks |-> part(blocks[i])], LAMBDA t : t # <<>>)
  IN  Trim(FoldLeft(LAMBDA acc, t : IF acc = <<>> THEN t ELSE acc \o <<NL>> \o t, <<>>, parts))

LastIsAssistant(turns) == turns # <<>> /\ Last(turns).role = "assistant"

AppendToLast(turns, t) == [turns EXCEPT ![Len(turns)].text = @ \o <<NL>> \o t]

(* Consecutive assistant turns are one turn, and a user line that holds    *)
(* nothing but tool results belongs to the assistant's turn before it.     *)
ClaudeLine(st, line) ==
  LET uses == {i \in DOMAIN line.blocks : line.role = "assistant" /\ line.blocks[i].type = "tool_use"}
      named == {line.blocks[i].id : i \in uses}
      tools == [id \in named \cup DOMAIN st.tools |->
                  IF id \in named THEN line.blocks[CHOOSE i \in uses : line.blocks[i].id = id].tool ELSE st.tools[id]]
      cleaned == StripNoise(ExtractTextRich(line.blocks, tools))
      toolOnly == \A i \in DOMAIN line.blocks : line.blocks[i].type = "tool_result"
      turns == IF cleaned = <<>> THEN st.turns
               ELSE IF (toolOnly \/ line.role = "assistant") /\ LastIsAssistant(st.turns)
               THEN AppendToLast(st.turns, cleaned)
               ELSE Append(st.turns, [role |-> line.role, text |-> cleaned])
  IN  IF line.role \in {"system", "tool"} THEN st ELSE [turns |-> turns, tools |-> tools]

(* Codex: a developer's message and an injected wrapper are no turn; a     *)
(* call or its output goes to the assistant's turn or nowhere.             *)
RolloutLine(st, line) ==
  LET cleaned == StripNoise(line.text)
      said == line.role = "assistant" \/ (line.role = "user" /\ ~line.injected)
      turns == IF cleaned = <<>> THEN st.turns
               ELSE IF line.payload = "message"
               THEN IF ~said THEN st.turns
                    ELSE IF line.role = "assistant" /\ LastIsAssistant(st.turns) THEN AppendToLast(st.turns, cleaned)
                    ELSE Append(st.turns, [role |-> line.role, text |-> cleaned])
               ELSE IF LastIsAssistant(st.turns) THEN AppendToLast(st.turns, cleaned) ELSE st.turns
  IN  [st EXCEPT !.turns = turns]

ParseConversation(lines) ==
  FoldLeft(LAMBDA st, line : IF line.type = "response_item" THEN RolloutLine(st, line) ELSE ClaudeLine(st, line),
           [turns |-> <<>>, tools |-> <<>>], lines).turns

(***************************************************************************)
(* The chunker: a user turn and the assistant turns after it are one       *)
(* exchange.  One longer than ChunkSize is cut at the last blank line of   *)
(* the window, else at its last newline, else at its end; a part shorter   *)
(* than MinChunk is dropped.                                               *)
(***************************************************************************)

BreakAt(t, offset) ==
  LET end == IF offset + ChunkSize < Len(t) THEN offset + ChunkSize ELSE Len(t)
      window == SubSeq(t, offset + 1, end)
      nls == At(window, NL)
      blanks == {i \in nls : i + 1 \in nls}
  IN  IF end = Len(t) \/ nls = {} THEN end
      ELSE IF blanks # {} THEN offset + Greatest(blanks) ELSE offset + Greatest(nls)

RECURSIVE Parts(_, _)
Parts(t, offset) ==
  IF offset >= Len(t) THEN <<>>
  ELSE LET part == Trim(SubSeq(t, offset + 1, BreakAt(t, offset)))
       IN  (IF Len(part) >= MinChunk THEN <<part>> ELSE <<>>) \o Parts(t, BreakAt(t, offset))

(* the exchanges: where each starts and the texts it joins *)
Exchanges(turns) ==
  LET starts == {i \in DOMAIN turns : turns[i].role = "user" \/ (\A j \in 1..(i - 1) : turns[j].role # "user")}
      end(i) == Least({Len(turns)} \cup {j - 1 : j \in {k \in starts : k > i}})
      join(i) == FoldLeft(LAMBDA acc, x : IF acc = <<>> THEN x.text ELSE acc \o <<NL, NL>> \o x.text, <<>>,
                          SubSeq(turns, i, end(i)))
  IN  [k \in 1..Cardinality(starts) |-> join(CHOOSE i \in starts : Cardinality({j \in starts : j <= i}) = k)]

(* an orphan assistant turn is one chunk, whatever its length *)
ChunkExchanges(turns) ==
  LET orphan == turns # <<>> /\ turns[1].role # "user"
      one(k, t) == IF (orphan /\ k = 1) \/ Len(t) <= ChunkSize
                   THEN IF Len(Trim(t)) >= MinChunk THEN <<Trim(t)>> ELSE <<>>
                   ELSE Parts(t, 0)
      ex == Exchanges(turns)
  IN  FlattenSeq([k \in DOMAIN ex |-> one(k, ex[k])])

(***************************************************************************)
(* The reference: what of a conversation the chunks hold.                  *)
(***************************************************************************)

(* the paragraphs of a text: the stretches between newlines *)
Paragraphs(t) ==
  LET ends == {0, Len(t) + 1} \cup At(t, NL)
  IN  {SubSeq(t, a + 1, b - 1) : <<a, b>> \in {<<x, y>> \in ends \X ends : x < y /\ \A z \in ends : ~(x < z /\ z < y)}} \ {<<>>}

(* Nothing said is in two chunks or out of order, a paragraph that is long *)
(* enough to be a chunk and short enough to fit one is kept whole, and of  *)
(* any other fewer than MinChunk characters are missing.                   *)
KeepsText(turns) ==
  LET chunks == FlattenSeq([k \in DOMAIN ChunkExchanges(turns) |-> Said(ChunkExchanges(turns)[k])])
      before == Said(FlattenSeq(Exchanges(turns)))
      pos(c) == CHOOSE i \in DOMAIN before : before[i] = c
      held == Range(chunks)
  IN  /\ \A i, j \in DOMAIN chunks : i < j => pos(chunks[i]) < pos(chunks[j])
      /\ \A k \in DOMAIN turns : \A q \in Paragraphs(turns[k].text) :
           /\ Cardinality({i \in DOMAIN q : q[i] \notin held}) < MinChunk
           /\ Len(q) >= MinChunk /\ Len(q) < ChunkSize => Range(q) \subseteq held

(* What a person or the assistant says without harness noise is in a turn of its own role. *)
SpeechKept(lines) ==
  LET turns == ParseConversation(lines)
      plain(line) == /\ line.type = "claude" /\ line.role \in {"user", "assistant"}
                     /\ \A i \in DOMAIN line.blocks :
                          line.blocks[i].type = "text" /\ Range(line.blocks[i].text) \cap {Open, Close, Chrome} = {}
  IN  \A i \in DOMAIN lines : plain(lines[i]) =>
        \E k \in DOMAIN turns : /\ turns[k].role = lines[i].role
                                /\ \A j \in DOMAIN lines[i].blocks :
                                     Range(Said(lines[i].blocks[j].text)) \subseteq Range(turns[k].text)
==============================================================================
