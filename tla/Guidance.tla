------------------------------ MODULE Guidance ------------------------------
(***************************************************************************)
(* "memory-guidance sync", which install ends with: the guidance document  *)
(* and the pointer blocks of CLAUDE.md and AGENTS.md; and the block of the *)
(* shell's rc files that uninstall takes out.  Files are sequences of      *)
(* lines, a block is one line between its markers; they are written in     *)
(* place, the rc files are renamed over.                                   *)
(***************************************************************************)
EXTENDS Naturals, SequencesExt, FiniteSetsExt

CONSTANTS
  Pages,        \* what CLAUDE.md, AGENTS.md and an rc file may hold
  MaxSyncs, MaxSyncKills   \* bounds

ASSUME GuidanceAssumption == Pages \subseteq Seq(UNION {ToSet(doc) : doc \in Pages})

VARIABLES
  page,       \* [claude, agents, rc]: lines, <<>> when missing or cut short
  linked,     \* CLAUDE.md and AGENTS.md are one file
  body,       \* memory-guidance.md: "none", "half", "old", "current"
  sync,       \* the step of the sync at work
  seen,       \* the document it read
  syncs, syncKills,
  first       \* ghost: page at the start

guideVars == <<page, linked, body, sync, seen, syncs, syncKills, first>>

Start == "start"
End == "end"
Block(style) == <<Start, style, End>>
At(doc, mark) == {n \in DOMAIN doc : doc[n] = mark}

(* Variant: what follows the block is not put back. *)
UpsertCuts(doc, style) ==
  IF At(doc, Start) # {} /\ At(doc, End) # {} /\ Min(At(doc, End)) > Min(At(doc, Start))
  THEN SubSeq(doc, 1, Min(At(doc, Start)) - 1) \o Block(style)
  ELSE doc \o Block(style)

\* upsert_marker_block: first marker of each kind; when the end does not come
\* after the start, the block is appended.
Upsert(doc, style) ==
  IF At(doc, Start) # {} /\ At(doc, End) # {} /\ Min(At(doc, End)) > Min(At(doc, Start))
  THEN SubSeq(doc, 1, Min(At(doc, Start)) - 1) \o Block(style)
       \o SubSeq(doc, Min(At(doc, End)) + 1, Len(doc))
  ELSE doc \o Block(style)

\* strip_managed_block: a line goes when it is a marker, or the last marker
\* before it is a start.  A file without both markers is left alone.
Inside(doc, n) ==
  \E s \in At(doc, Start) : s < n /\ \A e \in At(doc, End) : e < s \/ e > n
StripManagedBlock(doc) ==
  LET kept == {n \in DOMAIN doc : doc[n] \notin {Start, End} /\ ~ Inside(doc, n)}
      nth(i) == CHOOSE n \in kept : Cardinality({m \in kept : m <= n}) = i
  IN  IF At(doc, Start) = {} \/ At(doc, End) = {} THEN doc
      ELSE [i \in 1..Cardinality(kept) |-> doc[nth(i)]]

Style(f) == IF f = "claude" /\ ~ linked THEN "import" ELSE "plain"

GuideInit ==
  /\ page \in [{"claude", "agents", "rc"} -> Pages] /\ linked \in BOOLEAN
  /\ linked => page["claude"] = page["agents"]
  /\ body \in {"none", "old"} /\ sync = "idle" /\ seen = <<>>
  /\ syncs = 0 /\ syncKills = 0 /\ first = page

Put(f, doc) ==
  page' = IF linked /\ f # "rc" THEN [page EXCEPT !["claude"] = doc, !["agents"] = doc]
          ELSE [page EXCEPT ![f] = doc]
Meanwhile == UNCHANGED <<linked, syncKills, first>>

\* write_guidance_body: always the text this command line carries.
SyncBody ==
  /\ \/ /\ sync = "idle" /\ syncs < MaxSyncs /\ syncs' = syncs + 1
        /\ sync' = IF body = "current" THEN "claude" ELSE "body"
        /\ body' = IF body = "current" THEN body ELSE "half"
     \/ sync = "body" /\ sync' = "claude" /\ body' = "current" /\ UNCHANGED syncs
  /\ UNCHANGED <<page, seen>> /\ Meanwhile

\* A document that would not change is not written.
SyncPage ==
  /\ sync \in {"claude", "agents"}
  /\ LET after == IF sync = "agents" \/ linked THEN "idle" ELSE "agents"
         new == Upsert(page[sync], Style(sync))
     IN  IF new = page[sync]
         THEN sync' = after /\ UNCHANGED <<page, seen>>
         ELSE seen' = page[sync] /\ Put(sync, <<>>) /\ sync' = IF sync = "claude" THEN "claude!" ELSE "agents!"
  /\ UNCHANGED <<body, syncs>> /\ Meanwhile

FillPage ==
  /\ \/ /\ sync = "claude!" /\ sync' = IF linked THEN "idle" ELSE "agents"
        /\ Put("claude", Upsert(seen, Style("claude")))
     \/ sync = "agents!" /\ sync' = "idle" /\ Put("agents", Upsert(seen, Style("agents")))
  /\ seen' = <<>> /\ UNCHANGED <<body, syncs>> /\ Meanwhile

StripRcFile ==
  /\ sync = "idle" /\ StripManagedBlock(page["rc"]) # page["rc"]
  /\ Put("rc", StripManagedBlock(page["rc"]))
  /\ UNCHANGED <<body, sync, seen, syncs>> /\ Meanwhile

SyncKilled ==
  /\ sync # "idle" /\ syncKills < MaxSyncKills /\ syncKills' = syncKills + 1
  /\ sync' = "idle" /\ seen' = <<>>
  /\ UNCHANGED <<page, linked, body, syncs, first>>

GuideNext == SyncBody \/ SyncPage \/ FillPage \/ StripRcFile \/ SyncKilled
-----------------------------------------------------------------------------
Paired(doc) ==
  \/ At(doc, Start) = {} /\ At(doc, End) = {}
  \/ \E s, e \in DOMAIN doc : s < e /\ At(doc, Start) = {s} /\ At(doc, End) = {e}
Outside(doc) ==
  IF At(doc, Start) = {} \/ At(doc, End) = {} THEN doc
  ELSE SubSeq(doc, 1, Min(At(doc, Start)) - 1) \o SubSeq(doc, Max(At(doc, End)) + 1, Len(doc))

(* The user's lines outside the markers stay, in their order: guidance.rs  *)
(* and uninstall.rs, for every file whose markers come in one pair or not  *)
(* at all, as long as no process was killed while it wrote the file.       *)
LinesKept ==
  \A f \in {"claude", "agents", "rc"} :
    Paired(first[f]) /\ syncKills = 0 /\ sync \notin {"claude!", "agents!"} =>
      Paired(page[f]) /\ Outside(page[f]) = Outside(first[f])

Own(doc) == SelectSeq(doc, LAMBDA l : l \notin {Start, End, "import", "plain"})

(* The same for a file that lost its end marker, of which uninstall.rs says *)
(* it was edited by hand and is to be left alone.                          *)
\* The code does not keep it: README, disagreements.
LoneMarkerKept ==
  \A f \in {"claude", "agents", "rc"} :
    syncKills = 0 /\ sync \notin {"claude!", "agents!"} => Own(page[f]) = Own(first[f])

(* Two files are given the block their reader understands, one file the     *)
(* plain one, however often they are synced: nothing is rewritten for ever. *)
SyncSettles ==
  sync = "idle" /\ syncs > 0 /\ syncKills = 0 =>
    /\ body = "current"
    /\ \A f \in {"claude", "agents"} :
         Paired(first[f]) => Upsert(page[f], Style(f)) = page[f]
=============================================================================
