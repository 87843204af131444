----------------------------- MODULE EpisodeLog -----------------------------
(***************************************************************************)
(* episodes.db (hoangsa-memory-store/src/episodes.rs): the log of queries  *)
(* and nudges, its full-text index, the conversation turns, and the        *)
(* forgetting of episodes by MemoryManager::forget_pass.  The daemon, its  *)
(* sweep and the command line have a connection each; a connection is used *)
(* under a mutex, a statement is atomic.                                   *)
(*                                                                         *)
(* born numbers the events, so that one that gets the row id of another    *)
(* that was deleted is told from it.  An episode decays with the time it   *)
(* was idle, slower the more often it was read (effective_retention_score).*)
(***************************************************************************)
EXTENDS Naturals, Sequences, FiniteSets

CONSTANTS
  EpTtl,        \* episodic_ttl_days
  EpCapacity,   \* max_episodes
  EpDecayAfter, \* idle time after which an unread episode is below decay_floor
  TurnSessions, \* sessions whose turns are saved
  MaxEpTime,    \* bounds: clock, events with turns, passes
  MaxEvents, MaxPasses

ASSUME EpisodeAssumption ==
  {EpTtl, EpCapacity, EpDecayAfter, MaxEpTime, MaxEvents, MaxPasses} \subseteq Nat

VARIABLES
  episodes,   \* [row id -> [born, at, reads, last]]
  epIndex,    \* episodes_fts: [row id -> born]
  turns,      \* saved turns: <<session, turn_number>>, in the order of their row ids
  pass,       \* the forget pass: [at, now, doomed]
  epClock, born, passes,
  history,    \* ghost: when each event happened, by born
  judged      \* ghost: the events a pass has found too old, too many or decayed

epVars == <<episodes, epIndex, turns, pass, epClock, born, passes, history, judged>>

EpIds == DOMAIN episodes
EpTop(S) == IF S = {} THEN 0 ELSE CHOOSE x \in S : \A y \in S : x >= y
Only(f, S) == [x \in DOMAIN f \cap S |-> f[x]]
Put(f, id, v) == [x \in DOMAIN f \cup {id} |-> IF x = id THEN v ELSE f[x]]
Room == born + Len(turns) < MaxEvents
NoPass == [at |-> "off", now |-> 0, doomed |-> {}]

EpInit ==
  /\ episodes = <<>> /\ epIndex = <<>> /\ turns = <<>>
  /\ pass = NoPass /\ epClock = 0 /\ born = 0 /\ passes = 0
  /\ history = <<>> /\ judged = {}

(* append: the row gets the id after the highest, the trigger indexes it *)
AppendEpisode ==
  /\ Room
  /\ LET id == EpTop(EpIds) + 1
     IN  /\ episodes' = Put(episodes, id, [born |-> born + 1, at |-> epClock, reads |-> 0, last |-> epClock])
         /\ epIndex' = Put(epIndex, id, born + 1)
  /\ born' = born + 1 /\ history' = Append(history, epClock)
  /\ UNCHANGED <<turns, pass, epClock, passes, judged>>

(* bump_access_by_id *)
Read(row) == [row EXCEPT !.reads = row.reads + 1, !.last = epClock]

BumpAccess(id) ==
  /\ id \in EpIds /\ episodes[id].reads = 0
  /\ episodes' = [episodes EXCEPT ![id] = Read(episodes[id])]
  /\ UNCHANGED <<epIndex, turns, pass, epClock, born, passes, history, judged>>

(* append_turn: the next number of the session *)
AppendTurn(s) ==
  /\ Room
  /\ turns' = Append(turns, <<s, EpTop({turns[i][2] : i \in {j \in DOMAIN turns : turns[j][1] = s}}) + 1>>)
  /\ UNCHANGED <<episodes, epIndex, pass, epClock, born, passes, history, judged>>

EpTick ==
  /\ epClock < MaxEpTime
  /\ epClock' = epClock + 1
  /\ UNCHANGED <<episodes, epIndex, turns, pass, born, passes, history, judged>>

(* a DELETE: the trigger takes the rows out of the index *)
Delete(ids) ==
  /\ episodes' = Only(episodes, EpIds \ ids)
  /\ epIndex' = Only(epIndex, DOMAIN epIndex \ ids)

BeginPass ==
  /\ pass.at = "off" /\ passes < MaxPasses
  /\ pass' = [at |-> "ttl", now |-> epClock, doomed |-> {}]
  /\ passes' = passes + 1
  /\ UNCHANGED <<episodes, epIndex, turns, epClock, born, history, judged>>

Judge(ids) == judged' = judged \cup {episodes[id].born : id \in ids}

(* delete_older_than *)
DropOld ==
  /\ pass.at = "ttl"
  /\ LET old == {id \in EpIds : episodes[id].at + EpTtl < pass.now}
     IN  Delete(old) /\ Judge(old)
  /\ pass' = [pass EXCEPT !.at = "capacity"]
  /\ UNCHANGED <<turns, epClock, born, passes, history>>

(* trim_to_capacity keeps the highest ids *)
LastRows == {id \in EpIds : Cardinality({x \in EpIds : x > id}) < EpCapacity}

TrimToCapacity ==
  /\ pass.at = "capacity"
  /\ Delete(EpIds \ LastRows) /\ Judge(EpIds \ LastRows)
  /\ pass' = [pass EXCEPT !.at = "score"]
  /\ UNCHANGED <<turns, epClock, born, passes, history>>

Decayed(row, now) == now - row.last >= EpDecayAfter + row.reads

(* iter_with_decay_meta: what is to go is worked out from what was read *)
Score ==
  /\ pass.at = "score"
  /\ LET low == {id \in EpIds : episodes[id].last <= pass.now /\ Decayed(episodes[id], pass.now)}
     IN  /\ pass' = [pass EXCEPT !.at = "decay", !.doomed = low]
         /\ Judge(low)
  /\ UNCHANGED <<episodes, epIndex, turns, epClock, born, passes, history>>

(* delete_by_ids *)
DropDecayed ==
  /\ pass.at = "decay"
  /\ Delete(pass.doomed)
  /\ pass' = NoPass
  /\ UNCHANGED <<turns, epClock, born, passes, history, judged>>

StopPass ==
  /\ pass.at # "off"
  /\ pass' = NoPass
  /\ UNCHANGED <<episodes, epIndex, turns, epClock, born, passes, history, judged>>

EpNext ==
  \/ AppendEpisode \/ EpTick \/ BeginPass \/ DropOld \/ TrimToCapacity \/ Score \/ DropDecayed \/ StopPass
  \/ \E id \in EpIds : BumpAccess(id)
  \/ \E s \in TurnSessions : AppendTurn(s)

(***************************************************************************)
(* Properties                                                              *)
(***************************************************************************)

(* The search finds exactly the rows that are there: row ids are used      *)
(* again after a deletion, the index must not still hold the old text.     *)
IndexInStep == epIndex = [id \in EpIds |-> episodes[id].born]

(* Events keep their order, whatever was forgotten and whichever ids were  *)
(* used again: the rows with the highest ids are the latest events.        *)
OrderKept == \A x, y \in EpIds : x < y => episodes[x].born < episodes[y].born

(* Only what a pass has judged goes, and what is among the latest          *)
(* EpCapacity events, young and not decayed is never judged.               *)
Remembered ==
  \A b \in 1..born :
    /\ (\A id \in EpIds : episodes[id].born # b) => b \in judged
    /\ b \in judged => \/ epClock > history[b] + EpTtl
                       \/ born >= b + EpCapacity
                       \/ epClock - history[b] >= EpDecayAfter

(* The turns of a session are numbered 1, 2, ... in the order they came.   *)
TurnsNumbered ==
  \A i \in DOMAIN turns : turns[i][2] = Cardinality({j \in 1..i : turns[j][1] = turns[i][1]})

(* The full-text rows are those of the episodes, and nothing is forgotten   *)
(* that no stage of a pass condemned, whoever appends or forgets meanwhile. *)
EpisodesHonest == IndexInStep /\ OrderKept /\ Remembered /\ TurnsNumbered
=============================================================================
