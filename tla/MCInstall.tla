----------------------------- MODULE MCInstall -----------------------------
(* What puts HOANGSA on a machine: install, update and uninstall with two   *)
(* releases, the second without the first template and with one event       *)
(* less; the pointer blocks; and the bootstrap of a project.  They share    *)
(* no state, so a behaviour works on one of them while the others rest.     *)
EXTENDS Install, Guidance, Bootstrap

CONSTANTS k1, k2, h1, h2

MCReleases == <<<<0, 6>>, <<0, 6, 1>>>>
MCShips == [v \in {MCReleases[1], MCReleases[2]} |-> IF v = MCReleases[1] THEN <<k1, k2>> ELSE <<k2>>]
MCSites == {[harness |-> "claude", mode |-> "global"], [harness |-> "claude", mode |-> "local"],
            [harness |-> "codex", mode |-> "local"], [harness |-> "cowork", mode |-> "global"]}
MCHooked == [h \in {"claude", "codex", "cowork"} |->
               [v \in {MCReleases[1], MCReleases[2]} |->
                  IF h = "cowork" THEN {} ELSE IF v = MCReleases[1] THEN {"Stop", "SessionEnd"} ELSE {"Stop"}]]
OldHooks(kind) == [hooks |-> {[event |-> "Stop", kind |-> kind, ver |-> NoValue]}, line |-> "user"]
Server(user) == [user |-> user, ours |-> ~ user, env |-> ~ user]
First(s, d, o, r) == [settings |-> s, servers |-> d, orphan |-> o, seeds |-> r]
MCFirstFiles == {First(OldHooks("user"), Server(TRUE), "user", "custom"),
                 First(OldHooks("legacy"), Server(FALSE), "ours", Gone),
                 First(Gone, Gone, Gone, Gone)}
Op(do, s, v, m) == [do |-> do, site |-> s, version |-> v, memory |-> m, from |-> "release"]
MCInstallOps ==
  {Op("install", s, v, TRUE) : s \in {t \in MCSites : t.harness # "cowork"}, v \in {MCReleases[1], MCReleases[2]}}
  \cup {Op("install", [harness |-> "cowork", mode |-> "global"], MCReleases[2], TRUE)}
  \cup {Op("install", [harness |-> "codex", mode |-> "local"], MCReleases[1], FALSE)}
  \cup {[Op("install", [harness |-> "claude", mode |-> "global"], MCReleases[2], TRUE) EXCEPT !.from = "staging"],
        [Op("install", [harness |-> "claude", mode |-> "local"], MCReleases[2], TRUE) EXCEPT !.from = "plain"]}
  \cup {Op("update", [harness |-> "claude", mode |-> "global"], MCReleases[2], TRUE)}
  \cup {Op("uninstall", [harness |-> "claude", mode |-> m], MCReleases[1], p) :
          m \in {"global", "local"}, p \in BOOLEAN}
MCPages == {<<>>, <<"a">>, <<"a", "start", "plain", "end", "b">>, <<"a", "start", "b">>,
            <<"end", "a", "start", "b">>}
-----------------------------------------------------------------------------
VARIABLE system   \* which of the three this behaviour works on

setupAll == <<system, instVars, guideVars, bootVars>>

SetupInit ==
  /\ system \in {"install", "guidance", "bootstrap"}
  /\ InstInit /\ GuideInit /\ BootInit
  /\ system # "install" => seeds = Gone /\ orphan = Gone
  /\ system # "guidance" => page = [f \in DOMAIN page |-> <<>>] /\ ~ linked /\ body = "none"
  /\ system # "bootstrap" => optOut /\ binary

SetupNext ==
  /\ UNCHANGED system
  /\ \/ system = "install" /\ InstNext /\ UNCHANGED <<guideVars, bootVars>>
     \/ system = "guidance" /\ GuideNext /\ UNCHANGED <<instVars, bootVars>>
     \/ system = "bootstrap" /\ BootNext /\ UNCHANGED <<instVars, guideVars>>

Boots(A) == system = "bootstrap" /\ A /\ UNCHANGED <<system, instVars, guideVars>>

\* Sessions go on being opened, time goes by, and a worker that is not killed
\* goes on.
SetupSpec ==
  /\ SetupInit /\ [][SetupNext]_setupAll
  /\ WF_setupAll(Boots(SessionStart)) /\ WF_setupAll(Boots(HalfHour))
  /\ \A w \in BootWorkers :
       WF_setupAll(Boots(WorkerStart(w) \/ Index(w) \/ Ingest(w) \/ LeaveSentinel(w) \/ WorkerDone(w)))

(* The user's lines in the documents and in the rc files stay, syncing      *)
(* comes to an end, and the sentinel is left by a worker that succeeded.    *)
MarkersHonest == LinesKept /\ SyncSettles /\ SentinelHonest
=============================================================================
