------------------------------ MODULE Install ------------------------------
(***************************************************************************)
(* hoangsa-cli install, update and uninstall: the template trees of Claude *)
(* and Codex with the backups of what the user changed in them, the two    *)
(* manifests, the hook settings and their .bak, the MCP registrations and  *)
(* the memory binaries.  One command runs at a time; it may fail or be     *)
(* killed between any two steps, and a file written in place is torn until *)
(* the write is complete.  The pointer blocks of CLAUDE.md and AGENTS.md   *)
(* are module Guidance, the key "harness" of config.json is in ConfigFile. *)
(***************************************************************************)
EXTENDS Naturals, Sequences, FiniteSets, SequencesExt

CONSTANTS
  TemplateKeys, \* the templates
  Ships,       \* the templates a version ships, by version, as walk_files sorts them
  Releases,    \* version numbers, sequences of naturals
  HookEvents,  \* the events a hook may be set on
  Hooked,      \* the events a version hooks, by harness and version
  Sites,       \* records [harness, mode]: the places installed to
  Hands,       \* contents a user writes over a template
  InstallOps,  \* the commands that may be given
  FirstFiles,  \* what the files may be before: [settings, servers, orphan, seeds]
  Gone, Half, NoValue, \* no file; a file cut short; nothing loaded
  MaxOps, MaxHands, MaxInstallKills  \* bounds: commands, acts of the user, kills

Versions == Range(Releases)
Shipped(v) == Range(Ships[v])

(* What the files hold when they are whole. *)
Entry == [event : HookEvents, kind : {"managed", "legacy", "user"}, ver : Versions \cup {NoValue}]
SettingsDoc == [hooks : SUBSET Entry, line : {"none", "ours", "user"}]
ServersDoc == [user : BOOLEAN, ours : BOOLEAN, env : BOOLEAN]

InstallOp == [do : {"install", "update", "uninstall"}, site : Sites, version : Versions,
              memory : BOOLEAN, from : {"release", "staging", "plain"}]

ASSUME InstallAssumption ==
  /\ Sites # {} /\ Sites \subseteq [harness : {"claude", "codex", "cowork"}, mode : {"global", "local"}]
  /\ Releases # <<>> /\ Releases \in Seq(Versions)
  /\ DOMAIN Ships = Versions
  /\ \A v \in Versions : /\ Ships[v] \in Seq(TemplateKeys)
                         /\ \A i, j \in 1 .. Len(Ships[v]) : Ships[v][i] = Ships[v][j] => i = j
  /\ \A h \in {"claude", "codex"}, v \in Versions : Hooked[h][v] \subseteq HookEvents
  /\ Hands \cap Versions = {}
  /\ {Gone, Half} \cap (TemplateKeys \X (Hands \cup Versions)) = {}
  /\ Gone # Half /\ Gone \notin SettingsDoc \cup ServersDoc /\ Half \notin SettingsDoc \cup ServersDoc
  /\ \A f \in FirstFiles : /\ f.settings \in {Gone} \cup SettingsDoc
                           /\ f.servers \in {Gone} \cup ServersDoc
  /\ InstallOps \subseteq InstallOp
  /\ \A o \in InstallOps : o.do # "install" => o.site.harness = "claude"

VARIABLES
  tree, patches,       \* per site: content by template; contents backed up
  manifest,            \* per harness: Gone, Half or [version, files]
  settings, bak,       \* per site: Gone, Half or [hooks, line]
  servers, orphan,     \* per site: Gone, Half or [user, ours, env]; ~/.claude/.claude.json
  seeds,               \* <cwd>/.hoangsa/rules.json: Gone, Half, "seed", "custom"
  bins,                \* version of each binary, NoValue where it is missing
  op, ipc, prev, nth, held,  \* the running command, its next step, manifest
                       \* and document read, template at hand
  told,                \* what the last command reported
  ops, hands, instKills,
  mine, owned, hadUser \* ghosts: contents, hook entries, MCP entries of the user

instVars == <<tree, patches, manifest, settings, bak, servers, orphan, seeds, bins,
              op, ipc, prev, nth, held, told, ops, hands, instKills, mine, owned, hadUser>>
files == <<tree, patches, manifest, settings, bak, servers, orphan, seeds, bins>>
counts == <<ops, hands, instKills>>
users == <<mine, owned, hadUser>>

Harnesses == {s.harness : s \in Sites}
Bins == <<"hoangsa-memory", "hoangsa-memory-mcp", "hoangsa-cli", "hsp">>
Body(k, v) == <<k, v>>

\* Numeric, a missing part counts as 0; what follows - or + is not compared.
IsNewer(u, v) ==
  LET part(w, i) == IF i <= Len(w) THEN w[i] ELSE 0
  IN  \E i \in 1 .. Len(u) :
        /\ part(u, i) > part(v, i)
        /\ \A j \in 1 .. i - 1 : part(u, j) = part(v, j)
-----------------------------------------------------------------------------
(* Hook settings.                                                           *)

Managed(h, v) == {[event |-> e, kind |-> "managed", ver |-> v] : e \in Hooked[h][v]}
\* "legacy" has no sentinel, or the old one, and calls hoangsa-cli or hsp.
IsHoangsaEntry(e) == e.kind \in {"managed", "legacy"}
NoSettings == [hooks |-> {}, line |-> "none"]

(* Variant: what an earlier install added stays. *)
MergeAppends(hooks, h, v) == hooks \cup Managed(h, v)

\* The events of this version lose every old entry of ours; others keep theirs.
MergeHooks(hooks, h, v) ==
  {e \in hooks : e.event \in Hooked[h][v] => ~ IsHoangsaEntry(e)} \cup Managed(h, v)

\* A line of ours whose binary is missing is healed, the user's is kept.
ApplyLine(line) ==
  IF line = "none" \/ (line = "ours" /\ bins["hoangsa-cli"] = NoValue) THEN "ours" ELSE line

\* Uninstall knows the sentinel only, and leaves alone what does not parse.
StripHooks(d) ==
  IF d \in {Gone, Half} THEN d ELSE [d EXCEPT !.hooks = {e \in d.hooks : e.kind # "managed"}]

UserHooks(d) == IF d \in {Gone, Half} THEN {} ELSE {e \in d.hooks : e.kind = "user"}
-----------------------------------------------------------------------------
(* The gate before a template is overwritten.                               *)

Tracked(k) == prev # Gone /\ k \in DOMAIN prev.files

(* Variant: only what the manifest tracks is backed up, as it once was. *)
OldGate(cur, k, v) == cur # Gone /\ Tracked(k) /\ prev.files[k] # cur

\* templates.rs: backed up unless the manifest proves it ours.
BackupGate(cur, k, v) ==
  cur # Gone /\ cur # Body(k, v) /\ ~ (Tracked(k) /\ prev.files[k] = cur)

\* codex.rs, backup_if_user_modified: only what the manifest tracks.
CodexGate(cur, k) == cur # Gone /\ Tracked(k) /\ prev.files[k] # cur
-----------------------------------------------------------------------------
IdleOp == [do |-> "idle", site |-> CHOOSE s \in Sites : TRUE, version |-> Releases[1],
           memory |-> TRUE, from |-> "plain"]
NoServers == [user |-> FALSE, ours |-> FALSE, env |-> FALSE]

InstInit ==
  /\ tree = [s \in Sites |-> [k \in TemplateKeys |-> Gone]]
  /\ patches = [s \in Sites |-> {}] /\ manifest = [h \in Harnesses |-> Gone]
  /\ bak = [s \in Sites |-> Gone]
  /\ \E f \in FirstFiles :
       /\ settings = [s \in Sites |-> f.settings] /\ servers = [s \in Sites |-> f.servers]
       /\ orphan = f.orphan /\ seeds = f.seeds
  /\ bins = [b \in Range(Bins) |-> NoValue]
  /\ op = IdleOp /\ ipc = "idle" /\ prev = Gone /\ nth = 1 /\ held = NoValue
  /\ told = "nothing" /\ ops = 0 /\ hands = 0 /\ instKills = 0
  /\ mine = [s \in Sites |-> {}]
  /\ owned = [s \in Sites |-> UserHooks(settings[s])]
  /\ hadUser = [s \in Sites |-> servers[s] # Gone /\ servers[s].user]

Step(at, next) == ipc = at /\ ipc' = next /\ UNCHANGED <<told, op, counts, users>>
Rest == prev' = Gone /\ nth' = 1 /\ held' = NoValue
Stop(word) == ipc' = "idle" /\ op' = IdleOp /\ told' = word /\ Rest

\* scripts/install.sh puts a release's binaries in place before it runs install;
\* run by hand, install takes them from a staging directory or leaves them.
Placed(o) == IF o.from = "release" THEN [b \in DOMAIN bins |-> o.version] ELSE bins

StartInstall ==
  /\ ipc = "idle" /\ ops < MaxOps
  /\ \E o \in {p \in InstallOps : p.do = "install"} :
       /\ op' = o /\ bins' = Placed(o)
       /\ ipc' = IF o.site.harness = "cowork" THEN "mcp" ELSE "manifest"
  /\ ops' = ops + 1 /\ told' = "nothing"
  /\ UNCHANGED <<tree, patches, manifest, settings, bak, servers, orphan, seeds,
                 prev, nth, held, hands, instKills, users>>

\* Update trusts the version the manifest records.
CmdUpdate ==
  /\ ipc = "idle" /\ ops < MaxOps
  /\ ops' = ops + 1
  /\ \E o \in {p \in InstallOps : p.do = "update"} :
       LET known == manifest["claude"] \notin {Gone, Half}
           newer == known /\ IsNewer(o.version, manifest["claude"].version)
       IN  /\ told' = IF newer THEN "nothing" ELSE IF known THEN "current" ELSE "failed"
           /\ op' = IF newer THEN [o EXCEPT !.do = "install"] ELSE [IdleOp EXCEPT !.version = o.version]
           /\ ipc' = IF newer THEN "manifest" ELSE "idle"
           /\ bins' = IF newer THEN Placed(o) ELSE bins
  /\ UNCHANGED <<tree, patches, manifest, settings, bak, servers, orphan, seeds,
                 prev, nth, held, hands, instKills, users>>

\* A manifest that does not parse ends the install.
LoadManifest ==
  /\ ipc = "manifest"
  /\ IF manifest[op.site.harness] = Half
     THEN Stop("failed")
     ELSE ipc' = "file" /\ nth' = 1 /\ prev' = manifest[op.site.harness] /\ UNCHANGED <<op, told, held>>
  /\ UNCHANGED <<files, counts, users>>

BackUpTemplate ==
  /\ ipc = "file" /\ nth <= Len(Ships[op.version])
  /\ LET s == op.site
         k == Ships[op.version][nth]
         cur == tree[s][k]
         same == cur = Body(k, op.version)
         gate == IF s.harness = "codex" THEN CodexGate(cur, k) ELSE BackupGate(cur, k, op.version)
     IN  /\ patches' = [patches EXCEPT ![s] = @ \cup (IF gate THEN {cur} ELSE {})]
         /\ nth' = IF same THEN nth + 1 ELSE nth
         /\ Step("file", IF same THEN "file" ELSE "open")
  /\ UNCHANGED <<tree, manifest, settings, bak, servers, orphan, seeds, bins, prev, held>>

CopyTemplate ==
  LET s == op.site
      k == Ships[op.version][nth]
  IN  /\ \/ Step("open", "fill") /\ tree' = [tree EXCEPT ![s][k] = Half] /\ nth' = nth
         \/ /\ Step("fill", "file") /\ nth' = nth + 1
            /\ tree' = [tree EXCEPT ![s][k] = Body(k, op.version)]
      /\ UNCHANGED <<patches, manifest, settings, bak, servers, orphan, seeds, bins, prev, held>>

NewManifest == [version |-> op.version, files |-> [k \in Shipped(op.version) |-> Body(k, op.version)]]

SaveManifest ==
  /\ \/ /\ nth > Len(Ships[op.version]) /\ Step("file", "saved")
        /\ manifest' = [manifest EXCEPT ![op.site.harness] = Half]
     \/ /\ Step("saved", IF op.site.harness = "codex" THEN "settings" ELSE "relocate")
        /\ manifest' = [manifest EXCEPT ![op.site.harness] = NewManifest]
  /\ UNCHANGED <<tree, patches, settings, bak, servers, orphan, seeds, bins, prev, nth, held>>

\* Each binary is renamed into place; a failure ends the install half way.
Relocate ==
  /\ ipc = "relocate" /\ UNCHANGED <<tree, patches, manifest, settings, bak, servers, orphan,
                                     seeds, counts, users>>
  /\ IF op.memory /\ op.from = "staging"
     THEN \E n \in 0 .. 2 :
            /\ bins' = [b \in DOMAIN bins |-> IF \E i \in 1 .. n : Bins[i] = b THEN op.version ELSE bins[b]]
            /\ IF n = 2 THEN ipc' = "settings" /\ UNCHANGED <<op, told, prev, nth, held>> ELSE Stop("failed")
     ELSE ipc' = "settings" /\ UNCHANGED <<bins, op, told, prev, nth, held>>

\* load_settings refuses what it cannot parse, so the .bak stays good.
LoadSettings ==
  /\ ipc = "settings"
  /\ LET d == settings[op.site]
     IN  IF d = Half
         THEN Stop("failed")
         ELSE /\ held' = IF d = Gone THEN NoSettings ELSE d
              /\ ipc' = IF op.site.harness = "codex" \/ d = Gone THEN "write" ELSE "backup"
              /\ UNCHANGED <<op, told, prev, nth>>
  /\ UNCHANGED <<files, counts, users>>

BackupSettings ==
  /\ Step("backup", "write") /\ bak' = [bak EXCEPT ![op.site] = settings[op.site]]
  /\ UNCHANGED <<tree, patches, manifest, settings, servers, orphan, seeds, bins, prev, nth, held>>

SaveSettings ==
  LET s == op.site
      new == [hooks |-> MergeHooks(held.hooks, s.harness, op.version),
              line |-> IF s.harness = "codex" THEN held.line ELSE ApplyLine(held.line)]
  IN  /\ \/ Step("write", "writing") /\ settings' = [settings EXCEPT ![s] = Half]
         \/ Step("writing", "mcp") /\ settings' = [settings EXCEPT ![s] = new]
      /\ UNCHANGED <<tree, patches, manifest, bak, servers, orphan, seeds, bins, prev, nth, held>>

\* load_json_object takes a torn file for an empty one; Codex refuses TOML that
\* does not parse, but a file cut to nothing does.
ReadServers ==
  /\ ipc = "mcp"
  /\ LET d == servers[op.site]
         h == op.site.harness
         needs == h # "claude" \/ op.site.mode = "local"
     IN  \/ /\ h = "codex" /\ ~ op.memory
            /\ ipc' = "seed" /\ UNCHANGED <<held, op, told, prev, nth>>
         \/ /\ ~ (h = "codex" /\ ~ op.memory)
            /\ \/ needs /\ bins["hoangsa-memory-mcp"] = NoValue
               \/ h = "codex" /\ d = Half
            /\ Stop("failed")
         \/ /\ ~ (h = "codex" /\ ~ op.memory)
            /\ ~ (needs /\ bins["hoangsa-memory-mcp"] = NoValue)
            /\ held' = IF d \in {Gone, Half} THEN NoServers ELSE d
            /\ ipc' = "register" /\ UNCHANGED <<op, told, prev, nth>>
  /\ UNCHANGED <<files, counts, users>>

\* The entry is ours, its env keeps what the user set.  A global install also
\* removes the stray file of old versions, when nothing else is in it.
Register ==
  LET s == op.site
      claude == s.harness = "claude" /\ s.mode = "global"
  IN  /\ \/ /\ Step("register", "registered") /\ servers' = [servers EXCEPT ![s] = Half]
            /\ UNCHANGED orphan
         \/ /\ Step("registered", IF s.harness = "cowork" THEN "done" ELSE "seed")
            /\ servers' = [servers EXCEPT ![s] = [held EXCEPT !.ours = TRUE]]
            /\ orphan' = IF claude /\ orphan = "ours" THEN Gone ELSE orphan
      /\ UNCHANGED <<tree, patches, manifest, settings, bak, seeds, bins, prev, nth, held>>

\* seed_local_rules writes only where nothing is, torn or not.
Seed ==
  /\ \/ /\ Step("seed", IF op.site.mode = "local" /\ seeds = Gone THEN "seeding" ELSE "done")
        /\ seeds' = IF op.site.mode = "local" /\ seeds = Gone THEN Half ELSE seeds
     \/ Step("seeding", "done") /\ seeds' = "seed"
  /\ UNCHANGED <<tree, patches, manifest, settings, bak, servers, orphan, bins, prev, nth, held>>

\* Guidance that could not be written and analyzers that are missing only warn.
Finish ==
  /\ ipc = "done" /\ ipc' = "idle"
  /\ told' \in {"ok", "partial"} /\ op' = op /\ Rest
  /\ UNCHANGED <<files, counts, users>>
-----------------------------------------------------------------------------
(* Uninstall, of Claude's tree: Codex's is never looked at.                 *)

StartUninstall ==
  /\ ipc = "idle" /\ ops < MaxOps
  /\ \E o \in {p \in InstallOps : p.do = "uninstall"} : op' = o
  /\ ops' = ops + 1 /\ told' = "nothing" /\ ipc' = "untree"
  /\ UNCHANGED <<files, prev, nth, held, hands, instKills, users>>

\* Every tracked file goes, changed or not, then the manifest of both modes.
RemoveTemplates ==
  /\ LET s == op.site
         m == manifest["claude"]
         keys == IF m \in {Gone, Half} THEN {} ELSE DOMAIN m.files
     IN  /\ tree' = [tree EXCEPT ![s] = [k \in TemplateKeys |-> IF k \in keys THEN Gone ELSE @[k]]]
         /\ mine' = [mine EXCEPT ![s] = {x \in @ : x[1] \notin keys}]
         /\ manifest' = [manifest EXCEPT !["claude"] = Gone]
  /\ ipc = "untree" /\ ipc' = "unhook" /\ UNCHANGED <<op, told, counts, owned, hadUser>>
  /\ UNCHANGED <<patches, settings, bak, servers, orphan, seeds, bins, prev, nth, held>>

\* Rewritten through a temporary and a rename.
StripManagedHooks ==
  /\ Step("unhook", "unserve") /\ settings' = [settings EXCEPT ![op.site] = StripHooks(@)]
  /\ UNCHANGED <<tree, patches, manifest, bak, servers, orphan, seeds, bins, prev, nth, held>>

StripMcpEntry ==
  /\ Step("unserve", "unbin")
  /\ servers' = [servers EXCEPT ![op.site] =
                   IF @ \in {Gone, Half} THEN @ ELSE [@ EXCEPT !.ours = FALSE, !.env = FALSE]]
  /\ UNCHANGED <<tree, patches, manifest, settings, bak, orphan, seeds, bins, prev, nth, held>>

\* The binaries go in either mode; --purge takes the whole install directory.
RemoveBins ==
  /\ ipc = "unbin" /\ ipc' = "idle" /\ told' = "removed" /\ op' = op
  /\ bins' = [b \in DOMAIN bins |-> NoValue]
  /\ manifest' = IF ~ op.memory THEN [h \in Harnesses |-> Gone] ELSE manifest
  /\ UNCHANGED <<tree, patches, settings, bak, servers, orphan, seeds, prev, nth, held, counts, users>>
-----------------------------------------------------------------------------
\* The process dies; the command ends where it is.
Kill ==
  /\ ipc # "idle" /\ instKills < MaxInstallKills /\ instKills' = instKills + 1
  /\ Stop("killed")
  /\ UNCHANGED <<files, ops, hands, users>>

\* The user writes over a template, or a file where one will be installed.
HandEdit ==
  /\ ipc = "idle" /\ hands < MaxHands /\ hands' = hands + 1 /\ told' = "nothing"
  /\ \E s \in {t \in Sites : t.harness # "cowork"}, k \in TemplateKeys, h \in Hands :
       /\ tree[s][k] # <<k, h>>
       /\ tree' = [tree EXCEPT ![s][k] = <<k, h>>]
       /\ mine' = [mine EXCEPT ![s] = (@ \ {tree[s][k]}) \cup {<<k, h>>}]
  /\ UNCHANGED <<patches, manifest, settings, bak, servers, orphan, seeds, bins, op, ipc, prev,
                 nth, held, ops, instKills, owned, hadUser>>

\* Another HOANGSA_INSTALL_DIR, or one removed by hand: no manifest is found.
LoseManifest ==
  /\ ipc = "idle" /\ hands < MaxHands /\ hands' = hands + 1 /\ told' = "nothing"
  /\ \E h \in Harnesses : manifest[h] # Gone /\ manifest' = [manifest EXCEPT ![h] = Gone]
  /\ UNCHANGED <<tree, patches, settings, bak, servers, orphan, seeds, bins, op, ipc, prev,
                 nth, held, ops, instKills, users>>

\* The user puts the .bak back in place of a torn settings file.
RestoreSettings ==
  /\ ipc = "idle" /\ hands < MaxHands /\ hands' = hands + 1 /\ told' = "nothing"
  /\ \E s \in Sites : settings[s] = Half /\ settings' = [settings EXCEPT ![s] = bak[s]]
  /\ UNCHANGED <<tree, patches, manifest, bak, servers, orphan, seeds, bins, op, ipc, prev,
                 nth, held, ops, instKills, users>>

InstNext ==
  \/ StartInstall \/ CmdUpdate \/ LoadManifest \/ BackUpTemplate \/ CopyTemplate
  \/ SaveManifest \/ Relocate \/ LoadSettings \/ BackupSettings \/ SaveSettings
  \/ ReadServers \/ Register \/ Seed \/ Finish
  \/ StartUninstall \/ RemoveTemplates \/ StripManagedHooks \/ StripMcpEntry \/ RemoveBins
  \/ Kill \/ HandEdit \/ LoseManifest \/ RestoreSettings

InstSpec == InstInit /\ [][InstNext]_instVars
-----------------------------------------------------------------------------
(* What the user wrote is not lost: a template changed by hand is in       *)
(* Claude's tree or among the backups whatever versions were installed,    *)
(* manifests lost and installs killed (templates.rs, copy_templates);      *)
(* hooks of the user are in the settings or in the .bak (hooks.rs); and    *)
(* where no process was killed so are Codex's hooks and the other servers. *)
EditsSurvive ==
  \A s \in Sites :
    /\ s.harness = "claude" => mine[s] \subseteq Range(tree[s]) \cup patches[s]
    /\ s.harness = "claude" =>
         owned[s] \subseteq UserHooks(settings[s]) \cup UserHooks(bak[s])
    /\ instKills = 0 /\ settings[s] # Half =>
         owned[s] \subseteq UserHooks(settings[s])
    /\ instKills = 0 /\ hadUser[s] /\ servers[s] # Half => servers[s] # Gone /\ servers[s].user

(* What a command reports is so.  An install that ended well left every    *)
(* template of its version, a manifest that says exactly that, its hooks   *)
(* and no older one at the events it hooks, and its server registered; an  *)
(* uninstall left no managed hook and no server at its site and no binary; *)
(* an update that called the install current had no newer release.         *)
ReportedTrue ==
  LET s == op.site
      h == s.harness
      v == op.version
  IN  /\ told \in {"ok", "partial"} /\ h # "cowork" =>
           /\ \A k \in Shipped(v) : tree[s][k] = Body(k, v)
           /\ manifest[h] = NewManifest
           /\ {e \in settings[s].hooks : IsHoangsaEntry(e) /\ e.event \in Hooked[h][v]} = Managed(h, v)
           /\ (h = "codex" /\ ~ op.memory) \/ servers[s].ours
           /\ h = "claude" /\ op.memory /\ op.from # "plain" => bins["hoangsa-memory-mcp"] = v
      /\ told = "removed" =>
           /\ settings[s] \notin {Gone, Half} => \A e \in settings[s].hooks : e.kind # "managed"
           /\ servers[s] \notin {Gone, Half} => ~ servers[s].ours
           /\ \A b \in DOMAIN bins : bins[b] = NoValue
      /\ told = "current" => ~ IsNewer(v, manifest["claude"].version)

(* No settings file keeps hooks that call a binary uninstall deleted: what *)
(* uninstall.rs says of the shell version it replaces.                     *)
\* The code does not keep it: README, disagreements.
NoDanglingHooks ==
  told = "removed" => \A s \in Sites : settings[s] \in {Gone, Half} \/
                                         \A e \in settings[s].hooks : e.kind # "managed"

(* A change made by hand to Codex's copy of a template is backed up by the *)
(* "same modified-file gate as the Claude flow" (codex.rs).                *)
\* The code does not keep it: README, disagreements.
CodexEditsSurvive ==
  \A s \in Sites : s.harness = "codex" => mine[s] \subseteq Range(tree[s]) \cup patches[s]
=============================================================================
