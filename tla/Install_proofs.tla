--------------------------- MODULE Install_proofs ---------------------------
(***************************************************************************)
(* Proofs about install, update and uninstall, and about the files and     *)
(* markers around them.                                                    *)
(*                                                                         *)
(*   TypesHold     what each file may hold and what the command at work    *)
(*                 has in hand at each of its steps.                       *)
(*   EditsKept     EditsSurvive, whatever is installed over what, wherever *)
(*                 a command fails or is killed.                           *)
(*   ReportsTrue   ReportedTrue, for every command.                        *)
(*   MarkersKept   MarkersHonest: what becomes of the documents that carry *)
(*                 a pointer block, of the rc files, and of the sentinel.  *)
(***************************************************************************)
EXTENDS MCInstall, FiniteSetTheorems, TLAPS

-----------------------------------------------------------------------------
(* Types                                                                   *)

Contents == {Gone, Half} \cup (TemplateKeys \X (Hands \cup Versions))
ManifestOf(v) == [version |-> v, files |-> [k \in Shipped(v) |-> Body(k, v)]]
Manifests == {Gone} \cup {ManifestOf(v) : v \in Versions}

Copying == {"file", "open", "fill"}
Setting == {"settings", "backup", "write", "writing"}
Serving == {"mcp", "register", "registered"}
Removing == {"untree", "unhook", "unserve", "unbin"}
Positions == {"idle", "manifest", "saved", "relocate", "seed", "seeding", "done"}
             \cup Copying \cup Setting \cup Serving \cup Removing

(* What is on disk, and the ghosts. *)
FilesTyped ==
  /\ tree \in [Sites -> [TemplateKeys -> Contents]]
  /\ DOMAIN patches = Sites
  /\ manifest \in [Harnesses -> Manifests \cup {Half}]
  /\ settings \in [Sites -> {Gone, Half} \cup SettingsDoc]
  /\ bak \in [Sites -> {Gone, Half} \cup SettingsDoc]
  /\ servers \in [Sites -> {Gone, Half} \cup ServersDoc]
  /\ DOMAIN bins = Range(Bins)
  /\ instKills \in Nat
  /\ mine \in [Sites -> SUBSET (TemplateKeys \X Hands)]

(* What the command at work has in hand. *)
CommandTyped ==
  /\ ipc \in Positions
  /\ ipc # "idle" => op \in InstallOp
  /\ ipc \in Removing => op.site.harness = "claude"
  /\ ipc \in {"manifest", "saved", "relocate"} \cup Copying \cup Setting => op.site.harness # "cowork"
  /\ ipc \in Copying => prev \in Manifests /\ nth \in 1 .. Len(Ships[op.version]) + 1
  /\ ipc \in {"open", "fill"} => nth \in 1 .. Len(Ships[op.version])
  /\ ipc \in {"backup", "write", "writing"} => held \in SettingsDoc
  /\ ipc = "backup" => settings[op.site] = held
  /\ ipc \in {"register", "registered"} => held \in ServersDoc

InstTypes == FilesTyped /\ CommandTyped

(* A site has a harness, and a release ships templates, each of them once. *)
LEMMA Constants ==
  /\ \A s \in Sites : s.harness \in Harnesses /\ s.harness \in {"claude", "codex", "cowork"}
  /\ \A v \in Versions : \A i \in 1 .. Len(Ships[v]) : /\ Ships[v][i] \in TemplateKeys
                                                       /\ Ships[v][i] \in Shipped(v)
  /\ \A v \in Versions : Len(Ships[v]) \in Nat
  /\ \A v \in Versions : \A k \in Shipped(v) : \E i \in 1 .. Len(Ships[v]) : k = Ships[v][i]
  /\ "hoangsa-memory-mcp" \in Range(Bins)
<1>1. \A s \in Sites : s.harness \in Harnesses /\ s.harness \in {"claude", "codex", "cowork"}
  BY InstallAssumption DEF Harnesses
<1>2. \A v \in Versions : Ships[v] \in Seq(TemplateKeys)
  BY InstallAssumption
<1>3. \A v \in Versions : DOMAIN Ships[v] = 1 .. Len(Ships[v]) /\ Len(Ships[v]) \in Nat
                          /\ \A i \in 1 .. Len(Ships[v]) : Ships[v][i] \in TemplateKeys
  BY <1>2
<1>4. \A v \in Versions : Shipped(v) = {Ships[v][i] : i \in 1 .. Len(Ships[v])}
  BY <1>3 DEF Shipped, Range
<1>5. "hoangsa-memory-mcp" \in Range(Bins)
  <2>1. DOMAIN Bins = 1 .. 4 /\ Bins[2] = "hoangsa-memory-mcp"
    BY DEF Bins
  <2>2. 2 \in DOMAIN Bins
    BY <2>1
  <2> QED BY <2>1, <2>2 DEF Range
<1> QED BY <1>1, <1>3, <1>4, <1>5

(* A manifest lists the templates of its version, each with its body.      *)
LEMMA ManifestFacts ==
  \A v \in Versions : /\ DOMAIN ManifestOf(v).files = Shipped(v)
                      /\ \A k \in Shipped(v) : ManifestOf(v).files[k] = <<k, v>>
BY DEF ManifestOf, Body

(* The files as they are found have these types.                           *)
LEMMA TypesInit == InstInit => InstTypes
<1> SUFFICES ASSUME InstInit PROVE InstTypes
  OBVIOUS
<1>1. PICK f \in FirstFiles : /\ settings = [s \in Sites |-> f.settings]
                              /\ servers = [s \in Sites |-> f.servers]
  BY DEF InstInit
<1>2. f.settings \in {Gone} \cup SettingsDoc /\ f.servers \in {Gone} \cup ServersDoc
  BY InstallAssumption
<1>3. FilesTyped
  BY <1>1, <1>2 DEF InstInit, FilesTyped, Contents, Manifests
<1>4. CommandTyped
  BY DEF InstInit, CommandTyped, Positions, Removing, Copying, Setting
<1> QED BY <1>3, <1>4 DEF InstTypes

(* A command that ends, well or not, leaves the types of the files to its step. *)
LEMMA EndTyped ==
  ASSUME ipc' = "idle"
  PROVE  CommandTyped'
BY DEF CommandTyped, Positions, Removing, Copying, Setting, Serving

(* The commands begin. *)
LEMMA StartTyped ==
  ASSUME InstTypes, StartInstall \/ CmdUpdate \/ StartUninstall
  PROVE  InstTypes'
<1> USE DEF files, counts, users
<1>1. CASE StartInstall
  <2>1. PICK o \in InstallOps : o.do = "install" /\ op' = o /\ bins' = Placed(o)
                                /\ ipc' = IF o.site.harness = "cowork" THEN "mcp" ELSE "manifest"
    BY <1>1 DEF StartInstall
  <2>2. op' \in InstallOp
    BY <2>1, InstallAssumption
  <2>3. DOMAIN bins' = Range(Bins)
    BY <2>1 DEF Placed, InstTypes, FilesTyped
  <2>4. FilesTyped'
    BY <1>1, <2>3 DEF StartInstall, InstTypes, FilesTyped
  <2>5. CASE o.site.harness = "cowork"
    BY <2>1, <2>2, <2>4, <2>5 DEF InstTypes, CommandTyped, Positions, Removing, Copying, Setting, Serving
  <2>6. CASE o.site.harness # "cowork"
    BY <2>1, <2>2, <2>4, <2>6 DEF InstTypes, CommandTyped, Positions, Removing, Copying, Setting, Serving
  <2> QED BY <2>5, <2>6
<1>2. CASE CmdUpdate
  <2>1. PICK o \in InstallOps :
          /\ o.do = "update"
          /\ \/ op' = [o EXCEPT !.do = "install"] /\ ipc' = "manifest" /\ bins' = Placed(o)
             \/ ipc' = "idle" /\ bins' = bins
    BY <1>2 DEF CmdUpdate
  <2>2. DOMAIN bins' = Range(Bins)
    BY <2>1 DEF Placed, InstTypes, FilesTyped
  <2>3. FilesTyped'
    BY <1>2, <2>2 DEF CmdUpdate, InstTypes, FilesTyped
  <2>4. CASE op' = [o EXCEPT !.do = "install"] /\ ipc' = "manifest"
    <3>1. op' \in InstallOp /\ op'.site.harness = "claude"
      BY <2>1, <2>4, InstallAssumption DEF InstallOp
    <3> QED BY <2>3, <2>4, <3>1 DEF InstTypes, CommandTyped, Positions, Removing, Copying, Setting, Serving
  <2>5. CASE ipc' = "idle"
    BY <2>3, <2>5, EndTyped DEF InstTypes
  <2> QED BY <2>1, <2>4, <2>5
<1>3. CASE StartUninstall
  <2>1. op' \in InstallOp /\ op'.site.harness = "claude"
    BY <1>3, InstallAssumption DEF StartUninstall
  <2>2. FilesTyped'
    BY <1>3 DEF StartUninstall, InstTypes, FilesTyped
  <2> QED BY <1>3, <2>1, <2>2
          DEF StartUninstall, InstTypes, CommandTyped, Positions, Removing, Copying, Setting, Serving
<1> QED BY <1>1, <1>2, <1>3

(* Manifest and templates. *)
LEMMA CopyTyped ==
  ASSUME InstTypes, LoadManifest \/ BackUpTemplate \/ CopyTemplate \/ SaveManifest \/ Relocate
  PROVE  InstTypes'
<1> USE DEF files, counts, users
<1>0. ipc # "idle" /\ op \in InstallOp /\ op.site \in Sites /\ op.version \in Versions
  BY DEF InstTypes, CommandTyped, LoadManifest, BackUpTemplate, CopyTemplate, SaveManifest, Relocate, Step,
         InstallOp
<1>1. CASE LoadManifest
  <2>1. FilesTyped'
    BY <1>1 DEF LoadManifest, InstTypes, FilesTyped
  <2>2. CASE ipc' = "idle"
    BY <2>1, <2>2, EndTyped DEF InstTypes
  <2>3. CASE ipc' # "idle"
    <3>1. /\ ipc' = "file" /\ nth' = 1 /\ prev' = manifest[op.site.harness] /\ op' = op
          /\ manifest[op.site.harness] # Half
      BY <1>1, <2>3 DEF LoadManifest, Stop
    <3>2. manifest[op.site.harness] \in Manifests
      BY <1>0, <3>1, Constants DEF InstTypes, FilesTyped
    <3>3. 1 \in 1 .. Len(Ships[op.version]) + 1
      BY <1>0, Constants
    <3>4. op.site.harness # "cowork"
      BY <1>1 DEF LoadManifest, InstTypes, CommandTyped
    <3> QED BY <1>0, <2>1, <3>1, <3>2, <3>3, <3>4
            DEF InstTypes, CommandTyped, Positions, Removing, Copying, Setting, Serving
  <2> QED BY <2>2, <2>3
<1>2. CASE BackUpTemplate
  <2>1. FilesTyped'
    BY <1>2 DEF BackUpTemplate, Step, InstTypes, FilesTyped
  <2>2. nth \in 1 .. Len(Ships[op.version])
    <3>1. ipc \in Copying /\ nth <= Len(Ships[op.version])
      BY <1>2 DEF BackUpTemplate, Copying
    <3>2. nth \in 1 .. Len(Ships[op.version]) + 1
      BY <3>1 DEF InstTypes, CommandTyped
    <3>3. Len(Ships[op.version]) \in Nat
      BY <1>0, Constants
    <3> QED BY <3>1, <3>2, <3>3
  <2>3. /\ (ipc' = "file" /\ nth' = nth + 1) \/ (ipc' = "open" /\ nth' = nth)
        /\ op' = op /\ prev' = prev /\ ipc = "file"
    <3>1. PICK same \in BOOLEAN : /\ nth' = IF same THEN nth + 1 ELSE nth
                                  /\ Step("file", IF same THEN "file" ELSE "open")
      BY <1>2, Zenon DEF BackUpTemplate
    <3>2. op' = op /\ prev' = prev /\ ipc = "file"
      BY <1>2 DEF BackUpTemplate, Step
    <3>3. CASE same
      BY <3>1, <3>2, <3>3 DEF Step
    <3>4. CASE ~ same
      BY <3>1, <3>2, <3>4 DEF Step
    <3> QED BY <3>3, <3>4
  <2>4. nth' \in 1 .. Len(Ships[op.version]) + 1
    BY <1>0, <2>2, <2>3, Constants
  <2> QED BY <1>0, <2>1, <2>2, <2>3, <2>4
          DEF InstTypes, CommandTyped, Positions, Removing, Copying, Setting, Serving
<1>3. CASE CopyTemplate
  <2>1. nth \in 1 .. Len(Ships[op.version]) /\ prev \in Manifests /\ op.site.harness # "cowork"
    BY <1>3 DEF CopyTemplate, Step, InstTypes, CommandTyped, Copying
  <2>2. Ships[op.version][nth] \in TemplateKeys
    BY <1>0, <2>1, Constants
  <2>3. Half \in Contents /\ Body(Ships[op.version][nth], op.version) \in Contents
    BY <1>0, <2>2 DEF Contents, Body
  <2>9. PICK c \in Contents : tree' = [tree EXCEPT ![op.site][Ships[op.version][nth]] = c]
    BY <1>3, <2>3 DEF CopyTemplate
  <2>7. tree' \in [Sites -> [TemplateKeys -> Contents]]
    BY <1>0, <2>2, <2>9 DEF InstTypes, FilesTyped
  <2>4. FilesTyped'
    BY <1>3, <2>7 DEF CopyTemplate, Step, InstTypes, FilesTyped
  <2>5. nth' \in 1 .. Len(Ships[op.version]) + 1 /\ (ipc' = "fill" => nth' = nth)
    BY <1>0, <1>3, <2>1, Constants DEF CopyTemplate, Step
  <2>6. ipc' \in {"fill", "file"} /\ op' = op /\ prev' = prev
    BY <1>3 DEF CopyTemplate, Step
  <2> QED BY <1>0, <2>1, <2>4, <2>5, <2>6
          DEF InstTypes, CommandTyped, Positions, Removing, Copying, Setting, Serving
<1>4. CASE SaveManifest
  <2>1. NewManifest \in Manifests
    BY <1>0 DEF NewManifest, Manifests, ManifestOf
  <2>2. FilesTyped'
    BY <1>0, <1>4, <2>1 DEF SaveManifest, Step, InstTypes, FilesTyped
  <2>3. ipc' \in {"saved", "settings", "relocate"} /\ op' = op /\ op.site.harness # "cowork"
    BY <1>4 DEF SaveManifest, Step, InstTypes, CommandTyped, Copying
  <2> QED BY <1>0, <2>2, <2>3 DEF InstTypes, CommandTyped, Positions, Removing, Copying, Setting, Serving
<1>5. CASE Relocate
  <2>1. FilesTyped'
    BY <1>5 DEF Relocate, InstTypes, FilesTyped
  <2>2. ipc' = "idle" \/ (ipc' = "settings" /\ op' = op)
    BY <1>5 DEF Relocate, Stop
  <2>3. op.site.harness # "cowork"
    BY <1>5 DEF Relocate, InstTypes, CommandTyped
  <2> QED BY <1>0, <2>1, <2>2, <2>3, EndTyped
          DEF InstTypes, CommandTyped, Positions, Removing, Copying, Setting, Serving
<1> QED BY <1>1, <1>2, <1>3, <1>4, <1>5

(* What SaveSettings writes. *)
NewSettings == [hooks |-> MergeHooks(held.hooks, op.site.harness, op.version),
                line |-> IF op.site.harness = "codex" THEN held.line ELSE ApplyLine(held.line)]

(* It is a settings document.                                              *)
LEMMA NewSettingsTyped ==
  ASSUME op \in InstallOp, op.site.harness # "cowork", held \in SettingsDoc
  PROVE  NewSettings \in SettingsDoc
<1>1. op.site \in Sites /\ op.version \in Versions /\ op.site.harness \in {"claude", "codex"}
  BY Constants DEF InstallOp
<1>2. Managed(op.site.harness, op.version) \subseteq Entry
  BY <1>1, InstallAssumption DEF Managed, Entry
<1>3. held.hooks \subseteq Entry /\ held.line \in {"none", "ours", "user"}
  BY DEF SettingsDoc
<1>4. MergeHooks(held.hooks, op.site.harness, op.version) \subseteq Entry
  BY <1>2, <1>3 DEF MergeHooks
<1>5. PICK l \in {"none", "ours", "user"} :
        l = IF op.site.harness = "codex" THEN held.line ELSE ApplyLine(held.line)
  BY <1>3 DEF ApplyLine
<1> QED BY <1>4, <1>5 DEF NewSettings, SettingsDoc

(* Settings, servers and the seeds. *)
LEMMA SetTyped ==
  ASSUME InstTypes,
         LoadSettings \/ BackupSettings \/ SaveSettings \/ ReadServers \/ Register \/ Seed \/ Finish
  PROVE  InstTypes'
<1> USE DEF files, counts, users
<1>0. ipc # "idle" /\ op \in InstallOp /\ op.site \in Sites /\ op.version \in Versions
  BY DEF InstTypes, CommandTyped, LoadSettings, BackupSettings, SaveSettings, ReadServers, Register, Seed,
         Finish, Step, InstallOp
<1>1. CASE LoadSettings
  <2>1. FilesTyped'
    BY <1>1 DEF LoadSettings, InstTypes, FilesTyped
  <2>2. CASE ipc' = "idle"
    BY <2>1, <2>2, EndTyped DEF InstTypes
  <2>3. CASE ipc' # "idle"
    <3>1. /\ op' = op /\ op.site.harness # "cowork" /\ settings' = settings
          /\ held' = IF settings[op.site] = Gone THEN NoSettings ELSE settings[op.site]
          /\ settings[op.site] # Half /\ ipc' \in {"write", "backup"}
          /\ ipc' = "backup" => settings[op.site] # Gone
      BY <1>1, <2>3 DEF LoadSettings, Stop, InstTypes, CommandTyped, Setting
    <3>2. settings[op.site] \in {Gone, Half} \cup SettingsDoc
      BY <1>0 DEF InstTypes, FilesTyped
    <3>3. NoSettings \in SettingsDoc
      BY DEF NoSettings, SettingsDoc
    <3>4. held' \in SettingsDoc /\ (ipc' = "backup" => settings'[op.site] = held')
      BY <3>1, <3>2, <3>3
    <3> QED BY <1>0, <2>1, <3>1, <3>4
            DEF InstTypes, CommandTyped, Positions, Removing, Copying, Setting, Serving
  <2> QED BY <2>2, <2>3
<1>2. CASE BackupSettings
  <2>1. FilesTyped'
    BY <1>0, <1>2 DEF BackupSettings, Step, InstTypes, FilesTyped
  <2> QED BY <1>0, <1>2, <2>1 DEF BackupSettings, Step, InstTypes, CommandTyped, Positions, Removing,
                                  Copying, Setting, Serving
<1>3. CASE SaveSettings
  <2>1. op.site.harness # "cowork" /\ held \in SettingsDoc /\ op' = op /\ held' = held
        /\ ipc' \in {"writing", "mcp"}
    BY <1>3 DEF SaveSettings, Step, InstTypes, CommandTyped, Setting
  <2>2. NewSettings \in SettingsDoc
    BY <1>0, <2>1, NewSettingsTyped
  <2>3. settings' = [settings EXCEPT ![op.site] = Half] \/ settings' = [settings EXCEPT ![op.site] = NewSettings]
    BY <1>3 DEF SaveSettings, NewSettings
  <2>4. FilesTyped'
    BY <1>0, <1>3, <2>2, <2>3 DEF SaveSettings, Step, InstTypes, FilesTyped
  <2> QED BY <1>0, <2>1, <2>4 DEF InstTypes, CommandTyped, Positions, Removing, Copying, Setting, Serving
<1>4. CASE ReadServers
  <2>1. FilesTyped'
    BY <1>4 DEF ReadServers, InstTypes, FilesTyped
  <2>2. CASE ipc' = "idle"
    BY <2>1, <2>2, EndTyped DEF InstTypes
  <2>3. CASE ipc' = "seed" /\ op' = op
    BY <1>0, <2>1, <2>3 DEF InstTypes, CommandTyped, Positions, Removing, Copying, Setting, Serving
  <2>4. CASE /\ ipc' = "register" /\ op' = op
             /\ held' = IF servers[op.site] \in {Gone, Half} THEN NoServers ELSE servers[op.site]
    <3>1. NoServers \in ServersDoc
      BY DEF NoServers, ServersDoc
    <3>2. held' \in ServersDoc
      BY <1>0, <2>4, <3>1 DEF InstTypes, FilesTyped
    <3> QED BY <1>0, <2>1, <2>4, <3>2
            DEF InstTypes, CommandTyped, Positions, Removing, Copying, Setting, Serving
  <2> QED BY <1>4, <2>2, <2>3, <2>4 DEF ReadServers, Stop
<1>5. CASE Register
  <2>1. held \in ServersDoc
    BY <1>5 DEF Register, Step, InstTypes, CommandTyped
  <2>2. [held EXCEPT !.ours = TRUE] \in ServersDoc
    BY <2>1 DEF ServersDoc
  <2>3. servers' = [servers EXCEPT ![op.site] = Half]
        \/ servers' = [servers EXCEPT ![op.site] = [held EXCEPT !.ours = TRUE]]
    BY <1>5 DEF Register
  <2>4. FilesTyped'
    BY <1>0, <1>5, <2>2, <2>3 DEF Register, Step, InstTypes, FilesTyped
  <2>5. ipc' \in {"registered", "done", "seed"} /\ op' = op /\ held' = held
    BY <1>5 DEF Register, Step
  <2> QED BY <1>0, <2>1, <2>4, <2>5 DEF InstTypes, CommandTyped, Positions, Removing, Copying, Setting, Serving
<1>6. CASE Seed
  <2>1. FilesTyped'
    BY <1>6 DEF Seed, Step, InstTypes, FilesTyped
  <2>2. ipc' \in {"seeding", "done"} /\ op' = op
    BY <1>6 DEF Seed, Step
  <2> QED BY <1>0, <2>1, <2>2 DEF InstTypes, CommandTyped, Positions, Removing, Copying, Setting, Serving
<1>7. CASE Finish
  BY <1>7, EndTyped DEF Finish, InstTypes, FilesTyped
<1> QED BY <1>1, <1>2, <1>3, <1>4, <1>5, <1>6, <1>7

(* The uninstall. *)
LEMMA RemoveTyped ==
  ASSUME InstTypes, RemoveTemplates \/ StripManagedHooks \/ StripMcpEntry \/ RemoveBins
  PROVE  InstTypes'
<1> USE DEF files, counts, users
<1>0. /\ ipc # "idle" /\ op \in InstallOp /\ op.site \in Sites /\ op.version \in Versions
      /\ op.site.harness = "claude" /\ "claude" \in Harnesses
  <2>1. ipc # "idle" /\ op \in InstallOp /\ op.site \in Sites /\ op.version \in Versions /\ op.site.harness = "claude"
    BY DEF InstTypes, CommandTyped, RemoveTemplates, StripManagedHooks, StripMcpEntry, RemoveBins, Step,
           InstallOp, Removing
  <2> QED BY <2>1, Constants
<1>1. CASE RemoveTemplates
  <2>1. PICK keys : /\ tree' = [tree EXCEPT ![op.site] = [k \in TemplateKeys |-> IF k \in keys THEN Gone ELSE @[k]]]
                    /\ mine' = [mine EXCEPT ![op.site] = {x \in @ : x[1] \notin keys}]
    BY <1>1 DEF RemoveTemplates
  <2>2. [k \in TemplateKeys |-> IF k \in keys THEN Gone ELSE tree[op.site][k]] \in [TemplateKeys -> Contents]
    BY <1>0 DEF InstTypes, FilesTyped, Contents
  <2>3. tree' \in [Sites -> [TemplateKeys -> Contents]]
    BY <1>0, <2>1, <2>2 DEF InstTypes, FilesTyped
  <2>4. mine' \in [Sites -> SUBSET (TemplateKeys \X Hands)]
    BY <1>0, <2>1 DEF InstTypes, FilesTyped
  <2>5. manifest' \in [Harnesses -> Manifests \cup {Half}]
    BY <1>0, <1>1 DEF RemoveTemplates, InstTypes, FilesTyped, Manifests
  <2>6. FilesTyped'
    BY <1>1, <2>3, <2>4, <2>5 DEF RemoveTemplates, InstTypes, FilesTyped
  <2>7. ipc' = "unhook" /\ op' = op
    BY <1>1 DEF RemoveTemplates
  <2> QED BY <1>0, <2>6, <2>7 DEF InstTypes, CommandTyped, Positions, Removing, Copying, Setting, Serving
<1>2. CASE StripManagedHooks
  <2>1. PICK d \in {Gone, Half} \cup SettingsDoc : d = settings[op.site]
    BY <1>0 DEF InstTypes, FilesTyped
  <2>2. StripHooks(d) \in {Gone, Half} \cup SettingsDoc
    BY <2>1 DEF StripHooks, SettingsDoc
  <2>3. settings' = [settings EXCEPT ![op.site] = StripHooks(d)]
    BY <1>2, <2>1 DEF StripManagedHooks
  <2>4. settings' \in [Sites -> {Gone, Half} \cup SettingsDoc]
    BY <1>0, <2>2, <2>3 DEF InstTypes, FilesTyped
  <2>5. FilesTyped'
    BY <1>2, <2>4 DEF StripManagedHooks, Step, InstTypes, FilesTyped
  <2>6. ipc' = "unserve" /\ op' = op
    BY <1>2 DEF StripManagedHooks, Step
  <2> QED BY <1>0, <2>5, <2>6 DEF InstTypes, CommandTyped, Positions, Removing, Copying, Setting, Serving
<1>3. CASE StripMcpEntry
  <2>1. PICK d \in {Gone, Half} \cup ServersDoc : d = servers[op.site]
    BY <1>0 DEF InstTypes, FilesTyped
  <2>2. d \in ServersDoc => [d EXCEPT !.ours = FALSE, !.env = FALSE] \in ServersDoc
    BY DEF ServersDoc
  <2>3. servers' = [servers EXCEPT ![op.site] =
                      IF d \in {Gone, Half} THEN d ELSE [d EXCEPT !.ours = FALSE, !.env = FALSE]]
    BY <1>3, <2>1 DEF StripMcpEntry
  <2>4. servers' \in [Sites -> {Gone, Half} \cup ServersDoc]
    BY <1>0, <2>1, <2>2, <2>3 DEF InstTypes, FilesTyped
  <2>5. FilesTyped'
    BY <1>3, <2>4 DEF StripMcpEntry, Step, InstTypes, FilesTyped
  <2>6. ipc' = "unbin" /\ op' = op
    BY <1>3 DEF StripMcpEntry, Step
  <2> QED BY <1>0, <2>5, <2>6 DEF InstTypes, CommandTyped, Positions, Removing, Copying, Setting, Serving
<1>4. CASE RemoveBins
  <2>1. manifest' \in [Harnesses -> Manifests \cup {Half}]
    BY <1>4 DEF RemoveBins, InstTypes, FilesTyped, Manifests
  <2>2. FilesTyped'
    BY <1>4, <2>1 DEF RemoveBins, InstTypes, FilesTyped
  <2> QED BY <1>4, <2>2, EndTyped DEF RemoveBins, InstTypes
<1> QED BY <1>1, <1>2, <1>3, <1>4

(* A kill, and the user. *)
LEMMA UserTyped ==
  ASSUME InstTypes, Kill \/ HandEdit \/ LoseManifest \/ RestoreSettings
  PROVE  InstTypes'
<1> USE DEF files, counts, users
<1>0. ipc' = "idle"
  BY DEF Kill, HandEdit, LoseManifest, RestoreSettings, Stop
<1>1. CASE Kill
  BY <1>0, <1>1, EndTyped DEF Kill, InstTypes, FilesTyped
<1>2. CASE HandEdit
  <2>1. PICK s \in Sites, k \in TemplateKeys, h \in Hands :
          /\ tree' = [tree EXCEPT ![s][k] = <<k, h>>]
          /\ mine' = [mine EXCEPT ![s] = (@ \ {tree[s][k]}) \cup {<<k, h>>}]
    BY <1>2 DEF HandEdit
  <2>2. <<k, h>> \in Contents /\ <<k, h>> \in TemplateKeys \X Hands
    BY DEF Contents
  <2>3. tree' \in [Sites -> [TemplateKeys -> Contents]]
    BY <2>1, <2>2 DEF InstTypes, FilesTyped
  <2>4. mine' \in [Sites -> SUBSET (TemplateKeys \X Hands)]
    BY <2>1, <2>2 DEF InstTypes, FilesTyped
  <2>5. FilesTyped'
    BY <1>2, <2>3, <2>4 DEF HandEdit, InstTypes, FilesTyped
  <2> QED BY <1>0, <2>5, EndTyped DEF InstTypes
<1>3. CASE LoseManifest
  BY <1>0, <1>3, EndTyped DEF LoseManifest, InstTypes, FilesTyped, Manifests
<1>4. CASE RestoreSettings
  <2>1. settings' \in [Sites -> {Gone, Half} \cup SettingsDoc]
    BY <1>4 DEF RestoreSettings, InstTypes, FilesTyped
  <2>2. FilesTyped'
    BY <1>4, <2>1 DEF RestoreSettings, InstTypes, FilesTyped
  <2> QED BY <1>0, <2>2, EndTyped DEF InstTypes
<1> QED BY <1>1, <1>2, <1>3, <1>4

(* Every step keeps the types. *)
LEMMA TypesStep ==
  ASSUME InstTypes, InstNext
  PROVE  InstTypes'
BY StartTyped, CopyTyped, SetTyped, RemoveTyped, UserTyped DEF InstNext

(* For every set of sites, releases and templates each file holds what its  *)
(* readers expect, torn or whole, and the command at work has in hand what  *)
(* its next step takes for granted.                                         *)
THEOREM TypesHold == InstSpec => []InstTypes
<1>1. InstTypes /\ [InstNext]_instVars => InstTypes'
  <2> SUFFICES ASSUME InstTypes, [InstNext]_instVars PROVE InstTypes'
    OBVIOUS
  <2>1. CASE InstNext
    BY <2>1, TypesStep
  <2>2. CASE UNCHANGED instVars
    BY <2>2 DEF instVars, InstTypes, FilesTyped, CommandTyped
  <2> QED BY <2>1, <2>2
<1> QED BY <1>1, TypesInit, PTL DEF InstSpec

-----------------------------------------------------------------------------
(* What the user wrote is kept                                            *)

(* The template being replaced. *)
AtHand(s, k) == ipc \in {"open", "fill"} /\ op.site = s /\ Ships[op.version][nth] = k

(* A change of the user is backed up, or still in place and not at hand. *)
TreeKept ==
  \A s \in Sites : s.harness = "claude" =>
    \A x \in mine[s] : x \in patches[s] \/ (tree[s][x[1]] = x /\ ~ AtHand(s, x[1]))

(* The hooks of the user are in the settings, in the .bak while those are  *)
(* torn, and in what a command is about to write.                          *)
HooksKept ==
  /\ \A s \in Sites :
       /\ (s.harness = "claude" \/ instKills = 0) /\ settings[s] # Half => owned[s] \subseteq UserHooks(settings[s])
       /\ s.harness = "claude" /\ settings[s] = Half => owned[s] \subseteq UserHooks(bak[s])
       /\ settings[s] = Half /\ instKills = 0 => ipc = "writing" /\ op.site = s
  /\ ipc \in {"write", "writing"} =>
       /\ op.site.harness = "claude" \/ instKills = 0 => owned[op.site] \subseteq UserHooks(held)
       /\ op.site.harness = "claude" => owned[op.site] \subseteq UserHooks(bak[op.site])

(* Without a kill only the step at work finds the servers torn.            *)
ServersKept ==
  instKills = 0 =>
    /\ \A s \in Sites : hadUser[s] =>
         IF servers[s] = Half
         THEN ipc = "registered" /\ op.site = s
         ELSE servers[s] # Gone /\ servers[s].user
    /\ ipc \in {"register", "registered"} /\ hadUser[op.site] => held.user

Kept == TreeKept /\ HooksKept /\ ServersKept

(* The three hold of the files as they are found.                          *)
LEMMA KeptInit == InstInit => Kept
<1> SUFFICES ASSUME InstInit PROVE Kept
  OBVIOUS
<1>1. TreeKept
  BY DEF InstInit, TreeKept
<1>2. PICK f \in FirstFiles : /\ settings = [s \in Sites |-> f.settings]
                              /\ servers = [s \in Sites |-> f.servers]
  BY DEF InstInit
<1>3. f.settings # Half /\ f.servers # Half
  BY InstallAssumption
<1>4. HooksKept
  BY <1>2, <1>3 DEF InstInit, HooksKept
<1>5. ServersKept
  BY <1>2, <1>3 DEF InstInit, ServersKept
<1> QED BY <1>1, <1>4, <1>5 DEF Kept

(* A step that leaves the trees alone and is not about to write a template.*)
LEMMA TreeFrame ==
  ASSUME TreeKept, tree' = tree, patches' = patches, mine' = mine, ipc' \notin {"open", "fill"}
  PROVE  TreeKept'
BY DEF TreeKept, AtHand

(* A step that leaves the settings alone and is not about to write them.   *)
LEMMA HooksFrame ==
  ASSUME HooksKept, settings' = settings, bak' = bak, owned' = owned, instKills' = instKills,
         ipc # "writing", ipc' \notin {"write", "writing"}
  PROVE  HooksKept'
BY DEF HooksKept

(* The same for the servers.                                               *)
LEMMA ServersFrame ==
  ASSUME ServersKept, servers' = servers, hadUser' = hadUser, instKills' = instKills,
         ipc # "registered", ipc' \notin {"register", "registered"}
  PROVE  ServersKept'
BY DEF ServersKept

(* No step loses a template the user changed: one that is about to be      *)
(* replaced and is not what the manifest says was installed is backed up.  *)
LEMMA TreeStep ==
  ASSUME InstTypes, TreeKept, InstNext
  PROVE  TreeKept'
<1> USE DEF files, counts, users
<1>1. CASE BackUpTemplate
  <2>1. /\ ipc = "file" /\ op.site \in Sites /\ op.version \in Versions
        /\ nth \in 1 .. Len(Ships[op.version]) /\ prev \in Manifests
    BY <1>1, Constants DEF BackUpTemplate, InstTypes, CommandTyped, Copying, InstallOp
  <2> DEFINE k == Ships[op.version][nth]
             cur == tree[op.site][k]
  <2>2. tree' = tree /\ mine' = mine /\ op' = op
    BY <1>1 DEF BackUpTemplate, Step
  <2>3. PICK more : /\ patches' = [patches EXCEPT ![op.site] = @ \cup more]
                    /\ op.site.harness = "claude" /\ BackupGate(cur, k, op.version) => cur \in more
    BY <1>1 DEF BackUpTemplate
  <2>4. \A s \in Sites : /\ patches[s] \subseteq patches'[s]
                         /\ s = op.site => more \subseteq patches'[s]
    BY <2>1, <2>3 DEF InstTypes, FilesTyped
  <2>5. ipc' = "file" \/ nth' = nth
    BY <1>1 DEF BackUpTemplate, Step
  <2>6. ASSUME cur \in TemplateKeys \X Hands, cur[1] = k
        PROVE  BackupGate(cur, k, op.version)
    <3>1. cur # Gone
      BY <2>6, InstallAssumption
    <3>2. cur[2] \notin Versions
      BY <2>6, InstallAssumption
    <3>3. cur # Body(k, op.version)
      BY <2>1, <3>2 DEF Body
    <3>4. ASSUME Tracked(k) PROVE prev.files[k] # cur
      <4>1. PICK v \in Versions : prev = ManifestOf(v)
        BY <2>1, <3>4 DEF Tracked, Manifests
      <4>2. k \in Shipped(v)
        BY <3>4, <4>1, ManifestFacts DEF Tracked
      <4> QED BY <3>2, <4>1, <4>2, ManifestFacts
    <3> QED BY <3>1, <3>3, <3>4 DEF BackupGate
  <2>7. SUFFICES ASSUME NEW s \in Sites, s.harness = "claude", NEW x \in mine[s]
                 PROVE  x \in patches'[s] \/ (tree[s][x[1]] = x /\ ~ AtHand(s, x[1])')
    BY <2>2 DEF TreeKept
  <2>8. x \in patches[s] \/ tree[s][x[1]] = x
    BY <2>7 DEF TreeKept
  <2>9. CASE x \notin patches'[s]
    <3>1. tree[s][x[1]] = x /\ x \in TemplateKeys \X Hands
      BY <2>4, <2>7, <2>8, <2>9 DEF InstTypes, FilesTyped
    <3>2. ASSUME AtHand(s, x[1])' PROVE FALSE
      <4>1. s = op.site /\ x[1] = k /\ cur = x
        BY <2>2, <2>5, <3>1, <3>2 DEF AtHand
      <4> QED BY <2>3, <2>4, <2>6, <2>7, <2>9, <3>1, <4>1
    <3> QED BY <3>1, <3>2
  <2> QED BY <2>9
<1>2. CASE CopyTemplate
  <2>1. /\ ipc \in {"open", "fill"} /\ op.site \in Sites /\ op.version \in Versions
        /\ nth \in 1 .. Len(Ships[op.version])
    BY <1>2 DEF CopyTemplate, Step, InstTypes, CommandTyped, Copying, InstallOp
  <2> DEFINE k == Ships[op.version][nth]
  <2>2. PICK c : tree' = [tree EXCEPT ![op.site][k] = c]
    BY <1>2 DEF CopyTemplate
  <2>3. /\ patches' = patches /\ mine' = mine /\ op' = op
        /\ ipc' = "file" \/ nth' = nth
    BY <1>2 DEF CopyTemplate, Step
  <2>4. SUFFICES ASSUME NEW s \in Sites, s.harness = "claude", NEW x \in mine[s], x \notin patches[s]
                 PROVE  tree'[s][x[1]] = x /\ ~ AtHand(s, x[1])'
    BY <2>3 DEF TreeKept
  <2>5. tree[s][x[1]] = x /\ ~ AtHand(s, x[1])
    BY <2>4 DEF TreeKept
  <2>6. ~ (s = op.site /\ x[1] = k)
    BY <2>1, <2>5 DEF AtHand
  <2>7. x[1] \in TemplateKeys
    BY <2>4 DEF InstTypes, FilesTyped
  <2>8. tree'[s][x[1]] = tree[s][x[1]]
    BY <2>1, <2>2, <2>6, <2>7 DEF InstTypes, FilesTyped
  <2> QED BY <2>3, <2>5, <2>6, <2>8 DEF AtHand
<1>3. CASE RemoveTemplates
  <2>1. PICK keys : /\ tree' = [tree EXCEPT ![op.site] = [k \in TemplateKeys |-> IF k \in keys THEN Gone ELSE @[k]]]
                    /\ mine' = [mine EXCEPT ![op.site] = {x \in @ : x[1] \notin keys}]
    BY <1>3 DEF RemoveTemplates
  <2>2. patches' = patches /\ ipc' = "unhook" /\ ipc = "untree"
    BY <1>3 DEF RemoveTemplates
  <2>3. SUFFICES ASSUME NEW s \in Sites, s.harness = "claude", NEW x \in mine'[s], x \notin patches[s]
                 PROVE  tree'[s][x[1]] = x
    BY <2>2 DEF TreeKept, AtHand
  <2>4. x \in mine[s] /\ (s = op.site => x[1] \notin keys)
    BY <2>1, <2>3 DEF InstTypes, FilesTyped
  <2>5. tree[s][x[1]] = x /\ x[1] \in TemplateKeys
    BY <2>3, <2>4 DEF TreeKept, InstTypes, FilesTyped
  <2> QED BY <2>1, <2>4, <2>5 DEF InstTypes, FilesTyped
<1>4. CASE HandEdit
  <2>1. PICK t \in Sites, k \in TemplateKeys, h \in Hands :
          /\ tree' = [tree EXCEPT ![t][k] = <<k, h>>]
          /\ mine' = [mine EXCEPT ![t] = (@ \ {tree[t][k]}) \cup {<<k, h>>}]
    BY <1>4 DEF HandEdit
  <2>2. patches' = patches /\ ipc' = "idle"
    BY <1>4 DEF HandEdit
  <2>3. SUFFICES ASSUME NEW s \in Sites, s.harness = "claude", NEW x \in mine'[s], x \notin patches[s]
                 PROVE  tree'[s][x[1]] = x
    BY <2>2 DEF TreeKept, AtHand
  <2>4. CASE s = t /\ x = <<k, h>>
    BY <2>1, <2>4 DEF InstTypes, FilesTyped
  <2>5. CASE ~ (s = t /\ x = <<k, h>>)
    <3>1. x \in mine[s] /\ (s = t => x # tree[t][k])
      BY <2>1, <2>3, <2>5 DEF InstTypes, FilesTyped
    <3>2. tree[s][x[1]] = x /\ x[1] \in TemplateKeys
      BY <2>3, <3>1 DEF TreeKept, InstTypes, FilesTyped
    <3>3. ~ (s = t /\ x[1] = k)
      BY <3>1, <3>2
    <3> QED BY <2>1, <3>2, <3>3 DEF InstTypes, FilesTyped
  <2> QED BY <2>4, <2>5
<1>5. CASE StartInstall \/ CmdUpdate \/ LoadManifest \/ SaveManifest \/ Relocate
  BY <1>5, TreeFrame DEF StartInstall, CmdUpdate, LoadManifest, SaveManifest, Relocate, Step, Stop
<1>6. CASE LoadSettings \/ BackupSettings \/ SaveSettings \/ ReadServers \/ Register \/ Seed \/ Finish
  BY <1>6, TreeFrame DEF LoadSettings, BackupSettings, SaveSettings, ReadServers, Register, Seed, Finish,
                         Step, Stop
<1>7. CASE StartUninstall \/ StripManagedHooks \/ StripMcpEntry \/ RemoveBins \/ Kill \/ LoseManifest \/ RestoreSettings
  BY <1>7, TreeFrame DEF StartUninstall, StripManagedHooks, StripMcpEntry, RemoveBins, Kill, LoseManifest,
                         RestoreSettings, Step, Stop
<1> QED BY <1>1, <1>2, <1>3, <1>4, <1>5, <1>6, <1>7 DEF InstNext

(* The merge of the hooks keeps the entries of the user.                   *)
LEMMA MergeKeepsUser ==
  ASSUME NEW hooks, NEW h, NEW v, NEW e \in hooks, e.kind = "user"
  PROVE  e \in MergeHooks(hooks, h, v)
BY DEF MergeHooks, IsHoangsaEntry

(* No step loses a hook of the user: what is about to be written holds it, *)
(* and while the file is torn the .bak does.                               *)
LEMMA HooksStep ==
  ASSUME InstTypes, HooksKept, InstNext
  PROVE  HooksKept'
<1> USE DEF files, counts, users
<1>1. CASE LoadSettings
  <2>1. CASE ipc' = "idle"
    BY <1>1, <2>1, HooksFrame DEF LoadSettings
  <2>2. CASE ipc' # "idle"
    <3>1. /\ ipc = "settings" /\ ipc' \in {"write", "backup"} /\ op' = op /\ settings[op.site] # Half
          /\ held' = IF settings[op.site] = Gone THEN NoSettings ELSE settings[op.site]
          /\ ipc' = "write" => op.site.harness = "codex" \/ settings[op.site] = Gone
          /\ settings' = settings /\ bak' = bak /\ owned' = owned /\ instKills' = instKills
      BY <1>1, <2>2 DEF LoadSettings, Stop
    <3>2. op.site \in Sites
      BY <3>1 DEF InstTypes, CommandTyped, InstallOp
    <3>3. op.site.harness = "claude" \/ instKills = 0 => owned[op.site] \subseteq UserHooks(settings[op.site])
      BY <3>1, <3>2 DEF HooksKept
    <3>4. settings[op.site] = Gone => UserHooks(settings[op.site]) = {}
      BY DEF UserHooks
    <3>5. settings[op.site] # Gone => held' = settings[op.site]
      BY <3>1
    <3>6. op.site.harness = "claude" \/ instKills = 0 => owned[op.site] \subseteq UserHooks(held')
      BY <3>3, <3>4, <3>5
    <3>7. ipc' = "write" /\ op.site.harness = "claude" => owned[op.site] = {}
      BY <3>1, <3>3, <3>4
    <3>8. UserHooks(held)' = UserHooks(held')
      BY DEF UserHooks
    <3> QED BY <3>1, <3>6, <3>7, <3>8 DEF HooksKept
  <2> QED BY <2>1, <2>2
<1>2. CASE BackupSettings
  <2>1. /\ ipc = "backup" /\ ipc' = "write" /\ op' = op /\ held' = held /\ held = settings[op.site]
        /\ held \in SettingsDoc /\ op.site \in Sites
        /\ settings' = settings /\ owned' = owned /\ instKills' = instKills
    BY <1>2 DEF BackupSettings, Step, InstTypes, CommandTyped, InstallOp
  <2>2. bak' = [bak EXCEPT ![op.site] = held] /\ DOMAIN bak = Sites
    BY <1>2, <2>1 DEF BackupSettings, InstTypes, FilesTyped
  <2>3. held # Half
    BY <2>1, InstallAssumption
  <2>4. bak'[op.site] = held /\ \A s \in Sites : s # op.site => bak'[s] = bak[s]
    BY <2>1, <2>2
  <2>5. \A s \in Sites : settings[s] = Half => bak'[s] = bak[s]
    BY <2>1, <2>3, <2>4
  <2>6. op.site.harness = "claude" \/ instKills = 0 => owned[op.site] \subseteq UserHooks(held)
    BY <2>1, <2>3 DEF HooksKept
  <2> QED BY <2>1, <2>4, <2>5, <2>6 DEF HooksKept
<1>3. CASE SaveSettings
  <2>1. /\ ipc \in {"write", "writing"} /\ op' = op /\ held' = held /\ op.site \in Sites
        /\ held \in SettingsDoc /\ op.site.harness # "cowork"
        /\ bak' = bak /\ owned' = owned /\ instKills' = instKills /\ DOMAIN settings = Sites
    BY <1>3 DEF SaveSettings, Step, InstTypes, FilesTyped, CommandTyped, InstallOp, Setting
  <2>2. CASE ipc' = "writing" /\ settings' = [settings EXCEPT ![op.site] = Half]
    <3>1. settings'[op.site] = Half /\ \A s \in Sites : s # op.site => settings'[s] = settings[s]
      BY <2>1, <2>2
    <3>2. ipc = "write"
      BY <1>3, <2>2 DEF SaveSettings, Step
    <3> QED BY <2>1, <2>2, <3>1, <3>2 DEF HooksKept
  <2>3. CASE ipc = "writing" /\ ipc' = "mcp" /\ settings' = [settings EXCEPT ![op.site] = NewSettings]
    <3>1. settings'[op.site] = NewSettings /\ \A s \in Sites : s # op.site => settings'[s] = settings[s]
      BY <2>1, <2>3
    <3>2. NewSettings \in SettingsDoc
      BY <2>1, NewSettingsTyped DEF InstTypes, CommandTyped
    <3>3. held \notin {Gone, Half} /\ NewSettings \notin {Gone, Half}
      BY <2>1, <3>2, InstallAssumption
    <3>4. UserHooks(held) \subseteq UserHooks(NewSettings)
      BY <3>3, MergeKeepsUser DEF UserHooks, NewSettings
    <3>5. op.site.harness = "claude" \/ instKills = 0 => owned[op.site] \subseteq UserHooks(NewSettings)
      BY <2>3, <3>4 DEF HooksKept
    <3>6. UserHooks(settings'[op.site]) = UserHooks(NewSettings)
      BY <3>1
    <3> QED BY <2>1, <2>3, <3>1, <3>3, <3>5, <3>6 DEF HooksKept
  <2> QED BY <1>3, <2>2, <2>3 DEF SaveSettings, Step, NewSettings
<1>4. CASE StripManagedHooks
  <2>1. /\ op.site \in Sites /\ ipc = "unhook" /\ ipc' = "unserve" /\ DOMAIN settings = Sites
        /\ settings' = [settings EXCEPT ![op.site] = StripHooks(@)]
        /\ bak' = bak /\ owned' = owned /\ instKills' = instKills
    BY <1>4 DEF StripManagedHooks, Step, InstTypes, FilesTyped, CommandTyped, InstallOp
  <2>2. PICK d \in {Gone, Half} \cup SettingsDoc : d = settings[op.site]
    BY <2>1 DEF InstTypes, FilesTyped
  <2>3. d \in SettingsDoc => StripHooks(d) \in SettingsDoc /\ UserHooks(StripHooks(d)) = UserHooks(d)
    <3> SUFFICES ASSUME d \in SettingsDoc
                 PROVE  StripHooks(d) \in SettingsDoc /\ UserHooks(StripHooks(d)) = UserHooks(d)
      OBVIOUS
    <3>1. d \notin {Gone, Half}
      BY InstallAssumption
    <3>2. StripHooks(d) = [d EXCEPT !.hooks = {e \in d.hooks : e.kind # "managed"}]
      BY <3>1 DEF StripHooks
    <3>3. StripHooks(d) \in SettingsDoc /\ StripHooks(d).hooks = {e \in d.hooks : e.kind # "managed"}
      BY <3>2 DEF SettingsDoc
    <3>4. StripHooks(d) \notin {Gone, Half}
      BY <3>3, InstallAssumption
    <3> QED BY <3>1, <3>3, <3>4 DEF UserHooks
  <2>4. d \in {Gone, Half} => StripHooks(d) = d
    BY DEF StripHooks
  <2>5. UserHooks(StripHooks(d)) = UserHooks(d) /\ (StripHooks(d) = Half <=> d = Half)
    BY <2>2, <2>3, <2>4, InstallAssumption
  <2>6. settings'[op.site] = StripHooks(d) /\ \A s \in Sites : s # op.site => settings'[s] = settings[s]
    BY <2>1, <2>2
  <2>7. \A s \in Sites : /\ UserHooks(settings'[s]) = UserHooks(settings[s])
                         /\ settings'[s] = Half <=> settings[s] = Half
    BY <2>2, <2>5, <2>6
  <2>8. \A s \in Sites : UserHooks(settings[s])' = UserHooks(settings'[s])
    BY DEF UserHooks
  <2> QED BY <2>1, <2>7, <2>8 DEF HooksKept
<1>5. CASE RestoreSettings
  <2>1. PICK t \in Sites : settings[t] = Half /\ settings' = [settings EXCEPT ![t] = bak[t]]
    BY <1>5 DEF RestoreSettings
  <2>2. /\ ipc = "idle" /\ ipc' = "idle" /\ bak' = bak /\ owned' = owned /\ instKills' = instKills
        /\ DOMAIN settings = Sites
    BY <1>5 DEF RestoreSettings, InstTypes, FilesTyped
  <2>3. settings'[t] = bak[t] /\ \A s \in Sites : s # t => settings'[s] = settings[s]
    BY <2>1, <2>2
  <2>4. instKills # 0
    BY <2>1, <2>2 DEF HooksKept
  <2>5. t.harness = "claude" => owned[t] \subseteq UserHooks(bak[t])
    BY <2>1 DEF HooksKept
  <2>6. UserHooks(settings'[t]) = UserHooks(bak[t])
    BY <2>3
  <2> QED BY <2>2, <2>3, <2>4, <2>5, <2>6 DEF HooksKept
<1>6. CASE Kill
  <2>1. instKills' # 0 /\ ipc' = "idle" /\ settings' = settings /\ bak' = bak /\ owned' = owned
    BY <1>6 DEF Kill, Stop, InstTypes, FilesTyped
  <2> QED BY <2>1 DEF HooksKept
<1>7. CASE StartInstall \/ CmdUpdate \/ LoadManifest \/ BackUpTemplate \/ CopyTemplate \/ SaveManifest \/ Relocate
  BY <1>7, HooksFrame DEF StartInstall, CmdUpdate, LoadManifest, BackUpTemplate, CopyTemplate, SaveManifest,
                          Relocate, Step, Stop
<1>8. CASE ReadServers \/ Register \/ Seed \/ Finish \/ StripMcpEntry
  BY <1>8, HooksFrame DEF ReadServers, Register, Seed, Finish, StripMcpEntry, Step, Stop
<1>9. CASE StartUninstall \/ RemoveTemplates \/ RemoveBins \/ HandEdit \/ LoseManifest
  BY <1>9, HooksFrame DEF StartUninstall, RemoveTemplates, RemoveBins, HandEdit, LoseManifest, Step
<1> QED BY <1>1, <1>2, <1>3, <1>4, <1>5, <1>6, <1>7, <1>8, <1>9 DEF InstNext

(* Without a kill no server of the user is lost.                           *)
LEMMA ServersStep ==
  ASSUME InstTypes, ServersKept, InstNext
  PROVE  ServersKept'
<1> USE DEF files, counts, users
<1>1. CASE ReadServers
  <2>1. CASE ipc' \in {"idle", "seed"}
    BY <1>1, <2>1, ServersFrame DEF ReadServers
  <2>2. CASE ipc' \notin {"idle", "seed"}
    <3>1. /\ ipc = "mcp" /\ ipc' = "register" /\ op' = op
          /\ held' = IF servers[op.site] \in {Gone, Half} THEN NoServers ELSE servers[op.site]
          /\ servers' = servers /\ hadUser' = hadUser /\ instKills' = instKills
      BY <1>1, <2>2 DEF ReadServers, Stop
    <3>2. op.site \in Sites
      BY <3>1 DEF InstTypes, CommandTyped, InstallOp
    <3> QED BY <3>1, <3>2 DEF ServersKept
  <2> QED BY <2>1, <2>2
<1>2. CASE Register
  <2>1. /\ ipc \in {"register", "registered"} /\ op' = op /\ held' = held /\ op.site \in Sites
        /\ held \in ServersDoc /\ DOMAIN servers = Sites
        /\ hadUser' = hadUser /\ instKills' = instKills
    BY <1>2 DEF Register, Step, InstTypes, FilesTyped, CommandTyped, InstallOp
  <2>2. CASE ipc = "register" /\ ipc' = "registered" /\ servers' = [servers EXCEPT ![op.site] = Half]
    <3>1. servers'[op.site] = Half /\ \A s \in Sites : s # op.site => servers'[s] = servers[s]
      BY <2>1, <2>2
    <3> QED BY <2>1, <2>2, <3>1 DEF ServersKept
  <2>3. CASE /\ ipc = "registered" /\ ipc' \in {"done", "seed"}
             /\ servers' = [servers EXCEPT ![op.site] = [held EXCEPT !.ours = TRUE]]
    <3>1. PICK d : d = [held EXCEPT !.ours = TRUE]
      OBVIOUS
    <3>2. d \in ServersDoc /\ d.user = held.user
      BY <2>1, <3>1 DEF ServersDoc
    <3>3. d \notin {Gone, Half}
      BY <3>2, InstallAssumption
    <3>4. servers'[op.site] = d /\ \A s \in Sites : s # op.site => servers'[s] = servers[s]
      BY <2>1, <2>3, <3>1
    <3> QED BY <2>1, <2>3, <3>2, <3>3, <3>4 DEF ServersKept
  <2> QED BY <1>2, <2>2, <2>3 DEF Register, Step
<1>3. CASE StripMcpEntry
  <2>1. /\ op.site \in Sites /\ ipc = "unserve" /\ ipc' = "unbin" /\ DOMAIN servers = Sites
        /\ hadUser' = hadUser /\ instKills' = instKills
    BY <1>3 DEF StripMcpEntry, Step, InstTypes, FilesTyped, CommandTyped, InstallOp
  <2>2. PICK d \in {Gone, Half} \cup ServersDoc : d = servers[op.site]
    BY <2>1 DEF InstTypes, FilesTyped
  <2>3. PICK c : c = IF d \in {Gone, Half} THEN d ELSE [d EXCEPT !.ours = FALSE, !.env = FALSE]
    OBVIOUS
  <2>4. servers' = [servers EXCEPT ![op.site] = c]
    BY <1>3, <2>2, <2>3 DEF StripMcpEntry
  <2>5. IF d \in {Gone, Half} THEN c = d ELSE c \in ServersDoc /\ c.user = d.user
    BY <2>2, <2>3 DEF ServersDoc
  <2>6. (c = Half <=> d = Half) /\ (c = Gone <=> d = Gone) /\ (d \notin {Gone, Half} => c.user = d.user)
    BY <2>2, <2>5, InstallAssumption
  <2>7. servers'[op.site] = c /\ \A s \in Sites : s # op.site => servers'[s] = servers[s]
    BY <2>1, <2>4
  <2> QED BY <2>1, <2>2, <2>6, <2>7 DEF ServersKept
<1>4. CASE Kill
  <2>1. instKills' # 0
    BY <1>4 DEF Kill, InstTypes, FilesTyped
  <2> QED BY <2>1 DEF ServersKept
<1>5. CASE StartInstall \/ CmdUpdate \/ LoadManifest \/ BackUpTemplate \/ CopyTemplate \/ SaveManifest \/ Relocate
  BY <1>5, ServersFrame DEF StartInstall, CmdUpdate, LoadManifest, BackUpTemplate, CopyTemplate, SaveManifest,
                            Relocate, Step, Stop
<1>6. CASE LoadSettings \/ BackupSettings \/ SaveSettings \/ Seed \/ Finish
  BY <1>6, ServersFrame DEF LoadSettings, BackupSettings, SaveSettings, Seed, Finish, Step, Stop
<1>7. CASE StartUninstall \/ RemoveTemplates \/ StripManagedHooks \/ RemoveBins \/ HandEdit \/ LoseManifest \/ RestoreSettings
  BY <1>7, ServersFrame DEF StartUninstall, RemoveTemplates, StripManagedHooks, RemoveBins, HandEdit,
                            LoseManifest, RestoreSettings, Step
<1> QED BY <1>1, <1>2, <1>3, <1>4, <1>5, <1>6, <1>7 DEF InstNext

(* For every set of sites, releases and templates, whatever the user       *)
(* changes between commands: what the user wrote is not lost.              *)
THEOREM EditsKept == InstSpec => []EditsSurvive
<1> DEFINE IInv == InstTypes /\ Kept
<1>1. InstInit => IInv
  BY TypesInit, KeptInit
<1>2. IInv /\ [InstNext]_instVars => IInv'
  <2> SUFFICES ASSUME IInv, [InstNext]_instVars PROVE IInv'
    OBVIOUS
  <2>1. CASE InstNext
    BY <2>1, TypesStep, TreeStep, HooksStep, ServersStep DEF Kept
  <2>2. CASE UNCHANGED instVars
    <3>1. InstTypes'
      BY <2>2 DEF instVars, InstTypes, FilesTyped, CommandTyped
    <3>2. TreeKept' /\ ServersKept'
      BY <2>2 DEF instVars, Kept, TreeKept, AtHand, ServersKept
    <3>3. HooksKept'
      BY <2>2 DEF instVars, Kept, HooksKept
    <3> QED BY <3>1, <3>2, <3>3 DEF Kept
  <2> QED BY <2>1, <2>2
<1>3. IInv => EditsSurvive
  <2> SUFFICES ASSUME IInv, NEW s \in Sites
               PROVE  /\ s.harness = "claude" => mine[s] \subseteq Range(tree[s]) \cup patches[s]
                      /\ s.harness = "claude" => owned[s] \subseteq UserHooks(settings[s]) \cup UserHooks(bak[s])
                      /\ instKills = 0 /\ settings[s] # Half => owned[s] \subseteq UserHooks(settings[s])
                      /\ instKills = 0 /\ hadUser[s] /\ servers[s] # Half => servers[s] # Gone /\ servers[s].user
    BY DEF EditsSurvive
  <2>1. ASSUME s.harness = "claude", NEW x \in mine[s], x \notin patches[s] PROVE x \in Range(tree[s])
    <3>1. x[1] \in DOMAIN tree[s] /\ tree[s][x[1]] = x
      BY <2>1 DEF Kept, TreeKept, InstTypes, FilesTyped
    <3> QED BY <3>1 DEF Range
  <2>2. s.harness = "claude" => owned[s] \subseteq UserHooks(settings[s]) \cup UserHooks(bak[s])
    BY DEF Kept, HooksKept
  <2>3. instKills = 0 /\ settings[s] # Half => owned[s] \subseteq UserHooks(settings[s])
    BY DEF Kept, HooksKept
  <2>4. instKills = 0 /\ hadUser[s] /\ servers[s] # Half => servers[s] # Gone /\ servers[s].user
    BY DEF Kept, ServersKept
  <2> QED BY <2>1, <2>2, <2>3, <2>4
<1> QED BY <1>1, <1>2, <1>3, PTL DEF InstSpec

-----------------------------------------------------------------------------
(* What is reported is so                                                  *)

(* Where an install is, once its templates, its hooks, its server are in place. *)
Registered == {"seed", "seeding", "done"}
HooksSet == {"mcp", "register", "registered"} \cup Registered
Recorded == {"relocate"} \cup Setting \cup HooksSet
Installing == {"manifest", "saved"} \cup Copying \cup Recorded

TreeDone ==
  /\ ipc \in Copying => \A i \in 1 .. nth - 1 :
       tree[op.site][Ships[op.version][i]] = Body(Ships[op.version][i], op.version)
  /\ ipc \in {"saved"} \cup Recorded /\ op.site.harness # "cowork" =>
       \A k \in Shipped(op.version) : tree[op.site][k] = Body(k, op.version)

ManifestDone ==
  ipc \in Recorded /\ op.site.harness # "cowork" => manifest[op.site.harness] = NewManifest

HooksDone ==
  /\ ipc \in HooksSet /\ op.site.harness # "cowork" =>
       {e \in settings[op.site].hooks : IsHoangsaEntry(e) /\ e.event \in Hooked[op.site.harness][op.version]}
         = Managed(op.site.harness, op.version)
  /\ ipc \in {"unserve", "unbin"} /\ settings[op.site] \notin {Gone, Half} =>
       \A e \in settings[op.site].hooks : e.kind # "managed"

ServersDone ==
  /\ ipc \in Registered =>
       (op.site.harness = "codex" /\ ~ op.memory) \/ servers[op.site].ours
  /\ ipc = "unbin" /\ servers[op.site] \notin {Gone, Half} => ~ servers[op.site].ours

BinsDone ==
  /\ ipc \in Installing /\ op.from = "release" => bins["hoangsa-memory-mcp"] = op.version
  /\ ipc \in Setting \cup HooksSet /\ op.site.harness = "claude" /\ op.memory /\ op.from = "staging" =>
       bins["hoangsa-memory-mcp"] = op.version

(* Nothing is reported while a command runs. *)
Silent == ipc # "idle" => told = "nothing"

Places == TreeDone /\ ManifestDone /\ HooksDone /\ ServersDone /\ BinsDone /\ Silent /\ ReportedTrue

(* The walk over the templates leaves each it has passed in place: they    *)
(* are all different, and nothing else writes them meanwhile.              *)
LEMMA TreeDoneStep ==
  ASSUME InstTypes, TreeDone, InstNext
  PROVE  TreeDone'
<1> USE DEF files, counts, users
<1>1. CASE LoadManifest
  <2>1. ipc' = "idle" \/ (ipc' = "file" /\ nth' = 1)
    BY <1>1 DEF LoadManifest, Stop
  <2> QED BY <2>1 DEF TreeDone, Copying, Recorded, Setting, HooksSet, Registered
<1>2. CASE BackUpTemplate
  <2>1. /\ ipc = "file" /\ op.site \in Sites /\ op.version \in Versions
        /\ nth \in 1 .. Len(Ships[op.version]) /\ Len(Ships[op.version]) \in Nat
    BY <1>2, Constants DEF BackUpTemplate, InstTypes, CommandTyped, Copying, InstallOp
  <2> DEFINE k == Ships[op.version][nth]
             cur == tree[op.site][k]
  <2>2. tree' = tree /\ op' = op
    BY <1>2 DEF BackUpTemplate, Step
  <2>3. PICK same \in BOOLEAN : /\ same <=> cur = Body(k, op.version)
                                /\ nth' = IF same THEN nth + 1 ELSE nth
                                /\ Step("file", IF same THEN "file" ELSE "open")
    BY <1>2, Zenon DEF BackUpTemplate
  <2>4. ipc' \in {"file", "open"}
    BY <2>3 DEF Step
  <2>5. \A i \in 1 .. nth - 1 : tree[op.site][Ships[op.version][i]] = Body(Ships[op.version][i], op.version)
    BY <2>1 DEF TreeDone, Copying
  <2>6. \A i \in 1 .. nth' - 1 : tree[op.site][Ships[op.version][i]] = Body(Ships[op.version][i], op.version)
    <3>1. CASE same
      <4>1. \A i \in 1 .. nth' - 1 : i \in 1 .. nth - 1 \/ i = nth
        BY <2>1, <2>3, <3>1
      <4> QED BY <2>3, <2>5, <3>1, <4>1
    <3>2. CASE ~ same
      BY <2>3, <2>5, <3>2
    <3> QED BY <3>1, <3>2
  <2> QED BY <2>2, <2>4, <2>6 DEF TreeDone, Copying, Recorded, Setting, HooksSet, Registered
<1>3. CASE CopyTemplate
  <2>1. /\ ipc \in {"open", "fill"} /\ op.site \in Sites /\ op.version \in Versions
        /\ nth \in 1 .. Len(Ships[op.version]) /\ Len(Ships[op.version]) \in Nat
    BY <1>3, Constants DEF CopyTemplate, Step, InstTypes, CommandTyped, Copying, InstallOp
  <2> DEFINE k == Ships[op.version][nth]
  <2>2. op' = op
    BY <1>3 DEF CopyTemplate, Step
  <2>3. PICK c : /\ tree' = [tree EXCEPT ![op.site][k] = c]
                 /\ \/ ipc' = "fill" /\ nth' = nth
                    \/ ipc' = "file" /\ nth' = nth + 1 /\ c = Body(k, op.version)
    BY <1>3 DEF CopyTemplate, Step
  <2>4. k \in TemplateKeys
    BY <2>1, Constants
  <2>5. tree'[op.site][k] = c /\ \A q \in TemplateKeys \ {k} : tree'[op.site][q] = tree[op.site][q]
    BY <2>1, <2>3, <2>4 DEF InstTypes, FilesTyped
  <2>6. \A i \in 1 .. nth - 1 : tree[op.site][Ships[op.version][i]] = Body(Ships[op.version][i], op.version)
    BY <2>1 DEF TreeDone, Copying
  <2>7. \A i \in 1 .. nth - 1 : Ships[op.version][i] \in TemplateKeys \ {k}
    <3>1. \A i, j \in 1 .. Len(Ships[op.version]) : Ships[op.version][i] = Ships[op.version][j] => i = j
      BY <2>1, InstallAssumption
    <3>2. \A i \in 1 .. nth - 1 : i \in 1 .. Len(Ships[op.version]) /\ i # nth
      BY <2>1
    <3> QED BY <2>1, <3>1, <3>2, Constants
  <2>8. \A i \in 1 .. nth - 1 : tree'[op.site][Ships[op.version][i]] = Body(Ships[op.version][i], op.version)
    BY <2>5, <2>6, <2>7
  <2>9. \A i \in 1 .. nth' - 1 : tree'[op.site][Ships[op.version][i]] = Body(Ships[op.version][i], op.version)
    <3>1. CASE nth' = nth
      BY <2>8, <3>1
    <3>2. CASE nth' = nth + 1 /\ c = Body(k, op.version)
      <4>1. \A i \in 1 .. nth' - 1 : i \in 1 .. nth - 1 \/ i = nth
        BY <2>1, <3>2
      <4> QED BY <2>5, <2>8, <3>2, <4>1
    <3> QED BY <2>3, <3>1, <3>2
  <2>10. ipc' \in {"fill", "file"}
    BY <2>3
  <2> QED BY <2>2, <2>9, <2>10 DEF TreeDone, Copying, Recorded, Setting, HooksSet, Registered
<1>4. CASE SaveManifest
  <2>1. tree' = tree /\ op' = op /\ ipc' \in {"saved", "settings", "relocate"} /\ ipc \in {"file", "saved"}
        /\ op \in InstallOp
    BY <1>4 DEF SaveManifest, Step, InstTypes, CommandTyped
  <2>2. op.version \in Versions
    BY <2>1 DEF InstallOp
  <2>3. CASE ipc = "file"
    <3>1. nth \in 1 .. Len(Ships[op.version]) + 1 /\ nth > Len(Ships[op.version])
          /\ Len(Ships[op.version]) \in Nat
      BY <1>4, <2>2, <2>3, Constants DEF SaveManifest, Step, InstTypes, CommandTyped, Copying
    <3>2. nth - 1 = Len(Ships[op.version])
      BY <3>1
    <3>3. \A i \in 1 .. Len(Ships[op.version]) :
             tree[op.site][Ships[op.version][i]] = Body(Ships[op.version][i], op.version)
      BY <2>3, <3>2 DEF TreeDone, Copying
    <3>4. \A k \in Shipped(op.version) : tree[op.site][k] = Body(k, op.version)
      BY <2>2, <3>3, Constants
    <3> QED BY <2>1, <3>4 DEF TreeDone, Copying
  <2>4. CASE ipc = "saved"
    BY <2>1, <2>4 DEF TreeDone, Copying
  <2> QED BY <2>1, <2>3, <2>4
<1>5. CASE Relocate \/ LoadSettings \/ BackupSettings \/ SaveSettings
  <2>1. ipc \in {"relocate"} \cup Setting /\ tree' = tree
    BY <1>5 DEF Relocate, LoadSettings, BackupSettings, SaveSettings, Step, Setting
  <2>2. ipc' = "idle" \/ (ipc' \in Setting \cup {"mcp"} /\ op' = op)
    BY <1>5 DEF Relocate, LoadSettings, BackupSettings, SaveSettings, Step, Stop, Setting
  <2> QED BY <2>1, <2>2 DEF TreeDone, Copying, Recorded, Setting, HooksSet, Registered
<1>6. CASE ReadServers \/ Register \/ Seed \/ Finish
  <2>1. ipc \in HooksSet /\ tree' = tree
    BY <1>6 DEF ReadServers, Register, Seed, Finish, Step, HooksSet, Registered
  <2>2. ipc' = "idle" \/ (ipc' \in HooksSet /\ op' = op)
    BY <1>6 DEF ReadServers, Register, Seed, Finish, Step, Stop, HooksSet, Registered
  <2> QED BY <2>1, <2>2 DEF TreeDone, Copying, Recorded, Setting, HooksSet, Registered
<1>7. CASE StartInstall
  <2>1. ipc' = "manifest" \/ (ipc' = "mcp" /\ op'.site.harness = "cowork")
    BY <1>7 DEF StartInstall
  <2> QED BY <2>1 DEF TreeDone, Copying, Recorded, Setting, HooksSet, Registered
<1>8. ASSUME ipc' \in {"idle", "manifest", "untree", "unhook", "unserve", "unbin"} PROVE TreeDone'
  BY <1>8 DEF TreeDone, Copying, Recorded, Setting, HooksSet, Registered
<1>9. CASE \/ CmdUpdate \/ StartUninstall \/ RemoveTemplates \/ StripManagedHooks \/ StripMcpEntry \/ RemoveBins
           \/ Kill \/ HandEdit \/ LoseManifest \/ RestoreSettings
  BY <1>8, <1>9 DEF CmdUpdate, StartUninstall, RemoveTemplates, StripManagedHooks, StripMcpEntry, RemoveBins,
                    Kill, HandEdit, LoseManifest, RestoreSettings, Step, Stop
<1> QED BY <1>1, <1>2, <1>3, <1>4, <1>5, <1>6, <1>7, <1>9 DEF InstNext

(* The manifest is written once and kept to the end of the install.        *)
LEMMA ManifestDoneStep ==
  ASSUME InstTypes, ManifestDone, InstNext
  PROVE  ManifestDone'
<1> USE DEF files, counts, users
<1>1. CASE SaveManifest
  <2>1. /\ op' = op /\ op.site \in Sites /\ DOMAIN manifest = Harnesses
        /\ \/ ipc' = "saved"
           \/ manifest' = [manifest EXCEPT ![op.site.harness] = NewManifest]
    BY <1>1 DEF SaveManifest, Step, InstTypes, FilesTyped, CommandTyped, InstallOp
  <2>2. op.site.harness \in Harnesses
    BY <2>1, Constants
  <2> QED BY <2>1, <2>2 DEF ManifestDone, NewManifest, Recorded, Setting, HooksSet, Registered
<1>2. CASE Relocate \/ LoadSettings \/ BackupSettings \/ SaveSettings \/ ReadServers \/ Register \/ Seed \/ Finish
  <2>1. ipc \in Recorded /\ manifest' = manifest
    BY <1>2 DEF Relocate, LoadSettings, BackupSettings, SaveSettings, ReadServers, Register, Seed, Finish,
                Step, Recorded, Setting, HooksSet, Registered
  <2>2. ipc' = "idle" \/ op' = op
    BY <1>2 DEF Relocate, LoadSettings, BackupSettings, SaveSettings, ReadServers, Register, Seed, Finish,
                Step, Stop
  <2> QED BY <2>1, <2>2 DEF ManifestDone, NewManifest, Recorded, Setting, HooksSet, Registered
<1>3. CASE StartInstall
  <2>1. ipc' = "manifest" \/ op'.site.harness = "cowork"
    BY <1>3 DEF StartInstall
  <2> QED BY <2>1 DEF ManifestDone, Recorded, Setting, HooksSet, Registered
<1>4. ASSUME ipc' \in {"idle", "manifest", "file", "open", "fill", "untree", "unhook", "unserve", "unbin"}
      PROVE  ManifestDone'
  BY <1>4 DEF ManifestDone, Recorded, Setting, HooksSet, Registered
<1>5. CASE CmdUpdate \/ LoadManifest \/ BackUpTemplate \/ CopyTemplate
  BY <1>4, <1>5 DEF CmdUpdate, LoadManifest, BackUpTemplate, CopyTemplate, Step, Stop
<1>6. CASE \/ StartUninstall \/ RemoveTemplates \/ StripManagedHooks \/ StripMcpEntry \/ RemoveBins
           \/ Kill \/ HandEdit \/ LoseManifest \/ RestoreSettings
  BY <1>4, <1>6 DEF StartUninstall, RemoveTemplates, StripManagedHooks, StripMcpEntry, RemoveBins,
                    Kill, HandEdit, LoseManifest, RestoreSettings, Step, Stop
<1> QED BY <1>1, <1>2, <1>3, <1>5, <1>6 DEF InstNext

(* At the events a version hooks, the merge leaves its entries and no      *)
(* other of ours.                                                          *)
LEMMA MergeExact ==
  ASSUME NEW hooks, NEW h, NEW v
  PROVE  {e \in MergeHooks(hooks, h, v) : IsHoangsaEntry(e) /\ e.event \in Hooked[h][v]} = Managed(h, v)
<1>1. \A e \in Managed(h, v) : IsHoangsaEntry(e) /\ e.event \in Hooked[h][v]
  BY DEF Managed, IsHoangsaEntry
<1> QED BY <1>1 DEF MergeHooks

(* The settings hold the hooks of the version once written, and no managed *)
(* one once stripped.                                                      *)
LEMMA HooksDoneStep ==
  ASSUME InstTypes, HooksDone, InstNext
  PROVE  HooksDone'
<1> USE DEF files, counts, users
<1>1. CASE SaveSettings
  <2>1. /\ op' = op /\ op.site \in Sites /\ DOMAIN settings = Sites
        /\ \/ ipc' = "writing"
           \/ ipc' = "mcp" /\ settings' = [settings EXCEPT ![op.site] = NewSettings]
    BY <1>1 DEF SaveSettings, NewSettings, Step, InstTypes, FilesTyped, CommandTyped, InstallOp
  <2>2. CASE ipc' = "writing"
    BY <2>2 DEF HooksDone, HooksSet, Registered
  <2>3. CASE ipc' = "mcp" /\ settings' = [settings EXCEPT ![op.site] = NewSettings]
    <3>1. settings'[op.site].hooks = MergeHooks(held.hooks, op.site.harness, op.version)
      BY <2>1, <2>3 DEF NewSettings
    <3>2. {e \in settings'[op.site].hooks : IsHoangsaEntry(e) /\ e.event \in Hooked[op.site.harness][op.version]}
            = Managed(op.site.harness, op.version)
      BY <3>1, MergeExact
    <3> QED BY <2>1, <2>3, <3>2 DEF HooksDone
  <2> QED BY <2>1, <2>2, <2>3
<1>2. CASE StripManagedHooks
  <2>1. /\ op' = op /\ op.site \in Sites /\ DOMAIN settings = Sites /\ ipc' = "unserve"
        /\ settings' = [settings EXCEPT ![op.site] = StripHooks(@)]
    BY <1>2 DEF StripManagedHooks, Step, InstTypes, FilesTyped, CommandTyped, InstallOp
  <2>2. PICK d \in {Gone, Half} \cup SettingsDoc : d = settings[op.site]
    BY <2>1 DEF InstTypes, FilesTyped
  <2>3. settings'[op.site] = StripHooks(d)
    BY <2>1, <2>2
  <2>4. d \notin {Gone, Half} => \A e \in StripHooks(d).hooks : e.kind # "managed"
    BY <2>2 DEF StripHooks, SettingsDoc
  <2>5. d \in {Gone, Half} => StripHooks(d) = d
    BY DEF StripHooks
  <2>6. settings'[op.site] \notin {Gone, Half} => \A e \in settings'[op.site].hooks : e.kind # "managed"
    BY <2>3, <2>4, <2>5
  <2> QED BY <2>1, <2>6 DEF HooksDone, HooksSet, Registered
<1>3. CASE ReadServers \/ Register \/ Seed \/ Finish \/ StripMcpEntry
  <2>1. settings' = settings /\ (ipc' = "idle" \/ op' = op)
    BY <1>3 DEF ReadServers, Register, Seed, Finish, StripMcpEntry, Step, Stop
  <2>2. \/ ipc' = "idle"
        \/ ipc \in HooksSet /\ ipc' \in HooksSet
        \/ ipc = "unserve" /\ ipc' = "unbin"
    BY <1>3 DEF ReadServers, Register, Seed, Finish, StripMcpEntry, Step, Stop, HooksSet, Registered
  <2> QED BY <2>1, <2>2 DEF HooksDone, IsHoangsaEntry, Managed, HooksSet, Registered
<1>4. CASE StartInstall
  <2>1. ipc' = "manifest" \/ (ipc' = "mcp" /\ op'.site.harness = "cowork")
    BY <1>4 DEF StartInstall
  <2> QED BY <2>1 DEF HooksDone, HooksSet, Registered
<1>5. ASSUME ipc' \notin HooksSet \cup {"unserve", "unbin"} PROVE HooksDone'
  BY <1>5 DEF HooksDone
<1>6. CASE CmdUpdate \/ LoadManifest \/ BackUpTemplate \/ CopyTemplate \/ SaveManifest \/ Relocate
  BY <1>5, <1>6 DEF CmdUpdate, LoadManifest, BackUpTemplate, CopyTemplate, SaveManifest, Relocate, Step, Stop,
                    HooksSet, Registered
<1>7. CASE LoadSettings \/ BackupSettings \/ StartUninstall \/ RemoveTemplates \/ RemoveBins
  BY <1>5, <1>7 DEF LoadSettings, BackupSettings, StartUninstall, RemoveTemplates, RemoveBins, Step, Stop,
                    HooksSet, Registered
<1>8. CASE Kill \/ HandEdit \/ LoseManifest \/ RestoreSettings
  BY <1>5, <1>8 DEF Kill, HandEdit, LoseManifest, RestoreSettings, Stop, HooksSet, Registered
<1> QED BY <1>1, <1>2, <1>3, <1>4, <1>6, <1>7, <1>8 DEF InstNext

(* The server is registered, or struck out.                                *)
LEMMA ServersDoneStep ==
  ASSUME InstTypes, ServersDone, InstNext
  PROVE  ServersDone'
<1> USE DEF files, counts, users
<1>1. ASSUME ipc' \notin Registered \cup {"unbin"} PROVE ServersDone'
  BY <1>1 DEF ServersDone
<1>2. CASE ReadServers
  <2>1. ipc' \in {"idle", "register"} \/ (ipc' = "seed" /\ op' = op /\ op.site.harness = "codex" /\ ~ op.memory)
    BY <1>2 DEF ReadServers, Stop
  <2> QED BY <2>1 DEF ServersDone, Registered
<1>3. CASE Register
  <2>1. /\ op' = op /\ op.site \in Sites /\ DOMAIN servers = Sites /\ held \in ServersDoc
        /\ \/ ipc' = "registered"
           \/ servers' = [servers EXCEPT ![op.site] = [held EXCEPT !.ours = TRUE]]
        /\ ipc' # "unbin"
    BY <1>3 DEF Register, Step, InstTypes, FilesTyped, CommandTyped, InstallOp
  <2>2. PICK d : d = [held EXCEPT !.ours = TRUE]
    OBVIOUS
  <2>3. d.ours
    BY <2>1, <2>2 DEF ServersDoc
  <2>4. CASE servers' = [servers EXCEPT ![op.site] = [held EXCEPT !.ours = TRUE]]
    <3>1. servers'[op.site] = d
      BY <2>1, <2>2, <2>4
    <3> QED BY <2>1, <2>3, <3>1 DEF ServersDone
  <2> QED BY <1>1, <2>1, <2>4 DEF Registered
<1>4. CASE StripMcpEntry
  <2>1. /\ op' = op /\ op.site \in Sites /\ DOMAIN servers = Sites /\ ipc' = "unbin"
    BY <1>4 DEF StripMcpEntry, Step, InstTypes, FilesTyped, CommandTyped, InstallOp
  <2>2. PICK d \in {Gone, Half} \cup ServersDoc : d = servers[op.site]
    BY <2>1 DEF InstTypes, FilesTyped
  <2>3. PICK c : c = IF d \in {Gone, Half} THEN d ELSE [d EXCEPT !.ours = FALSE, !.env = FALSE]
    OBVIOUS
  <2>4. servers' = [servers EXCEPT ![op.site] = c]
    BY <1>4, <2>2, <2>3 DEF StripMcpEntry
  <2>5. c \in {Gone, Half} \/ ~ c.ours
    BY <2>2, <2>3 DEF ServersDoc
  <2>6. servers'[op.site] = c
    BY <2>1, <2>4
  <2> QED BY <2>1, <2>5, <2>6 DEF ServersDone, Registered
<1>5. CASE Seed
  <2>1. ipc \in Registered /\ ipc' \in Registered /\ op' = op /\ servers' = servers
    BY <1>5 DEF Seed, Step, Registered
  <2> QED BY <2>1 DEF ServersDone, Registered
<1>6. CASE StartInstall \/ CmdUpdate \/ LoadManifest \/ BackUpTemplate \/ CopyTemplate \/ SaveManifest \/ Relocate
  BY <1>1, <1>6 DEF StartInstall, CmdUpdate, LoadManifest, BackUpTemplate, CopyTemplate, SaveManifest, Relocate,
                    Step, Stop, Registered
<1>7. CASE LoadSettings \/ BackupSettings \/ SaveSettings \/ Finish \/ StartUninstall \/ RemoveTemplates
  BY <1>1, <1>7 DEF LoadSettings, BackupSettings, SaveSettings, Finish, StartUninstall, RemoveTemplates,
                    Step, Stop, Registered
<1>8. CASE StripManagedHooks \/ RemoveBins \/ Kill \/ HandEdit \/ LoseManifest \/ RestoreSettings
  BY <1>1, <1>8 DEF StripManagedHooks, RemoveBins, Kill, HandEdit, LoseManifest, RestoreSettings, Step, Stop,
                    Registered
<1> QED BY <1>2, <1>3, <1>4, <1>5, <1>6, <1>7, <1>8 DEF InstNext

(* The binary the server runs is the one of the version installed, from a  *)
(* release from the start, from a staging directory once relocated.        *)
LEMMA BinsDoneStep ==
  ASSUME InstTypes, BinsDone, InstNext
  PROVE  BinsDone'
<1> USE DEF files, counts, users
<1>0. "hoangsa-memory-mcp" \in DOMAIN bins
  BY Constants DEF InstTypes, FilesTyped
<1>1. ASSUME ipc' \in {"idle", "untree", "unhook", "unserve", "unbin"} PROVE BinsDone'
  BY <1>1 DEF BinsDone, Installing, Recorded, Copying, Setting, HooksSet, Registered
<1>2. CASE StartInstall
  <2>1. op'.site.harness = "cowork" \/ ipc' = "manifest"
    BY <1>2 DEF StartInstall
  <2>2. op'.from = "release" => bins'["hoangsa-memory-mcp"] = op'.version
    <3>1. PICK o \in InstallOps : op' = o /\ bins' = Placed(o)
      BY <1>2 DEF StartInstall
    <3> QED BY <1>0, <3>1 DEF Placed
  <2> QED BY <2>1, <2>2 DEF BinsDone, Setting, HooksSet, Registered
<1>3. CASE CmdUpdate
  <2>1. PICK o \in InstallOps :
          \/ op' = [o EXCEPT !.do = "install"] /\ ipc' = "manifest" /\ bins' = Placed(o)
          \/ ipc' = "idle"
    BY <1>3 DEF CmdUpdate
  <2>2. CASE op' = [o EXCEPT !.do = "install"] /\ ipc' = "manifest" /\ bins' = Placed(o)
    <3>1. o \in InstallOp
      BY InstallAssumption
    <3>2. op'.from = o.from /\ op'.version = o.version
      BY <2>2, <3>1 DEF InstallOp
    <3>3. op'.from = "release" => bins'["hoangsa-memory-mcp"] = op'.version
      BY <1>0, <2>2, <3>2 DEF Placed
    <3> QED BY <2>2, <3>3 DEF BinsDone, Setting, HooksSet, Registered
  <2> QED BY <1>1, <2>1, <2>2
<1>4. CASE Relocate
  <2>1. CASE op.memory /\ op.from = "staging" /\ ipc' # "idle"
    <3>1. /\ ipc' = "settings" /\ op' = op
          /\ bins' = [b \in DOMAIN bins |-> IF \E i \in 1 .. 2 : Bins[i] = b THEN op.version ELSE bins[b]]
      BY <1>4, <2>1 DEF Relocate, Stop
    <3>2. Bins[2] = "hoangsa-memory-mcp" /\ 2 \in 1 .. 2
      BY DEF Bins
    <3>3. bins'["hoangsa-memory-mcp"] = op.version
      BY <1>0, <3>1, <3>2
    <3> QED BY <3>1, <3>3 DEF BinsDone
  <2>2. CASE ~ (op.memory /\ op.from = "staging")
    <3>1. ipc = "relocate" /\ ipc' = "settings" /\ op' = op /\ bins' = bins
      BY <1>4, <2>2 DEF Relocate
    <3> QED BY <2>2, <3>1 DEF BinsDone, Installing, Recorded, Setting, Copying, HooksSet, Registered
  <2> QED BY <1>1, <2>1, <2>2
<1>5. CASE LoadManifest \/ BackUpTemplate \/ CopyTemplate
  <2>1. bins' = bins /\ ipc \in {"manifest"} \cup Copying /\ (ipc' = "idle" \/ (ipc' \in Copying /\ op' = op))
    BY <1>5 DEF LoadManifest, BackUpTemplate, CopyTemplate, Step, Stop, Copying
  <2> QED BY <2>1 DEF BinsDone, Installing, Recorded, Copying, Setting, HooksSet, Registered
<1>6. CASE SaveManifest
  <2>1. /\ bins' = bins /\ op' = op /\ ipc \in {"file", "saved"} /\ ipc' \in {"saved", "relocate", "settings"}
        /\ ipc' = "settings" => op.site.harness = "codex"
    BY <1>6 DEF SaveManifest, Step
  <2> QED BY <2>1 DEF BinsDone, Installing, Recorded, Copying, Setting, HooksSet, Registered
<1>7. CASE LoadSettings \/ BackupSettings \/ SaveSettings \/ ReadServers \/ Register \/ Seed \/ Finish
  <2>1. /\ bins' = bins /\ ipc \in Setting \cup HooksSet
        /\ ipc' = "idle" \/ (ipc' \in Setting \cup HooksSet /\ op' = op)
    BY <1>7 DEF LoadSettings, BackupSettings, SaveSettings, ReadServers, Register, Seed, Finish, Step, Stop,
                Setting, HooksSet, Registered
  <2> QED BY <2>1 DEF BinsDone, Installing, Recorded, Copying, Setting, HooksSet, Registered
<1>8. CASE \/ StartUninstall \/ RemoveTemplates \/ StripManagedHooks \/ StripMcpEntry \/ RemoveBins
           \/ Kill \/ HandEdit \/ LoseManifest \/ RestoreSettings
  BY <1>1, <1>8 DEF StartUninstall, RemoveTemplates, StripManagedHooks, StripMcpEntry, RemoveBins,
                    Kill, HandEdit, LoseManifest, RestoreSettings, Step, Stop
<1> QED BY <1>2, <1>3, <1>4, <1>5, <1>6, <1>7, <1>8 DEF InstNext

(* A report is made by the step that ends a command.                       *)
LEMMA SilentStep ==
  ASSUME Silent, InstNext
  PROVE  Silent'
<1>1. CASE StartInstall \/ CmdUpdate \/ LoadManifest \/ BackUpTemplate \/ CopyTemplate \/ SaveManifest \/ Relocate
  BY <1>1 DEF Silent, StartInstall, CmdUpdate, LoadManifest, BackUpTemplate, CopyTemplate, SaveManifest, Relocate,
              Step, Stop
<1>2. CASE LoadSettings \/ BackupSettings \/ SaveSettings \/ ReadServers \/ Register \/ Seed \/ Finish
  BY <1>2 DEF Silent, LoadSettings, BackupSettings, SaveSettings, ReadServers, Register, Seed, Finish, Step, Stop
<1>3. CASE StartUninstall \/ RemoveTemplates \/ StripManagedHooks \/ StripMcpEntry \/ RemoveBins
  BY <1>3 DEF Silent, StartUninstall, RemoveTemplates, StripManagedHooks, StripMcpEntry, RemoveBins, Step
<1>4. CASE Kill \/ HandEdit \/ LoseManifest \/ RestoreSettings
  BY <1>4 DEF Silent, Kill, HandEdit, LoseManifest, RestoreSettings, Stop
<1> QED BY <1>1, <1>2, <1>3, <1>4 DEF InstNext

(* So the report is true where it is made, and forgotten where the files   *)
(* may change again.                                                       *)
LEMMA ReportStep ==
  ASSUME InstTypes, Places, InstNext
  PROVE  ReportedTrue'
<1> USE DEF files, counts, users
<1>1. ASSUME told' \notin {"ok", "partial", "removed", "current"} PROVE ReportedTrue'
  BY <1>1 DEF ReportedTrue
<1>2. CASE Finish
  <2>1. /\ ipc = "done" /\ told' \in {"ok", "partial"} /\ op' = op /\ tree' = tree /\ manifest' = manifest
        /\ settings' = settings /\ servers' = servers /\ bins' = bins
    BY <1>2 DEF Finish
  <2>2. ipc \in HooksSet /\ ipc \in Recorded /\ ipc \in Registered /\ ipc \in Installing
    BY <2>1 DEF Installing, Recorded, HooksSet, Registered
  <2>3. op \in InstallOp
    BY <2>1 DEF InstTypes, CommandTyped
  <2>4. ASSUME op.site.harness # "cowork"
        PROVE  /\ \A k \in Shipped(op.version) : tree[op.site][k] = Body(k, op.version)
               /\ manifest[op.site.harness] = NewManifest
               /\ {e \in settings[op.site].hooks : IsHoangsaEntry(e) /\ e.event \in Hooked[op.site.harness][op.version]}
                    = Managed(op.site.harness, op.version)
               /\ (op.site.harness = "codex" /\ ~ op.memory) \/ servers[op.site].ours
    BY <2>2, <2>4 DEF Places, TreeDone, ManifestDone, HooksDone, ServersDone
  <2>5. op.site.harness = "claude" /\ op.memory /\ op.from # "plain" => bins["hoangsa-memory-mcp"] = op.version
    BY <2>2, <2>3 DEF Places, BinsDone, InstallOp
  <2>6. NewManifest' = NewManifest
    BY <2>1 DEF NewManifest
  <2> QED BY <2>1, <2>4, <2>5, <2>6 DEF ReportedTrue
<1>3. CASE RemoveBins
  <2>1. /\ ipc = "unbin" /\ told' = "removed" /\ op' = op /\ settings' = settings /\ servers' = servers
        /\ bins' = [b \in DOMAIN bins |-> NoValue]
    BY <1>3 DEF RemoveBins
  <2>2. /\ settings[op.site] \notin {Gone, Half} => \A e \in settings[op.site].hooks : e.kind # "managed"
        /\ servers[op.site] \notin {Gone, Half} => ~ servers[op.site].ours
    BY <2>1 DEF Places, HooksDone, ServersDone
  <2>3. \A b \in DOMAIN bins' : bins'[b] = NoValue
    BY <2>1
  <2> QED BY <2>1, <2>2, <2>3 DEF ReportedTrue
<1>4. CASE CmdUpdate
  <2>1. CASE told' = "current"
    <3>1. PICK o \in InstallOps :
            /\ ~ IsNewer(o.version, manifest["claude"].version)
            /\ op' = [IdleOp EXCEPT !.version = o.version] /\ manifest' = manifest
      BY <1>4, <2>1 DEF CmdUpdate
    <3>2. op'.version = o.version
      BY <3>1 DEF IdleOp
    <3> QED BY <2>1, <3>1, <3>2 DEF ReportedTrue
  <2> QED BY <1>1, <1>4, <2>1 DEF CmdUpdate
<1>5. CASE StartInstall \/ StartUninstall \/ Kill \/ HandEdit \/ LoseManifest \/ RestoreSettings
  BY <1>1, <1>5 DEF StartInstall, StartUninstall, Kill, HandEdit, LoseManifest, RestoreSettings, Stop
<1>6. CASE LoadManifest \/ BackUpTemplate \/ CopyTemplate \/ SaveManifest \/ Relocate
  BY <1>1, <1>6 DEF Places, Silent, LoadManifest, BackUpTemplate, CopyTemplate, SaveManifest, Relocate, Step, Stop
<1>7. CASE LoadSettings \/ BackupSettings \/ SaveSettings \/ ReadServers \/ Register \/ Seed
  BY <1>1, <1>7 DEF Places, Silent, LoadSettings, BackupSettings, SaveSettings, ReadServers, Register, Seed,
                    Step, Stop
<1>8. CASE RemoveTemplates \/ StripManagedHooks \/ StripMcpEntry
  BY <1>1, <1>8 DEF Places, Silent, RemoveTemplates, StripManagedHooks, StripMcpEntry, Step
<1> QED BY <1>2, <1>3, <1>4, <1>5, <1>6, <1>7, <1>8 DEF InstNext

(* For every set of sites, releases and templates: what an install, an     *)
(* uninstall or an update reports at its end is so.                        *)
THEOREM ReportsTrue == InstSpec => []ReportedTrue
<1> DEFINE IInv == InstTypes /\ Places
<1>1. InstInit => IInv
  <2> SUFFICES ASSUME InstInit PROVE Places
    BY TypesInit
  <2>1. ipc = "idle" /\ told = "nothing"
    BY DEF InstInit
  <2> QED BY <2>1 DEF Places, TreeDone, ManifestDone, HooksDone, ServersDone, BinsDone, Silent, ReportedTrue,
                      Installing, Recorded, Setting, Copying, HooksSet, Registered
<1>2. IInv /\ [InstNext]_instVars => IInv'
  <2> SUFFICES ASSUME IInv, [InstNext]_instVars PROVE IInv'
    OBVIOUS
  <2>1. CASE InstNext
    <3>1. InstTypes'
      BY <2>1, TypesStep
    <3>2. TreeDone' /\ ManifestDone' /\ HooksDone'
      BY <2>1, TreeDoneStep, ManifestDoneStep, HooksDoneStep DEF Places
    <3>3. ServersDone' /\ BinsDone' /\ Silent'
      BY <2>1, ServersDoneStep, BinsDoneStep, SilentStep DEF Places
    <3>4. ReportedTrue'
      BY <2>1, ReportStep
    <3> QED BY <3>1, <3>2, <3>3, <3>4 DEF Places
  <2>2. CASE UNCHANGED instVars
    <3>1. InstTypes'
      BY <2>2 DEF instVars, InstTypes, FilesTyped, CommandTyped
    <3>2. TreeDone' /\ ServersDone' /\ BinsDone' /\ Silent'
      BY <2>2 DEF instVars, Places, TreeDone, ServersDone, BinsDone, Silent
    <3>3. ManifestDone' /\ HooksDone'
      BY <2>2 DEF instVars, Places, ManifestDone, HooksDone, NewManifest, Managed, IsHoangsaEntry
    <3>4. ReportedTrue'
      BY <2>2 DEF instVars, Places, ReportedTrue, NewManifest, Managed, IsHoangsaEntry
    <3> QED BY <3>1, <3>2, <3>3, <3>4 DEF Places
  <2> QED BY <2>1, <2>2
<1>3. IInv => ReportedTrue
  BY DEF Places
<1> QED BY <1>1, <1>2, <1>3, PTL DEF InstSpec

-----------------------------------------------------------------------------
(* The pointer blocks                                                      *)

Lines == (UNION {ToSet(doc) : doc \in Pages}) \cup {Start, End, "import", "plain"}
Unmarked == {doc \in Seq(Lines) : At(doc, Start) = {} /\ At(doc, End) = {}}
Wrapped(pre, line, post) == pre \o Block(line) \o post

(* A block between lines without markers is found where it is.             *)
LEMMA WrappedApart ==
  ASSUME NEW pre \in Unmarked, NEW post \in Unmarked, NEW line \in Lines \ {Start, End}
  PROVE  LET doc == Wrapped(pre, line, post) IN
         /\ doc \in Seq(Lines) /\ Len(doc) = Len(pre) + 3 + Len(post)
         /\ At(doc, Start) = {Len(pre) + 1} /\ At(doc, End) = {Len(pre) + 3}
         /\ SubSeq(doc, 1, Len(pre)) = pre
         /\ SubSeq(doc, Len(pre) + 4, Len(doc)) = post
<1> DEFINE doc == Wrapped(pre, line, post)
<1>1. pre \in Seq(Lines) /\ post \in Seq(Lines) /\ Block(line) \in Seq(Lines)
  <2>1. Start \in Lines /\ End \in Lines
    BY DEF Lines
  <2> QED BY <2>1 DEF Unmarked, Block
<1>2. /\ doc \in Seq(Lines) /\ Len(doc) = Len(pre) + 3 + Len(post)
      /\ DOMAIN doc = 1 .. Len(pre) + 3 + Len(post)
  BY <1>1 DEF Wrapped, Block
<1>3. \A i \in 1 .. Len(pre) : doc[i] = pre[i]
  BY <1>1 DEF Wrapped, Block
<1>4. doc[Len(pre) + 1] = Start /\ doc[Len(pre) + 2] = line /\ doc[Len(pre) + 3] = End
  BY <1>1 DEF Wrapped, Block
<1>5. \A i \in 1 .. Len(post) : doc[Len(pre) + 3 + i] = post[i]
  BY <1>1 DEF Wrapped, Block
<1>6. /\ \A i \in 1 .. Len(pre) : pre[i] # Start /\ pre[i] # End
      /\ \A i \in 1 .. Len(post) : post[i] # Start /\ post[i] # End
  BY <1>1 DEF Unmarked, At
<1>7. ASSUME NEW i \in DOMAIN doc
      PROVE  (doc[i] = Start <=> i = Len(pre) + 1) /\ (doc[i] = End <=> i = Len(pre) + 3)
  <2>0. Len(pre) \in Nat /\ Len(post) \in Nat /\ Start # End /\ line # Start /\ line # End
    BY <1>1 DEF Start, End
  <2>1. CASE i \in 1 .. Len(pre)
    BY <1>3, <1>6, <2>0, <2>1
  <2>2. CASE i \in {Len(pre) + 1, Len(pre) + 2, Len(pre) + 3}
    BY <1>4, <2>0, <2>2
  <2>3. CASE i > Len(pre) + 3
    <3>1. PICK j \in 1 .. Len(post) : i = Len(pre) + 3 + j
      <4>1. i - Len(pre) - 3 \in 1 .. Len(post)
        BY <1>2, <1>7, <2>0, <2>3
      <4> QED BY <1>2, <1>7, <2>0, <4>1
    <3> QED BY <1>5, <1>6, <2>0, <3>1
  <2> QED BY <1>2, <1>7, <2>0, <2>1, <2>2, <2>3
<1>8. At(doc, Start) = {Len(pre) + 1} /\ At(doc, End) = {Len(pre) + 3}
  <2>1. Len(pre) + 1 \in DOMAIN doc /\ Len(pre) + 3 \in DOMAIN doc
    BY <1>1, <1>2
  <2> HIDE DEF doc
  <2> QED BY <1>7, <2>1 DEF At
<1>9. SubSeq(doc, 1, Len(pre)) = pre
  <2> HIDE DEF doc
  <2> QED BY <1>1, <1>2, <1>3
<1>10. SubSeq(doc, Len(pre) + 4, Len(doc)) = post
  <2>1. Len(pre) \in Nat /\ Len(post) \in Nat
    BY <1>1
  <2>2. PICK t : t = SubSeq(doc, Len(pre) + 4, Len(doc))
    OBVIOUS
  <2> HIDE DEF doc
  <2>3. t \in Seq(Lines) /\ Len(t) = Len(post) /\ \A i \in 1 .. Len(post) : t[i] = doc[Len(pre) + 3 + i]
    BY <1>2, <2>1, <2>2
  <2> QED BY <1>1, <1>5, <2>2, <2>3
<1> QED BY <1>2, <1>8, <1>9, <1>10

(* The lines before and after the block of a document in order.            *)
LEMMA Parts ==
  ASSUME NEW doc \in Seq(Lines), Paired(doc)
  PROVE  \E pre, post \in Unmarked :
           /\ Outside(doc) = pre \o post
           /\ \A style : Upsert(doc, style) = Wrapped(pre, style, post)
<1>1. CASE At(doc, Start) = {} /\ At(doc, End) = {}
  <2>1. doc \in Unmarked /\ <<>> \in Unmarked
    BY <1>1 DEF Unmarked, At
  <2>2. Outside(doc) = doc \o <<>>
    BY <1>1 DEF Outside
  <2>3. ASSUME NEW style PROVE Upsert(doc, style) = Wrapped(doc, style, <<>>)
    <3>1. Upsert(doc, style) = doc \o Block(style)
      BY <1>1 DEF Upsert
    <3>2. PICK b : b = Block(style) /\ b = <<Start, style, End>>
      BY DEF Block
    <3>3. (doc \o b) \o <<>> = doc \o b
      BY <3>2
    <3> QED BY <3>1, <3>2, <3>3 DEF Wrapped
  <2> QED BY <2>1, <2>2, <2>3
<1>2. ASSUME NEW s \in DOMAIN doc, NEW e \in DOMAIN doc, s < e, At(doc, Start) = {s}, At(doc, End) = {e}
      PROVE  \E pre, post \in Unmarked :
               /\ Outside(doc) = pre \o post
               /\ \A style : Upsert(doc, style) = Wrapped(pre, style, post)
  <2>0. s \in 1 .. Len(doc) /\ e \in 1 .. Len(doc) /\ Len(doc) \in Nat
    BY <1>2
  <2>1. Min({s}) = s /\ Min({e}) = e /\ Max({e}) = e
    BY <2>0 DEF Min, Max
  <2>2. PICK pre, post : pre = SubSeq(doc, 1, s - 1) /\ post = SubSeq(doc, e + 1, Len(doc))
    OBVIOUS
  <2>3. pre \in Seq(Lines) /\ Len(pre) = s - 1 /\ \A i \in 1 .. s - 1 : pre[i] = doc[i]
    BY <2>0, <2>2
  <2>4. post \in Seq(Lines) /\ Len(post) = Len(doc) - e /\ \A i \in 1 .. Len(doc) - e : post[i] = doc[e + i]
    BY <2>0, <2>2, SMTT(30)
  <2>5. \A i \in DOMAIN doc : (doc[i] = Start => i = s) /\ (doc[i] = End => i = e)
    BY <1>2 DEF At
  <2>6. pre \in Unmarked
    <3>1. \A i \in 1 .. s - 1 : i \in DOMAIN doc /\ i # s /\ i # e
      BY <1>2, <2>0
    <3>2. \A i \in DOMAIN pre : pre[i] # Start /\ pre[i] # End
      BY <2>0, <2>3, <2>5, <3>1
    <3> QED BY <2>3, <3>2 DEF Unmarked, At
  <2>7. post \in Unmarked
    <3>1. \A i \in 1 .. Len(doc) - e : e + i \in DOMAIN doc /\ e + i # s /\ e + i # e
      BY <1>2, <2>0
    <3>2. \A i \in DOMAIN post : post[i] # Start /\ post[i] # End
      BY <2>0, <2>4, <2>5, <3>1
    <3> QED BY <2>4, <3>2 DEF Unmarked, At
  <2>8. Outside(doc) = pre \o post
    BY <1>2, <2>1, <2>2 DEF Outside
  <2>9. \A style : Upsert(doc, style) = Wrapped(pre, style, post)
    BY <1>2, <2>1, <2>2 DEF Upsert, Wrapped
  <2> QED BY <2>6, <2>7, <2>8, <2>9
<1> QED BY <1>1, <1>2 DEF Paired

(* What upsert_marker_block does to a document in order: its own lines      *)
(* stay, one block is there, and a second time changes nothing.            *)
LEMMA UpsertKeeps ==
  ASSUME NEW doc \in Seq(Lines), Paired(doc), NEW style \in {"import", "plain"}
  PROVE  /\ Upsert(doc, style) \in Seq(Lines) /\ Paired(Upsert(doc, style))
         /\ Outside(Upsert(doc, style)) = Outside(doc)
         /\ Upsert(Upsert(doc, style), style) = Upsert(doc, style)
<1>1. PICK pre \in Unmarked, post \in Unmarked :
        Outside(doc) = pre \o post /\ Upsert(doc, style) = Wrapped(pre, style, post)
  BY Parts
<1>2. PICK new : new = Wrapped(pre, style, post)
  OBVIOUS
<1>3. style \in Lines \ {Start, End}
  <2>1. style \in Lines
    BY DEF Lines
  <2>2. style # Start /\ style # End
    BY DEF Start, End
  <2> QED BY <2>1, <2>2
<1>4. /\ new \in Seq(Lines) /\ Len(new) = Len(pre) + 3 + Len(post)
      /\ At(new, Start) = {Len(pre) + 1} /\ At(new, End) = {Len(pre) + 3}
      /\ SubSeq(new, 1, Len(pre)) = pre
      /\ SubSeq(new, Len(pre) + 4, Len(new)) = post
  BY <1>2, <1>3, WrappedApart, SMTT(30)
<1>5. Len(pre) \in Nat /\ Len(post) \in Nat
  BY DEF Unmarked
<1>6. PICK s, e : s = Len(pre) + 1 /\ e = Len(pre) + 3
  OBVIOUS
<1>7. /\ s \in Nat /\ e \in Nat /\ s < e /\ s - 1 = Len(pre) /\ e + 1 = Len(pre) + 4
      /\ s \in DOMAIN new /\ e \in DOMAIN new
  BY <1>4, <1>5, <1>6
<1>8. At(new, Start) = {s} /\ At(new, End) = {e}
  BY <1>4, <1>6
<1>9. Min({s}) = s /\ Min({e}) = e /\ Max({e}) = e
  BY <1>7 DEF Min, Max
<1>10. Paired(new)
  BY <1>7, <1>8 DEF Paired
<1>11. Outside(new) = pre \o post
  BY <1>4, <1>7, <1>8, <1>9 DEF Outside
<1>12. Upsert(new, style) = new
  BY <1>2, <1>4, <1>7, <1>8, <1>9 DEF Upsert, Wrapped
<1> QED BY <1>1, <1>2, <1>4, <1>10, <1>11, <1>12

(* How many lines of a document up to one are outside its block.           *)
LEMMA OutsideCount ==
  ASSUME NEW s \in Nat, NEW e \in Nat, 1 <= s, s < e, NEW n \in Nat, n >= e
  PROVE  Cardinality((1 .. s - 1) \cup (e + 1 .. n)) = s - 1 + (n - e)
<1> DEFINE A == 1 .. s - 1
           B == e + 1 .. n
<1>1. IsFiniteSet(A) /\ Cardinality(A) = s - 1
  <2>1. IsFiniteSet(A) /\ Cardinality(A) = IF 1 > s - 1 THEN 0 ELSE s - 1 - 1 + 1
    BY FS_Interval
  <2> QED BY <2>1
<1>2. IsFiniteSet(B) /\ Cardinality(B) = n - e
  <2>1. IsFiniteSet(B) /\ Cardinality(B) = IF e + 1 > n THEN 0 ELSE n - (e + 1) + 1
    BY FS_Interval
  <2> QED BY <2>1
<1>3. A \cap B = {}
  OBVIOUS
<1>4. Cardinality(A \cup B) = Cardinality(A) + Cardinality(B) - Cardinality(A \cap B)
  <2> HIDE DEF A, B
  <2> QED BY <1>1, <1>2, FS_Union
<1>5. Cardinality(A \cap B) = 0
  <2> HIDE DEF A, B
  <2> QED BY <1>3, FS_EmptySet
<1> QED BY <1>1, <1>2, <1>4, <1>5

(* strip_managed_block takes the block out of a file in order, no more.    *)
LEMMA StripKeeps ==
  ASSUME NEW doc \in Seq(Lines), Paired(doc)
  PROVE  StripManagedBlock(doc) = Outside(doc)
<1>1. CASE At(doc, Start) = {} \/ At(doc, End) = {}
  BY <1>1 DEF StripManagedBlock, Outside
<1>2. ASSUME NEW s \in DOMAIN doc, NEW e \in DOMAIN doc, s < e, At(doc, Start) = {s}, At(doc, End) = {e}
      PROVE  StripManagedBlock(doc) = Outside(doc)
  <2> DEFINE kept == {n \in DOMAIN doc : doc[n] \notin {Start, End} /\ ~ Inside(doc, n)}
             below(n) == {m \in kept : m <= n}
             place(i) == CHOOSE n \in kept : Cardinality(below(n)) = i
  <2>0. s \in 1 .. Len(doc) /\ e \in 1 .. Len(doc) /\ Len(doc) \in Nat
    BY <1>2
  <2>1. kept = (1 .. s - 1) \cup (e + 1 .. Len(doc))
    <3>1. \A n \in DOMAIN doc : doc[n] \notin {Start, End} <=> n # s /\ n # e
      BY <1>2 DEF At
    <3>2. \A n \in DOMAIN doc : Inside(doc, n) <=> s < n /\ n < e
      BY <1>2, <2>0 DEF Inside
    <3> QED BY <1>2, <2>0, <3>1, <3>2
  <2>2. Cardinality(kept) = s - 1 + (Len(doc) - e)
    <3>1. /\ s \in Nat /\ e \in Nat /\ 1 <= s /\ s < e /\ Len(doc) \in Nat /\ Len(doc) >= e
      BY <1>2, <2>0
    <3>2. Cardinality((1 .. s - 1) \cup (e + 1 .. Len(doc))) = s - 1 + (Len(doc) - e)
      BY <3>1, OutsideCount
    <3> QED BY <2>1, <3>2
  <2>3. ASSUME NEW n \in kept
        PROVE  Cardinality(below(n)) = IF n < s THEN n ELSE s - 1 + (n - e)
    <3>1. CASE n < s
      <4>1. below(n) = 1 .. n /\ n \in Nat /\ n >= 1
        BY <1>2, <2>0, <2>1, <3>1
      <4>2. Cardinality(1 .. n) = IF 1 > n THEN 0 ELSE n - 1 + 1
        BY <4>1, FS_Interval
      <4> HIDE DEF below
      <4> QED BY <3>1, <4>1, <4>2
    <3>2. CASE ~ (n < s)
      <4>1. below(n) = (1 .. s - 1) \cup (e + 1 .. n) /\ n \in Nat /\ n >= e
        BY <1>2, <2>0, <2>1, <3>2
      <4>2. s \in Nat /\ e \in Nat /\ 1 <= s /\ s < e
        BY <1>2, <2>0
      <4>3. Cardinality((1 .. s - 1) \cup (e + 1 .. n)) = s - 1 + (n - e)
        BY <4>1, <4>2, OutsideCount
      <4> HIDE DEF below
      <4> QED BY <3>2, <4>1, <4>3
    <3> QED BY <3>1, <3>2
  <2> HIDE DEF below, kept
  <2>4. ASSUME NEW i \in 1 .. s - 1 PROVE place(i) = i
    <3>1. i \in kept /\ Cardinality(below(i)) = i
      BY <2>0, <2>1, <2>3, <2>4
    <3>2. \A n \in kept : Cardinality(below(n)) = i => n = i
      BY <1>2, <2>0, <2>1, <2>3, <2>4
    <3> QED BY <3>1, <3>2
  <2>5. ASSUME NEW i \in s .. s - 1 + (Len(doc) - e) PROVE place(i) = i - s + 1 + e
    <3>1. i - s + 1 + e \in kept
      BY <1>2, <2>0, <2>1, <2>5, SMTT(30)
    <3>2. Cardinality(below(i - s + 1 + e)) = i
      <4>1. PICK n \in kept : n = i - s + 1 + e
        BY <3>1
      <4>2. n \in Nat /\ s \in Nat /\ e \in Nat /\ i \in Nat /\ i >= s
        BY <2>0, <2>1, <2>5
      <4>3. ~ (n < s) /\ s - 1 + (n - e) = i
        <5>1. s < e
          BY <1>2
        <5>2. n = i + 1 + e - s
          BY <4>1, <4>2
        <5>3. n >= 1 + e
          BY <4>2, <5>2
        <5>4. ~ (n < s)
          BY <4>2, <5>1, <5>3
        <5>5. n - e = i + 1 - s
          BY <4>2, <5>2
        <5>6. s - 1 + (n - e) = i
          BY <4>2, <5>5
        <5> QED BY <5>4, <5>6
      <4>4. Cardinality(below(n)) = s - 1 + (n - e)
        BY <2>3, <4>3
      <4> QED BY <4>1, <4>3, <4>4
    <3>3. ASSUME NEW n \in kept, Cardinality(below(n)) = i PROVE n = i - s + 1 + e
      <4>1. i = IF n < s THEN n ELSE s - 1 + (n - e)
        BY <2>3, <3>3
      <4>2. n \in Nat /\ i \in Nat /\ i >= s
        BY <2>0, <2>1, <2>5
      <4>3. s \in Nat /\ e \in Nat
        BY <2>0
      <4>4. ~ (n < s)
        BY <4>1, <4>2, <4>3
      <4>5. i = s - 1 + (n - e)
        BY <4>1, <4>4
      <4>6. n - e = i - (s - 1)
        BY <4>2, <4>3, <4>5
      <4> QED BY <4>2, <4>3, <4>6
    <3> QED BY <3>1, <3>2, <3>3
  <2>6. StripManagedBlock(doc) = [i \in 1 .. s - 1 + (Len(doc) - e) |-> doc[place(i)]]
    <3>1. StripManagedBlock(doc) = [i \in 1 .. Cardinality(kept) |-> doc[place(i)]]
      BY <1>2 DEF StripManagedBlock, kept, below
    <3> QED BY <2>2, <3>1
  <2> HIDE DEF place
  <2>7. Outside(doc) = SubSeq(doc, 1, s - 1) \o SubSeq(doc, e + 1, Len(doc))
    <3>1. Min({s}) = s /\ Max({e}) = e
      BY <2>0 DEF Min, Max
    <3> QED BY <1>2, <3>1 DEF Outside
  <2>8. PICK pre, post : pre = SubSeq(doc, 1, s - 1) /\ post = SubSeq(doc, e + 1, Len(doc))
    OBVIOUS
  <2>9. pre \in Seq(Lines) /\ Len(pre) = s - 1 /\ \A i \in 1 .. s - 1 : pre[i] = doc[i]
    BY <2>0, <2>8
  <2>10. /\ post \in Seq(Lines) /\ Len(post) = Len(doc) - e
         /\ \A i \in 1 .. Len(doc) - e : post[i] = doc[e + i]
    BY <2>0, <2>8
  <2>11. /\ Len(pre \o post) = s - 1 + (Len(doc) - e)
         /\ \A i \in 1 .. s - 1 + (Len(doc) - e) :
              (pre \o post)[i] = IF i <= s - 1 THEN pre[i] ELSE post[i - (s - 1)]
    <3>1. /\ Len(pre \o post) = Len(pre) + Len(post)
          /\ \A i \in 1 .. Len(pre) + Len(post) :
               (pre \o post)[i] = IF i <= Len(pre) THEN pre[i] ELSE post[i - Len(pre)]
      <4>0. pre \in Seq(Lines) /\ post \in Seq(Lines)
        BY <2>9, <2>10
      <4>1. Len(pre \o post) = Len(pre) + Len(post)
        BY <4>0
      <4>2. ASSUME NEW i \in 1 .. Len(pre) + Len(post)
            PROVE  (pre \o post)[i] = IF i <= Len(pre) THEN pre[i] ELSE post[i - Len(pre)]
        BY <4>0
      <4> QED BY <4>1, <4>2
    <3> QED BY <2>9, <2>10, <3>1
  <2>12. ASSUME NEW i \in 1 .. s - 1 + (Len(doc) - e) PROVE (pre \o post)[i] = doc[place(i)]
    <3>1. CASE i <= s - 1
      BY <2>0, <2>4, <2>9, <2>11, <3>1, SMTT(30)
    <3>2. CASE ~ (i <= s - 1)
      <4>1. i - (s - 1) \in 1 .. Len(doc) - e /\ i \in s .. s - 1 + (Len(doc) - e)
        BY <2>0, <3>2
      <4>2. post[i - (s - 1)] = doc[e + (i - (s - 1))] /\ place(i) = i - s + 1 + e
        BY <2>5, <2>10, <4>1
      <4>3. e + (i - (s - 1)) = i - s + 1 + e
        BY <2>0
      <4> QED BY <2>11, <3>2, <4>2, <4>3
    <3> QED BY <3>1, <3>2
  <2>13. pre \o post = [i \in 1 .. s - 1 + (Len(doc) - e) |-> doc[place(i)]]
    <3>1. PICK t : t = pre \o post
      OBVIOUS
    <3>2. t \in Seq(Lines) /\ Len(t) = s - 1 + (Len(doc) - e)
      BY <2>9, <2>10, <2>11, <3>1
    <3>3. t = [i \in 1 .. s - 1 + (Len(doc) - e) |-> t[i]]
      BY <3>2
    <3> QED BY <2>12, <3>1, <3>3
  <2> QED BY <2>6, <2>7, <2>8, <2>13
<1> QED BY <1>1, <1>2 DEF Paired

(* What is left has no markers.                                           *)
LEMMA OutsideUnmarked ==
  ASSUME NEW doc \in Seq(Lines), Paired(doc)
  PROVE  LET out == Outside(doc) IN
         out \in Seq(Lines) /\ Paired(out) /\ Outside(out) = out /\ StripManagedBlock(out) = out
<1>1. PICK pre \in Unmarked, post \in Unmarked : Outside(doc) = pre \o post
  BY Parts
<1>2. PICK out : out = pre \o post
  OBVIOUS
<1>3. out \in Seq(Lines) /\ \A i \in DOMAIN out : out[i] # Start /\ out[i] # End
  <2>1. pre \in Seq(Lines) /\ post \in Seq(Lines)
    BY DEF Unmarked
  <2>2. /\ \A i \in 1 .. Len(pre) : pre[i] # Start /\ pre[i] # End
        /\ \A i \in 1 .. Len(post) : post[i] # Start /\ post[i] # End
    BY <2>1 DEF Unmarked, At
  <2>3. ASSUME NEW i \in DOMAIN out PROVE out[i] # Start /\ out[i] # End
    <3>1. i \in 1 .. Len(pre) + Len(post) /\ Len(pre) \in Nat /\ Len(post) \in Nat
      BY <1>2, <2>1
    <3>2. out[i] = IF i <= Len(pre) THEN pre[i] ELSE post[i - Len(pre)]
      BY <1>2, <2>1, <3>1
    <3> QED BY <2>2, <3>1, <3>2
  <2> QED BY <1>2, <2>1, <2>3
<1>4. At(out, Start) = {} /\ At(out, End) = {}
  BY <1>3 DEF At
<1> QED BY <1>1, <1>2, <1>3, <1>4 DEF Paired, Outside, StripManagedBlock

Documents == {"claude", "agents"}
GuideFiles == {"claude", "agents", "rc"}

(* The document a sync has emptied and is about to fill from what it read. *)
InHand(f) ==
  \/ sync = "claude!" /\ (f = "claude" \/ (linked /\ f = "agents"))
  \/ sync = "agents!" /\ f = "agents"
Held(f) == IF InHand(f) THEN seen ELSE page[f]

(* Nothing was killed: whoever has a file has it with its own lines, and    *)
(* one that a sync is done with would not be changed by the next.          *)
Spared(f) ==
  Paired(first[f]) /\ syncKills = 0 =>
    Held(f) \in Seq(Lines) /\ Paired(Held(f)) /\ Outside(Held(f)) = Outside(first[f])
Synced(f) == (f = "claude" /\ sync \in {"agents", "agents!"}) \/ (sync = "idle" /\ syncs > 0)
Settled(f) == Paired(first[f]) /\ syncKills = 0 /\ Synced(f) => Upsert(page[f], Style(f)) = page[f]

GuideInv ==
  /\ DOMAIN page = GuideFiles /\ first \in [GuideFiles -> Seq(Lines)]
  /\ syncs \in Nat /\ syncKills \in Nat
  /\ sync \in {"idle", "body", "claude", "claude!", "agents", "agents!"}
  /\ linked => sync \notin {"agents", "agents!"} /\ page["claude"] = page["agents"] /\ first["claude"] = first["agents"]
  /\ syncKills = 0 /\ sync # "body" /\ (sync # "idle" \/ syncs > 0) => body = "current"
  /\ \A f \in GuideFiles : Spared(f)
  /\ \A f \in Documents : Settled(f)

(* What a write changes: one file, or the one that two names lead to.      *)
LEMMA PutTo ==
  ASSUME DOMAIN page = GuideFiles, NEW f \in GuideFiles, NEW doc, Put(f, doc)
  PROVE  /\ DOMAIN page' = GuideFiles
         /\ \A g \in GuideFiles :
              page'[g] = IF g = f \/ (linked /\ f # "rc" /\ g # "rc") THEN doc ELSE page[g]
<1>1. CASE linked /\ f # "rc"
  BY <1>1 DEF Put, GuideFiles
<1>2. CASE ~ (linked /\ f # "rc")
  BY <1>2 DEF Put, GuideFiles
<1> QED BY <1>1, <1>2

(* As they are found, the documents are as they were.                      *)
LEMMA GuideStarts ==
  ASSUME GuideInit
  PROVE  GuideInv
<1>1. first = page /\ page \in [GuideFiles -> Pages] /\ sync = "idle" /\ syncs = 0 /\ syncKills = 0
  BY DEF GuideInit, GuideFiles
<1>2. ASSUME NEW f \in GuideFiles PROVE page[f] \in Seq(Lines)
  <2>1. PICK L : L = UNION {ToSet(doc) : doc \in Pages}
    OBVIOUS
  <2>2. page[f] \in Seq(L) /\ L \subseteq Lines
    BY <1>1, <2>1, GuidanceAssumption DEF Lines
  <2> QED BY <2>2
<1>3. \A f \in GuideFiles : Spared(f)
  BY <1>1, <1>2 DEF Spared, Held, InHand
<1>4. \A f \in Documents : Settled(f)
  BY <1>1 DEF Settled, Synced
<1> QED BY <1>1, <1>2, <1>3, <1>4 DEF GuideInv, GuideInit

(* A step of the sync that writes no file.                                 *)
LEMMA GuideGoesOn ==
  ASSUME GuideInv, UNCHANGED <<page, linked, first, syncKills>>, syncs' \in Nat,
         sync' \in {"idle", "body", "claude", "agents"}, sync \notin {"claude!", "agents!"},
         linked => sync' # "agents",
         sync' # "body" /\ (sync' # "idle" \/ syncs' > 0) /\ syncKills = 0 => body' = "current",
         \A f \in Documents : Paired(first[f]) /\ syncKills = 0 /\ Synced(f)' => Upsert(page[f], Style(f)) = page[f]
  PROVE  GuideInv'
<1>1. ASSUME NEW f \in GuideFiles PROVE Spared(f)'
  <2>1. Held(f)' = page[f] /\ Held(f) = page[f]
    BY DEF Held, InHand
  <2> QED BY <2>1 DEF GuideInv, Spared
<1>2. ASSUME NEW f \in Documents PROVE Settled(f)'
  <2>1. Style(f)' = Style(f)
    BY DEF Style
  <2> QED BY <2>1 DEF Settled
<1> QED BY <1>1, <1>2 DEF GuideInv

(* The guidance document is written before the pointer blocks.             *)
LEMMA SyncBodyKeeps ==
  ASSUME GuideInv, SyncBody
  PROVE  GuideInv'
<1>1. UNCHANGED <<page, linked, first, syncKills>>
  BY DEF SyncBody, Meanwhile
<1>2. \/ /\ sync = "idle" /\ syncs' = syncs + 1
         /\ (sync' = "claude" /\ body' = "current") \/ sync' = "body"
      \/ sync = "body" /\ sync' = "claude" /\ body' = "current" /\ syncs' = syncs
  BY DEF SyncBody
<1>3. syncs' \in Nat /\ sync' \in {"body", "claude"} /\ sync \notin {"claude!", "agents!"}
  BY <1>2 DEF GuideInv
<1>4. \A f \in Documents : ~ Synced(f)'
  BY <1>3 DEF Synced
<1>5. sync' # "body" => body' = "current"
  BY <1>2
<1> QED BY <1>1, <1>3, <1>4, <1>5, GuideGoesOn

(* A document is emptied, or is as the sync wants it already.              *)
LEMMA SyncPageKeeps ==
  ASSUME GuideInv, SyncPage
  PROVE  GuideInv'
<1>1. sync \in Documents /\ sync \in GuideFiles /\ UNCHANGED <<linked, first, syncKills, body, syncs>>
  BY DEF SyncPage, Meanwhile, Documents, GuideFiles
<1>2. PICK after : after = IF sync = "agents" \/ linked THEN "idle" ELSE "agents"
  OBVIOUS
<1>3. PICK style \in {"import", "plain"} : style = Style(sync)
  BY DEF Style
<1>4. PICK new : new = Upsert(page[sync], style)
  OBVIOUS
<1>5. Held(sync) = page[sync] /\ \A f \in GuideFiles : Held(f) = page[f]
  BY <1>1 DEF Held, InHand, Documents
<1>6. CASE new = page[sync] /\ sync' = after /\ UNCHANGED <<page, seen>>
  <2>1. ASSUME NEW f \in Documents, Paired(first[f]), syncKills = 0, Synced(f)'
        PROVE  Upsert(page[f], Style(f)) = page[f]
    <3>1. CASE f = sync
      BY <1>3, <1>4, <1>6, <3>1
    <3>2. CASE f # sync /\ sync = "agents"
      <4>1. f = "claude" /\ Synced(f)
        BY <2>1, <3>2 DEF Documents, Synced
      <4> QED BY <2>1, <4>1 DEF GuideInv, Settled, Documents
    <3>3. CASE f # sync /\ sync = "claude" /\ linked
      <4>1. f = "agents" /\ page[f] = page[sync] /\ Style(f) = Style(sync)
        BY <1>1, <2>1, <3>3 DEF GuideInv, Documents, Style
      <4> QED BY <1>3, <1>4, <1>6, <4>1
    <3>4. CASE f # sync /\ sync = "claude" /\ ~ linked
      BY <1>2, <1>6, <2>1, <3>4 DEF Synced, Documents
    <3> QED BY <1>1, <3>1, <3>2, <3>3, <3>4 DEF Documents
  <2>2. sync' \in {"idle", "agents"} /\ (linked => sync' # "agents")
    BY <1>2, <1>6
  <2>3. syncs' \in Nat /\ sync \notin {"claude!", "agents!"} /\ (syncKills = 0 => body' = "current")
    BY <1>1 DEF GuideInv, Documents
  <2> QED BY <1>1, <1>6, <2>1, <2>2, <2>3, GuideGoesOn
<1>7. CASE /\ seen' = page[sync] /\ Put(sync, <<>>)
           /\ sync' = IF sync = "claude" THEN "claude!" ELSE "agents!"
  <2>1. /\ DOMAIN page' = GuideFiles
        /\ \A g \in GuideFiles :
             page'[g] = IF g = sync \/ (linked /\ sync # "rc" /\ g # "rc") THEN <<>> ELSE page[g]
    <3>1. DOMAIN page = GuideFiles
      BY DEF GuideInv
    <3> QED BY <1>1, <1>7, <3>1, PutTo
  <2>2. ASSUME NEW f \in GuideFiles PROVE Held(f)' = Held(f)
    <3>1. CASE f = sync
      BY <1>1, <1>5, <1>7, <3>1 DEF Held, InHand, Documents
    <3>2. CASE f # sync /\ linked /\ f # "rc"
      <4>1. sync = "claude" /\ f = "agents" /\ page["claude"] = page["agents"]
        BY <1>1, <3>2 DEF GuideInv, GuideFiles, Documents
      <4> QED BY <1>1, <1>5, <1>7, <3>2, <4>1 DEF Held, InHand
    <3>3. CASE f # sync /\ ~ (linked /\ f # "rc")
      <4>1. ~ InHand(f)'
        BY <1>1, <1>7, <3>3 DEF InHand, Documents
      <4>2. page'[f] = page[f]
        BY <1>1, <2>1, <3>3
      <4> QED BY <1>5, <4>1, <4>2 DEF Held
    <3> QED BY <3>1, <3>2, <3>3
  <2>3. \A f \in GuideFiles : Spared(f)'
    BY <1>1, <2>2 DEF GuideInv, Spared
  <2>4. ASSUME NEW f \in Documents PROVE Settled(f)'
    <3>1. CASE sync = "claude"
      BY <1>7, <3>1 DEF Settled, Synced
    <3>2. CASE sync = "agents" /\ f = "agents"
      BY <1>7, <3>2 DEF Settled, Synced
    <3>3. CASE sync = "agents" /\ f = "claude"
      <4>1. ~ linked /\ f \in GuideFiles
        BY <3>3 DEF GuideInv, GuideFiles
      <4>2. page'[f] = page[f] /\ Style(f)' = Style(f)
        BY <1>1, <2>1, <3>3, <4>1 DEF Style
      <4>3. Synced(f)
        BY <3>3 DEF Synced
      <4> QED BY <1>1, <3>3, <4>2, <4>3 DEF GuideInv, Settled
    <3> QED BY <1>1, <3>1, <3>2, <3>3 DEF Documents
  <2>5. linked => /\ sync' \notin {"agents", "agents!"}
                  /\ page'["claude"] = page'["agents"] /\ first["claude"] = first["agents"]
    <3> SUFFICES ASSUME linked
                 PROVE  /\ sync' \notin {"agents", "agents!"}
                        /\ page'["claude"] = page'["agents"] /\ first["claude"] = first["agents"]
      OBVIOUS
    <3>1. sync = "claude" /\ first["claude"] = first["agents"]
      BY <1>1 DEF GuideInv, Documents
    <3> QED BY <1>7, <2>1, <3>1 DEF GuideFiles
  <2>6. sync' \in {"claude!", "agents!"} /\ (syncKills = 0 => body = "current")
    BY <1>1, <1>7 DEF GuideInv, Documents
  <2> QED BY <1>1, <2>1, <2>3, <2>4, <2>5, <2>6 DEF GuideInv
<1> QED BY <1>2, <1>3, <1>4, <1>6, <1>7 DEF SyncPage

(* The document is filled from what was read.                              *)
LEMMA FillPageKeeps ==
  ASSUME GuideInv, FillPage
  PROVE  GuideInv'
<1>1. UNCHANGED <<linked, first, syncKills, body, syncs>>
  BY DEF FillPage, Meanwhile
<1>2. PICK f \in Documents, style \in {"import", "plain"} :
        /\ style = Style(f) /\ Put(f, Upsert(seen, style))
        /\ sync = IF f = "claude" THEN "claude!" ELSE "agents!"
        /\ sync' = IF f = "agents" \/ linked THEN "idle" ELSE "agents"
  BY DEF FillPage, Style, Documents
<1>3. f \in GuideFiles /\ DOMAIN page = GuideFiles /\ f # "rc"
  BY DEF Documents, GuideFiles, GuideInv
<1>4. PICK new : new = Upsert(seen, style)
  OBVIOUS
<1>5. /\ DOMAIN page' = GuideFiles
      /\ \A g \in GuideFiles : page'[g] = IF g = f \/ (linked /\ g # "rc") THEN new ELSE page[g]
  <2>1. Put(f, new)
    BY <1>2, <1>4
  <2> QED BY <1>3, <2>1, PutTo
<1>6. \A g \in GuideFiles : InHand(g) <=> g = f \/ (linked /\ g # "rc")
  <2>1. linked => f = "claude"
    BY <1>2 DEF GuideInv, Documents
  <2> QED BY <1>2, <2>1 DEF InHand, GuideFiles, Documents
<1>7. \A g \in GuideFiles : Held(g)' = page'[g]
  BY <1>2 DEF Held, InHand
<1>8. ASSUME NEW g \in GuideFiles, InHand(g), Paired(first[g]), syncKills = 0
      PROVE  /\ new \in Seq(Lines) /\ Paired(new) /\ Outside(new) = Outside(first[g])
             /\ Upsert(new, style) = new
  <2>1. seen \in Seq(Lines) /\ Paired(seen) /\ Outside(seen) = Outside(first[g])
    BY <1>8 DEF GuideInv, Spared, Held
  <2> QED BY <1>4, <2>1, UpsertKeeps
<1>9. ASSUME NEW g \in GuideFiles PROVE Spared(g)'
  <2>1. CASE InHand(g)
    BY <1>1, <1>5, <1>6, <1>7, <1>8, <2>1 DEF Spared
  <2>2. CASE ~ InHand(g)
    <3>1. Held(g)' = Held(g)
      BY <1>5, <1>6, <1>7, <2>2 DEF Held
    <3> QED BY <1>1, <3>1 DEF GuideInv, Spared
  <2> QED BY <2>1, <2>2
<1>10. ASSUME NEW g \in Documents PROVE Settled(g)'
  <2>1. g \in GuideFiles /\ Style(g)' = Style(g) /\ g # "rc"
    BY <1>1 DEF Documents, GuideFiles, Style
  <2>2. CASE InHand(g)
    <3>1. page'[g] = new /\ Style(g) = style
      BY <1>2, <1>5, <1>6, <2>1, <2>2 DEF Style
    <3> QED BY <1>1, <1>8, <2>1, <2>2, <3>1 DEF Settled
  <2>3. CASE ~ InHand(g) /\ f = "agents"
    <3>1. g = "claude" /\ page'[g] = page[g] /\ Synced(g)
      BY <1>2, <1>5, <1>6, <2>1, <2>3 DEF Documents, Synced
    <3> QED BY <1>1, <2>1, <3>1 DEF GuideInv, Settled
  <2>4. CASE ~ InHand(g) /\ f = "claude"
    <3>1. ~ linked /\ g = "agents"
      BY <1>6, <2>1, <2>4 DEF Documents
    <3>2. ~ Synced(g)'
      BY <1>2, <2>4, <3>1 DEF Synced
    <3> QED BY <3>2 DEF Settled
  <2> QED BY <2>2, <2>3, <2>4 DEF Documents
<1>11. linked => /\ sync' \notin {"agents", "agents!"}
                 /\ page'["claude"] = page'["agents"] /\ first["claude"] = first["agents"]
  BY <1>2, <1>5 DEF GuideInv, GuideFiles
<1>12. sync' \in {"idle", "agents"} /\ (syncKills = 0 => body = "current")
  BY <1>2 DEF GuideInv, Documents
<1> QED BY <1>1, <1>5, <1>9, <1>10, <1>11, <1>12 DEF GuideInv

(* Uninstall takes the block out of the rc file.                           *)
LEMMA StripRcFileKeeps ==
  ASSUME GuideInv, StripRcFile
  PROVE  GuideInv'
<1>1. UNCHANGED <<linked, first, syncKills, body, sync, seen, syncs>> /\ sync = "idle"
  BY DEF StripRcFile, Meanwhile
<1>2. "rc" \in GuideFiles /\ DOMAIN page = GuideFiles
  BY DEF GuideFiles, GuideInv
<1>3. PICK new : new = StripManagedBlock(page["rc"])
  OBVIOUS
<1>4. DOMAIN page' = GuideFiles /\ page'["rc"] = new /\ \A g \in GuideFiles \ {"rc"} : page'[g] = page[g]
  <2>1. Put("rc", new)
    BY <1>3 DEF StripRcFile
  <2> QED BY <1>2, <2>1, PutTo
<1>5. \A g \in GuideFiles : Held(g) = page[g] /\ Held(g)' = page'[g]
  BY <1>1 DEF Held, InHand
<1>6. ASSUME NEW g \in GuideFiles PROVE Spared(g)'
  <2>1. CASE g = "rc"
    <3>1. ASSUME Paired(first[g]), syncKills = 0
          PROVE  new \in Seq(Lines) /\ Paired(new) /\ Outside(new) = Outside(first[g])
      <4>1. page[g] \in Seq(Lines) /\ Paired(page[g]) /\ Outside(page[g]) = Outside(first[g])
        BY <1>5, <3>1 DEF GuideInv, Spared
      <4>2. new = Outside(page[g])
        BY <1>3, <2>1, <4>1, StripKeeps
      <4> QED BY <4>1, <4>2, OutsideUnmarked
    <3> QED BY <1>1, <1>4, <1>5, <2>1, <3>1 DEF Spared
  <2>2. CASE g # "rc"
    BY <1>1, <1>4, <1>5, <2>2 DEF GuideInv, Spared
  <2> QED BY <2>1, <2>2
<1>7. ASSUME NEW g \in Documents PROVE Settled(g)'
  <2>1. g \in GuideFiles \ {"rc"} /\ Style(g)' = Style(g) /\ (Synced(g)' <=> Synced(g))
    BY <1>1 DEF Documents, GuideFiles, Style, Synced
  <2> QED BY <1>1, <1>4, <2>1 DEF GuideInv, Settled
<1>8. linked => page'["claude"] = page'["agents"]
  BY <1>4 DEF GuideInv, GuideFiles
<1> QED BY <1>1, <1>4, <1>6, <1>7, <1>8 DEF GuideInv

(* Every step, that of a kill included, which ends what is claimed.         *)
LEMMA GuideStepKeeps ==
  ASSUME GuideInv, [GuideNext]_guideVars
  PROVE  GuideInv'
<1>1. CASE SyncKilled
  <2>1. /\ UNCHANGED <<page, linked, first, syncs>> /\ sync' = "idle"
        /\ syncKills' \in Nat /\ syncKills' # 0
    BY <1>1 DEF SyncKilled, GuideInv
  <2> QED BY <2>1 DEF GuideInv, Spared, Settled
<1>2. CASE UNCHANGED guideVars
  <2>1. UNCHANGED <<page, linked, first, syncs, sync, syncKills, body, seen>>
    BY <1>2 DEF guideVars
  <2>2. \A f : Held(f)' = Held(f) /\ (Synced(f)' <=> Synced(f)) /\ Style(f)' = Style(f)
    BY <2>1 DEF Held, InHand, Synced, Style
  <2> QED BY <2>1, <2>2 DEF GuideInv, Spared, Settled
<1> QED BY <1>1, <1>2, SyncBodyKeeps, SyncPageKeeps, FillPageKeeps, StripRcFileKeeps DEF GuideNext

(* The invariant says what the run checks.                                 *)
LEMMA GuideHolds ==
  ASSUME GuideInv
  PROVE  LinesKept /\ SyncSettles
<1>1. LinesKept
  <2> SUFFICES ASSUME NEW f \in GuideFiles, Paired(first[f]), syncKills = 0, sync \notin {"claude!", "agents!"}
               PROVE  Paired(page[f]) /\ Outside(page[f]) = Outside(first[f])
    BY DEF LinesKept, GuideFiles
  <2>1. Held(f) = page[f]
    BY DEF Held, InHand
  <2> QED BY <2>1 DEF GuideInv, Spared
<1>2. SyncSettles
  <2> SUFFICES ASSUME sync = "idle", syncs > 0, syncKills = 0
               PROVE  /\ body = "current"
                      /\ \A f \in Documents : Paired(first[f]) => Upsert(page[f], Style(f)) = page[f]
    BY DEF SyncSettles, Documents
  <2>1. \A f \in Documents : Synced(f)
    BY DEF Synced
  <2> QED BY <2>1 DEF GuideInv, Settled
<1> QED BY <1>1, <1>2

-----------------------------------------------------------------------------
(* The bootstrap: a worker that got past the index has one behind it.      *)
BootInv ==
  /\ DOMAIN worker = BootWorkers
  /\ \A w \in BootWorkers : worker[w] \in {"ingesting", "seeding", "done"} => indexed
  /\ SentinelHonest

(* No step of a worker or a session breaks it.                             *)
LEMMA BootStepKeeps ==
  ASSUME BootInv, [BootNext]_bootVars
  PROVE  BootInv'
<1>1. ASSUME NEW w \in BootWorkers, NEW l, Becomes(w, l), indexed' = indexed, sentinel' = sentinel,
             l \in {"ingesting", "seeding", "done"} => indexed
      PROVE  BootInv'
  BY <1>1 DEF BootInv, Becomes, SentinelHonest
<1>2. CASE SessionStart
  <2>1. UNCHANGED <<sentinel, indexed>> /\ (UNCHANGED worker \/ \E w \in BootWorkers : Becomes(w, "born"))
    BY <1>2 DEF SessionStart
  <2> QED BY <1>1, <2>1 DEF BootInv, SentinelHonest
<1>3. CASE ByHand
  <2>1. PICK w \in BootWorkers, force \in BOOLEAN :
          Becomes(w, IF force THEN "forced" ELSE "born") /\ UNCHANGED <<sentinel, indexed>>
    BY <1>3 DEF ByHand
  <2> QED BY <1>1, <2>1
<1>4. CASE HalfHour \/ UNCHANGED bootVars
  BY <1>4 DEF HalfHour, bootVars, BootInv, SentinelHonest
<1>5. ASSUME NEW w \in BootWorkers, WorkerStart(w) PROVE BootInv'
  BY <1>1, <1>5 DEF WorkerStart
<1>6. ASSUME NEW w \in BootWorkers, Index(w) PROVE BootInv'
  <2>1. CASE Becomes(w, "ingesting") /\ indexed' = TRUE
    BY <1>6, <2>1 DEF Index, Becomes, BootInv, SentinelHonest
  <2>2. CASE Becomes(w, "gone") /\ UNCHANGED indexed
    BY <1>1, <1>6, <2>2 DEF Index
  <2> QED BY <1>6, <2>1, <2>2 DEF Index
<1>7. ASSUME NEW w \in BootWorkers, Ingest(w) PROVE BootInv'
  BY <1>1, <1>7 DEF Ingest, BootInv
<1>8. ASSUME NEW w \in BootWorkers, LeaveSentinel(w) PROVE BootInv'
  BY <1>8 DEF LeaveSentinel, Becomes, BootInv, SentinelHonest
<1>9. ASSUME NEW w \in BootWorkers, WorkerDone(w) \/ WorkerKilled(w) PROVE BootInv'
  BY <1>1, <1>9 DEF WorkerDone, WorkerKilled
<1> QED BY <1>2, <1>3, <1>4, <1>5, <1>6, <1>7, <1>8, <1>9 DEF BootNext

-----------------------------------------------------------------------------
(* The two, beside the install                                             *)

(* MarkersHonest, for any documents and any number of bootstrap workers,   *)
(* whoever is killed: syncing keeps the lines of a document in order and   *)
(* settles, and the sentinel is only there when the project was indexed.   *)
THEOREM MarkersKept == SetupSpec => []MarkersHonest
<1>1. SetupInit => GuideInv /\ BootInv
  <2>1. BootInit => BootInv
    BY DEF BootInit, BootInv, SentinelHonest
  <2> QED BY <2>1, GuideStarts DEF SetupInit
<1>2. GuideInv /\ BootInv /\ [SetupNext]_setupAll => GuideInv' /\ BootInv'
  <2> SUFFICES ASSUME GuideInv, BootInv, [SetupNext]_setupAll PROVE GuideInv' /\ BootInv'
    OBVIOUS
  <2>1. [GuideNext]_guideVars
    BY DEF SetupNext, setupAll
  <2>2. [BootNext]_bootVars
    BY DEF SetupNext, setupAll
  <2> QED BY <2>1, <2>2, GuideStepKeeps, BootStepKeeps
<1>3. GuideInv /\ BootInv => MarkersHonest
  BY GuideHolds DEF BootInv, MarkersHonest
<1> QED BY <1>1, <1>2, <1>3, PTL DEF SetupSpec
=============================================================================
