---------------------------- MODULE PluginContracts ----------------------------
(***************************************************************************)
(* The contract of a plugin: the definitions of controllers and of         *)
(* emulator cores (controller.ts, emulator.ts), the runner that judges a   *)
(* plugin of any type (plugin-contract-runner.ts), the scaffold it begins  *)
(* with (scaffold.ts), and how it comes about: an author edits a draft one *)
(* field at a time, and a host registers the manifests of drafts and       *)
(* judges what they ask for.                                               *)
(***************************************************************************)
EXTENDS GameMetadata, ConsolePlugins

CONSTANTS WideIds,        \* plugin ids that PLUGIN_IDENTIFIER_PATTERN refuses: a part of
                          \* them begins with a digit, or has two hyphens in a row
          MaxButton, MaxAxis, \* MAX_BUTTON_INDEX, MAX_AXIS_INDEX
          ScaffoldIds,    \* ids that an author scaffolds a plugin with
          ManifestChoices, DefinitionChoices, \* what an author writes in a field
          Grants,         \* what a user may have granted
          Headers,        \* the headers of ROMs
          MaxDraftEdits   \* bound: edits of a draft

(* The words of the templates match their patterns, the revision that the  *)
(* scaffold writes is one the host supports, and ports are a list.         *)
ASSUME DraftAssumption ==
  /\ {"playback", "primary", "a", "player-one", "orbit"} \subseteq Words
  /\ "en-US" \in LocaleTags /\ "org.family" \in PluginIds
  /\ ApiIsSupported(1) /\ MaxButton \in Nat /\ MaxDraftEdits \in Nat
  /\ \A ports \in DefinitionChoices["console"].playerPorts : DOMAIN ports \subseteq Nat

VARIABLES draft,          \* the plugin being written: a manifest and a definition
          scaffolded,     \* did createPluginScaffold write it?
          draftEdits

draftVars    == <<draft, scaffolded, draftEdits>>
contractVars == <<draftVars, registryVars>>

(* isDeviceMatch: there is a criterion, and each is well formed.           *)
DeviceMatchIsValid(d) ==
  /\ d.nameIncludes # {} \/ d.hexIds # {} \/ d.standardMapping # {}
  /\ ~d.extra /\ Malformed \notin d.hexIds
  /\ \A s \in d.nameIncludes : s # <<>> /\ Malformed \notin ToSet(s)

(* parsePhysicalInput; the threshold of an axis is in hundredths.          *)
PhysicalInputIsValid(i) ==
  \/ i.kind = "button" /\ i.index \in 0..MaxButton /\ i.direction = {} /\ i.threshold = {}
  \/ /\ i.kind = "axis" /\ i.index \in 0..MaxAxis /\ i.direction # {}
     /\ i.direction \subseteq {"negative", "positive"} /\ i.threshold \subseteq 10..100

(* physicalInputKey: an axis is one input whatever its threshold.          *)
PhysicalInputKey(i) == <<i.kind, i.index, i.direction>>

(* validateControllerPlugin.  Its pattern of an id, PLUGIN_IDENTIFIER_-    *)
(* PATTERN, is narrower than the manifest's: it refuses WideIds.           *)
ControllerIsValid(m, c) ==
  /\ ManifestIsValid(m) /\ m.type = "controller" /\ c.id = m.id /\ c.id \notin WideIds
  /\ c.match # <<>> /\ \A i \in DOMAIN c.match : DeviceMatchIsValid(c.match[i])
  /\ c.mappings # <<>>
  /\ \A i \in DOMAIN c.mappings : PhysicalInputIsValid(c.mappings[i].input)
  /\ IsInjective([i \in DOMAIN c.mappings |-> PhysicalInputKey(c.mappings[i].input)])
  /\ IsListOf([i \in DOMAIN c.mappings |-> c.mappings[i].normalizedAction], Words)

(* validateEmulatorPlugin.  Nothing here has to be unique.                 *)
EmulatorIsValid(m, e) ==
  /\ ManifestIsValid(m) /\ m.type = "emulator-core" /\ e.id = m.id
  /\ e.supportedRomExtensions # <<>> /\ ToSet(e.supportedRomExtensions) \subseteq RomExtensions
  /\ e.compatibleConsoleIds # <<>>
  /\ e.typedCapabilities /\ e.createSession

(* resolveOfficialEmulatorForConsole: the first core, in the order of the  *)
(* map, that declares the console and the extension.                       *)
EmulatorFor(emulators, console, extension) ==
  Earliest({e \in DOMAIN emulators : /\ console \in ToSet(emulators[e].compatibleConsoleIds)
                                     /\ extension \in ToSet(emulators[e].supportedRomExtensions)})
-----------------------------------------------------------------------------
(* validateSpecializedContract, on the part of the draft that the type of  *)
(* its manifest names; there is none of any other type.                    *)
DefinitionIsValid(p) ==
  p.manifest.type \in DOMAIN p.definition
    /\ LET d == p.definition[p.manifest.type] IN
         CASE p.manifest.type = "console"       -> ConsoleIsValid(p.manifest, d)
           [] p.manifest.type = "controller"    -> ControllerIsValid(p.manifest, d)
           [] p.manifest.type = "game-metadata" -> CatalogIsValid(p.manifest, d)
           [] p.manifest.type = "emulator-core" -> EmulatorIsValid(p.manifest, d)
           [] OTHER -> FALSE

(* validatePluginContract: the definition of an inactive plugin is not     *)
(* looked at.                                                              *)
ContractVerdict(p) ==
  IF ManifestVerdict(p.manifest) # "valid" THEN ManifestVerdict(p.manifest)
  ELSE IF DefinitionIsValid(p) THEN "valid" ELSE "invalid"

(* createPluginScaffold: templates of three types; the manifest is judged  *)
(* before a file is written.                                               *)
Plugin(type, manifest, definition) ==
  [manifest |-> manifest, definition |-> [t \in {type} |-> definition]]

ConsoleTemplate(id) ==
  [GameBoyFamilyConsole.console EXCEPT
     !.id = id, !.identifyRom = "none", !.supportedRomExtensions = <<".demo">>,
     !.generationKey = {}, !.inputActions = <<"a">>,
     !.inputMapping.entries = <<Maps("primary", "a")>>,
     !.playerPorts = <<[id |-> "player-one", inputActions |-> <<"a">>]>>,
     !.assets = {[consoleHero |-> "assets/hero", pictures |-> {}, cartridge |-> {},
                  cartridgeLabelMap |-> {}, controlDiagram |-> {}]}]

ControllerTemplate(id) ==
  [id |-> id,
   match |-> <<[nameIncludes |-> {}, hexIds |-> {}, standardMapping |-> {TRUE}, extra |-> FALSE]>>,
   mappings |-> <<[normalizedAction |-> "primary",
                   input |-> [kind |-> "button", index |-> 0, direction |-> {}, threshold |-> {}]]>>]

CatalogTemplate(id) ==
  [id |-> id, defaultLocale |-> "en-US", records |->
     <<[OrbitRecord("orbit", "org.family", <<>>, {"en-US"})
        EXCEPT !.identifiers = {}, !.artwork = {}]>>]

Scaffold(type, id) ==
  Plugin(type, ManifestOf(id, type, "playback"),
         CASE type = "console"       -> ConsoleTemplate(id)
           [] type = "controller"    -> ControllerTemplate(id)
           [] type = "game-metadata" -> CatalogTemplate(id))

Scaffolds == {p \in {Scaffold(t, id) : t \in {"console", "controller", "game-metadata"},
                                       id \in ScaffoldIds} : ManifestIsValid(p.manifest)}

SameBoyEmulator ==
  [id |-> "org.sameboy", supportedRomExtensions |-> <<".gb", ".gbc">>,
   compatibleConsoleIds |-> <<"org.family">>, typedCapabilities |-> TRUE, createSession |-> TRUE]
MgbaEmulator ==
  [SameBoyEmulator EXCEPT !.id = "org.mgba", !.supportedRomExtensions = <<".gba">>,
                          !.compatibleConsoleIds = <<"org.advance">>]

OfficialPlugins ==
  {Plugin("console", c.manifest, c.console) : c \in {GameBoyFamilyConsole, GameBoyAdvanceConsole}}
  \union {Plugin("game-metadata", c.manifest, c.catalog) :
            c \in {ReferenceGameCatalog, GameBoyAdvanceExampleCatalog}}
  \union {Plugin("emulator-core", ManifestOf(e.id, "emulator-core", "playback"), e) :
            e \in {SameBoyEmulator, MgbaEmulator}}
-----------------------------------------------------------------------------
ContractTypeOK ==
  /\ draft.manifest.type \in PluginTypes /\ scaffolded \in BOOLEAN
  /\ draftEdits \in 0..MaxDraftEdits
  /\ \A id \in PluginIds : Cardinality(registry[id]) <= 1

ContractInit ==
  /\ \/ scaffolded = TRUE /\ draft \in Scaffolds
     \/ scaffolded = FALSE /\ draft \in OfficialPlugins
  /\ draftEdits = 0 /\ RegistryInit

Edits(r, choices) ==
  UNION {{[r EXCEPT ![f] = v] : v \in choices[f]} : f \in DOMAIN choices}

Edited == draftEdits < MaxDraftEdits /\ draftEdits' = draftEdits + 1

EditManifest ==
  /\ Edited
  /\ \E m \in Edits(draft.manifest, ManifestChoices) : draft' = [draft EXCEPT !.manifest = m]
  /\ UNCHANGED <<scaffolded, registryVars>>

EditDefinition ==
  /\ Edited
  /\ \E t \in DOMAIN draft.definition :
       \E d \in Edits(draft.definition[t], DefinitionChoices[t]) :
         draft' = [draft EXCEPT !.definition[t] = d]
  /\ UNCHANGED <<scaffolded, registryVars>>

Registration == RegisterPlugin(draft.manifest) /\ UNCHANGED draftVars
Removal   == (\E id \in PluginIds : RemovePlugin(id)) /\ UNCHANGED draftVars
Judgement == (\E id \in PluginIds, g \in SUBSET Grants : Judge(id, g)) /\ UNCHANGED draftVars

ContractNext == EditManifest \/ EditDefinition \/ Registration \/ Removal \/ Judgement

ContractSpec == ContractInit /\ [][ContractNext]_contractVars
-----------------------------------------------------------------------------
(* What the scaffold writes passes the runner, as its own test asks (ADR   *)
(* 0033), but for a controller under an id that the runner of controllers  *)
(* refuses although the manifest's check, which the scaffold runs, took it.*)
ScaffoldIsAccepted ==
  scaffolded /\ draftEdits = 0
    => (ContractVerdict(draft) = "valid"
          <=> ~(draft.manifest.type = "controller" /\ draft.manifest.id \in WideIds))

(* A console that the runner accepts and whose mapping is complete can be  *)
(* played: the window takes the mapping that main answers with, and main   *)
(* takes every snapshot the window makes of it.                            *)
ConsoleIsPlayable(c) ==
  /\ WindowAcceptsMapping(c.inputMapping)
  /\ \A active \in SUBSET NormalizedActions :
       SnapshotIsAccepted(c, c.inputMapping.playerPortId,
                          MapNormalizedActions(active, c.inputMapping))

(* A button or an axis of a controller that the runner accepts does one    *)
(* thing.                                                                  *)
ControllerIsUnambiguous(c) ==
  \A i, j \in DOMAIN c.mappings :
    /\ c.mappings[i].input.kind = c.mappings[j].input.kind
    /\ c.mappings[i].input.index = c.mappings[j].input.index
    /\ c.mappings[i].input.direction = c.mappings[j].input.direction
    => i = j

(* Whatever catalog is put before those of the program, valid or not, what *)
(* a game of a ROM is told is of a valid catalog that knows an identifier  *)
(* of the ROM, in the locale asked for where there is one; and the window  *)
(* takes it.                                                               *)
CatalogIsUnderstood(m, c) ==
  \A header \in Headers, locale \in LocaleTags :
    LET ids == FamilyIdentifiers(header) \o AdvanceIdentifiers(header)
        plugins == <<[manifest |-> m, catalog |-> c], ReferenceGameCatalog,
                     GameBoyAdvanceExampleCatalog>>
    IN \A g \in ResolveGameMetadata(plugins, ids, locale) :
         /\ IsResolvedGameMetadata(g)
         /\ \E p \in DOMAIN plugins : \E i \in DOMAIN plugins[p].catalog.records :
              LET r == plugins[p].catalog.records[i]
              IN /\ CatalogIsValid(plugins[p].manifest, plugins[p].catalog)
                 /\ g.pluginId = plugins[p].catalog.id /\ Matches(r, ids)
                 /\ locale \in DOMAIN r.text => g.title = r.text[locale].title

(* What the runner accepts of a definition, the rest of the program        *)
(* understands.                                                            *)
DefinitionIsUnderstood ==
  \A t \in DOMAIN draft.definition :
    LET d == draft.definition[t] IN
      CASE t = "console" -> ContractVerdict(draft) = "valid" /\ MappingIsComplete(d)
                              => ConsoleIsPlayable(d)
        [] t = "controller" -> ContractVerdict(draft) = "valid" => ControllerIsUnambiguous(d)
        [] t = "game-metadata" -> CatalogIsUnderstood(draft.manifest, d)
        [] OTHER -> TRUE

(* What one check of a plugin has accepted stands at the next: what the    *)
(* scaffold took at the runner (but for those controllers), and what the   *)
(* runner took of a definition at main and in the window.                  *)
AcceptedStands == ScaffoldIsAccepted /\ DefinitionIsUnderstood
=============================================================================
