------------------------------ MODULE PluginProofs ------------------------------
(***************************************************************************)
(* Proofs about the contract of the plugins and of the IPC, each for any   *)
(* values of its constants: what the runner accepts is understood by main  *)
(* and by the window (PluginContracts), and so is every answer of main     *)
(* (IpcContract).                                                          *)
(***************************************************************************)
EXTENDS IpcContract, TLAPS

(* A list of one. *)
LEMMA OneIsAList ==
  ASSUME NEW S, NEW x \in S
  PROVE  <<x>> # <<>> /\ IsListOf(<<x>>, S)
  BY DEF IsListOf, ToSet, IsInjective

(***************************************************************************)
(* Catalogs of games.  What is resolved is a record of a valid catalog,    *)
(* and the window takes every record of a valid catalog.                   *)
(***************************************************************************)
(* What is resolved is of a valid catalog that knows the game. *)
LEMMA ResolvedIsARecord ==
  ASSUME NEW plugins, NEW identifiers, NEW tag,
         NEW g \in ResolveGameMetadata(plugins, identifiers, tag)
  PROVE  \E p \in DOMAIN plugins : \E i \in DOMAIN plugins[p].catalog.records :
           /\ CatalogIsValid(plugins[p].manifest, plugins[p].catalog)
           /\ Matches(plugins[p].catalog.records[i], identifiers)
           /\ g = Resolved(plugins[p].catalog, plugins[p].catalog.records[i], tag)
<1>1. PICK p \in DOMAIN plugins :
        g \in {Resolved(plugins[p].catalog, plugins[p].catalog.records[i], tag) :
                 i \in Earliest(RecordsFor(plugins[p], identifiers))}
  BY DEF ResolveGameMetadata, Earliest
<1>2. PICK i \in RecordsFor(plugins[p], identifiers) :
        g = Resolved(plugins[p].catalog, plugins[p].catalog.records[i], tag)
  BY <1>1 DEF Earliest
<1> QED
  BY <1>1, <1>2 DEF RecordsFor

(* The artwork that is chosen of a record is one of its artworks. *)
LEMMA ArtworkIsOfTheRecord ==
  ASSUME NEW c, NEW r, NEW tag, NEW a \in ArtworkIn(c, r, tag)
  PROVE  \E s \in r.artwork : \E k \in DOMAIN s : a = s[k]
<1> DEFINE within(l) == UNION {{s[i] : i \in Earliest({i \in DOMAIN s : s[i].locale = l})} :
                                 s \in r.artwork}
<1>1. a \in within({tag}) \/ a \in within({}) \/ a \in within({c.defaultLocale})
  BY DEF ArtworkIn
<1>2. ASSUME NEW l, a \in within(l) PROVE \E s \in r.artwork : \E k \in DOMAIN s : a = s[k]
  BY <1>2 DEF Earliest
<1> HIDE DEF within
<1> QED
  BY <1>1, <1>2

(* The window takes what is made of a record of a valid catalog. *)
LEMMA ValidRecordIsTaken ==
  ASSUME NEW m, NEW c, CatalogIsValid(m, c), NEW i \in DOMAIN c.records, NEW tag
  PROVE  LET r == c.records[i] IN
           /\ IsResolvedGameMetadata(Resolved(c, r, tag))
           /\ tag \in DOMAIN r.text => Resolved(c, r, tag).title = r.text[tag].title
<1> DEFINE r == c.records[i]
<1>1. RecordIsValid(r, c.defaultLocale) /\ c.id \in PluginIds
  BY DEF CatalogIsValid, ManifestIsValid
<1> HIDE DEF r
<1>2. IsLocalizedText(TextIn(c, r, tag))
  BY <1>1 DEF RecordIsValid, TextIn
<1>3. ASSUME NEW a \in ArtworkIn(c, r, tag) PROVE IsArtwork(a)
  <2>1. PICK s \in r.artwork : \E k \in DOMAIN s : a = s[k]
    BY ArtworkIsOfTheRecord
  <2> QED
    BY <1>1, <2>1 DEF RecordIsValid
<1>4. /\ r.provenance # Malformed /\ r.releaseDate \subseteq {"1998-09-28"}
      /\ \A s \in r.lists : IsTextList(s)
      /\ \A p \in r.playerCount : IsPlayerCount(p)
  BY <1>1 DEF RecordIsValid
<1>5. IsResolvedGameMetadata(Resolved(c, r, tag))
  <2> DEFINE g == Resolved(c, r, tag)
  <2>1. /\ g.pluginId = c.id /\ g.title = TextIn(c, r, tag).title
        /\ g.description = TextIn(c, r, tag).description
        /\ g.artwork = ArtworkIn(c, r, tag) /\ g.provenance = r.provenance
        /\ g.lists = r.lists /\ g.releaseDate = r.releaseDate /\ g.playerCount = r.playerCount
    BY DEF Resolved
  <2> HIDE DEF g
  <2>2. IsResolvedGameMetadata(g)
    BY <1>1, <1>2, <1>3, <1>4, <2>1 DEF IsResolvedGameMetadata, IsLocalizedText
  <2> QED
    BY <2>2 DEF g
<1>6. tag \in DOMAIN r.text => Resolved(c, r, tag).title = r.text[tag].title
  BY DEF Resolved, TextIn
<1> QED
  BY <1>5, <1>6 DEF r

LEMMA EveryCatalogIsUnderstood ==
  ASSUME NEW m, NEW c
  PROVE  CatalogIsUnderstood(m, c)
<1> SUFFICES ASSUME NEW header \in Headers, NEW tag \in LocaleTags,
                    NEW plugins, NEW ids, NEW g \in ResolveGameMetadata(plugins, ids, tag)
             PROVE  /\ IsResolvedGameMetadata(g)
                    /\ \E p \in DOMAIN plugins : \E i \in DOMAIN plugins[p].catalog.records :
                         LET r == plugins[p].catalog.records[i]
                         IN /\ CatalogIsValid(plugins[p].manifest, plugins[p].catalog)
                            /\ g.pluginId = plugins[p].catalog.id /\ Matches(r, ids)
                            /\ tag \in DOMAIN r.text => g.title = r.text[tag].title
  BY DEF CatalogIsUnderstood
<1>1. PICK p \in DOMAIN plugins : \E i \in DOMAIN plugins[p].catalog.records :
           /\ CatalogIsValid(plugins[p].manifest, plugins[p].catalog)
           /\ Matches(plugins[p].catalog.records[i], ids)
           /\ g = Resolved(plugins[p].catalog, plugins[p].catalog.records[i], tag)
  BY ResolvedIsARecord
<1>2. PICK i \in DOMAIN plugins[p].catalog.records :
           /\ CatalogIsValid(plugins[p].manifest, plugins[p].catalog)
           /\ Matches(plugins[p].catalog.records[i], ids)
           /\ g = Resolved(plugins[p].catalog, plugins[p].catalog.records[i], tag)
  BY <1>1
<1>3. g.pluginId = plugins[p].catalog.id
  BY <1>2 DEF Resolved
<1> DEFINE r == plugins[p].catalog.records[i]
<1>4. /\ IsResolvedGameMetadata(Resolved(plugins[p].catalog, r, tag))
      /\ tag \in DOMAIN r.text => Resolved(plugins[p].catalog, r, tag).title = r.text[tag].title
  BY <1>2, ValidRecordIsTaken
<1>5. g = Resolved(plugins[p].catalog, r, tag)
  BY <1>2
<1>6. /\ CatalogIsValid(plugins[p].manifest, plugins[p].catalog) /\ Matches(r, ids)
  BY <1>2
<1> HIDE DEF r
<1>7. IsResolvedGameMetadata(g) /\ (tag \in DOMAIN r.text => g.title = r.text[tag].title)
  BY <1>4, <1>5
<1> QED
  BY <1>3, <1>6, <1>7 DEF r
-----------------------------------------------------------------------------
(***************************************************************************)
(* Consoles and controllers.                                               *)
(***************************************************************************)
LEMMA ValidControllerIsUnambiguous ==
  ASSUME NEW m, NEW c, ControllerIsValid(m, c)
  PROVE  ControllerIsUnambiguous(c)
<1>1. IsInjective([i \in DOMAIN c.mappings |-> PhysicalInputKey(c.mappings[i].input)])
  BY DEF ControllerIsValid
<1> QED
  BY <1>1 DEF ControllerIsUnambiguous, IsInjective, PhysicalInputKey

(* A mapping with distinct actions, all of them in use, sends distinct     *)
(* actions of the console, whatever is active.                             *)
LEMMA SnapshotIsAList ==
  ASSUME NEW active, NEW m, NEW S,
         IsListOf([i \in DOMAIN m.entries |-> m.entries[i].consoleAction], S)
  PROVE  /\ IsListOf(MapNormalizedActions(active, m), S)
         /\ ToSet(MapNormalizedActions(active, m))
              \subseteq {m.entries[i].consoleAction : i \in DOMAIN m.entries}
  BY DEF IsListOf, ToSet, IsInjective, MapNormalizedActions

(* The window takes a complete mapping of a valid console. *)
LEMMA CompleteMappingIsTaken ==
  ASSUME NEW m, NEW c, ConsoleIsValid(m, c), MappingIsComplete(c)
  PROVE  /\ WindowAcceptsMapping(c.inputMapping)
         /\ IsListOf([i \in DOMAIN c.inputMapping.entries |->
                        c.inputMapping.entries[i].consoleAction], Words)
<1> DEFINE p == c.inputMapping
<1>1. /\ p.version = 1 /\ p.playerPortId \in Words
      /\ IsListOf([i \in DOMAIN p.entries |-> p.entries[i].normalizedAction], Words)
      /\ IsListOf([i \in DOMAIN p.entries |-> p.entries[i].consoleAction], ToSet(c.inputActions))
      /\ ToSet(c.inputActions) \subseteq Words
  BY DEF ConsoleIsValid, MappingIsValid, IsListOf
<1>2. /\ Len(p.entries) \in {ShortMapping, Cardinality(NormalizedActions)}
      /\ \A i \in DOMAIN p.entries : p.entries[i].normalizedAction \in NormalizedActions
  BY DEF MappingIsComplete
<1>3. IsListOf([i \in DOMAIN p.entries |-> p.entries[i].normalizedAction], NormalizedActions)
  BY <1>1, <1>2 DEF IsListOf, ToSet
<1>4. IsListOf([i \in DOMAIN p.entries |-> p.entries[i].consoleAction], Words)
  BY <1>1 DEF IsListOf
<1> QED
  BY <1>1, <1>2, <1>3, <1>4 DEF WindowAcceptsMapping

(* The ids of its ports are distinct: the first of an id is the only one.  *)
LEMMA PortIsTheFirst ==
  ASSUME NEW c, PortsAreValid(c), DOMAIN c.playerPorts \subseteq Nat,
         NEW i \in DOMAIN c.playerPorts
  PROVE  i \in Earliest({j \in DOMAIN c.playerPorts : c.playerPorts[j].id = c.playerPorts[i].id})
<1>1. \A j \in DOMAIN c.playerPorts : c.playerPorts[j].id = c.playerPorts[i].id => j = i
  BY DEF PortsAreValid, IsListOf, IsInjective
<1>2. i <= i
  BY i \in Nat
<1> QED
  BY <1>1, <1>2 DEF Earliest

LEMMA ValidConsoleIsPlayable ==
  ASSUME NEW m, NEW c, ConsoleIsValid(m, c), MappingIsComplete(c),
         DOMAIN c.playerPorts \subseteq Nat
  PROVE  ConsoleIsPlayable(c)
<1> DEFINE p == c.inputMapping
<1>1. PICK i \in DOMAIN c.playerPorts :
        /\ c.playerPorts[i].id = p.playerPortId
        /\ {p.entries[k].consoleAction : k \in DOMAIN p.entries}
             \subseteq ToSet(c.playerPorts[i].inputActions)
  BY DEF MappingIsComplete
<1>2. i \in Earliest({j \in DOMAIN c.playerPorts : c.playerPorts[j].id = p.playerPortId})
  BY <1>1, PortIsTheFirst DEF ConsoleIsValid
<1>3. p.playerPortId \in Words
  BY DEF ConsoleIsValid, MappingIsValid
<1>4. ASSUME NEW active \in SUBSET NormalizedActions
      PROVE  SnapshotIsAccepted(c, p.playerPortId, MapNormalizedActions(active, p))
  <2>1. IsListOf([k \in DOMAIN p.entries |-> p.entries[k].consoleAction], Words)
    BY CompleteMappingIsTaken
  <2> HIDE DEF p
  <2>2. /\ IsListOf(MapNormalizedActions(active, p), Words)
        /\ ToSet(MapNormalizedActions(active, p)) \subseteq ToSet(c.playerPorts[i].inputActions)
    BY <1>1, <2>1, SnapshotIsAList
  <2> QED
    BY <1>2, <1>3, <2>2 DEF SnapshotIsAccepted
<1> QED
  BY <1>4, CompleteMappingIsTaken DEF ConsoleIsPlayable
-----------------------------------------------------------------------------
(***************************************************************************)
(* The scaffold.  The runner accepts what it writes.                       *)
(***************************************************************************)
(* The console that the template begins with. *)
LEMMA FamilyConsole ==
  LET b == GameBoyFamilyConsole.console
  IN /\ DOMAIN b = {"id", "capabilities", "identifyRom", "maxRomBytes", "generationKey",
                    "supportedRomExtensions", "inputActions", "inputMapping", "playerPorts",
                    "assets"}
     /\ b.maxRomBytes = {8} /\ b.capabilities = <<"playback">>
     /\ DOMAIN b.inputMapping = {"entries", "playerPortId", "version"}
     /\ b.inputMapping.playerPortId = "player-one" /\ b.inputMapping.version = 1
  BY DEF GameBoyFamilyConsole, OfficialConsole

LEMMA ConsoleTemplateIsValid ==
  ASSUME NEW id, ManifestIsValid(ManifestOf(id, "console", "playback"))
  PROVE  ConsoleIsValid(ManifestOf(id, "console", "playback"), ConsoleTemplate(id))
<1> DEFINE m == ManifestOf(id, "console", "playback")
           c == ConsoleTemplate(id)
<1>1. m.type = "console" /\ c.id = m.id
  BY FamilyConsole DEF ManifestOf, ConsoleTemplate
<1>2. /\ c.maxRomBytes = {8} /\ c.generationKey = {} /\ c.identifyRom = "none"
      /\ c.capabilities = <<"playback">> /\ c.supportedRomExtensions = <<".demo">>
      /\ c.inputActions = <<"a">>
      /\ c.playerPorts = <<[id |-> "player-one", inputActions |-> <<"a">>]>>
      /\ c.inputMapping.entries = <<Maps("primary", "a")>>
      /\ c.inputMapping.playerPortId = "player-one" /\ c.inputMapping.version = 1
      /\ c.assets = {[consoleHero |-> "assets/hero", pictures |-> {}, cartridge |-> {},
                      cartridgeLabelMap |-> {}, controlDiagram |-> {}]}
  BY FamilyConsole DEF ConsoleTemplate
<1> HIDE DEF m, c
<1>3. \A a \in c.assets : AssetsAreValid(a)
  BY <1>2 DEF AssetsAreValid, Malformed
<1>4. c.maxRomBytes \subseteq MiB /\ c.generationKey \subseteq GenerationKeys
  BY <1>2 DEF MiB
<1>5. /\ c.capabilities # <<>> /\ IsListOf(c.capabilities, Words)
      /\ c.supportedRomExtensions # <<>> /\ IsListOf(c.supportedRomExtensions, RomExtensions)
      /\ c.inputActions # <<>> /\ IsListOf(c.inputActions, Words)
  BY <1>2, DraftAssumption, OneIsAList DEF RomExtensions
<1>6. ToSet(c.inputActions) = {"a"}
  BY <1>2 DEF ToSet
<1>7. PortsAreValid(c)
  BY <1>2, <1>6, DraftAssumption DEF PortsAreValid, IsListOf, ToSet, IsInjective
<1>8. MappingIsValid(c)
  BY <1>2, <1>6, DraftAssumption DEF MappingIsValid, IsListOf, ToSet, IsInjective, Maps
<1> QED
  BY <1>1, <1>2, <1>3, <1>4, <1>5, <1>7, <1>8 DEF ConsoleIsValid, m, c

LEMMA ControllerTemplateIsValid ==
  ASSUME NEW id, id \notin WideIds, ManifestIsValid(ManifestOf(id, "controller", "playback"))
  PROVE  ControllerIsValid(ManifestOf(id, "controller", "playback"), ControllerTemplate(id))
<1> DEFINE m == ManifestOf(id, "controller", "playback")
           c == ControllerTemplate(id)
           d == [nameIncludes |-> {}, hexIds |-> {}, standardMapping |-> {TRUE}, extra |-> FALSE]
<1>1. m.type = "controller" /\ c.id = m.id /\ c.id = id
  BY DEF ManifestOf, ControllerTemplate
<1>2. /\ c.match = <<d>>
      /\ c.mappings = <<[normalizedAction |-> "primary",
                         input |-> [kind |-> "button", index |-> 0, direction |-> {},
                                    threshold |-> {}]]>>
  BY DEF ControllerTemplate
<1> HIDE DEF m, c, d
<1>3. c.match # <<>> /\ \A i \in DOMAIN c.match : DeviceMatchIsValid(c.match[i])
  <2>1. d.nameIncludes = {} /\ d.hexIds = {} /\ d.standardMapping # {} /\ ~d.extra
    BY DEF d
  <2>2. DeviceMatchIsValid(d)
    BY <2>1 DEF DeviceMatchIsValid
  <2> QED
    BY <1>2, <2>2
<1>4. c.mappings # <<>> /\ \A i \in DOMAIN c.mappings : PhysicalInputIsValid(c.mappings[i].input)
  BY <1>2, DraftAssumption DEF PhysicalInputIsValid
<1>5. IsInjective([i \in DOMAIN c.mappings |-> PhysicalInputKey(c.mappings[i].input)])
  BY <1>2 DEF IsInjective
<1>6. IsListOf([i \in DOMAIN c.mappings |-> c.mappings[i].normalizedAction], Words)
  BY <1>2, DraftAssumption DEF IsListOf, ToSet, IsInjective
<1> QED
  BY <1>1, <1>3, <1>4, <1>5, <1>6 DEF ControllerIsValid, m, c

LEMMA CatalogTemplateIsValid ==
  ASSUME NEW id, ManifestIsValid(ManifestOf(id, "game-metadata", "playback"))
  PROVE  CatalogIsValid(ManifestOf(id, "game-metadata", "playback"), CatalogTemplate(id))
<1> DEFINE m == ManifestOf(id, "game-metadata", "playback")
           c == CatalogTemplate(id)
           r == c.records[1]
<1>1. /\ m.type = "game-metadata" /\ c.id = m.id
      /\ c.defaultLocale = "en-US"
      /\ DOMAIN c.records = {1} /\ c.records # <<>>
  BY DEF ManifestOf, CatalogTemplate
<1>2. /\ r.id = "orbit" /\ r.consoleId = "org.family" /\ ~r.extra /\ r.provenance = "CC0-1.0"
      /\ r.identifiers = {} /\ r.lists = {} /\ r.releaseDate = {} /\ r.playerCount = {}
      /\ r.artwork = {}
      /\ r.text = [l \in {"en-US"} |-> [title |-> l, description |-> {l}]]
  BY DEF CatalogTemplate, OrbitRecord
<1> HIDE DEF m, c, r
<1>3. DOMAIN r.text = {"en-US"} /\ IsLocalizedText(r.text["en-US"])
  BY <1>2 DEF IsLocalizedText, Malformed
<1>4. RecordIsValid(r, "en-US")
  BY <1>2, <1>3, DraftAssumption DEF RecordIsValid, Malformed
<1>5. IsInjective([i \in DOMAIN c.records |-> c.records[i].id])
  BY <1>1 DEF IsInjective
<1>6. \A i \in DOMAIN c.records : RecordIsValid(c.records[i], c.defaultLocale)
  BY <1>1, <1>4 DEF r
<1> QED
  BY <1>1, <1>5, <1>6, DraftAssumption DEF CatalogIsValid, m, c

LEMMA ScaffoldPasses ==
  ASSUME NEW p \in Scaffolds
  PROVE  ContractVerdict(p) = "valid"
           <=> ~(p.manifest.type = "controller" /\ p.manifest.id \in WideIds)
<1>1. PICK t \in {"console", "controller", "game-metadata"}, id \in ScaffoldIds :
        p = Scaffold(t, id) /\ ManifestIsValid(p.manifest)
  BY DEF Scaffolds
<1> DEFINE m == ManifestOf(id, t, "playback")
<1>2. /\ p.manifest = m /\ m.type = t /\ m.id = id /\ m.apiVersion = 1
      /\ t \in DOMAIN p.definition
      /\ t = "console" => p.definition[t] = ConsoleTemplate(id)
      /\ t = "controller" => p.definition[t] = ControllerTemplate(id)
      /\ t = "game-metadata" => p.definition[t] = CatalogTemplate(id)
  BY <1>1 DEF Scaffold, Plugin, ManifestOf
<1> HIDE DEF m
<1>3. ManifestVerdict(p.manifest) = "valid"
  BY <1>1, <1>2, DraftAssumption DEF ManifestVerdict
<1>4. DefinitionIsValid(p) => ContractVerdict(p) = "valid"
  BY <1>3 DEF ContractVerdict
<1>5. CASE t = "console"
  <2>1. ConsoleIsValid(p.manifest, p.definition[t])
    BY <1>1, <1>2, <1>5, ConsoleTemplateIsValid DEF m
  <2> QED
    BY <1>2, <1>4, <1>5, <2>1 DEF DefinitionIsValid
<1>6. CASE t = "controller" /\ id \notin WideIds
  <2>1. ControllerIsValid(p.manifest, p.definition[t])
    BY <1>1, <1>2, <1>6, ControllerTemplateIsValid DEF m
  <2> QED
    BY <1>2, <1>4, <1>6, <2>1 DEF DefinitionIsValid
<1>7. CASE t = "game-metadata"
  <2>1. CatalogIsValid(p.manifest, p.definition[t])
    BY <1>1, <1>2, <1>7, CatalogTemplateIsValid DEF m
  <2> QED
    BY <1>2, <1>4, <1>7, <2>1 DEF DefinitionIsValid
<1>8. ASSUME t = "controller", id \in WideIds PROVE ContractVerdict(p) # "valid"
  <2>1. p.definition[t].id = id
    BY <1>2, <1>8 DEF ControllerTemplate
  <2>2. ~ControllerIsValid(p.manifest, p.definition[t])
    BY <1>8, <2>1 DEF ControllerIsValid
  <2>3. ~DefinitionIsValid(p)
    BY <1>2, <1>8, <2>2 DEF DefinitionIsValid
  <2> QED
    BY <1>3, <2>3 DEF ContractVerdict
<1> QED
  BY <1>2, <1>5, <1>6, <1>7, <1>8
-----------------------------------------------------------------------------
(***************************************************************************)
(* The draft of a plugin and the registry.                                 *)
(***************************************************************************)
(* A draft has one definition, and the ports of a console are a list. *)
PortsAreAList(c) == "playerPorts" \in DOMAIN c /\ DOMAIN c.playerPorts \subseteq Nat

IsWhole(p) ==
  /\ DOMAIN p = {"manifest", "definition"}
  /\ \E t : DOMAIN p.definition = {t}
  /\ "console" \in DOMAIN p.definition => PortsAreAList(p.definition["console"])

ScaffoldIsUntouched == scaffolded /\ draftEdits = 0 => draft \in Scaffolds

ContractInv == IsWhole(draft) /\ draftEdits \in Nat /\ ScaffoldIsUntouched

LEMMA PluginIsWhole ==
  ASSUME NEW t, NEW m, NEW d, t = "console" => PortsAreAList(d)
  PROVE  IsWhole(Plugin(t, m, d))
  BY DEF Plugin, IsWhole

LEMMA TemplateHasPorts == ASSUME NEW id PROVE PortsAreAList(ConsoleTemplate(id))
<1>1. ConsoleTemplate(id).playerPorts = <<[id |-> "player-one", inputActions |-> <<"a">>]>>
  BY FamilyConsole DEF ConsoleTemplate
<1>2. "playerPorts" \in DOMAIN ConsoleTemplate(id)
  BY FamilyConsole DEF ConsoleTemplate
<1> QED
  BY <1>1, <1>2 DEF PortsAreAList

LEMMA OfficialConsolesHavePorts ==
  PortsAreAList(GameBoyFamilyConsole.console) /\ PortsAreAList(GameBoyAdvanceConsole.console)
  BY DEF PortsAreAList, GameBoyFamilyConsole, GameBoyAdvanceConsole, OfficialConsole

LEMMA ScaffoldsAreWhole ==
  ASSUME NEW p \in Scaffolds
  PROVE  IsWhole(p)
<1>1. PICK t \in {"console", "controller", "game-metadata"}, id \in ScaffoldIds :
        p = Scaffold(t, id)
  BY DEF Scaffolds
<1>2. PICK d : p = Plugin(t, ManifestOf(id, t, "playback"), d)
               /\ (t = "console" => d = ConsoleTemplate(id))
  BY <1>1 DEF Scaffold
<1>3. t = "console" => PortsAreAList(d)
  BY <1>2, TemplateHasPorts
<1> QED
  BY <1>2, <1>3, PluginIsWhole

LEMMA OfficialPluginsAreWhole ==
  ASSUME NEW p \in OfficialPlugins
  PROVE  IsWhole(p)
<1>1. PICK t, m, d : p = Plugin(t, m, d) /\ (t = "console" => PortsAreAList(d))
  BY OfficialConsolesHavePorts DEF OfficialPlugins
<1> QED
  BY <1>1, PluginIsWhole

LEMMA ContractInitInductive == ContractInit => ContractInv
<1> SUFFICES ASSUME ContractInit PROVE ContractInv
  OBVIOUS
<1>1. IsWhole(draft)
  BY ScaffoldsAreWhole, OfficialPluginsAreWhole DEF ContractInit, IsWhole
<1>2. draftEdits \in Nat /\ ScaffoldIsUntouched
  BY DEF ContractInit, ScaffoldIsUntouched
<1> QED
  BY <1>1, <1>2 DEF ContractInv

(* An edit of a field of a console leaves a list of ports. *)
LEMMA EditKeepsPorts ==
  ASSUME NEW c, PortsAreAList(c), NEW d \in Edits(c, DefinitionChoices["console"])
  PROVE  PortsAreAList(d)
<1>1. PICK f \in DOMAIN DefinitionChoices["console"] :
        \E v \in DefinitionChoices["console"][f] : d = [c EXCEPT ![f] = v]
  BY DEF Edits
<1>2. PICK v \in DefinitionChoices["console"][f] : d = [c EXCEPT ![f] = v]
  BY <1>1
<1>3. DOMAIN d = DOMAIN c
  BY <1>2
<1>4. CASE f = "playerPorts"
  <2>1. d.playerPorts = v /\ DOMAIN v \subseteq Nat
    BY <1>2, <1>4, DraftAssumption DEF PortsAreAList
  <2> QED
    BY <1>3, <2>1 DEF PortsAreAList
<1>5. CASE f # "playerPorts"
  BY <1>2, <1>3, <1>5 DEF PortsAreAList
<1> QED
  BY <1>4, <1>5

LEMMA ManifestEdited ==
  ASSUME ContractInv, EditManifest
  PROVE  ContractInv'
<1>1. PICK m : draft' = [draft EXCEPT !.manifest = m]
  BY DEF EditManifest
<1>2. IsWhole(draft')
  BY <1>1 DEF ContractInv, IsWhole
<1>3. draftEdits' = draftEdits + 1 /\ draftEdits \in Nat
  BY DEF EditManifest, Edited, ContractInv
<1>4. draftEdits' \in Nat /\ ScaffoldIsUntouched'
  BY <1>3 DEF ScaffoldIsUntouched
<1> QED
  BY <1>2, <1>4 DEF ContractInv

LEMMA DefinitionEdited ==
  ASSUME ContractInv, EditDefinition
  PROVE  ContractInv'
<1>1. PICK t \in DOMAIN draft.definition :
        \E d \in Edits(draft.definition[t], DefinitionChoices[t]) :
          draft' = [draft EXCEPT !.definition[t] = d]
  BY DEF EditDefinition
<1>2. PICK d \in Edits(draft.definition[t], DefinitionChoices[t]) :
        draft' = [draft EXCEPT !.definition[t] = d]
  BY <1>1
<1>3. /\ DOMAIN draft' = {"manifest", "definition"}
      /\ draft'.definition = [draft.definition EXCEPT ![t] = d]
  BY <1>2 DEF ContractInv, IsWhole
<1>4. DOMAIN draft'.definition = {t} /\ draft'.definition[t] = d
  BY <1>3 DEF ContractInv, IsWhole
<1>5. t = "console" => PortsAreAList(d)
  BY <1>2, EditKeepsPorts DEF ContractInv, IsWhole
<1>6. IsWhole(draft')
  BY <1>3, <1>4, <1>5 DEF IsWhole
<1>7. draftEdits' = draftEdits + 1 /\ draftEdits \in Nat
  BY DEF EditDefinition, Edited, ContractInv
<1>8. draftEdits' \in Nat /\ ScaffoldIsUntouched'
  BY <1>7 DEF ScaffoldIsUntouched
<1> QED
  BY <1>6, <1>8 DEF ContractInv

LEMMA ContractInductive == ContractInv /\ [ContractNext]_contractVars => ContractInv'
<1>1. ASSUME ContractInv, UNCHANGED draftVars PROVE ContractInv'
  BY <1>1 DEF ContractInv, draftVars, IsWhole, ScaffoldIsUntouched
<1>2. [ContractNext]_contractVars => EditManifest \/ EditDefinition \/ UNCHANGED draftVars
  BY DEF ContractNext, Registration, Removal, Judgement, contractVars
<1> QED
  BY <1>1, <1>2, ManifestEdited, DefinitionEdited

(* What the runner accepts is understood. *)
LEMMA DraftIsUnderstood ==
  ASSUME IsWhole(draft)
  PROVE  DefinitionIsUnderstood
<1> SUFFICES ASSUME NEW t \in DOMAIN draft.definition
             PROVE  LET d == draft.definition[t] IN
                      CASE t = "console" -> ContractVerdict(draft) = "valid" /\ MappingIsComplete(d)
                                              => ConsoleIsPlayable(d)
                        [] t = "controller" -> ContractVerdict(draft) = "valid"
                                                 => ControllerIsUnambiguous(d)
                        [] t = "game-metadata" -> CatalogIsUnderstood(draft.manifest, d)
                        [] OTHER -> TRUE
  BY DEF DefinitionIsUnderstood
<1> DEFINE d == draft.definition[t]
<1>1. DOMAIN draft.definition = {t}
  BY DEF IsWhole
<1>2. ContractVerdict(draft) = "valid" => draft.manifest.type = t /\ DefinitionIsValid(draft)
  BY <1>1 DEF ContractVerdict, DefinitionIsValid
<1>3. ASSUME t = "console", ContractVerdict(draft) = "valid", MappingIsComplete(d)
      PROVE  ConsoleIsPlayable(d)
  <2>1. ConsoleIsValid(draft.manifest, d)
    BY <1>2, <1>3 DEF DefinitionIsValid
  <2>2. DOMAIN d.playerPorts \subseteq Nat
    BY <1>3 DEF IsWhole, PortsAreAList
  <2> QED
    BY <1>3, <2>1, <2>2, ValidConsoleIsPlayable
<1>4. ASSUME t = "controller", ContractVerdict(draft) = "valid"
      PROVE  ControllerIsUnambiguous(d)
  <2>1. ControllerIsValid(draft.manifest, d)
    BY <1>2, <1>4 DEF DefinitionIsValid
  <2> QED
    BY <2>1, ValidControllerIsUnambiguous
<1>5. CatalogIsUnderstood(draft.manifest, d)
  BY EveryCatalogIsUnderstood
<1> HIDE DEF d
<1>6. CASE t = "console"
  BY <1>3, <1>6 DEF d
<1>7. CASE t = "controller"
  BY <1>4, <1>7 DEF d
<1>8. CASE t = "game-metadata"
  BY <1>5, <1>8 DEF d
<1> QED
  BY <1>6, <1>7, <1>8

LEMMA ContractIsKept == ContractInv => AcceptedStands
<1> SUFFICES ASSUME ContractInv PROVE AcceptedStands
  OBVIOUS
<1>1. ScaffoldIsAccepted
  BY ScaffoldPasses DEF ContractInv, ScaffoldIsUntouched, ScaffoldIsAccepted
<1>2. DefinitionIsUnderstood
  BY DraftIsUnderstood DEF ContractInv
<1> QED
  BY <1>1, <1>2 DEF AcceptedStands

(* What one check of a plugin accepts stands at every later one: what the  *)
(* scaffold writes at the runner, but for a controller whose id is of      *)
(* WideIds, which the runner refuses; and a console, a controller or a     *)
(* catalog that the runner accepts at main and in the window               *)
(* (AcceptedStands).                                                       *)
THEOREM WhatIsAcceptedStands == ContractSpec => []AcceptedStands
<1>1. ContractInit => ContractInv
  BY ContractInitInductive
<1>2. ContractInv /\ [ContractNext]_contractVars => ContractInv'
  BY ContractInductive
<1> QED
  BY <1>1, <1>2, ContractIsKept, PTL DEF ContractSpec
-----------------------------------------------------------------------------
(***************************************************************************)
(* The answers of main.  What library.json may hold is a game or not; a    *)
(* game that is listed is one the window takes, and is listed as it is     *)
(* once it has been written back.                                          *)
(***************************************************************************)
IsEntry(e) ==
  DOMAIN e = {"texts", "extension", "favorite", "autosave", "playtime", "identifiers",
              "artworkKey", "lastPlayedAt"}

IpcInv ==
  /\ IsEntry(saved) /\ locale \subseteq LocaleTags
  /\ selected \subseteq {Selection(x) : x \in RomExtension}
  /\ IsUpdateState(updateState)
  /\ AnswersAreUnderstood

(* A game in the form in which the library is written. *)
IsGame(g) ==
  /\ IsEntry(g) /\ Parses(g)
  /\ \E f : g.favorite = {f}
  /\ \E a : g.autosave = {a}
  /\ \E p : g.playtime = {p}
  /\ \E s : g.identifiers = {s}

LEMMA OrOne == \A x, default : Or({x}, default) = x
  BY DEF Or

LEMMA OrIsOne ==
  ASSUME NEW S, NEW default
  PROVE  Or(S, default) \in S \/ (S = {} /\ Or(S, default) = default)
<1>1. CASE S = {}
  BY <1>1 DEF Or
<1>2. CASE S # {}
  <2>1. \E x : x \in S
    BY <1>2
  <2>2. (CHOOSE x \in S : TRUE) \in S
    BY <2>1, Zenon
  <2> QED
    BY <1>2, <2>2 DEF Or
<1> QED
  BY <1>1, <1>2

LEMMA ParsedIsAGame ==
  ASSUME NEW e, IsEntry(e), Parses(e)
  PROVE  IsGame(GameFromJson(e))
<1> DEFINE g == GameFromJson(e)
<1>1. /\ IsEntry(g)
      /\ g.texts = e.texts /\ g.extension = e.extension /\ g.artworkKey = e.artworkKey
      /\ g.lastPlayedAt = e.lastPlayedAt
      /\ g.favorite = {Or(e.favorite, FALSE)} /\ g.autosave = {Or(e.autosave, FALSE)}
      /\ g.playtime = {Or(e.playtime, 0)} /\ g.identifiers = {Or(e.identifiers, <<>>)}
  BY DEF GameFromJson, IsEntry
<1> HIDE DEF g
<1>2. Or(e.playtime, 0) >= 0
  BY OrIsOne DEF Parses
<1>3. Parses(g)
  BY <1>1, <1>2 DEF Parses
<1>4. IsGame(g)
  BY <1>1, <1>3 DEF IsGame
<1> QED
  BY <1>4 DEF g

(* A game that is read back is told as it was. *)
LEMMA ReadBackAlike ==
  ASSUME NEW g, IsGame(g), NEW l, NEW file
  PROVE  ToLibraryGame(GameFromJson(g), l, file) = ToLibraryGame(g, l, file)
<1> DEFINE h == GameFromJson(g)
<1>1. /\ h.texts = g.texts /\ h.extension = g.extension /\ h.artworkKey = g.artworkKey
      /\ h.lastPlayedAt = g.lastPlayedAt
      /\ h.favorite = {Or(g.favorite, FALSE)}
      /\ h.playtime = {Or(g.playtime, 0)} /\ h.identifiers = {Or(g.identifiers, <<>>)}
  BY DEF GameFromJson, IsGame, IsEntry
<1> HIDE DEF h
<1>2. PICK f, p, s : g.favorite = {f} /\ g.playtime = {p} /\ g.identifiers = {s}
  BY DEF IsGame
<1>3. h.favorite = g.favorite /\ h.playtime = g.playtime /\ h.identifiers = g.identifiers
  <2>1. /\ h.favorite = {Or({f}, FALSE)} /\ h.playtime = {Or({p}, 0)}
        /\ h.identifiers = {Or({s}, <<>>)}
    BY <1>1, <1>2
  <2>2. Or({f}, FALSE) = f /\ Or({p}, 0) = p /\ Or({s}, <<>>) = s
    BY OrOne
  <2> QED
    BY <1>2, <2>1, <2>2
<1>4. ToLibraryGame(h, l, file) = ToLibraryGame(g, l, file)
  BY <1>1, <1>3 DEF ToLibraryGame
<1> QED
  BY <1>4 DEF h

LEMMA GameIsTaken ==
  ASSUME NEW g, IsGame(g), NEW l, NEW file
  PROVE  IsLibraryGame(ToLibraryGame(g, l, file))
<1> DEFINE m == ResolveGameMetadata(Catalogs, Or(g.identifiers, <<>>), Or(l, "en-US"))
           t == ToLibraryGame(g, l, file)
<1>1. ASSUME NEW x \in m PROVE IsResolvedGameMetadata(x)
  <2> DEFINE ids == Or(g.identifiers, <<>>)
             tag == Or(l, "en-US")
  <2> HIDE DEF ids, tag
  <2>1. PICK p \in DOMAIN Catalogs : \E i \in DOMAIN Catalogs[p].catalog.records :
             /\ CatalogIsValid(Catalogs[p].manifest, Catalogs[p].catalog)
             /\ Matches(Catalogs[p].catalog.records[i], ids)
             /\ x = Resolved(Catalogs[p].catalog, Catalogs[p].catalog.records[i], tag)
    BY ResolvedIsARecord DEF ids, tag
  <2>2. PICK i \in DOMAIN Catalogs[p].catalog.records :
             /\ CatalogIsValid(Catalogs[p].manifest, Catalogs[p].catalog)
             /\ x = Resolved(Catalogs[p].catalog, Catalogs[p].catalog.records[i], tag)
    BY <2>1
  <2> QED
    BY <2>2, ValidRecordIsTaken
<1>2. /\ t.texts = g.texts /\ t.extension = g.extension /\ t.playtime = g.playtime
      /\ t.lastPlayedAt = g.lastPlayedAt /\ t.metadata = m
      /\ t.artworkDataUrl \subseteq {"data:image/png"}
  BY DEF ToLibraryGame
<1> HIDE DEF m, t
<1>3. IsLibraryGame(t)
  BY <1>1, <1>2 DEF IsLibraryGame, IsGame, Parses
<1> QED
  BY <1>3 DEF t

(* Whatever is listed is a game. *)
LEMMA ListedIsAGame ==
  ASSUME IsEntry(saved), NEW g \in Listed
  PROVE  IsGame(g) /\ Listed = {g}
  BY ParsedIsAGame DEF Listed

(* A game that is stored is what is listed next. *)
LEMMA StoredIsListed ==
  ASSUME NEW g, IsGame(g), NEW l, NEW file, saved' = g
  PROVE  {ToLibraryGame(h, l, file) : h \in Listed'} = {ToLibraryGame(g, l, file)}
<1>1. Listed' = {GameFromJson(g)}
  BY DEF Listed, IsGame
<1> QED
  BY <1>1, ReadBackAlike

(* importGame: what add registers is a game. *)
LEMMA ImportedIsAGame ==
  ASSUME NEW x \in RomExtension, NEW header
  PROVE  IsGame(ImportedGame(x, header))
<1> DEFINE e == GameFromJson(NewEntry)
           ids == IdentifiersForRom(x, header)
           g == [e EXCEPT !.extension = x, !.identifiers = {ids}]
<1>1. /\ IsEntry(NewEntry) /\ NewEntry.texts = {"text"} /\ NewEntry.extension = ".gb"
      /\ NewEntry.artworkKey = {} /\ NewEntry.lastPlayedAt = {} /\ NewEntry.playtime = {0}
  BY DEF NewEntry, IsEntry
<1>2. Parses(NewEntry)
  BY <1>1 DEF Parses, Malformed, RomExtension
<1>3. IsGame(e)
  BY <1>1, <1>2, ParsedIsAGame
<1> HIDE DEF e, ids
<1>4. /\ IsEntry(g) /\ g.texts = e.texts /\ g.extension = x /\ g.artworkKey = e.artworkKey
      /\ g.lastPlayedAt = e.lastPlayedAt /\ g.playtime = e.playtime
      /\ g.favorite = e.favorite /\ g.autosave = e.autosave /\ g.identifiers = {ids}
  BY <1>3 DEF IsGame, IsEntry
<1> HIDE DEF g
<1>5. Parses(g)
  BY <1>3, <1>4 DEF IsGame, Parses
<1>6. IsGame(g)
  BY <1>3, <1>4, <1>5 DEF IsGame
<1> QED
  BY <1>6 DEF g, e, ids, ImportedGame
-----------------------------------------------------------------------------
(* The consoles and cores that come with the program. *)
LEMMA OfficialFields ==
  ASSUME NEW id, NEW actions, NEW entries, NEW points, NEW scale, NEW extensions, NEW limit
  PROVE  LET c == OfficialConsole(id, actions, entries, points, scale, extensions, limit).console
         IN /\ c.id = id /\ c.generationKey = {"generationHandheld"}
            /\ c.supportedRomExtensions = extensions
            /\ \E a : c.assets = {a} /\ a.consoleHero = "assets/hero"
<1> DEFINE c == OfficialConsole(id, actions, entries, points, scale, extensions, limit).console
           a == [consoleHero |-> "assets/hero", pictures |-> {"assets/blueprint"},
       cartridge |-> {"assets/cartridge"},
       cartridgeLabelMap |-> {[typed |-> TRUE, aspectRatio |-> 1, corners |->
         <<Corner(27, 14), Corner(79, 19), Corner(79, 73), Corner(27, 73)>>]},
       controlDiagram |-> {[alt |-> "blueprint", aspectRatio |-> {1}, scale |-> scale,
                            controlPoints |-> points]}]
<1>1. a.consoleHero = "assets/hero"
  OBVIOUS
<1> HIDE DEF a
<1>2. c.assets = {a}
  BY DEF OfficialConsole, a
<1>3. c.id = id /\ c.generationKey = {"generationHandheld"} /\ c.supportedRomExtensions = extensions
  BY DEF OfficialConsole
<1> QED
  BY <1>1, <1>2, <1>3

LEMMA FamilyMappingIsTaken == WindowAcceptsMapping(GameBoyFamilyConsole.console.inputMapping)
<1> DEFINE m == GameBoyFamilyConsole.console.inputMapping
<1>1. /\ m.version = 1 /\ m.playerPortId = "player-one"
      /\ m.entries = <<[normalizedAction |-> "primary", consoleAction |-> "a"],
                       [normalizedAction |-> "secondary", consoleAction |-> "b"]>>
  BY DEF GameBoyFamilyConsole, OfficialConsole, Maps
<1> HIDE DEF m
<1>2. Len(m.entries) = 2 /\ DOMAIN m.entries = {1, 2}
  BY <1>1
<1>3. /\ m.entries[1].normalizedAction = "primary" /\ m.entries[1].consoleAction = "a"
      /\ m.entries[2].normalizedAction = "secondary" /\ m.entries[2].consoleAction = "b"
  BY <1>1
<1>4. IsListOf([i \in DOMAIN m.entries |-> m.entries[i].normalizedAction], NormalizedActions)
  BY <1>2, <1>3, IpcAssumption DEF IsListOf, ToSet, IsInjective
<1>5. IsListOf([i \in DOMAIN m.entries |-> m.entries[i].consoleAction], Words)
  BY <1>2, <1>3, IpcAssumption DEF IsListOf, ToSet, IsInjective
<1>6. WindowAcceptsMapping(m)
  BY <1>1, <1>2, <1>4, <1>5, IpcAssumption DEF WindowAcceptsMapping
<1> QED
  BY <1>6 DEF m

LEMMA AdvanceMappingIsTaken == WindowAcceptsMapping(GameBoyAdvanceConsole.console.inputMapping)
<1> DEFINE m == GameBoyAdvanceConsole.console.inputMapping
<1>1. /\ m.version = 1 /\ m.playerPortId = "player-one"
      /\ m.entries = <<[normalizedAction |-> "left-shoulder", consoleAction |-> "l"],
                       [normalizedAction |-> "primary", consoleAction |-> "a"],
                       [normalizedAction |-> "secondary", consoleAction |-> "b"]>>
  BY DEF GameBoyAdvanceConsole, OfficialConsole, Maps
<1> HIDE DEF m
<1>2. Len(m.entries) = 3 /\ DOMAIN m.entries = {1, 2, 3}
  BY <1>1
<1>3. /\ m.entries[1].normalizedAction = "left-shoulder" /\ m.entries[1].consoleAction = "l"
      /\ m.entries[2].normalizedAction = "primary" /\ m.entries[2].consoleAction = "a"
      /\ m.entries[3].normalizedAction = "secondary" /\ m.entries[3].consoleAction = "b"
  BY <1>1
<1>4. IsListOf([i \in DOMAIN m.entries |-> m.entries[i].normalizedAction], NormalizedActions)
  BY <1>2, <1>3, IpcAssumption DEF IsListOf, ToSet, IsInjective
<1>5. IsListOf([i \in DOMAIN m.entries |-> m.entries[i].consoleAction], Words)
  BY <1>2, <1>3, IpcAssumption DEF IsListOf, ToSet, IsInjective
<1>6. WindowAcceptsMapping(m)
  BY <1>1, <1>2, <1>4, <1>5, IpcAssumption DEF WindowAcceptsMapping
<1> QED
  BY <1>6 DEF m

(* The console of an entry of the answer to listConsolePlugins. *)
LEMMA EntriesAreConsoles ==
  /\ DOMAIN PluginConsoles = {1, 2}
  /\ \A i \in {1, 2} : IsConsoleEntry(ConsoleEntry(PluginConsoles[i]))
  /\ ConsoleEntry(PluginConsoles[1]).id # ConsoleEntry(PluginConsoles[2]).id
<1>1. /\ DOMAIN PluginConsoles = {1, 2}
      /\ PluginConsoles[1] = GameBoyAdvanceConsole /\ PluginConsoles[2] = GameBoyFamilyConsole
  BY DEF PluginConsoles
<1>2. ASSUME NEW c, NEW id, NEW extensions, NEW a, c.console.id = id, id # Malformed,
             c.console.generationKey = {"generationHandheld"}, c.console.assets = {a},
             a.consoleHero = "assets/hero", c.console.supportedRomExtensions = extensions,
             Malformed \notin ToSet(extensions)
      PROVE  IsConsoleEntry(ConsoleEntry(c)) /\ ConsoleEntry(c).id = id
  <2> DEFINE e == ConsoleEntry(c)
  <2>1. (CHOOSE x \in c.console.assets : TRUE) = a
    BY <1>2
  <2>2. /\ e.id = id /\ e.name = "name" /\ e.generationKey = "generationHandheld"
        /\ e.heroUrl = "data:image/svg+xml" /\ e.extensions = ToSet(extensions)
    BY <1>2, <2>1, OrOne DEF ConsoleEntry, IsAsset, Malformed
  <2> HIDE DEF e
  <2>3. IsConsoleEntry(e)
    BY <1>2, <2>2 DEF IsConsoleEntry, Malformed
  <2> QED
    BY <2>2, <2>3 DEF e
<1>3. PICK a : /\ GameBoyAdvanceConsole.console.assets = {a} /\ a.consoleHero = "assets/hero"
  BY OfficialFields DEF GameBoyAdvanceConsole
<1>4. PICK b : /\ GameBoyFamilyConsole.console.assets = {b} /\ b.consoleHero = "assets/hero"
  BY OfficialFields DEF GameBoyFamilyConsole
<1>5. /\ GameBoyAdvanceConsole.console.id = "org.advance"
      /\ GameBoyAdvanceConsole.console.generationKey = {"generationHandheld"}
      /\ GameBoyAdvanceConsole.console.supportedRomExtensions = <<".gba">>
  BY DEF GameBoyAdvanceConsole, OfficialConsole
<1>6. /\ GameBoyFamilyConsole.console.id = "org.family"
      /\ GameBoyFamilyConsole.console.generationKey = {"generationHandheld"}
      /\ GameBoyFamilyConsole.console.supportedRomExtensions = <<".gb", ".gbc">>
  BY DEF GameBoyFamilyConsole, OfficialConsole
<1>7. Malformed \notin ToSet(<<".gba">>) /\ Malformed \notin ToSet(<<".gb", ".gbc">>)
  BY DEF Malformed, ToSet
<1>8. /\ IsConsoleEntry(ConsoleEntry(GameBoyAdvanceConsole))
      /\ ConsoleEntry(GameBoyAdvanceConsole).id = "org.advance"
  BY <1>2, <1>3, <1>5, <1>7 DEF Malformed
<1>9. /\ IsConsoleEntry(ConsoleEntry(GameBoyFamilyConsole))
      /\ ConsoleEntry(GameBoyFamilyConsole).id = "org.family"
  BY <1>2, <1>4, <1>6, <1>7 DEF Malformed
<1> QED
  BY <1>1, <1>8, <1>9
-----------------------------------------------------------------------------
(***************************************************************************)
(* Every answer passes the check of its channel.                           *)
(***************************************************************************)
LEMMA GameAnswerIsTaken ==
  ASSUME NEW channel \in {"importGame", "updateFavorite"}, NEW a,
         a.status \in {"updated", "imported"} => IsLibraryGame(a.game)
  PROVE  Understands(channel, a)
  BY DEF Understands

LEMMA ListingIsTaken ==
  ASSUME IsEntry(saved), NEW a \in LibraryAnswers
  PROVE  /\ Understands("listLibrary", a)
         /\ a.status # "error" =>
              \E l \in {locale, {}} : a.games = {ToLibraryGame(g, l, artworkFile) : g \in Listed}
<1>1. CASE a \in {Error("unreadable"), Error("invalid")}
  <2>1. a.status = "error"
    BY <1>1 DEF Error
  <2> QED
    BY <2>1 DEF Understands
<1>2. CASE a \notin {Error("unreadable"), Error("invalid")}
  <2>1. PICK l \in {locale, {}} :
          a = [status |-> "ready", games |-> {ToLibraryGame(g, l, artworkFile) : g \in Listed}]
    BY <1>2 DEF LibraryAnswers
  <2>2. a.games = {ToLibraryGame(g, l, artworkFile) : g \in Listed}
    BY <2>1
  <2>3. \A g \in a.games : IsLibraryGame(g)
    BY <2>2, ListedIsAGame, GameIsTaken
  <2>4. Understands("listLibrary", a)
    BY <2>3 DEF Understands
  <2> QED
    BY <2>2, <2>4
<1> QED
  BY <1>1, <1>2

LEMMA ImportIsTaken ==
  ASSUME NEW a \in ImportAnswers
  PROVE  Understands("importGame", a)
<1>1. CASE a \in {Status("cancelled"), Error("uncopied")}
  <2>1. a.status \in {"cancelled", "error"}
    BY <1>1 DEF Status, Error
  <2> QED
    BY <2>1, GameAnswerIsTaken
<1>2. CASE a \notin {Status("cancelled"), Error("uncopied")}
  <2>1. PICK h \in Headers :
          a \in {[status |-> "imported", game |-> ToLibraryGame(ImportedGame(x, h), locale, FALSE)] :
                   x \in {".gb", ".gba"}}
    BY <1>2 DEF ImportAnswers
  <2>2. PICK x \in {".gb", ".gba"} :
          a = [status |-> "imported", game |-> ToLibraryGame(ImportedGame(x, h), locale, FALSE)]
    BY <2>1
  <2>3. IsGame(ImportedGame(x, h))
    BY ImportedIsAGame DEF RomExtension
  <2>4. a.game = ToLibraryGame(ImportedGame(x, h), locale, FALSE)
    BY <2>2
  <2>5. IsLibraryGame(a.game)
    BY <2>3, <2>4, GameIsTaken
  <2> QED
    BY <2>5, GameAnswerIsTaken
<1> QED
  BY <1>1, <1>2

LEMMA ConsolesAreTaken ==
  ASSUME NEW a \in ConsoleAnswers
  PROVE  Understands("listConsolePlugins", a)
<1>1. PICK readable \in SUBSET {1, 2} :
        a = [status |-> "plugins", plugins |-> [i \in readable |-> ConsoleEntry(PluginConsoles[i])]]
  BY EntriesAreConsoles DEF ConsoleAnswers
<1>2. a.plugins = [i \in readable |-> ConsoleEntry(PluginConsoles[i])]
  BY <1>1
<1>3. HasUniqueIds(a.plugins)
  <2> DEFINE f == [i \in DOMAIN a.plugins |-> a.plugins[i].id]
  <2>1. DOMAIN f \subseteq {1, 2} /\ \A i \in DOMAIN f : f[i] = ConsoleEntry(PluginConsoles[i]).id
    BY <1>2
  <2>2. IsInjective(f)
    <3> HIDE DEF f
    <3> QED
      BY <2>1, EntriesAreConsoles DEF IsInjective
  <2> QED
    BY <2>2 DEF HasUniqueIds
<1>4. \A i \in DOMAIN a.plugins : IsConsoleEntry(a.plugins[i])
  <2> SUFFICES ASSUME NEW i \in DOMAIN a.plugins PROVE IsConsoleEntry(a.plugins[i])
    OBVIOUS
  <2>1. i \in {1, 2} /\ a.plugins[i] = ConsoleEntry(PluginConsoles[i])
    BY <1>2
  <2>2. IsConsoleEntry(ConsoleEntry(PluginConsoles[i]))
    BY <2>1, EntriesAreConsoles
  <2> QED
    BY <2>1, <2>2
<1> QED
  BY <1>3, <1>4 DEF Understands

LEMMA MappingIsTaken ==
  ASSUME NEW a \in InputConfigurations
  PROVE  Understands("getInputConfiguration", a)
<1>1. PICK c \in {GameBoyAdvanceConsole, GameBoyFamilyConsole} :
        a = [status |-> "mapping", mapping |-> c.console.inputMapping]
  BY DEF InputConfigurations, PluginConsoles
<1>2. WindowAcceptsMapping(a.mapping)
  BY <1>1, FamilyMappingIsTaken, AdvanceMappingIsTaken
<1> QED
  BY <1>2 DEF Understands

LEMMA CapabilitiesAreTaken ==
  ASSUME NEW a \in Capabilities
  PROVE  Understands("getEmulatorCapabilities", a)
<1>1. PICK e \in UNION {EmulatorForConsole(PluginConsoles[i].console) : i \in DOMAIN PluginConsoles} :
        a = [status |-> "capabilities", core |-> Cores[e]]
  BY DEF Capabilities
<1>2. e \in DOMAIN Cores
  BY <1>1 DEF EmulatorForConsole, EmulatorFor, Earliest
<1>3. a.core = MgbaEmulator \/ a.core = SameBoyEmulator
  BY <1>1, <1>2 DEF Cores
<1>4. a.core.typedCapabilities
  <2>1. SameBoyEmulator.typedCapabilities /\ "typedCapabilities" \in DOMAIN SameBoyEmulator
    BY DEF SameBoyEmulator
  <2>2. MgbaEmulator.typedCapabilities
    BY <2>1 DEF MgbaEmulator
  <2> QED
    BY <1>3, <2>1, <2>2
<1> QED
  BY <1>4 DEF Understands

LEMMA LoadedIsTaken ==
  ASSUME selected \subseteq {Selection(x) : x \in RomExtension}, NEW a \in LoadAnswers
  PROVE  Understands("loadRom", a)
<1>1. CASE a \in {SessionError("unavailable"), SessionError("invalid-rom")}
  <2>1. a.status = "error" /\ a.code \in {"unavailable", "invalid-rom"}
    BY <1>1 DEF SessionError
  <2> QED
    BY <2>1 DEF Understands
<1>2. CASE a \in {[status |-> "loaded", rom |-> s] : s \in selected}
  <2>1. PICK x \in RomExtension : a = [status |-> "loaded", rom |-> Selection(x)]
    BY <1>2
  <2>2. a.status = "loaded" /\ a.rom.extension = x
    BY <2>1 DEF Selection
  <2> QED
    BY <2>2 DEF Understands, IsSelectedRom
<1> QED
  BY <1>1, <1>2 DEF LoadAnswers

LEMMA SessionAnswerIsTaken ==
  ASSUME NEW a \in SessionAnswers
  PROVE  IsSessionCommandResponse(a) /\ a.status # "autosave-available"
<1>1. CASE \E s \in SessionStatus : a = [status |-> "ok", sessionStatus |-> s]
  BY <1>1 DEF IsSessionCommandResponse, SessionStatus, Malformed
<1>2. CASE \E c \in SessionCodes : a = SessionError(c)
  BY <1>2 DEF IsSessionCommandResponse, SessionError
<1> QED
  BY <1>1, <1>2 DEF SessionAnswers

LEMMA StatesAreTaken ==
  ASSUME NEW a \in StateListAnswers
  PROVE  Understands("listSaveStates", a)
<1>1. CASE a \in {SessionError("invalid-state"), SessionError("unexpected")}
  <2>1. a.status = "error" /\ a.code \in {"invalid-state", "unexpected"}
    BY <1>1 DEF SessionError
  <2>2. IsSaveStateListResponse(a)
    BY <2>1 DEF IsSaveStateListResponse, SessionCodes
  <2> QED
    BY <2>2 DEF Understands
<1>2. CASE \E slots \in SUBSET SaveSlots : a = [status |-> "ok", slots |-> slots]
  <2>1. IsSaveStateListResponse(a)
    BY <1>2 DEF IsSaveStateListResponse
  <2> QED
    BY <2>1 DEF Understands
<1> QED
  BY <1>1, <1>2 DEF StateListAnswers

(* Whatever main holds, the window takes what it answers. *)
LEMMA AnswerIsTaken ==
  ASSUME IpcInv, NEW channel \in Channels, NEW a \in Answers(channel)
  PROVE  Understands(channel, a)
<1>1. CASE channel = "importGame"
  BY <1>1, ImportIsTaken DEF Answers
<1>2. CASE channel = "listConsolePlugins"
  BY <1>2, ConsolesAreTaken DEF Answers
<1>3. CASE channel = "getInputConfiguration"
  BY <1>3, MappingIsTaken DEF Answers
<1>4. CASE channel = "getEmulatorCapabilities"
  BY <1>4, CapabilitiesAreTaken DEF Answers
<1>5. CASE channel = "loadRom"
  BY <1>5, LoadedIsTaken DEF Answers, IpcInv
<1>6. CASE channel = "session"
  BY <1>6, SessionAnswerIsTaken DEF Answers, Understands
<1>7. CASE channel = "startLibraryGame"
  <2>1. a \in SessionAnswers \/ a.status = "autosave-available"
    BY <1>7 DEF Answers, StartAnswers
  <2> QED
    BY <1>7, <2>1, SessionAnswerIsTaken DEF Understands
<1>8. CASE channel = "listSaveStates"
  BY <1>8, StatesAreTaken DEF Answers
<1>9. CASE channel = "getGlobalPreferences"
  <2>1. a = Error("unreadable") \/ a = [status |-> "ready", locale |-> locale]
    BY <1>9 DEF Answers, PreferenceAnswers
  <2>2. a.status = "ready" => a.locale = locale
    BY <2>1 DEF Error
  <2> QED
    BY <1>9, <2>2 DEF Understands, IpcInv
<1>10. CASE channel = "getUpdateState"
  BY <1>10 DEF Answers, Understands, IpcInv
<1> QED
  BY <1>1, <1>2, <1>3, <1>4, <1>5, <1>6, <1>7, <1>8, <1>9, <1>10 DEF Channels
-----------------------------------------------------------------------------
(***************************************************************************)
(* The steps of main and of the window.                                    *)
(***************************************************************************)
(* What the window was told, as AnswersAreUnderstood has it. *)
Retold == {ToLibraryGame(g, locale, artworkFile) : g \in Listed}

LEMMA IpcInitInductive == IpcInit => IpcInv
<1> SUFFICES ASSUME IpcInit PROVE IpcInv
  OBVIOUS
<1>1. IsEntry(saved)
  BY DEF IpcInit, NewEntry, IsEntry
<1>2. IsUpdateState(updateState)
  BY DEF IpcInit, Status, IsUpdateState
<1> QED
  BY <1>1, <1>2 DEF IpcInit, IpcInv, AnswersAreUnderstood

LEMMA HeldStays ==
  ASSUME IpcInv, UNCHANGED heldVars
  PROVE  /\ IsEntry(saved') /\ locale' \subseteq LocaleTags
         /\ selected' \subseteq {Selection(x) : x \in RomExtension}
         /\ IsUpdateState(updateState') /\ Retold' = Retold
  BY DEF heldVars, IpcInv, Retold, Listed

(* Another listing. *)
LEMMA LibraryListed ==
  ASSUME IpcInv, ListLibrary
  PROVE  IpcInv'
<1>1. PICK a \in LibraryAnswers :
        /\ Receive("listLibrary", a)
        /\ steady' = (told' # {} /\ told' = Retold)
  BY DEF ListLibrary, Retold
<1>2. ~failed'
  BY <1>1, ListingIsTaken DEF Receive, IpcInv, AnswersAreUnderstood
<1>3. UNCHANGED heldVars
  BY DEF ListLibrary
<1>4. steady' => told' = Retold'
  BY <1>1, <1>3, HeldStays
<1> QED
  BY <1>2, <1>3, <1>4, HeldStays DEF IpcInv, AnswersAreUnderstood, Retold

LEMMA RomSelected ==
  ASSUME IpcInv, SelectRom
  PROVE  IpcInv'
<1>1. PICK a \in SelectAnswers :
        /\ Receive("selectRom", a)
        /\ selected' = IF a.status = "selected" THEN {a.rom} ELSE selected
  BY DEF SelectRom
<1>2. UNCHANGED <<saved, artworkFile, locale, updateState, told, steady>>
  BY DEF SelectRom
<1>3. \/ a.status = "cancelled"
      \/ a.status = "selected" /\ \E x \in RomExtension : a.rom = Selection(x)
  BY DEF SelectAnswers, Status
<1>4. Understands("selectRom", a)
  <2>1. \A x \in RomExtension : IsSelectedRom(Selection(x))
    BY DEF IsSelectedRom, Selection
  <2>2. a.status = "selected" => IsSelectedRom(a.rom)
    BY <1>3, <2>1
  <2> QED
    BY <2>2 DEF Understands
<1>5. ~failed'
  BY <1>1, <1>4 DEF Receive, IpcInv, AnswersAreUnderstood
<1>6. selected' \subseteq {Selection(x) : x \in RomExtension}
  BY <1>1, <1>3 DEF IpcInv
<1>7. steady' => told' = Retold'
  BY <1>2 DEF IpcInv, AnswersAreUnderstood, Retold, Listed
<1> QED
  BY <1>2, <1>5, <1>6, <1>7 DEF IpcInv, AnswersAreUnderstood, Retold

LEMMA ChannelAsked ==
  ASSUME IpcInv, NEW channel \in Channels, Ask(channel)
  PROVE  IpcInv'
<1>1. PICK a \in Answers(channel) : Receive(channel, a)
  BY DEF Ask
<1>2. ~failed'
  BY <1>1, AnswerIsTaken DEF Receive, IpcInv, AnswersAreUnderstood
<1>3. UNCHANGED <<heldVars, told, steady>>
  BY DEF Ask
<1>4. steady' => told' = Retold'
  BY <1>3, HeldStays DEF IpcInv, AnswersAreUnderstood, Retold
<1> QED
  BY <1>2, <1>3, <1>4, HeldStays DEF IpcInv, AnswersAreUnderstood, Retold

(* A change of a field of a game writes a game back, and the window is     *)
(* told what a listing would tell it.                                      *)
LEMMA GameMutated ==
  ASSUME IpcInv, NEW changed, \A g \in changed : IsGame(g), NEW copied, Mutation(changed, copied)
  PROVE  IpcInv'
<1>1. UNCHANGED <<locale, selected, updateState>>
  BY DEF Mutation
<1>2. CASE \E l \in {locale, {}} : \E g \in changed :
             LET answer == [status |-> "updated", game |-> ToLibraryGame(g, l, copied)]
             IN /\ saved' = g /\ artworkFile' = copied
                /\ Receive("updateFavorite", answer)
                /\ told' = IF failed' THEN told ELSE {answer.game}
                /\ steady' = (steady /\ copied = artworkFile /\ l = locale)
  <2>0. PICK l \in {locale, {}} : \E g \in changed :
          LET answer == [status |-> "updated", game |-> ToLibraryGame(g, l, copied)]
          IN /\ saved' = g /\ artworkFile' = copied
             /\ Receive("updateFavorite", answer)
             /\ told' = IF failed' THEN told ELSE {answer.game}
             /\ steady' = (steady /\ copied = artworkFile /\ l = locale)
    BY <1>2, Zenon
  <2>1. PICK g \in changed :
          LET answer == [status |-> "updated", game |-> ToLibraryGame(g, l, copied)]
          IN /\ saved' = g /\ artworkFile' = copied
             /\ Receive("updateFavorite", answer)
             /\ told' = IF failed' THEN told ELSE {answer.game}
             /\ steady' = (steady /\ copied = artworkFile /\ l = locale)
    BY <2>0, Zenon
  <2> DEFINE t == ToLibraryGame(g, l, copied)
             answer == [status |-> "updated", game |-> t]
  <2>2. /\ saved' = g /\ artworkFile' = copied
        /\ Receive("updateFavorite", answer)
        /\ told' = IF failed' THEN told ELSE {answer.game}
        /\ steady' = (steady /\ copied = artworkFile /\ l = locale)
    BY <2>1
  <2>3. IsGame(g)
    OBVIOUS
  <2>4. IsLibraryGame(t)
    BY <2>3, GameIsTaken
  <2>5. {ToLibraryGame(h, l, copied) : h \in Listed'} = {t}
    BY <2>2, <2>3, StoredIsListed
  <2> HIDE DEF t
  <2>6. answer.game = t
    OBVIOUS
  <2> HIDE DEF answer
  <2>7. ~failed'
    BY <2>2, <2>4, <2>6, GameAnswerIsTaken DEF Receive, IpcInv, AnswersAreUnderstood
  <2>8. steady' => told' = Retold'
    BY <1>1, <2>2, <2>5, <2>6, <2>7 DEF Retold
  <2>9. IsEntry(saved')
    BY <2>2, <2>3 DEF IsGame
  <2> QED
    BY <1>1, <2>7, <2>8, <2>9 DEF IpcInv, AnswersAreUnderstood, Retold
<1>3. CASE /\ Receive("updateFavorite", Error("unstored"))
           /\ artworkFile' \in {artworkFile, copied} /\ steady' = (steady /\ artworkFile' = artworkFile)
           /\ UNCHANGED <<saved, told>>
  <2>1. Error("unstored").status = "error"
    BY DEF Error
  <2>2. ~failed'
    BY <1>3, <2>1, GameAnswerIsTaken DEF Receive, IpcInv, AnswersAreUnderstood
  <2>3. steady' => told' = Retold'
    BY <1>1, <1>3 DEF IpcInv, AnswersAreUnderstood, Retold, Listed
  <2> QED
    BY <1>1, <1>3, <2>2, <2>3 DEF IpcInv, AnswersAreUnderstood, Retold
<1> QED
  BY <1>2, <1>3 DEF Mutation

LEMMA FavoriteSet ==
  ASSUME IpcInv, NEW favorite, SetFavorite(favorite)
  PROVE  IpcInv'
<1> DEFINE changed == {[g EXCEPT !.favorite = {favorite}] : g \in Listed}
<1>1. ASSUME NEW h \in changed PROVE IsGame(h)
  <2>1. PICK g \in Listed : h = [g EXCEPT !.favorite = {favorite}]
    OBVIOUS
  <2>2. IsGame(g)
    BY ListedIsAGame DEF IpcInv
  <2>3. /\ IsEntry(h) /\ h.texts = g.texts /\ h.extension = g.extension
        /\ h.artworkKey = g.artworkKey /\ h.lastPlayedAt = g.lastPlayedAt
        /\ h.playtime = g.playtime /\ h.identifiers = g.identifiers /\ h.autosave = g.autosave
        /\ h.favorite = {favorite}
    BY <2>1, <2>2 DEF IsGame, IsEntry
  <2> QED
    BY <2>2, <2>3 DEF IsGame, Parses
<1>2. Mutation(changed, artworkFile)
  BY DEF SetFavorite
<1> HIDE DEF changed
<1> QED
  BY <1>1, <1>2, GameMutated

LEMMA ArtworkSet ==
  ASSUME IpcInv, SetArtwork
  PROVE  IpcInv'
<1> DEFINE changed == {[g EXCEPT !.artworkKey = {"cover.png"}] : g \in Listed}
<1>1. ASSUME NEW h \in changed PROVE IsGame(h)
  <2>1. PICK g \in Listed : h = [g EXCEPT !.artworkKey = {"cover.png"}]
    OBVIOUS
  <2>2. IsGame(g)
    BY ListedIsAGame DEF IpcInv
  <2>3. /\ IsEntry(h) /\ h.texts = g.texts /\ h.extension = g.extension
        /\ h.artworkKey = {"cover.png"} /\ h.lastPlayedAt = g.lastPlayedAt
        /\ h.playtime = g.playtime /\ h.identifiers = g.identifiers /\ h.autosave = g.autosave
        /\ h.favorite = g.favorite
    BY <2>1, <2>2 DEF IsGame, IsEntry
  <2> QED
    BY <2>2, <2>3 DEF IsGame, Parses, Malformed
<1>2. Mutation(changed, TRUE)
  BY DEF SetArtwork
<1> HIDE DEF changed
<1> QED
  BY <1>1, <1>2, GameMutated

(* autoUpdater reports. *)
LEMMA UpdateIsTaken ==
  ASSUME NEW u \in UpdateStates \union {Downloading(p) : p \in Percents}
  PROVE  IsUpdateState(u)
<1>1. CASE \E s \in {"checking", "not-available", "error"} : u = Status(s)
  BY <1>1 DEF Status, IsUpdateState
<1>2. CASE \E s \in {"available", "downloaded"} : u = [status |-> s, version |-> "2.0"]
  BY <1>2 DEF IsUpdateState, Malformed
<1>3. CASE \E p \in Percents : u = Downloading(p)
  <2>1. PICK p \in Percents : u = Downloading(p)
    BY <1>3
  <2>2. ClampPercent(p) \in 0..100
    BY IpcAssumption DEF ClampPercent
  <2>3. u.status = "downloading" /\ u.version = "2.0" /\ u.percent = ClampPercent(p)
    BY <2>1 DEF Downloading
  <2> QED
    BY <2>2, <2>3 DEF IsUpdateState, Malformed
<1> QED
  BY <1>1, <1>2, <1>3 DEF UpdateStates

LEMMA UpdateIsReported ==
  ASSUME IpcInv, UpdateReported
  PROVE  IpcInv'
<1>1. IsUpdateState(updateState')
  BY UpdateIsTaken DEF UpdateReported
<1>2. UNCHANGED <<saved, artworkFile, locale, selected, told, steady>> /\ ~failed'
  BY <1>1 DEF UpdateReported, IpcInv, AnswersAreUnderstood
<1> QED
  BY <1>1, <1>2 DEF IpcInv, AnswersAreUnderstood, Listed

(* What is changed while the window is elsewhere is still an entry. *)
LEMMA ChangedElsewhere ==
  ASSUME IpcInv, ~steady', ~failed', IsEntry(saved'),
         locale' \subseteq LocaleTags, UNCHANGED <<selected, updateState>>
  PROVE  IpcInv'
  BY DEF IpcInv, AnswersAreUnderstood

LEMMA IpcInductive == IpcInv /\ [IpcNext]_ipcVars => IpcInv'
<1> SUFFICES ASSUME IpcInv, [IpcNext]_ipcVars PROVE IpcInv'
  OBVIOUS
<1>1. ASSUME NEW l \in LocaleTags, SaveLocale(l) PROVE IpcInv'
  BY <1>1, ChangedElsewhere DEF SaveLocale, IpcInv, AnswersAreUnderstood
<1>2. ASSUME CountPlaytime PROVE IpcInv'
  <2>1. IsEntry(saved')
    BY <1>2 DEF CountPlaytime, GameFromJson, IpcInv, IsEntry
  <2> QED
    BY <1>2, <2>1, ChangedElsewhere DEF CountPlaytime, IpcInv, AnswersAreUnderstood
<1>3. ASSUME Slip PROVE IpcInv'
  <2>1. IsEntry(saved')
    BY <1>3 DEF Slip, Edits, IpcInv, IsEntry
  <2> QED
    BY <1>3, <2>1, ChangedElsewhere DEF Slip, IpcInv, AnswersAreUnderstood
<1>4. CASE UNCHANGED ipcVars
  <2>1. UNCHANGED <<heldVars, told, failed, steady>>
    BY <1>4 DEF ipcVars
  <2> QED
    BY <2>1 DEF heldVars, IpcInv, AnswersAreUnderstood, Listed
<1> QED
  BY <1>1, <1>2, <1>3, <1>4, LibraryListed, RomSelected, ChannelAsked, FavoriteSet, ArtworkSet,
     UpdateIsReported DEF IpcNext

(* Whatever library.json, the preferences and autoUpdater come up with,    *)
(* every answer and every event of main passes the check of the window,    *)
(* and the game the window knows is what a listing would tell it while     *)
(* nothing but its own calls has changed it (AnswersAreUnderstood).        *)
THEOREM EveryAnswerIsUnderstood == IpcSpec => []AnswersAreUnderstood
<1>1. IpcInit => IpcInv
  BY IpcInitInductive
<1>2. IpcInv /\ [IpcNext]_ipcVars => IpcInv'
  BY IpcInductive
<1>3. IpcInv => AnswersAreUnderstood
  BY DEF IpcInv
<1> QED
  BY <1>1, <1>2, <1>3, PTL DEF IpcSpec
=============================================================================
