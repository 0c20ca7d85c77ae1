----------------------------- MODULE ConsolePlugins -----------------------------
(***************************************************************************)
(* Consoles, plugins of the console SDK (console.ts): what makes the       *)
(* definition of a console valid, the two consoles that come with the      *)
(* program, and what a session makes of a definition: the mapping the      *)
(* window is given (console-mapping.ts) and the snapshots of the input     *)
(* that main lets through (setSessionInput).                               *)
(***************************************************************************)
EXTENDS PluginManifests

CONSTANTS NormalizedActions, \* NORMALIZED_INPUT_ACTIONS: ten
          ShortMapping,      \* the other length a mapping may have: eight
          Slots              \* the callouts of a control diagram

MiB == 1..64
RomExtensions == {".gb", ".gbc", ".gba", ".demo"}
GenerationKeys == {"generationHandheld"}

(* A coordinate or a scale, in hundredths.                                 *)
InCanvas(point) == point.x \in 0..100 /\ point.y \in 0..100

(* The corners of the label on the cartridge, in their order, and twice    *)
(* the area within them.                                                   *)
TwiceArea(p) ==
  LET cross(i, j) == p[i].x * p[j].y - p[j].x * p[i].y
  IN cross(1, 2) + cross(2, 3) + cross(3, 4) + cross(4, 1)

LabelMapIsValid(l) ==
  /\ l.typed /\ l.aspectRatio > 0
  /\ \A i \in 1..4 : InCanvas(l.corners[i]) /\ l.corners[i].radius >= 0
  /\ TwiceArea(l.corners) # 0

DiagramIsValid(d) ==
  /\ d.alt # Malformed /\ d.scale \subseteq 25..200
  /\ \A r \in d.aspectRatio : r > 0
  /\ \A i \in DOMAIN d.controlPoints :
       d.controlPoints[i].action \in Words /\ InCanvas(d.controlPoints[i])
  /\ IsListOf([i \in DOMAIN d.controlPoints |-> d.controlPoints[i].slot], Slots)

(* The label is asked for beside a cartridge; the loop over the player     *)
(* ports looks at it, and there is a port in what is valid.                *)
AssetsAreValid(a) ==
  /\ a.consoleHero # Malformed /\ Malformed \notin a.pictures
  /\ a.cartridge # {} => a.cartridgeLabelMap # {}
  /\ \A l \in a.cartridgeLabelMap : LabelMapIsValid(l)
  /\ \A d \in a.controlDiagram : DiagramIsValid(d)

PortsAreValid(c) ==
  /\ c.playerPorts # <<>>
  /\ \A i \in DOMAIN c.playerPorts :
       /\ c.playerPorts[i].inputActions # <<>>
       /\ IsListOf(c.playerPorts[i].inputActions, ToSet(c.inputActions))
  /\ IsListOf([i \in DOMAIN c.playerPorts |-> c.playerPorts[i].id], Words)

(* Mutant: two entries of a mapping may be of one action of the player. *)
MappingIsLoose(c) ==
  LET m == c.inputMapping
  IN /\ m.version = 1 /\ m.playerPortId \in Words /\ m.entries # <<>>
     /\ \A i \in DOMAIN m.entries : m.entries[i].normalizedAction \in Words
     /\ IsListOf([i \in DOMAIN m.entries |-> m.entries[i].consoleAction], ToSet(c.inputActions))

(* The actions that are mapped to are declared; the port is not looked up. *)
MappingIsValid(c) ==
  LET m == c.inputMapping
  IN /\ m.version = 1 /\ m.playerPortId \in Words /\ m.entries # <<>>
     /\ IsListOf([i \in DOMAIN m.entries |-> m.entries[i].normalizedAction], Words)
     /\ IsListOf([i \in DOMAIN m.entries |-> m.entries[i].consoleAction], ToSet(c.inputActions))

(* validateConsolePlugin. *)
ConsoleIsValid(m, c) ==
  /\ ManifestIsValid(m) /\ m.type = "console" /\ c.id = m.id
  /\ c.maxRomBytes \subseteq MiB /\ c.generationKey \subseteq GenerationKeys
  /\ \A a \in c.assets : AssetsAreValid(a)
  /\ c.identifyRom \in {"none", "function"}
  /\ c.capabilities # <<>> /\ IsListOf(c.capabilities, Words)
  /\ c.supportedRomExtensions # <<>> /\ IsListOf(c.supportedRomExtensions, RomExtensions)
  /\ c.inputActions # <<>> /\ IsListOf(c.inputActions, Words)
  /\ PortsAreValid(c) /\ MappingIsValid(c)
-----------------------------------------------------------------------------
(* validateConsoleInputMapping, which the window asks of the answer of     *)
(* getInputConfiguration: a mapping of eight actions or of all of them.    *)
WindowAcceptsMapping(m) ==
  /\ m.version = 1 /\ m.playerPortId \in Words
  /\ Len(m.entries) \in {ShortMapping, Cardinality(NormalizedActions)}
  /\ IsListOf([i \in DOMAIN m.entries |-> m.entries[i].normalizedAction], NormalizedActions)
  /\ IsListOf([i \in DOMAIN m.entries |-> m.entries[i].consoleAction], Words)

(* mapNormalizedActions: the actions of the entries that it keeps, by the  *)
(* place of the entry; the sort is of the snapshot's wording.              *)
MapNormalizedActions(active, m) ==
  [i \in {i \in DOMAIN m.entries : m.entries[i].normalizedAction \in active} |->
     m.entries[i].consoleAction]

(* isSessionInputPayload, and the port that setSessionInput looks up: the  *)
(* first of the id.                                                        *)
SnapshotIsAccepted(c, port, actions) ==
  /\ IsListOf(actions, Words) /\ port \in Words
  /\ \E i \in Earliest({i \in DOMAIN c.playerPorts : c.playerPorts[i].id = port}) :
       ToSet(actions) \subseteq ToSet(c.playerPorts[i].inputActions)

(* What validateConsolePlugin does not ask of a mapping: that it is of as  *)
(* many actions as the window wants, all of them the player's, and that it *)
(* goes to a port that has them.                                           *)
MappingIsComplete(c) ==
  LET m == c.inputMapping
      mapped == {m.entries[i].consoleAction : i \in DOMAIN m.entries}
  IN /\ Len(m.entries) \in {ShortMapping, Cardinality(NormalizedActions)}
     /\ \A i \in DOMAIN m.entries : m.entries[i].normalizedAction \in NormalizedActions
     /\ \E i \in DOMAIN c.playerPorts :
          c.playerPorts[i].id = m.playerPortId /\ mapped \subseteq ToSet(c.playerPorts[i].inputActions)
-----------------------------------------------------------------------------
(* The consoles that come with the program, with a mapping of two actions  *)
(* for the eight and one of three for the ten of the Game Boy Advance.     *)
Corner(cx, cy) == [x |-> cx, y |-> cy, radius |-> 5]
ControlPoint(a, slot) == [action |-> a, slot |-> slot, x |-> 32, y |-> 53]
Maps(n, a) == [normalizedAction |-> n, consoleAction |-> a]

OfficialConsole(id, actions, entries, points, scale, extensions, limit) ==
  [manifest |-> ManifestOf(id, "console", "playback"),
   console |-> [id |-> id, capabilities |-> <<"playback">>, identifyRom |-> "function",
     maxRomBytes |-> {limit}, generationKey |-> {"generationHandheld"},
     supportedRomExtensions |-> extensions, inputActions |-> actions,
     inputMapping |-> [entries |-> entries, playerPortId |-> "player-one", version |-> 1],
     playerPorts |-> <<[id |-> "player-one", inputActions |-> actions]>>,
     assets |-> {[consoleHero |-> "assets/hero", pictures |-> {"assets/blueprint"},
       cartridge |-> {"assets/cartridge"},
       cartridgeLabelMap |-> {[typed |-> TRUE, aspectRatio |-> 1, corners |->
         <<Corner(27, 14), Corner(79, 19), Corner(79, 73), Corner(27, 73)>>]},
       controlDiagram |-> {[alt |-> "blueprint", aspectRatio |-> {1}, scale |-> scale,
                            controlPoints |-> points]}]}]]

GameBoyFamilyConsole ==
  OfficialConsole("org.family", <<"a", "b">>, <<Maps("primary", "a"), Maps("secondary", "b")>>,
                  <<ControlPoint("b", "right-07"), ControlPoint("a", "right-05")>>, {},
                  <<".gb", ".gbc">>, 8)

GameBoyAdvanceConsole ==
  OfficialConsole("org.advance", <<"l", "a", "b">>,
                  <<Maps("left-shoulder", "l"), Maps("primary", "a"), Maps("secondary", "b")>>,
                  <<ControlPoint("l", "left-01"), ControlPoint("a", "right-05")>>, {55},
                  <<".gba">>, 32)
=============================================================================
