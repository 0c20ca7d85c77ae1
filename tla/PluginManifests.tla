---------------------------- MODULE PluginManifests ----------------------------
(***************************************************************************)
(* What every plugin declares: its manifest, as manifest.ts of the plugin  *)
(* SDK parses it, the revisions of the API a host supports                 *)
(* (api-version.ts), the registry of manifests (plugin-registry.ts over    *)
(* registry.ts of the core) and the judgement of a permission request      *)
(* (permissions.ts).  A pattern of the code is the set of the words in use *)
(* here that it matches, and an optional value a set of at most one.       *)
(***************************************************************************)
EXTENDS Integers, Sequences, FiniteSets, SequencesExt

CONSTANTS PluginIds,   \* identifiers that match PLUGIN_ID_PATTERN
          Words,       \* words in lowercase kebab-case: IDENTIFIER_PATTERN
          LocaleTags,  \* tags that match LOCALE_PATTERN
          Resources,   \* the actions that each permission resource supports
          SupportedApi \* revisions of the plugin API that the host supports

VARIABLES registry,    \* what is registered under each id
          assessment   \* the last judgement of a request, and what it was of

registryVars == <<registry, assessment>>

Malformed == "?"       \* matches no pattern
Opt(S)    == {{}} \union {{x} : x \in S}
PluginTypes == {"console", "emulator-core", "controller", "game-metadata", "theme",
                "integration"}
PermissionActions == {"execute", "list", "read", "write"}

(* A list that a schema refines by hasUniqueValues. *)
IsListOf(list, S) == ToSet(list) \subseteq S /\ IsInjective(list)

(* Of the places of a list that a find tries, the one it stops at. *)
Earliest(places) == {i \in places : \A j \in places : i <= j}

LocalizationIsValid(l) ==
  /\ l.locales # <<>> /\ IsListOf(l.locales, LocaleTags)
  /\ l.default \in ToSet(l.locales)

PermissionIsValid(p) ==
  p.actions # <<>> /\ IsListOf(p.actions, PermissionActions) /\ p.resource # Malformed

(* PluginManifestSchema.  Its lengths are bounds of the patterns.          *)
ManifestIsValid(m) ==
  /\ m.apiVersion > 0
  /\ m.capabilities # <<>> /\ IsListOf(m.capabilities, Words)
  /\ m.id \in PluginIds /\ m.named
  /\ \A l \in m.localization : LocalizationIsValid(l)
  /\ \A i \in DOMAIN m.permissions : PermissionIsValid(m.permissions[i])
  /\ IsInjective([i \in DOMAIN m.permissions |-> m.permissions[i].resource])
  /\ m.type \in PluginTypes /\ ~m.extra

(* A manifest as the official plugins and the scaffold write it.           *)
ManifestOf(id, type, capability) ==
  [apiVersion |-> 1, capabilities |-> <<capability>>, id |-> id, localization |-> {},
   named |-> TRUE, permissions |-> <<>>, type |-> type, extra |-> FALSE]

(* assessPluginApiCompatibility: the host supports a range of revisions.   *)
ApiIsSupported(version) == version \in Min(SupportedApi)..Max(SupportedApi)

(* validatePluginManifest: a revision the host does not know makes a plugin*)
(* inactive, and an inactive plugin keeps its manifest.                    *)
ManifestVerdict(m) ==
  IF ~ManifestIsValid(m) THEN "invalid"
  ELSE IF ApiIsSupported(m.apiVersion) THEN "valid" ELSE "inactive"

(* assessPermissionRequest.  The grants of a resource add up.              *)
Assess(request, grants) ==
  LET wanted == ToSet(request.actions)
      given == UNION {ToSet(g.actions) : g \in {h \in grants : h.resource = request.resource}}
  IN IF request.resource \notin DOMAIN Resources THEN "unknown-resource"
     ELSE IF ~(wanted \subseteq Resources[request.resource]) THEN "unsupported-action"
     ELSE IF ~(wanted \subseteq given) THEN "missing-grant" ELSE "granted"
-----------------------------------------------------------------------------
RegisteredPlugin(m) == [manifest |-> m, status |-> IF ManifestVerdict(m) = "inactive"
                                                   THEN "inactive" ELSE "eligible"]
NotAssessed == [id |-> Malformed, request |-> {}, grants |-> {}, verdict |-> "none"]

RegistryInit ==
  /\ registry = [id \in PluginIds |-> {}] /\ assessment = NotAssessed

(* PluginRegistry.register: the type of its argument admits the manifests  *)
(* that were parsed; an id that is taken is a conflict.                    *)
RegisterPlugin(m) ==
  /\ ManifestVerdict(m) # "invalid" /\ registry[m.id] = {}
  /\ registry' = [registry EXCEPT ![m.id] = {RegisteredPlugin(m)}]
  /\ UNCHANGED assessment

RemovePlugin(id) ==
  /\ registry[id] # {}
  /\ registry' = [registry EXCEPT ![id] = {}]
  /\ UNCHANGED assessment

(* The host resolves a plugin, and judges what its manifest asks for by    *)
(* what the user has granted.                                              *)
Judge(id, grants) ==
  /\ \E p \in registry[id] : \E i \in DOMAIN p.manifest.permissions :
       LET request == p.manifest.permissions[i]
       IN assessment' = [id |-> id, request |-> {request}, grants |-> grants,
                         verdict |-> Assess(request, grants)]
  /\ UNCHANGED registry
=============================================================================
