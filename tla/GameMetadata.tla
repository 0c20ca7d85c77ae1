------------------------------ MODULE GameMetadata ------------------------------
(***************************************************************************)
(* Catalogs of games, plugins of the game SDK (game-metadata.ts): what     *)
(* makes a catalog valid, how the metadata of a game are resolved from the *)
(* catalogs by the identifiers of its ROM, and what the window accepts of  *)
(* them; the identifiers that the consoles read from a ROM, and the two    *)
(* catalogs that come with the program.                                    *)
(***************************************************************************)
EXTENDS PluginManifests

CONSTANTS MaxPlayers   \* the most players a game may declare (64)

(* The texts of a catalog are Malformed or not; an asset path is of the    *)
(* package or leads out of it.                                             *)
IsAsset(path) == path \notin {Malformed, "assets/../out"}

IsArtwork(a) ==
  /\ a.kind \in {"cover", "icon", "screenshot"} /\ a.locale \subseteq LocaleTags
  /\ IsAsset(a.path)

IsLocalizedText(t) == t.title # Malformed /\ Malformed \notin t.description

IsPlayerCount(c) == c.minimum > 0 /\ c.maximum \in c.minimum..MaxPlayers

IsTextList(list) == list # <<>> /\ Malformed \notin ToSet(list) /\ IsInjective(list)

(* validateRecord.  `lists` is the developers, publishers and genres.      *)
RecordIsValid(r, defaultLocale) ==
  /\ r.id \in Words /\ r.consoleId \in PluginIds /\ ~r.extra
  /\ r.provenance # Malformed
  /\ \A s \in r.identifiers : s # <<>> /\ \A i \in DOMAIN s : Malformed \notin {s[i][1], s[i][2]}
  /\ \A s \in r.lists : IsTextList(s)
  /\ r.releaseDate \subseteq {"1998-09-28"}
  /\ \A c \in r.playerCount : IsPlayerCount(c)
  /\ DOMAIN r.text # {} /\ DOMAIN r.text \subseteq LocaleTags
  /\ \A l \in DOMAIN r.text : IsLocalizedText(r.text[l])
  /\ defaultLocale \in DOMAIN r.text
  /\ \A s \in r.artwork :
       /\ s # <<>> /\ \A i \in DOMAIN s : IsArtwork(s[i])
       /\ IsInjective([i \in DOMAIN s |-> <<s[i].kind, s[i].locale>>])

(* validateGameMetadataPlugin. *)
CatalogIsValid(m, c) ==
  /\ ManifestIsValid(m) /\ m.type = "game-metadata"
  /\ c.defaultLocale \in LocaleTags /\ c.id = m.id /\ c.records # <<>>
  /\ \A i \in DOMAIN c.records : RecordIsValid(c.records[i], c.defaultLocale)
  /\ IsInjective([i \in DOMAIN c.records |-> c.records[i].id])

Matches(r, identifiers) ==
  \E s \in r.identifiers : ToSet(s) \intersect ToSet(identifiers) # {}

(* The text of the locale, or else of the default one; the artwork of the  *)
(* locale, or else of no locale, or else of the default one.               *)
TextIn(c, r, locale) == r.text[IF locale \in DOMAIN r.text THEN locale ELSE c.defaultLocale]

ArtworkIn(c, r, locale) ==
  LET within(l) == UNION {{s[i] : i \in Earliest({i \in DOMAIN s : s[i].locale = l})} : s \in r.artwork}
  IN IF within({locale}) # {} THEN within({locale})
     ELSE IF within({}) # {} THEN within({}) ELSE within({c.defaultLocale})

Resolved(c, r, locale) ==
  [pluginId |-> c.id, title |-> TextIn(c, r, locale).title,
   description |-> TextIn(c, r, locale).description, artwork |-> ArtworkIn(c, r, locale),
   provenance |-> r.provenance, lists |-> r.lists, releaseDate |-> r.releaseDate,
   playerCount |-> r.playerCount]

(* resolveGameMetadata: the first record, in the order of the plugins that *)
(* are valid, that has an identifier of the game.                          *)
RecordsFor(plugin, identifiers) ==
  {i \in DOMAIN plugin.catalog.records : /\ Matches(plugin.catalog.records[i], identifiers)
                                         /\ CatalogIsValid(plugin.manifest, plugin.catalog)}

ResolveGameMetadata(plugins, identifiers, locale) ==
  UNION {{Resolved(plugins[p].catalog, plugins[p].catalog.records[i], locale) :
            i \in Earliest(RecordsFor(plugins[p], identifiers))} :
         p \in Earliest({p \in DOMAIN plugins : RecordsFor(plugins[p], identifiers) # {}})}

(* isResolvedGameMetadata: what the window asks of an answer of main.      *)
IsResolvedGameMetadata(g) ==
  /\ g.pluginId \in PluginIds /\ g.title # Malformed /\ g.provenance # Malformed
  /\ Malformed \notin g.description /\ \A a \in g.artwork : IsArtwork(a)
  /\ \A s \in g.lists : IsTextList(s)
  /\ \A c \in g.playerCount : IsPlayerCount(c)
  /\ g.releaseDate \subseteq {"1998-09-28"}
-----------------------------------------------------------------------------
(* The identifiers of a ROM, as the consoles read them from its header: a  *)
(* header that is short, or has no title in printable characters, or no    *)
(* game code on the Game Boy Advance, has none.                            *)
FamilyIdentifiers(header) ==
  IF header.whole /\ header.title # Malformed THEN <<<<"game-boy-header-title", header.title>>>> ELSE <<>>

AdvanceIdentifiers(header) ==
  IF header.whole /\ header.title # Malformed /\ header.code # Malformed
  THEN <<<<"gba-header-title", header.title>>, <<"gba-game-code", header.code>>>> ELSE <<>>

(* A record of the two catalogs, and the catalogs.                         *)
OrbitRecord(id, console, identifiers, locales) ==
  [id |-> id, consoleId |-> console, identifiers |-> {identifiers}, provenance |-> "CC0-1.0",
   lists |-> {}, releaseDate |-> {}, playerCount |-> {}, extra |-> FALSE,
   artwork |-> {<<[kind |-> "cover", locale |-> {}, path |-> "assets/cover"]>>},
   text |-> [l \in locales |-> [title |-> l, description |-> {l}]]]

ReferenceGameCatalog ==
  [manifest |-> ManifestOf("org.reference-catalog", "game-metadata", "localized-game-metadata"),
   catalog |-> [id |-> "org.reference-catalog", defaultLocale |-> "en-US", records |->
     <<OrbitRecord("orbit", "org.family", <<<<"game-boy-header-title", "DEMO">>>>,
                   {"en-US", "pt-BR", "zh-CN"})>>]]

GameBoyAdvanceExampleCatalog ==
  [manifest |-> ManifestOf("org.advance-catalog", "game-metadata", "localized-game-metadata"),
   catalog |-> [id |-> "org.advance-catalog", defaultLocale |-> "en-US", records |->
     <<[OrbitRecord("orbit-advance", "org.advance",
                    <<<<"gba-game-code", "PCGB">>, <<"gba-header-title", "LONG">>>>,
                    {"en-US", "pt-BR"})
        EXCEPT !.lists = {<<"PixelCore Community">>},
               !.playerCount = {[minimum |-> 1, maximum |-> 1]}]>>]]
=============================================================================
