-------------------------------- MODULE MCPlugins --------------------------------
(***************************************************************************)
(* The values with which the contracts are checked: what the               *)
(* author of a draft writes in one field of it, well formed or not; and    *)
(* what main finds in library.json.                                        *)
(***************************************************************************)
EXTENDS IpcContract

ResourcesOf == [r \in {"network:outbound", "storage:game-saves"} |->
                  IF r = "network:outbound" THEN {"execute"} ELSE {"read", "write"}]
Asking(r, actions) == [resource |-> r, actions |-> actions]
SomeGrants == {Asking("network:outbound", <<"execute">>), Asking("storage:game-saves", <<"read">>),
               Asking("storage:game-saves", <<"write">>)}
ManifestFields ==
  [apiVersion |-> 0..2, id |-> {"org.family", "org.8pad", Malformed}, type |-> {"console", "theme"},
   capabilities |-> {<<>>, <<"playback", "playback">>, <<Malformed>>},
   localization |-> {{[default |-> l, locales |-> <<"en-US">>]} : l \in {"en-US", "pt-BR"}},
   named |-> {FALSE}, extra |-> {TRUE},
   permissions |-> {<<Asking("storage:game-saves", <<"read", "write">>)>>,
                    <<Asking("network:outbound", <<"execute">>)>>,
                    <<Asking("network:outbound", <<"read">>)>>,
                    <<Asking("device:unknown", <<"read">>)>>,
                    <<Asking("network:outbound", <<>>)>>,
                    <<Asking("network:outbound", <<"execute">>), Asking("network:outbound", <<"execute">>)>>}]

EntryList(pairs) == [i \in DOMAIN pairs |-> Maps(pairs[i][1], pairs[i][2])]
Port(id, actions) == [id |-> id, inputActions |-> actions]
ConsoleFields ==
  LET assets == CHOOSE a \in GameBoyAdvanceConsole.console.assets : TRUE
      label  == CHOOSE l \in assets.cartridgeLabelMap : TRUE
      diagram == CHOOSE d \in assets.controlDiagram : TRUE
  IN [id |-> {"org.advance"}, maxRomBytes |-> {{}, {0}, {65}}, generationKey |-> {{}, {Malformed}},
      identifyRom |-> {"none", "other"}, capabilities |-> {<<>>, <<Malformed>>},
      supportedRomExtensions |-> {<<>>, <<".gb", ".gb">>, <<"gb">>},
      inputActions |-> {<<>>, <<"a">>, <<"a", "a">>, <<"a", "b", "l">>},
      playerPorts |-> {<<>>, <<Port("player-two", <<"a">>)>>, <<Port("player-one", <<"a", "b">>)>>,
                       <<Port("player-one", <<"a">>), Port("player-one", <<"b">>)>>,
                       <<Port("player-two", <<"a">>), Port("player-one", <<"a", "b">>)>>,
                       <<Port("player-one", <<"select">>)>>},
      inputMapping |->
        {[entries |-> EntryList(e), playerPortId |-> p, version |-> 1] :
           e \in {<<>>, <<<<"primary", "a">>>>, <<<<"primary", "a">>, <<"primary", "b">>>>,
                  <<<<"primary", "a">>, <<"secondary", "a">>>>, <<<<"secondary", "a">>, <<"primary", "b">>>>,
                  <<<<"primary", "a">>, <<"playback", "b">>>>},
           p \in {"player-one", "player-two"}}
        \union {[entries |-> EntryList(<<<<"primary", "a">>>>), playerPortId |-> "player-one", version |-> 2]},
      assets |-> {{}, {[assets EXCEPT !.cartridgeLabelMap = {}]}, {[assets EXCEPT !.consoleHero = Malformed]},
                  {[assets EXCEPT !.cartridgeLabelMap =
                      {[label EXCEPT !.corners = <<Corner(1, 1), Corner(2, 2), Corner(3, 3), Corner(4, 4)>>]}]},
                  {[assets EXCEPT !.controlDiagram =
                      {[diagram EXCEPT !.controlPoints = <<ControlPoint("a", "left-01"), ControlPoint("b", "left-01")>>]}]},
                  {[assets EXCEPT !.controlDiagram = {[diagram EXCEPT !.scale = {201}]}]}}]

Input(kind, index, direction, threshold) ==
  [kind |-> kind, index |-> index, direction |-> direction, threshold |-> threshold]
ControllerFields ==
  [id |-> {"org.advance"},
   match |-> {<<>>} \union
     {<<[nameIncludes |-> n, hexIds |-> h, standardMapping |-> {}, extra |-> FALSE]>> :
        n \in {{}, {<<>>}, {<<"Pad">>}}, h \in {{}, {"054c"}, {Malformed}}},
   mappings |-> {<<>>} \union
     {<<[normalizedAction |-> "primary", input |-> i], [normalizedAction |-> n, input |-> j]>> :
        n \in {"primary", "secondary"},
        i \in {Input("button", 0, {}, {}), Input("axis", 1, {"negative"}, {})},
        j \in {Input("button", 0, {}, {}), Input("axis", 1, {"negative"}, {50}),
               Input("axis", 1, {"positive"}, {}), Input("axis", 1, {"positive"}, {101}),
               Input("button", 64, {}, {}), Input("axis", 16, {"negative"}, {})}}]

CatalogFields ==
  LET r == OrbitRecord("orbit", "org.family", <<<<"game-boy-header-title", "DEMO">>>>, {"en-US", "pt-BR"})
      text(l) == [title |-> l, description |-> {}]
  IN [id |-> {"org.advance"}, defaultLocale |-> {"pt-BR", "zh-CN", Malformed},
      records |-> {<<>>, <<r, r>>,
                   <<[r EXCEPT !.id = "select"], [r EXCEPT !.text = [l \in {"en-US"} |-> text("other")]]>>}
        \union {<<s>> : s \in
          {[r EXCEPT !.id = Malformed], [r EXCEPT !.consoleId = Malformed], [r EXCEPT !.extra = TRUE],
           [r EXCEPT !.provenance = Malformed], [r EXCEPT !.lists = {<<"one", "one">>}],
           [r EXCEPT !.lists = {<<"one">>}], [r EXCEPT !.releaseDate = {"28/09"}],
           [r EXCEPT !.releaseDate = {"1998-09-28"}],
           [r EXCEPT !.playerCount = {[minimum |-> 2, maximum |-> 1]}],
           [r EXCEPT !.playerCount = {[minimum |-> 1, maximum |-> 3]}],
           [r EXCEPT !.text = [l \in {"pt-BR"} |-> text("pt-BR")]],
           [r EXCEPT !.text = [l \in {"en-US", Malformed} |-> text("en-US")]],
           [r EXCEPT !.text = [l \in {"en-US", "pt-BR"} |-> text(IF l = "pt-BR" THEN Malformed ELSE l)]],
           [r EXCEPT !.artwork = {<<[kind |-> "cover", locale |-> {"pt-BR"}, path |-> "assets/pt"],
                                    [kind |-> "cover", locale |-> {}, path |-> "assets/any"]>>}],
           [r EXCEPT !.artwork = {<<[kind |-> "cover", locale |-> {}, path |-> "assets/../out"]>>}],
           [r EXCEPT !.artwork = {<<[kind |-> "icon", locale |-> {"en-US"}, path |-> "assets/en"],
                                    [kind |-> "icon", locale |-> {"en-US"}, path |-> "assets/en2"]>>}],
           [r EXCEPT !.identifiers = {<<>>}],
           [r EXCEPT !.identifiers = {<<<<"gba-game-code", "PCGB">>>>}]}}]

EmulatorFields ==
  [id |-> {"org.advance"}, supportedRomExtensions |-> {<<>>, <<"gb">>, <<".gb", ".gb">>},
   compatibleConsoleIds |-> {<<>>, <<"org.advance">>}, typedCapabilities |-> {FALSE},
   createSession |-> {FALSE}]

DefinitionFields ==
  "console" :> ConsoleFields @@ "controller" :> ControllerFields
  @@ "game-metadata" :> CatalogFields @@ "emulator-core" :> EmulatorFields

RomHeaders ==
  {[whole |-> TRUE, title |-> "DEMO", code |-> "PCGB"], [whole |-> TRUE, title |-> "DEMO", code |-> Malformed],
   [whole |-> TRUE, title |-> Malformed, code |-> "PCGB"], [whole |-> FALSE, title |-> "DEMO", code |-> "PCGB"]}

(* What an older version or another program may have left in library.json. *)
SavedFields ==
  [texts |-> {{Malformed}}, extension |-> {".gba", ".exe"}, favorite |-> {{}, {TRUE}}, autosave |-> {{}},
   playtime |-> {{}, {0 - 1}}, lastPlayedAt |-> {{"time"}, {Malformed}},
   artworkKey |-> {{"cover.png"}, {"out/cover.png"}, {Malformed}},
   identifiers |-> {{}} \union {{<<i>>} : i \in {<<"game-boy-header-title", "DEMO">>, <<"gba-game-code", "PCGB">>}}]
=============================================================================
