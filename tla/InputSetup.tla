------------------------------- MODULE InputSetup -------------------------------
(***************************************************************************)
(* The settings of the input: the screen that rebinds keys and buttons     *)
(* (input-mapping-settings.tsx), the profile the renderer keeps of them    *)
(* (persistProfile and the change handlers), and the repository main saves *)
(* it in and loads it from (input-profiles.ts).  A key and a button are an *)
(* input; a profile binds, for each device, the actions of the game and    *)
(* the advanced commands to inputs.                                        *)
(***************************************************************************)
EXTENDS Naturals, Sequences, FiniteSets, SequencesExt

CONSTANTS Pads,        \* gamepads that may be connected
          Inputs,      \* keys and buttons
          Reserved,    \* the button of the platform's menu (9)
          Accept, Cancel, \* the inputs that confirm or cancel a capture
          Systems,     \* consoles whose library may be opened
          EntriesOf,   \* the actions each system maps, in their order
          CommandsOf,  \* the advanced commands its core is capable of
          DefaultOf,   \* the default binding of an action or command
          MaxChanges,  \* bound: changes of the profile
          MaxLoads     \* bound: libraries opened

VARIABLES profile,     \* the profile the renderer shows and plays by
          stored,      \* the one on disk
          saving,      \* the saves under way, oldest first
          loading,     \* the last getInputConfiguration, what it has read
          system, commands, \* the mapping and the capabilities shown
          asked,       \* the last getEmulatorCapabilities, or "none"
          pads,        \* the gamepads that are connected
          setup,       \* the stage and the cursor of its rows
          captured,    \* the input captured, and of what kind of device
          changes, loads,
          crossed      \* history: a load met a save, or a save failed

profileVars == <<profile, stored, saving, changes>>
loadVars    == <<loading, system, commands, asked, loads>>
setupVars   == <<profileVars, loadVars, pads, setup, captured, crossed>>

Keyboard == "keyboard"
Devices  == Pads \union {Keyboard}
Actions  == UNION {ToSet(EntriesOf[s]) : s \in Systems}
Commands == UNION {ToSet(CommandsOf[s]) : s \in Systems}
NotCaptured == [kind |-> "none", input |-> Reserved]
NotLoading  == [at |-> "none", system |-> "none", found |-> <<>>]
KindOf(d) == IF d = Keyboard THEN "keyboard" ELSE "gamepad"
Defaults(targets) == [t \in targets |-> DefaultOf[t]]

(* DEFAULT_KEYBOARD_BINDINGS and its like bind no input twice, and the     *)
(* reserved button not at all; the older version is of one of the systems. *)
ASSUME SetupAssumption ==
  /\ {Reserved, Accept, Cancel} \subseteq Inputs /\ "family" \in Systems
  /\ \A t \in Actions \union Commands : DefaultOf[t] \in Inputs \ {Reserved}
  /\ \A s, t \in Actions : DefaultOf[s] = DefaultOf[t] => s = t
  /\ \A s, t \in Commands : DefaultOf[s] = DefaultOf[t] => s = t

(* validateInputProfile: each device binds the actions to inputs of their  *)
(* own, all of them or the ones of an older version, and so the commands;  *)
(* the reserved button is bound to nothing.                                *)
Unique(bound, d) ==
  /\ \A s, t \in DOMAIN bound : bound[s] = bound[t] => s = t
  /\ d # Keyboard => \A t \in DOMAIN bound : bound[t] # Reserved

IsValid(p) ==
  \A d \in Devices :
    /\ Unique(p.bound[d], d) /\ DOMAIN p.bound[d] \in {Actions, ToSet(EntriesOf["family"])}
    /\ Unique(p.advanced[d], d) /\ DOMAIN p.advanced[d] = Commands

SetupTypeOK ==
  /\ profile.device \in Devices /\ stored.device \in Devices
  /\ loading.at \in {"none", "asked", "read"}
  /\ system \in Systems /\ asked \in Systems \union {"none"}
  /\ pads \subseteq Pads
  /\ setup.stage \in {"device-selection", "button-navigation", "mapping-capture",
                      "mapping-confirmation"}
  /\ setup.action \in 1..Cardinality(Actions \union Commands)
  /\ captured \in [kind : {"none", "keyboard", "gamepad"}, input : Inputs]

(* The profile on disk may be of a version that bound fewer actions.       *)
SetupInit ==
  /\ \E actions \in {Actions, ToSet(EntriesOf["family"])} :
       profile = [device |-> Keyboard,
                  bound |-> [d \in Devices |-> IF d = Keyboard THEN Defaults(actions)
                                                               ELSE Defaults(Actions)],
                  advanced |-> [d \in Devices |-> Defaults(Commands)]]
  /\ stored = profile /\ saving = <<>>
  /\ loading = NotLoading /\ asked = "none"
  /\ system \in Systems /\ commands = CommandsOf[system]
  /\ pads = {} /\ captured = NotCaptured
  /\ setup = [stage |-> "device-selection", action |-> 1]
  /\ changes = 0 /\ loads = 0 /\ crossed = FALSE

Rows     == EntriesOf[system] \o commands
Row      == Rows[setup.action]
OnARow   == setup.action \in DOMAIN Rows
Stage(s) == setup.stage = s

(* Mutant: what was bound to the input stays bound to it. *)
RebindOnly(bound, t, input) ==
  IF t \notin DOMAIN bound THEN bound ELSE [bound EXCEPT ![t] = input]

(* A conflict swaps the two inputs (changeKeyboardBinding and the other    *)
(* three); what an older profile does not bind stays unbound.              *)
Rebind(bound, t, input) ==
  IF t \notin DOMAIN bound \/ bound[t] = input THEN bound
  ELSE [s \in DOMAIN bound |-> IF s = t THEN input
                               ELSE IF bound[s] = input THEN bound[t] ELSE bound[s]]

(* persistProfile shows the profile at once, and asks main to save it.     *)
Persist(p) ==
  IF p = profile THEN UNCHANGED profileVars
  ELSE /\ changes < MaxChanges /\ changes' = changes + 1
       /\ profile' = p /\ saving' = Append(saving, p)
       /\ UNCHANGED stored

(* An input captured as a key is one of the keyboard, another one of the   *)
(* gamepad that is assigned, if it is one.                                 *)
Bound(p, t, c) ==
  LET d == IF c.kind = "keyboard" THEN Keyboard ELSE p.device IN
    IF c.kind = "gamepad" /\ p.device = Keyboard THEN p
    ELSE IF t \in Commands
         THEN IF d # Keyboard /\ c.input = Reserved THEN p
              ELSE [p EXCEPT !.advanced[d] = Rebind(p.advanced[d], t, c.input)]
         ELSE [p EXCEPT !.bound[d] = Rebind(p.bound[d], t, c.input)]
-----------------------------------------------------------------------------
Clamp(i, n) == IF i < 1 THEN 1 ELSE IF i > n THEN n ELSE i

(* The screen: by the pad, the keys or the mouse, which chooses any row.   *)
Move ==
  /\ Stage("button-navigation")
  /\ \E i \in {setup.action - 1, setup.action + 1} \union DOMAIN Rows :
       setup' = [setup EXCEPT !.action = Clamp(i, Len(Rows))]
  /\ UNCHANGED <<profileVars, loadVars, pads, captured, crossed>>

(* A device that is connected is chosen: by a confirmation of the cursor,  *)
(* which walks over all of them, or by a click, from any stage.            *)
ChooseDevice ==
  /\ \E d \in pads \union {Keyboard} : Persist([profile EXCEPT !.device = d])
  /\ \/ Stage("device-selection") /\ setup' = [stage |-> "button-navigation", action |-> 1]
     \/ setup' = [setup EXCEPT !.stage = "button-navigation"]
  /\ UNCHANGED <<loadVars, pads, captured, crossed>>

Edit ==
  /\ Stage("button-navigation") /\ OnARow
  /\ captured' = NotCaptured
  /\ setup' = [setup EXCEPT !.stage = "mapping-capture"]
  /\ UNCHANGED <<profileVars, loadVars, pads, crossed>>

Confirm ==
  /\ Stage("mapping-confirmation") /\ OnARow /\ captured # NotCaptured
  /\ Persist(Bound(profile, Row, captured))
  /\ captured' = NotCaptured
  /\ setup' = [setup EXCEPT !.stage = "button-navigation"]
  /\ UNCHANGED <<loadVars, pads, crossed>>

Back ==
  /\ UNCHANGED <<profileVars, loadVars, pads, crossed>>
  /\ \/ /\ setup.stage \in {"mapping-capture", "mapping-confirmation"}
        /\ captured' = NotCaptured /\ setup' = [setup EXCEPT !.stage = "button-navigation"]
     \/ /\ Stage("button-navigation")
        /\ setup' = [setup EXCEPT !.stage = "device-selection"] /\ UNCHANGED captured

(* captureKeyboard and captureGamepadInput: an input of the device that is *)
(* assigned; the next one confirms or cancels, and the reserved button     *)
(* always cancels.                                                         *)
Capture ==
  /\ profile.device \in pads \union {Keyboard}
  /\ \E i \in Inputs :
       \/ /\ Stage("mapping-capture") /\ ~(i = Reserved /\ profile.device # Keyboard)
          /\ captured' = [kind |-> KindOf(profile.device), input |-> i]
          /\ setup' = [setup EXCEPT !.stage = "mapping-confirmation"]
          /\ UNCHANGED <<profileVars, loadVars, pads, crossed>>
       \/ profile.device # Keyboard /\ i = Reserved /\ ~Stage("button-navigation") /\ Back
       \/ profile.device # Keyboard /\ i = Cancel /\ Stage("mapping-confirmation") /\ Back
       \/ i = Accept /\ Confirm

(* A gamepad is connected or disconnected. *)
Plug ==
  /\ \E p \in Pads : pads' = IF p \in pads THEN pads \ {p} ELSE pads \union {p}
  /\ UNCHANGED <<profileVars, loadVars, setup, captured, crossed>>
-----------------------------------------------------------------------------
(* Another library asks for its mapping and its capabilities; an answer to *)
(* an older request is dropped (inputConfigurationRequest and its like).   *)
OpenLibrary(s) ==
  /\ loads < MaxLoads /\ loads' = loads + 1
  /\ loading' = [at |-> "asked", system |-> s, found |-> <<>>]
  /\ asked' = s
  /\ crossed' = (crossed \/ saving # <<>>)
  /\ UNCHANGED <<profileVars, system, commands, pads, setup, captured>>

(* Main reads the profile as it is on disk, whatever saves are under way.  *)
ProfileRead ==
  /\ loading.at = "asked"
  /\ loading' = [loading EXCEPT !.at = "read", !.found = stored]
  /\ UNCHANGED <<profileVars, system, commands, asked, loads, pads, setup, captured, crossed>>

(* applyInputConfiguration: the profile that was read takes the place of   *)
(* the one that is shown.                                                  *)
ConfigurationArrives ==
  /\ loading.at = "read" /\ loading' = NotLoading
  /\ profile' = loading.found /\ system' = loading.system
  /\ crossed' = (crossed \/ saving # <<>>)
  /\ UNCHANGED <<stored, saving, changes, commands, asked, loads, pads, setup, captured>>

CapabilitiesArrive ==
  /\ asked # "none" /\ asked' = "none" /\ commands' = CommandsOf[asked]
  /\ UNCHANGED <<profileVars, loading, system, loads, pads, setup, captured, crossed>>

(* saveInputProfile: refused if it is not valid, and the answer is not     *)
(* looked at.                                                              *)
ProfileSaved ==
  /\ saving # <<>> /\ saving' = Tail(saving)
  /\ \/ /\ IsValid(Head(saving)) /\ stored' = Head(saving)
        /\ crossed' = (crossed \/ loading.at # "none")
     \/ UNCHANGED stored /\ crossed' = TRUE
  /\ UNCHANGED <<profile, changes, loadVars, pads, setup, captured>>

SetupNext ==
  \/ Move \/ ChooseDevice \/ Edit \/ Confirm \/ Back \/ Capture \/ Plug
  \/ \E s \in Systems : OpenLibrary(s)
  \/ ProfileRead \/ ConfigurationArrives \/ CapabilitiesArrive \/ ProfileSaved

SetupSpec == SetupInit /\ [][SetupNext]_setupVars
-----------------------------------------------------------------------------
(* "Conflicts swap assignments so each supported command remains unique",  *)
(* and button 9 "cannot be assigned" (advanced-input-shortcuts.md): no     *)
(* sequence of changes, on whatever devices and with whatever answers in   *)
(* between, makes a profile main would refuse; and what is shown is what   *)
(* is stored, unless a load met a save or a save failed.                   *)
ProfileIsKept ==
  /\ IsValid(profile)
  /\ saving = <<>> /\ loading.at = "none" => profile = stored \/ crossed
=============================================================================
