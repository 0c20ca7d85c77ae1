------------------------------ MODULE Preferences ------------------------------
(***************************************************************************)
(* The global preferences: the menu that changes them                      *)
(* (global-settings-menu.tsx), the effects of the renderer that load, show *)
(* and save them, the migration from its localStorage, and the repository  *)
(* of main (global-preferences.ts).  The window may be closed and opened   *)
(* anew at any time; what it has asked main for is done all the same.      *)
(***************************************************************************)
EXTENDS Naturals, Sequences, SequencesExt

CONSTANTS Locales,     \* the locales in the order of the menu
          MaxVolume,   \* the loudest volume
          Default,     \* createDefaultGlobalPreferences
          MaxEdits,    \* bound: changes of the preferences
          MaxReopens   \* bound: windows opened anew

VARIABLES onDisk,      \* the preferences on disk, if any
          legacy,      \* those of the localStorage, if any
          preferences, \* the preferences the window shows
          startup,     \* how far the window has come in loading them
          prefSaves,   \* the saves under way, oldest first, and who waits for each
          row,         \* the row of the menu
          warned,      \* the warning on screen
          edits, reopens,
          hadSome,     \* history: were there preferences, stored or legacy?
          excused      \* history: a save or a load failed, or a load met a save

prefVars == <<onDisk, legacy, preferences, startup, prefSaves, row, warned, edits, reopens,
              hadSome, excused>>

Preference == [locale : ToSet(Locales), muted : BOOLEAN, volume : 0..MaxVolume]

PreferencesTypeOK ==
  /\ onDisk \in {<<>>} \union {<<p>> : p \in Preference}
  /\ legacy \in {<<>>} \union {<<p>> : p \in Preference}
  /\ preferences \in Preference
  /\ startup \in {"asked", "migrating", "ready"}
  /\ prefSaves \in Seq([value : Preference, by : {"change", "migration", "gone"}])
  /\ row \in 1..5 /\ warned \in BOOLEAN

(* createDefaultGlobalPreferences is valid. *)
ASSUME PreferencesAssumption ==
  /\ Locales \in Seq(ToSet(Locales)) /\ MaxVolume \in Nat
  /\ Default \in Preference

Migrated == IF legacy = <<>> THEN Default ELSE legacy[1]

PreferencesInit ==
  /\ \E p \in {Default, [Default EXCEPT !.muted = TRUE, !.volume = MaxVolume]} :
       /\ onDisk \in {<<>>, <<p>>}
       /\ legacy \in {<<>>, <<p>>}
  /\ preferences = Default /\ startup = "asked" /\ prefSaves = <<>>
  /\ row = 1 /\ warned = FALSE
  /\ edits = 0 /\ reopens = 0 /\ hadSome = (onDisk # <<>> \/ legacy # <<>>) /\ excused = FALSE

LoadFailed == warned' = TRUE /\ excused' = TRUE
-----------------------------------------------------------------------------
(* getGlobalPreferences answers: what is stored is shown; if nothing is,   *)
(* what the localStorage holds is saved first; and if the load fails, it   *)
(* is shown and not saved.  A load fails when the file cannot be read or   *)
(* holds no valid preferences.                                             *)
LoadPreferences ==
  /\ startup = "asked"
  /\ \/ /\ onDisk # <<>> /\ preferences' = onDisk[1] /\ startup' = "ready"
        /\ excused' = (excused \/ prefSaves # <<>>)
        /\ UNCHANGED <<prefSaves, warned>>
     \/ /\ onDisk = <<>> /\ startup' = "migrating"
        /\ prefSaves' = Append(prefSaves, [value |-> Migrated, by |-> "migration"])
        /\ UNCHANGED <<preferences, warned, excused>>
     \/ /\ preferences' = Migrated /\ startup' = "ready"
        /\ LoadFailed /\ UNCHANGED prefSaves
  /\ UNCHANGED <<onDisk, legacy, row, edits, reopens, hadSome>>

(* Mutant: the localStorage is cleared whatever the answer. *)
LegacyClearedAnyway(done) == <<>>

(* clearLegacyGlobalPreferences *)
LegacyAfter(done) == IF done THEN <<>> ELSE legacy

(* Main saves in the order of the calls, and the next save follows one     *)
(* that failed.  The answer to the migration clears the localStorage; that *)
(* to a change sets or clears the warning.                                 *)
PreferencesSaved ==
  /\ prefSaves # <<>> /\ prefSaves' = Tail(prefSaves)
  /\ \E done \in BOOLEAN :
       /\ onDisk' = IF done THEN <<Head(prefSaves).value>> ELSE onDisk
       /\ excused' = (excused \/ ~done)
       /\ \/ /\ Head(prefSaves).by = "migration"
             /\ preferences' = Head(prefSaves).value /\ startup' = "ready"
             /\ legacy' = LegacyAfter(done) /\ warned' = (warned \/ ~done)
          \/ /\ Head(prefSaves).by # "migration"
             /\ warned' = IF Head(prefSaves).by = "change" THEN ~done ELSE warned
             /\ UNCHANGED <<preferences, startup, legacy>>
  /\ UNCHANGED <<row, edits, reopens, hadSome>>

(* A change is shown at once, and the effect that sees it saves it; the    *)
(* preferences that were loaded are not saved again.                       *)
Change(p) ==
  /\ startup = "ready" /\ edits < MaxEdits
  /\ preferences' = p
  /\ IF p = preferences
     THEN UNCHANGED <<prefSaves, edits>>
     ELSE prefSaves' = Append(prefSaves, [value |-> p, by |-> "change"]) /\ edits' = edits + 1
  /\ UNCHANGED <<onDisk, legacy, startup, row, warned, reopens, hadSome, excused>>

(* The menu: the locales are a cycle, the volume stops at its ends, and    *)
(* the last two rows are the updates and the exit.                         *)
Cycle(l, step) ==
  LET i == CHOOSE i \in DOMAIN Locales : Locales[i] = l IN
    Locales[((i - 1 + step + Len(Locales)) % Len(Locales)) + 1]

AdjustRow(step) ==
  \/ row = 1 /\ Change([preferences EXCEPT !.locale = Cycle(@, IF step = 1 THEN 1 ELSE Len(Locales) - 1)])
  \/ row = 2 /\ Change([preferences EXCEPT !.muted = ~@])
  \/ row = 3 /\ Change([preferences EXCEPT !.volume = IF step = 1 THEN (IF @ < MaxVolume THEN @ + 1 ELSE @)
                                                ELSE IF @ > 0 THEN @ - 1 ELSE @])

SelectRow ==
  /\ startup = "ready" /\ row' \in 1..5
  /\ UNCHANGED <<onDisk, legacy, preferences, startup, prefSaves, warned, edits, reopens, hadSome, excused>>

(* The window is closed, and another is opened: the answers are lost.      *)
OpenAnew ==
  /\ reopens < MaxReopens /\ reopens' = reopens + 1
  /\ startup' = "asked" /\ preferences' = Default /\ row' = 1 /\ warned' = FALSE
  /\ prefSaves' = [i \in DOMAIN prefSaves |-> [prefSaves[i] EXCEPT !.by = "gone"]]
  /\ UNCHANGED <<onDisk, legacy, edits, hadSome, excused>>

PreferencesNext ==
  \/ LoadPreferences \/ PreferencesSaved \/ SelectRow \/ OpenAnew
  \/ \E step \in {0, 1} : AdjustRow(step)

PreferencesSpec == PreferencesInit /\ [][PreferencesNext]_prefVars
-----------------------------------------------------------------------------
(* "Global preferences and input profiles survive restart" (checklist.md): *)
(* what is shown is what is stored once nothing is under way, unless a     *)
(* load or a save failed or the one met the other; and the preferences of  *)
(* the localStorage are there until main has stored some.                  *)
PreferencesAreKept ==
  /\ startup = "ready" /\ prefSaves = <<>> /\ ~excused => onDisk = <<preferences>>
  /\ hadSome => onDisk # <<>> \/ legacy # <<>>
=============================================================================
