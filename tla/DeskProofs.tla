------------------------------- MODULE DeskProofs -------------------------------
(***************************************************************************)
(* Proofs about the parts of the desktop around a session, each for any    *)
(* values of its constants: DesktopShell, RomFolder and GameLaunch, and    *)
(* what the player sets up and chooses: InputSetup, Preferences and        *)
(* Navigation.                                                             *)
(***************************************************************************)
EXTENDS DesktopShell, RomFolder, GameLaunch, InputSetup, Preferences, Navigation,
        SequenceTheorems, TLAPS

(***************************************************************************)
(* DesktopShell.  The first quit uses up the stop, and that there was a    *)
(* request to end the program is what the shell remembers in two places    *)
(* (Remembered); only a second one passes by a flush.  As long as nothing  *)
(* goes amiss there is one stop at a time, and it finds the thread it was  *)
(* asked of, or no session at all (OneStopAtATime).                        *)
(***************************************************************************)
Counted ==
  /\ quits \in Nat /\ installs \in Nat
  /\ stop \in [Stoppers -> StopPhases] /\ session \in {"none", "live", "ended"}

(* Wherever the shell remembers a request, there was one. *)
Remembered ==
  /\ ~stopActiveSession \/ quitAfterSaveFlush => quits + installs >= 1
  /\ stop["quit"] # "none" => ~stopActiveSession

Kept == unflushed => session # "none"

OneStopAtATime ==
  ~mishap => /\ \A j, k \in Stoppers : stop[j] # "none" /\ stop[k] # "none" => j = k
             /\ \A k \in Stoppers : /\ stop[k] = "asked" => session = "live"
                                    /\ stop[k] = "refused" => session = "none"
                                    /\ stop[k] # "unanswered"
             /\ session = "ended" => \E k \in Stoppers : stop[k] = "saving"

ShellInv == Counted /\ Remembered /\ Kept /\ OneStopAtATime /\ OneRequestLosesNothing
-----------------------------------------------------------------------------
(* A stop that is asked for is alone, or it is a mishap. *)
LEMMA StopIsAsked ==
  ASSUME ShellInv, NEW k \in Stoppers, stop[k] = "none", Stop(k), UNCHANGED <<session, unflushed>>
  PROVE  /\ stop' \in [Stoppers -> StopPhases] /\ Kept' /\ OneStopAtATime'
         /\ k # "quit" => stop'["quit"] = stop["quit"]
<1>1. stop' \in [Stoppers -> StopPhases]
  BY DEF ShellInv, Counted, Stop, StopPhases
<1>2. Kept'
  BY DEF ShellInv, Kept
<1>3. k # "quit" => stop'["quit"] = stop["quit"]
  BY DEF ShellInv, Counted, Stop, Stoppers
<1>4. OneStopAtATime'
  <2> SUFFICES ASSUME ~mishap' PROVE OneStopAtATime'
    BY DEF OneStopAtATime
  <2>1. ~mishap /\ \A j \in Stoppers : stop[j] = "none"
    BY DEF Stop
  <2>2. session = "live" \/ session = "none"
    BY <2>1 DEF ShellInv, Counted, OneStopAtATime
  <2>3. \A j \in Stoppers \ {k} : stop'[j] = "none"
    BY <2>1 DEF ShellInv, Counted, Stop
  <2>4. stop'[k] = IF session = "live" THEN "asked" ELSE "refused"
    BY <2>2 DEF ShellInv, Counted, Stop
  <2> QED
    BY <2>2, <2>3, <2>4 DEF OneStopAtATime
<1> QED
  BY <1>1, <1>2, <1>3, <1>4

(* before-quit, whoever has the program quit. *)
LEMMA QuitIsCounted ==
  ASSUME ShellInv, ~exited, BeforeQuit, quits' = quits + 1,
         UNCHANGED <<session, unflushed, installs, quitAfterSaveFlush>>
  PROVE  ShellInv'
<1>1. CASE quitAfterSaveFlush \/ ~stopActiveSession
  <2>1. UNCHANGED <<stopActiveSession, stop, mishap>>
    BY <1>1 DEF BeforeQuit
  <2>2. quits + installs >= 1
    BY <1>1 DEF ShellInv, Remembered
  <2>3. Counted' /\ Remembered' /\ quits' + installs' > 1
    BY <2>1, <2>2 DEF ShellInv, Counted, Remembered
  <2> QED
    BY <2>1, <2>3 DEF ShellInv, Kept, OneStopAtATime, OneRequestLosesNothing
<1>2. CASE ~(quitAfterSaveFlush \/ ~stopActiveSession)
  <2>1. ~exited' /\ ~stopActiveSession' /\ Stop("quit")
    BY <1>2 DEF BeforeQuit
  <2>2. "quit" \in Stoppers /\ stop["quit"] = "none"
    BY <1>2 DEF ShellInv, Remembered, Stoppers
  <2>3. stop' \in [Stoppers -> StopPhases] /\ Kept' /\ OneStopAtATime'
    BY <2>1, <2>2, StopIsAsked
  <2>4. Counted' /\ Remembered'
    BY <2>1, <2>3 DEF ShellInv, Counted, Remembered
  <2> QED
    BY <2>1, <2>3, <2>4 DEF ShellInv, OneRequestLosesNothing
<1> QED
  BY <1>1, <1>2

(* A stop that returns leaves the others where they are. *)
LEMMA StopIsGone ==
  ASSUME ShellInv, NEW k \in Stoppers, Returns(k), UNCHANGED <<quits, stopActiveSession>>,
         stop[k] # "none", session' \in {"none", "live", "ended"}
  PROVE  /\ Counted' /\ Remembered'
         /\ stop'[k] = "none" /\ \A j \in Stoppers \ {k} : stop'[j] = stop[j]
<1>1. Counted'
  <2>1. stop' \in [Stoppers -> StopPhases]
    BY DEF ShellInv, Counted, Returns, StopPhases
  <2>2. installs' \in Nat
    <3>1. k = "install" => Install
      BY DEF Returns
    <3>2. k # "install" => UNCHANGED installs
      BY DEF Returns, Stoppers
    <3> QED
      BY <3>1, <3>2 DEF ShellInv, Counted, Install
  <2> QED
    BY <2>1, <2>2 DEF ShellInv, Counted
<1>2. stop'[k] = "none" /\ \A j \in Stoppers \ {k} : stop'[j] = stop[j]
  BY DEF ShellInv, Counted, Returns
<1>3. stop'["quit"] # "none" => stop["quit"] # "none"
  BY <1>2 DEF Stoppers
<1>4. ~stopActiveSession' \/ quitAfterSaveFlush' => quits' + installs' >= 1
  <2>1. CASE k = "quit"
    BY <2>1 DEF ShellInv, Counted, Remembered, Returns
  <2>2. CASE k = "install"
    BY <2>2 DEF ShellInv, Counted, Returns, Install
  <2>3. CASE k = "player"
    BY <2>3 DEF ShellInv, Remembered, Returns
  <2> QED
    BY <2>1, <2>2, <2>3 DEF Stoppers
<1> QED
  BY <1>1, <1>2, <1>3, <1>4 DEF ShellInv, Remembered

(* The stop of a caller, from the thread's answer to its return. *)
LEMMA StopStep ==
  ASSUME ShellInv, ~exited, NEW k \in Stoppers, StopGoesOn(k)
  PROVE  ShellInv'
<1>1. CASE Answered(k)
  <2>1. UNCHANGED <<quits, installs, stopActiveSession, quitAfterSaveFlush, exited, unflushed>>
    BY <1>1 DEF Answered, StopVars
  <2>2. PICK p \in {"saving", "refused", "unanswered"} : stop' = [stop EXCEPT ![k] = p]
    BY <1>1 DEF Answered
  <2>3. stop[k] = "asked" /\ session # "none" => session' # "none"
    BY <1>1 DEF Answered
  <2>4. session' \in {"none", "live", "ended"}
    BY <1>1 DEF Answered, ShellInv, Counted
  <2>5. Counted' /\ Remembered' /\ Kept'
    BY <1>1, <2>1, <2>2, <2>3, <2>4
       DEF Answered, ShellInv, Counted, Remembered, Kept, Stoppers, StopPhases
  <2>6. OneStopAtATime'
    <3> SUFFICES ASSUME ~mishap' PROVE OneStopAtATime'
      BY DEF OneStopAtATime
    <3>1. ~mishap /\ stop[k] = "asked"
      BY <1>1 DEF Answered
    <3>2. session = "live"
      BY <3>1 DEF ShellInv, OneStopAtATime
    <3>3. session' = "ended" /\ stop' = [stop EXCEPT ![k] = "saving"]
      BY <1>1, <3>2 DEF Answered
    <3>4. stop'[k] = "saving" /\ \A j \in Stoppers \ {k} : stop'[j] = "none"
      BY <3>1, <3>3 DEF ShellInv, Counted, OneStopAtATime
    <3> QED
      BY <3>3, <3>4 DEF OneStopAtATime
  <2> QED
    BY <2>1, <2>5, <2>6 DEF ShellInv, OneRequestLosesNothing
<1>2. CASE SaveEnds(k)
  <2>1. /\ Returns(k) /\ UNCHANGED <<quits, stopActiveSession>> /\ stop[k] # "none"
        /\ \/ session' = "none" /\ ~unflushed' /\ mishap' = mishap
           \/ mishap' /\ UNCHANGED <<session, unflushed>>
    BY <1>2 DEF SaveEnds, StopVars
  <2>2. session' \in {"none", "live", "ended"}
    BY <2>1 DEF ShellInv, Counted
  <2>3. /\ Counted' /\ Remembered'
        /\ stop'[k] = "none" /\ \A j \in Stoppers \ {k} : stop'[j] = stop[j]
    BY <2>1, <2>2, StopIsGone
  <2>4. Kept' /\ OneRequestLosesNothing'
    BY <2>1 DEF ShellInv, Kept, OneRequestLosesNothing
  <2>5. OneStopAtATime'
    <3> SUFFICES ASSUME ~mishap' PROVE OneStopAtATime'
      BY DEF OneStopAtATime
    <3>1. ~mishap /\ session' = "none" /\ stop[k] # "none"
      BY <2>1
    <3>2. \A j \in Stoppers : stop'[j] = "none"
      BY <2>3, <3>1 DEF ShellInv, OneStopAtATime
    <3> QED
      BY <3>1, <3>2 DEF OneStopAtATime
  <2> QED
    BY <2>3, <2>4, <2>5 DEF ShellInv
<1>3. CASE Refused(k)
  <2>1. /\ Returns(k) /\ UNCHANGED <<quits, stopActiveSession, session, unflushed, mishap>>
        /\ stop[k] = "refused"
    BY <1>3 DEF Refused, StopVars
  <2>2. session' \in {"none", "live", "ended"}
    BY <2>1 DEF ShellInv, Counted
  <2>3. /\ Counted' /\ Remembered'
        /\ stop'[k] = "none" /\ \A j \in Stoppers \ {k} : stop'[j] = stop[j]
    BY <2>1, <2>2, StopIsGone
  <2>4. ~mishap => session = "none" /\ ~unflushed
    BY <2>1 DEF ShellInv, OneStopAtATime, Kept
  <2>5. Kept' /\ OneRequestLosesNothing'
    BY <2>1, <2>4 DEF ShellInv, Kept, OneRequestLosesNothing
  <2>6. OneStopAtATime'
    BY <2>1, <2>3, <2>4 DEF ShellInv, OneStopAtATime
  <2> QED
    BY <2>3, <2>5, <2>6 DEF ShellInv
<1> QED
  BY <1>1, <1>2, <1>3 DEF StopGoesOn

(* Every step of the shell keeps the invariant. *)
LEMMA ShellInductive == ShellInv /\ [ShellNext]_shellVars => ShellInv'
<1> SUFFICES ASSUME ShellInv, [ShellNext]_shellVars PROVE ShellInv'
  OBVIOUS
<1>1. ASSUME ~exited, Play PROVE ShellInv'
  <2>1. /\ session = "none" /\ session' = "live" /\ stop' = stop /\ mishap' = mishap
        /\ \A k \in Stoppers : stop[k] \in {"none", "unanswered"}
        /\ UNCHANGED <<quits, installs, stopActiveSession, quitAfterSaveFlush, exited>>
    BY <1>1 DEF Play, quitVars
  <2>2. Counted' /\ Remembered' /\ Kept' /\ OneRequestLosesNothing'
    BY <1>1, <2>1 DEF ShellInv, Counted, Remembered, Kept, OneRequestLosesNothing
  <2>3. OneStopAtATime'
    BY <2>1 DEF ShellInv, OneStopAtATime
  <2> QED
    BY <2>2, <2>3 DEF ShellInv
<1>2. ASSUME ~exited, StopPlaying PROVE ShellInv'
  <2>1. /\ stop["player"] = "none" /\ Stop("player") /\ UNCHANGED <<session, unflushed>>
        /\ UNCHANGED <<quits, installs, stopActiveSession, quitAfterSaveFlush, exited>>
    BY <1>2 DEF StopPlaying, quitVars
  <2>2. "player" \in Stoppers /\ "player" # "quit"
    BY DEF Stoppers
  <2>3. /\ stop' \in [Stoppers -> StopPhases] /\ Kept' /\ OneStopAtATime'
        /\ stop'["quit"] = stop["quit"]
    BY <2>1, <2>2, StopIsAsked
  <2> QED
    BY <1>2, <2>1, <2>3 DEF ShellInv, Counted, Remembered, OneRequestLosesNothing
<1>3. ASSUME ~exited, ThreadDies PROVE ShellInv'
  <2>1. /\ session' = "ended" /\ mishap'
        /\ UNCHANGED <<quits, installs, stopActiveSession, quitAfterSaveFlush, exited, unflushed>>
        /\ stop' = [k \in Stoppers |-> IF stop[k] = "asked" THEN "refused" ELSE stop[k]]
    BY <1>3 DEF ThreadDies, quitVars
  <2>2. stop' \in [Stoppers -> StopPhases] /\ (stop'["quit"] # "none" => stop["quit"] # "none")
    BY <2>1 DEF ShellInv, Counted, Stoppers, StopPhases
  <2> QED
    BY <1>3, <2>1, <2>2
       DEF ShellInv, Counted, Remembered, Kept, OneStopAtATime, OneRequestLosesNothing
<1>4. ASSUME ~exited, NEW k \in Stoppers, StopGoesOn(k) PROVE ShellInv'
  BY <1>4, StopStep
<1>5. ASSUME ~exited, Quit PROVE ShellInv'
  BY <1>5, QuitIsCounted DEF Quit
<1>6. ASSUME ~exited, CloseWindow PROVE ShellInv'
  <2>1. CASE platform = "darwin"
    <3>1. UNCHANGED <<quits, installs, stopActiveSession, quitAfterSaveFlush, exited, unflushed,
                      session, stop, mishap>>
      BY <1>6, <2>1 DEF CloseWindow
    <3> QED
      BY <3>1 DEF ShellInv, Counted, Remembered, Kept, OneStopAtATime, OneRequestLosesNothing
  <2>2. CASE platform # "darwin"
    BY <1>6, <2>2, QuitIsCounted DEF CloseWindow
  <2> QED
    BY <2>1, <2>2
<1>7. ASSUME ~exited, Minimize \/ SecondInstance \/ Activate \/ CheckForUpdates
                      \/ DownloadUpdate \/ CheckAnswers \/ DownloadGoesOn \/ StateArrives
      PROVE  ShellInv'
  <2>1. UNCHANGED <<quits, installs, stopActiveSession, quitAfterSaveFlush, exited, unflushed,
                    session, stop, mishap>>
    BY <1>7 DEF Minimize, SecondInstance, Activate, CheckForUpdates, DownloadUpdate,
                CheckAnswers, DownloadGoesOn, StateArrives, quitVars, gameVars
  <2> QED
    BY <2>1 DEF ShellInv, Counted, Remembered, Kept, OneStopAtATime, OneRequestLosesNothing
<1>8. ASSUME ~exited, InstallUpdate PROVE ShellInv'
  <2>1. CASE stopActiveSession
    <3>1. /\ stop["install"] = "none" /\ Stop("install") /\ UNCHANGED <<session, unflushed>>
          /\ UNCHANGED <<quits, installs, stopActiveSession, quitAfterSaveFlush, exited>>
      BY <1>8, <2>1 DEF InstallUpdate, StopVars
    <3>2. "install" \in Stoppers /\ "install" # "quit"
      BY DEF Stoppers
    <3>3. /\ stop' \in [Stoppers -> StopPhases] /\ Kept' /\ OneStopAtATime'
          /\ stop'["quit"] = stop["quit"]
      BY <3>1, <3>2, StopIsAsked
    <3> QED
      BY <1>8, <3>1, <3>3 DEF ShellInv, Counted, Remembered, OneRequestLosesNothing
  <2>2. CASE ~stopActiveSession
    <3>1. /\ installs' = installs + 1 /\ quits + installs >= 1
          /\ UNCHANGED <<quits, stopActiveSession, session, unflushed, stop, mishap>>
      BY <1>8, <2>2 DEF InstallUpdate, Install, StopVars, ShellInv, Remembered
    <3>2. Counted' /\ Remembered' /\ quits' + installs' > 1
      BY <3>1 DEF ShellInv, Counted, Remembered
    <3> QED
      BY <3>1, <3>2 DEF ShellInv, Kept, OneStopAtATime, OneRequestLosesNothing
  <2> QED
    BY <2>1, <2>2
<1>9. CASE UNCHANGED shellVars
  BY <1>9 DEF shellVars, quitVars, gameVars, ShellInv, Counted, Remembered, Kept, OneStopAtATime,
              OneRequestLosesNothing
<1> QED
  BY <1>1, <1>2, <1>3, <1>4, <1>5, <1>6, <1>7, <1>8, <1>9 DEF ShellNext
-----------------------------------------------------------------------------
(* A program that is asked once to end, by a quit, by closing its last     *)
(* window or by an install, while no other stop is at work, does not end   *)
(* before the progress of its session was flushed, unless the thread or    *)
(* the disk failed it.                                                     *)
THEOREM OneRequestIsSafe == ShellSpec => []OneRequestLosesNothing
<1>1. ShellInit => ShellInv
  BY DEF ShellInit, ShellInv, Counted, Remembered, Kept, OneStopAtATime, OneRequestLosesNothing,
         Stoppers, StopPhases
<1>2. ShellInv /\ [ShellNext]_shellVars => ShellInv'
  BY ShellInductive
<1>3. ShellInv => OneRequestLosesNothing
  BY DEF ShellInv
<1> QED
  BY <1>1, <1>2, <1>3, PTL DEF ShellSpec

-----------------------------------------------------------------------------
(***************************************************************************)
(* RomFolder.  Part of a file is either still being copied or known to be  *)
(* disturbed (PartsAreKnown), so that whatever is read, kept in a list or  *)
(* registered is of a whole file or of a disturbed one (BytesAreKnown,     *)
(* ListsAreKnown); and as long as no two adds overlap, the list an add     *)
(* writes back is the library (AddsAlone).                                 *)
(***************************************************************************)
Stages == {"idle", "choosing", "copying", "adding", "knowing", "naming", "reading", "opened",
           "registering", "writing", "listing", "ok", "cancelled", "error", "lost"}

FolderTypes ==
  /\ folder \in [Roms -> Contents]
  /\ games \subseteq LibraryEntry
  /\ snapshot \in [Calls -> SUBSET LibraryEntry]
  /\ stage \in [Calls -> Stages]
  /\ found \in [Listings -> SUBSET Roms]
  /\ bytes \in [Listings -> {NoBytes} \union (Roms \X {"part", "whole"})]

PartsAreKnown ==
  \A r \in Roms : folder[r] = "part" => r \in disturbed \/ r \in Copying

CopiesAreWhole ==
  \A i \in Imports : stage[i] \in {"adding", "writing"} => folder[i] = "whole"

BytesAreKnown ==
  \A c \in Listings : stage[c] \in {"opened", "registering"} =>
    /\ bytes[c][1] \in Roms
    /\ bytes[c][2] = "whole" \/ bytes[c][1] \in disturbed

IsKnown(g, d) == g.whole \/ g.rom \in d

ListsAreKnown ==
  /\ \A g \in games : IsKnown(g, disturbed)
  /\ \A c \in Registering : \A g \in snapshot[c] : IsKnown(g, disturbed)

AddsAlone ==
  ~overlapped => \A c \in Registering :
    snapshot[c] = games /\ \A d \in Registering : d = c

AnswersHold ==
  \A i \in Imports : stage[i] = "ok" => [rom |-> i, whole |-> TRUE] \in games \/ overlapped

Library == ListsAreKnown /\ AddsAlone /\ AnswersHold
FolderInv == FolderTypes /\ PartsAreKnown /\ CopiesAreWhole /\ BytesAreKnown /\ Library

LEMMA FolderInitInductive == FolderInit => FolderInv
<1> SUFFICES ASSUME FolderInit PROVE FolderInv
  OBVIOUS
<1>1. FolderTypes
  <2>1. folder \in [Roms -> Contents] /\ games = {}
    BY DEF FolderInit
  <2>2. snapshot \in [Calls -> SUBSET LibraryEntry] /\ stage \in [Calls -> Stages]
    BY DEF FolderInit, Stages
  <2>3. /\ found \in [Listings -> SUBSET Roms]
        /\ bytes \in [Listings -> {NoBytes} \union (Roms \X {"part", "whole"})]
    BY DEF FolderInit
  <2> QED
    BY <2>1, <2>2, <2>3 DEF FolderTypes
<1>2. \A c \in Calls : stage[c] = "idle"
  BY DEF FolderInit
<1>3. \A r \in Roms : folder[r] # "part"
  BY DEF FolderInit, Roms, Contents
<1> QED
  BY <1>1, <1>2, <1>3 DEF FolderInit, FolderInv, PartsAreKnown, CopiesAreWhole, BytesAreKnown, Library,
     ListsAreKnown, AddsAlone, AnswersHold, Registering, Calls

(* A step that leaves the library alone, and lets no call into an add. *)
LEMMA LibraryStays ==
  ASSUME FolderInv, UNCHANGED libraryVars, disturbed \subseteq disturbed',
         Registering' \subseteq Registering,
         \A i \in Imports : stage'[i] = "ok" => stage[i] = "ok"
  PROVE  Library'
<1>1. ListsAreKnown'
  BY DEF FolderInv, Library, ListsAreKnown, IsKnown, libraryVars
<1>2. AddsAlone' /\ AnswersHold'
  BY DEF FolderInv, Library, AddsAlone, AnswersHold, libraryVars
<1> QED
  BY <1>1, <1>2 DEF Library

(* An add has read the library. *)
LEMMA LibraryIsRead ==
  ASSUME FolderInv, NEW c \in Calls, c \notin Registering, ReadToAdd(c),
         NEW s \in {"writing", "registering"}, CallTo(c, s), UNCHANGED disturbed
  PROVE  /\ Library' /\ games' = games
         /\ snapshot' \in [Calls -> SUBSET LibraryEntry]
<1>1. games' = games /\ snapshot' = [snapshot EXCEPT ![c] = games]
  BY DEF ReadToAdd
<1>2. snapshot' \in [Calls -> SUBSET LibraryEntry]
  BY <1>1 DEF FolderInv, FolderTypes
<1>3. Registering' = Registering \union {c}
  BY DEF FolderInv, FolderTypes, Registering, CallTo
<1>4. snapshot'[c] = games /\ \A d \in Registering : snapshot'[d] = snapshot[d]
  BY <1>1 DEF FolderInv, FolderTypes, Registering
<1>5. ListsAreKnown'
  BY <1>1, <1>3, <1>4 DEF FolderInv, Library, ListsAreKnown, IsKnown
<1>6. AddsAlone'
  BY <1>1, <1>3, <1>4 DEF ReadToAdd, AddsAlone
<1>7. \A i \in Imports : stage'[i] = "ok" => stage[i] = "ok"
  BY DEF FolderInv, FolderTypes, CallTo, Calls
<1>8. AnswersHold'
  BY <1>1, <1>7 DEF FolderInv, Library, AnswersHold, ReadToAdd
<1> QED
  BY <1>1, <1>2, <1>5, <1>6, <1>8 DEF Library

(* An add has written the library it has read, with its game. *)
LEMMA LibraryIsWritten ==
  ASSUME FolderInv, NEW c \in Registering, NEW r \in Roms, NEW whole \in BOOLEAN,
         WriteAdded(c, r, whole), whole \/ r \in disturbed,
         NEW s \in {"ok", "reading"}, CallTo(c, s), UNCHANGED disturbed,
         c \in Imports => r = c /\ whole
  PROVE  /\ Library' /\ games' \subseteq LibraryEntry
         /\ snapshot' \in [Calls -> SUBSET LibraryEntry]
<1> DEFINE new == [rom |-> r, whole |-> whole]
<1>1. /\ games' = snapshot[c] \union {new} /\ snapshot' = [snapshot EXCEPT ![c] = {}]
      /\ overlapped' = overlapped
  BY DEF WriteAdded
<1>2. c \in Calls /\ snapshot[c] \subseteq LibraryEntry /\ new \in LibraryEntry
  BY DEF FolderInv, FolderTypes, Registering, LibraryEntry
<1>3. games' \subseteq LibraryEntry /\ snapshot' \in [Calls -> SUBSET LibraryEntry]
  BY <1>1, <1>2 DEF FolderInv, FolderTypes
<1>4. Registering' = Registering \ {c}
  BY DEF FolderInv, FolderTypes, Registering, CallTo
<1>5. \A d \in Registering' : snapshot'[d] = snapshot[d]
  BY <1>1, <1>4 DEF FolderInv, FolderTypes, Registering
<1>6. IsKnown(new, disturbed)
  BY DEF IsKnown
<1> HIDE DEF new
<1>7. ListsAreKnown'
  BY <1>1, <1>4, <1>5, <1>6 DEF FolderInv, Library, ListsAreKnown, IsKnown
<1>8. AddsAlone'
  BY <1>1, <1>4 DEF FolderInv, Library, AddsAlone
<1>9. AnswersHold'
  <2> SUFFICES ASSUME NEW i \in Imports, stage'[i] = "ok", ~overlapped
               PROVE  [rom |-> i, whole |-> TRUE] \in games'
    BY <1>1 DEF AnswersHold
  <2>1. CASE i = c
    BY <2>1, <1>1 DEF new
  <2>2. CASE i # c
    <3>1. stage[i] = "ok"
      BY <2>2 DEF FolderInv, FolderTypes, CallTo, Calls
    <3> QED
      BY <3>1, <1>1 DEF FolderInv, Library, AnswersHold, AddsAlone
  <2> QED
    BY <2>1, <2>2
<1> QED
  BY <1>3, <1>7, <1>8, <1>9 DEF Library
-----------------------------------------------------------------------------
(* What a call's step to another stage changes of the rest. *)
LEMMA StageMoves ==
  ASSUME FolderInv, NEW c \in Calls, NEW s \in Stages, CallTo(c, s)
  PROVE  /\ stage' \in [Calls -> Stages] /\ stage'[c] = s
         /\ \A d \in Calls : d # c => stage'[d] = stage[d]
         /\ s \notin {"writing", "registering"} => Registering' \subseteq Registering
<1>1. /\ stage' \in [Calls -> Stages] /\ stage'[c] = s
      /\ \A d \in Calls : d # c => stage'[d] = stage[d]
  BY DEF FolderInv, FolderTypes, CallTo
<1> QED
  BY <1>1 DEF Registering

(* An import goes on without a copy. *)
LEMMA ImportMoves ==
  ASSUME FolderInv, NEW i \in Imports, NEW s \in Stages, CallTo(i, s), stage[i] # "copying",
         s \in {"adding", "writing"} => folder[i] = "whole",
         UNCHANGED <<folder, listingVars, disturbed>>
  PROVE  /\ folder' \in [Roms -> Contents] /\ stage' \in [Calls -> Stages]
         /\ found' \in [Listings -> SUBSET Roms]
         /\ bytes' \in [Listings -> {NoBytes} \union (Roms \X {"part", "whole"})]
         /\ PartsAreKnown' /\ CopiesAreWhole' /\ BytesAreKnown'
<1>1. i \in Calls /\ \A c \in Listings : c \in Calls /\ c # i
  BY FolderAssumption DEF Calls
<1>2. stage' \in [Calls -> Stages] /\ stage'[i] = s /\ \A d \in Calls : d # i => stage'[d] = stage[d]
  BY <1>1, StageMoves
<1>3. Copying \subseteq Copying'
  BY <1>2 DEF Copying, Calls
<1>4. PartsAreKnown' /\ CopiesAreWhole'
  BY <1>2, <1>3 DEF FolderInv, PartsAreKnown, CopiesAreWhole, Calls
<1>5. BytesAreKnown'
  BY <1>1, <1>2 DEF FolderInv, BytesAreKnown, listingVars
<1> QED
  BY <1>2, <1>4, <1>5 DEF FolderInv, FolderTypes, listingVars

(* A listing goes on without another file. *)
LEMMA ListingMoves ==
  ASSUME FolderInv, NEW c \in Listings, NEW s \in Stages, CallTo(c, s),
         s \in {"opened", "registering"} => stage[c] \in {"opened", "registering"} /\ UNCHANGED bytes,
         UNCHANGED <<folder, disturbed>>,
         bytes' = bytes \/ bytes' = [bytes EXCEPT ![c] = NoBytes]
  PROVE  /\ folder' \in [Roms -> Contents] /\ stage' \in [Calls -> Stages]
         /\ bytes' \in [Listings -> {NoBytes} \union (Roms \X {"part", "whole"})]
         /\ PartsAreKnown' /\ CopiesAreWhole' /\ BytesAreKnown'
<1>1. c \in Calls /\ \A i \in Imports : i \in Calls /\ i # c
  BY FolderAssumption DEF Calls
<1>2. stage' \in [Calls -> Stages] /\ stage'[c] = s /\ \A d \in Calls : d # c => stage'[d] = stage[d]
  BY <1>1, StageMoves
<1>3. Copying' = Copying
  BY <1>1, <1>2 DEF Copying
<1>4. PartsAreKnown' /\ CopiesAreWhole'
  BY <1>1, <1>2, <1>3 DEF FolderInv, PartsAreKnown, CopiesAreWhole
<1>5. \A d \in Listings : d # c => bytes'[d] = bytes[d] /\ stage'[d] = stage[d]
  BY <1>2 DEF FolderInv, FolderTypes, Calls
<1>6. BytesAreKnown'
  BY <1>2, <1>5 DEF FolderInv, BytesAreKnown
<1>7. bytes' \in [Listings -> {NoBytes} \union (Roms \X {"part", "whole"})]
  BY DEF FolderInv, FolderTypes
<1> QED
  BY <1>2, <1>4, <1>6, <1>7 DEF FolderInv, FolderTypes
-----------------------------------------------------------------------------
(* An import goes on, and the library stays. *)
LEMMA ImportAnswered ==
  ASSUME FolderInv, NEW i \in Imports, stage[i] # "copying",
         NEW s \in {"choosing", "cancelled", "error"}, CallTo(i, s),
         UNCHANGED <<folder, libraryVars, listingVars, disturbed>>
  PROVE  FolderInv'
<1>1. i \in Calls /\ s \in Stages
  BY DEF Calls, Stages
<1>2. Registering' \subseteq Registering /\ \A j \in Imports : stage'[j] = "ok" => stage[j] = "ok"
  BY <1>1, StageMoves DEF Calls
<1>3. Library'
  BY <1>2, LibraryStays
<1> QED
  BY <1>1, <1>3, ImportMoves DEF FolderInv, FolderTypes, libraryVars

LEMMA FileChosen ==
  ASSUME FolderInv, NEW i \in Imports, Chosen(i)
  PROVE  FolderInv'
<1>1. CASE CallTo(i, "copying") /\ folder' = [folder EXCEPT ![i] = "part"]
  <2>1. i \in Calls /\ i \in Roms /\ "copying" \in Stages
    BY DEF Calls, Stages, Roms
  <2>2. /\ stage' \in [Calls -> Stages] /\ stage'[i] = "copying"
        /\ \A d \in Calls : d # i => stage'[d] = stage[d]
        /\ Registering' \subseteq Registering
    BY <1>1, <2>1, StageMoves
  <2>3. folder' \in [Roms -> Contents] /\ \A r \in Roms : r # i => folder'[r] = folder[r]
    BY <1>1 DEF FolderInv, FolderTypes, Contents
  <2>4. Copying' = Copying \union {i}
    BY <2>2 DEF Copying, Calls
  <2>5. UNCHANGED <<libraryVars, listingVars, disturbed>>
    BY <1>1 DEF Chosen
  <2>6. Library'
    BY <2>2, <2>5, LibraryStays DEF Calls
  <2>7. PartsAreKnown' /\ CopiesAreWhole'
    BY <2>2, <2>3, <2>4, <2>5 DEF FolderInv, PartsAreKnown, CopiesAreWhole, Calls, Roms
  <2>8. BytesAreKnown'
    BY <2>2, <2>5, FolderAssumption DEF FolderInv, BytesAreKnown, listingVars, Calls
  <2> QED
    BY <2>2, <2>3, <2>5, <2>6, <2>7, <2>8 DEF FolderInv, FolderTypes, libraryVars, listingVars
<1> QED
  BY <1>1, ImportAnswered DEF Chosen

LEMMA FileCopied ==
  ASSUME FolderInv, NEW i \in Imports, Copied(i)
  PROVE  FolderInv'
<1>1. i \in Calls /\ i \in Roms /\ stage[i] = "copying" /\ UNCHANGED <<libraryVars, listingVars>>
  BY DEF Copied, Calls, Roms
<1>2. PICK s \in {"adding", "error"} :
        /\ CallTo(i, s)
        /\ s = "adding" => folder' = [folder EXCEPT ![i] = "whole"] /\ UNCHANGED disturbed
        /\ s = "error" => disturbed' = disturbed \union {i} /\ UNCHANGED folder
  BY DEF Copied
<1>3. /\ stage' \in [Calls -> Stages] /\ stage'[i] = s
      /\ \A d \in Calls : d # i => stage'[d] = stage[d]
      /\ Registering' \subseteq Registering
  BY <1>1, <1>2, StageMoves DEF Stages
<1>4. folder' \in [Roms -> Contents] /\ \A r \in Roms : r # i => folder'[r] = folder[r]
  BY <1>2 DEF FolderInv, FolderTypes, Contents
<1>5. disturbed \subseteq disturbed' /\ Copying' = Copying \ {i}
  BY <1>2, <1>3 DEF Copying, Calls
<1>6. Library'
  BY <1>1, <1>2, <1>3, <1>5, LibraryStays DEF Calls
<1>7. folder'[i] = "part" => i \in disturbed'
  BY <1>1, <1>2 DEF FolderInv, FolderTypes
<1>8. PartsAreKnown'
  BY <1>4, <1>5, <1>7 DEF FolderInv, PartsAreKnown
<1>9. stage'[i] = "adding" => folder'[i] = "whole"
  BY <1>1, <1>2, <1>3 DEF FolderInv, FolderTypes
<1>10. CopiesAreWhole'
  BY <1>2, <1>3, <1>4, <1>9 DEF FolderInv, CopiesAreWhole, Calls, Roms
<1>11. BytesAreKnown'
  BY <1>1, <1>3, <1>5, FolderAssumption DEF FolderInv, BytesAreKnown, listingVars, Calls
<1> QED
  BY <1>1, <1>3, <1>4, <1>6, <1>8, <1>10, <1>11 DEF FolderInv, FolderTypes, libraryVars, listingVars

LEMMA ImportAdded ==
  ASSUME FolderInv, NEW i \in Imports, Adding(i) \/ Added(i)
  PROVE  FolderInv'
<1>1. /\ i \in Calls /\ i \in Roms /\ stage[i] # "copying" /\ folder[i] = "whole"
      /\ UNCHANGED <<folder, listingVars, disturbed>>
  BY DEF Adding, Added, Calls, Roms, FolderInv, CopiesAreWhole
<1>2. CASE CallTo(i, "error") /\ UNCHANGED libraryVars
  BY <1>1, <1>2, ImportAnswered
<1>3. CASE Adding(i) /\ CallTo(i, "writing") /\ ReadToAdd(i)
  <2>1. i \notin Registering
    BY <1>3 DEF Adding, Registering
  <2>2. /\ Library' /\ games' = games
        /\ snapshot' \in [Calls -> SUBSET LibraryEntry]
    BY <1>1, <1>3, <2>1, LibraryIsRead
  <2> QED
    BY <1>1, <1>3, <2>2, ImportMoves DEF FolderInv, FolderTypes, Stages
<1>4. CASE Added(i) /\ WriteAdded(i, i, folder[i] = "whole") /\ CallTo(i, "ok")
  <2>1. i \in Registering
    BY <1>1, <1>4 DEF Added, Registering
  <2>2. WriteAdded(i, i, TRUE)
    BY <1>1, <1>4
  <2>3. /\ Library' /\ games' \subseteq LibraryEntry
        /\ snapshot' \in [Calls -> SUBSET LibraryEntry]
    BY <1>1, <1>4, <2>1, <2>2, LibraryIsWritten
  <2> QED
    BY <1>1, <1>4, <2>3, ImportMoves DEF FolderInv, FolderTypes, Stages
<1> QED
  BY <1>2, <1>3, <1>4 DEF Adding, Added
-----------------------------------------------------------------------------
(* A listing goes on, and the library stays. *)
LEMMA ListingAnsweredInv ==
  ASSUME FolderInv, NEW c \in Listings,
         NEW s \in {"knowing", "naming", "reading", "listing", "ok", "error"}, CallTo(c, s),
         UNCHANGED <<folder, libraryVars, bytes, disturbed>>,
         found' \in [Listings -> SUBSET Roms]
  PROVE  FolderInv'
<1>1. c \in Calls /\ s \in Stages /\ \A i \in Imports : i \in Calls /\ i # c
  BY FolderAssumption DEF Calls, Stages
<1>2. Registering' \subseteq Registering /\ \A j \in Imports : stage'[j] = "ok" => stage[j] = "ok"
  BY <1>1, StageMoves
<1>3. Library'
  BY <1>2, LibraryStays
<1> QED
  BY <1>1, <1>3, ListingMoves DEF FolderInv, FolderTypes, libraryVars

LEMMA FileIsRead ==
  ASSUME FolderInv, NEW c \in Listings, FileRead(c)
  PROVE  FolderInv'
<1>1. PICK r \in found[c] :
        /\ found' = [found EXCEPT ![c] = @ \ {r}]
        /\ \/ folder[r] = "unfit" /\ UNCHANGED <<stage, bytes, disturbed>>
           \/ /\ folder[r] \in {"part", "whole"}
              /\ CallTo(c, "opened") /\ bytes' = [bytes EXCEPT ![c] = <<r, folder[r]>>]
              /\ disturbed' = disturbed \union ({r} \intersect Copying)
           \/ CallTo(c, "error") /\ UNCHANGED <<bytes, disturbed>>
  BY DEF FileRead
<1>2. /\ found' \in [Listings -> SUBSET Roms] /\ UNCHANGED <<folder, libraryVars>>
      /\ r \in Roms /\ stage[c] = "reading"
  BY <1>1 DEF FileRead, FolderInv, FolderTypes
<1>3. CASE UNCHANGED <<stage, bytes, disturbed>>
  <2>1. Library'
    BY <1>2, <1>3, LibraryStays DEF Registering
  <2> QED
    BY <1>2, <1>3, <2>1 DEF FolderInv, FolderTypes, PartsAreKnown, CopiesAreWhole, BytesAreKnown,
       Copying, libraryVars
<1>4. CASE CallTo(c, "error") /\ UNCHANGED <<bytes, disturbed>>
  BY <1>2, <1>4, ListingAnsweredInv
<1>5. CASE /\ folder[r] \in {"part", "whole"}
           /\ CallTo(c, "opened") /\ bytes' = [bytes EXCEPT ![c] = <<r, folder[r]>>]
           /\ disturbed' = disturbed \union ({r} \intersect Copying)
  <2>1. c \in Calls /\ \A i \in Imports : i \in Calls /\ i # c
    BY FolderAssumption DEF Calls
  <2>2. /\ stage' \in [Calls -> Stages] /\ stage'[c] = "opened"
        /\ \A d \in Calls : d # c => stage'[d] = stage[d]
        /\ Registering' \subseteq Registering
    BY <1>5, <2>1, StageMoves DEF Stages
  <2>3. Copying' = Copying /\ disturbed \subseteq disturbed'
    BY <1>5, <2>1, <2>2 DEF Copying
  <2>4. Library'
    BY <1>2, <2>1, <2>2, <2>3, LibraryStays
  <2>5. PartsAreKnown' /\ CopiesAreWhole'
    BY <1>2, <2>1, <2>2, <2>3 DEF FolderInv, PartsAreKnown, CopiesAreWhole
  <2>6. bytes' \in [Listings -> {NoBytes} \union (Roms \X {"part", "whole"})]
    BY <1>2, <1>5 DEF FolderInv, FolderTypes
  <2>7. bytes'[c] = <<r, folder[r]>> /\ \A d \in Listings : d # c => bytes'[d] = bytes[d]
    BY <1>5 DEF FolderInv, FolderTypes
  <2>8. folder[r] = "whole" \/ r \in disturbed'
    BY <1>2, <1>5 DEF FolderInv, PartsAreKnown
  <2>9. BytesAreKnown'
    BY <1>2, <2>2, <2>3, <2>7, <2>8 DEF FolderInv, BytesAreKnown, Calls
  <2> QED
    BY <1>2, <2>2, <2>4, <2>5, <2>6, <2>9 DEF FolderInv, FolderTypes, libraryVars
<1> QED
  BY <1>1, <1>3, <1>4, <1>5

LEMMA FileIsOpened ==
  ASSUME FolderInv, NEW c \in Listings, FileOpened(c)
  PROVE  FolderInv'
<1>1. /\ c \in Calls /\ stage[c] = "opened" /\ c \notin Registering
      /\ UNCHANGED <<folder, found, bytes, disturbed>>
  BY DEF FileOpened, Calls, Registering, listingVars
<1>2. CASE CallTo(c, "reading") /\ UNCHANGED libraryVars
  BY <1>1, <1>2, ListingAnsweredInv DEF FolderInv, FolderTypes
<1>3. CASE CallTo(c, "registering") /\ ReadToAdd(c)
  <2>1. /\ Library' /\ games' = games
        /\ snapshot' \in [Calls -> SUBSET LibraryEntry]
    BY <1>1, <1>3, LibraryIsRead
  <2> QED
    BY <1>1, <1>3, <2>1, ListingMoves DEF FolderInv, FolderTypes, Stages
<1> QED
  BY <1>2, <1>3 DEF FileOpened

LEMMA FileIsRegistered ==
  ASSUME FolderInv, NEW c \in Listings, FileRegistered(c)
  PROVE  FolderInv'
<1>1. /\ c \in Calls /\ c \notin Imports /\ stage[c] = "registering" /\ c \in Registering
      /\ CallTo(c, "reading") /\ UNCHANGED <<folder, found, disturbed>>
      /\ bytes' = [bytes EXCEPT ![c] = NoBytes]
  BY FolderAssumption DEF FileRegistered, Calls, Registering
<1>2. /\ folder' \in [Roms -> Contents] /\ stage' \in [Calls -> Stages]
      /\ bytes' \in [Listings -> {NoBytes} \union (Roms \X {"part", "whole"})]
      /\ PartsAreKnown' /\ CopiesAreWhole' /\ BytesAreKnown'
  BY <1>1, ListingMoves DEF Stages
<1>3. CASE UNCHANGED libraryVars
  <2>1. Registering' \subseteq Registering /\ \A j \in Imports : stage'[j] = "ok" => stage[j] = "ok"
    BY <1>1, StageMoves DEF Stages, Calls
  <2>2. Library'
    BY <1>1, <1>3, <2>1, LibraryStays
  <2> QED
    BY <1>1, <1>2, <1>3, <2>2 DEF FolderInv, FolderTypes, libraryVars
<1>4. CASE WriteAdded(c, bytes[c][1], bytes[c][2] = "whole")
  <2>1. bytes[c][1] \in Roms /\ (bytes[c][2] = "whole" \/ bytes[c][1] \in disturbed)
    BY <1>1 DEF FolderInv, BytesAreKnown
  <2>2. (bytes[c][2] = "whole") \in BOOLEAN
    OBVIOUS
  <2>3. /\ Library' /\ games' \subseteq LibraryEntry
        /\ snapshot' \in [Calls -> SUBSET LibraryEntry]
    BY <1>1, <1>4, <2>1, <2>2, LibraryIsWritten
  <2> QED
    BY <1>1, <1>2, <2>3 DEF FolderInv, FolderTypes
<1> QED
  BY <1>3, <1>4 DEF FileRegistered

LEMMA Restarted ==
  ASSUME FolderInv, Restart
  PROVE  FolderInv'
<1>1. \A c \in Calls :
        stage'[c] = IF stage[c] \in {"idle", "ok", "cancelled", "error"} THEN stage[c] ELSE "lost"
  BY DEF Restart
<1>2. stage' \in [Calls -> Stages]
  BY DEF Restart, FolderInv, FolderTypes, Stages
<1>3. /\ disturbed' = disturbed \union Copying
      /\ UNCHANGED <<folder, libraryVars, found, bytes>>
  BY DEF Restart, listingVars
<1>4. Registering' = {}
  BY <1>1 DEF Registering
<1>5. \A i \in Imports : i \in Calls /\ (stage'[i] = "ok" => stage[i] = "ok")
  BY <1>1 DEF Calls
<1>6. Library'
  BY <1>3, <1>4, <1>5, LibraryStays
<1>7. PartsAreKnown'
  BY <1>3 DEF FolderInv, PartsAreKnown
<1>8. CopiesAreWhole' /\ BytesAreKnown'
  BY <1>1 DEF CopiesAreWhole, BytesAreKnown, Calls
<1> QED
  BY <1>2, <1>3, <1>6, <1>7, <1>8 DEF FolderInv, FolderTypes, libraryVars
-----------------------------------------------------------------------------
LEMMA FolderInductive == FolderInv /\ [FolderNext]_folderVars => FolderInv'
<1> SUFFICES ASSUME FolderInv, [FolderNext]_folderVars PROVE FolderInv'
  OBVIOUS
<1>1. ASSUME NEW i \in Imports, BeginImport(i) PROVE FolderInv'
  BY <1>1, ImportAnswered DEF BeginImport
<1>2. ASSUME NEW c \in Listings,
             BeginListing(c) \/ LibraryRead(c) \/ NamesRead(c) \/ Synchronized(c)
               \/ ListingAnswered(c)
      PROVE  FolderInv'
  <2>1. PICK s \in {"knowing", "naming", "reading", "listing", "ok", "error"} : CallTo(c, s)
    BY <1>2 DEF BeginListing, LibraryRead, NamesRead, Synchronized, ListingAnswered
  <2>2. UNCHANGED <<folder, libraryVars, bytes, disturbed>>
    BY <1>2 DEF BeginListing, LibraryRead, NamesRead, Synchronized, ListingAnswered, listingVars
  <2>3. \/ found' = found
        \/ found' = [found EXCEPT ![c] = {r \in Roms : folder[r] # "absent"} \ known[c]]
    BY <1>2 DEF BeginListing, LibraryRead, NamesRead, Synchronized, ListingAnswered, listingVars
  <2>4. found' \in [Listings -> SUBSET Roms]
    BY <2>3 DEF FolderInv, FolderTypes
  <2> QED
    BY <2>1, <2>2, <2>4, ListingAnsweredInv
<1>3. CASE UNCHANGED folderVars
  <2>1. Library'
    BY <1>3, LibraryStays DEF folderVars, Registering
  <2> QED
    BY <1>3, <2>1 DEF folderVars, libraryVars, listingVars, FolderInv, FolderTypes, PartsAreKnown,
       CopiesAreWhole, BytesAreKnown, Copying
<1> QED
  BY <1>1, <1>2, <1>3, FileChosen, FileCopied, ImportAdded, FileIsRead, FileIsOpened,
     FileIsRegistered, Restarted DEF FolderNext, FolderGoesOn

LEMMA FolderInvariance == FolderSpec => []FolderInv
BY FolderInitInductive, FolderInductive, PTL DEF FolderSpec

(* However imports and listings overlap, whatever fails and whenever the   *)
(* program ends (importGame, synchronizeRomDirectory): an import that was  *)
(* answered has its whole game in the library, unless two adds overlapped, *)
(* and a game is made from part of its file only if that was disturbed.    *)
THEOREM GamesHaveTheirFiles == FolderSpec => []GamesAreWhole
<1>1. FolderInv => GamesAreWhole
  BY DEF FolderInv, Library, ListsAreKnown, AnswersHold, IsKnown, GamesAreWhole
<1> QED
  BY <1>1, FolderInvariance, PTL

-----------------------------------------------------------------------------
(***************************************************************************)
(* GameLaunch.  While no two launches are in the host at once, main's      *)
(* console is the one of the launch that is (AloneInHost).                 *)
(***************************************************************************)
InHost == {"stopping", "loading", "launching"}

LaunchRecord ==
  [at : {"idle", "reading", "choosing", "stopping", "loading", "launching",
         "ok", "offered", "error"},
   game : Games \union {NoneYet}, mode : Modes, found : BOOLEAN]

Launched == launch \in [Launches -> LaunchRecord]

AloneInHost ==
  ~launchesOverlapped =>
    \A c \in Launches : launch[c].at \in InHost =>
      /\ activeSession = ConsoleOf[launch[c].game]
      /\ \A d \in Launches : launch[d].at \in InHost => c = d

LaunchInv == Launched /\ AloneInHost /\ InputIsForTheSession

LEMMA LaunchInitInductive == LaunchInit => LaunchInv
<1> SUFFICES ASSUME LaunchInit PROVE LaunchInv
  OBVIOUS
<1>1. Launched
  BY DEF LaunchInit, Launched, LaunchRecord, NotCalled, Modes
<1>2. AloneInHost
  BY DEF LaunchInit, AloneInHost, NotCalled, InHost
<1>3. InputIsForTheSession
  BY DEF LaunchInit, InputIsForTheSession, NoSession
<1> QED
  BY <1>1, <1>2, <1>3 DEF LaunchInv

LEMMA HostingIsInHost == Hosting = {c \in Launches : launch[c].at \in InHost}
BY DEF Hosting, InHost

(* A launch that is answered, or goes on in front of the host. *)
LEMMA OutsideTheHost ==
  ASSUME LaunchInv, NEW c \in Launches, NEW r \in LaunchRecord,
         r.at \notin InHost, launch[c].at \notin InHost,
         launch' = [launch EXCEPT ![c] = r],
         UNCHANGED <<activeSession, hostVars, launchesOverlapped>>
  PROVE  LaunchInv'
<1>1. Launched'
  BY DEF LaunchInv, Launched
<1>2. \A d \in Launches : launch'[d].at \in InHost =>
        d # c /\ launch'[d] = launch[d] /\ launch[d].at \in InHost
  BY DEF LaunchInv, Launched
<1>3. \A d \in Launches : launch[d].at \in InHost => launch'[d].at \in InHost
  BY DEF LaunchInv, Launched
<1>4. AloneInHost'
  BY <1>2 DEF LaunchInv, AloneInHost
<1>5. Hosting' = Hosting
  BY <1>2, <1>3 DEF Hosting, InHost
<1>6. InputIsForTheSession'
  BY <1>5 DEF LaunchInv, InputIsForTheSession, hostVars
<1> QED
  BY <1>1, <1>4, <1>6 DEF LaunchInv

(* A launch comes to the host. *)
LEMMA ComesToTheHost ==
  ASSUME LaunchInv, NEW c \in Launches, launch[c].at \notin InHost, ToHost(c)
  PROVE  LaunchInv'
<1>1. PICK s \in {"stopping", "loading"} : launch' = [launch EXCEPT ![c].at = s]
  BY DEF ToHost, LaunchAt
<1>2. launch[c] \in LaunchRecord
  BY DEF LaunchInv, Launched
<1>3. /\ launch'[c].at = s /\ launch'[c].game = launch[c].game
      /\ launch'[c].mode = launch[c].mode /\ launch'[c].found = launch[c].found
      /\ \A d \in Launches \ {c} : launch'[d] = launch[d]
  BY <1>1, <1>2 DEF LaunchInv, Launched, LaunchRecord
<1>4. Launched'
  BY <1>1, <1>2 DEF LaunchInv, Launched, LaunchRecord
<1>6. c \in Hosting'
  BY <1>1, <1>3 DEF Hosting
<1>7. AloneInHost'
  <2> SUFFICES ASSUME ~launchesOverlapped' PROVE AloneInHost'
    BY DEF AloneInHost
  <2>1. Hosting = {}
    BY DEF ToHost
  <2>2. \A d \in Launches : launch'[d].at \in InHost => d = c
    BY <1>3, <2>1, HostingIsInHost
  <2> QED
    BY <2>2, <1>3 DEF AloneInHost, ToHost, Game
<1>8. InputIsForTheSession'
  BY <1>6 DEF LaunchInv, ToHost, InputIsForTheSession
<1> QED
  BY <1>4, <1>7, <1>8 DEF LaunchInv

(* A launch goes on in the host. *)
LEMMA GoesOnInTheHost ==
  ASSUME LaunchInv, NEW c \in Launches, launch[c].at \in InHost,
         NEW s \in {"loading", "launching"}, LaunchAt(c, s),
         UNCHANGED <<activeSession, launchesOverlapped>>,
         held' = held \/ held' = NoSession
  PROVE  LaunchInv'
<1>1. launch[c] \in LaunchRecord
  BY DEF LaunchInv, Launched
<1>2. /\ launch'[c].at = s /\ launch'[c].game = launch[c].game
      /\ launch'[c].mode = launch[c].mode /\ launch'[c].found = launch[c].found
      /\ \A d \in Launches \ {c} : launch'[d] = launch[d]
  BY <1>1 DEF LaunchInv, Launched, LaunchRecord, LaunchAt
<1>3. Launched'
  BY <1>1 DEF LaunchInv, Launched, LaunchRecord, LaunchAt
<1>5. AloneInHost'
  BY <1>2 DEF LaunchInv, AloneInHost
<1>6. c \in Hosting'
  BY <1>2 DEF Hosting
<1>7. InputIsForTheSession'
  BY <1>6 DEF LaunchInv, InputIsForTheSession, NoSession
<1> QED
  BY <1>3, <1>5, <1>7 DEF LaunchInv

(* A launch leaves the host: the others that are there stay. *)
LEMMA LeavesTheHost ==
  ASSUME LaunchInv, NEW c \in Launches, launch[c].at \in InHost,
         NEW s \in {"ok", "error"}, LaunchAt(c, s),
         UNCHANGED <<activeSession, launchesOverlapped>>
  PROVE  /\ Launched' /\ AloneInHost'
         /\ ~launchesOverlapped => activeSession' = ConsoleOf[launch[c].game]
<1>1. launch[c] \in LaunchRecord
  BY DEF LaunchInv, Launched
<1>2. launch'[c].at = s /\ \A d \in Launches \ {c} : launch'[d] = launch[d]
  BY <1>1 DEF LaunchInv, Launched, LaunchRecord, LaunchAt
<1>3. Launched'
  BY <1>1 DEF LaunchInv, Launched, LaunchRecord, LaunchAt
<1>4. s \notin InHost
  BY DEF InHost
<1>5. AloneInHost'
  BY <1>2, <1>4 DEF LaunchInv, AloneInHost
<1> QED
  BY <1>3, <1>5 DEF LaunchInv, AloneInHost

(* A launch fails in the host: beside a session, that is remembered. *)
LEMMA FailsInTheHost ==
  ASSUME LaunchInv, NEW c \in Launches, launch[c].at \in InHost, Fail(c),
         UNCHANGED <<activeSession, launchesOverlapped>>
  PROVE  LaunchInv'
<1>1. Launched' /\ AloneInHost'
  BY LeavesTheHost DEF Fail
<1>2. held' = held /\ (held # NoSession => stuck')
  BY DEF Fail
<1>3. InputIsForTheSession'
  BY <1>2 DEF LaunchInv, InputIsForTheSession
<1> QED
  BY <1>1, <1>3 DEF LaunchInv

LEMMA LaunchInductive == LaunchInv /\ [LaunchNext]_launchVars => LaunchInv'
<1> SUFFICES ASSUME LaunchInv, [LaunchNext]_launchVars PROVE LaunchInv'
  OBVIOUS
<1>1. ASSUME NEW c \in Launches, BeginLaunch(c) PROVE LaunchInv'
  <2>1. PICK g \in Games, m \in Modes, s \in {"reading", "error"} :
          launch' = [launch EXCEPT ![c] = [at |-> s, game |-> g, mode |-> m, found |-> FALSE]]
    BY <1>1 DEF BeginLaunch
  <2>2. [at |-> s, game |-> g, mode |-> m, found |-> FALSE] \in LaunchRecord
    BY DEF LaunchRecord
  <2>3. launch[c].at \notin InHost /\ s \notin InHost
    BY <1>1 DEF BeginLaunch, InHost
  <2> QED
    BY <1>1, <2>1, <2>2, <2>3, OutsideTheHost DEF BeginLaunch
<1>2. ASSUME NEW c \in Launches, ReadAutosave(c) PROVE LaunchInv'
  <2>1. launch[c] \in LaunchRecord /\ launch[c].at \notin InHost
    BY <1>2 DEF LaunchInv, Launched, ReadAutosave, InHost
  <2> DEFINE own == Game(c) \in autosaveEnabled /\ autosave[Game(c)] = "own"
  <2>2. \/ launch' = [launch EXCEPT ![c] = [launch[c] EXCEPT !.at = "error"]]
        \/ launch' = [launch EXCEPT ![c] =
                        [launch[c] EXCEPT !.at = "choosing", !.found = own]]
    BY <1>2, <2>1 DEF ReadAutosave, LaunchAt, LaunchInv, Launched, LaunchRecord
  <2>3. /\ [launch[c] EXCEPT !.at = "error"] \in LaunchRecord
        /\ [launch[c] EXCEPT !.at = "error"].at \notin InHost
    BY <2>1 DEF LaunchRecord, InHost
  <2>4. own \in BOOLEAN
    OBVIOUS
  <2>5. /\ [launch[c] EXCEPT !.at = "choosing", !.found = own] \in LaunchRecord
        /\ [launch[c] EXCEPT !.at = "choosing", !.found = own].at \notin InHost
    BY <2>1, <2>4 DEF LaunchRecord, InHost
  <2>6. UNCHANGED <<activeSession, hostVars, launchesOverlapped>>
    BY <1>2 DEF ReadAutosave
  <2> HIDE DEF own
  <2> QED
    BY <2>1, <2>2, <2>3, <2>5, <2>6, OutsideTheHost
<1>3. ASSUME NEW c \in Launches, Choose(c) PROVE LaunchInv'
  <2>1. launch[c] \in LaunchRecord /\ launch[c].at \notin InHost
    BY <1>3 DEF LaunchInv, Launched, Choose, InHost
  <2>2. CASE ToHost(c)
    BY <2>1, <2>2, ComesToTheHost
  <2>3. ASSUME NEW s \in {"offered", "error"}, LaunchAt(c, s),
               UNCHANGED <<activeSession, hostVars, launchesOverlapped>>
        PROVE  LaunchInv'
    <3>1. launch' = [launch EXCEPT ![c] = [launch[c] EXCEPT !.at = s]]
      BY <2>3, <2>1 DEF LaunchAt, LaunchInv, Launched, LaunchRecord
    <3>2. /\ [launch[c] EXCEPT !.at = s] \in LaunchRecord
          /\ [launch[c] EXCEPT !.at = s].at \notin InHost
      BY <2>1 DEF LaunchRecord, InHost
    <3> QED
      BY <2>1, <2>3, <3>1, <3>2, OutsideTheHost
  <2> QED
    BY <1>3, <2>2, <2>3 DEF Choose
<1>4. ASSUME NEW c \in Launches, StartSession(c) PROVE LaunchInv'
  <2>1. launch[c].at \notin InHost
    BY <1>4 DEF StartSession, InHost
  <2> QED
    BY <1>4, <2>1, ComesToTheHost DEF StartSession
<1>5. ASSUME NEW c \in Launches, HostStopped(c) PROVE LaunchInv'
  <2>1. launch[c].at \in InHost
    BY <1>5 DEF HostStopped, InHost
  <2>2. UNCHANGED <<activeSession, launchesOverlapped>>
    BY <1>5 DEF HostStopped
  <2> QED
    BY <1>5, <2>1, <2>2, GoesOnInTheHost, FailsInTheHost DEF HostStopped
<1>6. ASSUME NEW c \in Launches, HostLoaded(c) PROVE LaunchInv'
  <2>1. launch[c].at \in InHost
    BY <1>6 DEF HostLoaded, InHost
  <2>2. UNCHANGED <<activeSession, launchesOverlapped>>
    BY <1>6 DEF HostLoaded
  <2> QED
    BY <1>6, <2>1, <2>2, GoesOnInTheHost, FailsInTheHost DEF HostLoaded
<1>7. ASSUME NEW c \in Launches, HostLaunched(c) PROVE LaunchInv'
  <2>1. launch[c].at \in InHost
    BY <1>7 DEF HostLaunched, InHost
  <2>2. UNCHANGED <<activeSession, launchesOverlapped>>
    BY <1>7 DEF HostLaunched
  <2>3. CASE Fail(c)
    BY <2>1, <2>2, <2>3, FailsInTheHost
  <2>4. ASSUME LaunchAt(c, "ok"),
               held' = [game |-> Game(c), library |-> Mode(c) # "file"]
        PROVE  LaunchInv'
    <3>1. /\ Launched' /\ AloneInHost'
          /\ ~launchesOverlapped => activeSession' = ConsoleOf[launch[c].game]
      BY <2>1, <2>2, <2>4, LeavesTheHost
    <3>2. held'.game = launch[c].game
      BY <2>4 DEF Game
    <3>3. InputIsForTheSession'
      BY <3>1, <3>2, <2>2 DEF InputIsForTheSession
    <3> QED
      BY <3>1, <3>3 DEF LaunchInv
  <2> QED
    BY <1>7, <2>3, <2>4 DEF HostLaunched
<1>8. CASE HeldEnds
  BY <1>8 DEF HeldEnds, LaunchInv, Launched, AloneInHost, InputIsForTheSession, NoSession
<1>9. CASE Autosaved \/ UNCHANGED launchVars
  BY <1>9 DEF Autosaved, launchVars, hostVars, LaunchInv, Launched, AloneInHost,
              InputIsForTheSession, Hosting
<1> QED
  BY <1>1, <1>2, <1>3, <1>4, <1>5, <1>6, <1>7, <1>8, <1>9 DEF LaunchNext, LaunchGoesOn
-----------------------------------------------------------------------------
LEMMA LaunchInvariance == LaunchSpec => []LaunchInv
BY LaunchInitInductive, LaunchInductive, PTL DEF LaunchSpec

(* main takes the input for the console of the session that is held, as    *)
(* long as launches come one at a time and none fails beside a session     *)
(* (setSessionInput).                                                      *)
THEOREM InputFollowsTheSession == LaunchSpec => []InputIsForTheSession
<1>1. LaunchInv => InputIsForTheSession
  BY DEF LaunchInv
<1> QED
  BY <1>1, LaunchInvariance, PTL
-----------------------------------------------------------------------------
(* What a queue of saves does when one joins it and when its first is done. *)
LEMMA Joins ==
  ASSUME NEW S, NEW q \in Seq(S), NEW e \in S
  PROVE  /\ Append(q, e) \in Seq(S) /\ Append(q, e) # <<>>
         /\ Len(Append(q, e)) \in 1..Len(Append(q, e))
         /\ Append(q, e)[Len(Append(q, e))] = e
<1>1. /\ Append(q, e) \in Seq(S) /\ Append(q, e) # <<>> /\ Len(Append(q, e)) = Len(q) + 1
      /\ Append(q, e)[Len(q) + 1] = e
  BY AppendProperties
<1> QED
  BY <1>1, LenProperties

LEMMA Leaves ==
  ASSUME NEW S, NEW q \in Seq(S), q # <<>>
  PROVE  /\ Tail(q) \in Seq(S) /\ Head(q) \in S /\ Head(q) = q[1]
         /\ Tail(q) = <<>> => Head(q) = q[Len(q)]
         /\ Tail(q) # <<>> => Tail(q)[Len(Tail(q))] = q[Len(q)]
<1>1. /\ Tail(q) \in Seq(S) /\ Head(q) \in S /\ Len(Tail(q)) = Len(q) - 1
      /\ \A i \in 1..Len(Tail(q)) : Tail(q)[i] = q[i + 1]
      /\ Len(q) \in Nat \ {0}
  BY HeadTailProperties, EmptySeq
<1>2. Head(q) = q[1]
  OBVIOUS
<1>3. Tail(q) = <<>> => Len(q) = 1
  BY <1>1, EmptySeq
<1>4. Tail(q) # <<>> => Len(Tail(q)) \in 1..Len(Tail(q))
  BY <1>1, EmptySeq
<1> QED
  BY <1>1, <1>2, <1>3, <1>4
-----------------------------------------------------------------------------
(***************************************************************************)
(* InputSetup.  Every profile there is, shown, stored, on its way to the   *)
(* disk or back, is valid (ProfilesAreValid); a button that was captured   *)
(* is not the reserved one (CapturesAreFree); and unless a load met a save *)
(* or a save failed, the newest save is of the profile that is shown, and  *)
(* what a load has read is still on disk (NewestIsShown).                  *)
(***************************************************************************)
OlderActions == ToSet(EntriesOf["family"])

Profile == [device : Devices,
            bound : [Devices -> [Actions -> Inputs] \union [OlderActions -> Inputs]],
            advanced : [Devices -> [Commands -> Inputs]]]

ValidProfile == {p \in Profile : IsValid(p)}

ProfilesAreValid ==
  /\ profile \in ValidProfile /\ stored \in ValidProfile
  /\ saving \in Seq(ValidProfile)
  /\ loading \in [at : {"none", "asked", "read"}, system : Systems \union {"none"},
                  found : ValidProfile \union {<<>>}]
  /\ loading.at = "read" => loading.found \in ValidProfile
  /\ crossed \in BOOLEAN

CapturesAreFree ==
  /\ captured \in [kind : {"none", "keyboard", "gamepad"}, input : Inputs]
  /\ captured.kind = "none" => captured = NotCaptured
  /\ captured.kind = "gamepad" => captured.input # Reserved

NewestIsShown ==
  ~crossed =>
    /\ saving = <<>> => profile = stored
    /\ saving # <<>> => saving[Len(saving)] = profile
    /\ loading.at = "read" => loading.found = stored

SetupInv == ProfilesAreValid /\ CapturesAreFree /\ NewestIsShown

(* A conflict swaps two inputs, and so keeps all of them apart. *)
LEMMA RebindIsUnique ==
  ASSUME NEW S, NEW b \in [S -> Inputs], NEW t, NEW input \in Inputs, NEW d,
         Unique(b, d), d # Keyboard => input # Reserved
  PROVE  Rebind(b, t, input) \in [S -> Inputs] /\ Unique(Rebind(b, t, input), d)
<1>1. CASE t \notin DOMAIN b \/ b[t] = input
  BY <1>1 DEF Rebind
<1>2. CASE ~(t \notin DOMAIN b \/ b[t] = input)
  <2> DEFINE new == Rebind(b, t, input)
  <2>1. new = [s \in S |-> IF s = t THEN input ELSE IF b[s] = input THEN b[t] ELSE b[s]]
    BY <1>2 DEF Rebind
  <2>2. t \in S /\ b[t] # input
    BY <1>2
  <2> HIDE DEF new
  <2>3. new \in [S -> Inputs] /\ DOMAIN new = S /\ DOMAIN b = S
    BY <2>1, <2>2
  <2>4. ASSUME NEW s \in S, NEW u \in S, new[s] = new[u] PROVE s = u
    BY <2>1, <2>2, <2>4 DEF Unique
  <2>5. d # Keyboard => \A s \in S : new[s] # Reserved
    BY <2>1, <2>2 DEF Unique
  <2>6. Unique(new, d)
    BY <2>3, <2>4, <2>5 DEF Unique
  <2> QED
    BY <2>3, <2>6 DEF new
<1> QED
  BY <1>1, <1>2

(* Whatever row a captured input is confirmed for, the profile stays valid. *)
LEMMA BoundIsValid ==
  ASSUME NEW p \in ValidProfile, NEW t, NEW c,
         c \in [kind : {"none", "keyboard", "gamepad"}, input : Inputs],
         c.kind = "none" => c = NotCaptured, c # NotCaptured,
         c.kind = "gamepad" => c.input # Reserved
  PROVE  Bound(p, t, c) \in ValidProfile
<1> DEFINE d == IF c.kind = "keyboard" THEN Keyboard ELSE p.device
<1>1. p \in Profile /\ IsValid(p) /\ p.device \in Devices /\ c.input \in Inputs
  BY DEF ValidProfile, Profile
<1>2. CASE c.kind = "gamepad" /\ p.device = Keyboard
  BY <1>2 DEF Bound
<1>3. CASE ~(c.kind = "gamepad" /\ p.device = Keyboard)
  <2>1. d \in Devices /\ (d # Keyboard => c.kind = "gamepad")
    BY <1>1, <1>3 DEF Devices
  <2> HIDE DEF d
  <2>2. CASE t \in Commands
    <3>1. CASE d # Keyboard /\ c.input = Reserved
      BY <1>3, <2>2, <3>1 DEF Bound, d
    <3>2. CASE ~(d # Keyboard /\ c.input = Reserved)
      <4> DEFINE new == Rebind(p.advanced[d], t, c.input)
      <4>1. Bound(p, t, c) = [p EXCEPT !.advanced[d] = new]
        BY <1>3, <2>2, <3>2 DEF Bound, d
      <4>2. p.advanced[d] \in [Commands -> Inputs] /\ Unique(p.advanced[d], d)
        BY <1>1, <2>1 DEF Profile, IsValid
      <4>3. new \in [Commands -> Inputs] /\ Unique(new, d)
        BY <1>1, <3>2, <4>2, RebindIsUnique
      <4> HIDE DEF new
      <4> DEFINE q == [p EXCEPT !.advanced[d] = new]
      <4>4. /\ q \in Profile /\ q.bound = p.bound
            /\ \A e \in Devices : q.advanced[e] = IF e = d THEN new ELSE p.advanced[e]
        BY <1>1, <2>1, <4>3 DEF Profile
      <4> HIDE DEF q
      <4>5. IsValid(q)
        BY <1>1, <4>3, <4>4 DEF IsValid
      <4> QED
        BY <4>1, <4>4, <4>5 DEF ValidProfile, q
    <3> QED
      BY <3>1, <3>2
  <2>3. CASE t \notin Commands
    <3> DEFINE new == Rebind(p.bound[d], t, c.input)
    <3>1. Bound(p, t, c) = [p EXCEPT !.bound[d] = new]
      BY <1>3, <2>3 DEF Bound, d
    <3>2. PICK S \in {Actions, OlderActions} : p.bound[d] \in [S -> Inputs]
      BY <1>1, <2>1 DEF Profile
    <3>3. Unique(p.bound[d], d)
      BY <1>1, <2>1 DEF IsValid
    <3>4. new \in [S -> Inputs] /\ Unique(new, d)
      BY <1>1, <2>1, <3>2, <3>3, RebindIsUnique
    <3> HIDE DEF new
    <3> DEFINE q == [p EXCEPT !.bound[d] = new]
    <3>5. /\ q \in Profile /\ q.advanced = p.advanced
          /\ \A e \in Devices : q.bound[e] = IF e = d THEN new ELSE p.bound[e]
      BY <1>1, <2>1, <3>4 DEF Profile
    <3>6. DOMAIN new \in {Actions, ToSet(EntriesOf["family"])}
      BY <3>4 DEF OlderActions
    <3> HIDE DEF q
    <3>7. IsValid(q)
      BY <1>1, <3>4, <3>5, <3>6 DEF IsValid
    <3> QED
      BY <3>1, <3>5, <3>7 DEF ValidProfile, q
  <2> QED
    BY <2>2, <2>3
<1> QED
  BY <1>2, <1>3

(* A change is shown at once and joins the saves. *)
LEMMA Persists ==
  ASSUME SetupInv, NEW p \in ValidProfile, Persist(p), UNCHANGED <<loadVars, crossed>>
  PROVE  ProfilesAreValid' /\ NewestIsShown'
<1>1. UNCHANGED <<loading, crossed>> /\ ProfilesAreValid /\ NewestIsShown
  BY DEF SetupInv, loadVars
<1>2. CASE p = profile
  BY <1>1, <1>2 DEF Persist, profileVars, ProfilesAreValid, NewestIsShown
<1>3. CASE p # profile
  <2>1. profile' = p /\ saving' = Append(saving, p) /\ stored' = stored
    BY <1>3 DEF Persist
  <2>2. saving' \in Seq(ValidProfile) /\ saving' # <<>> /\ saving'[Len(saving')] = p
    BY <1>1, <2>1, Joins DEF ProfilesAreValid
  <2> QED
    BY <1>1, <2>1, <2>2 DEF ProfilesAreValid, NewestIsShown
<1> QED
  BY <1>2, <1>3

LEMMA SetupInitInductive == SetupInit => SetupInv
<1> SUFFICES ASSUME SetupInit PROVE SetupInv
  OBVIOUS
<1>1. PICK actions \in {Actions, OlderActions} :
        profile = [device |-> Keyboard,
                   bound |-> [d \in Devices |-> IF d = Keyboard THEN Defaults(actions)
                                                                ELSE Defaults(Actions)],
                   advanced |-> [d \in Devices |-> Defaults(Commands)]]
  BY DEF SetupInit, OlderActions
<1>2. OlderActions \subseteq Actions
  BY SetupAssumption DEF OlderActions, Actions
<1>3. ASSUME NEW S \in {Actions, OlderActions, Commands}
      PROVE  /\ Defaults(S) \in [S -> Inputs]
             /\ \A d \in Devices : Unique(Defaults(S), d)
  BY <1>2, SetupAssumption DEF Defaults, Unique
<1>4. profile \in Profile
  BY <1>1, <1>3 DEF Profile, Devices
<1>5. ASSUME NEW d \in Devices
      PROVE  /\ Unique(profile.bound[d], d)
             /\ DOMAIN profile.bound[d] \in {Actions, ToSet(EntriesOf["family"])}
             /\ Unique(profile.advanced[d], d) /\ DOMAIN profile.advanced[d] = Commands
  <2>1. profile.bound[d] = IF d = Keyboard THEN Defaults(actions) ELSE Defaults(Actions)
    BY <1>1
  <2>2. profile.advanced[d] = Defaults(Commands)
    BY <1>1
  <2> QED
    BY <1>3, <2>1, <2>2 DEF OlderActions
<1>6. profile \in ValidProfile
  BY <1>4, <1>5 DEF ValidProfile, IsValid
<1>7. /\ stored = profile /\ saving = <<>> /\ loading = NotLoading /\ captured = NotCaptured
      /\ crossed = FALSE
  BY DEF SetupInit
<1>8. ProfilesAreValid /\ NewestIsShown
  <2>1. <<>> \in Seq(ValidProfile)
    BY EmptySeq
  <2> QED
    BY <1>6, <1>7, <2>1 DEF ProfilesAreValid, NewestIsShown, NotLoading
<1>9. CapturesAreFree
  BY <1>7, SetupAssumption DEF CapturesAreFree, NotCaptured
<1> QED
  BY <1>8, <1>9 DEF SetupInv

(* The screen, while no profile changes. *)
LEMMA SetupStays ==
  ASSUME SetupInv, UNCHANGED <<profileVars, loading, crossed>>,
         captured' = captured \/ captured' = NotCaptured
  PROVE  SetupInv'
<1>1. UNCHANGED <<profile, stored, saving, loading, crossed>>
  BY DEF profileVars
<1>2. NotCaptured \in [kind : {"none", "keyboard", "gamepad"}, input : Inputs]
      /\ NotCaptured.kind = "none"
  BY SetupAssumption DEF NotCaptured
<1>3. CapturesAreFree'
  BY <1>2 DEF SetupInv, CapturesAreFree, NotCaptured
<1> QED
  BY <1>1, <1>3 DEF SetupInv, ProfilesAreValid, NewestIsShown

LEMMA Confirms ==
  ASSUME SetupInv, Confirm
  PROVE  SetupInv'
<1>1. /\ captured # NotCaptured /\ Persist(Bound(profile, Row, captured))
      /\ captured' = NotCaptured /\ UNCHANGED <<loadVars, crossed>>
  BY DEF Confirm
<1>2. Bound(profile, Row, captured) \in ValidProfile
  BY <1>1, BoundIsValid DEF SetupInv, ProfilesAreValid, CapturesAreFree
<1>3. ProfilesAreValid' /\ NewestIsShown'
  BY <1>1, <1>2, Persists
<1>4. CapturesAreFree'
  BY <1>1, SetupAssumption DEF CapturesAreFree, NotCaptured
<1> QED
  BY <1>3, <1>4 DEF SetupInv

(* Only gamepads are ever connected. *)
PadsAreKnown == pads \subseteq Pads

LEMMA PadsStayKnown == PadsAreKnown /\ [SetupNext]_setupVars => PadsAreKnown'
BY DEF PadsAreKnown, SetupNext, setupVars, loadVars, Move, ChooseDevice, Edit, Confirm, Back,
       Capture, Plug, OpenLibrary, ProfileRead, ConfigurationArrives, CapabilitiesArrive,
       ProfileSaved

LEMMA SetupInductive == SetupInv /\ PadsAreKnown /\ [SetupNext]_setupVars => SetupInv'
<1> SUFFICES ASSUME SetupInv, PadsAreKnown, [SetupNext]_setupVars PROVE SetupInv'
  OBVIOUS
<1>1. ProfilesAreValid /\ CapturesAreFree /\ NewestIsShown
  BY DEF SetupInv
<1>2. CASE Move \/ Edit \/ Back \/ Plug \/ CapabilitiesArrive
  <2>1. /\ UNCHANGED <<profileVars, loading, crossed>>
        /\ captured' = captured \/ captured' = NotCaptured
    BY <1>2 DEF Move, Edit, Back, Plug, CapabilitiesArrive, loadVars
  <2> QED
    BY <2>1, SetupStays
<1>3. CASE ChooseDevice
  <2>1. PICK d \in pads \union {Keyboard} : Persist([profile EXCEPT !.device = d])
    BY <1>3 DEF ChooseDevice
  <2>2. UNCHANGED <<loadVars, crossed, captured>>
    BY <1>3 DEF ChooseDevice
  <2>3. CASE d \in Devices
    <3> DEFINE q == [profile EXCEPT !.device = d]
    <3>1. q \in Profile /\ q.bound = profile.bound /\ q.advanced = profile.advanced
      BY <1>1, <2>3 DEF ProfilesAreValid, ValidProfile, Profile
    <3>2. q \in ValidProfile
      BY <1>1, <3>1 DEF ProfilesAreValid, ValidProfile, IsValid
    <3>3. ProfilesAreValid' /\ NewestIsShown'
      BY <2>1, <2>2, <3>2, Persists
    <3> QED
      BY <1>1, <2>2, <3>3 DEF SetupInv, CapturesAreFree
  <2> QED
    BY <2>1, <2>3 DEF Devices, PadsAreKnown
<1>4. CASE Confirm
  BY <1>4, Confirms
<1>5. CASE Capture
  <2>1. CASE Back
    <3>1. /\ UNCHANGED <<profileVars, loading, crossed>>
          /\ captured' = captured \/ captured' = NotCaptured
      BY <2>1 DEF Back, loadVars
    <3> QED
      BY <3>1, SetupStays
  <2>2. ASSUME NEW i \in Inputs, ~(i = Reserved /\ profile.device # Keyboard),
               captured' = [kind |-> KindOf(profile.device), input |-> i],
               UNCHANGED <<profileVars, loadVars, crossed>>
        PROVE  SetupInv'
    <3>1. CapturesAreFree'
      BY <2>2 DEF CapturesAreFree, KindOf
    <3>2. UNCHANGED <<profile, stored, saving, loading, crossed>>
      BY <2>2 DEF profileVars, loadVars
    <3> QED
      BY <1>1, <3>1, <3>2 DEF SetupInv, ProfilesAreValid, NewestIsShown
  <2> QED
    BY <1>5, <2>1, <2>2, Confirms DEF Capture
<1>6. ASSUME NEW s \in Systems, OpenLibrary(s) PROVE SetupInv'
  <2>1. /\ loading' = [at |-> "asked", system |-> s, found |-> <<>>]
        /\ crossed' = (crossed \/ saving # <<>>)
        /\ UNCHANGED <<profile, stored, saving, captured>>
    BY <1>6 DEF OpenLibrary, profileVars
  <2> QED
    BY <1>1, <2>1 DEF SetupInv, ProfilesAreValid, CapturesAreFree, NewestIsShown
<1>7. CASE ProfileRead
  <2>1. /\ loading' = [loading EXCEPT !.at = "read", !.found = stored]
        /\ UNCHANGED <<profile, stored, saving, captured, crossed>>
    BY <1>7 DEF ProfileRead, profileVars
  <2>2. /\ loading' \in [at : {"none", "asked", "read"}, system : Systems \union {"none"},
                         found : ValidProfile \union {<<>>}]
        /\ loading'.found = stored
    BY <1>1, <2>1 DEF ProfilesAreValid
  <2> QED
    BY <1>1, <2>1, <2>2 DEF SetupInv, ProfilesAreValid, CapturesAreFree, NewestIsShown
<1>8. CASE ConfigurationArrives
  <2>1. /\ loading.at = "read" /\ loading' = NotLoading /\ profile' = loading.found
        /\ crossed' = (crossed \/ saving # <<>>) /\ UNCHANGED <<stored, saving, captured>>
    BY <1>8 DEF ConfigurationArrives
  <2>2. /\ loading' \in [at : {"none", "asked", "read"}, system : Systems \union {"none"},
                         found : ValidProfile \union {<<>>}]
        /\ loading'.at = "none"
    BY <2>1 DEF NotLoading
  <2> QED
    BY <1>1, <2>1, <2>2 DEF SetupInv, ProfilesAreValid, CapturesAreFree, NewestIsShown
<1>9. CASE ProfileSaved
  <2>1. /\ saving # <<>> /\ saving' = Tail(saving) /\ UNCHANGED <<profile, loading, captured>>
        /\ \/ /\ stored' = Head(saving)
              /\ crossed' = (crossed \/ loading.at # "none")
           \/ stored' = stored /\ crossed' = TRUE
    BY <1>9 DEF ProfileSaved, loadVars
  <2>2. /\ Tail(saving) \in Seq(ValidProfile) /\ Head(saving) \in ValidProfile
        /\ Tail(saving) = <<>> => Head(saving) = saving[Len(saving)]
        /\ Tail(saving) # <<>> => Tail(saving)[Len(Tail(saving))] = saving[Len(saving)]
    BY <1>1, <2>1, Leaves DEF ProfilesAreValid
  <2>3. ProfilesAreValid' /\ CapturesAreFree'
    BY <1>1, <2>1, <2>2 DEF ProfilesAreValid, CapturesAreFree
  <2>4. NewestIsShown'
    BY <1>1, <2>1, <2>2 DEF ProfilesAreValid, NewestIsShown
  <2> QED
    BY <2>3, <2>4 DEF SetupInv
<1>10. CASE UNCHANGED setupVars
  <2>1. UNCHANGED <<profileVars, loading, crossed, captured>>
    BY <1>10 DEF setupVars, loadVars
  <2> QED
    BY <2>1, SetupStays
<1> QED
  BY <1>2, <1>3, <1>4, <1>5, <1>6, <1>7, <1>8, <1>9, <1>10 DEF SetupNext

LEMMA SetupInvariance == SetupSpec => [](SetupInv /\ PadsAreKnown)
<1>1. SetupInit => SetupInv /\ PadsAreKnown
  BY SetupInitInductive DEF SetupInit, PadsAreKnown
<1>2. SetupInv /\ PadsAreKnown /\ [SetupNext]_setupVars => (SetupInv /\ PadsAreKnown)'
  BY SetupInductive, PadsStayKnown
<1> QED
  BY <1>1, <1>2, PTL DEF SetupSpec

(* No sequence of changes, on whatever devices and with whatever answers   *)
(* in between, makes a profile that main refuses, and once nothing is      *)
(* under way the shown profile is the stored one (persistProfile,          *)
(* validateInputProfile): for any pads, inputs, systems and their actions. *)
THEOREM ProfileStaysValid == SetupSpec => []ProfileIsKept
<1>1. SetupInv => ProfileIsKept
  BY DEF SetupInv, ProfilesAreValid, ValidProfile, NewestIsShown, ProfileIsKept
<1> QED
  BY <1>1, SetupInvariance, PTL
-----------------------------------------------------------------------------
(***************************************************************************)
(* Preferences.  A migration is under way exactly while the window awaits  *)
(* one, and is the last of the saves (MigrationIsLast); and unless         *)
(* something failed or a load met a save, the window that is ready shows   *)
(* the value of the newest save, or what is on disk (ShownIsNewest).       *)
(***************************************************************************)
Saved == [value : Preference, by : {"change", "migration", "gone"}]

MigrationIsLast ==
  /\ startup = "migrating" => prefSaves # <<>>
  /\ \A i \in DOMAIN prefSaves :
       prefSaves[i].by = "migration" <=> startup = "migrating" /\ i = Len(prefSaves)

ShownIsNewest ==
  ~excused /\ startup = "ready" =>
    /\ prefSaves = <<>> => onDisk = <<preferences>>
    /\ prefSaves # <<>> => prefSaves[Len(prefSaves)].value = preferences

SomeAreLeft == hadSome => onDisk # <<>> \/ legacy # <<>>

PreferencesInv == PreferencesTypeOK /\ MigrationIsLast /\ ShownIsNewest /\ SomeAreLeft

LEMMA AnEntryMoves ==
  ASSUME NEW q \in Seq(Saved), NEW e \in Saved
  PROVE  /\ Append(q, e) \in Seq(Saved) /\ Append(q, e) # <<>>
         /\ Len(Append(q, e)) = Len(q) + 1 /\ DOMAIN Append(q, e) = 1..Len(q) + 1
         /\ Append(q, e)[Len(q) + 1] = e
         /\ \A i \in 1..Len(q) : Append(q, e)[i] = q[i]
         /\ DOMAIN q = 1..Len(q) /\ Len(q) \in Nat
<1>1. /\ Append(q, e) \in Seq(Saved) /\ Append(q, e) # <<>> /\ Len(Append(q, e)) = Len(q) + 1
      /\ Append(q, e)[Len(q) + 1] = e /\ \A i \in 1..Len(q) : Append(q, e)[i] = q[i]
  BY AppendProperties
<1> QED
  BY <1>1, LenProperties

LEMMA AnEntryLeaves ==
  ASSUME NEW q \in Seq(Saved), q # <<>>
  PROVE  /\ Len(Tail(q)) = Len(q) - 1 /\ DOMAIN Tail(q) = 1..Len(q) - 1
         /\ \A i \in 1..Len(q) - 1 : Tail(q)[i] = q[i + 1]
         /\ DOMAIN q = 1..Len(q) /\ Len(q) \in Nat \ {0}
         /\ Tail(q) = <<>> <=> Len(q) = 1
<1>1. /\ Tail(q) \in Seq(Saved) /\ Len(Tail(q)) = Len(q) - 1
      /\ \A i \in 1..Len(Tail(q)) : Tail(q)[i] = q[i + 1]
      /\ Len(q) \in Nat \ {0}
  BY HeadTailProperties, EmptySeq
<1>2. Tail(q) = <<>> <=> Len(Tail(q)) = 0
  BY <1>1, EmptySeq
<1> QED
  BY <1>1, <1>2, LenProperties

LEMMA MigratedIsValid == PreferencesTypeOK => Migrated \in Preference
BY PreferencesAssumption DEF PreferencesTypeOK, Migrated

LEMMA PreferencesInitInductive == PreferencesInit => PreferencesInv
<1> SUFFICES ASSUME PreferencesInit PROVE PreferencesInv
  OBVIOUS
<1>1. PICK p \in {Default, [Default EXCEPT !.muted = TRUE, !.volume = MaxVolume]} :
        onDisk \in {<<>>, <<p>>} /\ legacy \in {<<>>, <<p>>}
  BY DEF PreferencesInit
<1>2. p \in Preference
  <2> DEFINE d == [Default EXCEPT !.muted = TRUE]
  <2>1. d \in Preference
    BY PreferencesAssumption DEF Preference
  <2> HIDE DEF d
  <2>2. [d EXCEPT !.volume = MaxVolume] \in Preference
    BY <2>1, PreferencesAssumption DEF Preference
  <2>3. [Default EXCEPT !.muted = TRUE, !.volume = MaxVolume] = [d EXCEPT !.volume = MaxVolume]
    BY DEF d
  <2> QED
    BY <1>1, <2>2, <2>3, PreferencesAssumption
<1>3. /\ preferences = Default /\ startup = "asked" /\ prefSaves = <<>> /\ row = 1
      /\ warned = FALSE /\ hadSome = (onDisk # <<>> \/ legacy # <<>>)
  BY DEF PreferencesInit
<1>4. <<>> \in Seq(Saved) /\ DOMAIN <<>> = {}
  BY EmptySeq
<1>5. PreferencesTypeOK
  <2>1. /\ onDisk \in {<<>>} \union {<<q>> : q \in Preference}
        /\ legacy \in {<<>>} \union {<<q>> : q \in Preference}
    BY <1>1, <1>2
  <2>2. prefSaves \in Seq([value : Preference, by : {"change", "migration", "gone"}])
    BY <1>3, <1>4 DEF Saved
  <2>3. preferences \in Preference /\ row \in 1..5
    BY <1>3, PreferencesAssumption
  <2>4. startup \in {"asked", "migrating", "ready"} /\ warned \in BOOLEAN
    BY <1>3
  <2> QED
    BY <2>1, <2>2, <2>3, <2>4 DEF PreferencesTypeOK
<1> QED
  BY <1>3, <1>4, <1>5 DEF PreferencesInv, MigrationIsLast, ShownIsNewest, SomeAreLeft

LEMMA Loads ==
  ASSUME PreferencesInv, LoadPreferences
  PROVE  PreferencesInv'
<1>1. /\ PreferencesTypeOK /\ MigrationIsLast /\ SomeAreLeft /\ startup = "asked"
      /\ UNCHANGED <<onDisk, legacy, row, hadSome>>
  BY DEF PreferencesInv, LoadPreferences
<1>2. Migrated \in Preference
  BY <1>1, MigratedIsValid
<1>3. CASE /\ onDisk # <<>> /\ preferences' = onDisk[1] /\ startup' = "ready"
           /\ excused' = (excused \/ prefSaves # <<>>) /\ UNCHANGED <<prefSaves, warned>>
  <2>1. PICK p \in Preference : onDisk = <<p>>
    BY <1>1, <1>3 DEF PreferencesTypeOK
  <2>2. PreferencesTypeOK'
    BY <1>1, <1>3, <2>1 DEF PreferencesTypeOK
  <2>3. ShownIsNewest'
    BY <1>1, <1>3, <2>1 DEF ShownIsNewest
  <2> QED
    BY <1>1, <1>3, <2>2, <2>3 DEF PreferencesInv, MigrationIsLast, SomeAreLeft
<1>4. CASE /\ onDisk = <<>> /\ startup' = "migrating"
           /\ prefSaves' = Append(prefSaves, [value |-> Migrated, by |-> "migration"])
           /\ UNCHANGED <<preferences, warned, excused>>
  <2> DEFINE e == [value |-> Migrated, by |-> "migration"]
  <2>1. e \in Saved /\ e.by = "migration" /\ prefSaves \in Seq(Saved)
    BY <1>1, <1>2 DEF Saved, PreferencesTypeOK
  <2>2. prefSaves' = Append(prefSaves, e)
    BY <1>4
  <2> HIDE DEF e
  <2>3. /\ prefSaves' \in Seq(Saved) /\ prefSaves' # <<>> /\ Len(prefSaves') = Len(prefSaves) + 1
        /\ DOMAIN prefSaves' = 1..Len(prefSaves) + 1 /\ prefSaves'[Len(prefSaves) + 1] = e
        /\ \A i \in 1..Len(prefSaves) : prefSaves'[i] = prefSaves[i]
        /\ DOMAIN prefSaves = 1..Len(prefSaves) /\ Len(prefSaves) \in Nat
    BY <2>1, <2>2, AnEntryMoves
  <2>4. MigrationIsLast'
    BY <1>1, <1>4, <2>1, <2>3 DEF MigrationIsLast
  <2>5. PreferencesTypeOK'
    BY <1>1, <1>4, <2>3 DEF PreferencesTypeOK, Saved
  <2> QED
    BY <1>1, <1>4, <2>4, <2>5 DEF PreferencesInv, ShownIsNewest, SomeAreLeft
<1>5. CASE /\ preferences' = Migrated /\ startup' = "ready" /\ LoadFailed /\ UNCHANGED prefSaves
  BY <1>1, <1>2, <1>5
  DEF PreferencesInv, PreferencesTypeOK, MigrationIsLast, ShownIsNewest, SomeAreLeft, LoadFailed
<1> QED
  BY <1>3, <1>4, <1>5 DEF LoadPreferences

LEMMA Saves ==
  ASSUME PreferencesInv, PreferencesSaved
  PROVE  PreferencesInv'
<1>1. /\ PreferencesTypeOK /\ MigrationIsLast /\ ShownIsNewest /\ SomeAreLeft
      /\ prefSaves # <<>> /\ prefSaves' = Tail(prefSaves) /\ UNCHANGED <<row, hadSome>>
  BY DEF PreferencesInv, PreferencesSaved
<1>2. prefSaves \in Seq(Saved)
  BY <1>1 DEF PreferencesTypeOK, Saved
<1>3. /\ prefSaves' \in Seq(Saved) /\ Head(prefSaves) \in Saved /\ Head(prefSaves) = prefSaves[1]
      /\ Len(prefSaves') = Len(prefSaves) - 1 /\ DOMAIN prefSaves' = 1..Len(prefSaves) - 1
      /\ \A i \in 1..Len(prefSaves) - 1 : prefSaves'[i] = prefSaves[i + 1]
      /\ DOMAIN prefSaves = 1..Len(prefSaves) /\ Len(prefSaves) \in Nat \ {0}
      /\ prefSaves' = <<>> <=> Len(prefSaves) = 1
  BY <1>1, <1>2, Leaves, AnEntryLeaves
<1> DEFINE h == Head(prefSaves)
<1>4. h.value \in Preference /\ h.by \in {"change", "migration", "gone"}
  BY <1>3 DEF Saved
<1>5. PICK done \in BOOLEAN :
        /\ onDisk' = IF done THEN <<h.value>> ELSE onDisk
        /\ excused' = (excused \/ ~done)
        /\ \/ /\ h.by = "migration" /\ preferences' = h.value /\ startup' = "ready"
              /\ legacy' = IF done THEN <<>> ELSE legacy
              /\ warned' = (warned \/ ~done)
           \/ /\ h.by # "migration" /\ warned' = IF h.by = "change" THEN ~done ELSE warned
              /\ UNCHANGED <<preferences, startup, legacy>>
  BY DEF PreferencesSaved, LegacyAfter
<1>6. h = prefSaves[1]
  BY <1>3
<1> HIDE DEF h
<1>7. <<h.value>> # <<>> /\ <<h.value>> \in {<<p>> : p \in Preference}
  BY <1>4
<1>8. SomeAreLeft'
  BY <1>1, <1>5, <1>7 DEF SomeAreLeft
<1>9. PreferencesTypeOK'
  <2>1. prefSaves' \in Seq([value : Preference, by : {"change", "migration", "gone"}])
    BY <1>3 DEF Saved
  <2>2. onDisk' \in {<<>>} \union {<<p>> : p \in Preference}
    BY <1>1, <1>5, <1>7 DEF PreferencesTypeOK
  <2>3. /\ preferences' \in Preference /\ startup' \in {"asked", "migrating", "ready"}
        /\ warned' \in BOOLEAN /\ legacy' \in {<<>>} \union {<<p>> : p \in Preference}
    BY <1>1, <1>4, <1>5 DEF PreferencesTypeOK
  <2> QED
    BY <1>1, <2>1, <2>2, <2>3 DEF PreferencesTypeOK
<1>10. h.by = "migration" => startup = "migrating" /\ Len(prefSaves) = 1
  BY <1>1, <1>3, <1>6 DEF MigrationIsLast
<1>11. MigrationIsLast'
  <2>1. CASE h.by = "migration"
    <3>1. startup' = "ready"
      BY <1>5, <2>1
    <3>2. DOMAIN prefSaves' = {}
      <4>1. Len(prefSaves) = 1
        BY <1>10, <2>1
      <4>2. 1..1 - 1 = {}
        OBVIOUS
      <4> QED
        BY <1>3, <4>1, <4>2
    <3> QED
      BY <3>1, <3>2 DEF MigrationIsLast
  <2>2. CASE h.by # "migration"
    <3>1. startup' = startup
      BY <1>5, <2>2
    <3>2. startup = "migrating" => Len(prefSaves) # 1
      BY <1>1, <1>3, <1>6, <2>2 DEF MigrationIsLast
    <3>3. \A i \in 1..Len(prefSaves) - 1 : i + 1 \in 1..Len(prefSaves)
      BY <1>3
    <3> QED
      BY <1>1, <1>3, <3>1, <3>2, <3>3 DEF MigrationIsLast
  <2> QED
    BY <2>1, <2>2
<1>12. ShownIsNewest'
  <2>1. CASE h.by = "migration"
    BY <1>3, <1>5, <1>10, <2>1 DEF ShownIsNewest
  <2>2. CASE h.by # "migration"
    <3>1. CASE Len(prefSaves) = 1
      BY <1>1, <1>3, <1>5, <1>6, <2>2, <3>1 DEF ShownIsNewest
    <3>2. CASE Len(prefSaves) # 1
      <4>1. prefSaves'[Len(prefSaves')] = prefSaves[Len(prefSaves)]
        BY <1>3, <3>2
      <4>2. UNCHANGED <<preferences, startup>> /\ (excused => excused')
        BY <1>5, <2>2
      <4>3. prefSaves' # <<>>
        BY <1>3, <3>2
      <4> QED
        BY <1>1, <4>1, <4>2, <4>3 DEF ShownIsNewest
    <3> QED
      BY <3>1, <3>2
  <2> QED
    BY <2>1, <2>2
<1> QED
  BY <1>8, <1>9, <1>11, <1>12 DEF PreferencesInv

(* The locales are a cycle. *)
LEMMA CycleIsALocale ==
  ASSUME NEW l \in ToSet(Locales), NEW step \in Nat
  PROVE  Cycle(l, step) \in ToSet(Locales)
<1> DEFINE n == Len(Locales)
           i == CHOOSE j \in DOMAIN Locales : Locales[j] = l
           k == (i - 1 + step + n) % n
<1>1. n \in Nat /\ DOMAIN Locales = 1..n
  BY PreferencesAssumption, LenProperties
<1>2. i \in 1..n
  BY <1>1 DEF ToSet
<1>3. Cycle(l, step) = Locales[k + 1]
  BY DEF Cycle
<1> HIDE DEF i, n
<1>4. k \in 0..n - 1
  BY <1>1, <1>2
<1> HIDE DEF k
<1>5. k + 1 \in DOMAIN Locales
  BY <1>1, <1>4
<1> QED
  BY <1>3, <1>5 DEF ToSet

LEMMA Changes ==
  ASSUME PreferencesInv, NEW p \in Preference, Change(p)
  PROVE  PreferencesInv'
<1>1. /\ PreferencesTypeOK /\ MigrationIsLast /\ ShownIsNewest /\ SomeAreLeft
      /\ startup = "ready" /\ preferences' = p
      /\ UNCHANGED <<onDisk, legacy, startup, row, warned, hadSome, excused>>
  BY DEF PreferencesInv, Change
<1>2. CASE p = preferences
  BY <1>1, <1>2
  DEF Change, PreferencesInv, PreferencesTypeOK, MigrationIsLast, ShownIsNewest, SomeAreLeft
<1>3. CASE p # preferences
  <2> DEFINE e == [value |-> p, by |-> "change"]
  <2>1. e \in Saved /\ e.by = "change" /\ e.value = p /\ prefSaves \in Seq(Saved)
    BY <1>1 DEF Saved, PreferencesTypeOK
  <2>2. prefSaves' = Append(prefSaves, e)
    BY <1>3 DEF Change
  <2> HIDE DEF e
  <2>3. /\ prefSaves' \in Seq(Saved) /\ prefSaves' # <<>> /\ Len(prefSaves') = Len(prefSaves) + 1
        /\ DOMAIN prefSaves' = 1..Len(prefSaves) + 1 /\ prefSaves'[Len(prefSaves) + 1] = e
        /\ \A i \in 1..Len(prefSaves) : prefSaves'[i] = prefSaves[i]
        /\ DOMAIN prefSaves = 1..Len(prefSaves) /\ Len(prefSaves) \in Nat
    BY <2>1, <2>2, AnEntryMoves
  <2>4. MigrationIsLast'
    BY <1>1, <2>1, <2>3 DEF MigrationIsLast
  <2>5. PreferencesTypeOK'
    BY <1>1, <2>3 DEF PreferencesTypeOK, Saved
  <2>6. ShownIsNewest'
    BY <1>1, <2>1, <2>3 DEF ShownIsNewest
  <2> QED
    BY <1>1, <2>4, <2>5, <2>6 DEF PreferencesInv, SomeAreLeft
<1> QED
  BY <1>2, <1>3

LEMMA Adjusts ==
  ASSUME PreferencesInv, NEW step \in {0, 1}, AdjustRow(step)
  PROVE  PreferencesInv'
<1>1. /\ preferences \in Preference /\ preferences.locale \in ToSet(Locales)
      /\ preferences.muted \in BOOLEAN /\ preferences.volume \in 0..MaxVolume
  BY DEF PreferencesInv, PreferencesTypeOK, Preference
<1>2. Len(Locales) \in Nat /\ Len(Locales) # 0
  BY <1>1, PreferencesAssumption, LenProperties, EmptySeq DEF ToSet
<1> DEFINE l == Cycle(preferences.locale, IF step = 1 THEN 1 ELSE Len(Locales) - 1)
           v == IF step = 1 THEN IF preferences.volume < MaxVolume THEN preferences.volume + 1
                                 ELSE preferences.volume
                ELSE IF preferences.volume > 0 THEN preferences.volume - 1 ELSE preferences.volume
<1>3. l \in ToSet(Locales)
  BY <1>1, <1>2, CycleIsALocale
<1>4. v \in 0..MaxVolume
  BY <1>1, PreferencesAssumption
<1>5. /\ [preferences EXCEPT !.locale = l] \in Preference
      /\ [preferences EXCEPT !.muted = ~preferences.muted] \in Preference
      /\ [preferences EXCEPT !.volume = v] \in Preference
  <2> HIDE DEF l, v
  <2> QED
    BY <1>1, <1>3, <1>4 DEF Preference
<1>6. \/ Change([preferences EXCEPT !.locale = l])
      \/ Change([preferences EXCEPT !.muted = ~preferences.muted])
      \/ Change([preferences EXCEPT !.volume = v])
  BY DEF AdjustRow
<1> HIDE DEF l, v
<1> QED
  BY <1>5, <1>6, Changes

LEMMA OpensAnew ==
  ASSUME PreferencesInv, OpenAnew
  PROVE  PreferencesInv'
<1>1. /\ PreferencesTypeOK /\ MigrationIsLast /\ SomeAreLeft
      /\ startup' = "asked" /\ preferences' = Default /\ row' = 1 /\ warned' = FALSE
      /\ prefSaves' = [i \in DOMAIN prefSaves |-> [prefSaves[i] EXCEPT !.by = "gone"]]
      /\ UNCHANGED <<onDisk, legacy, hadSome, excused>>
  BY DEF PreferencesInv, OpenAnew
<1>2. prefSaves \in Seq(Saved) /\ DOMAIN prefSaves = 1..Len(prefSaves) /\ Len(prefSaves) \in Nat
  BY <1>1, LenProperties DEF PreferencesTypeOK, Saved
<1>3. \A i \in DOMAIN prefSaves : prefSaves'[i] \in Saved /\ prefSaves'[i].by = "gone"
  <2> SUFFICES ASSUME NEW i \in DOMAIN prefSaves
               PROVE  prefSaves'[i] \in Saved /\ prefSaves'[i].by = "gone"
    OBVIOUS
  <2>1. prefSaves[i] \in Saved /\ prefSaves'[i] = [prefSaves[i] EXCEPT !.by = "gone"]
    BY <1>1, <1>2
  <2> QED
    BY <2>1 DEF Saved
<1>4. prefSaves' \in [1..Len(prefSaves) -> Saved] /\ DOMAIN prefSaves' = DOMAIN prefSaves
  BY <1>1, <1>2, <1>3
<1>5. prefSaves' \in Seq(Saved)
  BY <1>2, <1>4, SeqDef
<1>6. PreferencesTypeOK'
  <2>1. prefSaves' \in Seq([value : Preference, by : {"change", "migration", "gone"}])
    BY <1>5 DEF Saved
  <2>2. preferences' \in Preference /\ row' \in 1..5
    BY <1>1, PreferencesAssumption
  <2>3. startup' \in {"asked", "migrating", "ready"} /\ warned' \in BOOLEAN
    BY <1>1
  <2> QED
    BY <1>1, <2>1, <2>2, <2>3 DEF PreferencesTypeOK
<1>7. MigrationIsLast'
  BY <1>1, <1>3, <1>4 DEF MigrationIsLast
<1> QED
  BY <1>1, <1>6, <1>7 DEF PreferencesInv, ShownIsNewest, SomeAreLeft

LEMMA PreferencesInductive == PreferencesInv /\ [PreferencesNext]_prefVars => PreferencesInv'
<1> SUFFICES ASSUME PreferencesInv, [PreferencesNext]_prefVars PROVE PreferencesInv'
  OBVIOUS
<1>1. CASE SelectRow \/ UNCHANGED prefVars
  <2>1. /\ UNCHANGED <<onDisk, legacy, preferences, startup, prefSaves, warned, hadSome, excused>>
        /\ row' \in 1..5 \/ row' = row
    BY <1>1 DEF SelectRow, prefVars
  <2> QED
    BY <2>1
    DEF PreferencesInv, PreferencesTypeOK, MigrationIsLast, ShownIsNewest, SomeAreLeft
<1> QED
  BY <1>1, Loads, Saves, Adjusts, OpensAnew DEF PreferencesNext

(* What is shown is what is stored once nothing is under way, unless a     *)
(* load or a save failed or the one met the other; and what the            *)
(* localStorage holds is there until main has stored some                  *)
(* (global-preferences.ts, renderer.tsx): for any locales and volumes.     *)
THEOREM PreferencesSurvive == PreferencesSpec => []PreferencesAreKept
<1>1. PreferencesInv => PreferencesAreKept
  BY DEF PreferencesInv, ShownIsNewest, SomeAreLeft, PreferencesAreKept
<1> QED
  BY <1>1, PreferencesInitInductive, PreferencesInductive, PTL DEF PreferencesSpec
-----------------------------------------------------------------------------
(***************************************************************************)
(* Navigation.  A detail that is open is of the game whose detail was      *)
(* opened last (DetailIsAnnounced); a call or a choice that is to play     *)
(* knows its game (CallsAreKnown, ChoiceIsKnown); and while no call has    *)
(* met another, a stop or a selection, there is one of them at a time, and *)
(* what is shown and held follows from how far it has come (OneAtATime,    *)
(* ShownFollows).                                                          *)
(***************************************************************************)
AsksFor(c) == call[c].at \notin {"unasked", "done"}

DetailIsAnnounced ==
  /\ DOMAIN place = {"category", "cursor", "detailed"}
  /\ place.detailed # NoGame => place.detailed = announced

CallsAreKnown ==
  /\ DOMAIN call = Awaits
  /\ \A c \in Awaits :
       /\ DOMAIN call[c] = {"at", "game", "mode"}
       /\ call[c].at \in {"unasked", "audio", "launching", "refreshing", "configuring",
                         "importing", "favoring", "unfavoring", "done"}
       /\ call[c].at \in {"audio", "launching", "configuring"} => call[c].mode # "import"
       /\ call[c].at = "importing" => call[c].mode = "import"
       /\ call[c].at \in {"audio", "launching", "refreshing", "configuring"}
            => call[c].game # NoGame \/ call[c].mode = "import"

ChoiceIsKnown ==
  /\ DOMAIN choice = {"game", "option"} /\ choice.option \in {"restore", "fresh"}
  /\ choice # NoChoice => choice.game # NoGame

OneAtATime == ~met => \A c, d \in Awaits : AsksFor(c) /\ AsksFor(d) => c = d

HeldByMain(c) ==
  IF call[c].mode # "import" /\ call[c].at \in {"refreshing", "configuring"}
  THEN heldGame = call[c].game /\ selectedGame = call[c].game
  ELSE heldGame = NoGame \/ faltered

Shown(c) ==
  CASE call[c].at = "launching" -> status = "starting" /\ selectedGame = call[c].game
    [] call[c].at = "refreshing" /\ call[c].mode # "import" -> status = "running"
    [] OTHER -> status \in {"ready", "error"}

ShownFollows ==
  /\ status \in {"ready", "error", "starting", "running"}
  /\ ~met => \A c \in Awaits : AsksFor(c) => HeldByMain(c) /\ Shown(c)
  /\ ~met /\ ~Waiting => /\ status = "running" => heldGame # NoGame /\ selectedGame = heldGame
                         /\ heldGame # NoGame => status = "running" \/ faltered
                         /\ status # "starting"

NavigationInv == DetailIsAnnounced /\ CallsAreKnown /\ ChoiceIsKnown /\ OneAtATime /\ ShownFollows

LEMMA NavigationInitInductive == NavigationInit => NavigationInv
<1> SUFFICES ASSUME NavigationInit PROVE NavigationInv
  OBVIOUS
<1>1. /\ heldGame = NoGame /\ status = "ready" /\ place = FirstPlace /\ choice = NoChoice
      /\ call = [c \in Awaits |-> Unasked]
  BY DEF NavigationInit
<1>2. \A c \in Awaits : call[c] = [at |-> "unasked", game |-> NoGame, mode |-> "unset"]
  BY <1>1 DEF Unasked
<1>3. CallsAreKnown
  BY <1>1, <1>2 DEF CallsAreKnown
<1>4. DetailIsAnnounced /\ ChoiceIsKnown
  BY <1>1 DEF DetailIsAnnounced, FirstPlace, ChoiceIsKnown, NoChoice
<1>5. \A c \in Awaits : ~AsksFor(c)
  BY <1>2 DEF AsksFor
<1> QED
  BY <1>1, <1>3, <1>4, <1>5 DEF NavigationInv, OneAtATime, ShownFollows

(* What the steps do to the place: it keeps its fields, and a detail is    *)
(* opened only as it is announced.                                         *)
LEMMA StatusKeepsDetail ==
  ASSUME DetailIsAnnounced, NEW st, BecomeStatus(st), announced' = announced
  PROVE  DetailIsAnnounced'
BY DEF DetailIsAnnounced, BecomeStatus, FirstPlace

LEMMA DetailStaysAnnounced ==
  DetailIsAnnounced /\ [NavigationNext]_navVars => DetailIsAnnounced'
<1> SUFFICES ASSUME DetailIsAnnounced, [NavigationNext]_navVars PROVE DetailIsAnnounced'
  OBVIOUS
<1>1. CASE HomeConfirm
  BY <1>1 DEF HomeConfirm, DetailIsAnnounced, FirstPlace
<1>2. CASE ToggleMenu \/ AlterChoice \/ UNCHANGED navVars
  BY <1>2 DEF ToggleMenu, AlterChoice, navVars, DetailIsAnnounced
<1>3. CASE MoveCategory
  <2>1. PICK i \in DOMAIN Categories : place' = [place EXCEPT !.category = i, !.detailed = NoGame]
    BY <1>3 DEF MoveCategory
  <2>2. place'.detailed = NoGame /\ DOMAIN place' = DOMAIN place
    BY <2>1 DEF DetailIsAnnounced
  <2> QED
    BY <2>2 DEF DetailIsAnnounced
<1>4. CASE SelectBeside
  <2>1. PICK i \in Beside : place' = [place EXCEPT !.cursor[Category] = i, !.detailed = NoGame]
    BY <1>4 DEF SelectBeside
  <2>2. place'.detailed = NoGame /\ DOMAIN place' = DOMAIN place
    BY <2>1 DEF DetailIsAnnounced
  <2> QED
    BY <2>2 DEF DetailIsAnnounced
<1>5. CASE LeaveLibrary
  <2>1. /\ announced' = announced
        /\ \/ place' = [place EXCEPT !.category = place.category - 1]
           \/ place' = [place EXCEPT !.detailed = NoGame]
           \/ place' = FirstPlace
    BY <1>5 DEF LeaveLibrary
  <2> QED
    BY <2>1 DEF DetailIsAnnounced, FirstPlace
<1>6. CASE OpenDetail
  <2>1. announced' = Selected /\ place' = [place EXCEPT !.detailed = Selected]
    BY <1>6 DEF OpenDetail
  <2> QED
    BY <2>1 DEF DetailIsAnnounced
<1>7. CASE StopGame
  BY <1>7, StatusKeepsDetail DEF StopGame
<1>8. ASSUME NEW c \in Awaits, PlaySelected(c) \/ ChooseOption(c) \/ ImportGame(c) \/ Favor(c)
      PROVE  DetailIsAnnounced'
  BY <1>8 DEF PlaySelected, ChooseOption, ImportGame, Favor, viewVars, DetailIsAnnounced
<1>9. ASSUME NEW c \in Awaits, \/ AudioStarts(c) \/ LaunchAnswers(c) \/ Refreshed(c) \/ Configured(c)
                             \/ GameImported(c) \/ Favored(c)
      PROVE  DetailIsAnnounced'
  <2>1. /\ announced' = announced
        /\ place' = place \/ \E st \in {"starting", "running", "ready", "error"} : BecomeStatus(st)
    BY <1>9 DEF AudioStarts, LaunchAnswers, Refreshed, Configured, LaunchEnds, GameImported, Favored
  <2> QED
    BY <2>1, StatusKeepsDetail DEF DetailIsAnnounced
<1> QED
  BY <1>1, <1>2, <1>3, <1>4, <1>5, <1>6, <1>7, <1>8, <1>9 DEF NavigationNext

(* A step that leaves the calls, and what is shown and held.               *)
LEMMA CallsStay ==
  ASSUME NavigationInv, UNCHANGED <<call, status, sessionVars, selectedGame, met>>
  PROVE  CallsAreKnown' /\ OneAtATime' /\ ShownFollows'
<1>1. Waiting' = Waiting /\ \A c \in Awaits : /\ AsksFor(c)' = AsksFor(c)
                                            /\ HeldByMain(c)' = HeldByMain(c) /\ Shown(c)' = Shown(c)
  BY DEF Waiting, AsksFor, HeldByMain, Shown, sessionVars
<1> QED
  BY <1>1 DEF NavigationInv, CallsAreKnown, OneAtATime, ShownFollows, sessionVars

(* A call begins: it is the only one, or the two have met.                 *)
LEMMA CallBegins ==
  ASSUME NavigationInv, NEW c \in Awaits, NEW g, NEW mode,
         NEW at \in {"audio", "importing", "favoring", "unfavoring"},
         BeginAwait(c, at, g, mode), UNCHANGED <<status, sessionVars, selectedGame>>,
         status # "running", (at = "importing") <=> (mode = "import"),
         at = "audio" => g # NoGame
  PROVE  CallsAreKnown' /\ OneAtATime' /\ ShownFollows'
<1> DEFINE new == [at |-> at, game |-> g, mode |-> mode]
<1>1. /\ call' = [call EXCEPT ![c] = new] /\ met' = (met \/ Waiting)
      /\ CallsAreKnown /\ ShownFollows
  BY DEF BeginAwait, NavigationInv
<1>2. new.at = at /\ new.game = g /\ new.mode = mode /\ DOMAIN new = {"at", "game", "mode"}
  OBVIOUS
<1> HIDE DEF new
<1>3. /\ DOMAIN call' = Awaits /\ call'[c] = new
      /\ \A d \in Awaits \ {c} : call'[d] = call[d]
  BY <1>1 DEF CallsAreKnown
<1>4. CallsAreKnown'
  <2> SUFFICES ASSUME NEW d \in Awaits
               PROVE  /\ DOMAIN call'[d] = {"at", "game", "mode"}
                      /\ call'[d].at \in {"unasked", "audio", "launching", "refreshing",
                                          "configuring", "importing", "favoring",
                                          "unfavoring", "done"}
                      /\ call'[d].at \in {"audio", "launching", "configuring"}
                           => call'[d].mode # "import"
                      /\ call'[d].at = "importing" => call'[d].mode = "import"
                      /\ call'[d].at \in {"audio", "launching", "refreshing", "configuring"}
                           => call'[d].game # NoGame \/ call'[d].mode = "import"
    BY <1>3 DEF CallsAreKnown
  <2>1. CASE d = c
    BY <1>2, <1>3, <2>1
  <2>2. CASE d # c
    BY <1>1, <1>3, <2>2 DEF CallsAreKnown
  <2> QED
    BY <2>1, <2>2
<1>5. ~met' => \A d \in Awaits : AsksFor(d)' <=> d = c
  BY <1>1, <1>2, <1>3 DEF Waiting, AsksFor
<1>6. ~met' => (heldGame = NoGame \/ faltered) /\ status \in {"ready", "error"}
  BY <1>1 DEF ShownFollows
<1>7. ~met' => HeldByMain(c)' /\ Shown(c)'
  BY <1>2, <1>3, <1>6 DEF HeldByMain, Shown, sessionVars
<1>8. ~met' => Waiting'
  BY <1>2, <1>3 DEF Waiting
<1> QED
  BY <1>1, <1>4, <1>5, <1>7, <1>8 DEF OneAtATime, ShownFollows

(* A call goes on: unless it has met another, it is still the only one.    *)
LEMMA CallGoesOn ==
  ASSUME NavigationInv, NEW c \in Awaits, AsksFor(c), met' = met,
         NEW at \in {"launching", "refreshing", "configuring", "done"}, Goes(c, at),
         status' \in {"ready", "error", "starting", "running"},
         at \in {"launching", "configuring"} => call[c].mode # "import",
         at \in {"launching", "refreshing", "configuring"}
           => call[c].game # NoGame \/ call[c].mode = "import",
         ~met /\ at = "launching"
           => /\ heldGame' = NoGame \/ faltered'
              /\ status' = "starting" /\ selectedGame' = call[c].game,
         ~met /\ at = "refreshing" /\ call[c].mode # "import"
           => heldGame' = call[c].game /\ selectedGame' = call[c].game /\ status' = "running",
         ~met /\ at = "refreshing" /\ call[c].mode = "import"
           => (heldGame' = NoGame \/ faltered') /\ status' \in {"ready", "error"},
         ~met /\ at = "configuring"
           => /\ heldGame' = call[c].game /\ selectedGame' = call[c].game
              /\ status' \in {"ready", "error"},
         ~met /\ at = "done"
           => /\ status' # "starting"
              /\ status' = "running" => heldGame' # NoGame /\ selectedGame' = heldGame'
              /\ heldGame' # NoGame => status' = "running" \/ faltered'
  PROVE  CallsAreKnown' /\ OneAtATime' /\ ShownFollows'
<1>1. call' = [call EXCEPT ![c].at = at] /\ CallsAreKnown /\ OneAtATime /\ ShownFollows
  BY DEF Goes, NavigationInv
<1>2. /\ DOMAIN call' = Awaits /\ \A d \in Awaits \ {c} : call'[d] = call[d]
      /\ call'[c] = [call[c] EXCEPT !.at = at]
  BY <1>1 DEF CallsAreKnown
<1>3. /\ call'[c].at = at /\ call'[c].game = call[c].game /\ call'[c].mode = call[c].mode
      /\ DOMAIN call'[c] = {"at", "game", "mode"}
  BY <1>1, <1>2 DEF CallsAreKnown
<1>4. CallsAreKnown'
  <2> SUFFICES ASSUME NEW d \in Awaits
               PROVE  /\ DOMAIN call'[d] = {"at", "game", "mode"}
                      /\ call'[d].at \in {"unasked", "audio", "launching", "refreshing",
                                          "configuring", "importing", "favoring",
                                          "unfavoring", "done"}
                      /\ call'[d].at \in {"audio", "launching", "configuring"}
                           => call'[d].mode # "import"
                      /\ call'[d].at = "importing" => call'[d].mode = "import"
                      /\ call'[d].at \in {"audio", "launching", "refreshing", "configuring"}
                           => call'[d].game # NoGame \/ call'[d].mode = "import"
    BY <1>2 DEF CallsAreKnown
  <2>1. CASE d = c
    BY <1>3, <2>1
  <2>2. CASE d # c
    BY <1>1, <1>2, <2>2 DEF CallsAreKnown
  <2> QED
    BY <2>1, <2>2
<1>5. ~met => \A d \in Awaits : AsksFor(d)' => d = c /\ at # "done"
  <2> SUFFICES ASSUME ~met, NEW d \in Awaits, AsksFor(d)' PROVE d = c /\ at # "done"
    OBVIOUS
  <2>1. CASE d = c
    BY <1>3, <2>1 DEF AsksFor
  <2>2. CASE d # c
    BY <1>1, <1>2, <2>2 DEF AsksFor, OneAtATime
  <2> QED
    BY <2>1, <2>2
<1>6. ~met /\ at # "done" => HeldByMain(c)' /\ Shown(c)'
  BY <1>3 DEF HeldByMain, Shown
<1>7. at # "done" => Waiting'
  BY <1>3 DEF Waiting
<1>8. ShownFollows'
  BY <1>5, <1>6, <1>7 DEF ShownFollows
<1>9. OneAtATime'
  BY <1>5 DEF OneAtATime
<1> QED
  BY <1>4, <1>8, <1>9

(* What an invariant says of a call that is under way.                     *)
LEMMA CallIsShown ==
  ASSUME NavigationInv, NEW c \in Awaits, AsksFor(c)
  PROVE  /\ ~met => HeldByMain(c) /\ Shown(c)
         /\ status \in {"ready", "error", "starting", "running"}
         /\ call[c].at \in {"audio", "launching", "configuring"} => call[c].mode # "import"
         /\ call[c].at = "importing" => call[c].mode = "import"
         /\ call[c].at \in {"audio", "launching", "refreshing", "configuring"}
              => call[c].game # NoGame \/ call[c].mode = "import"
BY DEF NavigationInv, ShownFollows, CallsAreKnown

LEMMA ChoiceStaysKnown ==
  CallsAreKnown /\ ChoiceIsKnown /\ [NavigationNext]_navVars => ChoiceIsKnown'
<1> SUFFICES ASSUME CallsAreKnown, ChoiceIsKnown, [NavigationNext]_navVars PROVE ChoiceIsKnown'
  OBVIOUS
<1>1. choice' = NoChoice => ChoiceIsKnown'
  BY DEF ChoiceIsKnown, NoChoice
<1>2. UNCHANGED choice => ChoiceIsKnown'
  BY DEF ChoiceIsKnown
<1>3. CASE AlterChoice
  <2>1. choice # NoChoice /\ choice.game # NoGame /\ DOMAIN choice = {"game", "option"}
    BY <1>3 DEF AlterChoice, ChoiceIsKnown
  <2>2. ASSUME NEW o \in {"restore", "fresh"}, choice' = [choice EXCEPT !.option = o]
        PROVE  ChoiceIsKnown'
    BY <2>1, <2>2 DEF ChoiceIsKnown
  <2> QED
    BY <1>1, <1>3, <2>2 DEF AlterChoice
<1>4. ASSUME NEW c \in Awaits, LaunchAnswers(c) PROVE ChoiceIsKnown'
  <2>1. CASE /\ call[c].mode = "unset"
             /\ choice' = [game |-> call[c].game, option |-> "restore"]
    <3>1. call[c].game # NoGame
      BY <1>4, <2>1 DEF LaunchAnswers, Waits, CallsAreKnown
    <3>2. DOMAIN choice' = {"game", "option"} /\ choice'.game = call[c].game /\ choice'.option = "restore"
      BY <2>1
    <3> QED
      BY <3>1, <3>2 DEF ChoiceIsKnown
  <2> QED
    BY <1>2, <1>4, <2>1 DEF LaunchAnswers
<1>5. CASE \E c \in Awaits : ChooseOption(c)
  BY <1>1, <1>5 DEF ChooseOption
<1>6. CASE \/ HomeConfirm \/ ToggleMenu \/ MoveCategory \/ SelectBeside \/ LeaveLibrary
           \/ OpenDetail \/ StopGame \/ UNCHANGED navVars
  BY <1>2, <1>6
  DEF HomeConfirm, ToggleMenu, MoveCategory, SelectBeside, LeaveLibrary, OpenDetail, StopGame, navVars
<1>7. CASE \E c \in Awaits : \/ PlaySelected(c) \/ AudioStarts(c) \/ Refreshed(c) \/ Configured(c)
                            \/ ImportGame(c) \/ GameImported(c) \/ Favor(c) \/ Favored(c)
  BY <1>2, <1>7
  DEF PlaySelected, AudioStarts, Refreshed, Configured, ImportGame, GameImported, Favor, Favored
<1> QED
  BY <1>3, <1>4, <1>5, <1>6, <1>7 DEF NavigationNext

LEMMA LaunchStays ==
  ASSUME NavigationInv, NEW c \in Awaits, AudioStarts(c) \/ LaunchAnswers(c)
  PROVE  CallsAreKnown' /\ OneAtATime' /\ ShownFollows'
<1>1. AsksFor(c) /\ met' = met /\ call[c].at \in {"audio", "launching"}
  BY DEF AudioStarts, LaunchAnswers, Waits, AsksFor
<1>2. call[c].mode # "import" /\ call[c].game # NoGame /\ (~met => heldGame = NoGame \/ faltered)
  BY <1>1, CallIsShown DEF HeldByMain
<1>3. CASE AudioStarts(c)
  <2>1. /\ Goes(c, "launching") /\ selectedGame' = call[c].game /\ status' = "starting"
        /\ UNCHANGED <<heldGame, faltered>>
    BY <1>3 DEF AudioStarts, BecomeStatus, sessionVars
  <2> QED
    BY <1>1, <1>2, <2>1, CallGoesOn
<1>4. CASE LaunchAnswers(c)
  <2>1. ~met => selectedGame = call[c].game
    BY <1>1, <1>4, CallIsShown DEF LaunchAnswers, Waits, Shown
  <2>2. selectedGame' = selectedGame
    BY <1>4 DEF LaunchAnswers
  <2>3. CASE heldGame' = call[c].game /\ status' = "running" /\ Goes(c, "refreshing")
    BY <1>1, <1>2, <2>1, <2>2, <2>3, CallGoesOn
  <2>4. CASE UNCHANGED <<heldGame, faltered>> /\ status' \in {"ready", "error"} /\ Goes(c, "done")
    BY <1>1, <1>2, <2>2, <2>4, CallGoesOn
  <2> QED
    BY <1>4, <2>3, <2>4 DEF LaunchAnswers, BecomeStatus, sessionVars
<1> QED
  BY <1>3, <1>4

LEMMA RefreshStays ==
  ASSUME NavigationInv, NEW c \in Awaits, Refreshed(c)
  PROVE  CallsAreKnown' /\ OneAtATime' /\ ShownFollows'
<1>1. /\ call[c].at = "refreshing" /\ AsksFor(c) /\ met' = met /\ heldGame' = heldGame
      /\ faltered' = faltered /\ status' \in {"ready", "error"}
      /\ selectedGame' = IF call[c].mode = "import" THEN call[c].game ELSE selectedGame
      /\ Goes(c, IF call[c].mode = "import" THEN "done" ELSE "configuring")
  BY DEF Refreshed, Waits, AsksFor, BecomeStatus, sessionVars
<1>2. CASE call[c].mode = "import"
  <2>1. ~met => heldGame = NoGame \/ faltered
    BY <1>1, <1>2, CallIsShown DEF HeldByMain
  <2> QED
    BY <1>1, <1>2, <2>1, CallGoesOn
<1>3. CASE call[c].mode # "import"
  <2>1. /\ call[c].game # NoGame
        /\ ~met => heldGame = call[c].game /\ selectedGame = call[c].game
    BY <1>1, <1>3, CallIsShown DEF HeldByMain
  <2> QED
    BY <1>1, <1>3, <2>1, CallGoesOn
<1> QED
  BY <1>2, <1>3

LEMMA ConfigurationStays ==
  ASSUME NavigationInv, NEW c \in Awaits, Configured(c)
  PROVE  CallsAreKnown' /\ OneAtATime' /\ ShownFollows'
<1>1. /\ call[c].at = "configuring" /\ AsksFor(c) /\ met' = met /\ heldGame' = heldGame
      /\ status' = "running" \/ (status' = status /\ faltered' = TRUE)
      /\ selectedGame' = selectedGame /\ Goes(c, "done")
  BY DEF Configured, LaunchEnds, Waits, AsksFor, BecomeStatus
<1>2. /\ call[c].mode # "import" /\ call[c].game # NoGame
      /\ ~met => /\ heldGame = call[c].game /\ selectedGame = call[c].game
                 /\ status \in {"ready", "error"}
      /\ status \in {"ready", "error", "starting", "running"}
  BY <1>1, CallIsShown DEF HeldByMain, Shown
<1> QED
  BY <1>1, <1>2, CallGoesOn

LEMMA AnswerStays ==
  ASSUME NavigationInv, NEW c \in Awaits, GameImported(c) \/ Favored(c)
  PROVE  CallsAreKnown' /\ OneAtATime' /\ ShownFollows'
<1>1. /\ call[c].at \in {"importing", "favoring", "unfavoring"} /\ AsksFor(c) /\ met' = met
      /\ UNCHANGED <<heldGame, faltered, selectedGame>>
  BY DEF GameImported, Favored, Waits, AsksFor, sessionVars
<1>2. ~met => (heldGame = NoGame \/ faltered) /\ status \in {"ready", "error"}
  BY <1>1, CallIsShown DEF HeldByMain, Shown
<1>3. CASE GameImported(c)
  <2>1. call[c].mode = "import"
    BY <1>1, <1>3, CallIsShown DEF GameImported, Waits
  <2>2. CASE Goes(c, "refreshing") /\ status' = status
    BY <1>1, <1>2, <2>1, <2>2, CallIsShown, CallGoesOn
  <2>3. CASE Goes(c, "done") /\ status' \in {status, "error"}
    BY <1>1, <1>2, <2>3, CallIsShown, CallGoesOn
  <2> QED
    BY <1>3, <2>2, <2>3 DEF GameImported, BecomeStatus
<1>4. CASE Favored(c)
  <2>1. Goes(c, "done") /\ status' = status
    BY <1>4 DEF Favored
  <2> QED
    BY <1>1, <1>2, <2>1, CallIsShown, CallGoesOn
<1> QED
  BY <1>3, <1>4

LEMMA CallsBegin ==
  ASSUME NavigationInv, NEW c \in Awaits,
         PlaySelected(c) \/ ChooseOption(c) \/ ImportGame(c) \/ Favor(c)
  PROVE  CallsAreKnown' /\ OneAtATime' /\ ShownFollows'
<1>1. UNCHANGED <<status, sessionVars, selectedGame>>
  BY DEF PlaySelected, ChooseOption, ImportGame, Favor
<1>2. status # "running"
  BY DEF PlaySelected, ChooseOption, ImportGame, Favor, Mounted
<1>3. CASE PlaySelected(c)
  <2>1. Selected # NoGame /\ BeginAwait(c, "audio", Selected, "unset")
    BY <1>3 DEF PlaySelected
  <2> QED
    BY <1>1, <1>2, <2>1, CallBegins
<1>4. CASE ChooseOption(c)
  <2>1. BeginAwait(c, "audio", choice.game, choice.option) /\ choice # NoChoice
    BY <1>4 DEF ChooseOption
  <2>2. choice.game # NoGame /\ choice.option # "import"
    BY <2>1 DEF NavigationInv, ChoiceIsKnown
  <2> QED
    BY <1>1, <1>2, <2>1, <2>2, CallBegins
<1>5. CASE ImportGame(c)
  <2>1. PICK g \in Titles : BeginAwait(c, "importing", g, "import")
    BY <1>5 DEF ImportGame
  <2> QED
    BY <1>1, <1>2, <2>1, CallBegins
<1>6. CASE Favor(c)
  <2>1. PICK at \in {"favoring", "unfavoring"} : BeginAwait(c, at, Selected, "unset")
    BY <1>6 DEF Favor
  <2> QED
    BY <1>1, <1>2, <2>1, CallBegins
<1> QED
  BY <1>3, <1>4, <1>5, <1>6

LEMMA NavigationInductive == NavigationInv /\ [NavigationNext]_navVars => NavigationInv'
<1> SUFFICES ASSUME NavigationInv, [NavigationNext]_navVars PROVE NavigationInv'
  OBVIOUS
<1>1. DetailIsAnnounced' /\ ChoiceIsKnown'
  BY DetailStaysAnnounced, ChoiceStaysKnown DEF NavigationInv
<1>2. CASE \/ HomeConfirm \/ ToggleMenu \/ MoveCategory \/ LeaveLibrary \/ OpenDetail \/ AlterChoice
           \/ UNCHANGED navVars
  <2>1. UNCHANGED <<call, status, sessionVars, selectedGame, met>>
    BY <1>2
    DEF HomeConfirm, ToggleMenu, MoveCategory, LeaveLibrary, OpenDetail, AlterChoice, navVars
  <2> QED
    BY <1>1, <2>1, CallsStay DEF NavigationInv
<1>3. CASE SelectBeside \/ StopGame
  <2>1. UNCHANGED call /\ met' = (met \/ Waiting)
    BY <1>3 DEF SelectBeside, StopGame
  <2>2. CallsAreKnown' /\ OneAtATime' /\ Waiting' = Waiting
    BY <2>1 DEF NavigationInv, CallsAreKnown, OneAtATime, AsksFor, Waiting
  <2>3. CASE SelectBeside
    <3>1. UNCHANGED <<status, heldGame, faltered>> /\ status \in {"ready", "error"}
      BY <2>3 DEF SelectBeside, Mounted, sessionVars
    <3>2. ~met' => ~Waiting /\ (heldGame = NoGame \/ faltered)
      BY <2>1, <3>1 DEF NavigationInv, ShownFollows
    <3> QED
      BY <1>1, <2>1, <2>2, <3>1, <3>2 DEF NavigationInv, ShownFollows, Waiting, AsksFor
  <2>4. CASE StopGame
    <3>1. status' \in {"ready", "error"} /\ (heldGame' # NoGame => faltered')
      BY <2>4 DEF StopGame, BecomeStatus
    <3>2. ~met' => ~Waiting
      BY <2>1
    <3> QED
      BY <1>1, <2>1, <2>2, <3>1, <3>2 DEF NavigationInv, ShownFollows, Waiting, AsksFor
  <2> QED
    BY <1>3, <2>3, <2>4
<1>4. ASSUME NEW c \in Awaits,
             \/ PlaySelected(c) \/ ChooseOption(c) \/ AudioStarts(c) \/ LaunchAnswers(c)
             \/ Refreshed(c) \/ Configured(c) \/ ImportGame(c) \/ GameImported(c) \/ Favor(c)
             \/ Favored(c)
      PROVE  NavigationInv'
  <2>1. CallsAreKnown' /\ OneAtATime' /\ ShownFollows'
    BY <1>4, CallsBegin, LaunchStays, RefreshStays, ConfigurationStays, AnswerStays
  <2> QED
    BY <1>1, <2>1 DEF NavigationInv
<1> QED
  BY <1>2, <1>3, <1>4 DEF NavigationNext

LEMMA NavigationInvariance == NavigationSpec => []NavigationInv
BY NavigationInitInductive, NavigationInductive, PTL DEF NavigationSpec

(* When no call is under way, and none has met another, a stop or a        *)
(* selection, a session that is shown is held by main, under the name of   *)
(* its game, and one that main holds is shown, unless its launch failed    *)
(* behind main's answer or its stop failed (launchGame, runAction): for    *)
(* any library and any calls.                                              *)
THEOREM SessionShownIsHeld == NavigationSpec => []ShownIsHeld
<1>1. NavigationInv => ShownIsHeld
  BY DEF NavigationInv, ShownFollows, ShownIsHeld
<1> QED
  BY <1>1, NavigationInvariance, PTL

(* The game that a confirmation launches is the one whose detail was       *)
(* opened last, however an answer moves the games under the cursor         *)
(* (console-library.tsx): for any library and any calls.                   *)
THEOREM SecondConfirmationPlaysDetailed == NavigationSpec => PlaysWhatIsDetailed
<1> DEFINE A(c) == call[c] = Unasked /\ call'[c].at = "audio" /\ call'[c].mode = "unset"
                     => call'[c].game = announced
<1>1. ASSUME NavigationInv, [NavigationNext]_navVars, NEW c \in Awaits PROVE A(c)
  <2> SUFFICES ASSUME call[c].at = "unasked", call'[c].at = "audio", call'[c].mode = "unset"
               PROVE  call'[c].game = announced
    BY DEF Unasked
  <2>1. DOMAIN call = Awaits /\ \A d \in Awaits : DOMAIN call[d] = {"at", "game", "mode"}
    BY <1>1 DEF NavigationInv, CallsAreKnown
  <2>2. ASSUME NEW d \in Awaits, NEW at, AsksFor(d), Goes(d, at) PROVE FALSE
    <3>1. d # c
      BY <2>2 DEF AsksFor
    <3>2. call'[c] = call[c]
      BY <2>1, <2>2, <3>1 DEF Goes
    <3> QED
      BY <3>2
  <2>3. ASSUME NEW d \in Awaits, NEW at, NEW g, NEW mode, BeginAwait(d, at, g, mode)
        PROVE  d = c /\ at = "audio" /\ mode = "unset" /\ call'[c].game = g
    <3>1. call' = [call EXCEPT ![d] = [at |-> at, game |-> g, mode |-> mode]]
      BY <2>3 DEF BeginAwait
    <3>2. d = c
      BY <2>1, <3>1
    <3> QED
      BY <2>1, <3>1, <3>2
  <2>4. ~UNCHANGED call
    OBVIOUS
  <2>5. CASE \E d \in Awaits : PlaySelected(d)
    <3>1. PICK d \in Awaits : Selected # NoGame /\ Plays /\ BeginAwait(d, "audio", Selected, "unset")
      BY <2>5 DEF PlaySelected
    <3>2. Selected = announced
      BY <1>1, <3>1 DEF Plays, NavigationInv, DetailIsAnnounced
    <3> QED
      BY <2>3, <3>1, <3>2
  <2>6. CASE \E d \in Awaits : ChooseOption(d)
    <3>1. PICK d \in Awaits : BeginAwait(d, "audio", choice.game, choice.option)
      BY <2>6 DEF ChooseOption
    <3>2. choice.option # "unset"
      BY <1>1 DEF NavigationInv, ChoiceIsKnown
    <3> QED
      BY <2>3, <3>1, <3>2
  <2>7. CASE \E d \in Awaits : ImportGame(d) \/ Favor(d)
    <3>1. PICK d \in Awaits, at \in {"importing", "favoring", "unfavoring"} :
            \E g, mode : BeginAwait(d, at, g, mode)
      BY <2>7 DEF ImportGame, Favor
    <3> QED
      BY <2>3, <3>1
  <2>8. CASE \E d \in Awaits : \/ AudioStarts(d) \/ LaunchAnswers(d) \/ Refreshed(d) \/ Configured(d)
                              \/ GameImported(d) \/ Favored(d)
    <3>1. PICK d \in Awaits : AsksFor(d) /\ \E at : Goes(d, at)
      BY <2>8
      DEF AudioStarts, LaunchAnswers, Refreshed, Configured, GameImported, Favored, Waits, AsksFor
    <3> QED
      BY <2>2, <3>1
  <2>9. CASE \/ HomeConfirm \/ ToggleMenu \/ MoveCategory \/ SelectBeside \/ LeaveLibrary
             \/ OpenDetail \/ AlterChoice \/ StopGame \/ UNCHANGED navVars
    BY <2>4, <2>9
    DEF HomeConfirm, ToggleMenu, MoveCategory, SelectBeside, LeaveLibrary, OpenDetail, AlterChoice,
        StopGame, navVars
  <2> QED
    BY <1>1, <2>5, <2>6, <2>7, <2>8, <2>9 DEF NavigationNext
<1>2. NavigationInv /\ [NavigationNext]_navVars => [\A c \in Awaits : A(c)]_navVars
  BY <1>1
<1> QED
  BY <1>2, NavigationInvariance, PTL DEF NavigationSpec, PlaysWhatIsDetailed
=============================================================================
