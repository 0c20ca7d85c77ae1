------------------------------- MODULE RomFolder -------------------------------
(***************************************************************************)
(* The ROM folder and the library that follows it: the handlers            *)
(* importGame and listLibrary of main.ts.  An import copies the chosen     *)
(* file into the folder under a name of its own and then registers it; a   *)
(* listing first registers what it finds in the folder.  Of the library    *)
(* (LocalGameLibrary) only `add` is here, with its read and its write.     *)
(***************************************************************************)
EXTENDS Naturals

CONSTANTS Imports,    \* calls of importGame; each copies to a file of its own
          Listings,   \* calls of listLibrary
          FoundRoms,  \* the files somebody put into the folder
          MaxRestarts \* bound: crashes of the program

(* A call is of one of the two handlers. *)
ASSUME FolderAssumption == Imports \intersect Listings = {}

Roms == Imports \union FoundRoms

VARIABLES folder,    \* what there is of each ROM file
          games,     \* the library: which file, and did add see all of it?
          snapshot,  \* the library as the add of each call has read it
          stage,     \* the await each call is at
          known,     \* knownSources of each listing
          found,     \* the files each listing has still to look at
          bytes,     \* how much of the file it reads it has read
          listed,    \* the games a listing answered
          present,   \* history: the whole files when the listing began
          disturbed, \* history: the files whose copy was read or cut short
          overlapped, \* history: were two adds ever under way together?
          restarts

libraryVars == <<games, snapshot, overlapped>>
listingVars == <<known, found, bytes, listed, present>>
folderVars  == <<folder, stage, libraryVars, listingVars, disturbed, restarts>>

Calls   == Imports \union Listings
NoBytes == <<0, "none">>
Contents == {"absent", "part", "whole", "unfit"}
LibraryEntry    == [rom : Roms, whole : BOOLEAN]
Known(gs) == {g.rom : g \in gs}
Copying == {i \in Imports : stage[i] = "copying"}

FolderTypeOK ==
  /\ folder \in [Roms -> Contents]
  /\ games \subseteq LibraryEntry /\ overlapped \in BOOLEAN
  /\ snapshot \in [Calls -> SUBSET LibraryEntry]
  /\ stage \in [Calls -> {"idle", "choosing", "copying", "adding", "knowing",
                          "naming", "reading", "opened", "registering", "writing", "listing",
                          "ok", "cancelled", "error", "lost"}]
  /\ known \in [Listings -> SUBSET Roms] /\ found \in [Listings -> SUBSET Roms]
  /\ bytes \in [Listings -> {NoBytes} \union (Roms \X {"part", "whole"})]
  /\ listed \in [Listings -> SUBSET Roms] /\ present \in [Listings -> SUBSET Roms]
  /\ disturbed \subseteq Roms /\ restarts \in 0..MaxRestarts

(* An unfit file is empty, above the limit of its console, or no ROM. *)
FolderInit ==
  /\ folder \in {f \in [Roms -> Contents] :
                   \A r \in Roms : IF r \in FoundRoms THEN f[r] \in {"whole", "unfit"}
                                                      ELSE f[r] = "absent"}
  /\ games = {} /\ disturbed = {} /\ restarts = 0 /\ overlapped = FALSE
  /\ snapshot = [c \in Calls |-> {}]
  /\ stage = [c \in Calls |-> "idle"]
  /\ known = [c \in Listings |-> {}] /\ found = [c \in Listings |-> {}]
  /\ bytes = [c \in Listings |-> NoBytes]
  /\ listed = [c \in Listings |-> {}] /\ present = [c \in Listings |-> {}]

CallTo(c, s) == stage' = [stage EXCEPT ![c] = s]

(* library.add reads the library, refuses a file that is in it already,    *)
(* and writes back what it has read with the game added.                   *)
Registering == {c \in Calls : stage[c] \in {"writing", "registering"}}

ReadToAdd(c) ==
  /\ snapshot' = [snapshot EXCEPT ![c] = games]
  /\ overlapped' = (overlapped \/ Registering # {})
  /\ UNCHANGED games

WriteAdded(c, r, whole) ==
  /\ games' = snapshot[c] \union {[rom |-> r, whole |-> whole]}
  /\ snapshot' = [snapshot EXCEPT ![c] = {}]
  /\ UNCHANGED overlapped
-----------------------------------------------------------------------------
(* importGame: the player chooses a file or none.  The extension, the size *)
(* and the bytes are looked at before the copy begins.                     *)
BeginImport(i) ==
  /\ stage[i] = "idle" /\ CallTo(i, "choosing")
  /\ UNCHANGED <<folder, libraryVars, listingVars, disturbed, restarts>>

Chosen(i) ==
  /\ stage[i] = "choosing"
  /\ \/ \E s \in {"cancelled", "error"} : CallTo(i, s) /\ UNCHANGED folder
     \/ CallTo(i, "copying") /\ folder' = [folder EXCEPT ![i] = "part"]
  /\ UNCHANGED <<libraryVars, listingVars, disturbed, restarts>>

(* Mutant: the copy is not waited for. *)
CopiedAtOnce(i) ==
  /\ stage[i] = "copying" /\ CallTo(i, "adding")
  /\ UNCHANGED <<folder, libraryVars, listingVars, disturbed, restarts>>

(* copyFile ends, or fails and leaves what it wrote. *)
Copied(i) ==
  /\ stage[i] = "copying"
  /\ \/ CallTo(i, "adding") /\ folder' = [folder EXCEPT ![i] = "whole"] /\ UNCHANGED disturbed
     \/ CallTo(i, "error") /\ disturbed' = disturbed \union {i} /\ UNCHANGED folder
  /\ UNCHANGED <<libraryVars, listingVars, restarts>>

Adding(i) ==
  /\ stage[i] = "adding"
  /\ \/ i \notin Known(games) /\ CallTo(i, "writing") /\ ReadToAdd(i)
     \/ CallTo(i, "error") /\ UNCHANGED libraryVars
  /\ UNCHANGED <<folder, listingVars, disturbed, restarts>>

(* The answer is the game, as toLibraryGame shows it. *)
Added(i) ==
  /\ stage[i] = "writing"
  /\ \/ WriteAdded(i, i, folder[i] = "whole") /\ CallTo(i, "ok")
     \/ CallTo(i, "error") /\ UNCHANGED libraryVars
  /\ UNCHANGED <<folder, listingVars, disturbed, restarts>>

(* listLibrary: synchronizeRomDirectory reads the library, then the names  *)
(* in the folder, then each file it does not know, and registers it.       *)
BeginListing(c) ==
  /\ stage[c] = "idle" /\ CallTo(c, "knowing")
  /\ present' = [present EXCEPT ![c] = {r \in Roms : folder[r] = "whole"}]
  /\ UNCHANGED <<folder, libraryVars, known, found, bytes, listed, disturbed, restarts>>

LibraryRead(c) ==
  /\ stage[c] = "knowing"
  /\ \/ CallTo(c, "naming") /\ known' = [known EXCEPT ![c] = Known(games)]
     \/ CallTo(c, "listing") /\ UNCHANGED known   \* the library cannot be read
  /\ UNCHANGED <<folder, libraryVars, found, bytes, listed, present, disturbed, restarts>>

NamesRead(c) ==
  /\ stage[c] = "naming" /\ CallTo(c, "reading")
  /\ found' = [found EXCEPT ![c] = {r \in Roms : folder[r] # "absent"} \ known[c]]
  /\ UNCHANGED <<folder, libraryVars, known, bytes, listed, present, disturbed, restarts>>

(* Mutant: any file will do. *)
FileReadUnsized(c) ==
  /\ stage[c] = "reading"
  /\ \E r \in found[c] :
       /\ found' = [found EXCEPT ![c] = @ \ {r}]
       /\ CallTo(c, "opened") /\ bytes' = [bytes EXCEPT ![c] = <<r, folder[r]>>]
  /\ UNCHANGED <<folder, libraryVars, known, listed, present, disturbed, restarts>>

(* A file is read as far as it is there; one that is unfit is passed over, *)
(* and one that cannot be read fails the listing.                          *)
FileRead(c) ==
  /\ stage[c] = "reading"
  /\ \E r \in found[c] :
       /\ found' = [found EXCEPT ![c] = @ \ {r}]
       /\ \/ folder[r] = "unfit" /\ UNCHANGED <<stage, bytes, disturbed>>
          \/ /\ folder[r] \in {"part", "whole"}
             /\ CallTo(c, "opened") /\ bytes' = [bytes EXCEPT ![c] = <<r, folder[r]>>]
             /\ disturbed' = disturbed \union ({r} \intersect Copying)
          \/ CallTo(c, "error") /\ UNCHANGED <<bytes, disturbed>>
  /\ UNCHANGED <<folder, libraryVars, known, listed, present, restarts>>

(* The result of add is not looked at; a failure is left for the next      *)
(* listing.                                                                *)
FileOpened(c) ==
  /\ stage[c] = "opened"
  /\ \/ bytes[c][1] \notin Known(games) /\ CallTo(c, "registering") /\ ReadToAdd(c)
     \/ CallTo(c, "reading") /\ UNCHANGED libraryVars
  /\ UNCHANGED <<folder, listingVars, disturbed, restarts>>

FileRegistered(c) ==
  /\ stage[c] = "registering" /\ CallTo(c, "reading")
  /\ WriteAdded(c, bytes[c][1], bytes[c][2] = "whole") \/ UNCHANGED libraryVars
  /\ bytes' = [bytes EXCEPT ![c] = NoBytes]
  /\ UNCHANGED <<folder, known, found, listed, present, disturbed, restarts>>

Synchronized(c) ==
  /\ stage[c] = "reading" /\ found[c] = {} /\ CallTo(c, "listing")
  /\ UNCHANGED <<folder, libraryVars, listingVars, disturbed, restarts>>

(* The library is read again and every game turned into what the renderer  *)
(* may see of it.                                                          *)
ListingAnswered(c) ==
  /\ stage[c] = "listing"
  /\ \/ CallTo(c, "ok") /\ listed' = [listed EXCEPT ![c] = Known(games)]
     \/ CallTo(c, "error") /\ UNCHANGED listed
  /\ UNCHANGED <<folder, libraryVars, known, found, bytes, present, disturbed, restarts>>

(* The program ends and is started again: the files stay as they are. *)
Restart ==
  /\ restarts < MaxRestarts /\ restarts' = restarts + 1
  /\ stage' = [c \in Calls |-> IF stage[c] \in {"idle", "ok", "cancelled", "error"}
                               THEN stage[c] ELSE "lost"]
  /\ disturbed' = disturbed \union Copying
  /\ UNCHANGED <<folder, libraryVars, listingVars>>

FolderGoesOn ==
  \/ \E i \in Imports : Chosen(i) \/ Copied(i) \/ Adding(i) \/ Added(i)
  \/ \E c \in Listings :
       \/ LibraryRead(c) \/ NamesRead(c) \/ FileRead(c) \/ FileOpened(c) \/ FileRegistered(c)
       \/ Synchronized(c) \/ ListingAnswered(c)

FolderNext ==
  \/ \E i \in Imports : BeginImport(i)
  \/ \E c \in Listings : BeginListing(c)
  \/ FolderGoesOn
  \/ Restart

FolderSpec == FolderInit /\ [][FolderNext]_folderVars
-----------------------------------------------------------------------------
(* An import that answered with its game has it in the library, made from  *)
(* the whole file, as long as no two adds overlap: overlapping, the later  *)
(* write takes back what the earlier one has added.  Otherwise a game is   *)
(* made from part of its file only if the file was read while it was       *)
(* copied, or its copy was cut short by an error or the end of the program:*)
(* the copy is not made under a temporary name.                            *)
GamesAreWhole ==
  /\ \A i \in Imports :
       stage[i] = "ok" => [rom |-> i, whole |-> TRUE] \in games \/ overlapped
  /\ \A g \in games : g.whole \/ g.rom \in disturbed
=============================================================================
