-------------------------------- MODULE MCStorage --------------------------------
(***************************************************************************)
(* The stores of the main process, checked one at a time in one run: a     *)
(* behaviour is one of CartridgeSaveStore, of LocalGameLibrary or of       *)
(* SaveStates, and what the others declare does not move.                  *)
(***************************************************************************)
EXTENDS CartridgeSaveStore, LocalGameLibrary, SaveStates

VARIABLE store \* the store this behaviour is about

ASSUME LibraryAssumption /\ StorageAssumption /\ RequestsAssumption

storesVars == <<store, vars, libraryVars, stateVars>>

StoresInit ==
  /\ store \in {"cartridge saves", "library", "save states"}
  /\ Init /\ LibraryInit /\ StatesInit
  /\ store # "library" => document = "library.json"
  /\ store # "save states" => \A s \in Slots : entry[s] = NoState

StoresNext ==
  /\ \/ store = "cartridge saves" /\ Next /\ UNCHANGED <<libraryVars, stateVars>>
     \/ store = "library" /\ LibraryNext /\ UNCHANGED <<vars, stateVars>>
     \/ store = "save states" /\ StatesNext /\ UNCHANGED <<vars, libraryVars>>
  /\ UNCHANGED store

(* The file system answers and continuations run: one after the other the  *)
(* operations under way go on.                                             *)
GoOn ==
  /\ \/ /\ store = "cartridge saves"
        /\ \E w \in Write : Progress(w)
        /\ UNCHANGED <<libraryVars, stateVars>>
     \/ /\ store = "library"
        /\ \E c \in Calls : Continue(c)
        /\ UNCHANGED <<vars, stateVars>>
     \/ /\ store = "save states"
        /\ \E c \in Requests : StateStep(c)
        /\ UNCHANGED <<vars, libraryVars>>
  /\ UNCHANGED store

StoresSpec == StoresInit /\ [][StoresNext]_storesVars /\ WF_storesVars(GoOn)
-----------------------------------------------------------------------------
UnderWay ==
  \/ \E w \in Write : step[w] \in Begun \union {"queued"}
  \/ \E c \in Calls : phase[c] \in {"listing", "storing"}
  \/ \E c \in Requests : progress[c] \notin Finished \union {"idle"}

(* Every call of the three stores returns, whatever fails before it: no    *)
(* failure holds up a queue of promises.                                   *)
EveryStorageCallReturns == []<>~UnderWay
=============================================================================
