-------------------------------- MODULE MCParts --------------------------------
(***************************************************************************)
(* Parts that are checked one at a time, in one run: the threads of the    *)
(* two emulator cores, the clock both run by, and the renderer.  A         *)
(* behaviour is one of SameBoyWorker, of MgbaWorker, of FramePacing or of  *)
(* RendererSession, and what the others declare does not move.             *)
(***************************************************************************)
EXTENDS SameBoyWorker, FramePacing, RendererSession

VARIABLES part,
          mgbaHasRom, mgbaStatus, mgbaTimers, mgbaReply, saveIn

Mgba == INSTANCE MgbaWorker
        WITH hasRom <- mgbaHasRom, status <- mgbaStatus,
             timers <- mgbaTimers, reply <- mgbaReply

mgbaVars  == <<mgbaHasRom, mgbaStatus, mgbaTimers, mgbaReply, saveIn>>
partsVars == <<part, sameBoyVars, mgbaVars, pacingVars, rendererVars>>

PartsInit ==
  /\ part \in {"SameBoy", "mGBA", "pacing", "renderer"}
  /\ Init /\ Mgba!Init /\ PacingInit /\ RendererInit
  /\ part # "renderer" => connected /\ device = "keyboard"

PartsNext ==
  /\ \/ part = "SameBoy" /\ Next /\ UNCHANGED <<mgbaVars, pacingVars, rendererVars>>
     \/ part = "mGBA" /\ Mgba!Next /\ UNCHANGED <<sameBoyVars, pacingVars, rendererVars>>
     \/ part = "pacing" /\ PacingNext /\ UNCHANGED <<sameBoyVars, mgbaVars, rendererVars>>
     \/ part = "renderer" /\ RendererNext /\ UNCHANGED <<sameBoyVars, mgbaVars, pacingVars>>
  /\ UNCHANGED part

PartsSpec == PartsInit /\ [][PartsNext]_partsVars

(* Types of the four parts. *)
PartsTypeOK == TypeOK /\ Mgba!TypeOK /\ PacingTypeOK /\ RendererTypeOK

(* SameBoyWorker and MgbaWorker: each thread keeps what EmulatorSessions   *)
(* assumes of it, that frames run exactly while the session is running.    *)
ThreadsAreAsAssumed == ImplementsThread /\ Mgba!ImplementsThread
=============================================================================
