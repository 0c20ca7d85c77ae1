--------------------------- MODULE EmulatorSessions ---------------------------
(***************************************************************************)
(* Emulator sessions as their callers in the main process see them: the    *)
(* session objects of the two cores (sameboy-session.ts, mgba-session.ts), *)
(* each a proxy for a worker thread that serves one request at a time, in  *)
(* the order they were posted.  A session is named by the host call that   *)
(* created it, and a request by the host call that awaits its answer: a    *)
(* call awaits one answer at a time.                                       *)
(*                                                                         *)
(* The thread and the delivery of its messages are one step here: the      *)
(* messages of a thread arrive in the order it posted them, so a message   *)
(* delivered late is a thread that ran late.                               *)
(***************************************************************************)
EXTENDS Naturals, Sequences

CONSTANTS Calls,       \* the host calls of a behaviour, positive numbers
          Cores,       \* the emulator cores
          MgbaCores,   \* the cores whose sessions are MgbaWorkerSessions
          MaxBattery   \* bound: versions of the battery RAM of a session

ASSUME SessionsAssumption ==
  /\ Calls \subseteq Nat \ {0}
  /\ MgbaCores \subseteq Cores
  /\ MaxBattery \in Nat

NoCore    == "no core"
NoSession == 0
Session   == Calls

VARIABLES core,     \* the core of each session
          worker,   \* its thread
          status,   \* #status: the status the thread last reported
          loaded,   \* the thread has a ROM (hasRom)
          battery,  \* the version of the battery RAM; 0: none on the cartridge
          inbox,    \* the requests posted to the thread and not yet served
          request   \* what each host call awaits (#pending)

sessionVars == <<core, worker, status, loaded, battery, inbox, request>>

(* The status an EmulatorSession reports. *)
Status  == {"idle", "running", "paused", "stopped", "failed"}
Worker  == {"none", "live", "crashed", "exiting", "gone"}
Kind    == {"load-rom", "start", "pause", "resume", "stop",
            "capture-save-state", "restore-save-state"}
Answer  == {"waiting", "ok", "save", "error"}
Request == [session : Session, kind : Kind, answer : Answer]
NoRequest == [session |-> NoSession, kind |-> "none", answer |-> "none"]

(* Types, and: whatever is in the inbox of a thread is a request that some *)
(* call still waits for.                                                   *)
SessionsTypeOK ==
  /\ core \in [Session -> Cores \union {NoCore}]
  /\ worker \in [Session -> Worker]
  /\ status \in [Session -> Status]
  /\ loaded \in [Session -> BOOLEAN]
  /\ battery \in [Session -> 0..MaxBattery]
  /\ inbox \in [Session -> Seq([call : Calls, kind : Kind])]
  /\ request \in [Calls -> Request \union {NoRequest}]
  /\ \A s \in Session : \A i \in DOMAIN inbox[s] :
       request[inbox[s][i].call] =
         [session |-> s, kind |-> inbox[s][i].kind, answer |-> "waiting"]

SessionsInit ==
  /\ core = [s \in Session |-> NoCore]
  /\ worker = [s \in Session |-> "none"]
  /\ status = [s \in Session |-> "idle"]
  /\ loaded = [s \in Session |-> FALSE]
  /\ battery = [s \in Session |-> 0]
  /\ inbox = [s \in Session |-> <<>>]
  /\ request = [c \in Calls |-> NoRequest]
-----------------------------------------------------------------------------
(* The session objects.                                                    *)

IsMgba(s) == core[s] \in MgbaCores

(* #terminated of MgbaWorkerSession: set when the thread failed, ended or  *)
(* was told to end.  SameBoyWorkerSession keeps no such flag.              *)
Terminated(s) == worker[s] \in {"crashed", "exiting", "gone"}

Reaches(s) == worker[s] \in {"live", "exiting"}

Answered(c) == request[c].answer \in {"ok", "save", "error"}

(* createSession, and loadRom, which the controller calls before anything  *)
(* else can happen: the thread is created and the first request posted.    *)
Open(c, k) ==
  /\ worker[c] = "none"
  /\ core' = [core EXCEPT ![c] = k]
  /\ worker' = [worker EXCEPT ![c] = "live"]
  /\ inbox' = [inbox EXCEPT ![c] = <<[call |-> c, kind |-> "load-rom"]>>]
  /\ request' = [request EXCEPT ![c] =
       [session |-> c, kind |-> "load-rom", answer |-> "waiting"]]
  /\ UNCHANGED <<status, loaded, battery>>

(* request(command): an MgbaWorkerSession that is terminated answers at    *)
(* once; in every other case the promise waits for the thread, even when   *)
(* the thread no longer exists.                                            *)
Post(c, s, kind) ==
  LET refused == IsMgba(s) /\ Terminated(s) IN
    /\ request' = [request EXCEPT ![c] =
         [session |-> s, kind |-> kind,
          answer |-> IF refused THEN "error" ELSE "waiting"]]
    /\ inbox' = IF ~refused /\ Reaches(s)
                THEN [inbox EXCEPT ![s] = Append(@, [call |-> c, kind |-> kind])]
                ELSE inbox
    /\ UNCHANGED <<core, worker, status, loaded, battery>>

(* Mutant: the pending requests are forgotten, not answered. *)
FailedQuietly(s) ==
  /\ status' = [status EXCEPT ![s] = "failed"]
  /\ UNCHANGED request

(* fail(message): the status is failed and every pending request answered. *)
Failed(s) ==
  /\ status' = [status EXCEPT ![s] = "failed"]
  /\ request' = [c \in Calls |->
       IF request[c].session = s /\ request[c].answer = "waiting"
       THEN [request[c] EXCEPT !.answer = "error"] ELSE request[c]]

(* worker.terminate(): the thread ends soon; its event loop may still get  *)
(* to the requests it has.                                                 *)
Terminate(s) ==
  worker' = [worker EXCEPT ![s] = IF @ = "live" THEN "exiting" ELSE @]

(* The error event: the thread died of an exception. *)
WorkerCrash(s) ==
  /\ worker[s] = "live"
  /\ worker' = [worker EXCEPT ![s] = "crashed"]
  /\ inbox' = [inbox EXCEPT ![s] = <<>>]
  /\ Failed(s)
  /\ UNCHANGED <<core, loaded, battery>>

(* The exit event, with a code that is not 0: after a stop the requests    *)
(* that the thread did not get to keep waiting; otherwise they fail.       *)
WorkerExit(s) ==
  /\ worker[s] \in {"crashed", "exiting"}
  /\ worker' = [worker EXCEPT ![s] = "gone"]
  /\ inbox' = [inbox EXCEPT ![s] = <<>>]
  /\ IF status[s] = "stopped" THEN UNCHANGED <<status, request>> ELSE Failed(s)
  /\ UNCHANGED <<core, loaded, battery>>
-----------------------------------------------------------------------------
(* The thread: one request of its message port, handled to the end.        *)

(* The oldest request of session s is of this kind; the thread answers it  *)
(* and reports its status with the answer.                                 *)
Serving(s, kind) ==
  Reaches(s) /\ inbox[s] # <<>> /\ Head(inbox[s]).kind = kind

Reply(s, answer, newStatus) ==
  /\ request' = [request EXCEPT ![Head(inbox[s]).call].answer = answer]
  /\ inbox' = [inbox EXCEPT ![s] = Tail(@)]
  /\ status' = [status EXCEPT ![s] = newStatus]
  /\ UNCHANGED <<core, worker>>

(* The ROM is accepted, or it or its save is refused: a save is refused    *)
(* when the ROM is in the core already.  Either way its cartridge may have *)
(* battery RAM.                                                            *)
ServeLoad(s) ==
  /\ Serving(s, "load-rom")
  /\ \/ Reply(s, "ok", status[s]) /\ loaded' = [loaded EXCEPT ![s] = TRUE]
     \/ Reply(s, "error", status[s]) /\ UNCHANGED loaded
  /\ \E b \in {0, 1} : b <= MaxBattery /\ battery' = [battery EXCEPT ![s] = b]

(* start, pause and resume: allowed from some states, and then the new one *)
ServeTransition(s) ==
  /\ \/ /\ Serving(s, "start")
        /\ IF loaded[s] /\ status[s] \in {"idle", "stopped"}
           THEN Reply(s, "ok", "running") ELSE Reply(s, "error", status[s])
     \/ /\ Serving(s, "pause")
        /\ IF status[s] = "running"
           THEN Reply(s, "ok", "paused") ELSE Reply(s, "error", status[s])
     \/ /\ Serving(s, "resume")
        /\ IF status[s] = "paused"
           THEN Reply(s, "ok", "running") ELSE Reply(s, "error", status[s])
  /\ UNCHANGED <<loaded, battery>>

(* stop: the answer carries the battery RAM, if the cartridge has any.     *)
(* SameBoy reads it only with a ROM (hasRom), mGBA also after it refused   *)
(* the save of one.  An exception of the mGBA core is caught and answered  *)
(* after the status changed; one of SameBoy ends the thread (WorkerCrash). *)
ExportsSave(s) == battery[s] > 0 /\ (loaded[s] \/ IsMgba(s))

ServeStop(s) ==
  /\ Serving(s, "stop")
  /\ \/ Reply(s, IF ExportsSave(s) THEN "save" ELSE "ok", "stopped")
     \/ IsMgba(s) /\ Reply(s, "error", "stopped")
  /\ UNCHANGED <<loaded, battery>>

(* Save states: only of an active session, and the core may fail or refuse *)
ServeState(s) ==
  /\ Serving(s, "capture-save-state") \/ Serving(s, "restore-save-state")
  /\ \/ /\ loaded[s] /\ status[s] \in {"running", "paused"}
        /\ Reply(s, "ok", status[s])
     \/ Reply(s, "error", status[s])
  /\ UNCHANGED <<loaded, battery>>

(* The game writes to its battery RAM while frames run. *)
Play(s) ==
  /\ Reaches(s) /\ status[s] = "running"
  /\ battery[s] \in 1..(MaxBattery - 1)
  /\ battery' = [battery EXCEPT ![s] = @ + 1]
  /\ UNCHANGED <<core, worker, status, loaded, inbox, request>>

(* Between two frames the thread may emit its battery RAM (runFrame). *)
MayEmitSave(s) == worker[s] = "live" /\ status[s] = "running" /\ battery[s] > 0

Serve(s) ==
  ServeLoad(s) \/ ServeTransition(s) \/ ServeStop(s) \/ ServeState(s)

WorkerStep(s) == Serve(s) \/ Play(s) \/ WorkerCrash(s) \/ WorkerExit(s)
-----------------------------------------------------------------------------
(* A request whose promise can no longer be settled: nothing is left that  *)
(* would answer it or fail it.                                             *)
Abandoned(c) ==
  /\ request[c].answer = "waiting"
  /\ worker[request[c].session] = "gone"
=============================================================================
