---------------------------- MODULE JsonFileStorage ----------------------------
(***************************************************************************)
(* JsonFileStorage (json-file-storage.ts): one JSON file that holds the    *)
(* values of all keys.  write and remove read the whole file, change one   *)
(* key and write all of it to a temporary file, whose name is the same for *)
(* every call, before it is renamed; the chain `mutations` keeps the calls *)
(* apart.  A value is the set of the calls whose change it contains.       *)
(***************************************************************************)
EXTENDS Naturals, Sequences

CONSTANTS Calls,    \* the calls of a behaviour, numbered as they are made
          JsonKeys  \* the keys of the file

StorageAssumption == Calls \subseteq Nat

Value   == SUBSET Calls
Absent  == {}
Garbage == <<>> \* part of a document: it has no keys to be read
NoneYet == "no key"

VARIABLES json,       \* the values on disk
          temporary,  \* the temporary file: a document, or a part of one
          mutations,  \* the calls in the chain; the first is running
          reached,    \* how far each is: none, queued, read, written, ok, error
          key, value, \* what it is to write
          data,       \* what it read
          stored      \* history: the calls whose document was renamed

storageVars ==
  <<json, temporary, mutations, reached, key, value, data, stored>>

Empty == [k \in JsonKeys |-> Absent]

StorageInit ==
  /\ json = Empty /\ temporary = Empty /\ data = Empty
  /\ mutations = <<>>
  /\ reached = [c \in Calls |-> "none"]
  /\ key = [c \in Calls |-> NoneYet]
  /\ value = [c \in Calls |-> Absent]
  /\ stored = {}

(* write(domain, key, value); remove writes Absent.  The call waits for    *)
(* its turn in the chain.                                                  *)
Mutate(c, k, v) ==
  /\ reached[c] = "none"
  /\ mutations' = Append(mutations, c)
  /\ reached' = [reached EXCEPT ![c] = "queued"]
  /\ key' = [key EXCEPT ![c] = k]
  /\ value' = [value EXCEPT ![c] = v]
  /\ UNCHANGED <<json, temporary, data, stored>>

(* The mutation the chain has come to. *)
Running(c) == mutations # <<>> /\ Head(mutations) = c

(* The promise of the mutation that runs is settled: the chain moves on. *)
Settle(c, result) ==
  /\ reached' = [reached EXCEPT ![c] = result]
  /\ mutations' = Tail(mutations)

(* readData: the file is read, or cannot be. *)
ReadData(c) ==
  /\ Running(c) /\ reached[c] = "queued"
  /\ \/ /\ data' = json
        /\ reached' = [reached EXCEPT ![c] = "read"]
        /\ UNCHANGED mutations
     \/ /\ Settle(c, "error")
        /\ UNCHANGED data
  /\ UNCHANGED <<json, temporary, key, value, stored>>

(* writeData: the document goes to the temporary file, whole or not. *)
WriteDocument(c) ==
  /\ Running(c) /\ reached[c] = "read"
  /\ \/ /\ temporary' = [data EXCEPT ![key[c]] = value[c]]
        /\ reached' = [reached EXCEPT ![c] = "written"]
        /\ UNCHANGED mutations
     \/ /\ temporary' \in {temporary, Garbage}
        /\ Settle(c, "error")
  /\ UNCHANGED <<json, key, value, data, stored>>

(* Mutant: a failed rename is not reported. *)
RenameQuietly(c) ==
  /\ Running(c) /\ reached[c] = "written"
  /\ \/ json' = temporary /\ stored' = stored \union {c}
     \/ UNCHANGED <<json, stored>>
  /\ Settle(c, "ok")
  /\ UNCHANGED <<temporary, key, value, data>>

(* rename: the document replaces the file at once, or not at all. *)
RenameDocument(c) ==
  /\ Running(c) /\ reached[c] = "written"
  /\ \/ /\ json' = temporary
        /\ stored' = stored \union {c}
        /\ Settle(c, "ok")
     \/ /\ Settle(c, "error")
        /\ UNCHANGED <<json, stored>>
  /\ UNCHANGED <<temporary, key, value, data>>

StorageStep(c) == ReadData(c) \/ WriteDocument(c) \/ RenameDocument(c)

(* The process ends and starts again; a write under way leaves part of its *)
(* document in the temporary file.                                         *)
StorageCrash ==
  /\ mutations' = <<>>
  /\ data' = Empty
  /\ temporary' \in {temporary, Garbage}
  /\ reached' = [c \in Calls |->
       IF reached[c] \in {"ok", "error"} THEN reached[c] ELSE "none"]
  /\ UNCHANGED <<json, key, value, stored>>
=============================================================================
