------------------------------ MODULE NvsBlob ------------------------------
(***************************************************************************)
(* provider_read_blob and provider_write_blob of slots_idf.c, one step for *)
(* each call of the NVS library.  The library is external: any of its      *)
(* calls may fail, a value that was set is durable for certain only after  *)
(* a commit, and the power may fail between two calls.                     *)
(***************************************************************************)
EXTENDS Naturals

CONSTANTS Blobs, Absent, Damaged

VARIABLES
    namespace,  \* the namespace exists in the NVS partition
    entry,      \* the durable value of the key
    staged,     \* values set and not yet committed, at most one
    handles,    \* NVS handles that are open
    nvs_pc,     \* the next NVS call of the running function
    blob,       \* the caller's buffer
    answer      \* what the last function returned

nvs_vars == <<namespace, entry, staged, handles, nvs_pc, blob, answer>>

NvsInit ==
    /\ namespace \in BOOLEAN
    /\ entry \in IF namespace THEN Blobs \cup {Absent, Damaged} ELSE {Absent}
    /\ staged = {}
    /\ handles = 0
    /\ nvs_pc = "idle"
    /\ blob = Absent
    /\ answer = "none"

Return(r) == nvs_pc' = "idle" /\ answer' = r

ReadBlob ==
    /\ nvs_pc = "idle" /\ nvs_pc' = "read_open"
    /\ blob' = Absent /\ answer' = "none"
    /\ UNCHANGED <<namespace, entry, staged, handles>>

(* Mutant: any failure to open is taken for an empty store. *)
MutantReadOpen ==
    /\ nvs_pc = "read_open"
    /\ \/ namespace /\ handles' = handles + 1 /\ nvs_pc' = "read_size" /\ UNCHANGED answer
       \/ Return("NOT_FOUND") /\ UNCHANGED handles
    /\ UNCHANGED <<namespace, entry, staged, blob>>

ReadOpen ==
    /\ nvs_pc = "read_open"
    /\ \/ /\ namespace
          /\ handles' = handles + 1 /\ nvs_pc' = "read_size"
          /\ UNCHANGED answer
       \/ ~namespace /\ Return("NOT_FOUND") /\ UNCHANGED handles
       \/ Return("READ_FAILED") /\ UNCHANGED handles
    /\ UNCHANGED <<namespace, entry, staged, blob>>

(* Mutant: the handle is not closed when the size is wrong. *)
MutantReadSize ==
    /\ nvs_pc = "read_size"
    /\ \/ entry \in Blobs /\ nvs_pc' = "read_value" /\ UNCHANGED <<handles, answer>>
       \/ entry = Absent /\ Return("NOT_FOUND") /\ handles' = handles - 1
       \/ Return("READ_FAILED") /\ UNCHANGED handles
    /\ UNCHANGED <<namespace, entry, staged, blob>>

ReadSize ==
    /\ nvs_pc = "read_size"
    /\ \/ /\ entry \in Blobs          \* ESP_OK and ECONTAINER_SLOT_BLOB_BYTES
          /\ nvs_pc' = "read_value"
          /\ UNCHANGED <<handles, answer>>
       \/ entry = Absent /\ Return("NOT_FOUND") /\ handles' = handles - 1
       \/ Return("READ_FAILED") /\ handles' = handles - 1
    /\ UNCHANGED <<namespace, entry, staged, blob>>

ReadValue ==
    /\ nvs_pc = "read_value"
    /\ handles' = handles - 1
    /\ \/ Return("FOUND") /\ blob' = entry
       \/ Return("READ_FAILED") /\ UNCHANGED blob
    /\ UNCHANGED <<namespace, entry, staged>>

WriteBlob(b) ==
    /\ nvs_pc = "idle" /\ nvs_pc' = "write_open"
    /\ blob' = b /\ answer' = "none"
    /\ UNCHANGED <<namespace, entry, staged, handles>>

(* Opening for writing creates the namespace. *)
WriteOpen ==
    /\ nvs_pc = "write_open"
    /\ \/ /\ namespace' = TRUE
          /\ handles' = handles + 1 /\ nvs_pc' = "set_blob"
          /\ UNCHANGED answer
       \/ Return("FALSE") /\ UNCHANGED <<namespace, handles>>
    /\ UNCHANGED <<entry, staged, blob>>

(* Whether a value that was set and not committed stays is not known. *)
Settle == entry' \in {entry} \cup staged /\ staged' = {}

SetBlob ==
    /\ nvs_pc = "set_blob"
    /\ \/ /\ staged' = {blob} /\ nvs_pc' = "commit"
          /\ UNCHANGED <<handles, answer>>
       \/ Return("FALSE") /\ handles' = handles - 1 /\ UNCHANGED staged
    /\ UNCHANGED <<namespace, entry, blob>>

Commit ==
    /\ nvs_pc = "commit"
    /\ handles' = handles - 1
    /\ \/ Return("TRUE") /\ entry' = blob /\ staged' = {}
       \/ Return("FALSE") /\ Settle
    /\ UNCHANGED <<namespace, blob>>

NvsPowerLoss ==
    /\ nvs_pc' = "idle" /\ handles' = 0 /\ blob' = Absent /\ answer' = "none"
    /\ Settle
    /\ UNCHANGED namespace

NvsNext ==
    \/ ReadBlob \/ ReadOpen \/ ReadSize \/ ReadValue
    \/ (\E b \in Blobs : WriteBlob(b)) \/ WriteOpen \/ SetBlob \/ Commit
    \/ NvsPowerLoss

NvsSpec == NvsInit /\ [][NvsNext]_nvs_vars

-----------------------------------------------------------------------------
(* No way out of read_blob or write_blob leaves an NVS handle open, however*)
(* often the engine calls them: the callers poll for the life of the device.*)
HandlesClosed == nvs_pc = "idle" => handles = 0

(* The call of the engine a step of the two functions belongs to. *)
RegisterCall ==
    IF nvs_pc = "idle" THEN "none"
    ELSE IF nvs_pc \in {"read_open", "read_size", "read_value"} THEN "read" ELSE "write"

Register == INSTANCE BlobRegister WITH store <- entry, call <- RegisterCall

(* The two functions are the register the engine takes them for: an answer *)
(* "not found" is never a failure in disguise (the engine would install    *)
(* over live bindings), a found record is the stored one in full, and what *)
(* write_blob acknowledges survives the next loss of power.                *)
RefinesRegister == Register!RegisterSpec
=============================================================================
