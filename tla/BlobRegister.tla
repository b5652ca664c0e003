---------------------------- MODULE BlobRegister ----------------------------
(***************************************************************************)
(* What slots.c relies on in read_blob and write_blob: one register in     *)
(* stable storage.  A call may fail; a write that fails may have taken     *)
(* place, one that is acknowledged has; a read never makes anything up,    *)
(* and says "not found" of an empty register only.  These are the answers  *)
(* Slots.tla allows in LoadResult, WriteBlob and ReadBackResult.           *)
(***************************************************************************)
CONSTANTS
    Blobs,   \* contents of ECONTAINER_SLOT_BLOB_BYTES bytes
    Absent,  \* content of a register never written
    Damaged  \* a stored value of another size

VARIABLES
    store,   \* what is in stable storage
    call,    \* the call in progress: "none", "read", "write"
    blob,    \* the argument of a write, the output of a read
    answer   \* what the last call returned

register == <<store, call, blob, answer>>

RegisterInit ==
    /\ store \in Blobs \cup {Absent, Damaged}
    /\ call = "none"
    /\ blob = Absent
    /\ answer = "none"

Read ==
    /\ call = "none" /\ call' = "read"
    /\ blob' = Absent /\ answer' = "none"
    /\ UNCHANGED store

Write(b) ==
    /\ call = "none" /\ call' = "write"
    /\ blob' = b /\ answer' = "none"
    /\ UNCHANGED store

(* A write takes effect at one moment before it ends, or not at all. *)
Effect ==
    /\ call = "write"
    /\ store' = blob
    /\ UNCHANGED <<call, blob, answer>>

ReadEnds ==
    /\ call = "read" /\ call' = "none"
    /\ \/ answer' = "FOUND" /\ store \in Blobs /\ blob' = store
       \/ answer' = "NOT_FOUND" /\ store = Absent /\ UNCHANGED blob
       \/ answer' = "READ_FAILED" /\ UNCHANGED blob
    /\ UNCHANGED store

WriteEnds ==
    /\ call = "write" /\ call' = "none"
    /\ \/ answer' = "TRUE" /\ store' = blob
       \/ answer' = "FALSE" /\ store' \in {store, blob}
    /\ UNCHANGED blob

(* The caller is gone; a write in progress may still have taken place. *)
PowerLoss ==
    /\ call' = "none" /\ blob' = Absent /\ answer' = "none"
    /\ store' \in IF call = "write" THEN {store, blob} ELSE {store}

RegisterNext ==
    \/ Read \/ (\E b \in Blobs : Write(b))
    \/ Effect \/ ReadEnds \/ WriteEnds \/ PowerLoss

RegisterSpec == RegisterInit /\ [][RegisterNext]_register
=============================================================================
