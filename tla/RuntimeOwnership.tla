-------------------------- MODULE RuntimeOwnership --------------------------
(***************************************************************************)
(* Who owns the Wasm engine: econtainer_runtime_open and _close called by  *)
(* several tasks, and methods called by other tasks on an open instance.   *)
(* The engine (WAMR) has process-global state, so the atomic claim         *)
(* runtime_claimed admits one opener; opening acquires resources in stages *)
(* that may each fail, and release_runtime gives back what was acquired.   *)
(*                                                                         *)
(* A refusal before the claim (bad limits, bad module, missing capability) *)
(* and a method refused with BUSY change nothing and are no actions.  A    *)
(* caller that uses its pointer after another task closed the instance is  *)
(* outside the API's contract and not modelled.                            *)
(***************************************************************************)
EXTENDS Naturals

CONSTANTS
    Tasks,
    Imports     \* the capabilities the module imports

ASSUME OwnershipAssumption == Imports \subseteq {"monotonic_time", "log", "timer"}

VARIABLES
    runtime_claimed,
    pc,             \* of each task: "none", "opening", "ready", "releasing"
    held,           \* the resources each task's runtime holds
    call_active,    \* of each task's runtime
    inside          \* the tasks inside a method of each task's runtime

vars == <<runtime_claimed, pc, held, call_active, inside>>

(* What open needs for this module: the log buffer and the native symbols  *)
(* only if it imports what they serve.                                     *)
Needed ==
    {"struct", "copy", "wamr", "module", "instance", "env"}
        \cup (IF "log" \in Imports THEN {"log"} ELSE {})
        \cup (IF Imports # {} THEN {"natives"} ELSE {})

(* The order of acquisition in open, and of release in release_runtime.    *)
OpenRank ==
    [struct |-> 1, log |-> 2, copy |-> 3, wamr |-> 4, natives |-> 5,
     module |-> 6, instance |-> 7, env |-> 8]

(* Mutant: the copy of the module is freed before the module is unloaded. *)
MutantReleaseRank ==
    [env |-> 1, instance |-> 2, copy |-> 3, module |-> 4, natives |-> 5,
     log |-> 6, wamr |-> 7, struct |-> 8]

ReleaseRank ==
    [env |-> 1, instance |-> 2, module |-> 3, natives |-> 4, log |-> 5,
     copy |-> 6, wamr |-> 7, struct |-> 8]

IsFirst(r, S, rank) == r \in S /\ \A q \in S : rank[r] <= rank[q]

Init ==
    /\ runtime_claimed = FALSE
    /\ pc = [t \in Tasks |-> "none"]
    /\ held = [t \in Tasks |-> {}]
    /\ call_active = [t \in Tasks |-> FALSE]
    /\ inside = [t \in Tasks |-> {}]

(* The compare-and-exchange of open. *)
Claim(t) ==
    /\ pc[t] = "none"
    /\ ~runtime_claimed
    /\ runtime_claimed' = TRUE
    /\ pc' = [pc EXCEPT ![t] = "opening"]
    /\ UNCHANGED <<held, call_active, inside>>

(* A second opener gets BUSY and holds nothing. *)
OpenBusy(t) == pc[t] = "none" /\ runtime_claimed /\ UNCHANGED vars

(* The next stage of open succeeds; after the last one *out is set. *)
Acquire(t) ==
    /\ pc[t] = "opening"
    /\ \E r \in Needed \ held[t] :
          /\ IsFirst(r, Needed \ held[t], OpenRank)
          /\ held' = [held EXCEPT ![t] = @ \cup {r}]
          /\ pc' = IF Needed \subseteq held[t] \cup {r}
                   THEN [pc EXCEPT ![t] = "ready"] ELSE pc
    /\ call_active' = [call_active EXCEPT ![t] = FALSE]
    /\ UNCHANGED <<runtime_claimed, inside>>

(* Mutant: the early return forgets the claim. *)
MutantAllocationFails(t) ==
    /\ pc[t] = "opening" /\ held[t] = {}
    /\ pc' = [pc EXCEPT ![t] = "none"]
    /\ UNCHANGED <<runtime_claimed, held, call_active, inside>>

(* Without memory for the runtime itself only the claim is given back. *)
AllocationFails(t) ==
    /\ pc[t] = "opening" /\ held[t] = {}
    /\ runtime_claimed' = FALSE
    /\ pc' = [pc EXCEPT ![t] = "none"]
    /\ UNCHANGED <<held, call_active, inside>>

(* A later stage fails: no memory, an engine failure, a bad module or ABI, *)
(* or an entry point that is not found once the environment exists.        *)
StageFails(t) ==
    /\ pc[t] = "opening" /\ held[t] # {}
    /\ held' \in {held} \cup
           {[held EXCEPT ![t] = @ \cup {r}] :
               r \in {"env"} \cap {q \in Needed \ held[t] :
                                     IsFirst(q, Needed \ held[t], OpenRank)}}
    /\ pc' = [pc EXCEPT ![t] = "releasing"]
    /\ UNCHANGED <<runtime_claimed, call_active, inside>>

(* A method of t's runtime, called by any task u; claim_call admits one. *)
EnterCall(t, u) ==
    /\ pc[t] = "ready" /\ ~call_active[t]
    /\ call_active' = [call_active EXCEPT ![t] = TRUE]
    /\ inside' = [inside EXCEPT ![t] = @ \cup {u}]
    /\ UNCHANGED <<runtime_claimed, pc, held>>

LeaveCall(t, u) ==
    /\ u \in inside[t]
    /\ inside' = [inside EXCEPT ![t] = @ \ {u}]
    /\ call_active' = [call_active EXCEPT ![t] = FALSE]
    /\ UNCHANGED <<runtime_claimed, pc, held>>

(* Mutant: close does not ask whether a method is running. *)
MutantClose(t) ==
    /\ pc[t] = "ready"
    /\ call_active' = [call_active EXCEPT ![t] = TRUE]
    /\ pc' = [pc EXCEPT ![t] = "releasing"]
    /\ UNCHANGED <<runtime_claimed, held, inside>>

(* close takes the call for good and releases the runtime. *)
Close(t) ==
    /\ pc[t] = "ready" /\ ~call_active[t]
    /\ call_active' = [call_active EXCEPT ![t] = TRUE]
    /\ pc' = [pc EXCEPT ![t] = "releasing"]
    /\ UNCHANGED <<runtime_claimed, held, inside>>

(* One step of release_runtime. *)
Release(t) ==
    /\ pc[t] = "releasing"
    /\ \E r \in held[t] :
          /\ IsFirst(r, held[t], ReleaseRank)
          /\ held' = [held EXCEPT ![t] = @ \ {r}]
    /\ UNCHANGED <<runtime_claimed, pc, call_active, inside>>

(* Mutant: the claim is given back before the engine is destroyed. *)
MutantMayUnclaim(t) == held[t] \subseteq {"struct", "wamr"}

MayUnclaim(t) == held[t] = {}

(* The last statement of release_runtime. *)
Unclaim(t) ==
    /\ pc[t] = "releasing" /\ MayUnclaim(t)
    /\ runtime_claimed' = FALSE
    /\ pc' = [pc EXCEPT ![t] = "none"]
    /\ UNCHANGED <<held, call_active, inside>>

Next ==
    \E t \in Tasks :
        \/ Claim(t) \/ OpenBusy(t) \/ Acquire(t)
        \/ AllocationFails(t) \/ StageFails(t)
        \/ Close(t) \/ Release(t) \/ Unclaim(t)
        \/ \E u \in Tasks : EnterCall(t, u) \/ LeaveCall(t, u)

Spec == Init /\ [][Next]_vars

(* Opening and releasing are sequential code that waits for nothing.       *)
FairSpec ==
    /\ Spec
    /\ \A t \in Tasks : WF_vars(Acquire(t) \/ StageFails(t) \/ AllocationFails(t))
    /\ \A t \in Tasks : WF_vars(Release(t) \/ Unclaim(t))

-----------------------------------------------------------------------------
(* Properties. *)

(* Every variable has its type. *)
TypeOK ==
    /\ runtime_claimed \in BOOLEAN
    /\ pc \in [Tasks -> {"none", "opening", "ready", "releasing"}]
    /\ held \in [Tasks -> SUBSET Needed]
    /\ call_active \in [Tasks -> BOOLEAN]
    /\ inside \in [Tasks -> SUBSET Tasks]

(* At most one task holds anything of the process-global engine, whatever  *)
(* stage its open or release has reached, and when the claim is free       *)
(* nothing is held at all: no failed open leaks.                           *)
EngineExclusive ==
    /\ \A t, u \in Tasks : held[t] # {} /\ held[u] # {} => t = u
    /\ ~runtime_claimed => \A t \in Tasks : held[t] = {}

(* What one resource is built on outlives it: the module refers to the     *)
(* copy of its bytes and to the natives, everything of the engine needs    *)
(* the engine, and native symbols live in the runtime structure.           *)
NothingDangles ==
    \A t \in Tasks :
        /\ "env" \in held[t] => "instance" \in held[t]
        /\ "instance" \in held[t] => "module" \in held[t]
        /\ "module" \in held[t] =>
               {"copy", "wamr"} \cup (Needed \cap {"natives"}) \subseteq held[t]
        /\ "natives" \in held[t] => {"wamr", "struct"} \subseteq held[t]
        /\ "wamr" \in held[t] => "struct" \in held[t]

(* A method never runs beside another one of the same runtime, nor while   *)
(* the runtime is being released.                                          *)
CallsProtected ==
    \A t \in Tasks : \A u \in inside[t] :
        inside[t] = {u} /\ pc[t] = "ready" /\ held[t] = Needed /\ call_active[t]

(* The engine is never lost: every open ends with an instance or with the  *)
(* claim given back, and so does every close.                              *)
ClaimReturned ==
    \A t \in Tasks :
        /\ pc[t] = "opening" ~> (pc[t] = "ready" \/ ~runtime_claimed)
        /\ pc[t] = "releasing" ~> ~runtime_claimed
=============================================================================
