----------------------- MODULE RuntimeOwnershipProofs -----------------------
(* Proofs about RuntimeOwnership, for any set of tasks and any module. *)
EXTENDS RuntimeOwnership, TLAPS

(* The inductive invariant: the claim is held by the one task that is not  *)
(* idle, an idle task holds nothing, and a method is inside only a ready   *)
(* runtime whose call_active is set.                                       *)
OwnerInv ==
    /\ TypeOK
    /\ \A t \in Tasks : pc[t] = "none" => held[t] = {}
    /\ \A t \in Tasks : pc[t] # "none" => runtime_claimed
    /\ \A t, u \in Tasks : pc[t] # "none" /\ pc[u] # "none" => t = u
    /\ \A t \in Tasks : pc[t] = "ready" => held[t] = Needed
    /\ \A t \in Tasks : pc[t] # "ready" => inside[t] = {}
    /\ \A t \in Tasks : ~call_active[t] => inside[t] = {}
    /\ \A t \in Tasks : \A u, v \in inside[t] : u = v

(* Initially no task owns anything. *)
LEMMA InitOwner == Init => OwnerInv
BY DEF Init, OwnerInv, TypeOK

(* Every step of open, of release_runtime and of a method keeps OwnerInv. *)
LEMMA NextOwner == OwnerInv /\ [Next]_vars => OwnerInv'
<1> SUFFICES ASSUME OwnerInv, [Next]_vars PROVE OwnerInv'
  OBVIOUS
<1>1. CASE UNCHANGED vars
  BY <1>1 DEF OwnerInv, TypeOK, vars
<1>2. ASSUME NEW t \in Tasks, Claim(t) PROVE OwnerInv'
  BY <1>2 DEF OwnerInv, TypeOK, Claim
<1>3. ASSUME NEW t \in Tasks, OpenBusy(t) PROVE OwnerInv'
  BY <1>3 DEF OwnerInv, TypeOK, OpenBusy, vars
<1>4. ASSUME NEW t \in Tasks, Acquire(t) PROVE OwnerInv'
  BY <1>4 DEF OwnerInv, TypeOK, Acquire
<1>5. ASSUME NEW t \in Tasks, AllocationFails(t) PROVE OwnerInv'
  BY <1>5 DEF OwnerInv, TypeOK, AllocationFails
<1>6. ASSUME NEW t \in Tasks, StageFails(t) PROVE OwnerInv'
  BY <1>6 DEF OwnerInv, TypeOK, StageFails
<1>7. ASSUME NEW t \in Tasks, Close(t) PROVE OwnerInv'
  BY <1>7 DEF OwnerInv, TypeOK, Close
<1>8. ASSUME NEW t \in Tasks, Release(t) PROVE OwnerInv'
  BY <1>8 DEF OwnerInv, TypeOK, Release
<1>9. ASSUME NEW t \in Tasks, Unclaim(t) PROVE OwnerInv'
  BY <1>9 DEF OwnerInv, TypeOK, Unclaim, MayUnclaim
<1>10. ASSUME NEW t \in Tasks, NEW u \in Tasks, EnterCall(t, u) PROVE OwnerInv'
  BY <1>10 DEF OwnerInv, TypeOK, EnterCall
<1>11. ASSUME NEW t \in Tasks, NEW u \in Tasks, LeaveCall(t, u) PROVE OwnerInv'
  BY <1>11 DEF OwnerInv, TypeOK, LeaveCall
<1> QED
  BY <1>1, <1>2, <1>3, <1>4, <1>5, <1>6, <1>7, <1>8, <1>9, <1>10, <1>11 DEF Next

(* OwnerInv holds in every reachable state. *)
THEOREM OwnerAlways == Spec => []OwnerInv
BY InitOwner, NextOwner, PTL DEF Spec

(* The engine belongs to one task at a time and a free claim means that    *)
(* nothing is held: open, its failure paths and close, for any number of   *)
(* tasks.                                                                  *)
THEOREM EngineSafe == Spec => []EngineExclusive
<1>1. OwnerInv => EngineExclusive
  BY DEF OwnerInv, EngineExclusive
<1> QED
  BY <1>1, OwnerAlways, PTL

(* claim_call keeps methods of a runtime apart, and close away from them. *)
THEOREM CallsSafe == Spec => []CallsProtected
<1>1. OwnerInv => CallsProtected
  BY DEF OwnerInv, CallsProtected, TypeOK
<1> QED
  BY <1>1, OwnerAlways, PTL

(* The dependencies between the resources of one runtime that holds H. *)
Grounded(H) ==
    /\ "env" \in H => "instance" \in H
    /\ "instance" \in H => "module" \in H
    /\ "module" \in H => {"copy", "wamr"} \cup (Needed \cap {"natives"}) \subseteq H
    /\ "natives" \in H => {"wamr", "struct"} \subseteq H
    /\ "wamr" \in H => "struct" \in H

(* What the two orders of the code say about the resources. *)
LEMMA Ranks ==
    /\ OpenRank["struct"] = 1 /\ OpenRank["log"] = 2 /\ OpenRank["copy"] = 3
    /\ OpenRank["wamr"] = 4 /\ OpenRank["natives"] = 5 /\ OpenRank["module"] = 6
    /\ OpenRank["instance"] = 7 /\ OpenRank["env"] = 8
    /\ ReleaseRank["env"] = 1 /\ ReleaseRank["instance"] = 2
    /\ ReleaseRank["module"] = 3 /\ ReleaseRank["natives"] = 4
    /\ ReleaseRank["log"] = 5 /\ ReleaseRank["copy"] = 6
    /\ ReleaseRank["wamr"] = 7 /\ ReleaseRank["struct"] = 8
BY DEF OpenRank, ReleaseRank

(* Acquiring the first missing resource leaves the holdings grounded. *)
LEMMA AcquireGrounded ==
    ASSUME NEW H \in SUBSET Needed, Grounded(H), NEW r \in Needed \ H,
           IsFirst(r, Needed \ H, OpenRank)
    PROVE  Grounded(H \cup {r})
<1>1. \A q \in Needed : OpenRank[q] < OpenRank[r] => q \in H
  <2>1. \A q \in Needed : OpenRank[q] \in Nat
    BY Ranks DEF Needed
  <2> QED
    BY <2>1 DEF IsFirst
<1> QED
  BY <1>1, Ranks DEF Grounded, Needed

(* Releasing the first resource of release_runtime's order does too. *)
LEMMA ReleaseGrounded ==
    ASSUME NEW H \in SUBSET Needed, Grounded(H), NEW r \in H,
           IsFirst(r, H, ReleaseRank)
    PROVE  Grounded(H \ {r})
<1>1. \A q \in Needed : ReleaseRank[q] < ReleaseRank[r] => q \notin H
  <2>1. \A q \in Needed : ReleaseRank[q] \in Nat
    BY Ranks DEF Needed
  <2> QED
    BY <2>1 DEF IsFirst
<1> QED
  BY <1>1, Ranks DEF Grounded, Needed

(* No step leaves a resource without what it is built on. *)
LEMMA NextGrounded ==
    OwnerInv /\ (\A t \in Tasks : Grounded(held[t])) /\ [Next]_vars
        => \A t \in Tasks : Grounded(held'[t])
<1> SUFFICES ASSUME OwnerInv, \A t \in Tasks : Grounded(held[t]), [Next]_vars
             PROVE  \A t \in Tasks : Grounded(held'[t])
  OBVIOUS
<1>1. CASE held' = held
  BY <1>1
<1>2. ASSUME NEW t \in Tasks, Acquire(t) PROVE \A u \in Tasks : Grounded(held'[u])
  <2>1. PICK r \in Needed \ held[t] :
            /\ IsFirst(r, Needed \ held[t], OpenRank)
            /\ held' = [held EXCEPT ![t] = @ \cup {r}]
    BY <1>2 DEF Acquire
  <2>2. held[t] \in SUBSET Needed /\ held'[t] = held[t] \cup {r}
    BY <2>1 DEF OwnerInv, TypeOK
  <2>3. Grounded(held'[t])
    BY <2>1, <2>2, AcquireGrounded
  <2> QED
    BY <2>1, <2>3 DEF OwnerInv, TypeOK
<1>3. ASSUME NEW t \in Tasks, StageFails(t) PROVE \A u \in Tasks : Grounded(held'[u])
  <2>1. CASE held' = held
    BY <2>1
  <2>2. ASSUME NEW r \in Needed \ held[t], IsFirst(r, Needed \ held[t], OpenRank),
               held' = [held EXCEPT ![t] = @ \cup {r}]
        PROVE  \A u \in Tasks : Grounded(held'[u])
    <3>1. held[t] \in SUBSET Needed /\ held'[t] = held[t] \cup {r}
      BY <2>2 DEF OwnerInv, TypeOK
    <3>2. Grounded(held'[t])
      BY <2>2, <3>1, AcquireGrounded
    <3> QED
      BY <2>2, <3>2 DEF OwnerInv, TypeOK
  <2> QED
    BY <1>3, <2>1, <2>2 DEF StageFails
<1>4. ASSUME NEW t \in Tasks, Release(t) PROVE \A u \in Tasks : Grounded(held'[u])
  <2>1. PICK r \in held[t] :
            /\ IsFirst(r, held[t], ReleaseRank)
            /\ held' = [held EXCEPT ![t] = @ \ {r}]
    BY <1>4 DEF Release
  <2>2. held[t] \in SUBSET Needed /\ held'[t] = held[t] \ {r}
    BY <2>1 DEF OwnerInv, TypeOK
  <2>3. Grounded(held'[t])
    BY <2>1, <2>2, ReleaseGrounded
  <2> QED
    BY <2>1, <2>3 DEF OwnerInv, TypeOK
<1>5. ASSUME NEW t \in Tasks,
             Claim(t) \/ OpenBusy(t) \/ AllocationFails(t) \/ Close(t) \/ Unclaim(t)
                \/ \E u \in Tasks : EnterCall(t, u) \/ LeaveCall(t, u)
      PROVE  held' = held
  BY <1>5 DEF Claim, OpenBusy, AllocationFails, Close, Unclaim, EnterCall, LeaveCall, vars
<1> QED
  BY <1>1, <1>2, <1>3, <1>4, <1>5 DEF Next, vars

(* open's and release_runtime's orders keep every resource above what it   *)
(* is built on, wherever an open fails and for every set of imports.       *)
THEOREM DependenciesSafe == Spec => []NothingDangles
<1>1. Init => \A t \in Tasks : Grounded(held[t])
  BY DEF Init, Grounded
<1>2. (\A t \in Tasks : Grounded(held[t])) => NothingDangles
  BY DEF Grounded, NothingDangles
<1>3. NothingDangles => \A t \in Tasks : Grounded(held[t])
  BY DEF Grounded, NothingDangles
<1>4. OwnerInv /\ NothingDangles /\ [Next]_vars => NothingDangles'
  <2> SUFFICES ASSUME OwnerInv, NothingDangles, [Next]_vars PROVE NothingDangles'
    OBVIOUS
  <2>1. \A t \in Tasks : Grounded(held'[t])
    BY <1>3, NextGrounded
  <2> QED
    BY <2>1 DEF Grounded, NothingDangles
<1> QED
  BY <1>1, <1>2, <1>4, OwnerAlways, PTL DEF Spec
=============================================================================
