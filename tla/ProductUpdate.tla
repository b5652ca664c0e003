--------------------------- MODULE ProductUpdate ---------------------------
(***************************************************************************)
(* What the package store promises the product, without slots, bytes,      *)
(* locks or a blob: each bootable firmware has at most one package, there  *)
(* is at most one update, and an update passes through its stages one      *)
(* atomic step at a time.                                                  *)
(***************************************************************************)
EXTENDS Naturals

CONSTANTS
    Firmwares,  \* firmware images
    Offers,     \* what clients may ask to install
    Genuine     \* descriptions of packages that pass validation

VARIABLES
    status,     \* "absent", "record" or "damaged"
    bound,      \* bootable firmware -> the set of its (at most one) package
    update,     \* the update in progress, or None
    boot,       \* the current boot
    running     \* the firmware it runs

vars == <<status, bound, update, boot, running>>

None    == [stage |-> "none"]
Nothing == [f \in {} |-> {}]

Init ==
    /\ status = "absent"
    /\ bound = Nothing
    /\ update = None
    /\ boot = 1
    /\ running \in Firmwares

(* First installation: only genuine packages, only once. *)
Install ==
    /\ status = "absent"
    /\ status' = "record"
    /\ \E F \in (SUBSET Firmwares) \ {{}} :
          bound' \in [F -> {{}} \cup {{k} : k \in Genuine}]
    /\ UNCHANGED <<update, boot, running>>

(* An update is for the running firmware and keeps its data schema. *)
Propose(k) ==
    /\ status = "record"
    /\ update = None
    /\ running \in DOMAIN bound
    /\ \A old \in bound[running] : old.schema = k.schema
    /\ update' = [stage |-> "proposed", target |-> running, what |-> k]
    /\ UNCHANGED <<status, bound, boot, running>>

Qualify ==
    /\ update.stage = "proposed"
    /\ update.what \in Genuine
    /\ update' = [update EXCEPT !.stage = "qualified"]
    /\ UNCHANGED <<status, bound, boot, running>>

Try ==
    /\ update.stage = "qualified"
    /\ update.target = running
    /\ update' = [stage |-> "trying", target |-> update.target,
                  what |-> update.what, since |-> boot]
    /\ UNCHANGED <<status, bound, boot, running>>

Pass ==
    /\ update.stage = "trying"
    /\ update.since = boot
    /\ update' = [update EXCEPT !.stage = "passed"]
    /\ UNCHANGED <<status, bound, boot, running>>

(* The package is adopted in the boot it was tried in, or never. *)
Adopt ==
    /\ update.stage = "passed"
    /\ update.since = boot
    /\ update.target = running
    /\ bound' = [bound EXCEPT ![running] = {update.what}]
    /\ update' = None
    /\ UNCHANGED <<status, boot, running>>

Discard ==
    /\ update # None
    /\ update' = None
    /\ UNCHANGED <<status, bound, boot, running>>

Reboot ==
    /\ boot' = boot + 1
    /\ running' \in Firmwares
    /\ UNCHANGED <<status, bound, update>>

(* The record may be lost; nothing restores it. *)
Lose ==
    /\ status' = "damaged"
    /\ bound' = Nothing
    /\ update' = None
    /\ UNCHANGED <<boot, running>>

Next ==
    \/ Install \/ Qualify \/ Try \/ Pass \/ Adopt \/ Discard \/ Reboot \/ Lose
    \/ \E k \in Offers : Propose(k)

Spec == Init /\ [][Next]_vars
=============================================================================
