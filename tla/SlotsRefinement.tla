-------------------------- MODULE SlotsRefinement --------------------------
(***************************************************************************)
(* The engine of Slots implements ProductUpdate: what the product sees is  *)
(* a function of the durable record alone, so that every call takes effect *)
(* in the one step in which NVS replaces its blob, or not at all.          *)
(***************************************************************************)
EXTENDS Slots

BoundIn(blob) ==
    [f \in BoundFirmwares(blob.state) |->
        {Claim(blob.state.bindings[i]) :
            i \in {j \in BindingIndex : /\ BindsFirmware(blob.state, j, f)
                                        /\ blob.state.bindings[j].package_present}}]

Stage(phase) ==
    CASE phase = WRITING         -> "proposed"
      [] phase = PREPARED        -> "qualified"
      [] phase = TRIAL_STARTED   -> "trying"
      [] phase = HEALTH_VERIFIED -> "passed"

UpdateIn(blob) ==
    LET op    == blob.state.operation
        phase == blob.state.phase
    IN  CASE phase \in {WRITING, PREPARED} ->
                 [stage |-> Stage(phase), target |-> op.target, what |-> Claim(op)]
          [] phase \in {TRIAL_STARTED, HEALTH_VERIFIED} ->
                 [stage |-> Stage(phase), target |-> op.target, what |-> Claim(op),
                  since |-> op.trial_boot_id]
          [] phase \notin PendingPhases -> [stage |-> "none"]

Product ==
    INSTANCE ProductUpdate WITH
        Offers  <- Claims,
        Genuine <- {TrueClaim(p) : p \in Trusted},
        status  <- nvs.kind,
        bound   <- BoundIn(nvs),
        update  <- UpdateIn(nvs),
        boot    <- boot,
        running <- firmware.running

(* Every behaviour of the engine is one of the abstract store, although a  *)
(* call takes many steps, clients interleave, NVS writes fail or take      *)
(* effect unreported, and power fails anywhere.                            *)
RefinesProduct == Product!Spec
=============================================================================
