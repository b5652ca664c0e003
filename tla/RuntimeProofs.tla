--------------------------- MODULE RuntimeProofs ---------------------------
(***************************************************************************)
(* Theorems about the guest executor: timers, handles, deadlines and the   *)
(* pending log, for every number of timers, every limit and every guest.   *)
(***************************************************************************)
EXTENDS Runtime, TLAPS

(* Arithmetic of the 64-bit handle allocator and of periodic timers. *)
LEMMA ModFacts ==
    ASSUME NEW a \in Nat, NEW b \in Nat \ {0}
    PROVE  /\ a % b \in Nat
           /\ a % b < b
           /\ a < b => a % b = a
           /\ b % b = 0
BY Z3

LEMMA DivFacts ==
    ASSUME NEW a \in Nat, NEW b \in Nat \ {0}
    PROVE  /\ a \div b \in Nat
           /\ a = (b * (a \div b)) + (a % b)
BY Z3

LEMMA ProductFacts ==
    ASSUME NEW a \in Nat, NEW b \in Nat \ {0}
    PROVE  a * b \in Nat /\ a <= a * b
BY Z3

-----------------------------------------------------------------------------
(* The inductive invariant. *)

(* Where the owner's call is, and what the state of the instance is then.  *)
PhaseInv ==
    /\ pc # "idle" => opened
    /\ entry # "none" <=> pc = "guest"
    /\ pc = "selected" => state = "RUNNING" /\ ~stopping
    /\ pc = "guest" => /\ state = IF entry = "init" THEN "LOADED" ELSE "RUNNING"
                       /\ stopping <=> entry = "stop"
    /\ pc = "idle" /\ stopping => state \in {"STOPPED", "FAILED"}
    /\ state = "STOPPED" => stopping
    /\ ~opened => ~stopping /\ state = "LOADED" /\ settled = issued /\ overtaken = {}
    /\ result = "ENTRY_EXPIRED" => pc = "idle" /\ (opened => state = "FAILED")

(* Nothing is armed in an instance that is stopping or has overrun. *)
DisarmedInv ==
    stopping \/ result = "ENTRY_EXPIRED" => \A i \in TimerSlots : ~timers[i].active

(* A poll has taken the timer that was due longest; a periodic one is      *)
(* armed again, beyond the time of the poll.                               *)
SelectedInv ==
    pc = "selected" =>
        LET old == polled.previous
            new == timers[polled.slot]
        IN  /\ polled.slot \in TimerSlots
            /\ old.active
            /\ old.deadline_ms <= polled.now_ms
            /\ new.handle = old.handle
            /\ new.active => new.deadline_ms > polled.now_ms
            /\ \A i \in TimerSlots \ {polled.slot} :
                  timers[i].active /\ timers[i].deadline_ms <= polled.now_ms =>
                      old.deadline_ms <= timers[i].deadline_ms

(* The table of timers, as it is if the event of a selected timer cannot   *)
(* be delivered.  What holds of timers holds of this table throughout.     *)
Table == IF pc = "selected" THEN Restored ELSE timers

HandleInv ==
    /\ next_timer_handle # 0 => \A h \in issued : h < next_timer_handle
    /\ \A i \in TimerSlots : Table[i].active => Table[i].handle \in issued \ settled
    /\ \A i, j \in TimerSlots :
          Table[i].active /\ Table[j].active /\ Table[i].handle = Table[j].handle =>
              i = j
    /\ overtaken \subseteq issued \X issued

(* While the instance works, a handle is armed until it is settled. *)
ArmedInv ==
    opened /\ state \in {"LOADED", "RUNNING"} /\ ~stopping =>
        \A h \in issued \ settled :
            \E i \in TimerSlots : Table[i].active /\ Table[i].handle = h

(* A timer that was delivered while another was due comes after it now. *)
TurnInv ==
    state # "FAILED" =>
        \A p \in overtaken : \A i, j \in TimerSlots :
            /\ Table[i].active /\ Table[i].handle = p[1]
            /\ Table[j].active /\ Table[j].handle = p[2]
            => Table[i].deadline_ms > Table[j].deadline_ms

(* Whose log is pending, and what the log was before the entry. *)
LogInv ==
    /\ log_origin = "none" <=> pending_log_size = 0
    /\ pc = "guest" =>
          prior_log_size = IF log_origin = "earlier" THEN pending_log_size ELSE 0

Inv == /\ TypeOK /\ PhaseInv /\ DisarmedInv /\ SelectedInv /\ HandleInv
       /\ ArmedInv /\ TurnInv /\ LogInv

-----------------------------------------------------------------------------
(* What poll_timer computes for a timer that is due. *)

(* A periodic timer stays armed under its handle, at a later deadline; a   *)
(* one-shot timer is disarmed.                                             *)
LEMMA RearmedFacts ==
    ASSUME NEW t \in Timer, clock \in Nat, t.deadline_ms <= clock
    PROVE  /\ Rearmed(t) \in Timer
           /\ Rearmed(t).handle = t.handle
           /\ Rearmed(t).active => Rearmed(t).deadline_ms > clock
<1>1. CASE t.period_ms = 0
  BY <1>1 DEF Rearmed, Timer
<1>2. CASE t.period_ms # 0
  <2> DEFINE late == clock - t.deadline_ms
  <2>1. /\ late \in Nat
        /\ t.period_ms \in Nat \ {0}
        /\ t.deadline_ms \in Nat
    BY <1>2 DEF Timer
  <2>2. late % t.period_ms \in Nat /\ late % t.period_ms < t.period_ms
    BY <2>1, ModFacts
  <2> DEFINE d == clock + (t.period_ms - (late % t.period_ms))
  <2>3. d \in Nat /\ d > clock
    BY <2>1, <2>2
  <2>4. Rearmed(t) = [t EXCEPT !.deadline_ms = d]
    BY <1>2 DEF Rearmed
  <2> HIDE DEF d
  <2> QED
    BY <2>3, <2>4 DEF Timer
<1> QED
  BY <1>1, <1>2

LEMMA SkippedType ==
    ASSUME RuntimeAssumption, NEW t \in Timer, clock \in Nat, t.deadline_ms <= clock
    PROVE  Skipped(t) \in 0..MaxSkipped
<1>1. PeriodsMissed(t) \in Nat
  <2>1. CASE t.period_ms = 0
    BY <2>1 DEF PeriodsMissed
  <2>2. CASE t.period_ms # 0
    <3>1. clock - t.deadline_ms \in Nat /\ t.period_ms \in Nat \ {0}
      BY <2>2 DEF Timer
    <3> QED
      BY <2>2, <3>1, DivFacts DEF PeriodsMissed
  <2> QED
    BY <2>1, <2>2
<1> QED
  BY <1>1 DEF Skipped, RuntimeAssumption

(* The allocator never goes back: past the last handle it reads 0. *)
LEMMA NextHandleFacts ==
    ASSUME RuntimeAssumption, NEW h \in 1..MaxHandle
    PROVE  NextHandle(h) = IF h = MaxHandle THEN 0 ELSE h + 1
<1>1. h + 1 \in Nat /\ MaxHandle + 1 \in Nat \ {0}
  BY DEF RuntimeAssumption
<1>2. CASE h = MaxHandle
  BY <1>1, <1>2, ModFacts DEF NextHandle
<1>3. CASE h # MaxHandle
  <2>1. h + 1 < MaxHandle + 1
    BY <1>3 DEF RuntimeAssumption
  <2> QED
    BY <1>1, <1>3, <2>1, ModFacts DEF NextHandle
<1> QED
  BY <1>2, <1>3

LEMMA NoTimerType == ASSUME RuntimeAssumption PROVE NoTimer \in Timer
BY DEF NoTimer, Timer, RuntimeAssumption

LEMMA NotPolledType ==
    ASSUME RuntimeAssumption
    PROVE  NotPolled \in [slot : 0..MaxTimers, now_ms : Nat, previous : Timer,
                          skipped : 0..MaxSkipped]
BY NoTimerType DEF NotPolled, RuntimeAssumption

(* A fresh instance: an empty table, no log. *)
LEMMA FreshTypes ==
    ASSUME RuntimeAssumption
    PROVE  /\ [i \in TimerSlots |-> NoTimer] \in [TimerSlots -> Timer]
           /\ 0 \in 0..MaxLog /\ 0 \in 0..MaxClock /\ 1 \in 0..MaxHandle
<1>1. 0 \in 0..MaxLog /\ 0 \in 0..MaxClock /\ 1 \in 0..MaxHandle
  BY DEF RuntimeAssumption
<1> QED
  BY <1>1, NoTimerType

LEMMA DisarmedFacts ==
    ASSUME timers \in [TimerSlots -> Timer]
    PROVE  /\ Disarmed \in [TimerSlots -> Timer]
           /\ \A i \in TimerSlots : ~Disarmed[i].active
BY DEF Disarmed, Timer

-----------------------------------------------------------------------------
(* Init and every step of Next keep the types. *)

LEMMA TypeInit == Init => TypeOK
<1> USE RuntimeAssumption
<1> SUFFICES ASSUME Init PROVE TypeOK
  OBVIOUS
<1>1. overtaken \subseteq (1..MaxHandle) \X (1..MaxHandle)
  BY DEF Init
<1>2. issued \subseteq 1..MaxHandle /\ settled \subseteq issued
  BY DEF Init
<1> QED
  BY <1>1, <1>2, FreshTypes, NotPolledType DEF Init, TypeOK, Results

LEMMA TypeStep == TypeOK /\ PhaseInv /\ SelectedInv /\ HandleInv /\ [Next]_vars => TypeOK'
<1> SUFFICES ASSUME TypeOK, PhaseInv, SelectedInv, HandleInv, [Next]_vars PROVE TypeOK'
  OBVIOUS
<1> USE RuntimeAssumption
<1>a. clock \in Nat /\ clock + MaxEntryDuration \in Nat
  BY DEF TypeOK, RuntimeAssumption
<1>b. ASSUME NEW r \in Results, Refuse(r) PROVE TypeOK'
  BY <1>b DEF Refuse, TypeOK, host, instance, history
<1>c. ASSUME InvokeFails, timers' \in [TimerSlots -> Timer] PROVE TypeOK'
  BY <1>c, NotPolledType DEF InvokeFails, TypeOK, host, history, Results
<1>1. CASE UNCHANGED vars
  BY <1>1 DEF TypeOK, vars, host, instance, call, history
<1>2. CASE Open
  BY <1>2, FreshTypes DEF Open, Fresh, TypeOK, host, Results
<1>3. CASE Close
  <2>1. overtaken' \subseteq (1..MaxHandle) \X (1..MaxHandle)
    BY <1>3 DEF Close
  <2> QED
    BY <1>3, <2>1, FreshTypes DEF Close, Fresh, TypeOK, host, Results
<1>4. CASE InitCall
  <2>1. CASE Refuse("INVALID_STATE")
    BY <2>1, <1>b DEF Results
  <2>2. CASE InvokeFails /\ timers' = Disarmed
    BY <2>2, <1>c, DisarmedFacts DEF TypeOK
  <2>3. CASE Invoke("init") /\ UNCHANGED <<host, instance, polled, issued, settled, overtaken>>
    BY <2>3, <1>a DEF Invoke, TypeOK, host, instance
  <2> QED
    BY <1>4, <2>1, <2>2, <2>3 DEF InitCall
<1>5. CASE OnEvent
  <2>1. CASE \E r \in {"INVALID_STATE", "INVALID_INPUT", "NO_MEMORY"} : Refuse(r)
    BY <2>1, <1>b DEF Results
  <2>2. CASE InvokeFails /\ UNCHANGED timers
    BY <2>2, <1>c DEF TypeOK
  <2>3. CASE Invoke("event") /\ UNCHANGED <<host, instance, polled, issued, settled, overtaken>>
    BY <2>3, <1>a DEF Invoke, TypeOK, host, instance
  <2> QED
    BY <1>5, <2>1, <2>2, <2>3 DEF OnEvent
<1>6. CASE Stop
  <2>1. CASE \E r \in {"OK", "INVALID_STATE"} : Refuse(r)
    BY <2>1, <1>b DEF Results
  <2>2. CASE /\ stopping' = TRUE /\ timers' = Disarmed
             /\ state' = "FAILED" /\ result' = "ENGINE_FAILURE"
             /\ UNCHANGED <<host, opened, pending_log_size, pc, entry,
                            entry_deadline_ms, entry_expired, exception,
                            prior_log_size, polled, history>>
    BY <2>2, DisarmedFacts DEF TypeOK, host, history, Results
  <2>3. CASE /\ stopping' = TRUE /\ timers' = Disarmed
             /\ Invoke("stop")
             /\ UNCHANGED <<host, opened, state, pending_log_size, polled, issued,
                            settled, overtaken>>
    BY <2>3, <1>a, DisarmedFacts DEF Invoke, TypeOK, host
  <2> QED
    BY <1>6, <2>1, <2>2, <2>3 DEF Stop
<1>7. CASE GuestReturns
  <2>1. /\ state' \in {"LOADED", "RUNNING", "STOPPED", "FAILED"}
        /\ result' \in Results \cup {"none"}
    BY <1>7 DEF GuestReturns, InvokeStatus, TypeOK, PhaseInv, Results
  <2>2. timers' \in [TimerSlots -> Timer]
    BY <1>7, DisarmedFacts DEF GuestReturns, TypeOK
  <2>3. /\ pending_log_size' \in 0..MaxLog
        /\ log_origin' \in {"none", "earlier", "current"}
    BY <1>7 DEF GuestReturns, LogAfterExpiry, TypeOK
  <2> QED
    BY <1>7, <2>1, <2>2, <2>3, NotPolledType, FreshTypes DEF GuestReturns, TypeOK, host
<1>8. CASE HostCallRefused
  <2>1. exception' \in BOOLEAN /\ entry_expired' \in BOOLEAN
    BY <1>8, Zenon DEF HostCallRefused, TypeOK
  <2>2. UNCHANGED <<host, instance, pc, entry, entry_deadline_ms, prior_log_size,
                    polled, result, history>>
    BY <1>8, Zenon DEF HostCallRefused
  <2> QED
    BY <2>1, <2>2, ZenonT(40) DEF TypeOK, host, instance, history
<1>9. CASE NativeLog
  BY <1>9 DEF NativeLog, TypeOK, host, call, RuntimeAssumption
<1>10. CASE NativeTimerStart
  <2>1. next_timer_handle \in 1..MaxHandle
    BY <1>10 DEF NativeTimerStart, TypeOK
  <2>2. next_timer_handle' \in 0..MaxHandle
    BY <1>10, <2>1, NextHandleFacts DEF NativeTimerStart, RuntimeAssumption
  <2>3. PICK i \in TimerSlots, delay \in Delays, period \in Periods :
           timers' = [timers EXCEPT ![i] =
                        [handle |-> next_timer_handle, deadline_ms |-> clock + delay,
                         period_ms |-> period, active |-> TRUE]]
    BY <1>10 DEF NativeTimerStart
  <2>4. timers' \in [TimerSlots -> Timer]
    BY <2>1, <2>3, <1>a DEF TypeOK, Timer, RuntimeAssumption
  <2>5. issued' \subseteq 1..MaxHandle /\ settled' \subseteq issued'
    BY <1>10, <2>1 DEF NativeTimerStart, TypeOK
  <2> QED
    BY <1>10, <2>2, <2>4, <2>5 DEF NativeTimerStart, TypeOK, call
<1>11. CASE NativeTimerCancel
  <2>1. PICK i \in TimerSlots :
           /\ timers[i].active
           /\ timers' = [timers EXCEPT ![i].active = FALSE]
           /\ settled' = settled \cup {timers[i].handle}
    BY <1>11 DEF NativeTimerCancel
  <2>2. timers' \in [TimerSlots -> Timer]
    BY <2>1 DEF TypeOK, Timer
  <2>3. timers[i].handle \in issued
    BY <1>11, <2>1 DEF NativeTimerCancel, HostCall, HandleInv, Table
  <2> QED
    BY <1>11, <2>1, <2>2, <2>3 DEF NativeTimerCancel, TypeOK, host, call
<1>12. CASE NextTimerDeadline
  BY <1>12, <1>b DEF NextTimerDeadline, Results
<1>13. CASE PollTimer
  <2>1. CASE \E r \in {"INVALID_STATE", "ENGINE_FAILURE", "NO_TIMER"} : Refuse(r)
    BY <2>1, <1>b DEF Results
  <2>2. CASE /\ \E i \in TimerSlots :
                   /\ Selects(i)
                   /\ timers' = [timers EXCEPT ![i] = Rearmed(timers[i])]
                   /\ polled' = [slot |-> i, now_ms |-> clock, previous |-> timers[i],
                                 skipped |-> Skipped(timers[i])]
             /\ pc' = "selected"
             /\ result' = "none"
             /\ UNCHANGED <<host, opened, state, stopping, pending_log_size, entry,
                            entry_deadline_ms, entry_expired, exception,
                            prior_log_size, history>>
    <3>1. PICK i \in TimerSlots :
             /\ Selects(i)
             /\ timers' = [timers EXCEPT ![i] = Rearmed(timers[i])]
             /\ polled' = [slot |-> i, now_ms |-> clock, previous |-> timers[i],
                           skipped |-> Skipped(timers[i])]
      BY <2>2
    <3>2. timers[i] \in Timer /\ timers[i].deadline_ms <= clock
      BY <3>1 DEF Selects, Due, TypeOK
    <3>3. Rearmed(timers[i]) \in Timer /\ Skipped(timers[i]) \in 0..MaxSkipped
      BY <3>2, <1>a, RearmedFacts, SkippedType
    <3>4. timers' \in [TimerSlots -> Timer]
      BY <3>1, <3>3 DEF TypeOK
    <3>5. polled' \in [slot : 0..MaxTimers, now_ms : Nat, previous : Timer,
                       skipped : 0..MaxSkipped]
      BY <3>1, <3>2, <3>3, <1>a DEF TimerSlots
    <3> QED
      BY <2>2, <3>4, <3>5 DEF TypeOK, host, history
  <2> QED
    BY <1>13, <2>1, <2>2 DEF PollTimer
<1>14. CASE TimerEventNoMemory
  <2>1. timers' \in [TimerSlots -> Timer]
    BY <1>14 DEF TimerEventNoMemory, Restored, TypeOK
  <2> QED
    BY <1>14, <2>1, NotPolledType DEF TimerEventNoMemory, TypeOK, host, history, Results
<1>15. CASE DeliverTimerEvent
  <2> DEFINE h == polled.previous.handle
             waiting == {timers[i].handle : i \in PassedOver}
  <2>1. CASE InvokeFails /\ UNCHANGED timers
    BY <2>1, <1>c DEF TypeOK
  <2>2. CASE /\ Invoke("timer")
             /\ overtaken' = {p \in overtaken : p[2] # h} \cup {<<h, b>> : b \in waiting}
             /\ settled' = IF timers[polled.slot].active THEN settled
                           ELSE settled \cup {h}
             /\ UNCHANGED <<host, instance, polled, issued>>
    <3>1. pc = "selected"
      BY <1>15 DEF DeliverTimerEvent
    <3>2. h \in issued
      BY <3>1 DEF HandleInv, Table, Restored, SelectedInv, TypeOK
    <3>3. waiting \subseteq issued
      BY <3>1 DEF HandleInv, Table, Restored, PassedOver, TypeOK
    <3>4. overtaken' \subseteq (1..MaxHandle) \X (1..MaxHandle)
      <4>1. h \in 1..MaxHandle /\ waiting \subseteq 1..MaxHandle
        BY <3>2, <3>3 DEF TypeOK
      <4>2. {<<h, b>> : b \in waiting} \subseteq (1..MaxHandle) \X (1..MaxHandle)
        BY <4>1
      <4>3. {p \in overtaken : p[2] # h} \subseteq (1..MaxHandle) \X (1..MaxHandle)
        BY DEF TypeOK
      <4> HIDE DEF h, waiting
      <4> QED
        BY <2>2, <4>2, <4>3
    <3>5. settled' \subseteq issued
      BY <2>2, <3>2 DEF TypeOK
    <3> QED
      BY <2>2, <3>4, <3>5, <1>a DEF Invoke, TypeOK, host, instance
  <2> QED
    BY <1>15, <2>1, <2>2 DEF DeliverTimerEvent
<1>16. CASE TakeLog
  <2>1. CASE \E r \in {"NO_LOG", "INVALID_INPUT"} : Refuse(r)
    BY <2>1, <1>b DEF Results
  <2> QED
    BY <1>16, <2>1, FreshTypes DEF TakeLog, TypeOK, host, Results
<1>17. CASE Tick
  BY <1>17 DEF Tick, TypeOK, instance, call, history
<1> QED
  BY <1>1, <1>2, <1>3, <1>4, <1>5, <1>6, <1>7, <1>8, <1>9, <1>10, <1>11, <1>12, <1>13,
     <1>14, <1>15, <1>16, <1>17 DEF Next

-----------------------------------------------------------------------------
(* The parts of the invariant that are about one call. *)

LEMMA CallInit == Init => PhaseInv /\ DisarmedInv /\ SelectedInv /\ LogInv
BY DEF Init, PhaseInv, DisarmedInv, SelectedInv, LogInv, NoTimer

(* Every step of Next keeps the call and the state of the instance in step.*)
LEMMA PhaseStep == TypeOK /\ PhaseInv /\ [Next]_vars => PhaseInv'
<1> SUFFICES ASSUME TypeOK, PhaseInv, [Next]_vars PROVE PhaseInv'
  OBVIOUS
<1>b. ASSUME NEW r \in Results \ {"ENTRY_EXPIRED"}, Refuse(r) PROVE PhaseInv'
  BY <1>b DEF Refuse, PhaseInv, instance, history
<1>c. ASSUME InvokeFails, opened, pc # "guest" PROVE PhaseInv'
  BY <1>c DEF InvokeFails, PhaseInv, TypeOK, history
<1>1. CASE UNCHANGED vars
  BY <1>1 DEF PhaseInv, vars, instance, call, history
<1>2. CASE Open
  BY <1>2 DEF Open, Fresh, PhaseInv, TypeOK
<1>3. CASE Close
  BY <1>3 DEF Close, Fresh, PhaseInv, TypeOK
<1>4. CASE InitCall
  <2>1. CASE Refuse("INVALID_STATE")
    BY <2>1, <1>b DEF Results
  <2>2. CASE InvokeFails
    BY <1>4, <2>2, <1>c DEF InitCall
  <2>3. CASE MayInit /\ Invoke("init") /\ UNCHANGED <<host, instance, polled, issued, settled, overtaken>>
    BY <1>4, <2>3 DEF InitCall, MayInit, Invoke, PhaseInv, instance, TypeOK
  <2> QED
    BY <1>4, <2>1, <2>2, <2>3 DEF InitCall
<1>5. CASE OnEvent
  <2>1. CASE \E r \in {"INVALID_STATE", "INVALID_INPUT", "NO_MEMORY"} : Refuse(r)
    BY <2>1, <1>b DEF Results
  <2>2. CASE InvokeFails
    BY <1>5, <2>2, <1>c DEF OnEvent
  <2>3. CASE /\ state = "RUNNING" /\ Invoke("event")
             /\ UNCHANGED <<host, instance, polled, issued, settled, overtaken>>
    BY <1>5, <2>3 DEF OnEvent, Invoke, PhaseInv, instance, TypeOK
  <2> QED
    BY <1>5, <2>1, <2>2, <2>3 DEF OnEvent
<1>6. CASE Stop
  <2>1. CASE \E r \in {"OK", "INVALID_STATE"} : Refuse(r)
    BY <2>1, <1>b DEF Results
  <2>2. CASE ~\E r \in {"OK", "INVALID_STATE"} : Refuse(r)
    BY <1>6, <2>2 DEF Stop, Invoke, PhaseInv, TypeOK, history
  <2> QED
    BY <2>1, <2>2
<1>7. CASE GuestReturns
  BY <1>7 DEF GuestReturns, InvokeStatus, PhaseInv, TypeOK
<1>8. CASE HostCallRefused
  BY <1>8 DEF HostCallRefused, PhaseInv, instance, history
<1>9. CASE NativeLog
  BY <1>9 DEF NativeLog, PhaseInv, call
<1>10. CASE NativeTimerStart
  BY <1>10 DEF NativeTimerStart, HostCall, PhaseInv, call
<1>11. CASE NativeTimerCancel
  BY <1>11 DEF NativeTimerCancel, HostCall, PhaseInv, call
<1>12. CASE NextTimerDeadline
  BY <1>12, <1>b DEF NextTimerDeadline, Results
<1>13. CASE PollTimer
  <2>1. CASE \E r \in {"INVALID_STATE", "ENGINE_FAILURE", "NO_TIMER"} : Refuse(r)
    BY <2>1, <1>b DEF Results
  <2>2. CASE /\ pc = "idle" /\ state = "RUNNING" /\ opened
             /\ pc' = "selected" /\ result' = "none"
             /\ UNCHANGED <<opened, state, stopping, entry, history>>
    BY <2>2 DEF PhaseInv, history
  <2> QED
    BY <1>13, <2>1, <2>2 DEF PollTimer
<1>14. CASE TimerEventNoMemory
  BY <1>14 DEF TimerEventNoMemory, PhaseInv, history
<1>15. CASE DeliverTimerEvent
  <2>1. CASE InvokeFails
    BY <1>15, <2>1, <1>c DEF DeliverTimerEvent, PhaseInv
  <2>2. CASE pc = "selected" /\ Invoke("timer") /\ UNCHANGED <<host, instance, polled, issued>>
    BY <2>2 DEF Invoke, PhaseInv, instance, TypeOK
  <2> QED
    BY <1>15, <2>1, <2>2 DEF DeliverTimerEvent
<1>16. CASE TakeLog
  <2>1. CASE \E r \in {"NO_LOG", "INVALID_INPUT"} : Refuse(r)
    BY <2>1, <1>b DEF Results
  <2>2. CASE /\ result' = "OK"
             /\ UNCHANGED <<host, opened, state, stopping, timers, pc, entry,
                            entry_deadline_ms, entry_expired, exception,
                            prior_log_size, polled, issued, settled, overtaken>>
    BY <2>2 DEF PhaseInv
  <2> QED
    BY <1>16, <2>1, <2>2 DEF TakeLog
<1>17. CASE Tick
  BY <1>17 DEF Tick, PhaseInv, instance, call, history
<1> QED
  BY <1>1, <1>2, <1>3, <1>4, <1>5, <1>6, <1>7, <1>8, <1>9, <1>10, <1>11, <1>12, <1>13,
     <1>14, <1>15, <1>16, <1>17 DEF Next

(* A timer is armed by the guest and put back by poll_timer only, and both *)
(* keep off an instance that is stopping or has overrun.                   *)
LEMMA DisarmedStep == TypeOK /\ PhaseInv /\ DisarmedInv /\ [Next]_vars => DisarmedInv'
<1> SUFFICES ASSUME TypeOK, PhaseInv, DisarmedInv, [Next]_vars PROVE DisarmedInv'
  OBVIOUS
<1>b. ASSUME NEW r \in Results \ {"ENTRY_EXPIRED"}, Refuse(r) PROVE DisarmedInv'
  BY <1>b DEF Refuse, DisarmedInv, instance
<1>1. CASE UNCHANGED vars
  BY <1>1 DEF DisarmedInv, vars, instance, call
<1>2. CASE Open \/ Close
  BY <1>2 DEF Open, Close, Fresh, DisarmedInv, NoTimer
<1>3. CASE InitCall
  <2>1. CASE Refuse("INVALID_STATE")
    BY <2>1, <1>b DEF Results
  <2>2. CASE timers' = Disarmed
    BY <2>2, DisarmedFacts DEF DisarmedInv, TypeOK
  <2>3. CASE Invoke("init") /\ UNCHANGED instance
    BY <2>3 DEF Invoke, DisarmedInv, instance
  <2> QED
    BY <1>3, <2>1, <2>2, <2>3 DEF InitCall
<1>4. CASE OnEvent
  <2>1. CASE \E r \in {"INVALID_STATE", "INVALID_INPUT", "NO_MEMORY"} : Refuse(r)
    BY <2>1, <1>b DEF Results
  <2> QED
    BY <1>4, <2>1 DEF OnEvent, InvokeFails, Invoke, DisarmedInv, instance
<1>5. CASE Stop
  <2>1. CASE \E r \in {"OK", "INVALID_STATE"} : Refuse(r)
    BY <2>1, <1>b DEF Results
  <2>2. CASE timers' = Disarmed
    BY <2>2, DisarmedFacts DEF DisarmedInv, TypeOK
  <2> QED
    BY <1>5, <2>1, <2>2 DEF Stop
<1>6. CASE GuestReturns
  <2>1. CASE timers' = Disarmed
    BY <2>1, DisarmedFacts DEF DisarmedInv, TypeOK
  <2>2. CASE timers' # Disarmed
    BY <1>6, <2>2 DEF GuestReturns, Cancels, DisarmedInv
  <2> QED
    BY <2>1, <2>2
<1>7. CASE HostCallRefused \/ NativeLog \/ TakeLog \/ Tick
  BY <1>7, <1>b DEF HostCallRefused, NativeLog, TakeLog, Tick, DisarmedInv, instance, call, Results
<1>8. CASE NativeTimerStart
  BY <1>8 DEF NativeTimerStart, MayStartTimer, HostCall, DisarmedInv, PhaseInv, call
<1>9. CASE NativeTimerCancel
  BY <1>9 DEF NativeTimerCancel, HostCall, DisarmedInv, PhaseInv, call
<1>10. CASE NextTimerDeadline
  BY <1>10, <1>b DEF NextTimerDeadline, Results
<1>11. CASE PollTimer
  <2>1. CASE \E r \in {"INVALID_STATE", "ENGINE_FAILURE", "NO_TIMER"} : Refuse(r)
    BY <2>1, <1>b DEF Results
  <2> QED
    BY <1>11, <2>1 DEF PollTimer, PhaseInv, DisarmedInv
<1>12. CASE TimerEventNoMemory
  BY <1>12 DEF TimerEventNoMemory, PhaseInv, DisarmedInv
<1>13. CASE DeliverTimerEvent
  BY <1>13 DEF DeliverTimerEvent, InvokeFails, Invoke, PhaseInv, DisarmedInv, instance
<1> QED
  BY <1>1, <1>2, <1>3, <1>4, <1>5, <1>6, <1>7, <1>8, <1>9, <1>10, <1>11, <1>12, <1>13 DEF Next

(* A step after which a timer is selected is a poll that selected it, or   *)
(* leaves the selection alone.                                             *)
LEMMA OnlyPollSelects ==
    ASSUME PhaseInv, [Next]_vars, pc' = "selected", ~UNCHANGED <<pc, polled, timers>>
    PROVE  \E i \in TimerSlots :
              /\ Selects(i)
              /\ timers' = [timers EXCEPT ![i] = Rearmed(timers[i])]
              /\ polled' = [slot |-> i, now_ms |-> clock, previous |-> timers[i],
                            skipped |-> Skipped(timers[i])]
<1>1. ~UNCHANGED vars
  BY DEF vars, instance, call
<1>2. ~\E r \in Results : Refuse(r)
  BY DEF Refuse, instance
<1>3. ~Open /\ ~Close
  BY DEF Open, Close, PhaseInv
<1>4. ~InitCall /\ ~OnEvent /\ ~Stop
  BY <1>2 DEF InitCall, OnEvent, Stop, InvokeFails, Invoke, Results
<1>5. ~GuestReturns /\ ~TimerEventNoMemory /\ ~DeliverTimerEvent
  BY DEF GuestReturns, TimerEventNoMemory, DeliverTimerEvent, InvokeFails, Invoke
<1>6. ~HostCallRefused /\ ~NativeLog /\ ~NativeTimerStart /\ ~NativeTimerCancel
  BY DEF HostCallRefused, NativeLog, NativeTimerStart, NativeTimerCancel, HostCall, call
<1>7. ~NextTimerDeadline /\ ~TakeLog /\ ~Tick
  BY <1>2 DEF NextTimerDeadline, TakeLog, Tick, Results, instance, call
<1>8. PollTimer
  BY <1>1, <1>3, <1>4, <1>5, <1>6, <1>7 DEF Next
<1> QED
  BY <1>2, <1>8 DEF PollTimer, Results

(* Only a poll selects a timer, and no step but Tick takes place before    *)
(* the selection is delivered or undone.                                   *)
LEMMA SelectedStep == TypeOK /\ PhaseInv /\ SelectedInv /\ [Next]_vars => SelectedInv'
<1> SUFFICES ASSUME TypeOK, PhaseInv, SelectedInv, [Next]_vars, pc' = "selected" PROVE SelectedInv'
  BY DEF SelectedInv
<1>1. CASE UNCHANGED <<pc, polled, timers>>
  BY <1>1 DEF SelectedInv
<1>2. CASE ~UNCHANGED <<pc, polled, timers>>
  <2>2. PICK i \in TimerSlots :
           /\ Selects(i)
           /\ timers' = [timers EXCEPT ![i] = Rearmed(timers[i])]
           /\ polled' = [slot |-> i, now_ms |-> clock, previous |-> timers[i],
                         skipped |-> Skipped(timers[i])]
    BY <1>2, OnlyPollSelects
  <2>3. /\ timers[i] \in Timer /\ timers[i].deadline_ms <= clock /\ timers[i].active
        /\ clock \in Nat
    BY <2>2 DEF Selects, Due, TypeOK
  <2>4. /\ Rearmed(timers[i]).handle = timers[i].handle
        /\ Rearmed(timers[i]).active => Rearmed(timers[i]).deadline_ms > clock
    BY <2>3, RearmedFacts
  <2>5. /\ polled'.slot = i /\ polled'.now_ms = clock /\ polled'.previous = timers[i]
        /\ timers'[i] = Rearmed(timers[i])
        /\ \A j \in TimerSlots \ {i} : timers'[j] = timers[j]
    BY <2>2 DEF TypeOK
  <2>6. \A j \in TimerSlots \ {i} :
           timers[j].active /\ timers[j].deadline_ms <= clock =>
               timers[i].deadline_ms <= timers[j].deadline_ms
    <3> SUFFICES ASSUME NEW j \in TimerSlots, timers[j].active, timers[j].deadline_ms <= clock
                 PROVE  timers[i].deadline_ms <= timers[j].deadline_ms
      OBVIOUS
    <3>1. timers[i].deadline_ms \in Nat /\ timers[j].deadline_ms \in Nat
      BY DEF TypeOK, Timer
    <3>2. \/ timers[i].deadline_ms < timers[j].deadline_ms
          \/ timers[i].deadline_ms = timers[j].deadline_ms
      BY <2>2 DEF Selects, Due
    <3> QED
      BY <3>1, <3>2
  <2> QED
    BY <2>3, <2>4, <2>5, <2>6 DEF SelectedInv
<1> QED
  BY <1>1, <1>2

(* An entry writes at most one log, into an empty buffer, and the size the *)
(* buffer had before it is kept until it ends.                             *)
LEMMA LogStep == TypeOK /\ PhaseInv /\ LogInv /\ [Next]_vars => LogInv'
<1> SUFFICES ASSUME TypeOK, PhaseInv, LogInv, [Next]_vars PROVE LogInv'
  OBVIOUS
<1>1. CASE UNCHANGED <<pc, log_origin, pending_log_size, prior_log_size>>
  BY <1>1 DEF LogInv
<1>2. CASE Open \/ Close
  BY <1>2 DEF Open, Close, Fresh, LogInv, PhaseInv
<1>3. CASE pc' = "guest" /\ (\E n \in {"init", "event", "stop", "timer"} : Invoke(n)) /\ UNCHANGED pending_log_size
  BY <1>3 DEF Invoke, LogInv, TypeOK
<1>4. CASE GuestReturns
  <2>1. pending_log_size' = 0 => log_origin' = "none"
    BY <1>4 DEF GuestReturns
  <2>2. pending_log_size' # 0 => log_origin' # "none"
    BY <1>4 DEF GuestReturns, LogAfterExpiry, LogInv
  <2> QED
    BY <1>4, <2>1, <2>2 DEF GuestReturns, LogInv
<1>5. CASE NativeLog
  BY <1>5 DEF NativeLog, LogInv, HostCall, call, TypeOK
<1>6. CASE TakeLog
  BY <1>6 DEF TakeLog, Refuse, LogInv, instance, history
<1>7. CASE pc' # "guest" /\ UNCHANGED <<log_origin, pending_log_size>>
  BY <1>7 DEF LogInv
<1>8. CASE InitCall \/ OnEvent \/ Stop \/ DeliverTimerEvent
  <2>1. CASE InvokeFails
    BY <2>1, <1>7 DEF InvokeFails, history
  <2>2. CASE \E r \in Results : Refuse(r)
    BY <2>2, <1>1 DEF Refuse, instance, history
  <2> QED
    BY <1>8, <1>3, <1>1, <2>1, <2>2 DEF InitCall, OnEvent, Stop, DeliverTimerEvent, Invoke, Results,
                                   history, instance
<1>9. CASE HostCallRefused \/ NativeTimerStart \/ NativeTimerCancel \/ Tick \/ UNCHANGED vars
  BY <1>9, <1>1 DEF HostCallRefused, NativeTimerStart, NativeTimerCancel, Tick, vars, instance,
                 call, history
<1>10. CASE NextTimerDeadline \/ PollTimer \/ TimerEventNoMemory
  BY <1>10, <1>1, <1>7 DEF NextTimerDeadline, PollTimer, TimerEventNoMemory, Refuse, instance, history
<1> QED
  BY <1>2, <1>4, <1>5, <1>6, <1>8, <1>9, <1>10 DEF Next

-----------------------------------------------------------------------------
(* The parts of the invariant that are about the table.  Most steps do one *)
(* of three things to it; the guest's two host calls and the delivery of   *)
(* an event are left.                                                      *)

Working == opened /\ state \in {"LOADED", "RUNNING"} /\ ~stopping

Books == <<next_timer_handle, issued, settled, overtaken>>

(* The table stays, whether a timer is selected or put back. *)
Kept ==
    /\ Table' = Table
    /\ UNCHANGED Books
    /\ Working' => Working
    /\ state' # "FAILED" => state # "FAILED"

(* Timers are disarmed because the instance stops or fails. *)
Dropped ==
    /\ \A i \in TimerSlots : Table'[i].active =>
          Table[i].active /\ Table'[i].handle = Table[i].handle
    /\ UNCHANGED Books
    /\ ~Working'
    /\ state' = "FAILED" \/ \A i \in TimerSlots : ~Table'[i].active

(* There is no instance any more, or only just. *)
Emptied ==
    /\ \A i \in TimerSlots : ~Table'[i].active
    /\ UNCHANGED <<next_timer_handle, issued>>
    /\ settled' = issued /\ overtaken' = {}

(* A timer event reaches the guest. *)
Delivered ==
    LET h       == polled.previous.handle
        waiting == {timers[i].handle : i \in PassedOver}
    IN  /\ pc = "selected"
        /\ Invoke("timer")
        /\ overtaken' = {p \in overtaken : p[2] # h} \cup {<<h, b>> : b \in waiting}
        /\ settled' = IF timers[polled.slot].active THEN settled ELSE settled \cup {h}
        /\ UNCHANGED <<host, instance, polled, issued>>

(* A selected timer is back in the table as it was. *)
LEMMA RestoredFacts ==
    ASSUME TypeOK, SelectedInv, pc = "selected"
    PROVE  /\ polled.slot \in TimerSlots
           /\ Table = [timers EXCEPT ![polled.slot] = polled.previous]
           /\ Table[polled.slot] = polled.previous
           /\ \A i \in TimerSlots \ {polled.slot} : Table[i] = timers[i]
BY DEF TypeOK, SelectedInv, Table, Restored

LEMMA TableType == ASSUME TypeOK, SelectedInv PROVE Table \in [TimerSlots -> Timer]
BY DEF TypeOK, SelectedInv, Table, Restored

(* poll_timer rearms one timer and remembers what it was. *)
LEMMA PollKeepsTable ==
    ASSUME TypeOK, pc = "idle", pc' = "selected",
           NEW i \in TimerSlots,
           timers' = [timers EXCEPT ![i] = Rearmed(timers[i])],
           polled' = [slot |-> i, now_ms |-> clock, previous |-> timers[i],
                      skipped |-> Skipped(timers[i])]
    PROVE  Table' = Table
<1>1. Table = timers
  BY DEF Table
<1>2. Table' = [timers' EXCEPT ![i] = timers[i]]
  BY DEF Table, Restored
<1>3. [timers' EXCEPT ![i] = timers[i]] = timers
  BY DEF TypeOK
<1> QED
  BY <1>1, <1>2, <1>3

(* What each step of Next does to the table. *)
LEMMA TableStep ==
    ASSUME TypeOK, PhaseInv, SelectedInv, [Next]_vars
    PROVE  Kept \/ Dropped \/ Emptied \/ NativeTimerStart \/ NativeTimerCancel \/ Delivered
<1>a. ASSUME pc # "selected", pc' # "selected", UNCHANGED <<timers, Books>>,
             Working' => Working, state' # "FAILED" => state # "FAILED"
      PROVE  Kept
  BY <1>a DEF Kept, Table
<1>b. ASSUME NEW r \in Results, Refuse(r), pc = "idle" PROVE Kept
  BY <1>b, <1>a DEF Refuse, host, instance, history, Books, Working
<1>c. ASSUME pc # "selected", pc' # "selected", timers' = Disarmed, UNCHANGED Books, ~Working'
      PROVE  Dropped
  <2>1. \A i \in TimerSlots : ~Table'[i].active
    BY <1>c, DisarmedFacts DEF Table, TypeOK
  <2> QED
    BY <1>c, <2>1 DEF Dropped
<1>d. ASSUME pc # "selected", InvokeFails, UNCHANGED timers PROVE Dropped
  BY <1>d DEF InvokeFails, Dropped, Table, host, history, Books, Working
<1>e. ASSUME NEW n, pc # "selected", Invoke(n),
             UNCHANGED <<host, instance, polled, issued, settled, overtaken>>
      PROVE  Kept
  BY <1>e, <1>a DEF Invoke, host, instance, Books, Working
<1>1. CASE UNCHANGED vars
  BY <1>1 DEF Kept, Table, Restored, Books, Working, vars, host, instance, call, history
<1>2. CASE Open
  BY <1>2 DEF Open, Fresh, Emptied, Table, PhaseInv, NoTimer, host
<1>3. CASE Close
  BY <1>3 DEF Close, Fresh, Emptied, Table, PhaseInv, NoTimer, host
<1>4. CASE InitCall
  <2>1. CASE InvokeFails /\ timers' = Disarmed
    BY <1>4, <2>1, <1>c DEF InitCall, InvokeFails, host, history, Books, Working
  <2> QED
    BY <1>4, <2>1, <1>b, <1>e DEF InitCall, Results
<1>5. CASE OnEvent
  BY <1>5, <1>b, <1>d, <1>e DEF OnEvent, Results
<1>6. CASE Stop
  <2>1. CASE \E r \in {"OK", "INVALID_STATE"} : Refuse(r)
    BY <1>6, <2>1, <1>b DEF Stop, Results
  <2>2. CASE ~\E r \in {"OK", "INVALID_STATE"} : Refuse(r)
    BY <1>6, <2>2, <1>c DEF Stop, Invoke, host, history, Books, Working
  <2> QED
    BY <2>1, <2>2
<1>7. CASE GuestReturns
  <2>1. pc = "guest" /\ pc' = "idle" /\ UNCHANGED Books
    BY <1>7 DEF GuestReturns, host, Books
  <2>2. CASE timers' = Disarmed /\ state' = "FAILED"
    BY <2>1, <2>2, <1>c DEF Working
  <2>3. CASE timers' = timers
    BY <1>7, <2>1, <2>3, <1>a DEF GuestReturns, PhaseInv, Working
  <2>4. timers' = timers \/ (timers' = Disarmed /\ state' = "FAILED")
    BY <1>7 DEF GuestReturns, Cancels
  <2> QED
    BY <2>2, <2>3, <2>4
<1>8. CASE HostCallRefused
  BY <1>8, <1>a DEF HostCallRefused, host, instance, history, Books, Working
<1>9. CASE NativeLog
  BY <1>9, <1>a DEF NativeLog, HostCall, host, call, Books, Working
<1>12. CASE NextTimerDeadline
  BY <1>12, <1>b DEF NextTimerDeadline, Results
<1>13. CASE PollTimer
  <2>1. CASE \E r \in {"INVALID_STATE", "ENGINE_FAILURE", "NO_TIMER"} : Refuse(r)
    BY <1>13, <2>1, <1>b DEF PollTimer, Results
  <2>2. CASE /\ \E i \in TimerSlots :
                   /\ timers' = [timers EXCEPT ![i] = Rearmed(timers[i])]
                   /\ polled' = [slot |-> i, now_ms |-> clock, previous |-> timers[i],
                                 skipped |-> Skipped(timers[i])]
             /\ pc = "idle" /\ pc' = "selected"
             /\ UNCHANGED <<host, opened, state, stopping, history>>
    BY <2>2, PollKeepsTable DEF Kept, Books, Working, host, history
  <2> QED
    BY <1>13, <2>1, <2>2 DEF PollTimer
<1>14. CASE TimerEventNoMemory
  BY <1>14 DEF TimerEventNoMemory, Kept, Table, Books, Working, host, history
<1>15. CASE DeliverTimerEvent
  <2>1. CASE InvokeFails /\ UNCHANGED timers
    <3>1. pc = "selected"
      BY <1>15 DEF DeliverTimerEvent
    <3>2. ASSUME NEW i \in TimerSlots, timers[i].active
          PROVE  Table[i].active /\ timers[i].handle = Table[i].handle
      BY <3>1, <3>2, RestoredFacts DEF SelectedInv
    <3> QED
      BY <2>1, <3>2 DEF InvokeFails, Dropped, Table, host, history, Books, Working
  <2> QED
    BY <1>15, <2>1 DEF DeliverTimerEvent, Delivered
<1>16. CASE TakeLog
  <2>1. CASE \E r \in {"NO_LOG", "INVALID_INPUT"} : Refuse(r)
    BY <1>16, <2>1, <1>b DEF TakeLog, Results
  <2>2. CASE UNCHANGED <<host, opened, state, stopping, timers, pc, polled, issued, settled, overtaken>>
    BY <1>16, <2>2, <1>a DEF TakeLog, host, Books, Working
  <2> QED
    BY <1>16, <2>1, <2>2 DEF TakeLog
<1>17. CASE Tick
  BY <1>17 DEF Tick, Kept, Table, Restored, Books, Working, instance, call, history
<1> QED
  BY <1>1, <1>2, <1>3, <1>4, <1>5, <1>6, <1>7, <1>8, <1>9, <1>12, <1>13, <1>14, <1>15, <1>16,
     <1>17 DEF Next

(* timer_start takes a handle no guest was ever given, for a free slot. *)
LEMMA StartFacts ==
    ASSUME TypeOK, HandleInv, NativeTimerStart
    PROVE  /\ next_timer_handle \in 1..MaxHandle /\ next_timer_handle \notin issued
           /\ issued' = issued \cup {next_timer_handle} /\ UNCHANGED <<settled, overtaken>>
           /\ next_timer_handle' # 0 => \A h \in issued' : h < next_timer_handle'
           /\ Table = timers /\ Table' = timers'
           /\ \E i \in TimerSlots :
                 /\ ~timers[i].active
                 /\ timers'[i].active /\ timers'[i].handle = next_timer_handle
                 /\ \A j \in TimerSlots \ {i} : timers'[j] = timers[j]
<1>1. next_timer_handle \in 1..MaxHandle
  BY DEF NativeTimerStart, TypeOK
<1>2. next_timer_handle \notin issued
  BY <1>1 DEF HandleInv, TypeOK
<1>3. next_timer_handle' # 0 => next_timer_handle' = next_timer_handle + 1
  BY <1>1, NextHandleFacts, RuntimeAssumption DEF NativeTimerStart
<1>4. next_timer_handle' # 0 => \A h \in issued' : h < next_timer_handle'
  BY <1>1, <1>3 DEF NativeTimerStart, HandleInv, TypeOK
<1>5. Table = timers /\ Table' = timers'
  BY DEF NativeTimerStart, HostCall, Table, call
<1> QED
  BY <1>1, <1>2, <1>4, <1>5 DEF NativeTimerStart, TypeOK

(* timer_cancel settles the handle of one armed timer. *)
LEMMA CancelFacts ==
    ASSUME TypeOK, NativeTimerCancel
    PROVE  /\ UNCHANGED <<next_timer_handle, issued, overtaken>>
           /\ Table = timers /\ Table' = timers'
           /\ \E i \in TimerSlots :
                 /\ timers[i].active /\ ~timers'[i].active
                 /\ settled' = settled \cup {timers[i].handle}
                 /\ \A j \in TimerSlots \ {i} : timers'[j] = timers[j]
<1>1. Table = timers /\ Table' = timers'
  BY DEF NativeTimerCancel, HostCall, Table, call
<1>2. \E i \in TimerSlots :
         /\ timers[i].active /\ ~timers'[i].active
         /\ settled' = settled \cup {timers[i].handle}
         /\ \A j \in TimerSlots \ {i} : timers'[j] = timers[j]
  BY DEF NativeTimerCancel, TypeOK, Timer
<1> QED
  BY <1>1, <1>2 DEF NativeTimerCancel, host

(* An event that is delivered leaves every other timer alone. *)
LEMMA DeliverFacts ==
    ASSUME TypeOK, SelectedInv, Delivered
    PROVE  /\ polled.slot \in TimerSlots
           /\ UNCHANGED <<next_timer_handle, issued, timers>>
           /\ Table' = timers
           /\ Table[polled.slot] = polled.previous /\ polled.previous.active
           /\ timers[polled.slot].handle = polled.previous.handle
           /\ \A i \in TimerSlots \ {polled.slot} : Table[i] = timers[i]
<1>1. pc = "selected" /\ pc' = "guest" /\ UNCHANGED <<timers, next_timer_handle, issued>>
  BY DEF Delivered, Invoke, instance, host
<1>2. Table' = timers
  BY <1>1 DEF Table
<1> QED
  BY <1>1, <1>2, RestoredFacts DEF SelectedInv

LEMMA TableInit == Init => HandleInv /\ ArmedInv /\ TurnInv
<1> SUFFICES ASSUME Init PROVE HandleInv /\ ArmedInv /\ TurnInv
  OBVIOUS
<1>1. \A i \in TimerSlots : ~Table[i].active
  BY DEF Init, Table, NoTimer
<1>2. issued = {} /\ overtaken = {} /\ overtaken \subseteq issued \X issued
  BY DEF Init
<1> QED
  BY <1>1, <1>2 DEF HandleInv, ArmedInv, TurnInv

(* Armed handles were issued, are not settled, and are armed once. *)
LEMMA HandleStep == TypeOK /\ PhaseInv /\ SelectedInv /\ HandleInv /\ [Next]_vars => HandleInv'
<1> SUFFICES ASSUME TypeOK, PhaseInv, SelectedInv, HandleInv, [Next]_vars PROVE HandleInv'
  OBVIOUS
<1>1. CASE Kept \/ Dropped
  <2>1. \A i \in TimerSlots : Table'[i].active =>
           Table[i].active /\ Table'[i].handle = Table[i].handle
    BY <1>1 DEF Kept, Dropped
  <2>2. UNCHANGED Books
    BY <1>1 DEF Kept, Dropped
  <2> QED
    BY <2>1, <2>2 DEF HandleInv, Books
<1>2. CASE Emptied
  <2>1. overtaken' \subseteq issued' \X issued'
    BY <1>2 DEF Emptied
  <2> QED
    BY <1>2, <2>1 DEF Emptied, HandleInv
<1>3. CASE NativeTimerStart
  <2>1. overtaken' \subseteq issued' \X issued'
    BY <1>3, StartFacts DEF HandleInv
  <2>2. PICK i \in TimerSlots :
                 /\ ~timers[i].active
                 /\ timers'[i].active /\ timers'[i].handle = next_timer_handle
                 /\ \A j \in TimerSlots \ {i} : timers'[j] = timers[j]
    BY <1>3, StartFacts
  <2>3. \A j \in TimerSlots : Table'[j].active =>
           Table'[j].handle = IF j = i THEN next_timer_handle ELSE Table[j].handle
    BY <1>3, <2>2, StartFacts
  <2>4. \A j \in TimerSlots : Table'[j].active => j = i \/ Table[j].active
    BY <1>3, <2>2, StartFacts
  <2>5. \A j \in TimerSlots : Table'[j].active => Table'[j].handle \in issued' \ settled'
    <3>1. next_timer_handle \notin settled
      BY <1>3, StartFacts DEF TypeOK
    <3> QED
      BY <1>3, <2>3, <2>4, <3>1, StartFacts DEF HandleInv
  <2>6. \A j, k \in TimerSlots :
          Table'[j].active /\ Table'[k].active /\ Table'[j].handle = Table'[k].handle => j = k
    <3>1. \A j \in TimerSlots : Table[j].active => Table[j].handle # next_timer_handle
      BY <1>3, StartFacts DEF HandleInv
    <3> QED
      BY <2>3, <2>4, <3>1 DEF HandleInv
  <2> QED
    BY <1>3, <2>1, <2>5, <2>6, StartFacts DEF HandleInv
<1>4. CASE NativeTimerCancel
  <2>1. PICK i \in TimerSlots :
                 /\ timers[i].active /\ ~timers'[i].active
                 /\ settled' = settled \cup {timers[i].handle}
                 /\ \A j \in TimerSlots \ {i} : timers'[j] = timers[j]
    BY <1>4, CancelFacts
  <2>2. \A j \in TimerSlots : Table'[j].active => j # i /\ Table'[j] = Table[j]
    BY <1>4, <2>1, CancelFacts
  <2>3. \A j \in TimerSlots : Table'[j].active => Table'[j].handle \in issued' \ settled'
    BY <1>4, <2>1, <2>2, CancelFacts DEF HandleInv
  <2> QED
    BY <1>4, <2>2, <2>3, CancelFacts DEF HandleInv
<1>5. CASE Delivered
  <2> DEFINE h == polled.previous.handle
             waiting == {timers[i].handle : i \in PassedOver}
  <2>1. \A j \in TimerSlots : Table'[j].active =>
           Table[j].active /\ Table'[j].handle = Table[j].handle
    BY <1>5, DeliverFacts
  <2>2. h \in issued
    BY <1>5, DeliverFacts DEF HandleInv
  <2>3. waiting \subseteq issued
    BY <1>5, DeliverFacts DEF HandleInv, PassedOver
  <2>4. overtaken' \subseteq issued' \X issued'
    <3>1. {<<h, b>> : b \in waiting} \subseteq issued \X issued
      BY <2>2, <2>3
    <3>2. {p \in overtaken : p[2] # h} \subseteq issued \X issued
      BY DEF HandleInv
    <3>3. overtaken' = {p \in overtaken : p[2] # h} \cup {<<h, b>> : b \in waiting}
      BY <1>5 DEF Delivered
    <3>4. issued' = issued
      BY <1>5, DeliverFacts
    <3> HIDE DEF h, waiting
    <3> QED
      BY <3>1, <3>2, <3>3, <3>4
  <2>5. \A j \in TimerSlots : Table'[j].active => Table'[j].handle \in issued' \ settled'
    <3> SUFFICES ASSUME NEW j \in TimerSlots, timers[j].active
                 PROVE  timers[j].handle \in issued \ settled'
      BY <1>5, DeliverFacts
    <3>1. Table[j].active /\ timers[j].handle = Table[j].handle
      BY <1>5, DeliverFacts
    <3>2. timers[j].handle \in issued \ settled
      BY <3>1 DEF HandleInv
    <3>3. CASE j = polled.slot
      BY <1>5, <3>2, <3>3 DEF Delivered
    <3>4. CASE j # polled.slot
      <4>1. timers[j].handle # h
        BY <1>5, <3>1, <3>4, DeliverFacts DEF HandleInv
      <4> QED
        BY <1>5, <3>2, <4>1 DEF Delivered
    <3> QED
      BY <3>3, <3>4
  <2> QED
    BY <1>5, <2>1, <2>4, <2>5, DeliverFacts DEF HandleInv
<1> QED
  BY <1>1, <1>2, <1>3, <1>4, <1>5, TableStep

(* No timer is lost while the instance works. *)
LEMMA ArmedStep ==
    TypeOK /\ PhaseInv /\ SelectedInv /\ HandleInv /\ ArmedInv /\ [Next]_vars => ArmedInv'
<1> SUFFICES ASSUME TypeOK, PhaseInv, SelectedInv, HandleInv, ArmedInv, [Next]_vars,
                    Working', NEW g \in issued' \ settled'
             PROVE  \E i \in TimerSlots : Table'[i].active /\ Table'[i].handle = g
  BY DEF ArmedInv, Working
<1>a. Working => \A h \in issued \ settled :
                    \E i \in TimerSlots : Table[i].active /\ Table[i].handle = h
  BY DEF ArmedInv, Working
<1>1. CASE Kept
  BY <1>1, <1>a DEF Kept, Books
<1>2. CASE Dropped
  BY <1>2 DEF Dropped
<1>3. CASE Emptied
  BY <1>3 DEF Emptied
<1>4. CASE NativeTimerStart
  <2>1. Working
    BY <1>4 DEF NativeTimerStart, Working
  <2> QED
    BY <1>4, <2>1, <1>a, StartFacts
<1>5. CASE NativeTimerCancel
  <2>1. Working
    BY <1>5 DEF NativeTimerCancel, Working
  <2> QED
    BY <1>5, <2>1, <1>a, CancelFacts
<1>6. CASE Delivered
  <2>1. Working
    BY <1>6 DEF Delivered, Working, PhaseInv
  <2>2. g \in issued \ settled
    BY <1>6, DeliverFacts DEF Delivered
  <2>3. PICK i \in TimerSlots : Table[i].active /\ Table[i].handle = g
    BY <2>1, <2>2, <1>a
  <2>4. CASE i # polled.slot
    BY <1>6, <2>3, <2>4, DeliverFacts
  <2>5. CASE i = polled.slot
    BY <1>6, <2>3, <2>5, DeliverFacts DEF Delivered
  <2> QED
    BY <2>4, <2>5
<1> QED
  BY <1>1, <1>2, <1>3, <1>4, <1>5, <1>6, TableStep

(* A timer that overtook another comes after it until that one had its     *)
(* turn: a delivery moves it beyond everything that was due.               *)
LEMMA TurnStep ==
    TypeOK /\ PhaseInv /\ SelectedInv /\ HandleInv /\ TurnInv /\ [Next]_vars => TurnInv'
<1> SUFFICES ASSUME TypeOK, PhaseInv, SelectedInv, HandleInv, TurnInv, [Next]_vars,
                    state' # "FAILED", NEW p \in overtaken',
                    NEW i \in TimerSlots, NEW j \in TimerSlots,
                    Table'[i].active, Table'[i].handle = p[1],
                    Table'[j].active, Table'[j].handle = p[2]
             PROVE  Table'[i].deadline_ms > Table'[j].deadline_ms
  BY DEF TurnInv
<1>1. CASE Kept
  BY <1>1 DEF Kept, Books, TurnInv
<1>2. CASE Dropped
  BY <1>2 DEF Dropped
<1>3. CASE Emptied
  BY <1>3 DEF Emptied
<1>4. CASE NativeTimerStart
  <2>1. state # "FAILED"
    BY <1>4 DEF NativeTimerStart
  <2>2. p \in overtaken /\ p[1] \in issued /\ p[2] \in issued
    BY <1>4, StartFacts DEF HandleInv
  <2>3. Table[i] = Table'[i] /\ Table[j] = Table'[j]
    BY <1>4, <2>2, StartFacts
  <2> QED
    BY <2>1, <2>2, <2>3 DEF TurnInv
<1>5. CASE NativeTimerCancel
  <2>1. state # "FAILED" /\ p \in overtaken
    BY <1>5, CancelFacts DEF NativeTimerCancel
  <2>2. Table[i] = Table'[i] /\ Table[j] = Table'[j]
    BY <1>5, CancelFacts
  <2> QED
    BY <2>1, <2>2 DEF TurnInv
<1>6. CASE Delivered
  <2> DEFINE s == polled.slot
             h == polled.previous.handle
             waiting == {timers[k].handle : k \in PassedOver}
  <2>1. /\ state # "FAILED" /\ pc = "selected"
        /\ overtaken' = {q \in overtaken : q[2] # h} \cup {<<h, b>> : b \in waiting}
    BY <1>6 DEF Delivered, PhaseInv
  <2>2. /\ s \in TimerSlots /\ Table' = timers
        /\ Table[s] = polled.previous /\ Table[s].active /\ timers[s].handle = h
        /\ \A k \in TimerSlots \ {s} : Table[k] = timers[k]
    BY <1>6, DeliverFacts
  <2>3. \A k, m \in TimerSlots :
           timers[k].active /\ timers[m].active /\ timers[k].handle = timers[m].handle => k = m
    BY <2>2 DEF HandleInv
  <2>4. /\ timers[s].active => timers[s].deadline_ms > polled.now_ms
        /\ Table[s].deadline_ms <= polled.now_ms
    BY <2>1, <2>2 DEF SelectedInv
  <2>5. /\ \A k \in TimerSlots : timers[k].deadline_ms \in Nat /\ Table[k].deadline_ms \in Nat
        /\ polled.now_ms \in Nat
    BY TableType DEF TypeOK, Timer
  <2>6. CASE p \in overtaken /\ p[2] # h
    <3>1. j # s /\ Table[j] = timers[j]
      BY <2>2, <2>6
    <3>2. CASE p[1] = h
      <4>1. i = s
        <5>1. Table[i].active /\ Table[i].handle = h
          BY <2>2, <3>2
        <5> QED
          BY <2>2, <5>1 DEF HandleInv
      <4>2. Table[s].deadline_ms > Table[j].deadline_ms
        BY <2>1, <2>2, <2>6, <3>1, <3>2 DEF TurnInv
      <4> QED
        BY <2>2, <2>4, <2>5, <3>1, <4>1, <4>2
    <3>3. CASE p[1] # h
      <4>1. i # s /\ Table[i] = timers[i]
        BY <2>2, <3>3
      <4> QED
        BY <2>1, <2>2, <2>6, <3>1, <4>1 DEF TurnInv
    <3> QED
      BY <3>2, <3>3
  <2>7. CASE p \in {<<h, b>> : b \in waiting}
    <3>1. PICK k \in PassedOver : p = <<h, timers[k].handle>>
      BY <2>7
    <3>2. k \in TimerSlots /\ k # s /\ timers[k].active /\ timers[k].deadline_ms <= polled.now_ms
      BY <3>1 DEF PassedOver
    <3>3. j = k
      BY <2>2, <2>3, <3>1, <3>2
    <3>4. i = s
      <4>1. Table[i].active /\ Table[i].handle = h
        BY <2>2, <3>1
      <4> QED
        BY <2>2, <4>1 DEF HandleInv
    <3> QED
      BY <2>2, <2>4, <2>5, <3>2, <3>3, <3>4
  <2> QED
    BY <2>1, <2>6, <2>7
<1> QED
  BY <1>1, <1>2, <1>3, <1>4, <1>5, <1>6, TableStep

-----------------------------------------------------------------------------
(* The theorems. *)

(* The inductive invariant holds in every reachable state. *)
THEOREM RuntimeAlways == Spec => []Inv
<1>1. Init => Inv
  BY TypeInit, CallInit, TableInit DEF Inv
<1>2. Inv /\ [Next]_vars => Inv'
  BY TypeStep, PhaseStep, DisarmedStep, SelectedStep, HandleStep, ArmedStep, TurnStep, LogStep
     DEF Inv
<1> QED
  BY <1>1, <1>2, PTL DEF Spec

(* Types: in particular handles stay within 64 bits, the count of skipped  *)
(* periods within 32, and the log within its limit.                        *)
THEOREM RuntimeTypes == Spec => []TypeOK
<1>1. Inv => TypeOK
  BY DEF Inv
<1> QED
  BY <1>1, RuntimeAlways, PTL

(* An instance fails before it ever ran only by the return of its init, or *)
(* because the clock could not be read when init was called; both cancel.  *)
LEMMA FailedInitDisarms ==
    ASSUME TypeOK, PhaseInv, [Next]_vars, state = "LOADED", state' = "FAILED"
    PROVE  timers' = Disarmed
<1>1. ~UNCHANGED state
  OBVIOUS
<1>2. ~UNCHANGED vars /\ ~Tick /\ ~Open /\ ~Close
  BY <1>1 DEF vars, instance, Tick, Open, Close, Fresh
<1>3. ~\E r \in Results : Refuse(r)
  BY <1>1 DEF Refuse, instance
<1>4. ~OnEvent /\ ~Stop /\ ~TakeLog /\ ~NextTimerDeadline /\ ~PollTimer
  BY <1>1, <1>3 DEF OnEvent, Stop, TakeLog, NextTimerDeadline, PollTimer, Results
<1>5. ~HostCallRefused /\ ~NativeLog /\ ~NativeTimerStart /\ ~NativeTimerCancel
  BY <1>1 DEF HostCallRefused, NativeLog, NativeTimerStart, NativeTimerCancel, instance
<1>6. ~TimerEventNoMemory /\ ~DeliverTimerEvent
  BY DEF TimerEventNoMemory, DeliverTimerEvent, PhaseInv
<1>7. CASE InitCall
  BY <1>1, <1>3, <1>7 DEF InitCall, instance, Results
<1>8. CASE GuestReturns
  <2>1. entry = "init"
    BY <1>8 DEF GuestReturns, PhaseInv
  <2> QED
    BY <1>8, <2>1 DEF GuestReturns, Cancels
<1> QED
  BY <1>2, <1>4, <1>5, <1>6, <1>7, <1>8 DEF Next

(* Only a guest, or a poll of a running instance, arms a timer. *)
LEMMA FailedArmsNothing ==
    ASSUME TypeOK, PhaseInv, [Next]_vars, state = "FAILED", NEW i \in TimerSlots, timers'[i].active
    PROVE  timers[i].active
<1>1. pc = "idle"
  BY DEF PhaseInv, TypeOK
<1>2. CASE UNCHANGED vars \/ Tick \/ TakeLog
  <2>1. CASE \E r \in Results : Refuse(r)
    BY <2>1 DEF Refuse, instance
  <2> QED
    BY <1>2, <2>1 DEF vars, instance, Tick, TakeLog, Results
<1>3. CASE Open \/ Close
  BY <1>3 DEF Open, Close, Fresh, NoTimer
<1>4. CASE InitCall \/ OnEvent \/ Stop \/ NextTimerDeadline \/ PollTimer
  BY <1>4 DEF InitCall, MayInit, OnEvent, Stop, NextTimerDeadline, PollTimer, Refuse, instance
<1>5. ~GuestReturns /\ ~HostCallRefused /\ ~NativeLog /\ ~NativeTimerStart /\ ~NativeTimerCancel
  BY <1>1 DEF GuestReturns, HostCallRefused, NativeLog, NativeTimerStart, NativeTimerCancel,
              HostCall
<1>6. ~TimerEventNoMemory /\ ~DeliverTimerEvent
  BY <1>1 DEF TimerEventNoMemory, DeliverTimerEvent
<1> QED
  BY <1>2, <1>3, <1>4, <1>5, <1>6 DEF Next

(* Whatever the guest does in its stop entry, however an entry overruns    *)
(* and however init fails, econtainer_runtime_stop, expire_entry and       *)
(* econtainer_runtime_init leave no timer armed, and none is armed later.  *)
THEOREM StoppedMeansSilent == Spec => NoTimerSurvives
<1>1. Inv /\ Inv' /\ [Next]_vars =>
        [/\ \/ stopping' \/ state' = "STOPPED"
            \/ opened' /\ result' = "ENTRY_EXPIRED"
            \/ state = "LOADED" /\ state' = "FAILED"
            => \A i \in TimerSlots : ~timers'[i].active
         /\ state = "FAILED" =>
               \A i \in TimerSlots : timers'[i].active => timers[i].active]_vars
  <2> SUFFICES ASSUME Inv, Inv', [Next]_vars
               PROVE  /\ \/ stopping' \/ state' = "STOPPED"
                         \/ opened' /\ result' = "ENTRY_EXPIRED"
                         \/ state = "LOADED" /\ state' = "FAILED"
                         => \A i \in TimerSlots : ~timers'[i].active
                      /\ state = "FAILED" =>
                            \A i \in TimerSlots : timers'[i].active => timers[i].active
    OBVIOUS
  <2>1. stopping' \/ state' = "STOPPED" \/ result' = "ENTRY_EXPIRED" =>
          \A i \in TimerSlots : ~timers'[i].active
    BY DEF Inv, PhaseInv, DisarmedInv
  <2>2. state = "LOADED" /\ state' = "FAILED" => \A i \in TimerSlots : ~timers'[i].active
    BY FailedInitDisarms, DisarmedFacts DEF Inv, TypeOK
  <2>3. state = "FAILED" => \A i \in TimerSlots : timers'[i].active => timers[i].active
    BY FailedArmsNothing DEF Inv
  <2> QED
    BY <2>1, <2>2, <2>3
<1> QED
  BY <1>1, RuntimeAlways, PTL DEF Spec, NoTimerSurvives

(* No timer is lost and none comes after its end, for tables of any size:  *)
(* start, cancel, poll_timer and the path that puts a timer back.          *)
THEOREM NoTimerLost == Spec => []TimersAccounted
<1>1. Inv => TimersAccounted
  <2> SUFFICES ASSUME Inv PROVE TimersAccounted
    OBVIOUS
  <2>1. ASSUME NEW h \in settled, NEW i \in TimerSlots, timers[i].active, timers[i].handle = h
        PROVE  FALSE
    <3>1. Table[i].active /\ Table[i].handle = h
      BY <2>1, RestoredFacts DEF Inv, SelectedInv, Table
    <3> QED
      BY <2>1, <3>1 DEF Inv, HandleInv
  <2>2. ASSUME Working, NEW h \in issued \ settled
        PROVE  \/ \E i \in TimerSlots : timers[i].active /\ timers[i].handle = h
               \/ pc = "selected" /\ polled.previous.handle = h
    <3>1. PICK i \in TimerSlots : Table[i].active /\ Table[i].handle = h
      BY <2>2 DEF Inv, ArmedInv, Working
    <3>2. CASE pc = "selected" /\ i = polled.slot
      BY <3>1, <3>2, RestoredFacts DEF Inv
    <3>3. CASE pc # "selected" \/ i # polled.slot
      BY <3>1, <3>3, RestoredFacts DEF Inv, Table
    <3> QED
      BY <3>2, <3>3
  <2> QED
    BY <2>1, <2>2 DEF TimersAccounted, Working
<1> QED
  BY <1>1, RuntimeAlways, PTL

(* econtainer_runtime_issue_timer_handle gives a handle out once in the    *)
(* life of the process, the last one of the 64-bit range included.         *)
THEOREM HandlesUnique == Spec => HandlesNeverReissued
<1>1. Inv /\ [Next]_vars =>
        [\A i \in TimerSlots :
           timers'[i].active /\ pc # "selected" /\ timers'[i].handle # timers[i].handle =>
               timers'[i].handle \notin issued /\ timers'[i].handle # 0]_vars
  <2> SUFFICES ASSUME Inv, [Next]_vars, pc # "selected", NEW i \in TimerSlots,
                      timers'[i].active, timers'[i].handle # timers[i].handle
               PROVE  timers'[i].handle \notin issued /\ timers'[i].handle # 0
    OBVIOUS
  <2>a. TypeOK /\ PhaseInv /\ SelectedInv /\ HandleInv
    BY DEF Inv
  <2>1. CASE pc' = "selected"
    <3>1. PICK j \in TimerSlots :
             Selects(j) /\ timers' = [timers EXCEPT ![j] = Rearmed(timers[j])]
      BY <2>1, <2>a, OnlyPollSelects
    <3>2. Rearmed(timers[j]).handle = timers[j].handle
      BY <3>1, <2>a, RearmedFacts DEF TypeOK, Selects, Due
    <3> QED
      BY <3>1, <3>2, <2>a DEF TypeOK
  <2>2. CASE pc' # "selected"
    <3>1. Table = timers /\ Table' = timers'
      BY <2>2 DEF Table
    <3>2. ~Kept /\ ~Dropped /\ ~Emptied
      BY <3>1 DEF Kept, Dropped, Emptied
    <3>3. ~NativeTimerCancel /\ ~Delivered
      BY <2>a, CancelFacts DEF Delivered
    <3>4. NativeTimerStart
      BY <3>2, <3>3, <2>a, TableStep
    <3> QED
      BY <3>4, <2>a, StartFacts
  <2> QED
    BY <2>1, <2>2
<1> QED
  BY <1>1, RuntimeAlways, PTL DEF Spec, HandlesNeverReissued

(* An entry that overruns fails the instance; reported as expired, its log *)
(* and timers are undone and an earlier log is kept: invoke and            *)
(* expire_entry.                                                           *)
THEOREM OverrunsUndone == Spec => OverrunUndone
<1>1. Inv /\ [Next]_vars =>
        [pc = "guest" /\ pc' = "idle" /\ clock >= entry_deadline_ms =>
           /\ state' = "FAILED"
           /\ result' = "ENTRY_EXPIRED" =>
                 /\ pending_log_size' = IF log_origin = "earlier" THEN pending_log_size ELSE 0
                 /\ \A i \in TimerSlots : ~timers'[i].active]_vars
  <2> SUFFICES ASSUME Inv, [Next]_vars, pc = "guest", pc' = "idle", clock >= entry_deadline_ms
               PROVE  /\ state' = "FAILED"
                      /\ result' = "ENTRY_EXPIRED" =>
                            /\ pending_log_size' = IF log_origin = "earlier"
                                                   THEN pending_log_size ELSE 0
                            /\ \A i \in TimerSlots : ~timers'[i].active
    OBVIOUS
  <2>1. ~UNCHANGED vars /\ ~Tick /\ ~Open
    BY DEF vars, call, Tick, Open
  <2>2. ~Close /\ ~InitCall /\ ~OnEvent /\ ~Stop /\ ~TakeLog /\ ~NextTimerDeadline /\ ~PollTimer
    BY DEF Close, InitCall, OnEvent, Stop, TakeLog, NextTimerDeadline, PollTimer
  <2>3. ~HostCallRefused /\ ~NativeLog /\ ~NativeTimerStart /\ ~NativeTimerCancel
    BY DEF HostCallRefused, NativeLog, NativeTimerStart, NativeTimerCancel, call
  <2>4. ~TimerEventNoMemory /\ ~DeliverTimerEvent
    BY DEF TimerEventNoMemory, DeliverTimerEvent
  <2>5. GuestReturns
    BY <2>1, <2>2, <2>3, <2>4 DEF Next
  <2>6. ~(clock < entry_deadline_ms)
    BY DEF Inv, TypeOK
  <2>7. \E s \in Results \ {"OK"} :
           /\ state' = "FAILED"
           /\ s = "ENTRY_EXPIRED" => timers' = Disarmed /\ pending_log_size' = prior_log_size
           /\ result' = s
    BY <2>5, <2>6 DEF GuestReturns, InvokeStatus, LogAfterExpiry, Cancels
  <2> QED
    BY <2>7, DisarmedFacts DEF Inv, TypeOK, LogInv
<1> QED
  BY <1>1, RuntimeAlways, PTL DEF Spec, OverrunUndone

(* Only DeliverTimerEvent leads from a selected timer into the guest. *)
LEMMA OnlyDeliverEnters ==
    ASSUME [Next]_vars, pc = "selected", pc' = "guest"
    PROVE  Delivered
<1>1. ~UNCHANGED vars /\ ~Tick /\ ~Open
  BY DEF vars, call, Tick, Open
<1>2. ~Close /\ ~InitCall /\ ~OnEvent /\ ~Stop /\ ~TakeLog /\ ~NextTimerDeadline /\ ~PollTimer
  BY DEF Close, InitCall, OnEvent, Stop, TakeLog, NextTimerDeadline, PollTimer
<1>3. ~HostCallRefused /\ ~NativeLog /\ ~NativeTimerStart /\ ~NativeTimerCancel /\ ~GuestReturns
  BY DEF HostCallRefused, NativeLog, NativeTimerStart, NativeTimerCancel, HostCall, GuestReturns
<1>4. ~TimerEventNoMemory
  BY DEF TimerEventNoMemory
<1>5. DeliverTimerEvent
  BY <1>1, <1>2, <1>3, <1>4 DEF Next
<1> QED
  BY <1>5 DEF DeliverTimerEvent, Delivered, InvokeFails

(* poll_timer starves no timer, however many there are and however short   *)
(* the periods: a timer passed over is delivered before the other returns. *)
THEOREM NobodyStarves == Spec => NoStarvation
<1>1. Inv /\ [Next]_vars =>
        [pc = "selected" /\ pc' = "guest" =>
           \A i \in PassedOver :
               <<polled.previous.handle, timers[i].handle>> \notin overtaken]_vars
  <2> SUFFICES ASSUME Inv, [Next]_vars, pc = "selected", pc' = "guest", NEW i \in PassedOver,
                      <<polled.previous.handle, timers[i].handle>> \in overtaken
               PROVE  FALSE
    OBVIOUS
  <2> DEFINE s == polled.slot
  <2>1. /\ i \in TimerSlots /\ i # s /\ timers[i].active
        /\ timers[i].deadline_ms <= polled.now_ms
    BY DEF PassedOver
  <2>2. /\ s \in TimerSlots /\ Table[s] = polled.previous /\ Table[i] = timers[i]
    BY <2>1, RestoredFacts DEF Inv
  <2>3. Table[s].active /\ Table[s].deadline_ms <= Table[i].deadline_ms
    BY <2>1, <2>2 DEF Inv, SelectedInv
  <2>4. state # "FAILED"
    BY DEF Inv, PhaseInv
  <2>5. Table[s].deadline_ms > Table[i].deadline_ms
    BY <2>1, <2>2, <2>3, <2>4 DEF Inv, TurnInv
  <2>6. Table[s].deadline_ms \in Nat /\ Table[i].deadline_ms \in Nat
    BY <2>1, <2>2, TableType DEF Inv, Timer
  <2> QED
    BY <2>3, <2>5, <2>6
<1> QED
  BY <1>1, RuntimeAlways, PTL DEF Spec, NoStarvation

(* A periodic timer keeps its phase however late it is polled, and the     *)
(* periods it skipped are counted: the division in poll_timer.             *)
THEOREM PhaseKept == Spec => PeriodsCoalesced
<1>1. Inv /\ [Next]_vars =>
        [pc = "idle" /\ pc' = "selected" =>
           LET old == polled'.previous
               new == timers'[polled'.slot]
           IN  old.period_ms > 0 =>
                   /\ new.active /\ new.handle = old.handle
                   /\ new.deadline_ms > clock
                   /\ new.deadline_ms - old.period_ms <= clock
                   /\ \E n \in 1..new.deadline_ms :
                         /\ new.deadline_ms = old.deadline_ms + n * old.period_ms
                         /\ polled'.skipped = IF n - 1 > MaxSkipped THEN MaxSkipped
                                              ELSE n - 1]_vars
  <2> SUFFICES ASSUME Inv, [Next]_vars, pc = "idle", pc' = "selected"
               PROVE  LET old == polled'.previous
                          new == timers'[polled'.slot]
                      IN  old.period_ms > 0 =>
                              /\ new.active /\ new.handle = old.handle
                              /\ new.deadline_ms > clock
                              /\ new.deadline_ms - old.period_ms <= clock
                              /\ \E n \in 1..new.deadline_ms :
                                    /\ new.deadline_ms = old.deadline_ms + n * old.period_ms
                                    /\ polled'.skipped = IF n - 1 > MaxSkipped THEN MaxSkipped
                                                         ELSE n - 1
    OBVIOUS
  <2>1. PICK i \in TimerSlots :
           /\ Selects(i)
           /\ timers' = [timers EXCEPT ![i] = Rearmed(timers[i])]
           /\ polled' = [slot |-> i, now_ms |-> clock, previous |-> timers[i],
                         skipped |-> Skipped(timers[i])]
    BY OnlyPollSelects DEF Inv
  <2> DEFINE t == timers[i]
             late == clock - t.deadline_ms
             m == late \div t.period_ms
             d == clock + (t.period_ms - (late % t.period_ms))
  <2>2. /\ t \in Timer /\ t.active /\ t.deadline_ms \in Nat /\ t.period_ms \in Nat
        /\ clock \in Nat /\ t.deadline_ms <= clock
    BY <2>1 DEF Inv, TypeOK, Selects, Due, Timer
  <2>3. /\ polled'.previous = t /\ polled'.slot = i /\ polled'.skipped = Skipped(t)
        /\ timers'[i] = Rearmed(t)
    BY <2>1 DEF Inv, TypeOK
  <2>4. SUFFICES ASSUME t.period_ms > 0
                 PROVE  /\ Rearmed(t).active /\ Rearmed(t).handle = t.handle
                        /\ Rearmed(t).deadline_ms > clock
                        /\ Rearmed(t).deadline_ms - t.period_ms <= clock
                        /\ \E n \in 1..(Rearmed(t).deadline_ms) :
                              /\ Rearmed(t).deadline_ms = t.deadline_ms + n * t.period_ms
                              /\ Skipped(t) = IF n - 1 > MaxSkipped THEN MaxSkipped ELSE n - 1
    BY <2>3
  <2>5. late \in Nat /\ t.period_ms \in Nat \ {0}
    BY <2>2, <2>4
  <2>6. /\ late % t.period_ms \in Nat /\ late % t.period_ms < t.period_ms
        /\ m \in Nat /\ late = (t.period_ms * m) + (late % t.period_ms)
    BY <2>5, ModFacts, DivFacts
  <2>7. Rearmed(t).active /\ Rearmed(t).handle = t.handle /\ Rearmed(t).deadline_ms = d
    BY <2>2, <2>5 DEF Rearmed, Timer
  <2>8. d \in Nat /\ d > clock /\ d - t.period_ms <= clock
    <3> DEFINE r == late % t.period_ms
    <3>1. d = clock + (t.period_ms - r) /\ r \in Nat /\ r < t.period_ms
      BY <2>6
    <3> HIDE DEF d, r
    <3> QED
      BY <2>2, <2>5, <3>1
  <2>9. d = t.deadline_ms + (m + 1) * t.period_ms
    <3>1. t.period_ms * m \in Nat /\ (m + 1) * t.period_ms = (t.period_ms * m) + t.period_ms
      BY <2>5, <2>6
    <3> DEFINE r == late % t.period_ms
               pm == t.period_ms * m
    <3>2. clock = t.deadline_ms + late
      BY <2>2
    <3>3. late = pm + r /\ pm \in Nat /\ r \in Nat
      BY <3>1, <2>6
    <3>4. d = clock + (t.period_ms - r)
      OBVIOUS
    <3>5. (m + 1) * t.period_ms = pm + t.period_ms
      BY <3>1
    <3> HIDE DEF r, pm, d, late
    <3> QED
      BY <2>2, <3>2, <3>3, <3>4, <3>5
  <2>10. m + 1 \in 1..d
    <3>0. m + 1 \in Nat
      BY <2>6
    <3> HIDE DEF m, d
    <3>1. m + 1 <= (m + 1) * t.period_ms /\ (m + 1) * t.period_ms \in Nat
      BY <2>5, <3>0, ProductFacts
    <3> QED
      BY <2>2, <2>6, <2>8, <2>9, <3>0, <3>1
  <2>11. Skipped(t) = IF (m + 1) - 1 > MaxSkipped THEN MaxSkipped ELSE (m + 1) - 1
    <3>1. PeriodsMissed(t) = m
      BY <2>4, <2>2 DEF PeriodsMissed
    <3>2. (m + 1) - 1 = m
      BY <2>6
    <3> QED
      BY <3>1, <3>2 DEF Skipped
  <2> HIDE DEF m, d
  <2> QED
    BY <2>7, <2>8, <2>9, <2>10, <2>11
<1> QED
  BY <1>1, RuntimeAlways, PTL DEF Spec, PeriodsCoalesced
=============================================================================
