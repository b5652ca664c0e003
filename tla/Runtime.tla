------------------------------ MODULE Runtime ------------------------------
(***************************************************************************)
(* The guest executor of runtime.c: one Wasm instance whose entry points   *)
(* (init, on_event, stop) the owner calls one at a time, under a deadline  *)
(* and an instruction budget.  While an entry runs, the guest calls back   *)
(* into the host to log and to start or cancel timers; the owner polls for *)
(* due timers between entries.  Time passes at any point.                  *)
(*                                                                         *)
(* A call that finds call_active set returns BUSY and changes nothing, so  *)
(* it is no action here; RuntimeOwnership models who may open an instance. *)
(* Millisecond times stay far below UINT64_MAX (they come from a signed    *)
(* microsecond counter), so sums of times do not overflow.                 *)
(***************************************************************************)
EXTENDS Naturals

CONSTANTS
    Capabilities,       \* host calls the module imports and is allowed
    MaxTimers,          \* limits.max_timers
    MaxEntryDuration,   \* limits.max_entry_duration_ms
    MaxLog,             \* limits.max_log_bytes
    Delays, Periods,    \* arguments the guest passes to timer_start
    MaxHandle,          \* UINT64_MAX, the last timer handle
    MaxSkipped,         \* UINT32_MAX, the largest count of skipped periods
    ClockFails,         \* whether reading the clock may fail
    MaxClock            \* bound on the time explored

ASSUME RuntimeAssumption ==
    /\ Capabilities \subseteq {"monotonic_time", "log", "timer"}
    /\ MaxTimers \in Nat /\ MaxEntryDuration \in Nat \ {0} /\ MaxLog \in Nat
    /\ Delays \subseteq Nat \ {0} /\ Periods \subseteq Nat
    /\ MaxHandle \in Nat \ {0} /\ MaxSkipped \in Nat /\ MaxClock \in Nat
    /\ ClockFails \in BOOLEAN

VARIABLES
    clock,              \* monotonic_ms
    next_timer_handle,  \* global allocator; 0 when all handles are used up
    opened,             \* an instance exists
    state,              \* econtainer_runtime_state_t
    stopping,
    timers,             \* the table of timers
    pending_log_size,
    log_origin,         \* history: which entry wrote the pending log
    pc,                 \* "idle", "selected" (timer chosen), "guest" (in Wasm)
    entry,              \* the entry point being called
    entry_deadline_ms,
    entry_expired,
    exception,          \* a host call has raised an exception in the guest
    prior_log_size,     \* local of invoke
    polled,             \* locals of poll_timer
    result,             \* result of the last method
    issued,             \* history: every handle given to a guest
    settled,            \* history: handles delivered for the last time, or given up
    overtaken           \* history: <<h, b>> when h was delivered while b was due

host     == <<clock, next_timer_handle>>
instance == <<opened, state, stopping, timers, pending_log_size>>
call     == <<pc, entry, entry_deadline_ms, entry_expired, exception,
              prior_log_size, polled, result>>
history  == <<log_origin, issued, settled, overtaken>>
vars     == <<host, instance, call, history>>

TimerSlots == 1..MaxTimers
NoTimer    == [handle |-> 0, deadline_ms |-> 0, period_ms |-> 0, active |-> FALSE]
NotPolled  == [slot |-> 0, now_ms |-> 0, previous |-> NoTimer, skipped |-> 0]

Results ==
    {"OK", "INVALID_INPUT", "INVALID_STATE", "NO_MEMORY", "ENGINE_FAILURE",
     "INSTRUCTION_LIMIT", "GUEST_FAILURE", "NO_LOG", "NO_TIMER", "ENTRY_EXPIRED"}

Fresh ==    \* calloc'ed runtime, as open returns it
    /\ state' = "LOADED"
    /\ stopping' = FALSE
    /\ timers' = [i \in TimerSlots |-> NoTimer]
    /\ pending_log_size' = 0
    /\ log_origin' = "none"

Init ==
    /\ clock = 0 /\ next_timer_handle = 1
    /\ opened = FALSE /\ state = "LOADED" /\ stopping = FALSE
    /\ timers = [i \in TimerSlots |-> NoTimer]
    /\ pending_log_size = 0 /\ log_origin = "none"
    /\ pc = "idle" /\ entry = "none" /\ entry_deadline_ms = 0
    /\ entry_expired = FALSE /\ exception = FALSE /\ prior_log_size = 0
    /\ polled = NotPolled /\ result = "OK"
    /\ issued = {} /\ settled = {} /\ overtaken = {}

-----------------------------------------------------------------------------
(* Opening and closing an instance; the handle allocator outlives both. *)

Open ==
    /\ ~opened
    /\ opened' = TRUE
    /\ Fresh
    /\ result' = "OK"
    /\ UNCHANGED <<host, pc, entry, entry_deadline_ms, entry_expired, exception,
                   prior_log_size, polled, issued, settled, overtaken>>

(* release_runtime; a failed or trapped instance can be closed too. *)
Close ==
    /\ opened /\ pc = "idle"
    /\ opened' = FALSE
    /\ Fresh
    /\ entry_deadline_ms' = 0 /\ entry_expired' = FALSE
    /\ overtaken' = {} /\ settled' = issued
    /\ result' = "OK"
    /\ UNCHANGED <<host, pc, entry, exception, prior_log_size, polled, issued>>

-----------------------------------------------------------------------------
(* Entering and leaving the guest. *)

Disarmed == [i \in TimerSlots |-> [timers[i] EXCEPT !.active = FALSE]]

(* The first half of invoke.  An entry's clock starts before the guest. *)
Invoke(name) ==
    /\ pc' = "guest"
    /\ entry' = name
    /\ entry_deadline_ms' = clock + MaxEntryDuration
    /\ entry_expired' = FALSE
    /\ exception' = FALSE
    /\ prior_log_size' = pending_log_size
    /\ log_origin' = IF log_origin = "current" THEN "earlier" ELSE log_origin
    /\ result' = "none"

(* ... which fails at once when the clock cannot be read. *)
InvokeFails ==
    /\ ClockFails
    /\ state' = "FAILED"
    /\ result' = "ENGINE_FAILURE"
    /\ pc' = "idle"
    /\ polled' = NotPolled
    /\ UNCHANGED <<host, opened, stopping, pending_log_size, entry,
                   entry_deadline_ms, entry_expired, exception, prior_log_size,
                   history>>

Refuse(r) ==
    /\ result' = r
    /\ UNCHANGED <<host, instance, pc, entry, entry_deadline_ms, entry_expired,
                   exception, prior_log_size, polled, history>>

MayInit == state = "LOADED"

InitCall ==
    /\ opened /\ pc = "idle"
    /\ \/ ~MayInit /\ Refuse("INVALID_STATE")
       \/ MayInit /\ InvokeFails /\ timers' = Disarmed
       \/ /\ MayInit
          /\ Invoke("init")
          /\ UNCHANGED <<host, instance, polled, issued, settled, overtaken>>

(* An event that imitates the encoding of a timer event is refused; one    *)
(* that does not fit into the guest's heap is not delivered.               *)
OnEvent ==
    /\ opened /\ pc = "idle"
    /\ \/ state # "RUNNING" /\ Refuse("INVALID_STATE")
       \/ state = "RUNNING" /\ \E r \in {"INVALID_INPUT", "NO_MEMORY"} : Refuse(r)
       \/ state = "RUNNING" /\ InvokeFails /\ UNCHANGED timers
       \/ /\ state = "RUNNING"
          /\ Invoke("event")
          /\ UNCHANGED <<host, instance, polled, issued, settled, overtaken>>

(* Timers are cancelled before the guest's stop runs, not after. *)
Stop ==
    /\ opened /\ pc = "idle"
    /\ \/ state = "STOPPED" /\ Refuse("OK")
       \/ state \in {"LOADED", "FAILED"} /\ Refuse("INVALID_STATE")
       \/ /\ state = "RUNNING"
          /\ ClockFails
          /\ stopping' = TRUE /\ timers' = Disarmed
          /\ state' = "FAILED" /\ result' = "ENGINE_FAILURE"
          /\ UNCHANGED <<host, opened, pending_log_size, pc, entry,
                         entry_deadline_ms, entry_expired, exception,
                         prior_log_size, polled, history>>
       \/ /\ state = "RUNNING"
          /\ stopping' = TRUE /\ timers' = Disarmed
          /\ Invoke("stop")
          /\ UNCHANGED <<host, opened, state, pending_log_size, polled, issued,
                         settled, overtaken>>

(* The second half of invoke: what became of the entry.  A guest may trap  *)
(* or exhaust its budget at any time, the more so after an exception.      *)
InvokeStatus(s) ==
    \/ s = "ENTRY_EXPIRED" /\ (entry_expired \/ (~exception /\ clock >= entry_deadline_ms))
    \/ s = "INSTRUCTION_LIMIT" /\ ~entry_expired /\ ~exception
    \/ s = "ENGINE_FAILURE" /\ ~entry_expired
    \/ s = "OK" /\ ~entry_expired /\ ~exception /\ clock < entry_deadline_ms

(* Mutant: an expired entry keeps what it logged. *)
MutantExpiredLogKept == pending_log_size

(* expire_entry: the pending log is what it was before the entry. *)
LogAfterExpiry == prior_log_size

(* Mutant: a failed init leaves the timers to be closed with the instance. *)
MutantCancels(s, failed) == s = "ENTRY_EXPIRED"

(* expire_entry cancels the timers, and so does init however it fails. *)
Cancels(s, failed) == s = "ENTRY_EXPIRED" \/ (entry = "init" /\ failed)

(* invoke returns, and the method that called it draws its conclusions.    *)
GuestReturns ==
    /\ pc = "guest"
    /\ \E s \in Results, value \in {0, 1} :
          LET failed == s # "OK" \/ (entry \in {"init", "stop"} /\ value # 0)
          IN  /\ InvokeStatus(s)
              /\ state' = CASE failed                      -> "FAILED"
                            [] ~failed /\ entry = "init"   -> "RUNNING"
                            [] ~failed /\ entry = "stop"   -> "STOPPED"
                            [] ~failed /\ entry \in {"event", "timer"} -> state
              /\ timers' = IF Cancels(s, failed) THEN Disarmed ELSE timers
              /\ pending_log_size' =
                     IF s = "ENTRY_EXPIRED" THEN LogAfterExpiry ELSE pending_log_size
              /\ log_origin' = IF pending_log_size' = 0 THEN "none" ELSE log_origin
              /\ result' = IF s = "OK" /\ failed THEN "GUEST_FAILURE" ELSE s
    /\ pc' = "idle"
    /\ entry' = "none"
    /\ exception' = FALSE
    /\ prior_log_size' = 0
    /\ polled' = NotPolled
    /\ UNCHANGED <<host, opened, stopping, entry_deadline_ms, entry_expired,
                   issued, settled, overtaken>>

-----------------------------------------------------------------------------
(* Host calls.  An exception ends the guest's code: it makes no more calls. *)

(* native_owner: every host call first looks at the deadline.  A call that *)
(* only reads the clock (native_monotonic_ms) does nothing else.           *)
HostCallRefused ==
    /\ pc = "guest" /\ ~exception
    /\ Capabilities # {}
    /\ \/ clock >= entry_deadline_ms /\ entry_expired' = TRUE
       \/ ClockFails /\ entry_expired' = entry_expired
    /\ exception' = TRUE
    /\ UNCHANGED <<host, instance, pc, entry, entry_deadline_ms, prior_log_size,
                   polled, result, history>>

HostCall(capability) ==
    /\ pc = "guest" /\ ~exception
    /\ clock < entry_deadline_ms
    /\ capability \in Capabilities

(* There is room for one log; a second one is refused, not queued. *)
NativeLog ==
    /\ HostCall("log")
    /\ pending_log_size = 0
    /\ pending_log_size' \in 1..MaxLog
    /\ log_origin' = "current"
    /\ UNCHANGED <<host, opened, state, stopping, timers, call, issued, settled,
                   overtaken>>

(* Mutant: the allocator starts again instead of stopping at the end. *)
MutantNextHandle(h) == IF h = MaxHandle THEN 1 ELSE h + 1

(* econtainer_runtime_issue_timer_handle, on 64-bit integers. *)
NextHandle(h) == (h + 1) % (MaxHandle + 1)

(* Mutant: a guest that is being stopped may still start a timer. *)
MutantMayStartTimer == state \in {"LOADED", "RUNNING"}

MayStartTimer == ~stopping /\ state \in {"LOADED", "RUNNING"}

NativeTimerStart ==
    /\ HostCall("timer")
    /\ MayStartTimer
    /\ next_timer_handle # 0
    /\ \E i \in TimerSlots, delay \in Delays, period \in Periods :
          /\ ~timers[i].active
          /\ \A j \in TimerSlots : ~timers[j].active => i <= j
          /\ timers' = [timers EXCEPT ![i] =
                           [handle |-> next_timer_handle, deadline_ms |-> clock + delay,
                            period_ms |-> period, active |-> TRUE]]
    /\ issued' = issued \cup {next_timer_handle}
    /\ next_timer_handle' = NextHandle(next_timer_handle)
    /\ UNCHANGED <<clock, opened, state, stopping, pending_log_size, call,
                   log_origin, settled, overtaken>>

NativeTimerCancel ==
    /\ HostCall("timer")
    /\ ~stopping
    /\ \E i \in TimerSlots :
          /\ timers[i].active
          /\ timers' = [timers EXCEPT ![i].active = FALSE]
          /\ settled' = settled \cup {timers[i].handle}
    /\ UNCHANGED <<host, opened, state, stopping, pending_log_size, call,
                   log_origin, issued, overtaken>>

-----------------------------------------------------------------------------
(* Timers, polled by the owner. *)

Due(i) == timers[i].active /\ timers[i].deadline_ms <= clock

(* Mutant: the first due timer in the table, not the one due longest. *)
MutantSelects(i) == Due(i) /\ \A j \in TimerSlots : Due(j) => i <= j

(* The timer that is due longest; the first in the table among equals. *)
Selects(i) ==
    /\ Due(i)
    /\ \A j \in TimerSlots : Due(j) =>
          \/ timers[i].deadline_ms < timers[j].deadline_ms
          \/ timers[i].deadline_ms = timers[j].deadline_ms /\ i <= j

(* Mutant: the next period is counted from the time of the poll. *)
MutantRearmed(t) ==
    IF t.period_ms = 0 THEN [t EXCEPT !.active = FALSE]
    ELSE [t EXCEPT !.deadline_ms = clock + t.period_ms]

(* A periodic timer moves to its first deadline in the future. *)
Rearmed(t) ==
    IF t.period_ms = 0 THEN [t EXCEPT !.active = FALSE]
    ELSE [t EXCEPT !.deadline_ms =
             clock + (t.period_ms - ((clock - t.deadline_ms) % t.period_ms))]

PeriodsMissed(t) ==
    IF t.period_ms = 0 THEN 0 ELSE (clock - t.deadline_ms) \div t.period_ms

(* Mutant: the count of skipped periods is not capped. *)
MutantSkipped(t) == PeriodsMissed(t)

Skipped(t) ==
    IF PeriodsMissed(t) > MaxSkipped THEN MaxSkipped ELSE PeriodsMissed(t)

(* The earliest deadline is reported; nothing changes. *)
NextTimerDeadline ==
    /\ opened /\ pc = "idle"
    /\ \/ state # "RUNNING" /\ Refuse("INVALID_STATE")
       \/ /\ state = "RUNNING"
          /\ Refuse(IF \E i \in TimerSlots : timers[i].active THEN "OK" ELSE "NO_TIMER")

(* poll_timer up to the allocation of the event in the guest's heap. *)
PollTimer ==
    /\ opened /\ pc = "idle"
    /\ \/ state # "RUNNING" /\ Refuse("INVALID_STATE")
       \/ state = "RUNNING" /\ ClockFails /\ Refuse("ENGINE_FAILURE")
       \/ /\ state = "RUNNING"
          /\ \A i \in TimerSlots : ~Due(i)
          /\ Refuse("NO_TIMER")
       \/ /\ state = "RUNNING"
          /\ \E i \in TimerSlots :
                /\ Selects(i)
                /\ timers' = [timers EXCEPT ![i] = Rearmed(timers[i])]
                /\ polled' = [slot |-> i, now_ms |-> clock, previous |-> timers[i],
                              skipped |-> Skipped(timers[i])]
          /\ pc' = "selected"
          /\ result' = "none"
          /\ UNCHANGED <<host, opened, state, stopping, pending_log_size, entry,
                         entry_deadline_ms, entry_expired, exception,
                         prior_log_size, history>>

(* Mutant: the timer is not put back when its event cannot be delivered. *)
MutantRestored == timers

Restored == [timers EXCEPT ![polled.slot] = polled.previous]

TimerEventNoMemory ==
    /\ pc = "selected"
    /\ timers' = Restored
    /\ pc' = "idle"
    /\ polled' = NotPolled
    /\ result' = "NO_MEMORY"
    /\ UNCHANGED <<host, opened, state, stopping, pending_log_size, entry,
                   entry_deadline_ms, entry_expired, exception, prior_log_size,
                   history>>

(* The timers that were due too when this one was selected. *)
PassedOver ==
    {i \in TimerSlots \ {polled.slot} :
        timers[i].active /\ timers[i].deadline_ms <= polled.now_ms}

DeliverTimerEvent ==
    LET h       == polled.previous.handle
        waiting == {timers[i].handle : i \in PassedOver}
    IN  /\ pc = "selected"
        /\ \/ InvokeFails /\ UNCHANGED timers
           \/ /\ Invoke("timer")
              /\ overtaken' = {p \in overtaken : p[2] # h} \cup {<<h, b>> : b \in waiting}
              /\ settled' = IF timers[polled.slot].active THEN settled
                            ELSE settled \cup {h}
              /\ UNCHANGED <<host, instance, polled, issued>>

(* The owner takes the log out, or offers too small a buffer for it. *)
TakeLog ==
    /\ opened /\ pc = "idle"
    /\ \/ pending_log_size = 0 /\ Refuse("NO_LOG")
       \/ pending_log_size > 0 /\ Refuse("INVALID_INPUT")
       \/ /\ pending_log_size > 0
          /\ pending_log_size' = 0
          /\ log_origin' = "none"
          /\ result' = "OK"
          /\ UNCHANGED <<host, opened, state, stopping, timers, pc, entry,
                         entry_deadline_ms, entry_expired, exception,
                         prior_log_size, polled, issued, settled, overtaken>>

Tick ==
    /\ clock < MaxClock
    /\ clock' = clock + 1
    /\ UNCHANGED <<next_timer_handle, instance, call, history>>

-----------------------------------------------------------------------------

Next ==
    \/ Open \/ Close \/ InitCall \/ OnEvent \/ Stop \/ GuestReturns
    \/ HostCallRefused \/ NativeLog \/ NativeTimerStart \/ NativeTimerCancel
    \/ NextTimerDeadline \/ PollTimer \/ TimerEventNoMemory
    \/ DeliverTimerEvent \/ TakeLog \/ Tick

Spec == Init /\ [][Next]_vars

-----------------------------------------------------------------------------
(* Properties. *)

Timer == [handle : 0..MaxHandle, deadline_ms : Nat, period_ms : Nat, active : BOOLEAN]

(* Every variable has its type; sizes and handles stay within their limits. *)
TypeOK ==
    /\ clock \in 0..MaxClock
    /\ next_timer_handle \in 0..MaxHandle
    /\ opened \in BOOLEAN
    /\ state \in {"LOADED", "RUNNING", "STOPPED", "FAILED"}
    /\ stopping \in BOOLEAN
    /\ timers \in [TimerSlots -> Timer]
    /\ pending_log_size \in 0..MaxLog
    /\ log_origin \in {"none", "earlier", "current"}
    /\ pc \in {"idle", "selected", "guest"}
    /\ entry \in {"none", "init", "event", "timer", "stop"}
    /\ entry_deadline_ms \in Nat
    /\ entry_expired \in BOOLEAN /\ exception \in BOOLEAN
    /\ prior_log_size \in 0..MaxLog
    /\ polled \in [slot : 0..MaxTimers, now_ms : Nat, previous : Timer,
                   skipped : 0..MaxSkipped]
    /\ result \in Results \cup {"none"}
    /\ issued \subseteq 1..MaxHandle /\ settled \subseteq issued
    /\ overtaken \subseteq (1..MaxHandle) \X (1..MaxHandle)

(* Nothing is armed once the instance is stopping or stopped, nor after an *)
(* entry expired or init failed in whatever way: whatever the guest does   *)
(* in its stop entry, no timer of it survives, and what init armed before  *)
(* it failed is cancelled.  And a failed instance arms nothing any more.   *)
NoTimerSurvives ==
    [][/\ \/ stopping' \/ state' = "STOPPED"
          \/ opened' /\ result' = "ENTRY_EXPIRED"
          \/ state = "LOADED" /\ state' = "FAILED"
          => \A i \in TimerSlots : ~timers'[i].active
       /\ state = "FAILED" =>
             \A i \in TimerSlots : timers'[i].active => timers[i].active]_vars

(* A handle is armed for the first time only if no guest of this process   *)
(* was ever given it, up to and at the end of the 64-bit range (putting    *)
(* back an undelivered timer is not arming it).                            *)
HandlesNeverReissued ==
    [][\A i \in TimerSlots :
         timers'[i].active /\ pc # "selected" /\ timers'[i].handle # timers[i].handle =>
             timers'[i].handle \notin issued /\ timers'[i].handle # 0]_vars

(* An entry that has not ended before its deadline fails the instance,     *)
(* whatever it returns.  If it is reported as expired, what it logged is    *)
(* withdrawn, a log that was pending before it is still there, and none of *)
(* its timers is armed.                                                    *)
OverrunUndone ==
    [][pc = "guest" /\ pc' = "idle" /\ clock >= entry_deadline_ms =>
         /\ state' = "FAILED"
         /\ result' = "ENTRY_EXPIRED" =>
               /\ pending_log_size' = IF log_origin = "earlier" THEN pending_log_size ELSE 0
               /\ \A i \in TimerSlots : ~timers'[i].active]_vars

(* What docs/operations/host-api-checkpoint.md:15 says of every entry that  *)
(* overran its deadline: the log it wrote is discarded.  invoke compares   *)
(* the clock with the deadline only after a call that did not trap.        *)
OverrunLogDiscarded ==
    [][pc = "guest" /\ pc' = "idle" /\ clock >= entry_deadline_ms /\ log_origin = "current" =>
         pending_log_size' = 0]_vars

(* While a timer is due, no other timer is delivered twice before it: no   *)
(* periodic timer, however short its period and however late the owner     *)
(* polls, starves another.                                                 *)
NoStarvation ==
    [][pc = "selected" /\ pc' = "guest" =>
         \A i \in PassedOver :
             <<polled.previous.handle, timers[i].handle>> \notin overtaken]_vars

(* A periodic timer keeps its phase: after any delay it is due next at the *)
(* first multiple of its period after the poll, and the count of skipped   *)
(* periods accounts for all in between.                                    *)
PeriodsCoalesced ==
    [][pc = "idle" /\ pc' = "selected" =>
         LET old == polled'.previous
             new == timers'[polled'.slot]
         IN  old.period_ms > 0 =>
                 /\ new.active /\ new.handle = old.handle
                 /\ new.deadline_ms > clock
                 /\ new.deadline_ms - old.period_ms <= clock
                 /\ \E n \in 1..new.deadline_ms :
                       /\ new.deadline_ms = old.deadline_ms + n * old.period_ms
                       /\ polled'.skipped = IF n - 1 > MaxSkipped THEN MaxSkipped
                                            ELSE n - 1]_vars

(* No timer is lost and no one-shot timer comes twice: while the instance  *)
(* works, a handle the guest was given is armed until it is cancelled or   *)
(* delivered for the last time, and from then on never armed again.  That  *)
(* includes a timer whose event could not be delivered for want of memory. *)
TimersAccounted ==
    LET Armed(h) == \E i \in TimerSlots : timers[i].active /\ timers[i].handle = h
    IN  /\ \A h \in settled : ~Armed(h)
        /\ opened /\ state \in {"LOADED", "RUNNING"} /\ ~stopping =>
              \A h \in issued \ settled :
                  Armed(h) \/ (pc = "selected" /\ polled.previous.handle = h)
=============================================================================
