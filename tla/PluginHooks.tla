----------------------------- MODULE PluginHooks -----------------------------
(***************************************************************************)
(* Hooks of plugins (internal/plugin): the circuit breaker in front of one *)
(* hook, synchronous chains with compensation, and asynchronous hooks.     *)
(***************************************************************************)
EXTENDS Integers, Sequences, FiniteSets

(***************************************************************************)
(* The circuit breaker of one plugin and hook                              *)
(* (internal/plugin/circuit_breaker.go).  Its fields are atomics, read and *)
(* written one after the other by the calls of all goroutines: nothing     *)
(* holds between two accesses of one call.  The counters are only compared *)
(* with their limits and stop one above them.                              *)
(***************************************************************************)

CONSTANTS
    HookCallers,            \* goroutines that dispatch the hook
    FailureThreshold,       \* HookBreakerFailureThreshold
    HalfOpenMaxCalls        \* HookBreakerHalfOpenMaxCalls

ASSUME BreakerAssumption == FailureThreshold \in Nat \ {0} /\ HalfOpenMaxCalls \in Nat

VARIABLES
    breakerState,   \* closed, open or half-open
    failures,       \* consecutive failures
    tests,          \* test calls allowed in the half-open state
    cooled,         \* the last failure is older than HookBreakerResetTimeout
    caller          \* step of every goroutine

breakerVars == <<breakerState, failures, tests, cooled, caller>>

BreakerInit ==
    /\ breakerState = "closed" /\ failures = 0 /\ tests = 0 /\ cooled = TRUE
    /\ caller = [c \in HookCallers |-> "idle"]

BreakerTypeOK ==
    /\ breakerState \in {"closed", "open", "half-open"}
    /\ failures \in 0 .. FailureThreshold /\ tests \in 0 .. HalfOpenMaxCalls + 1
    /\ cooled \in BOOLEAN
    /\ caller \in [HookCallers -> {"idle", "swap", "restart", "call", "fail", "few",
                                   "many", "trip", "succeed", "close"}]

AtStep(c, l) == caller[c] = l
Proceed(c, l) == caller' = [caller EXCEPT ![c] = l]
Capped(n, limit) == IF n > limit THEN limit ELSE n

\* allow: what to do depends on the state that is read; a refused call is over.
Allow(c) ==
    /\ AtStep(c, "idle")
    /\ \/ breakerState = "closed" /\ Proceed(c, "call") /\ UNCHANGED tests
       \/ breakerState = "open" /\ cooled /\ Proceed(c, "swap") /\ UNCHANGED tests
       \/ /\ breakerState = "half-open"
          /\ tests' = Capped(tests + 1, HalfOpenMaxCalls + 1)
          /\ IF tests' <= HalfOpenMaxCalls THEN Proceed(c, "call") ELSE UNCHANGED caller
    /\ UNCHANGED <<breakerState, failures, cooled>>

\* The compare-and-swap; who comes too late is admitted as well.
AllowSwap(c) ==
    /\ AtStep(c, "swap")
    /\ \/ breakerState = "open" /\ breakerState' = "half-open" /\ Proceed(c, "restart")
       \/ breakerState # "open" /\ Proceed(c, "call") /\ UNCHANGED breakerState
    /\ UNCHANGED <<failures, tests, cooled>>

AllowRestart(c) ==
    /\ AtStep(c, "restart")
    /\ tests' = 0
    /\ Proceed(c, "call")
    /\ UNCHANGED <<breakerState, failures, cooled>>

\* The call fails or succeeds.
CallEnds(c) ==
    /\ AtStep(c, "call")
    /\ Proceed(c, "fail") \/ Proceed(c, "succeed")
    /\ UNCHANGED <<breakerState, failures, tests, cooled>>

\* recordFailure: it counts, reads the state, and writes it.
RecordFailure(c) ==
    /\ AtStep(c, "fail")
    /\ cooled' = FALSE
    /\ failures' = Capped(failures + 1, FailureThreshold)
    /\ Proceed(c, IF failures + 1 >= FailureThreshold THEN "many" ELSE "few")
    /\ UNCHANGED <<breakerState, tests>>

ReadState(c) ==
    /\ AtStep(c, "few") \/ AtStep(c, "many")
    /\ Proceed(c, IF (AtStep(c, "many") /\ breakerState = "closed") \/ breakerState = "half-open"
                  THEN "trip" ELSE "idle")
    /\ UNCHANGED <<breakerState, failures, tests, cooled>>

\* Mutant: a trip leaves the breaker to be tested at once, by a call that is over.
TripHalfway(c) ==
    /\ AtStep(c, "trip")
    /\ breakerState' = "half-open"
    /\ Proceed(c, "idle")
    /\ UNCHANGED <<failures, tests, cooled>>

Trip(c) ==
    /\ AtStep(c, "trip")
    /\ breakerState' = "open"
    /\ Proceed(c, "idle")
    /\ UNCHANGED <<failures, tests, cooled>>

\* recordSuccess resets the counter, then closes the breaker.
RecordSuccess(c) ==
    /\ AtStep(c, "succeed")
    /\ failures' = 0
    /\ Proceed(c, "close")
    /\ UNCHANGED <<breakerState, tests, cooled>>

CloseBreaker(c) ==
    /\ AtStep(c, "close")
    /\ breakerState' = "closed"
    /\ Proceed(c, "idle")
    /\ UNCHANGED <<failures, tests, cooled>>

\* HookBreakerResetTimeout passes since the last failure.
ResetTimeout ==
    /\ ~cooled
    /\ cooled' = TRUE
    /\ UNCHANGED <<breakerState, failures, tests, caller>>

BreakerNext ==
    \/ ResetTimeout
    \/ \E c \in HookCallers :
        \/ Allow(c) \/ AllowSwap(c) \/ AllowRestart(c) \/ CallEnds(c)
        \/ RecordFailure(c) \/ ReadState(c) \/ Trip(c)
        \/ RecordSuccess(c) \/ CloseBreaker(c)

BreakerSpec == BreakerInit /\ [][BreakerNext]_breakerVars

-----------------------------------------------------------------------------
\* circuit_breaker.go: a half-open breaker always has a call under way whose outcome will
\* close it or open it again, whichever way the accesses of the calls interleave.  Nothing
\* else leaves that state: a breaker without such a call would refuse the hook for good.
HalfOpenHasTester ==
    breakerState = "half-open" => \E c \in HookCallers : caller[c] \notin {"idle", "swap"}

-----------------------------------------------------------------------------
(***************************************************************************)
(* One synchronous hook over a chain of plugins (internal/plugin,          *)
(* dispatcher.go and dispatcher_compensation.go).  The dispatch copies the *)
(* registrations and works through them in order of priority, here the     *)
(* number of the plugin; when a plugin fails, DispatchSyncSafe asks those  *)
(* that ran before to undo what they did.  Administrators enable and       *)
(* disable plugins meanwhile.                                              *)
(***************************************************************************)

CONSTANTS
    ChainLength,        \* plugins 1 .. ChainLength, in order of priority
    Undoing,            \* plugins with a ".compensate" hook
    MaxDispatches,      \* bound on the dispatches
    MaxSwitches         \* bound on the plugins switched on or off

ASSUME ChainAssumption == ChainLength \in Nat /\ Undoing \subseteq 1 .. ChainLength

VARIABLES
    hooked,         \* plugins whose hooks are registered
    chain,          \* the dispatch under way
    dispatches,
    switches

chainVars == <<hooked, chain, dispatches, switches>>

Plugins == 1 .. ChainLength

\* mode: DispatchSyncSafe or DispatchSync; executed: plugins that ran, in order; undone:
\* plugins compensated, in order; failed: FailedCompensations; gone, history: plugins whose
\* compensation found no registration any more.
NoDispatch == [pc |-> "none", mode |-> "safe", todo |-> {}, executed |-> <<>>, result |-> "ok",
               left |-> <<>>, undone |-> <<>>, failed |-> {}, gone |-> {}]

ChainInit ==
    /\ hooked = Plugins
    /\ chain = NoDispatch
    /\ dispatches = 0 /\ switches = 0

\* Plugin p is the next one of the copy.
Turn(p) == chain.pc = "chain" /\ p \in chain.todo /\ \A q \in chain.todo : p <= q
Seen(s) == {s[i] : i \in DOMAIN s}

-----------------------------------------------------------------------------
\* DispatchSync and DispatchSyncSafe copy the registrations under the lock.
Dispatch(mode) ==
    /\ chain.pc \in {"none", "done"}
    /\ dispatches < MaxDispatches /\ dispatches' = dispatches + 1
    /\ chain' = [NoDispatch EXCEPT !.pc = "chain", !.mode = mode, !.todo = hooked]
    /\ UNCHANGED <<hooked, switches>>

\* An open breaker refuses the plugin: the safe dispatch goes on without it.
StepRefused(p) ==
    /\ Turn(p)
    /\ chain' = IF chain.mode = "safe" THEN [chain EXCEPT !.todo = @ \ {p}]
                ELSE [chain EXCEPT !.pc = "done", !.result = "refused"]
    /\ UNCHANGED <<hooked, dispatches, switches>>

\* Continue, modify, or an action that is not known.
StepContinues(p) ==
    /\ Turn(p)
    /\ chain' = [chain EXCEPT !.todo = @ \ {p}, !.executed = Append(@, p)]
    /\ UNCHANGED <<hooked, dispatches, switches>>

\* The call fails, its result cannot be read, or the plugin halts the chain.
StepFails(p) ==
    /\ Turn(p)
    /\ chain' = IF chain.mode = "safe"
                THEN [chain EXCEPT !.pc = "undo", !.result = "failed", !.left = chain.executed]
                ELSE [chain EXCEPT !.pc = "done", !.result = "failed"]
    /\ UNCHANGED <<hooked, dispatches, switches>>

\* Rollback is left to the caller: no compensation.
StepRollsBack(p) ==
    /\ Turn(p)
    /\ chain' = [chain EXCEPT !.pc = "done", !.result = "rollback"]
    /\ UNCHANGED <<hooked, dispatches, switches>>

ChainEnds ==
    /\ chain.pc = "chain" /\ chain.todo = {}
    /\ chain' = [chain EXCEPT !.pc = "done"]
    /\ UNCHANGED <<hooked, dispatches, switches>>

-----------------------------------------------------------------------------
Latest == chain.left[Len(chain.left)]
Earlier == SubSeq(chain.left, 1, Len(chain.left) - 1)
Compensating == chain.pc = "undo" /\ chain.left # <<>>

\* compensateChain looks the registration up at every plugin.
CompensateCall ==
    /\ Compensating
    /\ Latest \in hooked \cap Undoing
    /\ \/ chain' = [chain EXCEPT !.left = Earlier, !.undone = Append(@, Latest)]
       \/ chain' = [chain EXCEPT !.left = Earlier, !.failed = @ \cup {Latest}]
    /\ UNCHANGED <<hooked, dispatches, switches>>

CompensateSkip ==
    /\ Compensating
    /\ Latest \notin hooked \cap Undoing
    /\ chain' = [chain EXCEPT !.left = Earlier, !.gone = @ \cup ({Latest} \ hooked)]
    /\ UNCHANGED <<hooked, dispatches, switches>>

\* Mutant: the deadline ends the compensation without a word.
StopUndoing ==
    /\ Compensating
    /\ chain' = [chain EXCEPT !.left = <<>>]
    /\ UNCHANGED <<hooked, dispatches, switches>>

\* MaxCompensationDuration has passed: the plugins that remain are reported.
CompensateDeadline ==
    /\ Compensating
    /\ chain' = [chain EXCEPT !.left = <<>>, !.failed = @ \cup Seen(chain.left)]
    /\ UNCHANGED <<hooked, dispatches, switches>>

CompensationEnds ==
    /\ chain.pc = "undo" /\ chain.left = <<>>
    /\ chain' = [chain EXCEPT !.pc = "done"]
    /\ UNCHANGED <<hooked, dispatches, switches>>

\* RegisterHooks and UnregisterHooks of plugin p.
Switch(p) ==
    /\ switches < MaxSwitches /\ switches' = switches + 1
    /\ hooked' = IF p \in hooked THEN hooked \ {p} ELSE hooked \cup {p}
    /\ UNCHANGED <<chain, dispatches>>

ChainNext ==
    \/ \E mode \in {"safe", "sync"} : Dispatch(mode)
    \/ \E p \in Plugins : StepRefused(p) \/ StepContinues(p) \/ StepFails(p) \/ StepRollsBack(p)
    \/ ChainEnds
    \/ CompensateCall \/ CompensateSkip \/ CompensateDeadline \/ CompensationEnds
    \/ \E p \in Plugins : Switch(p)

ChainSpec == ChainInit /\ [][ChainNext]_chainVars

-----------------------------------------------------------------------------
\* DispatchSyncSafe: after a plugin has failed, every plugin that ran before it and can
\* undo its work was asked to, the last first and each once, or is reported in
\* FailedCompensations, unless it was switched off meanwhile; no other plugin was asked.
FailureIsCompensated ==
    chain.pc = "done" /\ chain.mode = "safe" /\ chain.result = "failed" =>
        /\ Seen(chain.executed) \cap Undoing \subseteq Seen(chain.undone) \cup chain.failed \cup chain.gone
        /\ Seen(chain.undone) \cup chain.failed \subseteq Seen(chain.executed)
        /\ \A i, j \in DOMAIN chain.undone : i < j => chain.undone[i] > chain.undone[j]

-----------------------------------------------------------------------------
(***************************************************************************)
(* One asynchronous hook: DispatchAsync stores its event in the outbox,    *)
(* from a goroutine that keeps the context of the request, and             *)
(* PluginAsyncConsumer calls the plugins                                   *)
(* (internal/adapter/nats/plugin_events.go).  The consumer counts the      *)
(* attempts in memory and dead-letters the message at the limit.           *)
(***************************************************************************)

CONSTANTS
    AsyncPlugins,       \* plugins that registered for the hook
    MaxAsyncRetries,    \* MaxPluginAsyncRetries
    MaxAsyncFaults      \* bound on database errors, DLQ errors, restarts and duplicates

ASSUME AsyncAssumption == MaxAsyncRetries \in Nat \ {0} /\ MaxAsyncFaults \in Nat

VARIABLES
    request,        \* the request that dispatched the hook is under way
    publishing,     \* attempts DispatchAsync has left, -1 when it is over
    asyncMsg,       \* none, queued (in the outbox or on the stream), handled, acked
    toCall,         \* plugins the consumer still has to call
    handledBy,      \* plugins that handled the message in this attempt
    attempt,        \* retryCount of the message
    deadLettered,
    asyncFaults,
    served,         \* history: plugins that handled it in an attempt that was acked
    dropped         \* history: the dead letter could not be published

asyncVars == <<request, publishing, asyncMsg, toCall, handledBy, attempt, deadLettered,
               asyncFaults, served, dropped>>

AsyncRetryAttempts == 3

AsyncInit ==
    /\ request = TRUE
    /\ publishing = AsyncRetryAttempts
    /\ asyncMsg = "none"
    /\ toCall = {} /\ handledBy = {}
    /\ attempt = 0
    /\ deadLettered = FALSE
    /\ asyncFaults = 0
    /\ served = {} /\ dropped = FALSE

AsyncFault == asyncFaults < MaxAsyncFaults /\ asyncFaults' = asyncFaults + 1
producerVars == <<request, publishing>>

-----------------------------------------------------------------------------
\* The insert needs a context that is not cancelled.
Publish ==
    /\ publishing > 0 /\ request
    /\ asyncMsg' = "queued"
    /\ publishing' = -1
    /\ UNCHANGED <<request, toCall, handledBy, attempt, deadLettered, asyncFaults, served, dropped>>

PublishError ==
    /\ publishing > 0
    /\ \/ ~request /\ UNCHANGED asyncFaults
       \/ request /\ AsyncFault
    /\ publishing' = IF publishing = 1 THEN -1 ELSE publishing - 1
    /\ UNCHANGED <<request, asyncMsg, toCall, handledBy, attempt, deadLettered, served, dropped>>

RequestEnds ==
    /\ request
    /\ request' = FALSE
    /\ UNCHANGED <<publishing, asyncMsg, toCall, handledBy, attempt, deadLettered, asyncFaults,
                   served, dropped>>

-----------------------------------------------------------------------------
\* A message without an envelope or a hook name never was one of DispatchAsync.
ConsumeAsync ==
    /\ asyncMsg = "queued"
    /\ asyncMsg' = "handled"
    /\ toCall' = AsyncPlugins /\ handledBy' = {}
    /\ UNCHANGED <<producerVars, attempt, deadLettered, asyncFaults, served, dropped>>

\* dispatchToPlugins goes on after a plugin that fails.
CallPlugin(p) ==
    /\ asyncMsg = "handled"
    /\ p \in toCall
    /\ toCall' = toCall \ {p}
    /\ handledBy' \in {handledBy, handledBy \cup {p}}
    /\ UNCHANGED <<producerVars, asyncMsg, attempt, deadLettered, asyncFaults, served, dropped>>

Called == asyncMsg = "handled" /\ toCall = {}
AllHandled == handledBy = AsyncPlugins

\* Mutant: the error of dispatchToPlugins is forgotten.
AckCalled ==
    /\ Called
    /\ asyncMsg' = "acked"
    /\ served' = handledBy
    /\ UNCHANGED <<producerVars, toCall, handledBy, attempt, deadLettered, asyncFaults, dropped>>

AckHandled ==
    /\ Called /\ AllHandled
    /\ asyncMsg' = "acked"
    /\ served' = handledBy
    /\ UNCHANGED <<producerVars, toCall, handledBy, attempt, deadLettered, asyncFaults, dropped>>

NackForRetry ==
    /\ Called /\ ~AllHandled
    /\ attempt + 1 < MaxAsyncRetries
    /\ attempt' = attempt + 1
    /\ asyncMsg' = "queued"
    /\ UNCHANGED <<producerVars, toCall, handledBy, deadLettered, asyncFaults, served, dropped>>

\* sendPluginToDLQ only logs its errors: the message is acked in any case.
SendPluginToDLQ ==
    /\ Called /\ ~AllHandled
    /\ attempt + 1 >= MaxAsyncRetries
    /\ \/ deadLettered' = TRUE /\ UNCHANGED <<asyncFaults, dropped>>
       \/ AsyncFault /\ dropped' = TRUE /\ UNCHANGED deadLettered
    /\ asyncMsg' = "acked"
    /\ attempt' = 0
    /\ UNCHANGED <<producerVars, toCall, handledBy, served>>

\* A restart forgets the attempts, and the publisher's goroutine.
RestartConsumer ==
    /\ AsyncFault
    /\ attempt' = 0
    /\ asyncMsg' = IF asyncMsg = "handled" THEN "queued" ELSE asyncMsg
    /\ toCall' = {} /\ handledBy' = {}
    /\ request' = FALSE /\ publishing' = -1
    /\ UNCHANGED <<deadLettered, served, dropped>>

\* The relay or the stream delivers the message once more.
Redeliver ==
    /\ asyncMsg = "acked"
    /\ AsyncFault
    /\ asyncMsg' = "queued"
    /\ UNCHANGED <<producerVars, toCall, handledBy, attempt, deadLettered, served, dropped>>

AsyncNext ==
    \/ Publish \/ PublishError \/ RequestEnds
    \/ ConsumeAsync \/ (\E p \in AsyncPlugins : CallPlugin(p))
    \/ AckHandled \/ NackForRetry \/ SendPluginToDLQ
    \/ RestartConsumer \/ Redeliver

AsyncSpec == AsyncInit /\ [][AsyncNext]_asyncVars

-----------------------------------------------------------------------------
\* plugin_events.go: a message that is acked was handled by every plugin in one attempt, or
\* has a dead letter, unless the dead letter could not be published; attempts stay below
\* the limit between restarts.
AsyncHookSettled ==
    /\ asyncMsg = "acked" => served = AsyncPlugins \/ deadLettered \/ dropped
    /\ attempt < MaxAsyncRetries
==============================================================================
